--------------------------- MODULE SimPinProofs ----------------------------
(***************************************************************************)
(* Proofs about SimPin, for every set of clients, every budget and every   *)
(* setting of the switches.                                                *)
(*                                                                         *)
(* The guard looks at the attempts and the command uses one up later.  The *)
(* invariant that carries the argument, GuardStands, says when the look is *)
(* still worth something: as long as a secret is not contested, whoever is *)
(* past the guard has two attempts before it.                              *)
(***************************************************************************)
EXTENDS SimPin, FiniteSetTheorems, TLAPS

\* Whoever is past the guard is running an operation that sends a secret.
Running == \A c \in Clients : pc[c] # "idle" => op[c] \in Ops

\* An uncontested secret past the guard is not the last attempt.
GuardStands ==
    \A s \in Secrets :
        s \notin contested /\ Pending(s) # {} => attempts[s] >= 2

IInv == TypeOK /\ Running /\ GuardStands /\ FinalAttemptContested

---------------------------------------------------------------------------

LEMMA InitInv == Init => IInv
<1> SUFFICES ASSUME Init PROVE IInv
    OBVIOUS
<1> USE FullAssumption, BoundAssumption, SwitchesAssumption
<1>1. PICK pin \in 1 .. Full["pin"], puk \in 1 .. Full["puk"] :
        attempts = [s \in Secrets |-> IF s = "pin" THEN pin ELSE puk]
    BY DEF Init
<1>2. Full["pin"] \in Nat /\ Full["puk"] \in Nat
    BY DEF Secrets
<1>3. \A s \in Secrets : attempts[s] \in Nat /\ 1 <= attempts[s] /\ attempts[s] <= Full[s]
    BY <1>1, <1>2 DEF Secrets
<1>4. attempts \in [Secrets -> Nat]
    BY <1>1, <1>3
<1>5. \A s \in Secrets : Pending(s) = {}
    BY DEF Init, Pending
<1> QED
    BY <1>3, <1>4, <1>5
    DEF Init, IInv, TypeOK, Running, GuardStands, FinalAttemptContested, Outcomes

\* What a secret that is tried leaves behind.
LEMMA Tried ==
    ASSUME IInv, NEW secret \in Secrets, NEW right \in BOOLEAN, Try(secret, right),
           Pending(secret) # {},
           \A s \in Secrets : Pending(s)' \subseteq Pending(s)
    PROVE  /\ attempts' \in [Secrets -> Nat]
           /\ \A s \in Secrets : attempts'[s] <= Full[s]
           /\ contested' \subseteq Secrets
           /\ GuardStands'
           /\ FinalAttemptContested'
<1> USE FullAssumption
<1>1. /\ attempts \in [Secrets -> Nat]
      /\ \A s \in Secrets : attempts[s] <= Full[s]
      /\ contested \subseteq Secrets
    BY DEF IInv, TypeOK
<1>2. \A s \in Secrets : Full[s] \in Nat /\ Full[s] >= 2
    OBVIOUS
<1>3. contested' = IF Pending(secret)' = {} THEN contested ELSE contested \cup {secret}
    BY DEF Try
<1>4. CASE attempts[secret] = 0
    <2>1. attempts' = attempts
        BY <1>4 DEF Try
    <2>2. GuardStands'
        <3> SUFFICES ASSUME NEW s \in Secrets, s \notin contested', Pending(s)' # {}
                     PROVE  attempts'[s] >= 2
            BY DEF GuardStands
        <3>1. s \notin contested /\ Pending(s) # {}
            BY <1>3
        <3> QED
            BY <2>1, <3>1 DEF IInv, GuardStands
    <2>3. FinalAttemptContested'
        BY <2>1, <1>3 DEF IInv, FinalAttemptContested
    <2> QED
        BY <1>1, <1>3, <2>1, <2>2, <2>3
<1>5. CASE attempts[secret] # 0 /\ ~right
    <2>1. attempts' = [attempts EXCEPT ![secret] = @ - 1]
        BY <1>5 DEF Try
    <2>2. attempts[secret] \in Nat /\ attempts[secret] >= 1
        BY <1>1, <1>5
    <2>3. attempts' \in [Secrets -> Nat] /\ \A s \in Secrets : attempts'[s] <= attempts[s]
        BY <1>1, <2>1, <2>2
    <2>4. \A s \in Secrets : attempts'[s] <= Full[s]
        BY <1>1, <1>2, <2>3
    <2>5. GuardStands'
        <3> SUFFICES ASSUME NEW s \in Secrets, s \notin contested', Pending(s)' # {}
                     PROVE  attempts'[s] >= 2
            BY DEF GuardStands
        <3>1. s # secret
            BY <1>3
        <3>2. s \notin contested /\ Pending(s) # {}
            BY <1>3
        <3> QED
            BY <1>1, <2>1, <3>1, <3>2 DEF IInv, GuardStands
    <2>6. FinalAttemptContested'
        <3> SUFFICES ASSUME NEW s \in Secrets, attempts'[s] = 0
                     PROVE  s \in contested'
            BY DEF FinalAttemptContested
        <3>1. CASE s = secret
            <4>1. attempts[secret] = 1
                BY <1>1, <2>1, <2>2, <3>1
            <4>2. secret \in contested
                BY <4>1 DEF IInv, GuardStands
            <4> QED
                BY <1>3, <3>1, <4>2
        <3>2. CASE s # secret
            BY <1>1, <1>3, <2>1, <3>2 DEF IInv, FinalAttemptContested
        <3> QED
            BY <3>1, <3>2
    <2> QED
        BY <1>1, <1>3, <2>3, <2>4, <2>5, <2>6
<1>6. CASE attempts[secret] # 0 /\ right
    <2>1. attempts' = [s \in Secrets |->
                        IF s = secret \/ secret = "puk" THEN Full[s] ELSE attempts[s]]
        BY <1>6 DEF Try
    <2>2. attempts' \in [Secrets -> Nat] /\ \A s \in Secrets : attempts'[s] <= Full[s]
        BY <1>1, <1>2, <2>1
    <2>3. GuardStands'
        <3> SUFFICES ASSUME NEW s \in Secrets, s \notin contested', Pending(s)' # {}
                     PROVE  attempts'[s] >= 2
            BY DEF GuardStands
        <3>1. s \notin contested /\ Pending(s) # {}
            BY <1>3
        <3>2. attempts[s] >= 2
            BY <3>1 DEF IInv, GuardStands
        <3> QED
            BY <1>2, <2>1, <3>2
    <2>4. FinalAttemptContested'
        <3> SUFFICES ASSUME NEW s \in Secrets, attempts'[s] = 0
                     PROVE  s \in contested'
            BY DEF FinalAttemptContested
        <3>1. attempts[s] = 0
            BY <1>2, <2>1
        <3> QED
            BY <1>3, <3>1 DEF IInv, FinalAttemptContested
    <2> QED
        BY <1>1, <1>3, <2>2, <2>3, <2>4
<1> QED
    BY <1>4, <1>5, <1>6

LEMMA StepInv == IInv /\ [Next]_vars => IInv'
<1> SUFFICES ASSUME IInv, [Next]_vars PROVE IInv'
    OBVIOUS
<1> USE BoundAssumption
<1>1. CASE UNCHANGED vars
    <2>1. \A s \in Secrets : Pending(s)' = Pending(s)
        BY <1>1 DEF Pending, vars, client_vars
    <2> QED
        BY <1>1, <2>1 DEF vars, client_vars, IInv, TypeOK, Running, GuardStands,
                          FinalAttemptContested
<1>2. CASE Next
    <2> PICK c \in Clients : (\E o \in Ops : begin(c, o)) \/ Step(c)
        BY <1>2 DEF Next
    <2>0. Ops \subseteq [kind: {"provide_pin", "enable_pin", "disable_pin", "change_pin",
                                "reset_pin_using_puk"},
                         secret: Secrets, right: BOOLEAN]
        BY DEF Ops, Secrets
    <2>1. CASE \E o \in Ops : begin(c, o)
        <3> PICK o \in Ops : begin(c, o)
            BY <2>1
        <3>1. \A s \in Secrets : Pending(s)' \subseteq Pending(s)
            BY DEF begin, Pending, IInv, TypeOK
        <3>2. TypeOK'
            BY DEF begin, IInv, TypeOK, Outcomes
        <3>3. Running'
            BY DEF begin, IInv, TypeOK, Running
        <3> QED
            BY <3>1, <3>2, <3>3 DEF begin, IInv, GuardStands, FinalAttemptContested
    <2>2. CASE guard_passes(c)
        <3>1. TypeOK' /\ Running'
            BY <2>2 DEF guard_passes, IInv, TypeOK, Running
        <3>2. op[c] \in Ops /\ op[c].secret \in Secrets
            BY <2>2, <2>0 DEF guard_passes, IInv, Running
        <3>3. GuardStands'
            <4> SUFFICES ASSUME NEW s \in Secrets, s \notin contested', Pending(s)' # {}
                         PROVE  attempts'[s] >= 2
                BY DEF GuardStands
            <4>1. CASE s = op[c].secret
                BY <2>2, <3>2, <4>1 DEF guard_passes, Preserves, IInv, TypeOK
            <4>2. CASE s # op[c].secret
                <5>1. Pending(s)' \subseteq Pending(s)
                    BY <2>2, <4>2 DEF guard_passes, Pending, IInv, TypeOK
                <5> QED
                    BY <2>2, <5>1 DEF guard_passes, IInv, GuardStands
            <4> QED
                BY <4>1, <4>2
        <3>4. FinalAttemptContested'
            BY <2>2 DEF guard_passes, IInv, FinalAttemptContested
        <3> QED
            BY <3>1, <3>3, <3>4 DEF IInv
    <2>3. CASE guard_refuses(c) \/ exchange_fails(c)
        <3>1. \A s \in Secrets : Pending(s)' \subseteq Pending(s)
            BY <2>3 DEF guard_refuses, exchange_fails, End, Pending, IInv, TypeOK
        <3>2. TypeOK' /\ Running'
            BY <2>3 DEF guard_refuses, exchange_fails, End, IInv, TypeOK, Running, Outcomes
        <3> QED
            BY <2>3, <3>1, <3>2 DEF guard_refuses, exchange_fails, IInv, GuardStands,
                                    FinalAttemptContested
    <2>4. CASE command_served(c)
        <3>1. op[c] \in Ops /\ op[c].secret \in Secrets /\ op[c].right \in BOOLEAN
            BY <2>4, <2>0 DEF command_served, IInv, Running
        <3>2. \A s \in Secrets : Pending(s)' \subseteq Pending(s)
            BY <2>4 DEF command_served, End, Pending, IInv, TypeOK
        <3>3. c \in Pending(op[c].secret)
            BY <2>4 DEF command_served, Pending
        <3>4. Try(op[c].secret, op[c].right)
            BY <2>4 DEF command_served
        <3>5. /\ attempts' \in [Secrets -> Nat]
              /\ \A s \in Secrets : attempts'[s] <= Full[s]
              /\ contested' \subseteq Secrets
              /\ GuardStands'
              /\ FinalAttemptContested'
            BY <3>1, <3>2, <3>3, <3>4, Tried
        <3>6. TypeOK' /\ Running'
            BY <2>4, <3>5 DEF command_served, End, IInv, TypeOK, Running, Outcomes
        <3> QED
            BY <3>5, <3>6 DEF IInv
    <2>5. CASE command_on_its_way(c)
        <3>1. op[c] \in Ops /\ op[c].secret \in Secrets /\ op[c].right \in BOOLEAN
            BY <2>5, <2>0 DEF command_on_its_way, IInv, Running
        <3>2. TypeOK' /\ Running'
            BY <2>5, <3>1 DEF command_on_its_way, End, IInv, TypeOK, Running, Outcomes
        <3>3. \A s \in Secrets : Pending(s)' \subseteq Pending(s)
            BY <2>5, <3>1 DEF command_on_its_way, End, Pending, IInv, TypeOK
        <3> QED
            BY <2>5, <3>2, <3>3 DEF command_on_its_way, IInv, GuardStands,
                                    FinalAttemptContested
    <2>6. CASE served_late(c)
        <3> PICK sent \in late[c] :
                /\ late' = [late EXCEPT ![c] = @ \ {sent}]
                /\ Try(sent.secret, sent.right)
            BY <2>6 DEF served_late
        <3>1. sent.secret \in Secrets /\ sent.right \in BOOLEAN
            BY DEF IInv, TypeOK
        <3>2. \A s \in Secrets : Pending(s)' \subseteq Pending(s)
            BY <2>6 DEF served_late, client_vars, Pending, IInv, TypeOK
        <3>3. c \in Pending(sent.secret)
            BY DEF Pending
        <3>4. /\ attempts' \in [Secrets -> Nat]
              /\ \A s \in Secrets : attempts'[s] <= Full[s]
              /\ contested' \subseteq Secrets
              /\ GuardStands'
              /\ FinalAttemptContested'
            BY <3>1, <3>2, <3>3, Tried
        <3>5. TypeOK' /\ Running'
            BY <2>6, <3>4 DEF served_late, client_vars, IInv, TypeOK, Running
        <3> QED
            BY <3>4, <3>5 DEF IInv
    <2> QED
        BY <2>1, <2>2, <2>3, <2>4, <2>5, <2>6 DEF Step
<1> QED
    BY <1>1, <1>2

\* The inductive invariant holds throughout.
THEOREM Inductive == Spec => []IInv
<1> QED
    BY InitInv, StepInv, PTL DEF Spec

\* Every variable keeps its type.
THEOREM TypeCorrect == Spec => []TypeOK
<1>1. IInv => TypeOK
    BY DEF IInv
<1> QED
    BY <1>1, Inductive, PTL

\* However many clients share a SIM and however late their commands are served,
\* its last attempt goes only where two secrets were past the guard together.
THEOREM Contested == Spec => []FinalAttemptContested
<1>1. IInv => FinalAttemptContested
    BY DEF IInv
<1> QED
    BY <1>1, Inductive, PTL

\* Nothing is on its way and nothing is contested.
Alone == contested = {} /\ \A c \in Clients : late[c] = {}

\* One client whose commands are answered or lost keeps the last attempt: what
\* it sends is the only secret past the guard.
THEOREM FinalAttempt ==
    ASSUME NEW c0, Clients = {c0}, ~Late
    PROVE  Spec => []FinalAttemptKept
<1>1. Init => Alone
    BY DEF Init, Alone
<1>2. ASSUME IInv, Alone, [Next]_vars PROVE Alone'
    <2>1. CASE UNCHANGED vars
        BY <1>2, <2>1 DEF Alone, vars
    <2>2. CASE \E o \in Ops : begin(c0, o)
        BY <1>2, <2>2 DEF Alone, begin
    <2>3. CASE guard_passes(c0) \/ guard_refuses(c0) \/ exchange_fails(c0)
        BY <1>2, <2>3 DEF Alone, guard_passes, guard_refuses, exchange_fails
    <2>4. CASE command_served(c0)
        <3>1. late' = late
            BY <2>4 DEF command_served
        <3>2. pc'[c0] = "idle"
            BY <1>2, <2>4 DEF command_served, End, IInv, TypeOK
        <3>3. Pending(op[c0].secret)' = {}
            BY <1>2, <3>1, <3>2, <2>4 DEF Pending, Alone, command_served
        <3>4. Pending(op[c0].secret)' = {} => contested' = contested
            BY <2>4 DEF command_served, Try
        <3> QED
            BY <1>2, <3>1, <3>3, <3>4 DEF Alone
    <2>5. CASE command_on_its_way(c0) \/ served_late(c0)
        BY <1>2, <2>5 DEF Alone, command_on_its_way, served_late
    <2> QED
        BY <1>2, <2>1, <2>2, <2>3, <2>4, <2>5 DEF Next, Step
<1>3. IInv /\ Alone => FinalAttemptKept
    BY DEF IInv, TypeOK, Alone, FinalAttemptContested, FinalAttemptKept
<1> QED
    BY <1>1, <1>2, <1>3, Inductive, PTL DEF Spec

---------------------------------------------------------------------------
(* The guard as AttemptGuard                                               *)

\* Each client has one command on its way at most, and none when nothing is
\* served late.
LateInv ==
    \A c \in Clients :
        /\ ~Late => late[c] = {}
        /\ \A a, b \in late[c] : a = b

LEMMA LateInvariant == Spec => []LateInv
<1>1. Init => LateInv
    BY DEF Init, LateInv
<1>2. ASSUME IInv, LateInv, [Next]_vars PROVE LateInv'
    <2>. late \in [Clients -> SUBSET [secret: Secrets, right: BOOLEAN]]
        BY <1>2 DEF IInv, TypeOK
    <2>1. CASE UNCHANGED late
        BY <1>2, <2>1 DEF LateInv
    <2>2. CASE \E c \in Clients : command_on_its_way(c)
        BY <1>2, <2>2 DEF LateInv, command_on_its_way
    <2>3. CASE \E c \in Clients : served_late(c)
        BY <1>2, <2>3 DEF LateInv, served_late
    <2>. QED
        BY <1>2, <2>1, <2>2, <2>3 DEF Next, Step, vars, begin, guard_passes,
           guard_refuses, exchange_fails, command_served
<1>. QED
    BY <1>1, <1>2, Inductive, PTL DEF Spec

\* What becomes of the claims when a client comes to send, or sends no more.
LEMMA ClaimsChange ==
    ASSUME NEW s, NEW c
    PROVE  /\ c \in Sending(s) <=> <<c, "running">> \in Claims(s)
           /\ c \in OnItsWay(s) <=> <<c, "late">> \in Claims(s)
           /\ Sending(s)' = Sending(s) /\ OnItsWay(s)' = OnItsWay(s)
              => Claims(s)' = Claims(s)
           /\ Sending(s)' = Sending(s) \cup {c} /\ OnItsWay(s)' = OnItsWay(s)
              => Claims(s)' = Claims(s) \cup {<<c, "running">>}
           /\ Sending(s)' = Sending(s) \ {c} /\ OnItsWay(s)' = OnItsWay(s)
              => Claims(s)' = Claims(s) \ {<<c, "running">>}
           /\ Sending(s)' = Sending(s) /\ OnItsWay(s)' = OnItsWay(s) \ {c}
              => Claims(s)' = Claims(s) \ {<<c, "late">>}
           /\ Sending(s)' = Sending(s) \ {c} /\ OnItsWay(s)' = OnItsWay(s) \cup {c}
              => Claims(s)' = (Claims(s) \ {<<c, "running">>}) \cup {<<c, "late">>}
<1>1. \A x : /\ x \in Claims(s) <=> \/ \E d \in Sending(s) : x = <<d, "running">>
                                    \/ \E d \in OnItsWay(s) : x = <<d, "late">>
             /\ x \in Claims(s)' <=> \/ \E d \in Sending(s)' : x = <<d, "running">>
                                     \/ \E d \in OnItsWay(s)' : x = <<d, "late">>
    BY DEF Claims
<1>2. "running" # "late"
    OBVIOUS
<1>3. Sending(s)' = Sending(s) /\ OnItsWay(s)' = OnItsWay(s) => Claims(s)' = Claims(s)
    BY <1>1
<1>4. Sending(s)' = Sending(s) \cup {c} /\ OnItsWay(s)' = OnItsWay(s)
      => Claims(s)' = Claims(s) \cup {<<c, "running">>}
    BY <1>1
<1>5. Sending(s)' = Sending(s) \ {c} /\ OnItsWay(s)' = OnItsWay(s)
      => Claims(s)' = Claims(s) \ {<<c, "running">>}
    BY <1>1, <1>2
<1>6. Sending(s)' = Sending(s) /\ OnItsWay(s)' = OnItsWay(s) \ {c}
      => Claims(s)' = Claims(s) \ {<<c, "late">>}
    BY <1>1, <1>2
<1>7. Sending(s)' = Sending(s) \ {c} /\ OnItsWay(s)' = OnItsWay(s) \cup {c}
      => Claims(s)' = (Claims(s) \ {<<c, "running">>}) \cup {<<c, "late">>}
    BY <1>1, <1>2
<1>8. /\ c \in Sending(s) <=> <<c, "running">> \in Claims(s)
      /\ c \in OnItsWay(s) <=> <<c, "late">> \in Claims(s)
    BY <1>1, <1>2
<1>. QED
    BY <1>3, <1>4, <1>5, <1>6, <1>7, <1>8

\* There is never more than one running and one late claim of a client.
LEMMA ClaimsBounded ==
    ASSUME LateInv, NEW s
    PROVE  /\ MostClaims \in Nat \ {0}
           /\ IsFiniteSet(Claims(s))
           /\ Cardinality(Claims(s)) \in 0 .. MostClaims
           /\ \A c \in Clients : <<c, "running">> \notin Claims(s)
                                 => Cardinality(Claims(s)) < MostClaims
<1>. DEFINE kinds == IF Late THEN {"running", "late"} ELSE {"running"}
<1>1. IsFiniteSet(kinds) /\ Cardinality(kinds) = IF Late THEN 2 ELSE 1
    <2>1. /\ IsFiniteSet({"running"}) /\ Cardinality({"running"}) = 1
          /\ {"running", "late"} = {"running"} \cup {"late"}
          /\ "late" \notin {"running"}
        BY FS_Singleton
    <2>2. /\ IsFiniteSet({"running"} \cup {"late"})
          /\ Cardinality({"running"} \cup {"late"}) = 2
        BY <2>1, FS_AddElement
    <2>. QED
        BY <2>1, <2>2
<1>2. Claims(s) \subseteq Clients \X kinds
    BY DEF Claims, Sending, OnItsWay, LateInv
<1>3. /\ IsFiniteSet(Clients \X kinds)
      /\ Cardinality(Clients \X kinds) = Cardinality(Clients) * Cardinality(kinds)
    BY <1>1, ClientsAssumption, FS_Product
<1>4. Cardinality(Clients) \in Nat \ {0}
    BY ClientsAssumption, FS_EmptySet, FS_CardinalityType
<1>5. Cardinality(Clients \X kinds) = MostClaims /\ MostClaims \in Nat \ {0}
    BY <1>1, <1>3, <1>4 DEF MostClaims
<1>6. /\ IsFiniteSet(Claims(s)) /\ Cardinality(Claims(s)) \in Nat
      /\ Cardinality(Claims(s)) <= MostClaims
    BY <1>2, <1>3, <1>5, FS_Subset, FS_CardinalityType
<1>7. ASSUME NEW c \in Clients, <<c, "running">> \notin Claims(s)
      PROVE  Cardinality(Claims(s)) < MostClaims
    <2>1. /\ <<c, "running">> \in Clients \X kinds
          /\ Claims(s) \subseteq (Clients \X kinds) \ {<<c, "running">>}
        BY <1>2, <1>7
    <2>2. /\ IsFiniteSet((Clients \X kinds) \ {<<c, "running">>})
          /\ Cardinality((Clients \X kinds) \ {<<c, "running">>}) = MostClaims - 1
        BY <1>3, <1>5, <2>1, FS_RemoveElement
    <2>3. Cardinality(Claims(s)) <= MostClaims - 1
        BY <2>1, <2>2, FS_Subset
    <2>. QED
        BY <1>5, <1>6, <2>3
<1>. QED
    BY <1>5, <1>6, <1>7

\* What a step of the guard makes of the attempts l and the claims g, when the
\* budget is full.
Moves(l, g, l2, g2, full) ==
    \/ /\ l >= 2 /\ Cardinality(g) < MostClaims
       /\ l2 = l
       /\ \E k \in g2 \ g : g2 = g \cup {k}
    \/ /\ \/ l >= 1 /\ l2 = l - 1
          \/ l2 = full
          \/ l2 = l
       /\ \E k \in g : g2 = g \ {k}
    \/ /\ l2 = l
       /\ \E k \in g, n \in g2 \ g : g2 = (g \ {k}) \cup {n}
    \/ l2 \in {l, full} /\ g2 = g

\* AttemptGuard counts as this module does.
LEMMA SameCardinality ==
    \A S : /\ PinGuard!Cardinality(S) = Cardinality(S)
           /\ PukGuard!Cardinality(S) = Cardinality(S)
BY DEF Cardinality, PinGuard!Cardinality, PukGuard!Cardinality

\* They are the steps of AttemptGuard, for each secret.
LEMMA MovesAreSteps ==
    /\ [PinGuard!Next]_(PinGuard!vars)
       <=> Moves(attempts["pin"], Claims("pin"), attempts'["pin"], Claims("pin")',
                 Full["pin"])
    /\ [PukGuard!Next]_(PukGuard!vars)
       <=> Moves(attempts["puk"], Claims("puk"), attempts'["puk"], Claims("puk")',
                 Full["puk"])
<1>1. [PinGuard!Next]_(PinGuard!vars)
      <=> Moves(attempts["pin"], Claims("pin"), attempts'["pin"], Claims("pin")',
                Full["pin"])
    BY SameCardinality DEF PinGuard!Next, PinGuard!Grant, PinGuard!Spend, PinGuard!Redeem,
       PinGuard!Withdraw, PinGuard!Delay, PinGuard!Refill, PinGuard!vars, Moves
<1>2. [PukGuard!Next]_(PukGuard!vars)
      <=> Moves(attempts["puk"], Claims("puk"), attempts'["puk"], Claims("puk")',
                Full["puk"])
    BY SameCardinality DEF PukGuard!Next, PukGuard!Grant, PukGuard!Spend, PukGuard!Redeem,
       PukGuard!Withdraw, PukGuard!Delay, PukGuard!Refill, PukGuard!vars, Moves
<1>. QED
    BY <1>1, <1>2

\* Where they keep the attempts: the promise of AttemptGuard, over values.
Kept(l, g, full) ==
    /\ l \in 0 .. full
    /\ IsFiniteSet(g) /\ Cardinality(g) \in 0 .. MostClaims
    /\ l + MostClaims >= Cardinality(g) + 2

LEMMA MovesKeep ==
    ASSUME NEW full \in Nat \ {0, 1}, NEW l, NEW g, NEW l2, NEW g2,
           MostClaims \in Nat \ {0}, Kept(l, g, full), Moves(l, g, l2, g2, full)
    PROVE  Kept(l2, g2, full)
<1>. l \in Int /\ MostClaims \in Int /\ Cardinality(g) \in Nat /\ IsFiniteSet(g)
    BY DEF Kept
<1>1. ASSUME l >= 2, Cardinality(g) < MostClaims, l2 = l,
             NEW k \in g2 \ g, g2 = g \cup {k}
      PROVE  Kept(l2, g2, full)
    <2>1. IsFiniteSet(g2) /\ Cardinality(g2) = Cardinality(g) + 1
        BY <1>1, FS_AddElement
    <2>. QED
        BY <1>1, <2>1 DEF Kept
<1>2. ASSUME (l >= 1 /\ l2 = l - 1) \/ l2 = full \/ l2 = l,
             NEW k \in g, g2 = g \ {k}
      PROVE  Kept(l2, g2, full)
    <2>1. IsFiniteSet(g2) /\ Cardinality(g2) = Cardinality(g) - 1 /\ Cardinality(g2) \in Nat
        BY <1>2, FS_RemoveElement, FS_CardinalityType
    <2>. QED
        BY <1>2, <2>1 DEF Kept
<1>3. ASSUME l2 = l, NEW k \in g, NEW n \in g2 \ g, g2 = (g \ {k}) \cup {n}
      PROVE  Kept(l2, g2, full)
    <2>1. IsFiniteSet(g \ {k}) /\ Cardinality(g \ {k}) = Cardinality(g) - 1
        BY FS_RemoveElement
    <2>2. IsFiniteSet(g2) /\ Cardinality(g2) = Cardinality(g \ {k}) + 1
        BY <1>3, <2>1, FS_AddElement
    <2>. QED
        BY <1>3, <2>1, <2>2 DEF Kept
<1>4. ASSUME l2 \in {l, full}, g2 = g PROVE Kept(l2, g2, full)
    BY <1>4 DEF Kept
<1>. QED
    BY <1>1, <1>2, <1>3, <1>4 DEF Moves

\* A step in which the claims on s stand and the budget of s stands or is refilled.
LEMMA Stands ==
    ASSUME NEW s, Claims(s)' = Claims(s), attempts'[s] \in {attempts[s], Full[s]}
    PROVE  Moves(attempts[s], Claims(s), attempts'[s], Claims(s)', Full[s])
BY DEF Moves

\* The SIM has judged the secret of client c, which was the claim k.
LEMMA Judged ==
    ASSUME IInv, NEW secret \in Secrets, NEW right \in BOOLEAN, Try(secret, right),
           NEW k \in Claims(secret), Claims(secret)' = Claims(secret) \ {k},
           \A s \in Secrets \ {secret} : Claims(s)' = Claims(s),
           NEW s \in Secrets
    PROVE  Moves(attempts[s], Claims(s), attempts'[s], Claims(s)', Full[s])
<1>1. attempts \in [Secrets -> Nat] /\ Full \in [Secrets -> Nat \ {0, 1}]
    BY FullAssumption DEF IInv, TypeOK
<1>2. attempts' = IF attempts[secret] = 0 THEN attempts
                  ELSE IF ~right THEN [attempts EXCEPT ![secret] = @ - 1]
                  ELSE [t \in Secrets |->
                          IF t = secret \/ secret = "puk" THEN Full[t] ELSE attempts[t]]
    BY DEF Try
<1>3. CASE s = secret
    <2>1. \/ attempts[s] >= 1 /\ attempts'[s] = attempts[s] - 1
          \/ attempts'[s] = Full[s]
          \/ attempts'[s] = attempts[s]
        BY <1>1, <1>2, <1>3
    <2>. QED
        BY <1>3, <2>1 DEF Moves
<1>4. CASE s # secret
    <2>1. attempts'[s] \in {attempts[s], Full[s]}
        BY <1>1, <1>2, <1>4
    <2>. QED
        BY <1>4, <2>1, Stands
<1>. QED
    BY <1>3, <1>4

\* Every step of the clients and the SIM is a step of the guard of each secret.
LEMMA GuardStep ==
    ASSUME IInv, LateInv, [Next]_vars, NEW s \in Secrets
    PROVE  Moves(attempts[s], Claims(s), attempts'[s], Claims(s)', Full[s])
<1>. /\ pc \in [Clients -> {"idle", "guard", "command"}]
     /\ op \in [Clients -> Ops \cup {NoOp}]
     /\ attempts \in [Secrets -> Nat]
     /\ late \in [Clients -> SUBSET [secret: Secrets, right: BOOLEAN]]
    BY DEF IInv, TypeOK
<1>0. Ops \subseteq [kind: {"provide_pin", "enable_pin", "disable_pin", "change_pin",
                            "reset_pin_using_puk"},
                     secret: Secrets, right: BOOLEAN]
    BY DEF Ops, Secrets
<1>1. CASE UNCHANGED vars
    <2>1. Claims(s)' = Claims(s) /\ attempts' = attempts
        BY <1>1 DEF Claims, Sending, OnItsWay, vars, client_vars
    <2>. QED
        BY <2>1, Stands
<1>2. CASE Next
    <2>. PICK c \in Clients : (\E o \in Ops : begin(c, o)) \/ Step(c)
        BY <1>2 DEF Next
    <2>0. /\ \A t : c \in Sending(t) <=> pc[c] = "command" /\ op[c].secret = t
          /\ \A t : c \in Sending(t)' <=> pc'[c] = "command" /\ op'[c].secret = t
          /\ \A t : c \in OnItsWay(t) <=> \E sent \in late[c] : sent.secret = t
          /\ \A t : c \in OnItsWay(t)' <=> \E sent \in late'[c] : sent.secret = t
        BY DEF Sending, OnItsWay
    <2>1. ASSUME NEW o \in Ops, begin(c, o)
          PROVE  Moves(attempts[s], Claims(s), attempts'[s], Claims(s)', Full[s])
        <3>1. Sending(s)' = Sending(s) /\ OnItsWay(s)' = OnItsWay(s)
            BY <2>1 DEF begin, Sending, OnItsWay
        <3>. QED
            BY <2>1, <3>1, ClaimsChange, Stands DEF begin
    <2>2. CASE guard_passes(c)
        <3>1. OnItsWay(s)' = OnItsWay(s) /\ attempts' = attempts
            BY <2>2 DEF guard_passes, OnItsWay
        <3>2. CASE op[c].secret = s
            <4>1. Sending(s)' = Sending(s) \cup {c} /\ c \notin Sending(s)
                BY <2>2, <3>2 DEF guard_passes, Sending
            <4>2. /\ Claims(s)' = Claims(s) \cup {<<c, "running">>}
                  /\ <<c, "running">> \notin Claims(s)
                BY <3>1, <4>1, ClaimsChange
            <4>3. Cardinality(Claims(s)) < MostClaims
                BY <4>2, ClaimsBounded
            <4>. QED
                BY <2>2, <3>1, <3>2, <4>2, <4>3 DEF Moves, guard_passes, Preserves
        <3>3. CASE op[c].secret # s
            <4>1. Sending(s)' = Sending(s)
                BY <2>2, <3>3 DEF guard_passes, Sending
            <4>. QED
                BY <3>1, <4>1, ClaimsChange, Stands
        <3>. QED
            BY <3>2, <3>3
    <2>3. CASE guard_refuses(c) \/ exchange_fails(c)
        <3>1. OnItsWay(s)' = OnItsWay(s) /\ attempts' = attempts
            BY <2>3 DEF guard_refuses, exchange_fails, OnItsWay
        <3>2. Sending(s)' = Sending(s) \ {c}
            BY <2>3 DEF guard_refuses, exchange_fails, End, Sending
        <3>3. Claims(s)' = Claims(s) \ {<<c, "running">>}
            BY <3>1, <3>2, ClaimsChange
        <3>4. CASE <<c, "running">> \in Claims(s)
            BY <3>1, <3>3, <3>4 DEF Moves
        <3>5. CASE <<c, "running">> \notin Claims(s)
            BY <3>1, <3>3, <3>5, Stands
        <3>. QED
            BY <3>4, <3>5
    <2>4. CASE command_served(c)
        <3>1. op[c].secret \in Secrets /\ op[c].right \in BOOLEAN
            BY <1>0, <2>4 DEF command_served, IInv, Running
        <3>2. \A t : /\ OnItsWay(t)' = OnItsWay(t)
                     /\ Sending(t)' = Sending(t) \ {c}
                     /\ c \in Sending(t) <=> t = op[c].secret
            BY <2>4 DEF command_served, End, OnItsWay, Sending
        <3>3. \A t : Claims(t)' = Claims(t) \ {<<c, "running">>}
            BY <3>2, ClaimsChange
        <3>4. \A t : <<c, "running">> \in Claims(t) <=> t = op[c].secret
            BY <3>2, ClaimsChange
        <3>5. \A t \in Secrets \ {op[c].secret} : Claims(t)' = Claims(t)
            BY <3>3, <3>4
        <3>6. Try(op[c].secret, op[c].right)
            BY <2>4 DEF command_served
        <3>. QED
            BY <3>1, <3>3, <3>4, <3>5, <3>6, Judged
    <2>5. CASE command_on_its_way(c)
        <3>1. \A t : /\ Sending(t)' = Sending(t) \ {c}
                     /\ c \in Sending(t) <=> t = op[c].secret
                     /\ c \notin OnItsWay(t)
            BY <2>5 DEF command_on_its_way, End, OnItsWay, Sending
        <3>2. /\ attempts' = attempts
              /\ late' = [late EXCEPT ![c] = {[secret |-> op[c].secret,
                                              right |-> op[c].right]}]
            BY <2>5 DEF command_on_its_way
        <3>3. \A t : c \in OnItsWay(t)' <=> t = op[c].secret
            <4>1. late'[c] = {[secret |-> op[c].secret, right |-> op[c].right]}
                BY <3>2
            <4>2. \A t : (\E sent \in late'[c] : sent.secret = t) <=> t = op[c].secret
                BY <4>1
            <4>. QED
                BY <2>0, <4>2
        <3>4. \A t : OnItsWay(t)' \ {c} = OnItsWay(t)
            BY <3>1, <3>2 DEF OnItsWay
        <3>5. CASE op[c].secret = s
            <4>1. OnItsWay(s)' = OnItsWay(s) \cup {c}
                BY <3>3, <3>4, <3>5
            <4>2. Claims(s)' = (Claims(s) \ {<<c, "running">>}) \cup {<<c, "late">>}
                BY <3>1, <4>1, ClaimsChange
            <4>3. <<c, "running">> \in Claims(s) /\ <<c, "late">> \notin Claims(s)
                BY <3>1, <3>5, ClaimsChange
            <4>. QED
                BY <3>2, <4>2, <4>3 DEF Moves
        <3>6. CASE op[c].secret # s
            <4>1. Sending(s)' = Sending(s)
                BY <3>1, <3>6
            <4>2. OnItsWay(s)' = OnItsWay(s)
                BY <3>3, <3>4, <3>6
            <4>. QED
                BY <3>2, <4>1, <4>2, ClaimsChange, Stands
        <3>. QED
            BY <3>5, <3>6
    <2>6. CASE served_late(c)
        <3>. PICK sent \in late[c] :
                 /\ late' = [late EXCEPT ![c] = @ \ {sent}]
                 /\ Try(sent.secret, sent.right)
            BY <2>6 DEF served_late
        <3>1. sent.secret \in Secrets /\ sent.right \in BOOLEAN
            OBVIOUS
        <3>2. late[c] = {sent} /\ late'[c] = {}
            BY DEF LateInv
        <3>3. \A t : /\ Sending(t)' = Sending(t)
                     /\ OnItsWay(t)' = OnItsWay(t) \ {c}
                     /\ c \in OnItsWay(t) <=> t = sent.secret
            BY <2>6, <3>2 DEF served_late, client_vars, OnItsWay, Sending
        <3>4. \A t : Claims(t)' = Claims(t) \ {<<c, "late">>}
            BY <3>3, ClaimsChange
        <3>5. \A t : <<c, "late">> \in Claims(t) <=> t = sent.secret
            BY <3>3, ClaimsChange
        <3>6. \A t \in Secrets \ {sent.secret} : Claims(t)' = Claims(t)
            BY <3>4, <3>5
        <3>. QED
            BY <3>1, <3>4, <3>5, <3>6, Judged
    <2>. QED
        BY <2>1, <2>2, <2>3, <2>4, <2>5, <2>6 DEF Step
<1>. QED
    BY <1>1, <1>2

LEMMA GuardInit ==
    ASSUME Init
    PROVE  /\ PinGuard!Init /\ Kept(attempts["pin"], Claims("pin"), Full["pin"])
           /\ PukGuard!Init /\ Kept(attempts["puk"], Claims("puk"), Full["puk"])
<1>1. ASSUME NEW s \in Secrets
      PROVE  /\ attempts[s] \in 1 .. Full[s] /\ Claims(s) = {}
             /\ Kept(attempts[s], Claims(s), Full[s])
    <2>1. Full[s] \in Nat /\ attempts[s] \in 1 .. Full[s]
        BY FullAssumption DEF Init, Secrets
    <2>2. Claims(s) = {} /\ LateInv
        BY DEF Init, Claims, Sending, OnItsWay, LateInv
    <2>3. MostClaims \in Nat \ {0}
        BY <2>2, ClaimsBounded
    <2>4. IsFiniteSet(Claims(s)) /\ Cardinality(Claims(s)) = 0
        BY <2>2, FS_EmptySet
    <2>5. Kept(attempts[s], Claims(s), Full[s])
        BY <2>1, <2>3, <2>4 DEF Kept
    <2>. QED
        BY <2>1, <2>2, <2>5
<1>. QED
    BY <1>1 DEF Secrets, PinGuard!Init, PukGuard!Init

\* However many clients share a SIM, and whatever is lost or late between the look
\* at the attempts and the command, the retry guard is that of AttemptGuard for the
\* PIN and for the PUK: an attempt is granted while two are left, costs one at most,
\* and is judged once.
THEOREM RefinesGuard == Spec => KeepsGuard
<1>1. Init => PinGuard!Init /\ PukGuard!Init
    BY GuardInit
<1>2. IInv /\ LateInv /\ [Next]_vars =>
          [PinGuard!Next]_(PinGuard!vars) /\ [PukGuard!Next]_(PukGuard!vars)
    BY GuardStep, MovesAreSteps DEF Secrets
<1>. QED
    BY <1>1, <1>2, Inductive, LateInvariant, PTL
    DEF Spec, KeepsGuard, PinGuard!Spec, PukGuard!Spec

\* So that it covers what is past it: the SIM keeps an attempt for every PIN and
\* every PUK past the guard, short of one for each there can be beyond the first two.
\* The argument is about AttemptGuard alone.
THEOREM Covers == Spec => []AttemptsCovered
<1>. DEFINE PinKept == Kept(attempts["pin"], Claims("pin"), Full["pin"])
            PukKept == Kept(attempts["puk"], Claims("puk"), Full["puk"])
<1>1. Init => PinKept /\ PukKept
    BY GuardInit
<1>2. ASSUME LateInv, PinKept, PukKept,
             [PinGuard!Next]_(PinGuard!vars), [PukGuard!Next]_(PukGuard!vars)
      PROVE  PinKept' /\ PukKept'
    <2>1. /\ Full["pin"] \in Nat \ {0, 1} /\ Full["puk"] \in Nat \ {0, 1}
          /\ MostClaims \in Nat \ {0}
        BY <1>2, FullAssumption, ClaimsBounded DEF Secrets
    <2>2. Kept(attempts'["pin"], Claims("pin")', Full["pin"])
        BY <1>2, <2>1, MovesAreSteps, MovesKeep
    <2>3. Kept(attempts'["puk"], Claims("puk")', Full["puk"])
        BY <1>2, <2>1, MovesAreSteps, MovesKeep
    <2>. QED
        BY <2>2, <2>3 DEF Kept, MostClaims
<1>3. LateInv /\ PinKept /\ PukKept => AttemptsCovered
    <2>. SUFFICES ASSUME LateInv, PinKept, PukKept PROVE AttemptsCovered
        OBVIOUS
    <2>1. MostClaims \in Nat \ {0}
        BY ClaimsBounded
    <2>. QED
        BY <2>1, SameCardinality
        DEF Kept, AttemptsCovered, PinGuard!Covered, PukGuard!Covered
<1>. HIDE DEF PinKept, PukKept
<1>. QED
    BY <1>1, <1>2, <1>3, LateInvariant, RefinesGuard, PTL
    DEF Spec, KeepsGuard, PinGuard!Spec, PukGuard!Spec
=============================================================================
