--------------------------- MODULE ServicesProofs ---------------------------
(***************************************************************************)
(* What holds of the direct writes for every set of clients and every      *)
(* router: first for any operations (module DirectWrite), then for those   *)
(* of module Services.                                                     *)
(***************************************************************************)
EXTENDS Services, TLAPS

USE CallsAssumption, InitialAssumption, OpsAssumption

\* What is asked of the operations for the types: a write that passed the checks
\* of its arguments leaves the router in one of its configurations.
WritesStay ==
    \A o \in Ops, cfg \in Configs : Valid(o) => Applied(o, cfg) \in Configs

\* What is asked of the client's check of an answer: it passes none that a router
\* may give to a write it has not carried out.
ChecksSuffice ==
    \A o \in Confirmed : \A a \in Answers(o) : Confirms(o, a) => ReportsDone(o, a)

\* The strengthening that makes the properties inductive.  An operation knows
\* whether it has written: `before` is None until then.
ClientInv ==
    \A c \in Clients :
        /\ pc[c] # "idle" =>
               /\ op[c] \in Ops /\ calls[c] \in 1 .. MaxCalls
               /\ outcome[c] = "none" /\ config \in held[c]
        /\ pc[c] \notin {"idle", "asked"} => Valid(op[c])
        /\ pc[c] \in {"check", "write", "verify"} => op[c] \in ReadBack
        /\ pc[c] \in {"asked", "check", "write"} => before[c] = None
        /\ pc[c] \in {"sent", "verify"} => before[c] # None
        /\ pc[c] = "check" => got[c] \in held[c]
        /\ outcome[c] = "failed" => before[c] = None
        /\ ChecksSuffice /\ outcome[c] = "returned" /\ op[c] \in Confirmed =>
               <<c, calls[c]>> \in applied

\* An owed write passed the checks, has not been applied, and was written by its
\* operation.
OwedInv ==
    \A w \in owed :
        /\ Valid(w.op)
        /\ <<w.client, w.call>> \notin applied
        /\ w.call <= calls[w.client]
        /\ w.call = calls[w.client] => before[w.client] # None

\* An operation writes once.
OneWriteInv ==
    \A v, w \in owed : v.client = w.client /\ v.call = w.call => v = w

\* A write that has taken effect was written by its operation, too.
AppliedInv ==
    \A c \in Clients, n \in 1 .. MaxCalls :
        <<c, n>> \in applied =>
            n <= calls[c] /\ (n = calls[c] => before[c] # None)

Strengthening == ClientInv /\ OwedInv /\ OneWriteInv /\ AppliedInv

IInv == TypeOK /\ Strengthening

---------------------------------------------------------------------------
(* Types                                                                   *)

\* Initially every variable has its type.
LEMMA TypeInit == Init => TypeOK
<1>. SUFFICES ASSUME Init PROVE TypeOK
  OBVIOUS
<1>1. /\ config \in Configs
      /\ owed \subseteq Write
      /\ applied \subseteq Clients \X (1 .. MaxCalls)
      /\ held \in [Clients -> SUBSET Configs]
  BY DEF Init
<1>2. /\ pc \in [Clients -> {"idle", "asked", "check", "write", "sent", "verify"}]
      /\ calls \in [Clients -> 0 .. MaxCalls]
      /\ op \in [Clients -> Ops \cup {None}]
      /\ got \in [Clients -> Configs \cup {None}]
  BY DEF Init
<1>3. /\ before \in [Clients -> Configs \cup {None}]
      /\ outcome \in [Clients -> Outcomes]
      /\ result \in [Clients -> Configs \cup {None}]
  BY DEF Init, Outcomes
<1>. QED
  BY <1>1, <1>2, <1>3 DEF TypeOK

\* An operation that ends keeps the types.
LEMMA EndTypes ==
    ASSUME TypeOK, NEW c \in Clients, NEW o \in Outcomes,
           NEW v \in Configs \cup {None}, End(c, o, v)
    PROVE  TypeOK'
  BY DEF End, TypeOK, router_vars

\* So does one that goes on.
LEMMA GotoTypes ==
    ASSUME TypeOK, NEW c \in Clients, NEW p \in {"check", "write", "verify"},
           Goto(c, p), got' \in [Clients -> Configs \cup {None}]
    PROVE  TypeOK'
  BY DEF Goto, TypeOK, router_vars

\* The steps of an operation keep the types.
LEMMA TypeOperation ==
    ASSUME IInv, NEW c \in Clients, Operation(c)
    PROVE  TypeOK'
<1>. USE DEF IInv
<1>0. /\ "failed" \in Outcomes /\ "returned" \in Outcomes
      /\ "unverified" \in Outcomes /\ "none" \in Outcomes
      /\ config \in Configs /\ got[c] \in Configs \cup {None}
      /\ got \in [Clients -> Configs \cup {None}]
  BY DEF Outcomes, TypeOK
<1>1. ASSUME NEW o \in Ops, begin(c, o)
      PROVE  TypeOK'
  <2>1. calls[c] + 1 \in 0 .. MaxCalls
    <3>1. calls[c] \in 0 .. MaxCalls /\ calls[c] < MaxCalls
      BY <1>1 DEF begin, TypeOK
    <3>. QED
      BY <3>1
  <2>2. calls' \in [Clients -> 0 .. MaxCalls]
    BY <1>1, <2>1 DEF begin, TypeOK
  <2>. QED
    BY <1>0, <1>1, <2>2 DEF begin, TypeOK, router_vars
<1>2. CASE reject(c) \/ read_fails(c)
  BY <1>0, <1>2, EndTypes DEF reject, read_fails
<1>3. CASE current_read(c)
  <2>1. CASE /\ got' = [got EXCEPT ![c] = config]
             /\ Goto(c, "check")
    BY <1>0, <2>1, GotoTypes
  <2>2. CASE End(c, "returned", config)
    BY <1>0, <2>2, EndTypes
  <2>3. CASE Goto(c, "write") /\ UNCHANGED got
    BY <1>0, <2>3, GotoTypes
  <2>. QED
    BY <1>3, <2>1, <2>2, <2>3 DEF current_read
<1>4. CASE check_read(c)
  <2>1. CASE End(c, "failed", None)
    BY <1>0, <2>1, EndTypes
  <2>2. CASE End(c, "returned", got[c])
    BY <1>0, <2>2, EndTypes
  <2>3. CASE Goto(c, "write") /\ got' = [got EXCEPT ![c] = None]
    BY <1>0, <2>3, GotoTypes
  <2>. QED
    BY <1>4, <2>1, <2>2, <2>3 DEF check_read
<1>5. CASE send(c)
  <2>1. before' \in [Clients -> Configs \cup {None}] /\ before'[c] = config
    BY <1>0, <1>5 DEF send, TypeOK
  <2>2. op[c] \in Ops /\ calls[c] \in 1 .. MaxCalls
    BY <1>5 DEF send, Strengthening, ClientInv
  <2>3. owed' \subseteq Write
    BY <1>0, <1>5, <2>1, <2>2 DEF send, TheWrite, Write, TypeOK
  <2>. QED
    BY <1>0, <1>5, <2>1, <2>3 DEF send, TypeOK
<1>6. CASE no_answer(c) \/ refused(c) \/ read_back_fails(c)
  BY <1>0, <1>6, EndTypes DEF no_answer, refused, read_back_fails
<1>7. CASE answered(c)
  <2>1. CASE Goto(c, "verify") /\ UNCHANGED got
    BY <1>0, <2>1, GotoTypes
  <2>2. CASE End(c, "returned", None)
    BY <1>0, <2>2, EndTypes
  <2>. QED
    BY <1>7, <2>1, <2>2 DEF answered
<1>8. CASE read_back(c)
  BY <1>0, <1>8, EndTypes DEF read_back
<1>. QED
  BY <1>1, <1>2, <1>3, <1>4, <1>5, <1>6, <1>7, <1>8 DEF Operation

\* So do those of the router.
LEMMA TypeRouter ==
    ASSUME IInv, WritesStay, Router
    PROVE  TypeOK'
<1>. USE DEF IInv
<1>1. ASSUME NEW w \in owed, apply(w)
      PROVE  TypeOK'
  <2>1. /\ w.op \in Ops /\ w.client \in Clients /\ w.call \in 1 .. MaxCalls
        /\ Valid(w.op)
    BY DEF TypeOK, Write, Strengthening, OwedInv
  <2>2. config' \in Configs
    BY <1>1, <2>1 DEF apply, TypeOK, WritesStay
  <2>3. applied' \subseteq Clients \X (1 .. MaxCalls)
    BY <1>1, <2>1 DEF apply, TypeOK
  <2>4. held' \in [Clients -> SUBSET Configs]
    BY <1>1, <2>2 DEF apply, TypeOK
  <2>. QED
    BY <1>1, <2>2, <2>3, <2>4 DEF apply, TypeOK
<1>2. ASSUME NEW w \in owed, drop(w)
      PROVE  TypeOK'
  BY <1>2 DEF drop, TypeOK
<1>. QED
  BY <1>1, <1>2 DEF Router

---------------------------------------------------------------------------
(* The strengthening                                                       *)

LEMMA StrengtheningInit == Init => Strengthening
  BY DEF Init, Strengthening, ClientInv, OwedInv, OneWriteInv, AppliedInv

\* What an operation that ends leaves behind.
LEMMA EndInv ==
    ASSUME IInv, NEW c \in Clients, NEW o \in Outcomes, NEW v,
           pc[c] # "idle", o = "failed" => before[c] = None,
           ChecksSuffice /\ o = "returned" /\ op[c] \in Confirmed =>
               <<c, calls[c]>> \in applied,
           End(c, o, v)
    PROVE  Strengthening'
<1>. USE DEF IInv, Strengthening, End, router_vars
<1>1. ClientInv'
  BY DEF ClientInv, TypeOK
<1>2. OwedInv' /\ OneWriteInv'
  BY DEF OwedInv, OneWriteInv
<1>3. AppliedInv'
  BY DEF AppliedInv
<1>. QED
  BY <1>1, <1>2, <1>3

\* What an operation that goes on leaves behind.
LEMMA GotoInv ==
    ASSUME IInv, NEW c \in Clients, NEW p \in {"check", "write", "verify"},
           pc[c] # "idle", Valid(op[c]), op[c] \in ReadBack,
           p \in {"check", "write"} => before[c] = None,
           p = "verify" => before[c] # None,
           p = "check" => got' = [got EXCEPT ![c] = config],
           p # "check" => got' = got \/ got' = [got EXCEPT ![c] = None],
           Goto(c, p)
    PROVE  Strengthening'
<1>. USE DEF IInv, Strengthening, Goto, router_vars
<1>1. ClientInv'
  <2>. SUFFICES ASSUME NEW d \in Clients PROVE ClientInv!(d)'
    BY DEF ClientInv
  <2>1. CASE d = c
    <3>1. pc'[d] = p /\ (p = "check" => got'[d] = config)
      BY <2>1 DEF TypeOK
    <3>. QED
      BY <2>1, <3>1 DEF ClientInv
  <2>2. CASE d # c
    <3>1. pc'[d] = pc[d] /\ got'[d] = got[d]
      BY <2>2 DEF TypeOK
    <3>. QED
      BY <3>1 DEF ClientInv
  <2>. QED
    BY <2>1, <2>2
<1>2. OwedInv' /\ OneWriteInv' /\ AppliedInv'
  BY DEF OwedInv, OneWriteInv, AppliedInv
<1>. QED
  BY <1>1, <1>2

\* The start of an operation.
LEMMA BeginInv ==
    ASSUME IInv, NEW c \in Clients, NEW o \in Ops, begin(c, o)
    PROVE  Strengthening'
<1>. USE DEF IInv, Strengthening, router_vars
<1>0. /\ calls[c] \in 0 .. MaxCalls /\ calls[c] < MaxCalls
      /\ calls[c] + 1 \in 1 .. MaxCalls
      /\ calls' = [calls EXCEPT ![c] = calls[c] + 1]
  BY DEF begin, TypeOK
<1>1. ClientInv'
  <2>. SUFFICES ASSUME NEW d \in Clients PROVE ClientInv!(d)'
    BY DEF ClientInv
  <2>1. CASE d = c
    <3>1. /\ op'[d] = o /\ calls'[d] = calls[c] + 1 /\ outcome'[d] = "none"
          /\ before'[d] = None /\ pc'[d] = "asked" /\ held'[d] = {config}
      BY <1>0, <2>1 DEF begin, TypeOK
    <3>. QED
      BY <1>0, <3>1 DEF begin
  <2>2. CASE d # c
    <3>1. /\ op'[d] = op[d] /\ calls'[d] = calls[d] /\ outcome'[d] = outcome[d]
          /\ before'[d] = before[d] /\ got'[d] = got[d] /\ pc'[d] = pc[d]
          /\ held'[d] = held[d] /\ config' = config /\ applied' = applied
      BY <2>2 DEF begin, TypeOK
    <3>. QED
      BY <3>1 DEF ClientInv
  <2>. QED
    BY <2>1, <2>2
<1>2. OwedInv'
  <2>. SUFFICES ASSUME NEW w \in owed' PROVE OwedInv!(w)'
    BY DEF OwedInv
  <2>1. w \in owed /\ applied' = applied
    BY DEF begin
  <2>2. w.client \in Clients /\ w.call \in 1 .. MaxCalls
    BY <2>1 DEF TypeOK, Write
  <2>3. w.call <= calls[w.client] /\ calls[w.client] \in 0 .. MaxCalls
    BY <2>1, <2>2 DEF OwedInv, TypeOK
  <2>4. CASE w.client = c
    <3>1. calls'[w.client] = calls[c] + 1
      BY <1>0, <2>4 DEF TypeOK
    <3>. QED
      BY <2>1, <2>2, <2>3, <2>4, <3>1 DEF OwedInv
  <2>5. CASE w.client # c
    BY <2>1, <2>2, <2>5 DEF OwedInv, begin, TypeOK
  <2>. QED
    BY <2>4, <2>5
<1>3. AppliedInv'
  <2>. SUFFICES ASSUME NEW d \in Clients, NEW n \in 1 .. MaxCalls,
                       <<d, n>> \in applied'
                PROVE  n <= calls'[d] /\ (n = calls'[d] => before'[d] # None)
    BY DEF AppliedInv
  <2>1. <<d, n>> \in applied /\ n <= calls[d] /\ calls[d] \in 0 .. MaxCalls
    BY DEF begin, AppliedInv, TypeOK
  <2>2. CASE d = c
    <3>1. calls'[d] = calls[c] + 1
      BY <1>0, <2>2 DEF TypeOK
    <3>. QED
      BY <2>1, <2>2, <3>1
  <2>3. CASE d # c
    BY <2>1, <2>3 DEF AppliedInv, begin, TypeOK
  <2>. QED
    BY <2>2, <2>3
<1>4. OneWriteInv'
  BY DEF OneWriteInv, begin
<1>. QED
  BY <1>1, <1>2, <1>3, <1>4

\* The write.
LEMMA SendInv ==
    ASSUME IInv, NEW c \in Clients, send(c)
    PROVE  Strengthening'
<1>. USE DEF IInv, Strengthening
<1>1. /\ op[c] \in Ops /\ calls[c] \in 1 .. MaxCalls /\ before[c] = None
      /\ outcome[c] = "none" /\ Valid(op[c]) /\ config # None
      /\ before' = [before EXCEPT ![c] = config] /\ before'[c] = config
  BY DEF send, TypeOK, ClientInv
<1>2. ClientInv'
  BY <1>1 DEF ClientInv, send, TypeOK
<1>3. OwedInv'
  <2>. SUFFICES ASSUME NEW w \in owed' PROVE OwedInv!(w)'
    BY DEF OwedInv
  <2>1. CASE w \in owed
    BY <1>1, <2>1 DEF OwedInv, send, TypeOK, Write
  <2>2. CASE w \notin owed
    <3>1. w = TheWrite(c)
      BY <2>2 DEF send
    <3>2. w.client = c /\ w.call = calls[c] /\ w.op = op[c]
      BY <3>1 DEF TheWrite
    <3>3. <<c, calls[c]>> \notin applied
      BY <1>1 DEF AppliedInv
    <3>4. calls' = calls /\ applied' = applied
      BY DEF send
    <3>. QED
      BY <1>1, <3>2, <3>3, <3>4
  <2>. QED
    BY <2>1, <2>2
<1>4. AppliedInv'
  BY <1>1 DEF AppliedInv, send, TypeOK
<1>5. OneWriteInv'
  <2>1. \A w \in owed : w.client = c => w.call # calls[c]
    BY <1>1 DEF OwedInv
  <2>. QED
    BY <2>1 DEF OneWriteInv, send, TheWrite
<1>. QED
  BY <1>2, <1>3, <1>4, <1>5

\* An owed write that takes effect.
LEMMA ApplyInv ==
    ASSUME IInv, NEW w \in owed, apply(w)
    PROVE  Strengthening'
<1>. USE DEF IInv, Strengthening
<1>0. w.client \in Clients /\ w.call \in 1 .. MaxCalls
  BY DEF TypeOK, Write
<1>1. ClientInv'
  BY DEF ClientInv, apply, TypeOK
<1>2. OwedInv'
  <2>. SUFFICES ASSUME NEW v \in owed' PROVE OwedInv!(v)'
    BY DEF OwedInv
  <2>1. v \in owed /\ v # w
    BY DEF apply
  <2>2. <<v.client, v.call>> # <<w.client, w.call>>
    BY <2>1 DEF OneWriteInv
  <2>. QED
    BY <2>1, <2>2 DEF OwedInv, apply
<1>3. AppliedInv'
  BY <1>0 DEF AppliedInv, OwedInv, apply
<1>4. OneWriteInv'
  BY DEF OneWriteInv, apply
<1>. QED
  BY <1>1, <1>2, <1>3, <1>4

\* Every step of a client keeps the strengthening.
LEMMA StrengtheningOperation ==
    ASSUME IInv, NEW c \in Clients, Operation(c)
    PROVE  Strengthening'
<1>0. /\ "failed" \in Outcomes /\ "returned" \in Outcomes
      /\ "unverified" \in Outcomes
      /\ ReadBack \cap Confirmed = {}
  BY DEF Outcomes
<1>. USE DEF IInv, Strengthening
<1>1. ASSUME NEW o \in Ops, begin(c, o)
      PROVE  Strengthening'
  BY <1>1, BeginInv
<1>2. CASE reject(c) \/ read_fails(c)
  <2>1. pc[c] \in {"asked", "check"} /\ End(c, "failed", None)
    BY <1>2 DEF reject, read_fails
  <2>2. before[c] = None
    BY <2>1 DEF ClientInv
  <2>. QED
    BY <1>0, <2>1, <2>2, EndInv
<1>3. CASE current_read(c)
  <2>1. /\ pc[c] = "asked" /\ Valid(op[c]) /\ op[c] \in ReadBack
        /\ before[c] = None
    BY <1>3 DEF current_read, ClientInv
  <2>2. CASE /\ got' = [got EXCEPT ![c] = config]
             /\ Goto(c, "check")
    BY <2>1, <2>2, GotoInv
  <2>3. CASE End(c, "returned", config)
    BY <1>0, <2>1, <2>3, EndInv
  <2>4. CASE Goto(c, "write") /\ UNCHANGED got
    BY <2>1, <2>4, GotoInv
  <2>. QED
    BY <1>3, <2>2, <2>3, <2>4 DEF current_read
<1>4. CASE check_read(c)
  <2>1. /\ pc[c] = "check" /\ Valid(op[c]) /\ op[c] \in ReadBack
        /\ before[c] = None
    BY <1>4 DEF check_read, ClientInv
  <2>2. CASE End(c, "failed", None)
    BY <1>0, <2>1, <2>2, EndInv
  <2>3. CASE End(c, "returned", got[c])
    BY <1>0, <2>1, <2>3, EndInv
  <2>4. CASE Goto(c, "write") /\ got' = [got EXCEPT ![c] = None]
    BY <2>1, <2>4, GotoInv
  <2>. QED
    BY <1>4, <2>2, <2>3, <2>4 DEF check_read
<1>5. CASE send(c)
  BY <1>5, SendInv
<1>6. CASE no_answer(c) \/ refused(c) \/ read_back_fails(c)
  <2>1. pc[c] # "idle" /\ End(c, "unverified", None)
    BY <1>6 DEF no_answer, refused, read_back_fails
  <2>. QED
    BY <1>0, <2>1, EndInv
<1>7. CASE answered(c)
  <2>1. pc[c] = "sent" /\ Valid(op[c]) /\ before[c] # None
    BY <1>7 DEF answered, ClientInv
  <2>2. CASE op[c] \in ReadBack /\ Goto(c, "verify") /\ UNCHANGED got
    BY <2>1, <2>2, GotoInv
  <2>3. CASE /\ op[c] \in Confirmed
             /\ {a \in Arriving(c) : Confirms(op[c], a)} # {}
             /\ End(c, "returned", None)
    <3>1. PICK a \in Answers(op[c]) :
              /\ Confirms(op[c], a)
              /\ ReportsDone(op[c], a) => <<c, calls[c]>> \in applied
      BY <2>3 DEF Arriving
    <3>2. ChecksSuffice => <<c, calls[c]>> \in applied
      BY <2>3, <3>1 DEF ChecksSuffice
    <3>. QED
      BY <1>0, <2>1, <2>3, <3>2, EndInv
  <2>4. CASE op[c] \notin Confirmed /\ End(c, "returned", None)
    BY <1>0, <2>1, <2>4, EndInv
  <2>. QED
    BY <1>7, <2>2, <2>3, <2>4 DEF answered
<1>8. CASE read_back(c)
  <2>1. pc[c] = "verify" /\ op[c] \in ReadBack
    BY <1>8 DEF read_back, ClientInv
  <2>2. CASE End(c, "returned", config)
    BY <1>0, <2>1, <2>2, EndInv
  <2>3. CASE End(c, "unverified", None)
    BY <1>0, <2>1, <2>3, EndInv
  <2>. QED
    BY <1>8, <2>2, <2>3 DEF read_back
<1>. QED
  BY <1>1, <1>2, <1>3, <1>4, <1>5, <1>6, <1>7, <1>8 DEF Operation

\* Every step keeps the invariant.
LEMMA InvStep == WritesStay /\ IInv /\ [Next]_vars => IInv'
<1>. SUFFICES ASSUME WritesStay, IInv, [Next]_vars PROVE IInv'
  OBVIOUS
<1>1. CASE UNCHANGED vars
  BY <1>1 DEF IInv, TypeOK, Strengthening, ClientInv, OwedInv, OneWriteInv,
              AppliedInv, vars, router_vars
<1>2. CASE Done
  BY <1>1, <1>2 DEF Done
<1>3. ASSUME NEW c \in Clients, Operation(c)
      PROVE  IInv'
  BY <1>3, TypeOperation, StrengtheningOperation DEF IInv
<1>4. CASE Router
  <2>1. ASSUME NEW w \in owed, drop(w)
        PROVE  Strengthening'
    BY <2>1 DEF drop, IInv, Strengthening, ClientInv, OwedInv, OneWriteInv,
                AppliedInv
  <2>2. Strengthening'
    BY <1>4, <2>1, ApplyInv DEF Router
  <2>. QED
    BY <1>4, <2>2, TypeRouter DEF IInv
<1>. QED
  BY <1>1, <1>2, <1>3, <1>4 DEF Next

LEMMA Inductive ==
    ASSUME WritesStay
    PROVE  Spec => []IInv
<1>1. Init => IInv
  BY TypeInit, StrengtheningInit DEF IInv
<1>2. IInv /\ [Next]_vars => IInv'
  BY InvStep
<1>. QED
  BY <1>1, <1>2, PTL DEF Spec

---------------------------------------------------------------------------
(* The theorems about any direct writes                                    *)

\* Every variable keeps its type.
THEOREM TypeCorrect ==
    ASSUME WritesStay
    PROVE  Spec => []TypeOK
<1>1. IInv => TypeOK
  BY DEF IInv
<1>. QED
  BY <1>1, Inductive, PTL

\* A message is sent at most once per call, and no other write is sent twice.
THEOREM AtMostOnce ==
    ASSUME WritesStay
    PROVE  Spec => []EffectAtMostOnce
<1>1. IInv => EffectAtMostOnce
  BY DEF IInv, Strengthening, OwedInv, EffectAtMostOnce
<1>. QED
  BY <1>1, Inductive, PTL

\* An operation that raised before its write, or found nothing to change, has no
\* effect on the router, then or later.
THEOREM NothingHidden ==
    ASSUME WritesStay
    PROVE  Spec => []NoHiddenEffect
<1>1. IInv => NoHiddenEffect
  <2>. SUFFICES ASSUME IInv, NEW c \in Clients,
                       \/ outcome[c] = "failed"
                       \/ outcome[c] = "returned" /\ before[c] = None
                PROVE  /\ <<c, calls[c]>> \notin applied
                       /\ \A w \in owed : <<w.client, w.call>> # <<c, calls[c]>>
    BY DEF NoHiddenEffect
  <2>1. before[c] = None
    BY DEF IInv, Strengthening, ClientInv
  <2>2. <<c, calls[c]>> \notin applied
    BY <2>1 DEF IInv, Strengthening, AppliedInv, TypeOK
  <2>3. \A w \in owed : w.client = c => w.call # calls[c]
    BY <2>1 DEF IInv, Strengthening, OwedInv
  <2>. QED
    BY <2>2, <2>3
<1>. QED
  BY <1>1, Inductive, PTL

\* What was confirmed has happened, if the check of the answer is strict enough.
LEMMA ConfirmedHappens ==
    ASSUME WritesStay, ChecksSuffice
    PROVE  Spec => []ConfirmedHappened
<1>1. IInv => ConfirmedHappened
  BY DEF IInv, Strengthening, ClientInv, ConfirmedHappened
<1>. QED
  BY <1>1, Inductive, PTL

---------------------------------------------------------------------------
(* The contract                                                            *)

\* A new value of pc is a new value of phase.
LEMMA PhaseStep ==
    ASSUME TypeOK, NEW c \in Clients, NEW p, pc' = [pc EXCEPT ![c] = p]
    PROVE  phase' = [phase EXCEPT ![c] = PhaseOf(p)]
  BY DEF phase, TypeOK

\* So is a new outcome for what is promised.
LEMMA PromisedStep ==
    ASSUME TypeOK, NEW c \in Clients, NEW o,
           outcome' = [outcome EXCEPT ![c] = o], UNCHANGED op,
           o = "returned" => op[c] \in ReadBack
    PROVE  promised' = [promised EXCEPT ![c] = o]
  BY DEF promised, TypeOK

\* An operation that ends, seen by its caller.
LEMMA EndFinishes ==
    ASSUME TypeOK, NEW c \in Clients, NEW o, NEW v, End(c, o, v),
           o = "returned" => op[c] \in ReadBack
    PROVE  Contract!Finish(c, o, v)
<1>1. phase' = [phase EXCEPT ![c] = "idle"]
  <2>1. pc' = [pc EXCEPT ![c] = "idle"]
    BY DEF End
  <2>2. PhaseOf("idle") = "idle"
    BY DEF PhaseOf
  <2>. QED
    BY <2>1, <2>2, PhaseStep
<1>2. promised' = [promised EXCEPT ![c] = o]
  BY PromisedStep DEF End
<1>. QED
  BY <1>1, <1>2 DEF End, Contract!Finish, router_vars

\* One that hands over an answer, too: that promises no more than an exception.
LEMMA AnswerFinishes ==
    ASSUME TypeOK, NEW c \in Clients, op[c] \notin ReadBack,
           End(c, "returned", None)
    PROVE  Contract!Finish(c, "unverified", None)
<1>1. phase' = [phase EXCEPT ![c] = "idle"]
  <2>1. pc' = [pc EXCEPT ![c] = "idle"]
    BY DEF End
  <2>2. PhaseOf("idle") = "idle"
    BY DEF PhaseOf
  <2>. QED
    BY <2>1, <2>2, PhaseStep
<1>2. promised' = [promised EXCEPT ![c] = "unverified"]
  BY DEF End, promised, TypeOK
<1>. QED
  BY <1>1, <1>2 DEF End, Contract!Finish, router_vars

\* Going on within a phase is nothing to the caller.
LEMMA GotoStutters ==
    ASSUME TypeOK, NEW c \in Clients, NEW p, Goto(c, p),
           PhaseOf(p) = PhaseOf(pc[c])
    PROVE  UNCHANGED Contract!vars
<1>1. UNCHANGED phase
  BY DEF Goto, phase, TypeOK
<1>2. UNCHANGED promised
  BY DEF Goto, promised
<1>. QED
  BY <1>1, <1>2 DEF Goto, router_vars, Contract!vars, Contract!router_vars,
                    Contract!caller_vars

\* Every step of a client is a step of its caller, or nothing to it.
LEMMA ClientRefines ==
    ASSUME IInv, NEW c \in Clients, Operation(c),
           \A o \in Ops, cfg \in Configs : Same(o, cfg) => Asked(o, cfg),
           \A o \in Ops, cfg \in Configs : Met(o, cfg) => Asked(o, cfg)
    PROVE  [Contract!Next]_Contract!vars
<1>. USE DEF IInv
<1>0. /\ PhaseOf("asked") = "asked" /\ PhaseOf("check") = "asked"
      /\ PhaseOf("write") = "asked" /\ PhaseOf("sent") = "written"
      /\ PhaseOf("verify") = "written" /\ PhaseOf("idle") = "idle"
      /\ phase[c] = PhaseOf(pc[c])
      /\ config \in Configs
  BY DEF PhaseOf, phase, TypeOK
<1>1. ASSUME NEW o \in Ops, begin(c, o)
      PROVE  Contract!Ask(c, o)
  <2>1. phase[c] = "idle"
    BY <1>0, <1>1 DEF begin
  <2>2. phase' = [phase EXCEPT ![c] = "asked"]
    <3>1. pc' = [pc EXCEPT ![c] = "asked"]
      BY <1>1 DEF begin
    <3>2. phase' = [phase EXCEPT ![c] = PhaseOf("asked")]
      BY <3>1, PhaseStep
    <3>. QED
      BY <1>0, <3>2
  <2>3. promised' = [promised EXCEPT ![c] = "none"]
    <3>1. /\ outcome' = [outcome EXCEPT ![c] = "none"]
          /\ op' = [op EXCEPT ![c] = o]
      BY <1>1 DEF begin
    <3>. QED
      BY <3>1 DEF promised, TypeOK
  <2>. QED
    BY <1>1, <2>1, <2>2, <2>3 DEF begin, router_vars, Contract!Ask,
                                  Contract!router_vars
<1>2. CASE reject(c) \/ read_fails(c)
  <2>1. End(c, "failed", None) /\ phase[c] = "asked"
    BY <1>0, <1>2 DEF reject, read_fails
  <2>2. Contract!Raise(c)
    BY <2>1, EndFinishes DEF Contract!Raise
  <2>. QED
    BY <2>2 DEF Contract!Next
<1>3. CASE current_read(c)
  <2>1. /\ phase[c] = "asked" /\ op[c] \in ReadBack /\ pc[c] = "asked"
        /\ op[c] \in Ops /\ config \in held[c]
    BY <1>0, <1>3 DEF current_read, Strengthening, ClientInv
  <2>2. CASE Goto(c, "check") \/ Goto(c, "write")
    BY <1>0, <2>1, <2>2, GotoStutters
  <2>3. CASE Same(op[c], config) /\ End(c, "returned", config)
    <3>1. Contract!Return(c)
      BY <1>0, <2>1, <2>3, EndFinishes DEF Contract!Return
    <3>. QED
      BY <3>1 DEF Contract!Next
  <2>. QED
    BY <1>3, <2>2, <2>3 DEF current_read
<1>4. CASE check_read(c)
  <2>1. /\ phase[c] = "asked" /\ op[c] \in ReadBack /\ pc[c] = "check"
        /\ op[c] \in Ops /\ got[c] \in held[c] /\ got[c] \in Configs
    BY <1>0, <1>4 DEF check_read, Strengthening, ClientInv, TypeOK
  <2>2. CASE Goto(c, "write")
    BY <1>0, <2>1, <2>2, GotoStutters
  <2>3. CASE Same(op[c], got[c]) /\ End(c, "returned", got[c])
    <3>1. Contract!Return(c)
      BY <2>1, <2>3, EndFinishes DEF Contract!Return
    <3>. QED
      BY <3>1, <2>1 DEF Contract!Next
  <2>4. CASE End(c, "failed", None)
    <3>1. Contract!Raise(c)
      BY <2>1, <2>4, EndFinishes DEF Contract!Raise
    <3>. QED
      BY <3>1 DEF Contract!Next
  <2>. QED
    BY <1>4, <2>2, <2>3, <2>4 DEF check_read
<1>5. CASE send(c)
  <2>1. phase[c] = "asked" /\ config \in held[c] /\ Valid(op[c])
    BY <1>0, <1>5 DEF send, Strengthening, ClientInv
  <2>2. phase' = [phase EXCEPT ![c] = "written"]
    BY <1>0, <1>5, PhaseStep DEF send
  <2>3. UNCHANGED promised
    BY <1>5 DEF send, promised
  <2>4. before'[c] = config
    BY <1>5 DEF send, TypeOK
  <2>5. Contract!Issue(c)
    BY <1>5, <2>1, <2>2, <2>3, <2>4 DEF send, TheWrite, Prepared, Contract!Issue
  <2>. QED
    BY <2>5 DEF Contract!Next
<1>6. CASE no_answer(c) \/ refused(c) \/ read_back_fails(c)
  <2>1. End(c, "unverified", None) /\ phase[c] = "written"
    BY <1>0, <1>6 DEF no_answer, refused, read_back_fails
  <2>2. Contract!Raise(c)
    BY <2>1, EndFinishes DEF Contract!Raise
  <2>. QED
    BY <2>2 DEF Contract!Next
<1>7. CASE answered(c)
  <2>1. phase[c] = "written" /\ pc[c] = "sent"
    BY <1>0, <1>7 DEF answered
  <2>2. CASE Goto(c, "verify")
    BY <1>0, <2>1, <2>2, GotoStutters
  <2>3. CASE op[c] \notin ReadBack /\ End(c, "returned", None)
    <3>1. Contract!Raise(c)
      BY <2>1, <2>3, AnswerFinishes DEF Contract!Raise
    <3>. QED
      BY <3>1 DEF Contract!Next
  <2>. QED
    BY <1>7, <2>2, <2>3 DEF answered
<1>8. CASE read_back(c)
  <2>1. /\ phase[c] = "written" /\ op[c] \in ReadBack /\ op[c] \in Ops
        /\ config \in held[c]
    BY <1>0, <1>8 DEF read_back, Strengthening, ClientInv
  <2>2. CASE Met(op[c], config) /\ End(c, "returned", config)
    <3>1. Contract!Return(c)
      BY <1>0, <2>1, <2>2, EndFinishes DEF Contract!Return
    <3>. QED
      BY <3>1 DEF Contract!Next
  <2>3. CASE End(c, "unverified", None)
    <3>1. Contract!Raise(c)
      BY <2>1, <2>3, EndFinishes DEF Contract!Raise
    <3>. QED
      BY <3>1 DEF Contract!Next
  <2>. QED
    BY <1>8, <2>2, <2>3 DEF read_back
<1>. QED
  BY <1>1, <1>2, <1>3, <1>4, <1>5, <1>6, <1>7, <1>8 DEF Operation, Contract!Next

\* Every step of the router is one of the contract's router.
LEMMA RouterRefines ==
    ASSUME IInv, Router
    PROVE  Contract!Next
<1>1. UNCHANGED <<pc, op, outcome>> => UNCHANGED <<phase, promised>>
  BY DEF phase, promised
<1>2. \A c \in Clients : pc[c] = "idle" <=> phase[c] = "idle"
  BY DEF phase, PhaseOf, IInv, TypeOK
<1>3. ASSUME NEW w \in owed, apply(w)
      PROVE  Contract!TakeEffect(w)
  BY <1>1, <1>2, <1>3 DEF apply, Taken, Contract!TakeEffect, Contract!caller_vars
<1>4. ASSUME NEW w \in owed, drop(w)
      PROVE  Contract!Forget(w)
  BY <1>1, <1>4 DEF drop, Contract!Forget, Contract!caller_vars
<1>. QED
  BY <1>3, <1>4 DEF Router, Contract!Next

\* The direct writes keep the contract of the verified ones, as soon as what an
\* operation that reads back takes for done is what was asked for.
LEMMA KeepsContract ==
    ASSUME WritesStay,
           \A o \in Ops, cfg \in Configs : Same(o, cfg) => Asked(o, cfg),
           \A o \in Ops, cfg \in Configs : Met(o, cfg) => Asked(o, cfg)
    PROVE  Spec => ImplementsSetting
<1>1. Init => Contract!Init
  BY DEF Init, Contract!Init, phase, PhaseOf, promised
<1>2. IInv /\ [Next]_vars => [Contract!Next]_Contract!vars
  <2>. SUFFICES ASSUME IInv, [Next]_vars
                PROVE  [Contract!Next]_Contract!vars
    OBVIOUS
  <2>1. CASE UNCHANGED vars
    BY <2>1 DEF vars, router_vars, phase, promised, Contract!vars,
                Contract!router_vars, Contract!caller_vars
  <2>2. CASE Done
    BY <2>1, <2>2 DEF Done
  <2>3. ASSUME NEW c \in Clients, Operation(c)
        PROVE  [Contract!Next]_Contract!vars
    BY <2>3, ClientRefines
  <2>4. CASE Router
    BY <2>4, RouterRefines
  <2>. QED
    BY <2>1, <2>2, <2>3, <2>4 DEF Next
<1>. QED
  BY <1>1, <1>2, Inductive, PTL DEF Spec, ImplementsSetting, Contract!Spec

---------------------------------------------------------------------------
(* The operations of module Services: types                                *)

\* What the arguments of the operations are.
LEMMA FirewallArguments ==
    ASSUME NEW o \in FirewallOps
    PROVE  /\ o.kind \in {"switch", "host", "vpn", "list", "table", "url"}
           /\ o.kind = "switch" => o.name \in Switches /\ o.on \in BOOLEAN
           /\ o.kind = "host" => o.host \in Hosts \cup {None}
           /\ o.kind = "vpn" => o.flags \in [Protocols -> BOOLEAN]
           /\ o.kind = "list" => o.table \in Lists /\ o.items \in Items(o.table)
           /\ o.kind = "table" => /\ o.table \in Tables /\ o.on \in BOOLEAN
                                  /\ o.items \in Items(o.table) \cup {None}
           /\ o.kind = "url" => /\ o.table \in UrlLists /\ o.on \in BOOLEAN
                                /\ o.items \in Items(o.table)
<1>1. o \in ListOps =>
          o.kind = "list" /\ o.table \in Lists /\ o.items \in Items(o.table)
  BY DEF ListOps
<1>2. o \in TableOps =>
          /\ o.kind = "table" /\ o.table \in Tables /\ o.on \in BOOLEAN
          /\ o.items \in Items(o.table) \cup {None}
  BY DEF TableOps
<1>3. o \in UrlOps =>
          /\ o.kind = "url" /\ o.table \in UrlLists /\ o.on \in BOOLEAN
          /\ o.items \in Items(o.table)
  BY DEF UrlOps
<1>. QED
  BY <1>1, <1>2, <1>3 DEF FirewallOps

LEMMA PhonebookArguments ==
    ASSUME NEW o \in PhonebookOps
    PROVE  /\ o.kind \in {"add", "update", "delete", "move", "copy", "add_group",
                          "update_group", "delete_group"}
           /\ o.kind \in {"add", "update", "delete"} => o.place \in 0 .. 1
           /\ o.kind \in {"add", "update"} => o.contact \in Contacts
           /\ o.kind = "move" => o.group \in AnyIndex
           /\ o.kind \in {"add_group", "update_group"} => o.name \in GroupNames
  BY DEF PhonebookOps

LEMMA StatisticsArguments ==
    ASSUME NEW o \in StatisticsOps
    PROVE  /\ o.kind \in {"mode", "allow", "forbidden", "alias", "offline",
                          "traffic"}
           /\ o.kind = "mode" => o.mode \in FilterModes \cup {None}
           /\ o.kind \in {"allow", "forbidden", "alias"} => o.mac \in AnyMac
           /\ o.kind \in {"allow", "forbidden"} => o.alias \in Aliases \cup {None}
           /\ o.kind = "alias" => o.alias \in Aliases
  BY DEF StatisticsOps

LEMMA SmsArguments ==
    ASSUME NEW o \in SmsOps
    PROVE  /\ o.kind \in {"send", "save", "delete"}
           /\ o.kind \in {"send", "save"} => o.body \in Texts \cup {None}
  BY DEF SmsOps

LEMMA DeviceArguments ==
    ASSUME NEW o \in DeviceOps
    PROVE  /\ o.field \in {"language", "sleep", "reboot"}
           /\ o.field = "language" => o.value \in Languages \cup {None}
           /\ o.field = "sleep" => o.value \in SleepMinutes \cup {None}
  BY DEF DeviceOps

\* A part of the operations is about one part of the router.
LEMMA ServicesArguments ==
    ASSUME NEW o \in ServicesOps
    PROVE  /\ o.part \in {"firewall", "sms", "phonebook", "statistics", "device",
                          "wps"}
           /\ o.part = "firewall" => o.do \in FirewallOps
           /\ o.part = "sms" => o.do \in SmsOps
           /\ o.part = "phonebook" => o.do \in PhonebookOps
           /\ o.part = "statistics" => o.do \in StatisticsOps
           /\ o.part = "device" => o.do \in DeviceOps
           /\ o.part = "wps" => o.do.start \in WpsStates \cup {None}
  BY DEF ServicesOps, WpsOps

\* The items of a rule list.
LEMMA ListItems ==
    ASSUME NEW o \in FirewallOps, o.kind \in {"list", "url"}
    PROVE  \E n \in Nat : /\ Given(o) \in [1 .. n -> Rules \cup {None}]
                          /\ Len(Given(o)) = n
<1>1. o.table \notin Tables /\ o.items \in Items(o.table)
  BY FirewallArguments DEF Lists, UrlLists, Tables
<1>2. PICK n \in Nat : o.items \in [1 .. n -> Rules \cup {None}]
  BY <1>1, FirewallAssumption DEF Items, Size
<1>3. PICK m \in Nat : Given(o) \in [1 .. m -> Rules \cup {None}]
  BY <1>2 DEF Given
<1>4. Len(Given(o)) = m
  BY <1>3
<1>. QED
  BY <1>3, <1>4

\* The items of a rule table.
LEMMA TableItems ==
    ASSUME NEW o \in FirewallOps, o.kind = "table"
    PROVE  \E n \in Nat :
              Given(o) \in [1 .. n -> [index: -1 .. Size(o.table), rule: Rules]]
<1>1. CASE o.items = None
  <2>1. Given(o) \in [1 .. 0 -> [index: -1 .. Size(o.table), rule: Rules]]
    BY <1>1 DEF Given
  <2>. QED
    BY <2>1
<1>2. CASE o.items # None
  <2>1. o.items \in Items(o.table) /\ o.table \in Tables
    BY <1>2, FirewallArguments
  <2>. QED
    BY <1>2, <2>1, FirewallAssumption DEF Items, Size, Given
<1>. QED
  BY <1>1, <1>2

\* A slot of a rule table holds the rule of the one item that names it.
LEMMA IndexedSlot ==
    ASSUME NEW o \in FirewallOps, FirewallValid(o), o.kind = "table",
           NEW i \in 0 .. Size(o.table) - 1
    PROVE  LET slot == IndexedSlots(o.table, Given(o))[i]
           IN  \/ /\ slot = None
                  /\ \A k \in DOMAIN Given(o) : Given(o)[k].index # i
               \/ \E k \in DOMAIN Given(o) :
                     /\ Given(o)[k].index = i /\ slot = Given(o)[k].rule
                     /\ \A j \in DOMAIN Given(o) : Given(o)[j].index = i => j = k
<1>. DEFINE items == Given(o)
            named == {k \in DOMAIN items : items[k].index = i}
<1>1. PICK n \in Nat :
          items \in [1 .. n -> [index: -1 .. Size(o.table), rule: Rules]]
  BY TableItems
<1>2. CASE named = {}
  <2>1. IndexedSlots(o.table, items)[i] = None
    BY <1>2 DEF IndexedSlots
  <2>2. \A k \in DOMAIN items : items[k].index # i
    BY <1>2
  <2>. QED
    BY <2>1, <2>2
<1>3. CASE named # {}
  <2>1. PICK k \in DOMAIN items : items[k].index = i
    BY <1>3
  <2>2. \A j \in DOMAIN items : items[j].index = i => j = k
    BY <2>1 DEF FirewallValid, IndexesAccepted
  <2>3. named = {k} /\ k \in Int
    BY <1>1, <2>1, <2>2
  <2>4. (CHOOSE x \in named : \A j \in named : j <= x) = k
    BY <2>3
  <2>5. IndexedSlots(o.table, items)[i] = items[k].rule
    BY <1>3, <2>4 DEF IndexedSlots
  <2>. QED
    BY <2>1, <2>2, <2>5
<1>. QED
  BY <1>2, <1>3

\* The slots that are sent are a whole table.
LEMMA PackedType ==
    ASSUME NEW o \in FirewallOps, FirewallValid(o),
           o.kind \in {"list", "table", "url"}
    PROVE  Packed(o) \in Slots(o.table)
<1>1. CASE o.kind \in {"list", "url"}
  <2>1. PICK n \in Nat : /\ Given(o) \in [1 .. n -> Rules \cup {None}]
                         /\ Len(Given(o)) = n
    BY <1>1, ListItems
  <2>2. \A i \in 0 .. Size(o.table) - 1 :
            i < Len(Given(o)) => Given(o)[i + 1] \in Rules \cup {None}
    BY <2>1, FirewallAssumption DEF Size
  <2>. QED
    BY <1>1, <2>2 DEF Packed, PositionalSlots, Slots
<1>2. CASE o.kind = "table"
  <2>1. PICK n \in Nat :
            Given(o) \in [1 .. n -> [index: -1 .. Size(o.table), rule: Rules]]
    BY <1>2, TableItems
  <2>2. \A i \in 0 .. Size(o.table) - 1 :
            IndexedSlots(o.table, Given(o))[i] \in Rules \cup {None}
    BY <1>2, <2>1, IndexedSlot
  <2>3. IndexedSlots(o.table, Given(o)) \in Slots(o.table)
    BY <2>2 DEF IndexedSlots, Slots
  <2>. QED
    BY <1>2, <2>3 DEF Packed
<1>. QED
  BY <1>1, <1>2

\* Each slot that is sent holds what the caller named for it, and nothing else.
LEMMA PackedAsNamed ==
    ASSUME NEW o \in FirewallOps, FirewallValid(o),
           o.kind \in {"list", "table", "url"}
    PROVE  AsNamed(o, Packed(o))
<1>. SUFFICES ASSUME NEW i \in 0 .. Size(o.table) - 1, NEW r \in Rules
              PROVE  Packed(o)[i] = r <=>
                         \E k \in DOMAIN Given(o) :
                             IF o.kind = "table"
                             THEN Given(o)[k] = [index |-> i, rule |-> r]
                             ELSE k = i + 1 /\ Given(o)[k] = r
  BY DEF AsNamed
<1>0. r # None
  BY FirewallAssumption
<1>1. CASE o.kind \in {"list", "url"}
  <2>1. PICK n \in Nat : /\ Given(o) \in [1 .. n -> Rules \cup {None}]
                         /\ Len(Given(o)) = n
    BY <1>1, ListItems
  <2>2. Packed(o)[i] = IF i < n THEN Given(o)[i + 1] ELSE None
    BY <1>1, <2>1 DEF Packed, PositionalSlots
  <2>3. i < n <=> i + 1 \in DOMAIN Given(o)
    BY <2>1, FirewallAssumption DEF Size
  <2>. QED
    BY <1>0, <1>1, <2>2, <2>3
<1>2. CASE o.kind = "table"
  <2>1. PICK n \in Nat :
            Given(o) \in [1 .. n -> [index: -1 .. Size(o.table), rule: Rules]]
    BY <1>2, TableItems
  <2>2. Packed(o)[i] = IndexedSlots(o.table, Given(o))[i]
    BY <1>2 DEF Packed
  <2>3. \A k \in DOMAIN Given(o) :
            Given(o)[k] = [index |-> i, rule |-> r] <=>
                Given(o)[k].index = i /\ Given(o)[k].rule = r
    BY <2>1
  <2>. QED
    BY <1>0, <1>2, <2>2, <2>3, IndexedSlot
<1>. QED
  BY <1>1, <1>2

\* A book stays one when something is entered.
LEMMA EnteredType ==
    ASSUME NEW S, NEW T, NEW book \in [S -> T], NEW v \in T
    PROVE  Entered(book, v) \in [S -> T]
  BY DEF Entered

\* The five parts whose state is a record stay in their configurations.
LEMMA FirewallType ==
    ASSUME NEW o \in FirewallOps, FirewallValid(o), NEW cfg \in FirewallConfigs
    PROVE  FirewallApplied(o, cfg) \in FirewallConfigs
<1>. DEFINE a == FirewallApplied(o, cfg)
<1>. USE FirewallArguments
<1>1. a.switch \in [Switches -> BOOLEAN]
  BY DEF FirewallApplied, FirewallConfigs
<1>2. a.host \in Hosts
  BY DEF FirewallApplied, FirewallConfigs, FirewallValid
<1>3. a.vpn \in [Protocols -> BOOLEAN]
  BY DEF FirewallApplied, FirewallConfigs
<1>4. a.on \in [Tables -> BOOLEAN]
  BY DEF FirewallApplied, FirewallConfigs
<1>5. a.url \in UrlLists \cup {"disable"}
  BY DEF FirewallApplied, FirewallConfigs
<1>6. a.slots \in [ip_filter: Slots("ip_filter"), port_filter: Slots("port_filter"),
                   port_trigger: Slots("port_trigger"),
                   port_forward: Slots("port_forward"),
                   blacklist: Slots("blacklist"), whitelist: Slots("whitelist")]
  <2>1. CASE ~CarriesSlots(o)
    BY <2>1 DEF FirewallApplied, FirewallConfigs
  <2>2. CASE CarriesSlots(o)
    <3>1. o.kind \in {"list", "table", "url"}
      BY <2>2 DEF CarriesSlots
    <3>2. Packed(o) \in Slots(o.table)
      BY <3>1, PackedType
    <3>3. o.table \in {"ip_filter", "port_filter", "port_trigger", "port_forward",
                       "blacklist", "whitelist"}
      BY <3>1 DEF Lists, Tables, UrlLists
    <3>4. a.slots = [cfg.slots EXCEPT ![o.table] = Packed(o)]
      BY <2>2 DEF FirewallApplied
    <3>. QED
      BY <3>2, <3>3, <3>4 DEF FirewallConfigs
  <2>. QED
    BY <2>1, <2>2
<1>. QED
  BY <1>1, <1>2, <1>3, <1>4, <1>5, <1>6 DEF FirewallApplied, FirewallConfigs

LEMMA SmsType ==
    ASSUME NEW o \in SmsOps, SmsValid(o), NEW cfg \in SmsConfigs
    PROVE  SmsApplied(o, cfg) \in SmsConfigs
<1>1. SmsApplied(o, cfg).sent \in 0 .. MaxSent
  BY SmsAssumption DEF SmsApplied, SmsConfigs
<1>2. SmsApplied(o, cfg).stored \in [Ids -> Texts \cup {None}]
  BY SmsArguments, EnteredType DEF SmsApplied, SmsConfigs
<1>. QED
  BY <1>1, <1>2 DEF SmsApplied, SmsConfigs

LEMMA PhonebookType ==
    ASSUME NEW o \in PhonebookOps, PhonebookValid(o), NEW cfg \in PhonebookConfigs
    PROVE  PhonebookApplied(o, cfg) \in PhonebookConfigs
<1>. USE PhonebookArguments
<1>1. cfg.contacts \in [0 .. 1 -> Book] /\ cfg.contacts[0] \in Book
      /\ cfg.contacts[1] \in Book
  BY DEF PhonebookConfigs
<1>2. ContactsAfter(o, cfg.contacts) \in [0 .. 1 -> Book]
  <2>1. CASE o.kind = "add"
    <3>1. Entered(cfg.contacts[o.place], o.contact) \in Book
      BY <1>1, <2>1, EnteredType DEF Book
    <3>. QED
      BY <1>1, <2>1, <3>1 DEF ContactsAfter
  <2>2. CASE o.kind = "update"
    <3>1. Replaced(cfg.contacts[o.place], o.index, o.contact) \in Book
      BY <1>1, <2>2 DEF Book, Replaced
    <3>. QED
      BY <1>1, <2>2, <3>1 DEF ContactsAfter
  <2>3. CASE o.kind = "delete"
    <3>1. [i \in Indexes |-> IF i \in Named(o) THEN None
                             ELSE cfg.contacts[o.place][i]] \in Book
      BY <1>1, <2>3 DEF Book
    <3>. QED
      BY <1>1, <2>3, <3>1 DEF ContactsAfter
  <2>4. CASE o.kind = "move"
    <3>1. o.group \in Indexes
      BY <2>4 DEF PhonebookValid, AnyIndex
    <3>2. ASSUME NEW i \in Indexes, cfg.contacts[0][i] # None
          PROVE  [name |-> cfg.contacts[0][i].name, group |-> o.group] \in Contacts
      BY <1>1, <3>1, <3>2 DEF Book, Contacts
    <3>3. [i \in Indexes |->
              IF i \in Named(o) /\ cfg.contacts[0][i] # None
              THEN [name |-> cfg.contacts[0][i].name, group |-> o.group]
              ELSE cfg.contacts[0][i]] \in Book
      BY <1>1, <3>2 DEF Book
    <3>. QED
      BY <1>1, <2>4, <3>3 DEF ContactsAfter
  <2>5. CASE o.kind = "copy"
    <3>1. [i \in Indexes |-> IF cfg.contacts[0][i] = None THEN cfg.contacts[1][i]
                             ELSE cfg.contacts[0][i]] \in Book
      BY <1>1 DEF Book
    <3>. QED
      BY <1>1, <2>5, <3>1 DEF ContactsAfter
  <2>6. CASE o.kind \in {"add_group", "update_group", "delete_group"}
    BY <1>1, <2>6 DEF ContactsAfter
  <2>. QED
    BY <2>1, <2>2, <2>3, <2>4, <2>5, <2>6
<1>3. PhonebookApplied(o, cfg).groups \in [Indexes -> GroupNames \cup {None}]
  BY EnteredType DEF PhonebookApplied, PhonebookConfigs, Replaced
<1>. QED
  BY <1>2, <1>3 DEF PhonebookApplied, PhonebookConfigs

LEMMA StatisticsType ==
    ASSUME NEW o \in StatisticsOps, StatisticsValid(o), NEW cfg \in StatisticsConfigs
    PROVE  StatisticsApplied(o, cfg) \in StatisticsConfigs
<1>. DEFINE a == StatisticsApplied(o, cfg)
<1>. USE StatisticsArguments DEF StatisticsApplied, StatisticsConfigs,
                                 StatisticsValid
<1>1. a.mode \in FilterModes /\ a.traffic \in BOOLEAN
  OBVIOUS
<1>2. /\ a.allow \in SUBSET Macs /\ a.forbidden \in SUBSET Macs
      /\ a.offline \in SUBSET Macs
  BY DEF Flagged, AnyMac
<1>3. a.alias \in [Macs -> Aliases \cup {None}]
  BY DEF CarriesAlias
<1>. QED
  BY <1>1, <1>2, <1>3

LEMMA DeviceType ==
    ASSUME NEW o \in DeviceOps, DeviceValid(o), NEW cfg \in DeviceConfigs
    PROVE  DeviceApplied(o, cfg) \in DeviceConfigs
  BY DeviceArguments DEF DeviceApplied, DeviceConfigs, DeviceValid

\* So does the router as a whole: the types of the writes need no assumption.
LEMMA ServicesStay ==
    ASSUME ServicesInstance(Configs)
    PROVE  WritesStay
<1>. SUFFICES ASSUME NEW o \in Ops, NEW cfg \in Configs, Valid(o)
              PROVE  Applied(o, cfg) \in Configs
  BY DEF WritesStay
<1>1. /\ o \in ServicesOps /\ cfg \in ServicesConfigs /\ ServicesValid(o)
      /\ Configs = ServicesConfigs /\ Applied(o, cfg) = ServicesApplied(o, cfg)
  BY DEF ServicesInstance
<1>. DEFINE a == ServicesApplied(o, cfg)
<1>. USE <1>1, ServicesArguments DEF ServicesApplied, ServicesConfigs, ServicesValid
<1>2. a.firewall \in FirewallConfigs
  BY FirewallType
<1>3. a.sms \in SmsConfigs
  BY SmsType
<1>4. a.phonebook \in PhonebookConfigs
  BY PhonebookType
<1>5. a.statistics \in StatisticsConfigs
  BY StatisticsType
<1>6. a.device \in DeviceConfigs
  BY DeviceType
<1>7. a.wps \in WpsStates
  OBVIOUS
<1>. QED
  BY <1>2, <1>3, <1>4, <1>5, <1>6, <1>7

---------------------------------------------------------------------------
(* The operations of module Services: what they change                     *)

\* A function changed at a point is the same elsewhere.
LEMMA ExceptKeepsTheRest ==
    ASSUME NEW f, NEW x, NEW v
    PROVE  Except([f EXCEPT ![x] = v], {x}) = Except(f, {x})
  BY DEF Except

LEMMA FirewallFrameIsKept ==
    ASSUME NEW o \in FirewallOps, NEW cfg \in FirewallConfigs
    PROVE  FirewallFrame(o, FirewallApplied(o, cfg)) = FirewallFrame(o, cfg)
<1>. DEFINE a == FirewallApplied(o, cfg)
<1>. USE ExceptKeepsTheRest
<1>1. o.kind = "switch" => Except(a.switch, {o.name}) = Except(cfg.switch, {o.name})
  BY DEF FirewallApplied
<1>2. o.kind = "table" => Except(a.on, {o.table}) = Except(cfg.on, {o.table})
  BY DEF FirewallApplied
<1>3. CarriesSlots(o) => Except(a.slots, {o.table}) = Except(cfg.slots, {o.table})
  BY DEF FirewallApplied
<1>4. /\ o.kind # "switch" => a.switch = cfg.switch
      /\ o.kind # "host" => a.host = cfg.host
      /\ o.kind # "vpn" => a.vpn = cfg.vpn
      /\ o.kind # "table" => a.on = cfg.on
      /\ o.kind # "url" => a.url = cfg.url
      /\ ~CarriesSlots(o) => a.slots = cfg.slots
  BY DEF FirewallApplied
<1>. QED
  BY <1>1, <1>2, <1>3, <1>4 DEF FirewallFrame, CarriesSlots

LEMMA SmsFrameIsKept ==
    ASSUME NEW o \in SmsOps, NEW cfg \in SmsConfigs
    PROVE  SmsFrame(o, SmsApplied(o, cfg)) = SmsFrame(o, cfg)
<1>1. o.kind = "delete" => Except(SmsApplied(o, cfg).stored, {o.id})
                           = Except(cfg.stored, {o.id})
  BY DEF SmsApplied, SmsConfigs, Except
<1>. QED
  BY <1>1, SmsArguments DEF SmsFrame, SmsApplied

LEMMA StatisticsFrameIsKept ==
    ASSUME NEW o \in StatisticsOps, NEW cfg \in StatisticsConfigs
    PROVE  StatisticsFrame(o, StatisticsApplied(o, cfg)) = StatisticsFrame(o, cfg)
<1>. DEFINE a == StatisticsApplied(o, cfg)
<1>1. CarriesAlias(o) => Except(a.alias, {o.mac}) = Except(cfg.alias, {o.mac})
  BY ExceptKeepsTheRest DEF StatisticsApplied
<1>2. /\ o.kind = "allow" => a.allow \ {o.mac} = cfg.allow \ {o.mac}
      /\ o.kind = "forbidden" => a.forbidden \ {o.mac} = cfg.forbidden \ {o.mac}
      /\ o.kind = "offline" => a.offline \ {o.mac} = cfg.offline \ {o.mac}
  BY DEF StatisticsApplied, Flagged
<1>3. /\ o.kind # "mode" => a.mode = cfg.mode
      /\ o.kind # "allow" => a.allow = cfg.allow
      /\ o.kind # "forbidden" => a.forbidden = cfg.forbidden
      /\ ~CarriesAlias(o) => a.alias = cfg.alias
      /\ o.kind # "offline" => a.offline = cfg.offline
      /\ o.kind # "traffic" => a.traffic = cfg.traffic
  BY DEF StatisticsApplied
<1>. QED
  BY <1>1, <1>2, <1>3 DEF StatisticsFrame, CarriesAlias

LEMMA PhonebookFrameIsKept ==
    ASSUME NEW o \in PhonebookOps, PhonebookValid(o), NEW cfg \in PhonebookConfigs
    PROVE  PhonebookFrame(o, PhonebookApplied(o, cfg)) = PhonebookFrame(o, cfg)
<1>. DEFINE before0 == cfg.contacts[0]
            a == PhonebookApplied(o, cfg)
            F(x) == PhonebookFrame(o, x)
<1>. USE PhonebookArguments
<1>1. /\ cfg.contacts \in [0 .. 1 -> Book] /\ before0 \in Book
      /\ DOMAIN before0 = Indexes /\ DOMAIN cfg.groups = Indexes
      /\ a.contacts = ContactsAfter(o, cfg.contacts)
  BY DEF PhonebookConfigs, Book, PhonebookApplied
<1>2. F(a).sim = F(cfg).sim
  BY <1>1 DEF PhonebookFrame, ContactsAfter
<1>3. F(a).others = F(cfg).others
  <2>1. CASE o.kind = "update" /\ o.place = 0
    <3>1. a.contacts[0] = Replaced(before0, o.index, o.contact)
      BY <1>1, <2>1 DEF ContactsAfter
    <3>2. Except(a.contacts[0], {o.index}) = Except(before0, {o.index})
      BY <1>1, <3>1 DEF Except, Replaced
    <3>. QED
      BY <2>1, <3>2 DEF PhonebookFrame
  <2>2. CASE o.kind = "delete" /\ o.place = 0
    <3>1. a.contacts[0] = [i \in Indexes |-> IF i \in Named(o) THEN None
                                             ELSE before0[i]]
      BY <1>1, <2>2 DEF ContactsAfter
    <3>2. Except(a.contacts[0], Named(o)) = Except(before0, Named(o))
      BY <1>1, <3>1 DEF Except
    <3>. QED
      BY <2>2, <3>2 DEF PhonebookFrame
  <2>3. CASE o.kind = "move"
    <3>1. a.contacts[0] =
              [i \in Indexes |->
                  IF i \in Named(o) /\ before0[i] # None
                  THEN [name |-> before0[i].name, group |-> o.group]
                  ELSE before0[i]]
      BY <1>1, <2>3 DEF ContactsAfter
    <3>2. Except(a.contacts[0], Named(o)) = Except(before0, Named(o))
      BY <1>1, <3>1 DEF Except
    <3>. QED
      BY <2>3, <3>2 DEF PhonebookFrame
  <2>4. CASE o.kind \in {"add", "copy"}
    BY <2>4 DEF PhonebookFrame
  <2>5. CASE \/ o.kind \in {"update", "delete"} /\ o.place = 1
             \/ o.kind \in {"add_group", "update_group", "delete_group"}
    <3>1. a.contacts[0] = before0
      BY <1>1, <2>5 DEF ContactsAfter
    <3>. QED
      BY <2>5, <3>1 DEF PhonebookFrame
  <2>. QED
    BY <2>1, <2>2, <2>3, <2>4, <2>5
<1>4. F(a).names = F(cfg).names
  <2>1. CASE o.kind = "move"
    <3>1. a.contacts[0] =
              [i \in Indexes |->
                  IF i \in Named(o) /\ before0[i] # None
                  THEN [name |-> before0[i].name, group |-> o.group]
                  ELSE before0[i]]
      BY <1>1, <2>1 DEF ContactsAfter
    <3>2. ASSUME NEW i \in Named(o) \cap Indexes
          PROVE  (IF a.contacts[0][i] = None THEN None ELSE a.contacts[0][i].name)
                 = (IF before0[i] = None THEN None ELSE before0[i].name)
      <4>1. CASE before0[i] = None
        BY <3>1, <3>2, <4>1
      <4>2. CASE before0[i] # None
        <5>1. a.contacts[0][i] = [name |-> before0[i].name, group |-> o.group]
          BY <3>1, <3>2, <4>2
        <5>2. a.contacts[0][i] # None => a.contacts[0][i].name = before0[i].name
          BY <5>1
        <5>3. a.contacts[0][i] # None
          <6>1. o.group \in Indexes
            BY <2>1 DEF PhonebookValid, AnyIndex
          <6>2. before0[i].name \in Names
            BY <1>1, <3>2, <4>2 DEF Book, Contacts
          <6>. QED
            BY <5>1, <6>1, <6>2, PhonebookAssumption DEF Contacts
        <5>. QED
          BY <4>2, <5>2, <5>3
      <4>. QED
        BY <4>1, <4>2
    <3>. QED
      BY <2>1, <3>2 DEF PhonebookFrame
  <2>2. CASE o.kind # "move"
    BY <2>2 DEF PhonebookFrame
  <2>. QED
    BY <2>1, <2>2
<1>5. F(a).groups = F(cfg).groups
  <2>1. o.kind \in {"update_group", "delete_group"} =>
            Except(a.groups, {o.index}) = Except(cfg.groups, {o.index})
    BY <1>1 DEF Except, Replaced, PhonebookApplied
  <2>. QED
    BY <2>1 DEF PhonebookFrame, PhonebookApplied
<1>. QED
  BY <1>2, <1>3, <1>4, <1>5 DEF PhonebookFrame

LEMMA DeviceFrameIsKept ==
    ASSUME NEW o \in DeviceOps, NEW cfg \in DeviceConfigs
    PROVE  DeviceFrame(o, DeviceApplied(o, cfg)) = DeviceFrame(o, cfg)
  BY DeviceArguments DEF DeviceFrame, DeviceApplied, DeviceConfigs, Except

LEMMA ServicesFrameIsKept ==
    ASSUME NEW o \in ServicesOps, NEW cfg \in ServicesConfigs, ServicesValid(o)
    PROVE  ServicesFrame(o, ServicesApplied(o, cfg)) = ServicesFrame(o, cfg)
<1>. DEFINE a == ServicesApplied(o, cfg)
<1>1. /\ o.part = "firewall" =>
             FirewallFrame(o.do, a.firewall) = FirewallFrame(o.do, cfg.firewall)
      /\ o.part = "sms" => SmsFrame(o.do, a.sms) = SmsFrame(o.do, cfg.sms)
      /\ o.part = "phonebook" =>
             PhonebookFrame(o.do, a.phonebook) = PhonebookFrame(o.do, cfg.phonebook)
      /\ o.part = "statistics" =>
             StatisticsFrame(o.do, a.statistics)
             = StatisticsFrame(o.do, cfg.statistics)
      /\ o.part = "device" =>
             DeviceFrame(o.do, a.device) = DeviceFrame(o.do, cfg.device)
  BY ServicesArguments, FirewallFrameIsKept, SmsFrameIsKept, PhonebookFrameIsKept,
     StatisticsFrameIsKept, DeviceFrameIsKept
     DEF ServicesApplied, ServicesConfigs, ServicesValid
<1>2. /\ o.part # "firewall" => a.firewall = cfg.firewall
      /\ o.part # "sms" => a.sms = cfg.sms
      /\ o.part # "phonebook" => a.phonebook = cfg.phonebook
      /\ o.part # "statistics" => a.statistics = cfg.statistics
      /\ o.part # "device" => a.device = cfg.device
      /\ o.part # "wps" => a.wps = cfg.wps
  BY DEF ServicesApplied
<1>. QED
  BY <1>1, <1>2 DEF ServicesFrame

\* A value that is taken for the wanted one has what was asked for.
LEMMA ServicesSameIsAsked ==
    ASSUME NEW o \in ServicesOps, NEW cfg \in ServicesConfigs, ServicesSame(o, cfg)
    PROVE  ServicesAsked(o, cfg)
<1>1. o.part = "device" /\ o.do \in DeviceOps /\ cfg.device[o.do.field] = o.do.value
  BY ServicesArguments DEF ServicesSame, DeviceSame
<1>. QED
  BY <1>1 DEF ServicesAsked

---------------------------------------------------------------------------
(* The theorems about the direct writes of the client                      *)

\* Every direct write keeps the contract of the verified ones, as far as it reads
\* back, for any number of clients and a router that applies writes at any time.
THEOREM ServicesKeepContract ==
    ASSUME ServicesInstance(Configs)
    PROVE  Spec => ImplementsSetting
<1>1. WritesStay
  BY ServicesStay
<1>2. \A o \in Ops, cfg \in Configs : Same(o, cfg) => Asked(o, cfg)
  BY ServicesSameIsAsked DEF ServicesInstance
<1>3. \A o \in Ops, cfg \in Configs : Met(o, cfg) => Asked(o, cfg)
  BY ServicesSameIsAsked DEF ServicesInstance
<1>. QED
  BY <1>1, <1>2, <1>3, KeepsContract

\* The three status fields of an sms answer, and the result of a WPS action at one of
\* two places: each check passes only what a router says that has done its work.
LEMMA ServicesChecksSuffice ==
    ASSUME ServicesInstance(Configs)
    PROVE  ChecksSuffice
<1>. SUFFICES ASSUME NEW o \in Confirmed, NEW a \in ServicesAnswers(o),
                     ServicesConfirms(o, a)
              PROVE  ServicesReportsDone(o, a)
  BY DEF ServicesInstance, ChecksSuffice
<1>1. CASE o.part = "sms"
  BY <1>1 DEF ServicesConfirms, ServicesReportsDone, SmsConfirms, SmsReportsDone
<1>2. CASE o.part # "sms"
  BY <1>2 DEF ServicesConfirms, ServicesReportsDone, WpsConfirms, WpsReportsDone
<1>. QED
  BY <1>1, <1>2

\* What sms and wps report as done has been done, however early, late or wrong the
\* router answers as long as it does not claim in every field what it has not done.
THEOREM ServicesConfirmedHappens ==
    ASSUME ServicesInstance(Configs)
    PROVE  Spec => []ConfirmedHappened
  BY ServicesStay, ServicesChecksSuffice, ConfirmedHappens

\* None of them writes twice or writes and denies it.
THEOREM ServicesInvariants ==
    ASSUME ServicesInstance(Configs)
    PROVE  Spec => [](EffectAtMostOnce /\ NoHiddenEffect)
<1>1. WritesStay
  BY ServicesStay
<1>. QED
  BY <1>1, AtMostOnce, NothingHidden, PTL

\* The clients lose no update of each other: a direct write changes nothing that it
\* was not asked to change, whenever it takes effect and whatever happened meanwhile.
THEOREM ServicesFrameKept ==
    ASSUME ServicesInstance(Configs)
    PROVE  Spec => OnlyAskedChanges
<1>1. WritesStay
  BY ServicesStay
<1>2. IInv =>
          \A w \in owed : config' = Applied(w.op, config) /\ w \notin owed'
              => Frame(w.op, config') = Frame(w.op, config)
  <2>. SUFFICES ASSUME IInv, NEW w \in owed, config' = Applied(w.op, config)
                PROVE  Frame(w.op, config') = Frame(w.op, config)
    OBVIOUS
  <2>1. /\ w.op \in Ops /\ config \in Configs /\ Valid(w.op)
        /\ Applied(w.op, config) \in Configs
    BY <1>1 DEF IInv, TypeOK, Strengthening, OwedInv, Write, WritesStay
  <2>2. /\ w.op \in ServicesOps /\ config \in ServicesConfigs
        /\ ServicesValid(w.op) /\ config' = ServicesApplied(w.op, config)
        /\ Frame(w.op, config') = ServicesFrame(w.op, config')
        /\ Frame(w.op, config) = ServicesFrame(w.op, config)
    BY <2>1 DEF ServicesInstance
  <2>. QED
    BY <2>2, ServicesFrameIsKept
<1>. QED
  BY <1>1, <1>2, Inductive, PTL DEF Spec, OnlyAskedChanges

\* A write of rules puts each rule where the caller named it, and nothing else.
THEOREM RulesAsNamed ==
    ASSUME ServicesInstance(Configs)
    PROVE  Spec => SlotsAsNamed
<1>1. WritesStay
  BY ServicesStay
<1>2. ASSUME IInv, NEW w \in owed, config' = ServicesApplied(w.op, config),
             w.op.part = "firewall", CarriesSlots(w.op.do)
      PROVE  AsNamed(w.op.do, config'.firewall.slots[w.op.do.table])
  <2>1. w.op \in Ops /\ config \in Configs /\ Valid(w.op)
    BY <1>2 DEF IInv, TypeOK, Strengthening, OwedInv, Write
  <2>2. /\ w.op \in ServicesOps /\ ServicesValid(w.op)
        /\ config \in ServicesConfigs
    BY <2>1 DEF ServicesInstance
  <2>. DEFINE o == w.op.do
  <2>3. /\ o \in FirewallOps /\ FirewallValid(o)
        /\ config.firewall \in FirewallConfigs
        /\ config'.firewall = FirewallApplied(o, config.firewall)
    BY <1>2, <2>2, ServicesArguments
       DEF ServicesValid, ServicesConfigs, ServicesApplied
  <2>4. o.kind \in {"list", "table", "url"}
    BY <1>2 DEF CarriesSlots
  <2>5. o.table \in {"ip_filter", "port_filter", "port_trigger", "port_forward",
                     "blacklist", "whitelist"}
    BY <2>3, <2>4, FirewallArguments DEF Lists, Tables, UrlLists
  <2>6. config'.firewall.slots[o.table] = Packed(o)
    BY <1>2, <2>3, <2>5 DEF FirewallApplied, FirewallConfigs
  <2>. QED
    BY <2>3, <2>4, <2>6, PackedAsNamed
<1>3. IInv =>
          \A w \in owed :
              /\ config' = ServicesApplied(w.op, config)
              /\ w \notin owed'
              /\ w.op.part = "firewall"
              /\ \/ w.op.do.kind = "list"
                 \/ w.op.do.kind \in {"table", "url"} /\ w.op.do.on
              => AsNamed(w.op.do, config'.firewall.slots[w.op.do.table])
  BY <1>2 DEF CarriesSlots
<1>. QED
  BY <1>1, <1>3, Inductive, PTL DEF Spec, SlotsAsNamed
=============================================================================
