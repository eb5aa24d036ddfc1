--------------------------- MODULE SettingsProofs ---------------------------
(***************************************************************************)
(* Proofs about the verified write and about the settings it changes.      *)
(*                                                                         *)
(* The first part holds of VerifiedWrite for every set of clients,         *)
(* configurations and operations, every number of recovery attempts, and   *)
(* both kinds of routers: the ones that may apply a write late and the     *)
(* ones that do not.  Its theorems ask some facts of the operations.       *)
(*                                                                         *)
(* The second part shows that the operations of lan, wifi, mobile and the  *)
(* work mode have what those theorems ask: one fact for each hypothesis,   *)
(* shown part by part.                                                     *)
(***************************************************************************)
EXTENDS Settings, TLAPS

USE AttemptsAssumption, CallsAssumption, InitialAssumption, OpsAssumption

\* The strengthening that makes the properties inductive.  An operation knows
\* whether it has written: `before` is None until then, and afterwards a snapshot
\* that a payload could be built from.
ClientInv ==
    \A c \in Clients :
        /\ pc[c] # "idle" =>
               op[c] \in Ops /\ calls[c] \in 1 .. MaxCalls /\ outcome[c] = "none"
        /\ pc[c] \in {"check", "read"} => before[c] = None
        /\ pc[c] = "verify" => before[c] # None /\ Preparable(op[c], before[c])
        /\ outcome[c] = "failed" => before[c] = None
        /\ got[c] # None => pc[c] # "idle" /\ got[c] \in held[c]

\* The history of a running operation reaches up to now.
HeldInv == \A c \in Clients : pc[c] # "idle" => config \in held[c]

\* An owed write can be applied, has not been, and was written by its operation.
OwedInv ==
    \A w \in owed :
        /\ Preparable(w.op, w.before)
        /\ <<w.client, w.call>> \notin applied
        /\ w.call <= calls[w.client]
        /\ w.call = calls[w.client] => before[w.client] # None

\* An operation writes once.
OneWriteInv ==
    \A v, w \in owed : v.client = w.client /\ v.call = w.call => v = w

\* A write that has taken effect was written by its operation, too.
AppliedInv ==
    \A c \in Clients, n \in 1 .. MaxCalls :
        <<c, n>> \in applied =>
            n <= calls[c] /\ (n = calls[c] => before[c] # None)

Strengthening == ClientInv /\ HeldInv /\ OwedInv /\ OneWriteInv /\ AppliedInv

IInv == TypeOK /\ Strengthening

\* The one write of an operation carries what the router held at some moment of
\* it: the answer to the read or, where that is not looked at, what is there.
LEMMA SendsHeld ==
    ASSUME IInv, NEW c \in Clients, write(c) \/ write_unread(c)
    PROVE  \E snapshot \in Configs :
               /\ pc[c] = "read"
               /\ snapshot \in held[c]
               /\ Preparable(op[c], snapshot)
               /\ got[c] = snapshot \/ snapshot = config
               /\ Send(c, snapshot)
<1>. USE DEF IInv, TypeOK, Strengthening
<1>1. CASE write(c)
  BY <1>1 DEF write, ClientInv
<1>2. CASE write_unread(c)
  BY <1>2, TrustingAssumption DEF write_unread, HeldInv
<1>. QED
  BY <1>1, <1>2

---------------------------------------------------------------------------
(* Types                                                                   *)

\* An operation that ends keeps the types of what it touches.
LEMMA EndTypes ==
    ASSUME TypeOK, NEW c \in Clients, NEW o \in Outcomes,
           NEW v \in Configs \cup {None}, End(c, o, v)
    PROVE  /\ pc' \in [Clients -> {"idle", "check", "read", "verify"}]
           /\ outcome' \in [Clients -> Outcomes]
           /\ result' \in [Clients -> Configs \cup {None}]
           /\ got' \in [Clients -> Configs \cup {None}]
           /\ held' \in [Clients -> SUBSET Configs]
           /\ owed' \subseteq Write
           /\ owed' \subseteq owed
  BY DEF End, TypeOK

\* A poll that told nothing new keeps the types.
LEMMA PollTypes ==
    ASSUME TypeOK, NEW c \in Clients, PollAgain(c)
    PROVE  /\ pc' \in [Clients -> {"idle", "check", "read", "verify"}]
           /\ outcome' \in [Clients -> Outcomes]
           /\ result' \in [Clients -> Configs \cup {None}]
           /\ got' \in [Clients -> Configs \cup {None}]
           /\ held' \in [Clients -> SUBSET Configs]
           /\ attempts' \in [Clients -> 0 .. Attempts]
           /\ owed' \subseteq Write
           /\ owed' \subseteq owed
<1>0. attempts[c] \in 0 .. Attempts
  BY DEF TypeOK
<1>1. CASE attempts[c] > 1
  <2>1. attempts[c] - 1 \in 0 .. Attempts
    BY <1>0, <1>1
  <2>2. /\ attempts' = [attempts EXCEPT ![c] = attempts[c] - 1]
        /\ got' = [got EXCEPT ![c] = None]
        /\ UNCHANGED <<pc, outcome, result, owed, held>>
    BY <1>1 DEF PollAgain
  <2>. QED
    BY <2>1, <2>2 DEF TypeOK
<1>2. CASE ~(attempts[c] > 1)
  <2>1. /\ attempts' = [attempts EXCEPT ![c] = 0]
        /\ End(c, "unverified", None)
    BY <1>0, <1>2 DEF PollAgain
  <2>2. "unverified" \in Outcomes
    BY DEF Outcomes
  <2>3. attempts' \in [Clients -> 0 .. Attempts]
    BY <2>1 DEF TypeOK
  <2>. QED
    BY <2>1, <2>2, <2>3, EndTypes
<1>. QED
  BY <1>1, <1>2

\* Initially every variable has its type.
LEMMA TypeInit == Init => TypeOK
<1>. SUFFICES ASSUME Init PROVE TypeOK
  OBVIOUS
<1>1. /\ config \in Configs
      /\ owed \subseteq Write
      /\ applied \subseteq Clients \X (1 .. MaxCalls)
  BY DEF Init
<1>2. /\ held \in [Clients -> SUBSET Configs]
      /\ session \in [Clients -> {"live", "expired", "none"}]
      /\ pc \in [Clients -> {"idle", "check", "read", "verify"}]
      /\ op \in [Clients -> Ops \cup {None}]
      /\ before \in [Clients -> Configs \cup {None}]
  BY DEF Init
<1>3. /\ got \in [Clients -> Configs \cup {None}]
      /\ outcome \in [Clients -> Outcomes]
      /\ result \in [Clients -> Configs \cup {None}]
  BY DEF Init, Outcomes
<1>4. /\ calls \in [Clients -> 0 .. MaxCalls]
      /\ attempts \in [Clients -> 0 .. Attempts]
  BY DEF Init
<1>. QED
  BY <1>1, <1>2, <1>3, <1>4 DEF TypeOK

\* The steps of an operation keep the types.
LEMMA TypeOperation ==
    ASSUME IInv, NEW c \in Clients,
           (\E o \in Ops : begin(c, o)) \/ Progress(c) \/ login(c)
    PROVE  TypeOK'
<1>. USE DEF IInv, Strengthening
<1>1. CASE \E o \in Ops : begin(c, o)
  <2>. PICK o \in Ops : begin(c, o)
    BY <1>1
  <2>1. calls' \in [Clients -> 0 .. MaxCalls]
    <3>1. calls[c] \in 0 .. MaxCalls /\ calls[c] < MaxCalls
      BY DEF begin, TypeOK
    <3>2. calls[c] + 1 \in 0 .. MaxCalls
      BY <3>1
    <3>. QED
      BY <3>2 DEF begin, TypeOK
  <2>2. /\ outcome' \in [Clients -> Outcomes]
        /\ result' \in [Clients -> Configs \cup {None}]
        /\ before' \in [Clients -> Configs \cup {None}]
    BY DEF begin, TypeOK, Outcomes
  <2>3. /\ pc' \in [Clients -> {"idle", "check", "read", "verify"}]
        /\ held' \in [Clients -> SUBSET Configs]
        /\ op' \in [Clients -> Ops \cup {None}]
    BY DEF begin, TypeOK
  <2>. QED
    BY <2>1, <2>2, <2>3 DEF begin, TypeOK
<1>2. CASE read_served(c)
  BY <1>2 DEF read_served, TypeOK, router_vars
<1>3. CASE read_fails(c) \/ refuse(c)
  <2>1. "failed" \in Outcomes
    BY DEF Outcomes
  <2>2. End(c, "failed", None)
    BY <1>3 DEF read_fails, refuse
  <2>3. UNCHANGED <<config, applied, session, calls, op, before, attempts>>
    BY <1>3 DEF read_fails, refuse
  <2>. QED
    BY <2>1, <2>2, <2>3, EndTypes DEF TypeOK
<1>4. CASE check_passes(c)
  BY <1>4 DEF check_passes, TypeOK, router_vars
<1>5. CASE no_change(c) \/ verify_matches(c)
  <2>1. "returned" \in Outcomes /\ got[c] \in Configs \cup {None}
    BY DEF Outcomes, TypeOK
  <2>2. End(c, "returned", got[c])
    BY <1>5 DEF no_change, verify_matches
  <2>3. UNCHANGED <<config, applied, session, calls, op, before, attempts>>
    BY <1>5 DEF no_change, verify_matches
  <2>. QED
    BY <2>1, <2>2, <2>3, EndTypes DEF TypeOK
<1>6. CASE write(c) \/ write_unread(c)
  <2>. PICK snapshot \in Configs : pc[c] = "read" /\ Send(c, snapshot)
    BY <1>6, SendsHeld
  <2>1. op[c] \in Ops /\ calls[c] \in 1 .. MaxCalls
    BY DEF ClientInv
  <2>2. owed' \subseteq Write
    BY <2>1 DEF Send, TypeOK, Write
  <2>3. attempts' \in [Clients -> 0 .. Attempts]
    BY DEF Send, TypeOK
  <2>. QED
    BY <2>1, <2>2, <2>3 DEF Send, TypeOK
<1>7. CASE verify_differs(c)
  BY <1>7, PollTypes DEF verify_differs, TypeOK
<1>8. CASE verify_fails(c)
  <2>1. session' \in [Clients -> {"live", "expired", "none"}]
    BY <1>8 DEF verify_fails, Relogin, TypeOK
  <2>. QED
    BY <1>8, <2>1, PollTypes DEF verify_fails, TypeOK
<1>9. CASE login(c)
  BY <1>9 DEF login, TypeOK, router_vars
<1>. QED
  BY <1>1, <1>2, <1>3, <1>4, <1>5, <1>6, <1>7, <1>8, <1>9 DEF Progress

\* So do those of the router.
LEMMA TypeRouter ==
    ASSUME IInv, Router
    PROVE  TypeOK'
<1>. USE DEF IInv, Strengthening
<1>1. ASSUME NEW c \in Clients, session_expires(c)
      PROVE  TypeOK'
  BY <1>1 DEF session_expires, TypeOK, router_vars
<1>2. ASSUME NEW w \in owed, apply(w)
      PROVE  TypeOK'
  <2>1. /\ w.op \in Ops
        /\ w.before \in Configs
        /\ w.client \in Clients
        /\ w.call \in 1 .. MaxCalls
        /\ Preparable(w.op, w.before)
    BY DEF TypeOK, Write, OwedInv
  <2>2. config' \in Configs
    BY <1>2, <2>1, AppliedAssumption DEF apply, TypeOK
  <2>3. applied' \subseteq Clients \X (1 .. MaxCalls)
    BY <1>2, <2>1 DEF apply, TypeOK
  <2>4. held' \in [Clients -> SUBSET Configs]
    BY <1>2, <2>2 DEF apply, TypeOK
  <2>. QED
    BY <1>2, <2>2, <2>3, <2>4 DEF apply, TypeOK, client_vars
<1>3. ASSUME NEW w \in owed, drop(w)
      PROVE  TypeOK'
  BY <1>3 DEF drop, TypeOK, client_vars
<1>. QED
  BY <1>1, <1>2, <1>3 DEF Router

\* The types survive every step.
LEMMA TypeStep == IInv /\ [Next]_vars => TypeOK'
<1>. SUFFICES ASSUME IInv, [Next]_vars PROVE TypeOK'
  OBVIOUS
<1>1. CASE UNCHANGED vars
  BY <1>1 DEF IInv, TypeOK, vars, router_vars, client_vars
<1>2. CASE Next
  <2>1. CASE Done
    BY <2>1, <1>1 DEF Done
  <2>. QED
    BY <1>2, <2>1, TypeOperation, TypeRouter DEF Next
<1>. QED
  BY <1>1, <1>2

---------------------------------------------------------------------------
(* The strengthening                                                       *)

\* What an operation that ends leaves behind.
LEMMA EndInv ==
    ASSUME IInv, NEW c \in Clients, NEW o \in Outcomes, NEW v,
           pc[c] # "idle", o = "failed" => before[c] = None,
           End(c, o, v), UNCHANGED <<config, applied, calls, op, before>>
    PROVE  Strengthening'
<1>. USE DEF IInv, Strengthening
<1>1. ClientInv'
  BY DEF ClientInv, End, TypeOK
<1>2. owed' \subseteq owed
  BY DEF End
<1>3. OwedInv'
  BY <1>2 DEF OwedInv
<1>4. OneWriteInv'
  BY <1>2 DEF OneWriteInv
<1>5. AppliedInv'
  BY DEF AppliedInv
<1>6. HeldInv'
  BY DEF HeldInv, End, TypeOK
<1>. QED
  BY <1>1, <1>3, <1>4, <1>5, <1>6

\* What a poll that told nothing new leaves behind.
LEMMA PollInv ==
    ASSUME IInv, NEW c \in Clients, pc[c] = "verify", PollAgain(c),
           UNCHANGED <<config, applied, calls, op, before>>
    PROVE  Strengthening'
<1>1. CASE End(c, "unverified", None)
  <2>1. "unverified" \in Outcomes /\ pc[c] # "idle"
    BY DEF Outcomes
  <2>. QED
    BY <1>1, <2>1, EndInv
<1>2. CASE /\ got' = [got EXCEPT ![c] = None]
           /\ UNCHANGED <<pc, outcome, result, owed, held>>
  BY <1>2 DEF IInv, Strengthening, ClientInv, HeldInv, OwedInv,
              OneWriteInv, AppliedInv, TypeOK
<1>. QED
  BY <1>1, <1>2 DEF PollAgain

\* The start of an operation.
LEMMA BeginInv ==
    ASSUME IInv, NEW c \in Clients, NEW o \in Ops, begin(c, o)
    PROVE  Strengthening'
<1>. USE DEF IInv, Strengthening
<1>0. /\ calls[c] \in 0 .. MaxCalls /\ calls[c] < MaxCalls
      /\ calls[c] + 1 \in 1 .. MaxCalls
      /\ calls' = [calls EXCEPT ![c] = calls[c] + 1]
  BY DEF begin, TypeOK
<1>1. ClientInv'
  <2>. SUFFICES ASSUME NEW d \in Clients PROVE ClientInv!(d)'
    BY DEF ClientInv
  <2>1. CASE d = c
    <3>1. /\ op'[d] = o /\ calls'[d] = calls[c] + 1 /\ outcome'[d] = "none"
          /\ before'[d] = None /\ got'[d] = got[c] /\ pc'[d] # "verify"
      BY <1>0, <2>1 DEF begin, TypeOK
    <3>2. got[c] = None
      BY DEF begin, ClientInv
    <3>. QED
      BY <1>0, <3>1, <3>2 DEF begin
  <2>2. CASE d # c
    <3>1. /\ op'[d] = op[d] /\ calls'[d] = calls[d] /\ outcome'[d] = outcome[d]
          /\ before'[d] = before[d] /\ got'[d] = got[d] /\ pc'[d] = pc[d]
          /\ held'[d] = held[d]
      BY <2>2 DEF begin, TypeOK
    <3>. QED
      BY <3>1 DEF ClientInv
  <2>. QED
    BY <2>1, <2>2
<1>2. OwedInv'
  <2>. SUFFICES ASSUME NEW w \in owed' PROVE OwedInv!(w)'
    BY DEF OwedInv
  <2>1. w \in owed /\ applied' = applied
    BY DEF begin
  <2>2. w.client \in Clients /\ w.call \in 1 .. MaxCalls
    BY <2>1 DEF TypeOK, Write
  <2>3. w.call <= calls[w.client] /\ calls[w.client] \in 0 .. MaxCalls
    BY <2>1, <2>2 DEF OwedInv, TypeOK
  <2>4. CASE w.client = c
    <3>1. calls'[w.client] = calls[c] + 1
      BY <1>0, <2>4 DEF TypeOK
    <3>. QED
      BY <2>1, <2>2, <2>3, <2>4, <3>1 DEF OwedInv
  <2>5. CASE w.client # c
    BY <2>1, <2>2, <2>5 DEF OwedInv, begin, TypeOK
  <2>. QED
    BY <2>4, <2>5
<1>3. AppliedInv'
  <2>. SUFFICES ASSUME NEW d \in Clients, NEW n \in 1 .. MaxCalls,
                       <<d, n>> \in applied'
                PROVE  n <= calls'[d] /\ (n = calls'[d] => before'[d] # None)
    BY DEF AppliedInv
  <2>1. <<d, n>> \in applied /\ n <= calls[d] /\ calls[d] \in 0 .. MaxCalls
    BY DEF begin, AppliedInv, TypeOK
  <2>2. CASE d = c
    <3>1. calls'[d] = calls[d] + 1
      BY <1>0, <2>2 DEF TypeOK
    <3>. QED
      BY <2>1, <3>1
  <2>3. CASE d # c
    BY <2>1, <2>3 DEF AppliedInv, begin, TypeOK
  <2>. QED
    BY <2>2, <2>3
<1>4. OneWriteInv'
  BY DEF OneWriteInv, begin
<1>5. HeldInv'
  BY DEF HeldInv, begin, TypeOK
<1>. QED
  BY <1>1, <1>2, <1>3, <1>4, <1>5

\* The write.
LEMMA WriteInv ==
    ASSUME IInv, NEW c \in Clients, NEW snapshot \in Configs, pc[c] = "read",
           Preparable(op[c], snapshot), Send(c, snapshot)
    PROVE  Strengthening'
<1>. USE DEF IInv, Strengthening
<1>1. /\ op[c] \in Ops /\ calls[c] \in 1 .. MaxCalls
      /\ before[c] = None /\ outcome[c] = "none" /\ snapshot # None
  BY DEF TypeOK, ClientInv
<1>2. ClientInv'
  BY <1>1 DEF ClientInv, Send, TypeOK
<1>3. OwedInv'
  <2>. SUFFICES ASSUME NEW w \in owed' PROVE OwedInv!(w)'
    BY DEF OwedInv
  <2>1. CASE w \in owed
    BY <1>1, <2>1 DEF OwedInv, Send, TypeOK, Write
  <2>2. CASE w \notin owed
    <3>1. w = [client |-> c, call |-> calls[c], op |-> op[c], before |-> snapshot]
      BY <2>2 DEF Send
    <3>2. /\ w.client = c /\ w.call = calls[c] /\ w.op = op[c]
          /\ w.before = snapshot
      BY <3>1
    <3>3. <<c, calls[c]>> \notin applied
      BY <1>1 DEF AppliedInv
    <3>4. before'[c] = snapshot /\ calls' = calls /\ applied' = applied
      BY DEF Send, TypeOK
    <3>. QED
      BY <1>1, <3>2, <3>3, <3>4
  <2>. QED
    BY <2>1, <2>2
<1>4. AppliedInv'
  BY <1>1 DEF AppliedInv, Send, TypeOK
<1>5. OneWriteInv'
  <2>1. \A w \in owed : w.client = c => w.call # calls[c]
    BY <1>1 DEF OwedInv
  <2>. QED
    BY <2>1 DEF OneWriteInv, Send
<1>6. HeldInv'
  BY DEF HeldInv, Send, TypeOK
<1>. QED
  BY <1>2, <1>3, <1>4, <1>5, <1>6

\* An owed write that takes effect.
LEMMA ApplyInv ==
    ASSUME IInv, NEW w \in owed, apply(w)
    PROVE  Strengthening'
<1>. USE DEF IInv, Strengthening
<1>0. w.client \in Clients /\ w.call \in 1 .. MaxCalls
  BY DEF TypeOK, Write
<1>1. ClientInv'
  BY DEF ClientInv, apply, client_vars, TypeOK
<1>2. OwedInv'
  <2>. SUFFICES ASSUME NEW v \in owed' PROVE OwedInv!(v)'
    BY DEF OwedInv
  <2>1. v \in owed /\ v # w
    BY DEF apply
  <2>2. <<v.client, v.call>> # <<w.client, w.call>>
    BY <2>1 DEF OneWriteInv
  <2>. QED
    BY <2>1, <2>2 DEF OwedInv, apply, client_vars
<1>3. AppliedInv'
  BY <1>0 DEF AppliedInv, OwedInv, apply, client_vars
<1>4. OneWriteInv'
  BY DEF OneWriteInv, apply
<1>5. HeldInv'
  BY DEF HeldInv, apply, client_vars, TypeOK
<1>. QED
  BY <1>1, <1>2, <1>3, <1>4, <1>5

\* The strengthening holds initially.
LEMMA StrengtheningInit == Init => Strengthening
  BY DEF Init, Strengthening, ClientInv, HeldInv, OwedInv, OneWriteInv,
         AppliedInv

\* Every step of a client keeps it.
LEMMA StrengtheningClient ==
    ASSUME IInv, NEW c \in Clients,
           (\E o \in Ops : begin(c, o)) \/ Progress(c) \/ login(c)
    PROVE  Strengthening'
<1>. USE DEF IInv
<1>1. CASE \E o \in Ops : begin(c, o)
  BY <1>1, BeginInv
<1>2. CASE read_served(c)
  <2>1. /\ got' = [got EXCEPT ![c] = config] /\ pc[c] # "idle"
        /\ UNCHANGED <<config, owed, applied, held, pc, calls, op, before,
                       outcome>>
    BY <1>2 DEF read_served, router_vars
  <2>. QED
    BY <2>1 DEF Strengthening, ClientInv, OwedInv, OneWriteInv, AppliedInv,
                TypeOK, HeldInv
<1>3. CASE read_fails(c) \/ refuse(c)
  <2>1. /\ "failed" \in Outcomes
        /\ End(c, "failed", None)
        /\ pc[c] \in {"check", "read"}
        /\ UNCHANGED <<config, applied, calls, op, before>>
    BY <1>3 DEF read_fails, refuse, Outcomes
  <2>2. before[c] = None
    BY <2>1 DEF Strengthening, ClientInv
  <2>. QED
    BY <2>1, <2>2, EndInv
<1>4. CASE check_passes(c)
  BY <1>4 DEF check_passes, router_vars, Strengthening, ClientInv, HeldInv,
              OwedInv, OneWriteInv, AppliedInv, TypeOK
<1>5. CASE no_change(c) \/ verify_matches(c)
  <2>1. /\ "returned" \in Outcomes
        /\ End(c, "returned", got[c])
        /\ pc[c] # "idle"
        /\ UNCHANGED <<config, applied, calls, op, before>>
    BY <1>5 DEF no_change, verify_matches, Outcomes
  <2>. QED
    BY <2>1, EndInv
<1>6. CASE write(c) \/ write_unread(c)
  BY <1>6, SendsHeld, WriteInv
<1>7. CASE verify_differs(c) \/ verify_fails(c)
  BY <1>7, PollInv DEF verify_differs, verify_fails
<1>8. CASE login(c)
  BY <1>8 DEF login, router_vars, Strengthening, ClientInv, HeldInv, OwedInv,
              OneWriteInv, AppliedInv
<1>. QED
  BY <1>1, <1>2, <1>3, <1>4, <1>5, <1>6, <1>7, <1>8 DEF Progress

\* Every step keeps it.
LEMMA StrengtheningStep == IInv /\ [Next]_vars => Strengthening'
<1>. SUFFICES ASSUME IInv, [Next]_vars PROVE Strengthening'
  OBVIOUS
<1>. USE DEF Strengthening, ClientInv, OwedInv, OneWriteInv, AppliedInv, HeldInv
<1>1. CASE UNCHANGED vars
  BY <1>1 DEF IInv, vars, router_vars, client_vars
<1>2. CASE Done
  BY <1>1, <1>2 DEF Done
<1>3. ASSUME NEW c \in Clients,
             (\E o \in Ops : begin(c, o)) \/ Progress(c) \/ login(c)
      PROVE  Strengthening'
  BY <1>3, StrengtheningClient
<1>4. ASSUME NEW c \in Clients, session_expires(c)
      PROVE  Strengthening'
  BY <1>4 DEF session_expires, router_vars, IInv
<1>5. ASSUME NEW w \in owed, apply(w)
      PROVE  Strengthening'
  BY <1>5, ApplyInv
<1>6. ASSUME NEW w \in owed, drop(w)
      PROVE  Strengthening'
  BY <1>6 DEF drop, client_vars, IInv
<1>. QED
  BY <1>1, <1>2, <1>3, <1>4, <1>5, <1>6 DEF Next, Router

---------------------------------------------------------------------------
(* The theorems                                                            *)

\* The strengthened invariant holds in every reachable state.
THEOREM Inductive == Spec => []IInv
<1>1. Init => IInv
  BY TypeInit, StrengtheningInit DEF IInv
<1>2. IInv /\ [Next]_vars => IInv'
  BY TypeStep, StrengtheningStep DEF IInv
<1>. QED
  BY <1>1, <1>2, PTL DEF Spec

\* Every variable keeps its type.
THEOREM TypeCorrect == Spec => []TypeOK
<1>1. IInv => TypeOK
  BY DEF IInv
<1>. QED
  BY <1>1, Inductive, PTL

\* The write of an operation takes effect at most once, however often it polls
\* and logs in again, and however late the router applies it.
THEOREM AtMostOnce == Spec => []EffectAtMostOnce
<1>1. IInv => EffectAtMostOnce
  BY DEF IInv, Strengthening, OwedInv, EffectAtMostOnce
<1>. QED
  BY <1>1, Inductive, PTL

\* An operation that raised before its write, or found nothing to change, has no
\* effect on the router, then or later.
THEOREM NothingHidden == Spec => []NoHiddenEffect
<1>1. IInv => NoHiddenEffect
  <2>. SUFFICES ASSUME IInv, NEW c \in Clients,
                       \/ outcome[c] = "failed"
                       \/ outcome[c] = "returned" /\ before[c] = None
                PROVE  /\ <<c, calls[c]>> \notin applied
                       /\ \A w \in owed : <<w.client, w.call>> # <<c, calls[c]>>
    BY DEF NoHiddenEffect
  <2>1. before[c] = None
    BY DEF IInv, Strengthening, ClientInv
  <2>2. <<c, calls[c]>> \notin applied
    BY <2>1 DEF IInv, Strengthening, AppliedInv, TypeOK
  <2>3. \A w \in owed : w.client = c => w.call # calls[c]
    BY <2>1 DEF IInv, Strengthening, OwedInv
  <2>. QED
    BY <2>2, <2>3
<1>. QED
  BY <1>1, Inductive, PTL

\* A running operation has a poll left.
CountedInv == \A c \in Clients : pc[c] = "verify" => attempts[c] >= 1

\* Every step of a running operation brings it nearer to its end, for any number of
\* clients and attempts, and whatever fails, expires or comes late.
THEOREM Shortens == Spec => OperationsShorten
<1>1. Init => CountedInv
  BY DEF Init, CountedInv
<1>2. IInv /\ CountedInv /\ [Next]_vars => CountedInv'
  <2>. SUFFICES ASSUME IInv, CountedInv, [Next]_vars, NEW c \in Clients, pc'[c] = "verify"
                PROVE  attempts'[c] >= 1
    BY DEF CountedInv
  <2>1. attempts \in [Clients -> 0 .. Attempts] /\ TypeOK
        /\ (pc[c] = "verify" => attempts[c] >= 1)
    BY DEF IInv, TypeOK, CountedInv
  <2>2. CASE UNCHANGED <<pc, attempts>>
    BY <2>1, <2>2
  <2>3. ASSUME NEW d \in Clients, (\E o \in Ops : begin(d, o)) \/ Progress(d)
        PROVE  attempts'[c] >= 1
    <3>1. CASE UNCHANGED attempts /\ pc'[c] = pc[c]
      BY <2>1, <3>1
    <3>2. CASE write(d) \/ write_unread(d)
      BY <2>1, <3>2 DEF write, write_unread, Send, TypeOK
    <3>3. CASE PollAgain(d)
      BY <2>1, <3>3 DEF PollAgain, End, TypeOK
    <3>. QED
      BY <2>1, <2>3, <3>1, <3>2, <3>3
      DEF Progress, begin, read_served, read_fails, check_passes, refuse, no_change,
          verify_matches, verify_differs, verify_fails, End, TypeOK
  <2>. QED
    BY <2>2, <2>3 DEF Next, Router, login, session_expires, apply, drop, Done, vars,
       client_vars
<1>3. IInv /\ CountedInv /\ [Next]_vars =>
          \A c \in Clients :
              pc[c] # "idle"
              /\ <<pc[c], got[c], attempts[c]>>' # <<pc[c], got[c], attempts[c]>>
              => Left(c)' \in 0 .. Left(c) - 1
  <2>. SUFFICES ASSUME IInv, CountedInv, [Next]_vars, NEW c \in Clients, pc[c] # "idle",
                       <<pc[c], got[c], attempts[c]>>' # <<pc[c], got[c], attempts[c]>>
                PROVE  Left(c)' \in 0 .. Left(c) - 1
    OBVIOUS
  <2>. USE DEF Left
  <2>1. /\ attempts \in [Clients -> 0 .. Attempts]
        /\ pc \in [Clients -> {"idle", "check", "read", "verify"}]
        /\ got \in [Clients -> Configs \cup {None}]
        /\ pc[c] = "verify" => attempts[c] >= 1
    BY DEF IInv, TypeOK, CountedInv
  <2>2. attempts[c] \in 0 .. Attempts /\ pc[c] \in {"check", "read", "verify"}
    BY <2>1
  <2>3. Progress(c)
    <3>1. ASSUME NEW d \in Clients \ {c}, (\E o \in Ops : begin(d, o)) \/ Progress(d)
          PROVE  UNCHANGED <<pc[c], got[c], attempts[c]>>
      BY <2>1, <3>1
      DEF Progress, begin, read_served, read_fails, check_passes, refuse, no_change,
          write, write_unread, Send, verify_matches, verify_differs, verify_fails,
          PollAgain, End
    <3>2. ~\E o \in Ops : begin(c, o)
      BY DEF begin
    <3>. QED
      BY <3>1, <3>2 DEF Next, Router, login, session_expires, apply, drop, Done,
         vars, client_vars
  <2>4. CASE read_served(c)
    <3>1. got[c] = None /\ got'[c] # None /\ UNCHANGED <<pc, attempts>>
      BY <2>1, <2>4 DEF read_served, IInv, TypeOK
    <3>. QED
      BY <2>1, <2>2, <3>1
  <2>5. CASE read_fails(c) \/ refuse(c) \/ no_change(c) \/ verify_matches(c)
    <3>1. pc'[c] = "idle" /\ got'[c] = None
      BY <2>1, <2>5 DEF read_fails, refuse, no_change, verify_matches, End
    <3>. QED
      BY <2>2, <2>1, <3>1
  <2>6. CASE check_passes(c)
    BY <2>1, <2>2, <2>6 DEF check_passes
  <2>7. CASE write(c) \/ write_unread(c)
    <3>1. pc[c] = "read" /\ pc'[c] = "verify" /\ got'[c] = None
          /\ attempts'[c] = Attempts
      BY <2>1, <2>7 DEF write, write_unread, Send
    <3>. QED
      BY <2>1, <3>1
  <2>8. CASE verify_differs(c) \/ verify_fails(c)
    <3>1. PollAgain(c) /\ pc[c] = "verify"
      BY <2>8 DEF verify_differs, verify_fails
    <3>2. got'[c] = None /\ \/ pc'[c] = "verify" /\ attempts'[c] = attempts[c] - 1
                            \/ pc'[c] = "idle"
      BY <2>1, <3>1 DEF PollAgain, End
    <3>3. pc'[c] = "verify" => attempts[c] > 1
      BY <2>1, <3>1 DEF PollAgain, End
    <3>. QED
      BY <2>1, <2>2, <3>1, <3>2, <3>3
  <2>. QED
    BY <2>3, <2>4, <2>5, <2>6, <2>7, <2>8 DEF Progress
<1>. QED
  BY <1>1, <1>2, <1>3, Inductive, PTL DEF Spec, OperationsShorten

---------------------------------------------------------------------------
(* The contract                                                            *)

\* A new value of pc is a new value of phase.
LEMMA PhaseStep ==
    ASSUME TypeOK, NEW c \in Clients, NEW p, pc' = [pc EXCEPT ![c] = p]
    PROVE  phase' = [phase EXCEPT ![c] = PhaseOf(p)]
  BY DEF phase, TypeOK

LEMMA PhaseSame == UNCHANGED pc => UNCHANGED phase
  BY DEF phase

\* An operation that ends, seen by its caller.
LEMMA EndFinishes ==
    ASSUME TypeOK, NEW c \in Clients, NEW o, NEW v, End(c, o, v),
           UNCHANGED <<config, applied, calls, op, before>>
    PROVE  Contract!Finish(c, o, v)
<1>1. phase' = [phase EXCEPT ![c] = "idle"]
  <2>1. pc' = [pc EXCEPT ![c] = "idle"]
    BY DEF End
  <2>2. PhaseOf("idle") = "idle"
    BY DEF PhaseOf
  <2>. QED
    BY <2>1, <2>2, PhaseStep
<1>. QED
  BY <1>1 DEF End, Contract!Finish

\* A poll that told nothing new is nothing to the caller, or the APIError.
LEMMA PollRaises ==
    ASSUME TypeOK, NEW c \in Clients, pc[c] = "verify", PollAgain(c),
           UNCHANGED <<config, applied, calls, op, before>>
    PROVE  Contract!Raise(c) \/ UNCHANGED Contract!vars
<1>1. phase[c] = "written"
  BY DEF phase, PhaseOf
<1>2. CASE End(c, "unverified", None)
  BY <1>1, <1>2, EndFinishes DEF Contract!Raise
<1>3. CASE UNCHANGED <<pc, outcome, result, owed, held>>
  BY <1>3, PhaseSame DEF Contract!vars, Contract!router_vars,
                         Contract!caller_vars
<1>. QED
  BY <1>2, <1>3 DEF PollAgain
\* Every step of a client is a step of its caller, or nothing to it.
LEMMA ClientRefines ==
    ASSUME IInv, IInv', NEW c \in Clients,
           (\E o \in Ops : begin(c, o)) \/ Progress(c) \/ login(c),
           \A o \in Ops, cfg \in Configs : Same(o, cfg) => Asked(o, cfg),
           \A o \in Ops, b, cfg \in Configs :
               Preparable(o, b) /\ Met(o, b, cfg) => Asked(o, cfg)
    PROVE  [Contract!Next]_Contract!vars
<1>. USE DEF IInv
<1>1. CASE \E o \in Ops : begin(c, o)
  <2>. PICK o \in Ops : begin(c, o)
    BY <1>1
  <2>1. phase[c] = "idle"
    BY DEF begin, phase, PhaseOf
  <2>2. phase' = [phase EXCEPT ![c] = "asked"]
    <3>1. PICK p \in {"check", "read"} : pc' = [pc EXCEPT ![c] = p]
      BY DEF begin
    <3>2. PhaseOf(p) = "asked"
      BY DEF PhaseOf
    <3>. QED
      BY <3>1, <3>2, PhaseStep
  <2>3. Contract!Ask(c, o)
    BY <2>1, <2>2 DEF begin, Contract!Ask, Contract!router_vars
  <2>. QED
    BY <2>3 DEF Contract!Next
<1>2. CASE read_served(c)
  BY <1>2, PhaseSame DEF read_served, router_vars, Contract!vars,
                         Contract!router_vars, Contract!caller_vars
<1>3. CASE read_fails(c) \/ refuse(c)
  <2>1. /\ End(c, "failed", None)
        /\ pc[c] \in {"check", "read"}
        /\ UNCHANGED <<config, applied, calls, op, before>>
    BY <1>3 DEF read_fails, refuse
  <2>2. phase[c] = "asked"
    BY <2>1 DEF phase, PhaseOf
  <2>3. Contract!Raise(c)
    BY <2>1, <2>2, EndFinishes DEF Contract!Raise
  <2>. QED
    BY <2>3 DEF Contract!Next
<1>4. CASE check_passes(c)
  <2>1. pc' = [pc EXCEPT ![c] = "read"] /\ phase[c] = "asked"
    BY <1>4 DEF check_passes, phase, PhaseOf
  <2>2. PhaseOf("read") = "asked"
    BY DEF PhaseOf
  <2>3. phase' = [phase EXCEPT ![c] = "asked"]
    BY <2>1, <2>2, PhaseStep
  <2>4. phase' = phase
    BY <2>1, <2>3 DEF phase
  <2>. QED
    BY <1>4, <2>4 DEF check_passes, router_vars, Contract!vars,
                      Contract!router_vars, Contract!caller_vars
<1>5. CASE no_change(c) \/ verify_matches(c)
  <2>1. /\ End(c, "returned", got[c])
        /\ pc[c] # "idle" /\ got[c] # None
        /\ UNCHANGED <<config, applied, calls, op, before>>
    BY <1>5 DEF no_change, verify_matches
  <2>2. got[c] \in held[c] /\ got[c] \in Configs /\ op[c] \in Ops
    BY <2>1 DEF Strengthening, ClientInv, TypeOK
  <2>3. Asked(op[c], got[c])
    <3>1. CASE no_change(c)
      BY <2>2, <3>1 DEF no_change
    <3>2. CASE verify_matches(c)
      <4>1. before[c] \in Configs
        BY <3>2 DEF verify_matches, Strengthening, ClientInv, TypeOK
      <4>2. Preparable(op[c], before[c])
        BY <3>2 DEF verify_matches, Strengthening, ClientInv
      <4>. QED
        BY <2>2, <3>2, <4>1, <4>2 DEF verify_matches
    <3>. QED
      BY <1>5, <3>1, <3>2
  <2>4. phase[c] # "idle"
    BY <2>1 DEF phase, PhaseOf, TypeOK
  <2>5. Contract!Finish(c, "returned", got[c])
    BY <2>1, EndFinishes
  <2>6. Contract!Return(c)
    BY <2>2, <2>3, <2>4, <2>5 DEF Contract!Return
  <2>. QED
    BY <2>6 DEF Contract!Next
<1>6. CASE write(c) \/ write_unread(c)
  <2>. PICK snapshot \in held[c] :
           /\ pc[c] = "read"
           /\ Preparable(op[c], snapshot)
           /\ Send(c, snapshot)
    BY <1>6, SendsHeld
  <2>1. phase[c] = "asked"
    BY DEF phase, PhaseOf
  <2>2. phase' = [phase EXCEPT ![c] = "written"]
    <3>1. pc' = [pc EXCEPT ![c] = "verify"]
      BY DEF Send
    <3>2. PhaseOf("verify") = "written"
      BY DEF PhaseOf
    <3>. QED
      BY <3>1, <3>2, PhaseStep
  <2>3. Contract!Issue(c)
    BY <2>1, <2>2 DEF Send, Contract!Issue
  <2>. QED
    BY <2>3 DEF Contract!Next
<1>7. CASE verify_differs(c) \/ verify_fails(c)
  <2>1. Contract!Raise(c) \/ UNCHANGED Contract!vars
    BY <1>7, PollRaises DEF verify_differs, verify_fails
  <2>. QED
    BY <2>1 DEF Contract!Next
<1>8. CASE login(c)
  BY <1>8, PhaseSame DEF login, router_vars, Contract!vars,
                         Contract!router_vars, Contract!caller_vars
<1>. QED
  BY <1>1, <1>2, <1>3, <1>4, <1>5, <1>6, <1>7, <1>8 DEF Progress

\* Every step of the router is one of the contract's router, or nothing to it.
LEMMA RouterRefines ==
    ASSUME IInv, Router
    PROVE  [Contract!Next]_Contract!vars
<1>. USE DEF Contract!vars, Contract!router_vars, Contract!caller_vars
<1>1. ASSUME NEW c \in Clients, session_expires(c)
      PROVE  UNCHANGED Contract!vars
  BY <1>1, PhaseSame DEF session_expires, router_vars
<1>2. ASSUME NEW w \in owed, apply(w)
      PROVE  Contract!TakeEffect(w)
  <2>1. UNCHANGED phase
    BY <1>2, PhaseSame DEF apply, client_vars
  <2>2. \A c \in Clients : pc[c] = "idle" <=> phase[c] = "idle"
    BY DEF phase, PhaseOf, IInv, TypeOK
  <2>. QED
    BY <1>2, <2>1, <2>2 DEF apply, client_vars, Contract!TakeEffect
<1>3. ASSUME NEW w \in owed, drop(w)
      PROVE  Contract!Forget(w)
  BY <1>3, PhaseSame DEF drop, client_vars, Contract!Forget
<1>. QED
  BY <1>1, <1>2, <1>3 DEF Router, Contract!Next

\* The verified write keeps its contract, as soon as what it takes for done,
\* before and after the write, is what was asked for.
THEOREM KeepsContract ==
    ASSUME \A o \in Ops, cfg \in Configs : Same(o, cfg) => Asked(o, cfg),
           \A o \in Ops, b, cfg \in Configs :
               Preparable(o, b) /\ Met(o, b, cfg) => Asked(o, cfg)
    PROVE  Spec => ImplementsSetting
<1>1. Init => Contract!Init
  BY DEF Init, Contract!Init, phase, PhaseOf
<1>2. IInv /\ IInv' /\ [Next]_vars => [Contract!Next]_Contract!vars
  <2>. SUFFICES ASSUME IInv, IInv', [Next]_vars
                PROVE  [Contract!Next]_Contract!vars
    OBVIOUS
  <2>1. CASE UNCHANGED vars
    BY <2>1, PhaseSame DEF vars, router_vars, client_vars, Contract!vars,
                           Contract!router_vars, Contract!caller_vars
  <2>2. CASE Done
    BY <2>1, <2>2 DEF Done
  <2>3. ASSUME NEW c \in Clients,
               (\E o \in Ops : begin(c, o)) \/ Progress(c) \/ login(c)
        PROVE  [Contract!Next]_Contract!vars
    BY <2>3, ClientRefines
  <2>4. CASE Router
    BY <2>4, RouterRefines
  <2>. QED
    BY <2>1, <2>2, <2>3, <2>4 DEF Next
<1>. QED
  BY <1>1, <1>2, Inductive, PTL DEF Spec, ImplementsSetting, Contract!Spec
---------------------------------------------------------------------------
(* A client alone at a router that applies nothing late                    *)

\* What an answer on its way can tell: what the router holds, or, when the write
\* took effect meanwhile, what it held before.
AnswerInv ==
    \A c \in Clients :
        got[c] # None =>
            \/ got[c] = config
            \/ /\ pc[c] = "verify"
               /\ got[c] = before[c]
               /\ config = Applied(op[c], before[c], before[c])

\* An owed write belongs to the running operation, and nobody has changed the
\* router since its payload was built.
AloneInv ==
    \A w \in owed :
        /\ pc[w.client] = "verify"
        /\ w.call = calls[w.client]
        /\ w.op = op[w.client]
        /\ w.before = before[w.client]
        /\ w.before = config

SoloInv == IInv /\ AnswerInv /\ AloneInv /\ ReturnedHolds

\* An operation that ends at a router that holds what the operation returns.
LEMMA SoloEnd ==
    ASSUME SoloInv, \A d, e \in Clients : d = e, ~Late, NEW c \in Clients,
           NEW o, NEW v, End(c, o, v),
           UNCHANGED <<config, applied, calls, op, before>>,
           o = "returned" =>
               /\ Asked(op[c], config)
               /\ v = config
               /\ before[c] # None => Kept(op[c], before[c], config)
    PROVE  AnswerInv' /\ AloneInv' /\ ReturnedHolds'
<1>. USE DEF SoloInv, IInv
<1>1. owed' = {}
  BY DEF End, TypeOK, Write
<1>2. AnswerInv' /\ AloneInv'
  BY <1>1 DEF AnswerInv, AloneInv, End, TypeOK
<1>3. ReturnedHolds'
  BY DEF ReturnedHolds, End, TypeOK
<1>. QED
  BY <1>2, <1>3

\* A poll that told nothing new.
LEMMA SoloPoll ==
    ASSUME SoloInv, \A d, e \in Clients : d = e, ~Late, NEW c \in Clients,
           PollAgain(c), UNCHANGED <<config, applied, calls, op, before>>
    PROVE  AnswerInv' /\ AloneInv' /\ ReturnedHolds'
<1>1. CASE End(c, "unverified", None)
  BY <1>1, SoloEnd
<1>2. CASE /\ got' = [got EXCEPT ![c] = None]
           /\ UNCHANGED <<pc, outcome, result, owed, held>>
  BY <1>2 DEF SoloInv, IInv, TypeOK, AnswerInv, AloneInv, ReturnedHolds
<1>. QED
  BY <1>1, <1>2 DEF PollAgain

\* The steps of the client.  A read-back that satisfies it was taken before the
\* write took effect only if the write changes nothing.
LEMMA SoloClient ==
    ASSUME SoloInv, \A d, e \in Clients : d = e, ~Late,
           \A o \in Ops, cfg \in Configs : Same(o, cfg) => Asked(o, cfg),
           \A o \in Ops, b, cfg \in Configs :
               Preparable(o, b) /\ Met(o, b, cfg)
               => Asked(o, cfg) /\ Kept(o, b, cfg),
           \A o \in Ops, b \in Configs :
               Preparable(o, b) /\ Met(o, b, b) => Applied(o, b, b) = b,
           NEW c \in Clients,
           (\E o \in Ops : begin(c, o)) \/ Progress(c) \/ login(c)
    PROVE  AnswerInv' /\ AloneInv' /\ ReturnedHolds'
<1>. USE DEF SoloInv, IInv
<1>1. CASE \E o \in Ops : begin(c, o)
  <2>. PICK o \in Ops : begin(c, o)
    BY <1>1
  <2>1. owed = {} /\ owed' = {}
    BY DEF begin, AloneInv, TypeOK, Write
  <2>2. got[c] = None
    BY DEF begin, Strengthening, ClientInv
  <2>3. AnswerInv' /\ AloneInv'
    BY <2>1, <2>2 DEF begin, AnswerInv, AloneInv, TypeOK
  <2>4. ReturnedHolds'
    BY DEF begin, ReturnedHolds, TypeOK
  <2>. QED
    BY <2>3, <2>4
<1>2. CASE read_served(c)
  BY <1>2 DEF read_served, router_vars, AnswerInv, AloneInv, ReturnedHolds, TypeOK
<1>3. CASE read_fails(c) \/ refuse(c)
  BY <1>3, SoloEnd DEF read_fails, refuse
<1>4. CASE check_passes(c)
  BY <1>4 DEF check_passes, router_vars, AnswerInv, AloneInv, ReturnedHolds, TypeOK
<1>5. CASE no_change(c)
  <2>1. got[c] = config /\ op[c] \in Ops /\ config \in Configs
        /\ before[c] = None
    BY <1>5 DEF no_change, AnswerInv, Strengthening, ClientInv, TypeOK
  <2>. QED
    BY <1>5, <2>1, SoloEnd DEF no_change
<1>6. CASE verify_matches(c)
  <2>1. /\ op[c] \in Ops /\ before[c] \in Configs /\ config \in Configs
        /\ got[c] # None /\ Preparable(op[c], before[c])
    BY <1>6 DEF verify_matches, Strengthening, ClientInv, TypeOK
  <2>2. Met(op[c], before[c], got[c]) /\ End(c, "returned", got[c])
        /\ UNCHANGED <<config, applied, calls, op, before>>
    BY <1>6 DEF verify_matches
  <2>3. got[c] = config
    BY <2>1, <2>2 DEF AnswerInv
  <2>4. Asked(op[c], config) /\ Kept(op[c], before[c], config)
    BY <2>1, <2>2, <2>3
  <2>. QED
    BY <2>2, <2>3, <2>4, SoloEnd
<1>7. CASE write(c) \/ write_unread(c)
  <2>. PICK snapshot \in Configs :
           /\ pc[c] = "read"
           /\ got[c] = snapshot \/ snapshot = config
           /\ Send(c, snapshot)
    BY <1>7, SendsHeld
  <2>1. snapshot = config
    BY DEF AnswerInv
  <2>2. owed = {}
    BY DEF AloneInv, TypeOK, Write
  <2>3. AloneInv'
    <3>. SUFFICES ASSUME NEW w \in owed' PROVE AloneInv!(w)'
      BY DEF AloneInv
    <3>1. w = [client |-> c, call |-> calls[c], op |-> op[c],
               before |-> snapshot]
      BY <2>2 DEF Send
    <3>2. /\ w.client = c /\ w.call = calls[c] /\ w.op = op[c]
          /\ w.before = snapshot
      BY <3>1
    <3>. QED
      BY <2>1, <3>2 DEF Send, TypeOK
  <2>4. AnswerInv' /\ ReturnedHolds'
    BY DEF Send, AnswerInv, ReturnedHolds, TypeOK, Strengthening, ClientInv
  <2>. QED
    BY <2>3, <2>4
<1>8. CASE verify_differs(c) \/ verify_fails(c)
  BY <1>8, SoloPoll DEF verify_differs, verify_fails
<1>9. CASE login(c)
  BY <1>9 DEF login, router_vars, AnswerInv, AloneInv, ReturnedHolds
<1>. QED
  BY <1>1, <1>2, <1>3, <1>4, <1>5, <1>6, <1>7, <1>8, <1>9 DEF Progress

\* The steps of the router.
LEMMA SoloRouter ==
    ASSUME SoloInv, \A d, e \in Clients : d = e, Router
    PROVE  AnswerInv' /\ AloneInv' /\ ReturnedHolds'
<1>. USE DEF SoloInv, IInv
<1>1. ASSUME NEW c \in Clients, session_expires(c)
      PROVE  AnswerInv' /\ AloneInv' /\ ReturnedHolds'
  BY <1>1 DEF session_expires, router_vars, AnswerInv, AloneInv, ReturnedHolds
<1>2. ASSUME NEW w \in owed, apply(w)
      PROVE  AnswerInv' /\ AloneInv' /\ ReturnedHolds'
  <2>1. w.client \in Clients /\ UNCHANGED client_vars
    BY <1>2 DEF TypeOK, Write, apply
  <2>2. owed' = {}
    <3>1. \A v \in owed : v.client = w.client /\ v.call = w.call
      BY DEF AloneInv, TypeOK, Write
    <3>. QED
      BY <1>2, <3>1 DEF apply, Strengthening, OneWriteInv
  <2>3. AloneInv'
    BY <2>2 DEF AloneInv
  <2>4. /\ w.op = op[w.client] /\ w.before = before[w.client]
        /\ w.before = config /\ pc[w.client] = "verify"
    BY DEF AloneInv
  <2>5. config' = Applied(op[w.client], before[w.client], before[w.client])
    BY <1>2, <2>4 DEF apply
  <2>6. AnswerInv'
    <3>. SUFFICES ASSUME NEW c \in Clients, got'[c] # None
                  PROVE  \/ got'[c] = config'
                         \/ /\ pc'[c] = "verify"
                            /\ got'[c] = before'[c]
                            /\ config' = Applied(op'[c], before'[c], before'[c])
      BY DEF AnswerInv
    <3>1. /\ c = w.client /\ got'[c] = got[c] /\ pc'[c] = pc[c]
          /\ before'[c] = before[c] /\ op'[c] = op[c]
      BY <2>1 DEF client_vars
    <3>2. CASE got[c] = config
      BY <2>4, <2>5, <3>1, <3>2
    <3>3. CASE got[c] # config
      BY <2>4, <2>5, <3>1, <3>3 DEF AnswerInv
    <3>. QED
      BY <3>2, <3>3
  <2>7. outcome[w.client] = "none"
    BY <2>1, <2>4 DEF Strengthening, ClientInv
  <2>8. ReturnedHolds'
    BY <2>1, <2>7 DEF ReturnedHolds, client_vars
  <2>. QED
    BY <2>3, <2>6, <2>8
<1>3. ASSUME NEW w \in owed, drop(w)
      PROVE  AnswerInv' /\ AloneInv' /\ ReturnedHolds'
  BY <1>3 DEF drop, client_vars, AnswerInv, AloneInv, ReturnedHolds
<1>. QED
  BY <1>1, <1>2, <1>3 DEF Router

\* The solo invariant, for operators that the writes of the client satisfy.
LEMMA SoloInductive ==
    ASSUME \A d, e \in Clients : d = e, ~Late,
           \A o \in Ops, cfg \in Configs : Same(o, cfg) => Asked(o, cfg),
           \A o \in Ops, b, cfg \in Configs :
               Preparable(o, b) /\ Met(o, b, cfg)
               => Asked(o, cfg) /\ Kept(o, b, cfg),
           \A o \in Ops, b \in Configs :
               Preparable(o, b) /\ Met(o, b, b) => Applied(o, b, b) = b
    PROVE  Spec => []SoloInv
<1>1. Init => SoloInv
  BY TypeInit, StrengtheningInit
     DEF Init, SoloInv, IInv, AnswerInv, AloneInv, ReturnedHolds
<1>2. SoloInv /\ [Next]_vars => SoloInv'
  <2>. SUFFICES ASSUME SoloInv, [Next]_vars PROVE SoloInv'
    OBVIOUS
  <2>1. IInv'
    BY TypeStep, StrengtheningStep DEF SoloInv, IInv
  <2>2. CASE UNCHANGED vars
    BY <2>1, <2>2 DEF SoloInv, AnswerInv, AloneInv, ReturnedHolds, vars,
                      router_vars, client_vars
  <2>3. CASE Done
    BY <2>2, <2>3 DEF Done
  <2>4. ASSUME NEW c \in Clients,
               (\E o \in Ops : begin(c, o)) \/ Progress(c) \/ login(c)
        PROVE  SoloInv'
    BY <2>1, <2>4, SoloClient DEF SoloInv
  <2>5. CASE Router
    BY <2>1, <2>5, SoloRouter DEF SoloInv
  <2>. QED
    BY <2>2, <2>3, <2>4, <2>5 DEF Next
<1>. QED
  BY <1>1, <1>2, PTL DEF Spec

\* What an operation returned is what the router still holds, what was asked for,
\* and not at the cost of what the operation looks after.
THEOREM ReturnedStays ==
    ASSUME \A d, e \in Clients : d = e, ~Late,
           \A o \in Ops, cfg \in Configs : Same(o, cfg) => Asked(o, cfg),
           \A o \in Ops, b, cfg \in Configs :
               Preparable(o, b) /\ Met(o, b, cfg)
               => Asked(o, cfg) /\ Kept(o, b, cfg),
           \A o \in Ops, b \in Configs :
               Preparable(o, b) /\ Met(o, b, b) => Applied(o, b, b) = b
    PROVE  Spec => []ReturnedHolds
<1>1. SoloInv => ReturnedHolds
  BY DEF SoloInv
<1>. QED
  BY <1>1, SoloInductive, PTL

\* The router changes only in what the operation taking effect asks for, if that
\* is so for a payload built from what the router holds.
THEOREM FrameKept ==
    ASSUME \A d, e \in Clients : d = e, ~Late,
           \A o \in Ops, cfg \in Configs : Same(o, cfg) => Asked(o, cfg),
           \A o \in Ops, b, cfg \in Configs :
               Preparable(o, b) /\ Met(o, b, cfg)
               => Asked(o, cfg) /\ Kept(o, b, cfg),
           \A o \in Ops, b \in Configs :
               Preparable(o, b) /\ Met(o, b, b) => Applied(o, b, b) = b,
           \A o \in Ops, b \in Configs :
               Preparable(o, b) => Frame(o, Applied(o, b, b)) = Frame(o, b)
    PROVE  Spec => OnlyAskedChanges
<1>1. SoloInv =>
          \A w \in owed : config' = Applied(w.op, w.before, config) /\ w \notin owed'
              => Frame(w.op, config') = Frame(w.op, config)
  <2>. SUFFICES ASSUME SoloInv, NEW w \in owed,
                       config' = Applied(w.op, w.before, config)
                PROVE  Frame(w.op, config') = Frame(w.op, config)
    OBVIOUS
  <2>1. w.op \in Ops /\ config \in Configs
    BY DEF SoloInv, IInv, TypeOK, Write
  <2>2. w.before = config /\ Preparable(w.op, w.before)
    BY DEF SoloInv, AloneInv, IInv, Strengthening, OwedInv
  <2>3. config' = Applied(w.op, config, config) /\ Preparable(w.op, config)
    BY <2>2
  <2>. QED
    BY <2>1, <2>3
<1>. QED
  BY <1>1, SoloInductive, PTL DEF OnlyAskedChanges, Spec

---------------------------------------------------------------------------
(* What is checked before the write                                        *)

\* An operation that goes on after its check has found it passed by what the
\* router held at some moment of the operation.
CheckedInv ==
    \A c \in Clients :
        pc[c] = "read" /\ op[c] \in Checked =>
            \E cfg \in held[c] : cfg \in Configs /\ Admissible(op[c], cfg)

\* For any number of clients, and whatever they do to the router after the check.
THEOREM CheckPassed == Spec => []CheckedInv
<1>1. Init => CheckedInv
  BY DEF Init, CheckedInv
<1>2. IInv /\ CheckedInv /\ [Next]_vars => CheckedInv'
  <2>. SUFFICES ASSUME IInv, CheckedInv, [Next]_vars, NEW c \in Clients,
                       pc'[c] = "read", op'[c] \in Checked
                PROVE  \E cfg \in held'[c] :
                           cfg \in Configs /\ Admissible(op'[c], cfg)
    BY DEF CheckedInv
  <2>. USE DEF IInv, TypeOK
  <2>1. CASE pc[c] = "read" /\ op'[c] = op[c] /\ held[c] \subseteq held'[c]
    BY <2>1 DEF CheckedInv
  <2>2. CASE check_passes(c)
    <3>1. got[c] \in held[c] /\ got[c] \in Configs /\ Admissible(op[c], got[c])
          /\ UNCHANGED <<held, op>>
      BY <2>2 DEF check_passes, router_vars, Strengthening, ClientInv
    <3>. QED
      BY <3>1
  <2>3. CASE UNCHANGED <<pc, op, held>>
    BY <2>1, <2>3
  <2>4. ASSUME NEW d \in Clients, (\E o \in Ops : begin(d, o)) \/ Progress(d)
        PROVE  \/ check_passes(c)
               \/ UNCHANGED <<pc, op, held>>
               \/ pc[c] = "read" /\ op'[c] = op[c] /\ held[c] \subseteq held'[c]
    <3>1. CASE d # c
      <4>1. pc'[c] = pc[c] /\ op'[c] = op[c] /\ held'[c] = held[c]
        BY <2>4, <3>1
        DEF Progress, begin, read_served, read_fails, check_passes, refuse, no_change,
            write, write_unread, Send, verify_matches, verify_differs, verify_fails,
            PollAgain, End, router_vars
      <4>. QED
        BY <4>1
    <3>2. CASE d = c
      BY <2>4, <3>2
      DEF Progress, begin, read_served, read_fails, refuse, no_change, write,
          write_unread, Send, verify_matches, verify_differs, verify_fails, PollAgain,
          End, router_vars
    <3>. QED
      BY <3>1, <3>2
  <2>5. ASSUME NEW w \in owed, apply(w)
        PROVE  pc[c] = "read" /\ op'[c] = op[c] /\ held[c] \subseteq held'[c]
    BY <2>5 DEF apply, client_vars
  <2>6. (\E d \in Clients : login(d) \/ session_expires(d))
        \/ (\E w \in owed : drop(w)) \/ Done \/ UNCHANGED vars
        => UNCHANGED <<pc, op, held>>
    BY DEF login, session_expires, drop, Done, vars, router_vars, client_vars
  <2>. QED
    BY <2>1, <2>2, <2>3, <2>4, <2>5, <2>6 DEF Next, Router
<1>. QED
  BY <1>1, <1>2, Inductive, PTL DEF Spec

---------------------------------------------------------------------------
(* lan                                                                     *)

\* What lan takes for done before its write is what was asked for.
LEMMA LanSameIsAsked ==
    \A o \in LanOps, cfg \in LanConfigs : LanSame(o, cfg) => LanAsked(o, cfg)
  BY DEF LanOps, LanConfigs, LanSame, LanAsked, LanPreparable, Payload, Comb

\* So is what it takes for done after the write.
LEMMA LanMetIsAsked ==
    \A o \in LanOps, b, cfg \in LanConfigs : LanMet(o, b, cfg) => LanAsked(o, cfg)
  BY DEF LanOps, LanConfigs, LanMet, LanAsked, Payload, Comb

\* A write that finds the router as wanted changes nothing.
LEMMA LanMetIsStable ==
    \A o \in LanOps, b \in LanConfigs : LanMet(o, b, b) => LanApplied(o, b, b) = b
  BY DEF LanOps, LanConfigs, LanMet, LanApplied, Payload, Comb

\* A payload built from what the router holds changes only what was asked for.
LEMMA LanFrameIsKept ==
    \A o \in LanOps, b \in LanConfigs :
        LanFrame(o, LanApplied(o, b, b)) = LanFrame(o, b)
  BY DEF LanOps, LanConfigs, LanFrame, LanApplied, Payload

---------------------------------------------------------------------------
(* wifi                                                                    *)

\* The kinds of operations, and the fields of the router's object.
LEMMA WiFiTypes ==
    /\ \A o \in WiFiOps : o.kind \in {"separate", "guest", "wps", "ap", "global"}
    /\ \A cfg \in WiFiConfigs :
          cfg = [mode |-> cfg.mode, ap |-> cfg.ap, global |-> cfg.global,
                 wps |-> cfg.wps]
  BY DEF WiFiOps, WiFiConfigs

\* What wifi takes for done before its write is what was asked for.
LEMMA WiFiSameIsAsked ==
    \A o \in WiFiOps, cfg \in WiFiConfigs : WiFiSame(o, cfg) => WiFiAsked(o, cfg)
  BY WiFiTypes DEF WiFiSame, WiFiAsked, Carries

\* The types of what the operations carry, kind by kind.
LEMMA WiFiArguments ==
    ASSUME NEW o \in WiFiOps
    PROVE  /\ o.kind \in {"separate", "guest", "wps"} => o.on \in BOOLEAN
           /\ o.kind = "ap" => /\ o.section \in Sections
                               /\ o.changes \in Changes(Fields)
           /\ o.kind = "global" => o.changes \in Changes(GlobalFields)
  BY DEF WiFiOps

\* Changes are values of some of the fields.
LEMMA ChangesTypes ==
    ASSUME NEW S, NEW changes \in Changes(S)
    PROVE  /\ DOMAIN changes \subseteq S
           /\ changes = [k \in DOMAIN changes |-> changes[k]]
  BY DEF Changes

\* What wifi writes for the mode is a mode that it knows.
LEMMA WantedModeIsKnown ==
    ASSUME NEW o \in WiFiOps, NEW b \in WiFiConfigs, WiFiPreparable(o, b),
           o.kind \in {"separate", "guest"}
    PROVE  /\ WantedMode(o, b.mode) # None
           /\ b.mode = [separate |-> b.mode.separate, guest |-> b.mode.guest]
           /\ o.kind = "separate" => WantedMode(o, b.mode).separate = o.on
           /\ o.kind = "guest" => WantedMode(o, b.mode).guest = o.on
           /\ o.kind = "separate" => WantedMode(o, b.mode).guest = b.mode.guest
           /\ o.kind = "guest" => WantedMode(o, b.mode).separate = b.mode.separate
<1>1. b.mode \in Modes
  BY DEF WiFiPreparable, WiFiConfigs
<1>2. o.on \in BOOLEAN
  BY WiFiArguments
<1>3. b.mode.separate \in BOOLEAN /\ b.mode.guest \in BOOLEAN
  BY <1>1 DEF Modes
<1>4. WantedMode(o, b.mode) \in Modes
  BY <1>2, <1>3 DEF WantedMode, Modes
<1>. QED
  BY <1>1, <1>4, NoneAssumption DEF WantedMode, Modes

\* What wifi takes for done after its write is what was asked for.
LEMMA WiFiMetIsAsked ==
    \A o \in WiFiOps, b, cfg \in WiFiConfigs :
        WiFiPreparable(o, b) /\ WiFiMet(o, b, cfg) => WiFiAsked(o, cfg)
<1>. SUFFICES ASSUME NEW o \in WiFiOps, NEW b \in WiFiConfigs,
                     NEW cfg \in WiFiConfigs, WiFiPreparable(o, b),
                     WiFiMet(o, b, cfg)
              PROVE  WiFiAsked(o, cfg)
  OBVIOUS
<1>1. CASE o.kind \in {"separate", "guest"}
  <2>1. cfg.mode = WantedMode(o, b.mode)
    BY <1>1 DEF WiFiMet
  <2>2. /\ WantedMode(o, b.mode) # None
        /\ o.kind = "separate" => WantedMode(o, b.mode).separate = o.on
        /\ o.kind = "guest" => WantedMode(o, b.mode).guest = o.on
    BY <1>1, WantedModeIsKnown
  <2>. QED
    BY <1>1, <2>1, <2>2 DEF WiFiAsked
<1>2. CASE o.kind \notin {"separate", "guest"}
  BY <1>2, WiFiSameIsAsked DEF WiFiMet
<1>. QED
  BY <1>1, <1>2

\* Merging what is there already changes nothing.
LEMMA MergedIsNeutral ==
    ASSUME NEW S, NEW f, NEW g, g = [k \in S |-> g[k]], DOMAIN f \subseteq S,
           \A k \in DOMAIN f : f[k] = g[k]
    PROVE  Merged(f, g) = g
<1>1. DOMAIN g = S
  OBVIOUS
<1>2. DOMAIN f \cup DOMAIN g = S
  BY <1>1
<1>3. Merged(f, g) = [k \in S |-> IF k \in DOMAIN f THEN f[k] ELSE g[k]]
  BY <1>2 DEF Merged
<1>4. \A k \in S : (IF k \in DOMAIN f THEN f[k] ELSE g[k]) = g[k]
  OBVIOUS
<1>5. [k \in S |-> IF k \in DOMAIN f THEN f[k] ELSE g[k]] = [k \in S |-> g[k]]
  BY <1>4
<1>. QED
  BY <1>3, <1>5

\* A write of wifi that finds the router as wanted changes nothing.
LEMMA WiFiMetIsStable ==
    \A o \in WiFiOps, b \in WiFiConfigs :
        WiFiPreparable(o, b) /\ WiFiMet(o, b, b) => WiFiApplied(o, b, b) = b
<1>. SUFFICES ASSUME NEW o \in WiFiOps, NEW b \in WiFiConfigs,
                     WiFiPreparable(o, b), WiFiMet(o, b, b)
              PROVE  WiFiApplied(o, b, b) = b
  OBVIOUS
<1>1. /\ b = [mode |-> b.mode, ap |-> b.ap, global |-> b.global, wps |-> b.wps]
      /\ b.ap = [s \in Sections |-> b.ap[s]]
      /\ b.global = [k \in GlobalFields |-> b.global[k]]
  BY DEF WiFiConfigs
<1>2. WiFiApplied(o, b, b).mode = b.mode
  BY DEF WiFiApplied, WiFiMet
<1>3. WiFiApplied(o, b, b).ap = b.ap
  <2>. ~LosesGuest(o, b, b)
    BY DEF LosesGuest, WiFiMet
  <2>1. CASE o.kind \in {"separate", "guest"}
    <3>1. /\ DOMAIN PayloadBlocks(o, b) \subseteq Sections
          /\ \A s \in DOMAIN PayloadBlocks(o, b) :
                 PayloadBlocks(o, b)[s] = b.ap[s]
      BY <2>1, SectionsAssumption DEF PayloadBlocks
    <3>2. Merged(PayloadBlocks(o, b), b.ap) = b.ap
      BY <1>1, <3>1, MergedIsNeutral
    <3>. QED
      BY <2>1, <3>2 DEF WiFiApplied, BlocksApplied
  <2>2. CASE o.kind = "ap"
    <3>1. o.section \in Sections /\ o.changes \in Changes(Fields)
      BY <2>2, WiFiArguments
    <3>2. b.ap[o.section] \in Blocks
      BY <2>2, <3>1 DEF WiFiPreparable, WiFiConfigs
    <3>3. Carries(b.ap[o.section], o.changes)
      BY <2>2 DEF WiFiMet, WiFiSame
    <3>4. b.ap[o.section] = [k \in Fields |-> b.ap[o.section][k]]
      BY <3>2 DEF Blocks
    <3>5. Merged(o.changes, b.ap[o.section]) = b.ap[o.section]
      <4>1. DOMAIN o.changes \subseteq Fields
        BY <3>1, ChangesTypes
      <4>2. \A k \in DOMAIN o.changes : o.changes[k] = b.ap[o.section][k]
        BY <3>3 DEF Carries
      <4>. QED
        BY <3>4, <4>1, <4>2, MergedIsNeutral
    <3>6. PayloadBlocks(o, b) = [s \in {o.section} |-> Merged(o.changes, b.ap[s])]
      BY <2>2 DEF PayloadBlocks
    <3>7. /\ DOMAIN PayloadBlocks(o, b) \subseteq Sections
          /\ \A s \in DOMAIN PayloadBlocks(o, b) :
                 PayloadBlocks(o, b)[s] = b.ap[s]
      BY <3>1, <3>5, <3>6
    <3>8. Merged(PayloadBlocks(o, b), b.ap) = b.ap
      BY <1>1, <3>7, MergedIsNeutral
    <3>. QED
      BY <2>2, <3>8 DEF WiFiApplied, BlocksApplied
  <2>3. CASE o.kind \notin {"separate", "guest", "ap"}
    BY <2>3 DEF WiFiApplied
  <2>. QED
    BY <2>1, <2>2, <2>3
<1>4. WiFiApplied(o, b, b).global = b.global
  <2>1. CASE o.kind = "global"
    <3>1. Carries(b.global, o.changes) /\ o.changes \in Changes(GlobalFields)
      BY <2>1, WiFiArguments DEF WiFiMet, WiFiSame
    <3>2. Merged(o.changes, b.global) = b.global
      BY <1>1, <3>1, ChangesTypes, MergedIsNeutral DEF Carries
    <3>. QED
      BY <2>1, <3>2 DEF WiFiApplied
  <2>2. CASE o.kind # "global"
    BY <2>2 DEF WiFiApplied
  <2>. QED
    BY <2>1, <2>2
<1>5. WiFiApplied(o, b, b).wps = b.wps
  BY DEF WiFiApplied, WiFiMet, WiFiSame
<1>. QED
  BY <1>1, <1>2, <1>3, <1>4, <1>5 DEF WiFiApplied

\* What Merged leaves alone: all that it is not told.
LEMMA MergedKeepsTheRest ==
    ASSUME NEW S, NEW f, NEW g, g = [k \in S |-> g[k]], NEW T,
           DOMAIN f \subseteq T, T \subseteq S
    PROVE  Without(Merged(f, g), T) = Without(g, T)
<1>1. DOMAIN g = S /\ DOMAIN f \cup DOMAIN g = S
  OBVIOUS
<1>2. Merged(f, g) = [k \in S |-> IF k \in DOMAIN f THEN f[k] ELSE g[k]]
  BY <1>1 DEF Merged
<1>3. DOMAIN Merged(f, g) = S
  BY <1>2
<1>4. \A k \in S \ T : Merged(f, g)[k] = g[k]
  BY <1>2
<1>. QED
  BY <1>1, <1>3, <1>4 DEF Without

\* A payload built from what the router holds changes only what was asked for.
LEMMA WiFiFrameIsKept ==
    \A o \in WiFiOps, b \in WiFiConfigs :
        WiFiPreparable(o, b) =>
            WiFiFrame(o, WiFiApplied(o, b, b)) = WiFiFrame(o, b)
<1>. SUFFICES ASSUME NEW o \in WiFiOps, NEW b \in WiFiConfigs,
                     WiFiPreparable(o, b)
              PROVE  WiFiFrame(o, WiFiApplied(o, b, b)) = WiFiFrame(o, b)
  OBVIOUS
<1>. DEFINE a == WiFiApplied(o, b, b)
<1>1. /\ b.ap = [s \in Sections |-> b.ap[s]]
      /\ b.global = [k \in GlobalFields |-> b.global[k]]
  BY DEF WiFiConfigs
<1>2. WiFiFrame(o, a).mode = WiFiFrame(o, b).mode
  <2>1. CASE o.kind \in {"separate", "guest"}
    <3>1. a.mode = WantedMode(o, b.mode) /\ b.mode # None
      BY <2>1 DEF WiFiApplied, WiFiPreparable
    <3>2. /\ a.mode # None
          /\ o.kind = "separate" => a.mode.guest = b.mode.guest
          /\ o.kind = "guest" => a.mode.separate = b.mode.separate
      BY <2>1, <3>1, WantedModeIsKnown
    <3>3. /\ WiFiFrame(o, a).mode = IF o.kind = "separate" THEN a.mode.guest
                                    ELSE a.mode.separate
          /\ WiFiFrame(o, b).mode = IF o.kind = "separate" THEN b.mode.guest
                                    ELSE b.mode.separate
      BY <2>1, <3>1, <3>2 DEF WiFiFrame
    <3>. QED
      BY <2>1, <3>2, <3>3
  <2>2. CASE o.kind \notin {"separate", "guest"}
    BY <2>2 DEF WiFiFrame, WiFiApplied
  <2>. QED
    BY <2>1, <2>2
<1>3. /\ WiFiFrame(o, a).ap = WiFiFrame(o, b).ap
      /\ WiFiFrame(o, a).block = WiFiFrame(o, b).block
  <2>1. CASE o.kind \in {"separate", "guest"}
    <3>1. /\ DOMAIN PayloadBlocks(o, b) \subseteq Sections
          /\ \A s \in DOMAIN PayloadBlocks(o, b) :
                 PayloadBlocks(o, b)[s] = b.ap[s]
      BY <2>1, SectionsAssumption DEF PayloadBlocks
    <3>2. Merged(PayloadBlocks(o, b), b.ap) = b.ap
      BY <1>1, <3>1, MergedIsNeutral
    <3>3. a.ap = IF LosesGuest(o, b, b) THEN [b.ap EXCEPT ![Guest] = FactoryGuest]
                                       ELSE b.ap
      BY <2>1, <3>2 DEF WiFiApplied, BlocksApplied
    <3>4. Without(a.ap, {Guest}) = Without(b.ap, {Guest})
      BY <1>1, <3>3 DEF Without
    <3>5. LeadsToLoss(o, a) <=> LeadsToLoss(o, b)
      <4>1. a.mode = WantedMode(o, b.mode) /\ a.mode # None /\ b.mode # None
        BY <2>1, WantedModeIsKnown DEF WiFiApplied, WiFiPreparable
      <4>2. WantedMode(o, a.mode) = WantedMode(o, b.mode)
        BY <2>1, <4>1 DEF WantedMode
      <4>. QED
        BY <2>1, <4>1, <4>2 DEF LeadsToLoss
    <3>6. ~LeadsToLoss(o, b) => a.ap = b.ap
      BY <2>1, <3>3 DEF LeadsToLoss, LosesGuest, WiFiPreparable
    <3>. QED
      BY <2>1, <3>4, <3>5, <3>6 DEF WiFiFrame
  <2>2. CASE o.kind = "ap"
    <3>1. o.section \in Sections /\ o.changes \in Changes(Fields)
      BY <2>2, WiFiArguments
    <3>2. b.ap[o.section] \in Blocks /\ b.ap[o.section] # None
      BY <2>2, <3>1 DEF WiFiPreparable, WiFiConfigs
    <3>3. b.ap[o.section] = [k \in Fields |-> b.ap[o.section][k]]
      BY <3>2 DEF Blocks
    <3>4. /\ PayloadBlocks(o, b) =
                 [s \in {o.section} |-> Merged(o.changes, b.ap[s])]
          /\ a.ap = Merged(PayloadBlocks(o, b), b.ap)
      BY <2>2 DEF PayloadBlocks, WiFiApplied, BlocksApplied, LosesGuest
    <3>5. Without(a.ap, {o.section}) = Without(b.ap, {o.section})
      BY <1>1, <3>1, <3>4, MergedKeepsTheRest
    <3>6. DOMAIN o.changes \subseteq Fields
      BY <3>1, ChangesTypes
    <3>7. a.ap[o.section] = Merged(o.changes, b.ap[o.section])
      BY <1>1, <3>1, <3>4 DEF Merged
    <3>8. Without(a.ap[o.section], DOMAIN o.changes)
            = Without(b.ap[o.section], DOMAIN o.changes)
      BY <3>3, <3>6, <3>7, MergedKeepsTheRest
    <3>9. a.ap[o.section] # None
      <4>1. a.ap[o.section] \in Blocks
        <5>1. \A k \in DOMAIN o.changes : o.changes[k] \in Values
          BY <3>1 DEF Changes
        <5>2. Merged(o.changes, b.ap[o.section])
                = [k \in Fields |-> IF k \in DOMAIN o.changes
                                    THEN o.changes[k] ELSE b.ap[o.section][k]]
          BY <3>2, <3>6 DEF Merged, Blocks
        <5>. QED
          BY <3>2, <3>7, <5>1, <5>2 DEF Blocks
      <4>. QED
        BY <4>1, NoneAssumption
    <3>. QED
      BY <2>2, <3>2, <3>5, <3>8, <3>9 DEF WiFiFrame
  <2>3. CASE o.kind \notin {"separate", "guest", "ap"}
    BY <2>3 DEF WiFiFrame, WiFiApplied, LeadsToLoss
  <2>. QED
    BY <2>1, <2>2, <2>3
<1>4. WiFiFrame(o, a).global = WiFiFrame(o, b).global
  <2>1. CASE o.kind = "global"
    <3>1. DOMAIN o.changes \subseteq GlobalFields
      BY <2>1, WiFiArguments, ChangesTypes
    <3>2. a.global = Merged(o.changes, b.global)
      BY <2>1 DEF WiFiApplied
    <3>3. Without(a.global, DOMAIN o.changes) = Without(b.global, DOMAIN o.changes)
      BY <1>1, <3>1, <3>2, MergedKeepsTheRest
    <3>. QED
      BY <2>1, <3>3 DEF WiFiFrame
  <2>2. CASE o.kind # "global"
    BY <2>2 DEF WiFiFrame, WiFiApplied
  <2>. QED
    BY <2>1, <2>2
<1>5. WiFiFrame(o, a).wps = WiFiFrame(o, b).wps
  BY DEF WiFiFrame, WiFiApplied
<1>. QED
  BY <1>2, <1>3, <1>4, <1>5 DEF WiFiFrame

---------------------------------------------------------------------------
(* mobile and the work mode                                                *)

\* A write of mobile that finds the router as wanted changes nothing.
LEMMA MobileMetIsStable ==
    \A o \in MobileOps, b \in MobileConfigs :
        MobileMet(o, b, b) => MobileApplied(o, b, b) = b
  BY DEF MobileMet, MobileApplied, MobileOps, MobileConfigs

\* Its write carries one field, and the others stay as they are.
LEMMA MobileFrameIsKept ==
    \A o \in MobileOps, b, cfg \in MobileConfigs :
        MobileFrame(o, MobileApplied(o, b, cfg)) = MobileFrame(o, cfg)
  BY DEF MobileFrame, MobileApplied, MobileOps, MobileConfigs

---------------------------------------------------------------------------
(* All the settings together                                               *)

\* The parts of an operation and of what the router holds.
LEMMA SettingsTypes ==
    /\ \A o \in SettingsOps :
          /\ o.part \in {"lan", "wifi", "mobile", "work"}
          /\ o.part = "lan" => o.do \in LanOps
          /\ o.part = "wifi" => o.do \in WiFiOps
          /\ o.part = "mobile" => o.do \in MobileOps
          /\ o.part = "work" => o.do \in WorkOps
    /\ \A cfg \in SettingsConfigs :
          /\ cfg.lan \in LanConfigs
          /\ cfg.wifi \in WiFiConfigs
          /\ cfg.mobile \in MobileConfigs
          /\ cfg = [lan |-> cfg.lan, wifi |-> cfg.wifi, mobile |-> cfg.mobile,
                    work |-> cfg.work]
<1>1. /\ \A o \in SettingsOps :
            /\ o.part \in {"lan", "wifi", "mobile", "work"}
            /\ o.part = "lan" => o.do \in LanOps
            /\ o.part = "wifi" => o.do \in WiFiOps
            /\ o.part = "mobile" => o.do \in MobileOps
            /\ o.part = "work" => o.do \in WorkOps
  BY DEF SettingsOps
<1>2. /\ \A cfg \in SettingsConfigs :
            /\ cfg.lan \in LanConfigs
            /\ cfg.wifi \in WiFiConfigs
            /\ cfg.mobile \in MobileConfigs
            /\ cfg = [lan |-> cfg.lan, wifi |-> cfg.wifi, mobile |-> cfg.mobile,
                      work |-> cfg.work]
  BY DEF SettingsConfigs
<1>. QED
  BY <1>1, <1>2

\* The first hypothesis of the theorems about the verified write.
LEMMA SettingsSameIsAsked ==
    ASSUME NEW o \in SettingsOps, NEW cfg \in SettingsConfigs,
           SettingsSame(o, cfg)
    PROVE  SettingsAsked(o, cfg)
<1>1. CASE o.part = "lan"
  BY <1>1, SettingsTypes, LanSameIsAsked DEF SettingsSame, SettingsAsked
<1>2. CASE o.part = "wifi"
  BY <1>2, SettingsTypes, WiFiSameIsAsked DEF SettingsSame, SettingsAsked
<1>3. CASE o.part = "mobile"
  BY <1>3 DEF SettingsSame, SettingsAsked, MobileSame, MobileAsked
<1>4. CASE o.part = "work"
  BY <1>4 DEF SettingsSame, SettingsAsked, WorkSame
<1>. QED
  BY <1>1, <1>2, <1>3, <1>4, SettingsTypes

\* The second one.
LEMMA SettingsMetIsAsked ==
    ASSUME NEW o \in SettingsOps, NEW b \in SettingsConfigs,
           NEW cfg \in SettingsConfigs, SettingsPreparable(o, b),
           SettingsMet(o, b, cfg)
    PROVE  SettingsAsked(o, cfg)
<1>1. CASE o.part = "lan"
  BY <1>1, SettingsTypes, LanMetIsAsked DEF SettingsMet, SettingsAsked
<1>2. CASE o.part = "wifi"
  BY <1>2, SettingsTypes, WiFiMetIsAsked
     DEF SettingsMet, SettingsAsked, SettingsPreparable
<1>3. CASE o.part = "mobile"
  BY <1>3 DEF SettingsMet, SettingsAsked, MobileMet, MobileAsked
<1>4. CASE o.part = "work"
  BY <1>4 DEF SettingsMet, SettingsAsked, WorkMet
<1>. QED
  BY <1>1, <1>2, <1>3, <1>4, SettingsTypes

\* With it: the read-back still has what the operation looks after.
LEMMA SettingsMetIsKept ==
    ASSUME NEW o \in SettingsOps, NEW b \in SettingsConfigs,
           NEW cfg \in SettingsConfigs, SettingsMet(o, b, cfg)
    PROVE  SettingsKept(o, b, cfg)
  BY DEF SettingsMet, SettingsKept, WiFiMet, WiFiKept, GuestPreserved

\* The third one.
LEMMA SettingsMetIsStable ==
    ASSUME NEW o \in SettingsOps, NEW b \in SettingsConfigs,
           SettingsPreparable(o, b), SettingsMet(o, b, b)
    PROVE  SettingsApplied(o, b, b) = b
<1>. USE SettingsTypes DEF SettingsMet, SettingsApplied
<1>1. CASE o.part = "lan"
  BY <1>1, LanMetIsStable
<1>2. CASE o.part = "wifi"
  BY <1>2, WiFiMetIsStable DEF SettingsPreparable
<1>3. CASE o.part = "mobile"
  BY <1>3, MobileMetIsStable
<1>4. CASE o.part = "work"
  BY <1>4 DEF WorkMet
<1>. QED
  BY <1>1, <1>2, <1>3, <1>4

\* The last one: a payload built from what the router holds.
LEMMA SettingsFrameIsKept ==
    ASSUME NEW o \in SettingsOps, NEW b \in SettingsConfigs,
           SettingsPreparable(o, b)
    PROVE  SettingsFrame(o, SettingsApplied(o, b, b)) = SettingsFrame(o, b)
<1>. USE SettingsTypes DEF SettingsFrame, SettingsApplied
<1>1. CASE o.part = "lan"
  BY <1>1, LanFrameIsKept
<1>2. CASE o.part = "wifi"
  BY <1>2, WiFiFrameIsKept DEF SettingsPreparable
<1>3. CASE o.part = "mobile"
  BY <1>3, MobileFrameIsKept
<1>4. CASE o.part = "work"
  BY <1>4
<1>. QED
  BY <1>1, <1>2, <1>3, <1>4

\* Every verified write of lan, wifi, mobile and device implements the contract
\* of module Setting, for any number of clients and any router.
THEOREM SettingsKeepContract ==
    ASSUME SettingsInstance(Configs)
    PROVE  Spec => ImplementsSetting
<1>1. \A o \in Ops, cfg \in Configs : Same(o, cfg) => Asked(o, cfg)
  BY SettingsSameIsAsked DEF SettingsInstance
<1>2. \A o \in Ops, b, cfg \in Configs :
          Preparable(o, b) /\ Met(o, b, cfg) => Asked(o, cfg)
  BY SettingsMetIsAsked DEF SettingsInstance
<1>. QED
  BY <1>1, <1>2, KeepsContract

\* What an operation of a client alone returned is what the router still holds.
THEOREM SettingsReturnedStay ==
    ASSUME SettingsInstance(Configs), \A d, e \in Clients : d = e, ~Late
    PROVE  Spec => []ReturnedHolds
<1>1. \A o \in Ops, cfg \in Configs : Same(o, cfg) => Asked(o, cfg)
  BY SettingsSameIsAsked DEF SettingsInstance
<1>2. \A o \in Ops, b, cfg \in Configs :
          Preparable(o, b) /\ Met(o, b, cfg)
          => Asked(o, cfg) /\ Kept(o, b, cfg)
  BY SettingsMetIsAsked, SettingsMetIsKept DEF SettingsInstance
<1>3. \A o \in Ops, b \in Configs :
          Preparable(o, b) /\ Met(o, b, b) => Applied(o, b, b) = b
  BY SettingsMetIsStable DEF SettingsInstance
<1>. QED
  BY <1>1, <1>2, <1>3, ReturnedStays

\* A client alone changes nothing it was not asked to change.
THEOREM SettingsFrameKept ==
    ASSUME SettingsInstance(Configs), \A d, e \in Clients : d = e, ~Late
    PROVE  Spec => OnlyAskedChanges
<1>1. \A o \in Ops, cfg \in Configs : Same(o, cfg) => Asked(o, cfg)
  BY SettingsSameIsAsked DEF SettingsInstance
<1>2. \A o \in Ops, b, cfg \in Configs :
          Preparable(o, b) /\ Met(o, b, cfg)
          => Asked(o, cfg) /\ Kept(o, b, cfg)
  BY SettingsMetIsAsked, SettingsMetIsKept DEF SettingsInstance
<1>3. \A o \in Ops, b \in Configs :
          Preparable(o, b) /\ Met(o, b, b) => Applied(o, b, b) = b
  BY SettingsMetIsStable DEF SettingsInstance
<1>4. \A o \in Ops, b \in Configs :
          Preparable(o, b) => Frame(o, Applied(o, b, b)) = Frame(o, b)
  BY SettingsFrameIsKept, AppliedAssumption DEF SettingsInstance
<1>. QED
  BY <1>1, <1>2, <1>3, <1>4, FrameKept

\* The writes that carry only the fields they set.
OneFieldOps ==
    {o \in SettingsOps :
        \/ o.part \in {"mobile", "work"}
        \/ o.part = "lan" /\ o.do.kind \in {"address", "reservations"}
        \/ o.part = "wifi" /\ o.do.kind \in {"global", "wps"}}

\* They keep what they were not asked to change, whatever was read before them.
LEMMA OneFieldFrameIsKept ==
    ASSUME NEW o \in OneFieldOps, NEW b \in SettingsConfigs,
           NEW cfg \in SettingsConfigs
    PROVE  SettingsFrame(o, SettingsApplied(o, b, cfg)) = SettingsFrame(o, cfg)
<1>. USE SettingsTypes DEF SettingsFrame, SettingsApplied, OneFieldOps
<1>1. CASE o.part = "lan"
  <2>1. LanFrame(o.do, LanApplied(o.do, b.lan, cfg.lan)) = LanFrame(o.do, cfg.lan)
    BY <1>1 DEF LanFrame, LanApplied, LanConfigs
  <2>. QED
    BY <1>1, <2>1
<1>2. CASE o.part = "wifi"
  <2>. DEFINE a == WiFiApplied(o.do, b.wifi, cfg.wifi)
  <2>1. WiFiFrame(o.do, a).global = WiFiFrame(o.do, cfg.wifi).global
    <3>1. CASE o.do.kind = "global"
      <4>1. DOMAIN o.do.changes \subseteq GlobalFields
        BY <1>2, <3>1, WiFiArguments, ChangesTypes
      <4>2. cfg.wifi.global = [k \in GlobalFields |-> cfg.wifi.global[k]]
        BY DEF WiFiConfigs
      <4>3. a.global = Merged(o.do.changes, cfg.wifi.global)
        BY <3>1 DEF WiFiApplied
      <4>. QED
        BY <3>1, <4>1, <4>2, <4>3, MergedKeepsTheRest DEF WiFiFrame
    <3>2. CASE o.do.kind # "global"
      BY <3>2 DEF WiFiFrame, WiFiApplied
    <3>. QED
      BY <3>1, <3>2
  <2>2. a.mode = cfg.wifi.mode /\ a.ap = cfg.wifi.ap
    BY <1>2 DEF WiFiApplied
  <2>3. WiFiFrame(o.do, a).wps = WiFiFrame(o.do, cfg.wifi).wps
    BY DEF WiFiFrame, WiFiApplied
  <2>4. WiFiFrame(o.do, a) = WiFiFrame(o.do, cfg.wifi)
    BY <1>2, <2>1, <2>2, <2>3 DEF WiFiFrame, LeadsToLoss
  <2>. QED
    BY <1>2, <2>4
<1>3. CASE o.part = "mobile"
  BY <1>3, MobileFrameIsKept
<1>4. CASE o.part = "work"
  BY <1>4
<1>. QED
  BY <1>1, <1>2, <1>3, <1>4

\* So clients that use only such writes never lose an update of each other, for
\* any number of clients and a router that applies writes in any order.
THEOREM NoUpdateLost ==
    ASSUME SettingsInstance(Configs), Ops \subseteq OneFieldOps
    PROVE  Spec => OnlyAskedChanges
<1>1. IInv =>
          \A w \in owed : config' = Applied(w.op, w.before, config) /\ w \notin owed'
              => Frame(w.op, config') = Frame(w.op, config)
  <2>. SUFFICES ASSUME IInv, NEW w \in owed,
                       config' = Applied(w.op, w.before, config)
                PROVE  Frame(w.op, config') = Frame(w.op, config)
    OBVIOUS
  <2>1. /\ w.op \in Ops /\ w.before \in Configs /\ config \in Configs
        /\ Preparable(w.op, w.before)
    BY DEF IInv, TypeOK, Write, Strengthening, OwedInv
  <2>2. config' = SettingsApplied(w.op, w.before, config)
    BY <2>1 DEF SettingsInstance
  <2>3. config' \in Configs
    BY <2>1, AppliedAssumption
  <2>. QED
    BY <2>1, <2>2, <2>3, OneFieldFrameIsKept DEF SettingsInstance
<1>. QED
  BY <1>1, Inductive, PTL DEF OnlyAskedChanges, Spec

\* Any number of clients: a table of reservations is written only if it fitted the
\* LAN at some moment of the operation, so that a misfit comes from an address that
\* changed meanwhile.
THEOREM ReservationsFit ==
    ASSUME SettingsInstance(Configs), SettingsChecked \cap Ops \subseteq Checked,
           \A o \in Checked, cfg \in Configs :
               Admissible(o, cfg) <=> SettingsAdmissible(o, cfg)
    PROVE  Spec => TableFittedOnce
<1>1. IInv /\ CheckedInv =>
          \A c \in Clients :
              pc[c] = "read" /\ pc'[c] = "verify"
              /\ op[c].part = "lan" /\ op[c].do.kind = "reservations"
              => \E cfg \in held[c] : op[c].do.table \subseteq {cfg.lan.net}
  <2>. SUFFICES ASSUME IInv, CheckedInv, NEW c \in Clients, pc[c] = "read",
                       op[c].part = "lan", op[c].do.kind = "reservations"
                PROVE  \E cfg \in held[c] : op[c].do.table \subseteq {cfg.lan.net}
    OBVIOUS
  <2>1. op[c] \in Ops /\ op[c] \in SettingsOps
    BY DEF IInv, Strengthening, ClientInv, SettingsInstance
  <2>2. op[c] \in SettingsChecked
    BY <2>1, SettingsTypes DEF SettingsOps, SettingsChecked, LanChecked
  <2>3. op[c] \in Checked
    BY <2>1, <2>2
  <2>4. PICK cfg \in held[c] : cfg \in Configs /\ Admissible(op[c], cfg)
    BY <2>3 DEF CheckedInv
  <2>5. LanAdmissible(op[c].do, cfg.lan)
    BY <2>3, <2>4 DEF SettingsAdmissible
  <2>. QED
    BY <2>5 DEF LanAdmissible
<1>. QED
  BY <1>1, Inductive, CheckPassed, PTL DEF TableFittedOnce
=============================================================================
