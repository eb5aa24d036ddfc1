-------------------------- MODULE ReconnectProofs --------------------------
(***************************************************************************)
(* What holds of reconnect_mobile and select_network for any number of     *)
(* polls, operations and late commands.                                    *)
(***************************************************************************)
EXTENDS Reconnect, TLAPS

USE BoundsAssumption, LossyAssumption

\* A running operation has no outcome yet, and is of the kind of its exchange; a
\* poll has been counted.
OperationInv ==
    /\ pc # "idle" => op \in Ops /\ outcome = "none"
    /\ outcome = "returned" => op \in Ops
    /\ pc = "select" => op.kind = "select"
    /\ pc \in {"recover", "read"} => attempts >= 1

IInv == TypeOK /\ OperationInv /\ ReturnedHolds

\* Initially it holds.
LEMMA InitSafe == Init => IInv
<1>. SUFFICES ASSUME Init PROVE IInv
  OBVIOUS
<1>1. TypeOK
  <2>. USE DEF Init
  <2>1. late \subseteq Commands /\ sent \subseteq Commands
    OBVIOUS
  <2>2. /\ attempts \in 0 .. Attempts /\ calls \in 0 .. MaxCalls
        /\ wan \in {0, 1, 2} /\ op \in Ops \cup {None}
    OBVIOUS
  <2>3. /\ hasPassword \in BOOLEAN /\ tardy \in BOOLEAN
        /\ session \in {"live", "expired", "none"} /\ outcome \in Outcomes
        /\ pc \in {"idle", "disconnect", "ensure", "connect", "select",
                   "recover", "read"}
    BY DEF Outcomes
  <2>. QED
    BY <2>1, <2>2, <2>3 DEF TypeOK
<1>2. OperationInv /\ ReturnedHolds
  BY DEF Init, OperationInv, ReturnedHolds
<1>. QED
  BY <1>1, <1>2 DEF IInv

---------------------------------------------------------------------------
(* Helpers                                                                 *)

\* The commands are commands.
LEMMA CommandsAre ==
    /\ [do |-> "disconnect"] \in Commands
    /\ [do |-> "connect"] \in Commands
    /\ \A m \in NetworkModes : [do |-> "select", param |-> m] \in Commands
  BY DEF Commands

\* A command leaves the router with a status and a mode.
LEMMA ExecuteTypes ==
    ASSUME wan \in {0, 1, 2}, mode \in NetworkModes,
           NEW command \in Commands, Execute(command)
    PROVE  wan' \in {0, 1, 2} /\ mode' \in NetworkModes
<1>1. CASE command \in [do: {"disconnect", "connect"}]
  BY <1>1 DEF Execute
<1>2. CASE command \in [do: {"select"}, param: NetworkModes]
  BY <1>2 DEF Execute
<1>. QED
  BY <1>1, <1>2 DEF Commands

\* Its exchange, in whatever way it ends.
LEMMA CommandTypes ==
    ASSUME TypeOK, NEW command \in Commands, Command(command)
    PROVE  /\ wan' \in {0, 1, 2} /\ mode' \in NetworkModes
           /\ late' \subseteq Commands /\ sent' \subseteq Commands
           /\ tardy' = tardy
<1>1. /\ wan \in {0, 1, 2} /\ mode \in NetworkModes
      /\ late \subseteq Commands /\ sent \subseteq Commands
  BY DEF TypeOK
<1>2. sent' \subseteq Commands /\ tardy' = tardy
  BY <1>1 DEF Command
<1>3. CASE Execute(command) /\ UNCHANGED late
  BY <1>1, <1>2, <1>3, ExecuteTypes
<1>4. CASE UNCHANGED router_vars
  BY <1>1, <1>2, <1>4 DEF router_vars
<1>5. CASE late' = late \cup {command} /\ UNCHANGED <<wan, mode>>
  BY <1>1, <1>2, <1>5
<1>. QED
  BY <1>3, <1>4, <1>5 DEF Command

\* Polling goes on with a poll left, or ends without a result.
LEMMA PollTypes ==
    ASSUME attempts \in 0 .. Attempts, outcome \in Outcomes, PollAgain
    PROVE  /\ attempts' \in 0 .. Attempts /\ outcome' \in Outcomes
           /\ pc' \in {"recover", "idle"}
           /\ pc' = "recover" => attempts' >= 1 /\ outcome' = outcome
           /\ pc' = "idle" => outcome' = "unverified"
  BY DEF PollAgain, End, Outcomes

LEMMA StartTypes ==
    ASSUME StartPolling
    PROVE  /\ attempts' \in 0 .. Attempts /\ attempts' >= 1
           /\ pc' = "recover" /\ outcome' = outcome
  BY DEF StartPolling

LEMMA EnsureTypes ==
    ASSUME TypeOK
    PROVE  /\ Ensured => session' \in {"live", "expired", "none"}
           /\ \A error \in {"TransportError", "AuthenticationError"} :
                  EnsureRaises(error) => session' \in {"live", "expired", "none"}
  BY DEF TypeOK, Ensured, EnsureRaises

---------------------------------------------------------------------------
(* The steps                                                               *)

LEMMA BeginKeeps ==
    ASSUME IInv, NEW o \in CallerOps, begin(o)
    PROVE  IInv'
<1>. USE DEF IInv, begin, router_vars
<1>0. o \in Ops /\ o.kind \in {"reconnect", "select"}
  BY DEF CallerOps, Ops
<1>1. TypeOK'
  BY <1>0 DEF TypeOK, End, Outcomes
<1>2. OperationInv'
  BY <1>0 DEF OperationInv, End
<1>3. ReturnedHolds'
  BY DEF ReturnedHolds, End
<1>. QED
  BY <1>1, <1>2, <1>3

\* An exchange that sends a command: nothing has been returned yet.
LEMMA SendKeeps ==
    ASSUME IInv, disconnect \/ connect \/ select_network
    PROVE  IInv'
<1>. USE DEF IInv
<1>1. CASE disconnect
  <2>. USE <1>1 DEF disconnect
  <2>1. /\ wan' \in {0, 1, 2} /\ mode' \in NetworkModes
        /\ late' \subseteq Commands /\ sent' \subseteq Commands /\ tardy' = tardy
    BY CommandsAre, CommandTypes
  <2>2. TypeOK'
    BY <2>1 DEF TypeOK
  <2>. QED
    BY <2>2 DEF OperationInv, ReturnedHolds
<1>2. CASE connect
  <2>. USE <1>2 DEF connect
  <2>1. /\ wan' \in {0, 1, 2} /\ mode' \in NetworkModes
        /\ late' \subseteq Commands /\ sent' \subseteq Commands /\ tardy' = tardy
    BY CommandsAre, CommandTypes
  <2>2. TypeOK'
    BY <2>1, StartTypes DEF TypeOK
  <2>. QED
    BY <2>2, StartTypes DEF OperationInv, ReturnedHolds
<1>3. CASE select_network
  <2>. USE <1>3 DEF select_network
  <2>1. op.param \in NetworkModes
    BY DEF OperationInv, Ops
  <2>2. /\ wan' \in {0, 1, 2} /\ mode' \in NetworkModes
        /\ late' \subseteq Commands /\ sent' \subseteq Commands /\ tardy' = tardy
    BY <2>1, CommandsAre, CommandTypes
  <2>3. TypeOK'
    BY <2>2, StartTypes DEF TypeOK
  <2>. QED
    BY <2>3, StartTypes DEF OperationInv, ReturnedHolds
<1>. QED
  BY <1>1, <1>2, <1>3

\* _ensure_session, before the connect and before a poll.
LEMMA EnsureKeeps ==
    ASSUME IInv,
           ensure_session \/ ensure_session_raises \/ recover \/ recover_raises
    PROVE  IInv'
<1>. USE DEF IInv, router_vars, history_vars
<1>1. CASE ensure_session
  <2>1. TypeOK'
    BY <1>1, EnsureTypes DEF ensure_session, TypeOK
  <2>. QED
    BY <1>1, <2>1 DEF ensure_session, OperationInv, ReturnedHolds
<1>2. CASE ensure_session_raises
  <2>. USE <1>2 DEF ensure_session_raises
  <2>1. TypeOK'
    BY EnsureTypes, StartTypes DEF TypeOK, End, Outcomes
  <2>2. OperationInv'
    BY StartTypes DEF OperationInv, End
  <2>3. ReturnedHolds'
    BY StartTypes DEF OperationInv, ReturnedHolds, End
  <2>. QED
    BY <2>1, <2>2, <2>3
<1>3. CASE recover
  <2>1. TypeOK'
    BY <1>3, EnsureTypes DEF recover, TypeOK
  <2>. QED
    BY <1>3, <2>1 DEF recover, OperationInv, ReturnedHolds
<1>4. CASE recover_raises
  <2>. USE <1>4 DEF recover_raises
  <2>1. attempts \in 0 .. Attempts /\ outcome \in Outcomes
    BY DEF TypeOK
  <2>2. TypeOK'
    BY <2>1, EnsureTypes, PollTypes DEF TypeOK
  <2>3. OperationInv' /\ ReturnedHolds'
    BY <2>1, PollTypes DEF OperationInv, ReturnedHolds
  <2>. QED
    BY <2>2, <2>3
<1>. QED
  BY <1>1, <1>2, <1>3, <1>4

\* A poll: what it returns is what it has just read.
LEMMA PollKeeps ==
    ASSUME IInv, poll_returns \/ poll_goes_on
    PROVE  IInv'
<1>. USE DEF IInv, router_vars, history_vars
<1>1. CASE poll_returns
  <2>. USE <1>1 DEF poll_returns, End
  <2>1. TypeOK'
    BY DEF TypeOK, Outcomes
  <2>2. OperationInv'
    BY DEF OperationInv
  <2>3. ReturnedHolds'
    BY DEF ReturnedHolds, AsWanted, OperationInv, Ops
  <2>. QED
    BY <2>1, <2>2, <2>3
<1>2. CASE poll_goes_on
  <2>. USE <1>2 DEF poll_goes_on
  <2>1. attempts \in 0 .. Attempts /\ outcome \in Outcomes
    BY DEF TypeOK
  <2>2. TypeOK'
    BY <2>1, PollTypes DEF TypeOK
  <2>3. OperationInv' /\ ReturnedHolds'
    BY <2>1, PollTypes DEF OperationInv, ReturnedHolds
  <2>. QED
    BY <2>2, <2>3
<1>. QED
  BY <1>1, <1>2

\* The caller's login, an expiring session, a transition that ends.
LEMMA OtherKeeps ==
    ASSUME IInv, login \/ session_expires \/ wan_settles
    PROVE  IInv'
<1>. USE DEF IInv, router_vars, history_vars, client_vars
<1>1. CASE login
  BY <1>1 DEF login, TypeOK, OperationInv, ReturnedHolds
<1>2. CASE session_expires
  BY <1>2 DEF session_expires, TypeOK, OperationInv, ReturnedHolds
<1>3. CASE wan_settles
  BY <1>3 DEF wan_settles, TypeOK, OperationInv, ReturnedHolds
<1>. QED
  BY <1>1, <1>2, <1>3

\* After a command that outlived its exchange nothing is promised any more.
LEMMA LateKeeps ==
    ASSUME IInv, NEW command \in late, served_late(command)
    PROVE  IInv'
<1>. USE DEF IInv, served_late, client_vars
<1>1. wan \in {0, 1, 2} /\ mode \in NetworkModes /\ command \in Commands
  BY DEF TypeOK
<1>2. wan' \in {0, 1, 2} /\ mode' \in NetworkModes
  BY <1>1, ExecuteTypes
<1>3. TypeOK'
  BY <1>2 DEF TypeOK
<1>. QED
  BY <1>3 DEF OperationInv, ReturnedHolds

\* Every step keeps the invariant.
LEMMA NextSafe == IInv /\ [Next]_vars => IInv'
<1>. SUFFICES ASSUME IInv, [Next]_vars PROVE IInv'
  OBVIOUS
<1>1. CASE Progress
  BY <1>1, SendKeeps, EnsureKeeps, PollKeeps DEF Progress
<1>2. CASE UNCHANGED vars
  BY <1>2 DEF vars, client_vars, router_vars, history_vars, IInv, TypeOK,
              OperationInv, ReturnedHolds
<1>. QED
  BY <1>1, <1>2, BeginKeeps, OtherKeeps, LateKeeps DEF Next

---------------------------------------------------------------------------
(* Theorems                                                                *)

\* IInv holds in every reachable state.
LEMMA Inductive == Spec => []IInv
  BY InitSafe, NextSafe, PTL DEF Spec

\* Every variable has its type.
THEOREM TypeCorrect == Spec => []TypeOK
<1>1. IInv => TypeOK
  BY DEF IInv
<1>. QED
  BY <1>1, Inductive, PTL

\* reconnect_mobile and select_network leave the router with what they returned,
\* whatever was lost or expired, as long as no command outlives its exchange
\* (mobile.py:233-255, 298-325).
THEOREM ReturnedStands == Spec => []ReturnedHolds
<1>1. IInv => ReturnedHolds
  BY DEF IInv
<1>. QED
  BY <1>1, Inductive, PTL

\* Every step of a running operation brings it nearer to its end, whatever fails:
\* an operation makes at most 2 * Attempts + 3 exchanges.
THEOREM Shortens == Spec => OperationsShorten
<1>1. ASSUME IInv, [Next]_vars, pc # "idle",
             <<pc, attempts>>' # <<pc, attempts>>
      PROVE  Left' \in 0 .. Left - 1
  <2>. USE <1>1 DEF Left, StartPolling, PollAgain, End
  <2>1. attempts \in 0 .. Attempts /\ Attempts \in Nat \ {0} /\ OperationInv
    BY DEF IInv, TypeOK
  <2>2. CASE disconnect
    BY <2>1, <2>2 DEF disconnect
  <2>3. CASE ensure_session
    BY <2>1, <2>3 DEF ensure_session
  <2>4. CASE ensure_session_raises
    BY <2>1, <2>4 DEF ensure_session_raises
  <2>5. CASE connect
    BY <2>1, <2>5 DEF connect
  <2>6. CASE select_network
    BY <2>1, <2>6 DEF select_network
  <2>7. CASE recover
    BY <2>1, <2>7 DEF recover, OperationInv
  <2>8. CASE recover_raises
    BY <2>1, <2>8 DEF recover_raises
  <2>9. CASE poll_returns
    BY <2>1, <2>9 DEF poll_returns, OperationInv
  <2>10. CASE poll_goes_on
    BY <2>1, <2>10 DEF poll_goes_on
  <2>11. ~\E o \in CallerOps : begin(o)
    BY DEF begin
  <2>. QED
    BY <2>2, <2>3, <2>4, <2>5, <2>6, <2>7, <2>8, <2>9, <2>10, <2>11
    DEF Next, Progress, login, session_expires, wan_settles, served_late, vars,
        client_vars
<1>. QED
  BY <1>1, Inductive, PTL DEF Spec, OperationsShorten
=============================================================================
