----------------------------- MODULE Reconnect -----------------------------
(***************************************************************************)
(* The two operations of the namespace mobile that cut the connection they *)
(* work on: reconnect_mobile, which disconnects the mobile WAN, connects   *)
(* it and waits for it, and select_network, which waits for the selection  *)
(* mode.  Both recover the session with _ensure_session, which takes any   *)
(* object the WAN status call returns for a live session and logs in only  *)
(* if that call raises.                                                    *)
(*                                                                         *)
(* One HTTP exchange is one step.  The answers to the commands are not     *)
(* looked at; a command may be lost, refused for want of a live session,   *)
(* or served after its client has gone on.                                 *)
(***************************************************************************)
EXTENDS Integers, FiniteSets

CONSTANTS
    Attempts,     \* recovery_attempts
    MaxCalls,     \* bound: operations
    MaxLate,      \* bound: commands served late at the same time
    Lossy,        \* do exchanges and logins fail, and sessions expire?
    None          \* Python's None

ASSUME BoundsAssumption ==
    Attempts \in Nat \ {0} /\ MaxCalls \in Nat /\ MaxLate \in Nat
ASSUME LossyAssumption == Lossy \in BOOLEAN

VARIABLES
    \* the client
    hasPassword,  \* client.password is not None
    session,   \* "live", "expired" at the router, or "none" in the client
    pc,        \* the exchange the running operation is about to make, or "idle"
    op,        \* the running or the last operation
    attempts,  \* polls left
    outcome,   \* how the last operation ended
    calls,     \* operations begun
    \* the router (external)
    wan,       \* connection_status: 0 down, 1 up, 2 in transition
    mode,      \* nw_sel_mode
    late,      \* commands still to be served
    \* history
    sent,      \* the commands the operation has sent
    tardy      \* has a command been served late?

client_vars == <<hasPassword, session, pc, op, attempts, outcome, calls>>
router_vars == <<wan, mode, late>>
history_vars == <<sent, tardy>>
vars == <<client_vars, router_vars, history_vars>>

NetworkModes == {"auto", "manual"}

Ops == [kind: {"reconnect"}]
       \cup [kind: {"select"}, param: NetworkModes, expected: NetworkModes \cup {None}]

\* "auto" expects itself, any other parameter what the caller says.
CallerOps ==
    {o \in Ops : o.kind = "select" => (o.param = "auto" => o.expected # None)}

Commands == [do: {"disconnect", "connect"}] \cup [do: {"select"}, param: NetworkModes]

\* "failed": an AuthenticationError before the polls; "unverified": the APIError
\* after them.
Outcomes == {"none", "returned", "failed", "unverified"}

---------------------------------------------------------------------------
(* Helpers                                                                 *)

End(o) == pc' = "idle" /\ outcome' = o

\* Mutant of PollAgain: the polls are not counted.
PollForEver ==
    /\ pc' = "recover"
    /\ UNCHANGED <<attempts, outcome>>

PollAgain ==
    \/ /\ attempts > 1
       /\ attempts' = attempts - 1
       /\ pc' = "recover"
       /\ UNCHANGED outcome
    \/ /\ attempts = 1
       /\ attempts' = 0
       /\ End("unverified")

StartPolling ==
    /\ attempts' = Attempts
    /\ pc' = "recover"
    /\ UNCHANGED outcome

\* What a command does to the router.
Execute(command) ==
    /\ wan' = CASE command.do = "disconnect" -> 0
                [] command.do = "connect" -> IF wan = 1 THEN 1 ELSE 2
                [] command.do = "select" -> wan
    /\ mode' = IF command.do = "select" THEN command.param ELSE mode

\* The exchange of a command: served, lost or refused, or to be served late.
Command(command) ==
    /\ sent' = sent \cup {command}
    /\ \/ session = "live" /\ Execute(command) /\ UNCHANGED late
       \/ (Lossy \/ session # "live") /\ UNCHANGED router_vars
       \/ /\ session = "live"
          /\ Cardinality(late) < MaxLate
          /\ late' = late \cup {command}
          /\ UNCHANGED <<wan, mode>>
    /\ UNCHANGED tardy

\* _ensure_session finds a session, or what it takes for one.
Ensured ==
    \/ session # "none" /\ UNCHANGED session
    \/ hasPassword /\ (Lossy \/ session # "live") /\ session' = "live"

\* It raises the error of the login or, without a password, that of the WAN status
\* call, which is never for want of a session the client has begun with.
EnsureRaises(error) ==
    /\ Lossy \/ session # "live"
    /\ IF hasPassword
       THEN session' = "none" /\ Lossy
       ELSE error = "TransportError" /\ UNCHANGED session

---------------------------------------------------------------------------
(* The operations                                                          *)

\* Without a session the first call raises.
begin(o) ==
    /\ pc = "idle"
    /\ calls < MaxCalls
    /\ calls' = calls + 1
    /\ op' = o
    /\ sent' = {}
    /\ IF session = "none"
       THEN End("failed")
       ELSE /\ pc' = IF o.kind = "reconnect" THEN "disconnect" ELSE "select"
            /\ outcome' = "none"
    /\ UNCHANGED <<hasPassword, session, attempts, router_vars, tardy>>

disconnect ==
    /\ pc = "disconnect"
    /\ Command([do |-> "disconnect"])
    /\ pc' = "ensure"
    /\ UNCHANGED <<hasPassword, session, op, attempts, outcome, calls>>

ensure_session ==
    /\ pc = "ensure"
    /\ Ensured
    /\ pc' = "connect"
    /\ UNCHANGED <<hasPassword, op, attempts, outcome, calls, router_vars,
                 history_vars>>

\* The connect is skipped with the error that is passed over; an
\* AuthenticationError is not.
ensure_session_raises ==
    /\ pc = "ensure"
    /\ \/ EnsureRaises("TransportError") /\ StartPolling
       \/ EnsureRaises("AuthenticationError") /\ End("failed") /\ UNCHANGED attempts
    /\ UNCHANGED <<hasPassword, op, calls, router_vars, history_vars>>

connect ==
    /\ pc = "connect"
    /\ Command([do |-> "connect"])
    /\ StartPolling
    /\ UNCHANGED <<hasPassword, session, op, calls>>

select_network ==
    /\ pc = "select"
    /\ Command([do |-> "select", param |-> op.param])
    /\ StartPolling
    /\ UNCHANGED <<hasPassword, session, op, calls>>

\* A poll begins with _ensure_session.
recover ==
    /\ pc = "recover"
    /\ Ensured
    /\ pc' = "read"
    /\ UNCHANGED <<hasPassword, op, attempts, outcome, calls, router_vars,
                 history_vars>>

recover_raises ==
    /\ pc = "recover"
    /\ \E error \in {"TransportError", "AuthenticationError"} : EnsureRaises(error)
    /\ PollAgain
    /\ UNCHANGED <<hasPassword, op, calls, router_vars, history_vars>>

\* Mutant of AsWanted: a transition is taken for a connection.
NotDown ==
    IF op.kind = "reconnect" THEN wan # 0
                             ELSE op.expected \in {mode, None}

\* The read-back: a connected context, or the mode expected, if any is.
AsWanted ==
    IF op.kind = "reconnect" THEN wan = 1
                             ELSE op.expected \in {mode, None}

poll_returns ==
    /\ pc = "read"
    /\ session = "live"
    /\ AsWanted
    /\ End("returned")
    /\ UNCHANGED <<hasPassword, session, op, attempts, calls, router_vars,
                 history_vars>>

\* Not yet, a lost answer, or an object without what was asked for.
poll_goes_on ==
    /\ pc = "read"
    /\ Lossy \/ session # "live" \/ ~AsWanted
    /\ PollAgain
    /\ UNCHANGED <<hasPassword, session, op, calls, router_vars, history_vars>>

---------------------------------------------------------------------------
(* The caller and the router (external)                                    *)

login ==
    /\ hasPassword
    /\ pc = "idle"
    /\ session # "live"
    /\ session' = "live"
    /\ UNCHANGED <<hasPassword, pc, op, attempts, outcome, calls, router_vars,
                 history_vars>>

session_expires ==
    /\ Lossy
    /\ session = "live"
    /\ session' = "expired"
    /\ UNCHANGED <<hasPassword, pc, op, attempts, outcome, calls, router_vars,
                 history_vars>>

\* The transition ends: connected, or refused by the network.
wan_settles ==
    /\ wan = 2
    /\ wan' \in {0, 1}
    /\ UNCHANGED <<client_vars, mode, late, history_vars>>

served_late(command) ==
    /\ command \in late
    /\ late' = late \ {command}
    /\ Execute(command)
    /\ tardy' = TRUE
    /\ UNCHANGED <<client_vars, sent>>

---------------------------------------------------------------------------
(* The specification                                                       *)

\* The caller has logged in; it may have cleared client.password since.
Init ==
    /\ hasPassword \in BOOLEAN
    /\ session = "live"
    /\ pc = "idle"
    /\ op = None
    /\ attempts = 0
    /\ outcome = "none"
    /\ calls = 0
    /\ wan \in {0, 1}
    /\ mode \in NetworkModes
    /\ late = {}
    /\ sent = {}
    /\ tardy = FALSE

Progress ==
    \/ disconnect
    \/ ensure_session
    \/ ensure_session_raises
    \/ connect
    \/ select_network
    \/ recover
    \/ recover_raises
    \/ poll_returns
    \/ poll_goes_on

Next ==
    \/ \E o \in CallerOps : begin(o)
    \/ Progress
    \/ login
    \/ session_expires
    \/ wan_settles
    \/ \E command \in late : served_late(command)

Spec == Init /\ [][Next]_vars

\* Every HTTP exchange ends in an answer or an error: the requests timeout.
FairSpec == Spec /\ WF_vars(Progress)

---------------------------------------------------------------------------
(* Properties                                                              *)

\* Every variable has its type.
TypeOK ==
    /\ hasPassword \in BOOLEAN
    /\ session \in {"live", "expired", "none"}
    /\ pc \in {"idle", "disconnect", "ensure", "connect", "select", "recover", "read"}
    /\ op \in Ops \cup {None}
    /\ attempts \in 0 .. Attempts
    /\ outcome \in Outcomes
    /\ calls \in 0 .. MaxCalls
    /\ wan \in {0, 1, 2}
    /\ mode \in NetworkModes
    /\ late \subseteq Commands
    /\ sent \subseteq Commands
    /\ tardy \in BOOLEAN

\* What an operation returned is what the router is left with, and what was
\* asked for: a WAN that the operation itself cut is up again, unless one of its
\* commands outlived its exchange (mobile.py:233-255, 298-325).
ReturnedHolds ==
    outcome = "returned" /\ ~tardy =>
        /\ op.kind = "reconnect" => wan = 1
        /\ op.kind = "select" /\ op.expected # None => mode = op.expected

\* What mobile.py:221 says: disconnect, then reconnect.  An operation that went
\* through its polls has asked for the connection it waited for.
ReconnectAsked ==
    outcome = "unverified" /\ op.kind = "reconnect" => [do |-> "connect"] \in sent

\* The exchanges a running operation can still make at most, two for each poll.
Left ==
    LET place == [idle |-> 0,
                  disconnect |-> 2 * Attempts + 3,
                  ensure |-> 2 * Attempts + 2,
                  connect |-> 2 * Attempts + 1,
                  select |-> 2 * Attempts + 1,
                  recover |-> 2 * attempts,
                  read |-> 2 * attempts - 1]
    IN  place[pc]

\* Whatever fails, every step of a running operation brings it nearer to its end:
\* no recovery sends a command again or gains a poll (mobile.py:221-255, 298-325).
OperationsShorten ==
    [][pc # "idle" /\ <<pc, attempts>>' # <<pc, attempts>>
          => Left' \in 0 .. Left - 1]_vars

\* Every operation comes back to its caller.
EveryOperationReturns == pc # "idle" ~> pc = "idle"
============================================================================
