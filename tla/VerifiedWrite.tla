--------------------------- MODULE VerifiedWrite ---------------------------
(***************************************************************************)
(* The verified write, the way the namespaces of the client change a       *)
(* setting: read the current object, return if it is already as wanted,    *)
(* send ONE write whose answer proves nothing, and then poll the getter,   *)
(* logging in again after a failed poll, until the read-back matches or    *)
(* the recovery attempts are used up.                                      *)
(*                                                                         *)
(* The control is that of lan._write_dhcp_payload and its siblings in      *)
(* lan.py, wifi.py and mobile.py; what an operation writes and what it     *)
(* accepts as its effect is a parameter, given by the modules Lan and      *)
(* WiFi.  Several clients share one router.  Reads and logins fail at any  *)
(* time, sessions expire, and the router may apply a write it accepted at  *)
(* any later moment, or never.                                             *)
(***************************************************************************)
EXTENDS Integers, FiniteSets

CONSTANTS
    Clients,           \* the clients (several processes, or other admins)
    Configs,           \* what the router can hold
    Initial,           \* what it may hold at first
    Ops,               \* the operations with their arguments
    Checked,           \* those that read and check something else first
    Trusting,          \* those that take any answer of a getter for one
    Admissible(_, _),  \* Admissible(op, cfg): that check passes
    Preparable(_, _),  \* Preparable(op, cfg): a payload can be built from cfg
    Same(_, _),        \* Same(op, cfg): nothing to write
    Applied(_, _, _),  \* Applied(op, before, cfg): cfg once the payload that op
                       \*   built from the snapshot `before` takes effect
    Met(_, _, _),      \* Met(op, before, actual): the read-back is as wanted
    Asked(_, _),       \* Asked(op, cfg): cfg is what the caller asked for
    Kept(_, _, _),     \* Kept(op, before, cfg): cfg still has of `before` what op
                       \*   looks after although it rewrites it
    Frame(_, _),       \* Frame(op, cfg): the part of cfg op does not ask for
    HasPassword,       \* clients created with a password: they log in again
    Attempts,          \* recovery_attempts
    MaxCalls,          \* bound: operations per client
    Late,              \* may a write take effect after its operation ended?
    None               \* Python's None

ASSUME AttemptsAssumption == Attempts \in Nat /\ Attempts >= 1
ASSUME CallsAssumption == MaxCalls \in Nat
ASSUME InitialAssumption == Initial \subseteq Configs /\ None \notin Configs
ASSUME OpsAssumption == Checked \subseteq Ops /\ None \notin Ops
ASSUME PasswordAssumption == HasPassword \subseteq Clients

\* What an operation writes without having understood what it read, and what it
\* waits for, cannot depend on that.
ASSUME TrustingAssumption ==
    /\ Trusting \subseteq Ops
    /\ \A op \in Trusting, before, cfg \in Configs :
          /\ Preparable(op, before)
          /\ Applied(op, before, cfg) = Applied(op, cfg, cfg)
          /\ Met(op, before, cfg) <=> Met(op, cfg, cfg)

ASSUME AppliedAssumption ==
    \A op \in Ops, before \in Configs : Preparable(op, before) =>
        \A cfg \in Configs : Applied(op, before, cfg) \in Configs

VARIABLES
    config,    \* what the router holds
    owed,      \* writes the router accepted and has not applied
    applied,   \* history: the calls whose write has taken effect
    held,      \* history: held[c]: what the router has held since the operation
               \*   of c began or, once it has written, since it wrote
    session,   \* session[c]: "live", "expired" at the router, or "none"
    pc,        \* pc[c]: where the running operation of c is, or "idle"
    calls,     \* calls[c]: operations c has begun
    op,        \* op[c]: the running or the last operation
    before,    \* before[c]: the snapshot its payload was built from
    got,       \* got[c]: what the getter answered
    attempts,  \* attempts[c]: polls left
    outcome,   \* outcome[c]: how the last operation ended
    result     \* result[c]: the object it returned

router_vars == <<config, owed, applied, held>>
client_vars == <<session, pc, calls, op, before, got, attempts, outcome, result>>
vars == <<router_vars, client_vars>>

\* "failed": an exception before anything was sent; "unverified": the APIError
\* of a write that could not be verified by read-back.
Outcomes == {"none", "returned", "failed", "unverified"}

Write == [client: Clients, call: 1 .. MaxCalls, op: Ops, before: Configs]

---------------------------------------------------------------------------
(* Helpers                                                                 *)

\* The running operation ends with outcome o and value v.
End(c, o, v) ==
    /\ pc' = [pc EXCEPT ![c] = "idle"]
    /\ outcome' = [outcome EXCEPT ![c] = o]
    /\ result' = [result EXCEPT ![c] = v]
    /\ got' = [got EXCEPT ![c] = None]
    /\ held' = [held EXCEPT ![c] = {}]
    /\ owed' = IF Late THEN owed ELSE {w \in owed : w.client # c}

\* _try_relogin: login() forgets the session first; if it fails there is none.
Relogin(c) ==
    IF c \in HasPassword
    THEN \E s \in {"live", "none"} : session' = [session EXCEPT ![c] = s]
    ELSE UNCHANGED session

\* The one write, with the payload built from snapshot.  Its answer is not looked
\* at, and losing it is no error; without a live session, or on its way, the
\* router never accepts it.
Send(c, snapshot) ==
    /\ before' = [before EXCEPT ![c] = snapshot]
    /\ got' = [got EXCEPT ![c] = None]
    /\ pc' = [pc EXCEPT ![c] = "verify"]
    /\ attempts' = [attempts EXCEPT ![c] = Attempts]
    /\ held' = [held EXCEPT ![c] = {config}]
    /\ \/ UNCHANGED owed
       \/ /\ session[c] = "live"
          /\ owed' = owed \cup {[client |-> c, call |-> calls[c],
                                 op |-> op[c], before |-> snapshot]}
    /\ UNCHANGED <<config, applied, session, calls, op, outcome, result>>

\* Mutant of PollAgain: the last poll is not noticed.
PollPastTheLast(c) ==
    /\ attempts' = [attempts EXCEPT ![c] = attempts[c] - 1]
    /\ got' = [got EXCEPT ![c] = None]
    /\ UNCHANGED <<pc, outcome, result, owed, held>>

\* Mutant of PollAgain: the polls are not counted.
PollForEver(c) ==
    /\ got' = [got EXCEPT ![c] = None]
    /\ UNCHANGED <<attempts, pc, outcome, result, owed, held>>

\* The poll told nothing new: another one, or the APIError after the last.
PollAgain(c) ==
    \/ /\ attempts[c] > 1
       /\ attempts' = [attempts EXCEPT ![c] = attempts[c] - 1]
       /\ got' = [got EXCEPT ![c] = None]
       /\ UNCHANGED <<pc, outcome, result, owed, held>>
    \/ /\ attempts[c] = 1
       /\ attempts' = [attempts EXCEPT ![c] = 0]
       /\ End(c, "unverified", None)

---------------------------------------------------------------------------
(* The operation                                                           *)

\* The caller starts an operation; its arguments have been validated.
begin(c, o) ==
    /\ pc[c] = "idle"
    /\ calls[c] < MaxCalls
    /\ calls' = [calls EXCEPT ![c] = calls[c] + 1]
    /\ op' = [op EXCEPT ![c] = o]
    /\ before' = [before EXCEPT ![c] = None]
    /\ outcome' = [outcome EXCEPT ![c] = "none"]
    /\ result' = [result EXCEPT ![c] = None]
    /\ pc' = [pc EXCEPT ![c] = IF o \in Checked THEN "check" ELSE "read"]
    /\ held' = [held EXCEPT ![c] = {config}]
    /\ UNCHANGED <<config, owed, applied, session, got, attempts>>

\* The router answers the getter the client is waiting for.
read_served(c) ==
    /\ pc[c] \in {"check", "read", "verify"}
    /\ got[c] = None
    /\ session[c] = "live"
    /\ got' = [got EXCEPT ![c] = config]
    /\ UNCHANGED <<router_vars, session, pc, calls, op, before, attempts,
                   outcome, result>>

\* The first reads raise to the caller: no session, a lost or unusable answer.
read_fails(c) ==
    /\ pc[c] \in {"check", "read"}
    /\ End(c, "failed", None)
    /\ UNCHANGED <<config, applied, session, calls, op, before, attempts>>

\* The preliminary check on another object of the router.
check_passes(c) ==
    /\ pc[c] = "check"
    /\ got[c] # None
    /\ Admissible(op[c], got[c])
    /\ got' = [got EXCEPT ![c] = None]
    /\ pc' = [pc EXCEPT ![c] = "read"]
    /\ UNCHANGED <<router_vars, session, calls, op, before, attempts, outcome,
                   result>>

\* A check fails, or the object read does not allow to build the payload.
refuse(c) ==
    /\ got[c] # None
    /\ \/ pc[c] = "check" /\ ~Admissible(op[c], got[c])
       \/ pc[c] = "read" /\ ~Same(op[c], got[c]) /\ ~Preparable(op[c], got[c])
    /\ End(c, "failed", None)
    /\ UNCHANGED <<config, applied, session, calls, op, before, attempts>>

\* The same-state call: nothing is written.
no_change(c) ==
    /\ pc[c] = "read"
    /\ got[c] # None
    /\ Same(op[c], got[c])
    /\ End(c, "returned", got[c])
    /\ UNCHANGED <<config, applied, session, calls, op, before, attempts>>

\* Mutant of write: losing the answer is an error.
raising_write(c) ==
    /\ pc[c] = "read"
    /\ got[c] # None
    /\ ~Same(op[c], got[c])
    /\ Preparable(op[c], got[c])
    /\ before' = [before EXCEPT ![c] = got[c]]
    /\ got' = [got EXCEPT ![c] = None]
    /\ pc' = [pc EXCEPT ![c] = "idle"]
    /\ outcome' = [outcome EXCEPT ![c] = "failed"]
    /\ owed' = owed \cup {[client |-> c, call |-> calls[c],
                           op |-> op[c], before |-> got[c]]}
    /\ UNCHANGED <<config, applied, held, session, calls, op, attempts, result>>

\* The object read is not as wanted.
write(c) ==
    /\ pc[c] = "read"
    /\ got[c] # None
    /\ ~Same(op[c], got[c])
    /\ Preparable(op[c], got[c])
    /\ Send(c, got[c])

\* set_address_legacy does not look whether the answer to its read is one: an
\* error of the router, as for an expired session, is an address not as wanted.
write_unread(c) ==
    /\ op[c] \in Trusting
    /\ pc[c] = "read"
    /\ got[c] = None
    /\ session[c] # "none"
    /\ Send(c, config)

verify_matches(c) ==
    /\ pc[c] = "verify"
    /\ got[c] # None
    /\ Met(op[c], before[c], got[c])
    /\ End(c, "returned", got[c])
    /\ UNCHANGED <<config, applied, session, calls, op, before, attempts>>

\* Mutant of verify_differs: the last read-back is returned, verified or not.
verify_returns(c) ==
    /\ pc[c] = "verify"
    /\ got[c] # None
    /\ ~Met(op[c], before[c], got[c])
    /\ End(c, "returned", got[c])
    /\ UNCHANGED <<config, applied, session, calls, op, before, attempts>>

verify_differs(c) ==
    /\ pc[c] = "verify"
    /\ got[c] # None
    /\ ~Met(op[c], before[c], got[c])
    /\ PollAgain(c)
    /\ UNCHANGED <<config, applied, session, calls, op, before>>

\* Mutant of verify_fails: the write is sent again after a failed poll.
verify_rewrites(c) ==
    /\ pc[c] = "verify"
    /\ session[c] = "live"
    /\ attempts[c] > 1
    /\ attempts' = [attempts EXCEPT ![c] = attempts[c] - 1]
    /\ owed' = owed \cup {[client |-> c, call |-> calls[c],
                           op |-> op[c], before |-> before[c]]}
    /\ UNCHANGED <<config, applied, held, session, pc, calls, op, before, got,
                   outcome, result>>

\* Any NR2301Error of a poll: no session, a lost or unusable answer.  Where an
\* unusable answer is not noticed, nothing is done about the session.
verify_fails(c) ==
    /\ pc[c] = "verify"
    /\ \/ Relogin(c)
       \/ op[c] \in Trusting /\ session[c] # "none" /\ UNCHANGED session
    /\ PollAgain(c)
    /\ UNCHANGED <<config, applied, calls, op, before>>

---------------------------------------------------------------------------
(* The caller and the router (external)                                    *)

login(c) ==
    /\ pc[c] = "idle"
    /\ session[c] # "live"
    /\ session' = [session EXCEPT ![c] = "live"]
    /\ UNCHANGED <<router_vars, pc, calls, op, before, got, attempts, outcome,
                   result>>

session_expires(c) ==
    /\ session[c] = "live"
    /\ session' = [session EXCEPT ![c] = "expired"]
    /\ UNCHANGED <<router_vars, pc, calls, op, before, got, attempts, outcome,
                   result>>

apply(w) ==
    /\ config' = Applied(w.op, w.before, config)
    /\ owed' = owed \ {w}
    /\ applied' = applied \cup {<<w.client, w.call>>}
    /\ held' = [c \in Clients |-> IF pc[c] = "idle" THEN {}
                                  ELSE held[c] \cup {config'}]
    /\ UNCHANGED client_vars

drop(w) ==
    /\ owed' = owed \ {w}
    /\ UNCHANGED <<config, applied, held, client_vars>>

---------------------------------------------------------------------------
(* The specification                                                       *)

Init ==
    /\ config \in Initial
    /\ owed = {}
    /\ applied = {}
    /\ held = [c \in Clients |-> {}]
    /\ session = [c \in Clients |-> "live"]
    /\ pc = [c \in Clients |-> "idle"]
    /\ calls = [c \in Clients |-> 0]
    /\ op = [c \in Clients |-> None]
    /\ before = [c \in Clients |-> None]
    /\ got = [c \in Clients |-> None]
    /\ attempts = [c \in Clients |-> 0]
    /\ outcome = [c \in Clients |-> "none"]
    /\ result = [c \in Clients |-> None]

Progress(c) ==
    \/ read_served(c)
    \/ read_fails(c)
    \/ check_passes(c)
    \/ refuse(c)
    \/ no_change(c)
    \/ write(c)
    \/ write_unread(c)
    \/ verify_matches(c)
    \/ verify_differs(c)
    \/ verify_fails(c)

Router ==
    \/ \E c \in Clients : session_expires(c)
    \/ \E w \in owed : apply(w) \/ drop(w)

\* All clients are done: the bound on their operations is reached.
Done ==
    /\ \A c \in Clients : pc[c] = "idle" /\ calls[c] = MaxCalls
    /\ UNCHANGED vars

Next ==
    \/ \E c \in Clients : (\E o \in Ops : begin(c, o)) \/ Progress(c) \/ login(c)
    \/ Router
    \/ Done

Spec == Init /\ [][Next]_vars

\* Every HTTP exchange ends in an answer or an error: the requests timeout.
FairSpec == Spec /\ \A c \in Clients : WF_vars(Progress(c))

---------------------------------------------------------------------------
(* Properties                                                              *)

\* Every variable has its type.
TypeOK ==
    /\ config \in Configs
    /\ owed \subseteq Write
    /\ applied \subseteq Clients \X (1 .. MaxCalls)
    /\ held \in [Clients -> SUBSET Configs]
    /\ session \in [Clients -> {"live", "expired", "none"}]
    /\ pc \in [Clients -> {"idle", "check", "read", "verify"}]
    /\ calls \in [Clients -> 0 .. MaxCalls]
    /\ op \in [Clients -> Ops \cup {None}]
    /\ before \in [Clients -> Configs \cup {None}]
    /\ got \in [Clients -> Configs \cup {None}]
    /\ attempts \in [Clients -> 0 .. Attempts]
    /\ outcome \in [Clients -> Outcomes]
    /\ result \in [Clients -> Configs \cup {None}]

\* The write of an operation takes effect at most once: recovery polls and logs
\* in again but never sends it a second time (wifi.py:735-765, lan.py:530-564).
EffectAtMostOnce ==
    \A w \in owed : <<w.client, w.call>> \notin applied

\* An operation that raised before its write, or found nothing to change, has
\* not touched the router and never will, however late it serves requests.
NoHiddenEffect ==
    \A c \in Clients :
        (outcome[c] = "failed" \/ (outcome[c] = "returned" /\ before[c] = None))
        => /\ <<c, calls[c]>> \notin applied
           /\ \A w \in owed : <<w.client, w.call>> # <<c, calls[c]>>

\* What an operation returned is what the router still holds, and what was asked
\* for; and what its payload carried along, the router has not lost on the way
\* (the Guest network of a mode change, wifi.py:837-853).  For a client alone at a
\* router that applies no write after its operation has ended.
ReturnedHolds ==
    \A c \in Clients :
        outcome[c] = "returned" =>
            /\ Asked(op[c], config)
            /\ result[c] = config
            /\ before[c] # None => Kept(op[c], before[c], config)

\* The router changes only in what the operation taking effect asks for,
\* although the write carries the object as it was read before.
OnlyAskedChanges ==
    [][\A w \in owed : config' = Applied(w.op, w.before, config) /\ w \notin owed'
          => Frame(w.op, config') = Frame(w.op, config)]_vars

\* What the caller is promised: module Setting, which knows nothing of polls,
\* sessions and answers.
PhaseOf(p) ==
    IF p \in {"check", "read"} THEN "asked"
    ELSE IF p = "verify" THEN "written" ELSE "idle"

phase == [c \in Clients |-> PhaseOf(pc[c])]

Contract ==
    INSTANCE Setting WITH config <- config, owed <- owed, applied <- applied,
                          held <- held, phase <- phase, calls <- calls, op <- op,
                          before <- before, outcome <- outcome, result <- result

ImplementsSetting == Contract!Spec

\* What a running operation can still do at most: send a read or the write, or look
\* at an answer.  A poll is two of these, and recovery_attempts bounds the polls.
Left(c) ==
    LET place == [idle |-> 0,
                  check |-> 2 * Attempts + 4,
                  read |-> 2 * Attempts + 2,
                  verify |-> 2 * attempts[c]]
    IN  place[pc[c]] - (IF got[c] = None THEN 0 ELSE 1)

\* Whatever fails, every step of a running operation brings it nearer to its end:
\* no recovery goes back to the write or gains a poll (wifi.py:735-765,
\* lan.py:530-564).
OperationsShorten ==
    [][\A c \in Clients :
          pc[c] # "idle" /\ <<pc[c], got[c], attempts[c]>>' # <<pc[c], got[c], attempts[c]>>
          => Left(c)' \in 0 .. Left(c) - 1]_vars

\* Every operation comes back to its caller.
EveryOperationReturns ==
    \A c \in Clients : pc[c] # "idle" ~> pc[c] = "idle"
============================================================================
