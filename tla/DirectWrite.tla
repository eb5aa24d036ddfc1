---------------------------- MODULE DirectWrite ----------------------------
(***************************************************************************)
(* The direct writes: the operations of the client that send one write and *)
(* do not recover from losing its answer.  There are three kinds.          *)
(*                                                                         *)
(*   - Reading back (language, sleep time, timed reboot): read the current *)
(*     value, return if it is the wanted one, write, read once more.       *)
(*   - Confirmed (sms, WPS actions): the answer must report success.       *)
(*   - Blind (firewall, statistics, phonebook): the answer is handed to    *)
(*     the caller, whatever it says.                                       *)
(*                                                                         *)
(* What an operation writes is a parameter, given by the module Services.  *)
(* Several clients share one router.  Every exchange may fail, before or   *)
(* after the router accepted the request, and the router may apply a write *)
(* it accepted at any later moment, or never.                              *)
(***************************************************************************)
EXTENDS Integers, FiniteSets

CONSTANTS
    Clients, Configs, Initial,
    Ops,               \* the operations with their arguments
    ReadBack,          \* those that read before and after the write
    Checked,           \* those of them that read and check something else, too
    Confirmed,         \* those whose answer must report success
    Answers(_),        \* Answers(op): the answers there are to op
    Confirms(_, _),    \* Confirms(op, answer): the client takes it for success
    ReportsDone(_, _), \* ReportsDone(op, answer): the router means success by it
    Valid(_),          \* Valid(op): the arguments are accepted
    Admissible(_, _),  \* Admissible(op, cfg): the check passes
    Same(_, _),        \* Same(op, cfg): nothing to write
    Applied(_, _),     \* Applied(op, cfg): cfg once the write takes effect
    Met(_, _),         \* Met(op, actual): the read-back is as wanted
    Asked(_, _),       \* Asked(op, cfg): cfg is what the caller asked for
    Frame(_, _),       \* Frame(op, cfg): the part of cfg op does not ask for
    MaxCalls,          \* bound: operations per client
    None               \* Python's None

ASSUME CallsAssumption == MaxCalls \in Nat
ASSUME InitialAssumption == Initial \subseteq Configs /\ None \notin Configs
ASSUME OpsAssumption ==
    /\ Checked \subseteq ReadBack /\ ReadBack \subseteq Ops
    /\ Confirmed \subseteq Ops \ ReadBack /\ None \notin Ops
VARIABLES
    config,   \* what the router holds
    owed,     \* writes the router accepted and has not applied
    applied,  \* history: the calls whose write has taken effect
    held,     \* history: held[c]: what the router has held since the operation
              \*   of c began or, once it has written, since it wrote
    pc,       \* pc[c]: where the running operation of c is, or "idle"
    calls,    \* calls[c]: operations c has begun
    op,       \* op[c]: the running or the last operation
    got,      \* got[c]: the value read before the write
    before,   \* history: before[c]: what the router held when c wrote
    outcome,  \* outcome[c]: how the last operation ended
    result    \* result[c]: what an operation that reads back returned

router_vars == <<config, owed, applied>>
vars == <<router_vars, held, pc, calls, op, got, before, outcome, result>>

\* "failed": an exception before the write; "unverified": an exception after it.
Outcomes == {"none", "returned", "failed", "unverified"}

Write == [client: Clients, call: 1 .. MaxCalls, op: Ops, before: Configs]

TheWrite(c) ==
    [client |-> c, call |-> calls[c], op |-> op[c], before |-> before'[c]]

---------------------------------------------------------------------------
(* The operation                                                           *)

\* The running operation ends with outcome o and value v.
End(c, o, v) ==
    /\ pc' = [pc EXCEPT ![c] = "idle"]
    /\ outcome' = [outcome EXCEPT ![c] = o]
    /\ result' = [result EXCEPT ![c] = v]
    /\ got' = [got EXCEPT ![c] = None]
    /\ held' = [held EXCEPT ![c] = {}]
    /\ UNCHANGED <<router_vars, calls, op, before>>

Goto(c, place) ==
    /\ pc' = [pc EXCEPT ![c] = place]
    /\ UNCHANGED <<router_vars, held, calls, op, before, outcome, result>>

begin(c, o) ==
    /\ pc[c] = "idle"
    /\ calls[c] < MaxCalls
    /\ pc' = [pc EXCEPT ![c] = "asked"]
    /\ calls' = [calls EXCEPT ![c] = calls[c] + 1]
    /\ op' = [op EXCEPT ![c] = o]
    /\ before' = [before EXCEPT ![c] = None]
    /\ outcome' = [outcome EXCEPT ![c] = "none"]
    /\ result' = [result EXCEPT ![c] = None]
    /\ held' = [held EXCEPT ![c] = {config}]
    /\ UNCHANGED <<router_vars, got>>

\* A ValueError or TypeError of the argument checks.
reject(c) ==
    /\ pc[c] = "asked"
    /\ ~Valid(op[c])
    /\ End(c, "failed", None)

\* A read before the write raises to the caller.
read_fails(c) ==
    /\ \/ pc[c] = "asked" /\ Valid(op[c]) /\ op[c] \in ReadBack
       \/ pc[c] = "check"
    /\ End(c, "failed", None)

\* Mutant of current_read: what must be looked up is written first.
writes_before_check(c) ==
    /\ pc[c] = "asked"
    /\ Valid(op[c])
    /\ op[c] \in Checked
    /\ before' = [before EXCEPT ![c] = config]
    /\ owed' = owed \cup {TheWrite(c)}
    /\ got' = [got EXCEPT ![c] = config]
    /\ pc' = [pc EXCEPT ![c] = "check"]
    /\ UNCHANGED <<config, applied, held, calls, op, outcome, result>>

\* The current value; if it is the wanted one, nothing is written.
current_read(c) ==
    /\ pc[c] = "asked"
    /\ Valid(op[c])
    /\ op[c] \in ReadBack
    /\ \/ /\ op[c] \in Checked
          /\ got' = [got EXCEPT ![c] = config]
          /\ Goto(c, "check")
       \/ /\ op[c] \notin Checked
          /\ Same(op[c], config)
          /\ End(c, "returned", config)
       \/ /\ op[c] \notin Checked
          /\ ~Same(op[c], config)
          /\ Goto(c, "write")
          /\ UNCHANGED got

\* What the router offers; the comparison is with the value read before it.
check_read(c) ==
    /\ pc[c] = "check"
    /\ \/ /\ ~Admissible(op[c], config)
          /\ End(c, "failed", None)
       \/ /\ Admissible(op[c], config)
          /\ Same(op[c], got[c])
          /\ End(c, "returned", got[c])
       \/ /\ Admissible(op[c], config)
          /\ ~Same(op[c], got[c])
          /\ Goto(c, "write")
          /\ got' = [got EXCEPT ![c] = None]

\* The write.  Without a session, or on its way, the router never accepts it.
send(c) ==
    /\ \/ pc[c] = "write"
       \/ pc[c] = "asked" /\ Valid(op[c]) /\ op[c] \notin ReadBack
    /\ before' = [before EXCEPT ![c] = config]
    /\ \/ UNCHANGED owed
       \/ owed' = owed \cup {TheWrite(c)}
    /\ pc' = [pc EXCEPT ![c] = "sent"]
    /\ held' = [held EXCEPT ![c] = {config}]
    /\ UNCHANGED <<config, applied, calls, op, got, outcome, result>>

\* Mutant of no_answer: a write whose answer is lost is sent again.
sends_again(c) ==
    /\ pc[c] = "sent"
    /\ owed' = owed \cup {[client |-> c, call |-> calls[c], op |-> op[c],
                           before |-> before[c]]}
    /\ UNCHANGED <<config, applied, held, pc, calls, op, got, before, outcome,
                   result>>

\* The answer is lost or unusable: that is raised, and nothing is read back.
no_answer(c) ==
    /\ pc[c] = "sent"
    /\ End(c, "unverified", None)

\* The answers that may arrive (external): one that reports the write done is not
\* given before it is.
Arriving(c) ==
    {a \in Answers(op[c]) : ReportsDone(op[c], a) => <<c, calls[c]>> \in applied}

\* The answer: the value is read back, or success reported, or nobody asks.
answered(c) ==
    /\ pc[c] = "sent"
    /\ \/ /\ op[c] \in ReadBack
          /\ Goto(c, "verify")
          /\ UNCHANGED got
       \/ /\ op[c] \in Confirmed
          /\ {a \in Arriving(c) : Confirms(op[c], a)} # {}
          /\ End(c, "returned", None)
       \/ /\ op[c] \notin ReadBack \cup Confirmed
          /\ End(c, "returned", None)

\* An answer that does not report success.
refused(c) ==
    /\ pc[c] = "sent"
    /\ op[c] \in Confirmed
    /\ {a \in Arriving(c) : ~Confirms(op[c], a)} # {}
    /\ End(c, "unverified", None)

\* The one read after the write.
read_back(c) ==
    /\ pc[c] = "verify"
    /\ \/ Met(op[c], config) /\ End(c, "returned", config)
       \/ ~Met(op[c], config) /\ End(c, "unverified", None)

read_back_fails(c) ==
    /\ pc[c] = "verify"
    /\ End(c, "unverified", None)

---------------------------------------------------------------------------
(* The router (external)                                                   *)

\* What is new takes the first free place of a book, if there is one.
Entered(book, v) ==
    LET free == {i \in DOMAIN book : book[i] = None}
    IN  [i \in DOMAIN book |->
            IF i \in free /\ \A j \in free : i <= j THEN v ELSE book[i]]

apply(w) ==
    /\ config' = Applied(w.op, config)
    /\ owed' = owed \ {w}
    /\ applied' = applied \cup {<<w.client, w.call>>}
    /\ held' = [c \in Clients |-> IF pc[c] = "idle" THEN {}
                                  ELSE held[c] \cup {config'}]
    /\ UNCHANGED <<pc, calls, op, got, before, outcome, result>>

drop(w) ==
    /\ owed' = owed \ {w}
    /\ UNCHANGED <<config, applied, held, pc, calls, op, got, before, outcome,
                   result>>

---------------------------------------------------------------------------
(* The specification                                                       *)

Init ==
    /\ config \in Initial
    /\ owed = {}
    /\ applied = {}
    /\ held = [c \in Clients |-> {}]
    /\ pc = [c \in Clients |-> "idle"]
    /\ calls = [c \in Clients |-> 0]
    /\ op = [c \in Clients |-> None]
    /\ got = [c \in Clients |-> None]
    /\ before = [c \in Clients |-> None]
    /\ outcome = [c \in Clients |-> "none"]
    /\ result = [c \in Clients |-> None]

Operation(c) ==
    \/ \E o \in Ops : begin(c, o)
    \/ reject(c)
    \/ read_fails(c)
    \/ current_read(c)
    \/ check_read(c)
    \/ send(c)
    \/ no_answer(c)
    \/ answered(c)
    \/ refused(c)
    \/ read_back(c)
    \/ read_back_fails(c)

Router == \E w \in owed : apply(w) \/ drop(w)

\* All clients are done: the bound on their operations is reached.
Done ==
    /\ \A c \in Clients : pc[c] = "idle" /\ calls[c] = MaxCalls
    /\ UNCHANGED vars

Next == (\E c \in Clients : Operation(c)) \/ Router \/ Done

Spec == Init /\ [][Next]_vars

---------------------------------------------------------------------------
(* Properties                                                              *)

\* Every variable has its type.
TypeOK ==
    /\ config \in Configs
    /\ owed \subseteq Write
    /\ applied \subseteq Clients \X (1 .. MaxCalls)
    /\ held \in [Clients -> SUBSET Configs]
    /\ pc \in [Clients -> {"idle", "asked", "check", "write", "sent", "verify"}]
    /\ calls \in [Clients -> 0 .. MaxCalls]
    /\ op \in [Clients -> Ops \cup {None}]
    /\ got \in [Clients -> Configs \cup {None}]
    /\ before \in [Clients -> Configs \cup {None}]
    /\ outcome \in [Clients -> Outcomes]
    /\ result \in [Clients -> Configs \cup {None}]

\* The write of an operation takes effect at most once, however late: losing an
\* answer is raised and never a reason to send again, which for sms.send would
\* be a second message (sms.py:343-348).
EffectAtMostOnce ==
    \A w \in owed : <<w.client, w.call>> \notin applied

\* Arguments that are refused, a failed read or a value that is there already
\* mean that nothing is written, now or later.
NoHiddenEffect ==
    \A c \in Clients :
        (outcome[c] = "failed" \/ (outcome[c] = "returned" /\ before[c] = None))
        => /\ <<c, calls[c]>> \notin applied
           /\ \A w \in owed : <<w.client, w.call>> # <<c, calls[c]>>

\* A confirmed operation that returned has taken effect, although the router may
\* answer anything, and early, as long as not all it says is success: no other
\* answer passes (sms.py:281-291, 349-359, 382-392; wifi.py:796-814).
ConfirmedHappened ==
    \A c \in Clients :
        outcome[c] = "returned" /\ op[c] \in Confirmed
        => <<c, calls[c]>> \in applied

\* f without what it says of S: for what an operation does not mention.
Except(f, S) == [k \in DOMAIN f \ S |-> f[k]]

\* The router changes only in what the operation taking effect asks for.
OnlyAskedChanges ==
    [][\A w \in owed : config' = Applied(w.op, config) /\ w \notin owed'
          => Frame(w.op, config') = Frame(w.op, config)]_vars

\* A direct write promises what a verified one does (module Setting), as far as
\* it reads back: handing over an answer promises nothing about the router.
PhaseOf(p) ==
    IF p \in {"asked", "check", "write"} THEN "asked"
    ELSE IF p \in {"sent", "verify"} THEN "written" ELSE "idle"

phase == [c \in Clients |-> PhaseOf(pc[c])]

promised ==
    [c \in Clients |-> IF outcome[c] = "returned" /\ op[c] \notin ReadBack
                       THEN "unverified" ELSE outcome[c]]

Prepared(o, snapshot) == Valid(o)

Taken(o, snapshot, cfg) == Applied(o, cfg)

Contract ==
    INSTANCE Setting WITH Preparable <- Prepared, Applied <- Taken,
                          Late <- TRUE, phase <- phase, outcome <- promised

ImplementsSetting == Contract!Spec
============================================================================
