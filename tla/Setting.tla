------------------------------ MODULE Setting ------------------------------
(***************************************************************************)
(* What the verified write of a setting promises its caller, without the   *)
(* polls, the sessions and the answers that keep the promise.              *)
(*                                                                         *)
(* An operation changes the router by at most one write, built from what   *)
(* the router held at some moment of the operation.  It returns only if    *)
(* the router was as asked at some moment of the operation, after its      *)
(* write if it wrote, and returns what the router held then.  Raising      *)
(* before the write promises that there is none; raising after it promises *)
(* nothing: the write may still take effect, once.                         *)
(***************************************************************************)
EXTENDS Integers, FiniteSets

CONSTANTS Clients, Configs, Initial, Ops, Preparable(_, _), Applied(_, _, _),
          Asked(_, _), MaxCalls, Late, None

VARIABLES config, owed, applied, held, phase, calls, op, before, outcome, result

router_vars == <<config, owed, applied>>
caller_vars == <<phase, calls, op, before, outcome, result>>
vars == <<router_vars, held, caller_vars>>

Init ==
    /\ config \in Initial
    /\ owed = {}
    /\ applied = {}
    /\ held = [c \in Clients |-> {}]
    /\ phase = [c \in Clients |-> "idle"]
    /\ calls = [c \in Clients |-> 0]
    /\ op = [c \in Clients |-> None]
    /\ before = [c \in Clients |-> None]
    /\ outcome = [c \in Clients |-> "none"]
    /\ result = [c \in Clients |-> None]

Ask(c, o) ==
    /\ phase[c] = "idle"
    /\ calls[c] < MaxCalls
    /\ calls' = [calls EXCEPT ![c] = calls[c] + 1]
    /\ op' = [op EXCEPT ![c] = o]
    /\ before' = [before EXCEPT ![c] = None]
    /\ phase' = [phase EXCEPT ![c] = "asked"]
    /\ held' = [held EXCEPT ![c] = {config}]
    /\ outcome' = [outcome EXCEPT ![c] = "none"]
    /\ result' = [result EXCEPT ![c] = None]
    /\ UNCHANGED router_vars

\* The one write of the operation, accepted by the router or lost.
Issue(c) ==
    /\ phase[c] = "asked"
    /\ \E snapshot \in held[c] :
          /\ Preparable(op[c], snapshot)
          /\ before' = [before EXCEPT ![c] = snapshot]
          /\ \/ UNCHANGED owed
             \/ owed' = owed \cup {[client |-> c, call |-> calls[c],
                                    op |-> op[c], before |-> snapshot]}
    /\ phase' = [phase EXCEPT ![c] = "written"]
    /\ held' = [held EXCEPT ![c] = {config}]
    /\ UNCHANGED <<config, applied, calls, op, outcome, result>>

Finish(c, o, v) ==
    /\ phase' = [phase EXCEPT ![c] = "idle"]
    /\ held' = [held EXCEPT ![c] = {}]
    /\ outcome' = [outcome EXCEPT ![c] = o]
    /\ result' = [result EXCEPT ![c] = v]
    /\ owed' = IF Late THEN owed ELSE {w \in owed : w.client # c}
    /\ UNCHANGED <<config, applied, calls, op, before>>

Return(c) ==
    /\ phase[c] # "idle"
    /\ \E v \in held[c] : Asked(op[c], v) /\ Finish(c, "returned", v)

Raise(c) ==
    \/ phase[c] = "asked" /\ Finish(c, "failed", None)
    \/ phase[c] = "written" /\ Finish(c, "unverified", None)

TakeEffect(w) ==
    /\ config' = Applied(w.op, w.before, config)
    /\ owed' = owed \ {w}
    /\ applied' = applied \cup {<<w.client, w.call>>}
    /\ held' = [c \in Clients |-> IF phase[c] = "idle" THEN {}
                                  ELSE held[c] \cup {config'}]
    /\ UNCHANGED caller_vars

Forget(w) ==
    /\ owed' = owed \ {w}
    /\ UNCHANGED <<config, applied, held, caller_vars>>

Next ==
    \/ \E c \in Clients :
          (\E o \in Ops : Ask(c, o)) \/ Issue(c) \/ Return(c) \/ Raise(c)
    \/ \E w \in owed : TakeEffect(w) \/ Forget(w)

Spec == Init /\ [][Next]_vars
============================================================================
