-------------------------------- MODULE Vpn --------------------------------
(***************************************************************************)
(* The VPN client profiles of the namespace vpn: a table of profiles kept  *)
(* by the router under indices that the router chooses, a switch and an    *)
(* active index.  Every operation reads the table, writes without looking  *)
(* at the answer, and reads the table back once.  A write whose answer is  *)
(* lost raises at once; it has taken effect, or never does, or does so     *)
(* later, in the middle of what the clients do then.                       *)
(*                                                                         *)
(* add_profile learns the index of its profile by comparing the tables     *)
(* before and after, and clients work at the same time: the question is    *)
(* whose profile it returns.  A profile is its public fields; secrets are  *)
(* neither compared nor modelled.  A table that cannot be parsed is a read *)
(* that fails.                                                             *)
(***************************************************************************)
EXTENDS Integers, FiniteSets

CONSTANTS
    Clients,
    Indices,     \* the indices the router gives out
    Public,      \* [Clients -> set of public fields]: what a client writes
    MaxCalls,    \* bound: operations of a client
    Lossy,       \* may an exchange fail?
    MaxLate,     \* bound: writes given up that are on their way at a time
    None         \* Python's None

AllPublic == UNION {Public[c] : c \in Clients}

\* The callers do not write the same profile.
ASSUME PublicAssumption ==
    \A c, d \in Clients : c # d => Public[c] \cap Public[d] = {}
ASSUME NoneAssumption == None \notin Indices /\ None \notin AllPublic
ASSUME BoundAssumption == MaxCalls \in Nat /\ MaxLate \in Nat
ASSUME LossyAssumption == Lossy \in BOOLEAN

VARIABLES
    \* the clients
    pc,        \* the exchange a client is about to make, or "idle"
    op,        \* its running or last operation
    before,    \* the indices it has found
    outcome,   \* how its last operation ended
    result,    \* the index of the profile add_profile has returned
    calls,     \* operations begun
    \* the router (external)
    table,     \* public fields by index; None where there is no profile
    active,    \* vpn_client_active_index
    enabled,   \* vpn_client_enable
    stray,     \* the writes that were given up and are on their way
    \* history
    made,      \* the indices at which the client's writes have put its fields
               \*   since its operation began
    late       \* has a write of the client been given up on its way?

router_vars == <<table, active, enabled>>
stray_vars == <<stray, late>>
vars == <<pc, op, before, outcome, result, calls, router_vars, stray_vars, made>>

Ops(c) ==
    [kind: {"add"}, public: Public[c]]
    \cup [kind: {"edit"}, index: Indices, public: Public[c]]
    \cup [kind: {"delete"}, index: Indices]
    \cup [kind: {"active"}, index: Indices, value: BOOLEAN]
    \cup [kind: {"enable"}, value: BOOLEAN]

Outcomes == {"none", "returned", "raised"}

Request == UNION {[client: {c}, call: 1 .. MaxCalls, op: Ops(c)] : c \in Clients}

---------------------------------------------------------------------------
(* Helpers                                                                 *)

Existing == {i \in Indices : table[i] # None}

End(c, how, index) ==
    /\ pc' = [pc EXCEPT ![c] = "idle"]
    /\ before' = [before EXCEPT ![c] = {}]
    /\ outcome' = [outcome EXCEPT ![c] = how]
    /\ result' = [result EXCEPT ![c] = index]

\* edit_profile, delete_profile and set_profile_active raise ValueError.
NoSuchProfile(o) ==
    o.kind \in {"edit", "delete", "active"} /\ o.index \notin Existing

\* set_enabled and set_profile_active return without a write.
NothingToDo(o) ==
    \/ o.kind = "enable" /\ enabled = o.value
    \/ o.kind = "active" /\ (active = o.index) = o.value

\* Mutant of Matches: any new profile is taken for the one that was added.
NewProfiles(c) == Existing \ before[c]

\* The new profiles that have the fields written.
Matches(c) == {i \in Existing \ before[c] : table[i] = op[c].public}

\* Mutant of Verified: a profile that is still there is not looked for.
NothingLookedFor(c) ==
    LET o == op[c] IN
        \/ o.kind = "delete"
        \/ o.kind = "edit" /\ o.index \in Existing /\ table[o.index] = o.public
        \/ o.kind = "active" /\ (active = o.index) = o.value
        \/ o.kind = "enable" /\ enabled = o.value

\* The read-back of every operation but add_profile.
Verified(c) ==
    LET o == op[c] IN
        \/ o.kind = "delete" /\ o.index \notin Existing
        \/ o.kind = "edit" /\ o.index \in Existing /\ table[o.index] = o.public
        \/ o.kind = "active" /\ (active = o.index) = o.value
        \/ o.kind = "enable" /\ enabled = o.value

---------------------------------------------------------------------------
(* The router's side of a write (external)                                 *)

\* A new profile gets an index that is free.
Added(c, o) ==
    /\ o.kind = "add"
    /\ \E i \in Indices \ Existing :
        /\ table' = [table EXCEPT ![i] = o.public]
        /\ made' = [made EXCEPT ![c] = @ \cup {i}]
    /\ UNCHANGED <<active, enabled>>

Edited(c, o) ==
    /\ o.kind = "edit"
    /\ o.index \in Existing
    /\ table' = [table EXCEPT ![o.index] = o.public]
    /\ made' = [made EXCEPT ![c] = @ \cup {o.index}]
    /\ UNCHANGED <<active, enabled>>

Deleted(o) ==
    /\ o.kind = "delete"
    /\ table' = [table EXCEPT ![o.index] = None]
    /\ active' \in {active, IF active = o.index THEN None ELSE active}
    /\ UNCHANGED <<enabled, made>>

Activated(o) ==
    /\ o.kind = "active"
    /\ o.index \in Existing
    /\ active' = IF o.value THEN o.index
                 ELSE IF active = o.index THEN None ELSE active
    /\ UNCHANGED <<table, enabled, made>>

Enabled(o) ==
    /\ o.kind = "enable"
    /\ enabled' = o.value
    /\ UNCHANGED <<table, active, made>>

Refused == UNCHANGED <<router_vars, made>>

Served(c, o) ==
    \/ Added(c, o)
    \/ Edited(c, o)
    \/ Deleted(o)
    \/ Activated(o)
    \/ Enabled(o)
    \/ Refused

---------------------------------------------------------------------------
(* The operations                                                          *)

begin(c, o) ==
    /\ pc[c] = "idle"
    /\ calls[c] < MaxCalls
    /\ pc' = [pc EXCEPT ![c] = "read"]
    /\ op' = [op EXCEPT ![c] = o]
    /\ outcome' = [outcome EXCEPT ![c] = "none"]
    /\ result' = [result EXCEPT ![c] = None]
    /\ calls' = [calls EXCEPT ![c] = @ + 1]
    /\ made' = [made EXCEPT ![c] = {}]
    /\ UNCHANGED <<before, router_vars, stray_vars>>

\* profiles() answers; the operation finds something to write.
profiles_read(c) ==
    /\ pc[c] = "read"
    /\ ~NoSuchProfile(op[c])
    /\ ~NothingToDo(op[c])
    /\ before' = [before EXCEPT ![c] = Existing]
    /\ pc' = [pc EXCEPT ![c] = "write"]
    /\ UNCHANGED <<op, outcome, result, calls, router_vars, stray_vars, made>>

no_such_profile(c) ==
    /\ pc[c] = "read"
    /\ NoSuchProfile(op[c])
    /\ End(c, "raised", None)
    /\ UNCHANGED <<op, calls, router_vars, stray_vars, made>>

nothing_to_do(c) ==
    /\ pc[c] = "read"
    /\ ~NoSuchProfile(op[c])
    /\ NothingToDo(op[c])
    /\ End(c, "returned", None)
    /\ UNCHANGED <<op, calls, router_vars, stray_vars, made>>

read_fails(c) ==
    /\ Lossy
    /\ pc[c] \in {"read", "verify"}
    /\ End(c, "raised", None)
    /\ UNCHANGED <<op, calls, router_vars, stray_vars, made>>

\* Whatever object the router answers with.
write_answered(c) ==
    /\ pc[c] = "write"
    /\ Served(c, op[c])
    /\ pc' = [pc EXCEPT ![c] = "verify"]
    /\ UNCHANGED <<op, before, outcome, result, calls, stray_vars>>

\* The answer is lost, or the request has not arrived and may yet.
write_lost(c) ==
    /\ Lossy
    /\ pc[c] = "write"
    /\ \/ /\ Served(c, op[c])
          /\ UNCHANGED stray_vars
       \/ /\ Cardinality(stray) < MaxLate
          /\ Refused
          /\ stray' = stray \cup {[client |-> c, call |-> calls[c], op |-> op[c]]}
          /\ late' = [late EXCEPT ![c] = TRUE]
    /\ End(c, "raised", None)
    /\ UNCHANGED <<op, calls>>

\* A write that was given up arrives, whatever its client is doing (external).
arrives(w) ==
    /\ Served(w.client, w.op)
    /\ stray' = stray \ {w}
    /\ UNCHANGED <<pc, op, before, outcome, result, calls, late>>

\* Exactly one new profile is the one that was written.
add_returns(c) ==
    /\ pc[c] = "verify"
    /\ op[c].kind = "add"
    /\ \E i \in Matches(c) : Matches(c) = {i} /\ End(c, "returned", i)
    /\ UNCHANGED <<op, calls, router_vars, stray_vars, made>>

add_unverified(c) ==
    /\ pc[c] = "verify"
    /\ op[c].kind = "add"
    /\ \A i \in Matches(c) : Matches(c) # {i}
    /\ End(c, "raised", None)
    /\ UNCHANGED <<op, calls, router_vars, stray_vars, made>>

verified(c) ==
    /\ pc[c] = "verify"
    /\ op[c].kind # "add"
    /\ End(c, IF Verified(c) THEN "returned" ELSE "raised", None)
    /\ UNCHANGED <<op, calls, router_vars, stray_vars, made>>

---------------------------------------------------------------------------
(* The specification                                                       *)

Init ==
    /\ pc = [c \in Clients |-> "idle"]
    /\ op = [c \in Clients |-> None]
    /\ before = [c \in Clients |-> {}]
    /\ outcome = [c \in Clients |-> "none"]
    /\ result = [c \in Clients |-> None]
    /\ calls = [c \in Clients |-> 0]
    /\ table \in [Indices -> AllPublic \cup {None}]
    /\ active \in Existing \cup {None}
    /\ enabled \in BOOLEAN
    /\ stray = {}
    /\ made = [c \in Clients |-> {}]
    /\ late = [c \in Clients |-> FALSE]

Step(c) ==
    \/ profiles_read(c)
    \/ no_such_profile(c)
    \/ nothing_to_do(c)
    \/ read_fails(c)
    \/ write_answered(c)
    \/ write_lost(c)
    \/ add_returns(c)
    \/ add_unverified(c)
    \/ verified(c)

Next ==
    \/ \E c \in Clients :
           \/ \E o \in Ops(c) : begin(c, o)
           \/ Step(c)
    \/ \E w \in stray : arrives(w)

Spec == Init /\ [][Next]_vars

---------------------------------------------------------------------------
(* Properties                                                              *)

\* Every variable has its type.
TypeOK ==
    /\ pc \in [Clients -> {"idle", "read", "write", "verify"}]
    /\ \A c \in Clients : op[c] \in Ops(c) \cup {None}
    /\ DOMAIN op = Clients
    /\ before \in [Clients -> SUBSET Indices]
    /\ outcome \in [Clients -> Outcomes]
    /\ result \in [Clients -> Indices \cup {None}]
    /\ calls \in [Clients -> 0 .. MaxCalls]
    /\ table \in [Indices -> AllPublic \cup {None}]
    /\ active \in Indices \cup {None}
    /\ enabled \in BOOLEAN
    /\ stray \subseteq Request
    /\ made \in [Clients -> SUBSET Indices]
    /\ late \in [Clients -> BOOLEAN]

\* The profile that add_profile returns is one that a write of its client has made
\* since the operation began, however the other clients add, edit and delete
\* between its two reads, and the router gives out their indices again
\* (vpn.py:131-151).  It is the one of the operation's own write, but where an
\* earlier write was given up and arrived late: an add of the same profile, or an
\* edit to the same fields, cannot be told from it.
OwnProfileReturned ==
    \A c \in Clients : result[c] # None =>
        /\ result[c] \in made[c]
        /\ ~late[c] => made[c] = {result[c]}

\* The others have begun nothing so far, and nothing of its own is late.
Alone(c) == ~late[c] /\ \A d \in Clients \ {c} : calls[d] = 0

\* An operation that returned has left the router as asked as long as nobody else
\* works on it, whatever the router made of its write: the unread answer hides
\* nothing (vpn.py:97-104, 195-208, 230-236, 273-283).
ReturnedHolds ==
    \A c \in Clients :
        outcome[c] = "returned" /\ Alone(c) =>
            /\ op[c].kind = "add" => table[result[c]] = op[c].public
            /\ op[c].kind = "edit" => table[op[c].index] = op[c].public
            /\ op[c].kind = "delete" => op[c].index \notin Existing
            /\ op[c].kind = "active" => (active = op[c].index) = op[c].value
            /\ op[c].kind = "enable" => enabled = op[c].value
============================================================================
