----------------------------- MODULE VpnProofs -----------------------------
(***************************************************************************)
(* Proofs about Vpn, for every set of clients, of indices and of profiles, *)
(* provided that no two callers write the same profile.                    *)
(*                                                                         *)
(* add_profile cannot tell its own write from those of others; what it can *)
(* tell is new from old, and its fields from other fields.  The invariant  *)
(* NewAreMine says that this is enough: from the first reading on, a       *)
(* profile with the fields of the operation at an index that was free then *)
(* has been written by the client itself.  And unless a write of it was    *)
(* given up, what it has written is the one write of the operation.        *)
(***************************************************************************)
EXTENDS Vpn, TLAPS

\* A running operation is one of its client's and has no result; what it has made
\* is no more than one profile unless an earlier write is late.
Running ==
    \A c \in Clients :
        /\ pc[c] # "idle" => op[c] \in Ops(c) /\ result[c] = None /\ calls[c] # 0
        /\ pc[c] \in {"read", "write"} => late[c] \/ made[c] = {}
        /\ late[c] \/ \E i : made[c] \subseteq {i}

\* A write on its way is one of its client's that was given up.
StraysKnown == \A w \in stray : late[w.client] /\ calls[w.client] # 0

NewAreMine ==
    \A c \in Clients :
        pc[c] \in {"write", "verify"} /\ op[c].kind = "add" =>
            \A i \in Indices \ before[c] : table[i] \in Public[c] => i \in made[c]

IInv == TypeOK /\ Running /\ StraysKnown /\ NewAreMine /\ OwnProfileReturned

---------------------------------------------------------------------------

LEMMA InitInv == Init => IInv
BY BoundAssumption
DEF Init, IInv, TypeOK, Existing, Running, StraysKnown, NewAreMine, OwnProfileReturned, Outcomes

\* The fields a client writes are among all of them, and are a profile.
LEMMA Written ==
    ASSUME NEW c \in Clients, NEW o \in Ops(c), o.kind \in {"add", "edit"}
    PROVE  /\ o.public \in Public[c]
           /\ o.public \in AllPublic
           /\ o.public # None
           /\ o.kind = "edit" => o.index \in Indices
<1>1. o.public \in Public[c] /\ (o.kind = "edit" => o.index \in Indices)
    BY DEF Ops
<1> QED
    BY <1>1, NoneAssumption DEF AllPublic

\* What a write does to the table: it stays as it is, or the fields of the client
\* appear at one index, or a profile goes.
LEMMA WriteEffect ==
    ASSUME TypeOK, NEW c \in Clients, NEW o \in Ops(c), Served(c, o)
    PROVE  /\ table' \in [Indices -> AllPublic \cup {None}]
           /\ active' \in Indices \cup {None}
           /\ enabled' \in BOOLEAN
           /\ made' \in [Clients -> SUBSET Indices]
           /\ \A d \in Clients \ {c} : made'[d] = made[d]
           /\ made[c] \subseteq made'[c]
           /\ \E i : made'[c] \subseteq made[c] \cup {i}
           /\ \A i \in Indices : table'[i] # table[i] =>
                 \/ table'[i] = None
                 \/ table'[i] \in Public[c] /\ i \in made'[c]
<1>1. /\ table \in [Indices -> AllPublic \cup {None}]
      /\ active \in Indices \cup {None}
      /\ enabled \in BOOLEAN
      /\ made \in [Clients -> SUBSET Indices]
    BY DEF TypeOK
<1>2. ASSUME NEW i \in Indices, o.kind \in {"add", "edit"},
             table' = [table EXCEPT ![i] = o.public],
             made' = [made EXCEPT ![c] = @ \cup {i}], UNCHANGED <<active, enabled>>
      PROVE  /\ table' \in [Indices -> AllPublic \cup {None}]
             /\ made' \in [Clients -> SUBSET Indices]
             /\ \A d \in Clients \ {c} : made'[d] = made[d]
             /\ made'[c] = made[c] \cup {i}
             /\ \A k \in Indices : table'[k] # table[k] =>
                   table'[k] \in Public[c] /\ k \in made'[c]
    <2>1. o.public \in Public[c] /\ o.public \in AllPublic
        BY <1>2, Written
    <2> QED
        BY <1>1, <1>2, <2>1
<1>3. CASE Added(c, o)
    <2> PICK i \in Indices \ Existing :
            /\ table' = [table EXCEPT ![i] = o.public]
            /\ made' = [made EXCEPT ![c] = @ \cup {i}]
        BY <1>3 DEF Added
    <2>1. o.kind = "add" /\ UNCHANGED <<active, enabled>>
        BY <1>3 DEF Added
    <2> QED
        BY <1>1, <1>2, <2>1
<1>4. CASE Edited(c, o)
    <2>1. /\ o.kind = "edit" /\ o.index \in Indices
          /\ table' = [table EXCEPT ![o.index] = o.public]
          /\ made' = [made EXCEPT ![c] = @ \cup {o.index}]
          /\ UNCHANGED <<active, enabled>>
        BY <1>4 DEF Edited, Existing
    <2> QED
        BY <1>1, <1>2, <2>1
<1>5. CASE Deleted(o)
    <2>1. o.index \in Indices
        BY <1>5 DEF Deleted, Ops
    <2> QED
        BY <1>1, <1>5, <2>1 DEF Deleted
<1>6. CASE Activated(o)
    <2>1. o.index \in Indices
        BY <1>6 DEF Activated, Existing
    <2> QED
        BY <1>1, <1>6, <2>1 DEF Activated
<1>7. CASE Enabled(o)
    <2>1. o.value \in BOOLEAN
        BY <1>7 DEF Enabled, Ops
    <2> QED
        BY <1>1, <1>7, <2>1 DEF Enabled
<1>8. CASE Refused
    BY <1>1, <1>8 DEF Refused, router_vars
<1> QED
    BY <1>3, <1>4, <1>5, <1>6, <1>7, <1>8 DEF Served

\* No write disturbs what the clients that have read the table know, in time or not.
LEMMA WriteKeepsNew ==
    ASSUME IInv, NEW c \in Clients, NEW o \in Ops(c), Served(c, o), UNCHANGED op,
           \A d \in Clients : pc'[d] \in {"write", "verify"} =>
               pc[d] \in {"write", "verify"} /\ before'[d] = before[d]
    PROVE  NewAreMine'
<1> SUFFICES ASSUME NEW d \in Clients, pc'[d] \in {"write", "verify"}, op[d].kind = "add",
                    NEW i \in Indices \ before'[d], table'[i] \in Public[d]
             PROVE  i \in made'[d]
    BY DEF NewAreMine
<1>1. table[i] \in Public[d] => i \in made[d]
    BY DEF IInv, NewAreMine
<1>2. /\ \A e \in Clients \ {c} : made'[e] = made[e]
      /\ made[c] \subseteq made'[c]
      /\ table'[i] # table[i] => \/ table'[i] = None
                                 \/ table'[i] \in Public[c] /\ i \in made'[c]
    <2>1. TypeOK
        BY DEF IInv
    <2> QED
        BY <2>1, WriteEffect
<1>3. table'[i] # None
    BY NoneAssumption DEF AllPublic
<1>4. CASE table'[i] = table[i]
    BY <1>1, <1>2, <1>4
<1>5. CASE table'[i] # table[i]
    <2>1. d = c
        BY <1>2, <1>3, <1>5, PublicAssumption
    <2> QED
        BY <1>2, <1>3, <1>5, <2>1
<1> QED
    BY <1>4, <1>5

LEMMA StepInv == IInv /\ [Next]_vars => IInv'
<1> SUFFICES ASSUME IInv, [Next]_vars PROVE IInv'
    OBVIOUS
<1> USE BoundAssumption
<1>1. CASE UNCHANGED vars
    BY <1>1 DEF vars, router_vars, stray_vars, IInv, TypeOK, Running, StraysKnown, NewAreMine,
                OwnProfileReturned
<1>2. ASSUME NEW c \in Clients, NEW o \in Ops(c), begin(c, o) PROVE IInv'
    <2>1. TypeOK'
        BY <1>2 DEF begin, router_vars, stray_vars, IInv, TypeOK, Outcomes
    <2>2. Running'
        <3>1. calls'[c] # 0
            BY <1>2 DEF begin, IInv, TypeOK
        <3> QED
            BY <1>2, <3>1 DEF begin, stray_vars, IInv, TypeOK, Running
    <2>3. StraysKnown'
        <3>1. \A w \in stray : w.client \in Clients
            BY DEF IInv, TypeOK, Request
        <3>2. \A d \in Clients : calls[d] # 0 => calls'[d] # 0
            BY <1>2 DEF begin, IInv, TypeOK
        <3> QED
            BY <1>2, <3>1, <3>2 DEF begin, stray_vars, IInv, StraysKnown
    <2>4. NewAreMine'
        BY <1>2 DEF begin, router_vars, IInv, TypeOK, NewAreMine
    <2>5. OwnProfileReturned'
        BY <1>2 DEF begin, stray_vars, IInv, TypeOK, OwnProfileReturned
    <2> QED
        BY <2>1, <2>2, <2>3, <2>4, <2>5 DEF IInv
<1>3. ASSUME NEW c \in Clients, profiles_read(c) PROVE IInv'
    <2>1. TypeOK'
        BY <1>3 DEF profiles_read, router_vars, stray_vars, IInv, TypeOK, Existing
    <2>2. Running' /\ StraysKnown' /\ OwnProfileReturned'
        BY <1>3 DEF profiles_read, stray_vars, IInv, TypeOK, Running, StraysKnown, OwnProfileReturned
    <2>3. NewAreMine'
        <3> SUFFICES ASSUME NEW d \in Clients, pc'[d] \in {"write", "verify"},
                            op[d].kind = "add",
                            NEW i \in Indices \ before'[d], table[i] \in Public[d]
                     PROVE  i \in made[d]
            BY <1>3 DEF profiles_read, router_vars, NewAreMine
        <3>1. CASE d = c
            <4>1. table[i] = None
                BY <1>3, <3>1 DEF profiles_read, Existing, IInv, TypeOK
            <4> QED
                BY <4>1, NoneAssumption DEF AllPublic
        <3>2. CASE d # c
            BY <1>3, <3>2 DEF profiles_read, IInv, TypeOK, NewAreMine
        <3> QED
            BY <3>1, <3>2
    <2> QED
        BY <2>1, <2>2, <2>3 DEF IInv
<1>4. ASSUME NEW c \in Clients,
             no_such_profile(c) \/ nothing_to_do(c) \/ read_fails(c) \/ add_unverified(c)
             \/ verified(c)
      PROVE  IInv'
    <2>1. PICK how \in {"returned", "raised"} : End(c, how, None)
        BY <1>4 DEF no_such_profile, nothing_to_do, read_fails, add_unverified, verified
    <2>2. UNCHANGED <<op, calls, table, active, enabled, stray, late, made>>
        BY <1>4 DEF no_such_profile, nothing_to_do, read_fails, add_unverified, verified,
                    router_vars, stray_vars
    <2>3. TypeOK'
        BY <2>1, <2>2 DEF End, IInv, TypeOK, Outcomes
    <2>4. Running' /\ StraysKnown' /\ OwnProfileReturned'
        BY <2>1, <2>2 DEF End, IInv, TypeOK, Running, StraysKnown, OwnProfileReturned
    <2>5. NewAreMine'
        BY <2>1, <2>2 DEF End, IInv, TypeOK, NewAreMine
    <2> QED
        BY <2>3, <2>4, <2>5 DEF IInv
<1>5. ASSUME NEW c \in Clients, write_answered(c) PROVE IInv'
    <2>1. /\ pc[c] = "write" /\ Served(c, op[c])
          /\ pc' = [pc EXCEPT ![c] = "verify"]
          /\ UNCHANGED <<op, before, outcome, result, calls, stray, late>>
        BY <1>5 DEF write_answered, stray_vars
    <2>2. op[c] \in Ops(c) /\ (late[c] \/ made[c] = {}) /\ result[c] = None
        BY <2>1 DEF IInv, Running
    <2>3. /\ table' \in [Indices -> AllPublic \cup {None}]
          /\ active' \in Indices \cup {None}
          /\ enabled' \in BOOLEAN
          /\ made' \in [Clients -> SUBSET Indices]
          /\ \A d \in Clients \ {c} : made'[d] = made[d]
          /\ \E i : made'[c] \subseteq made[c] \cup {i}
        BY <2>1, <2>2, WriteEffect DEF IInv
    <2>4. NewAreMine'
        BY <2>1, <2>2, WriteKeepsNew DEF IInv, TypeOK
    <2>5. TypeOK'
        BY <2>1, <2>3 DEF IInv, TypeOK
    <2>6. late[c] \/ \E i : made'[c] \subseteq {i}
        BY <2>2, <2>3
    <2>7. Running'
        BY <2>1, <2>3, <2>6 DEF IInv, TypeOK, Running
    <2>8. StraysKnown'
        BY <2>1 DEF IInv, StraysKnown
    <2>9. OwnProfileReturned'
        BY <2>1, <2>2, <2>3 DEF IInv, OwnProfileReturned
    <2> QED
        BY <2>4, <2>5, <2>7, <2>8, <2>9 DEF IInv
<1>6. ASSUME NEW c \in Clients, write_lost(c) PROVE IInv'
    <2>1. pc[c] = "write" /\ Served(c, op[c]) /\ UNCHANGED <<op, calls>>
          /\ End(c, "raised", None)
        <3>1. Refused => Served(c, op[c])
            BY DEF Served
        <3> QED
            BY <1>6, <3>1 DEF write_lost
    <2>2. /\ op[c] \in Ops(c) /\ (late[c] \/ made[c] = {})
          /\ calls[c] \in 1 .. MaxCalls
        BY <2>1 DEF IInv, TypeOK, Running
    <2>3. /\ stray' \subseteq stray \cup {[client |-> c, call |-> calls[c], op |-> op[c]]}
          /\ \/ UNCHANGED <<stray, late>>
             \/ late' = [late EXCEPT ![c] = TRUE]
        BY <1>6 DEF write_lost, stray_vars
    <2>4. /\ table' \in [Indices -> AllPublic \cup {None}]
          /\ active' \in Indices \cup {None}
          /\ enabled' \in BOOLEAN
          /\ made' \in [Clients -> SUBSET Indices]
          /\ \A d \in Clients \ {c} : made'[d] = made[d]
          /\ \E i : made'[c] \subseteq made[c] \cup {i}
        BY <2>1, <2>2, WriteEffect DEF IInv
    <2>5. NewAreMine'
        BY <2>1, <2>2, WriteKeepsNew DEF End, IInv, TypeOK
    <2>6. [client |-> c, call |-> calls[c], op |-> op[c]] \in Request
        BY <2>2 DEF Request
    <2>7. TypeOK'
        <3>1. stray' \subseteq Request /\ late' \in [Clients -> BOOLEAN]
            BY <2>3, <2>6 DEF IInv, TypeOK
        <3> QED
            BY <2>1, <2>4, <3>1 DEF End, IInv, TypeOK, Outcomes
    <2>8. late[c] \/ \E i : made'[c] \subseteq {i}
        BY <2>2, <2>4
    <2>9. \A d \in Clients : (late[d] => late'[d]) /\ (d # c => late'[d] = late[d])
        BY <2>3 DEF IInv, TypeOK
    <2>10. Running'
        BY <2>1, <2>4, <2>8, <2>9 DEF End, IInv, TypeOK, Running
    <2>11. StraysKnown'
        BY <2>1, <2>2, <2>3, <2>9 DEF IInv, TypeOK, StraysKnown, Request
    <2>12. OwnProfileReturned'
        BY <2>1, <2>4, <2>9 DEF End, IInv, TypeOK, OwnProfileReturned
    <2> QED
        BY <2>5, <2>7, <2>10, <2>11, <2>12 DEF IInv
<1>7. ASSUME NEW c \in Clients, add_returns(c) PROVE IInv'
    <2>1. PICK i \in Matches(c) : End(c, "returned", i)
        BY <1>7 DEF add_returns
    <2>2. i \in Indices
        BY DEF Matches, Existing
    <2>3. i \in made[c]
        <3>1. op[c].public \in Public[c]
            BY <1>7, Written DEF add_returns, IInv, Running
        <3> QED
            BY <1>7, <3>1 DEF add_returns, Matches, Existing, IInv, NewAreMine
    <2>4. late[c] \/ made[c] = {i}
        BY <2>3 DEF IInv, Running
    <2>5. UNCHANGED <<op, calls, table, active, enabled, stray, late, made>>
        BY <1>7 DEF add_returns, router_vars, stray_vars
    <2>6. TypeOK'
        BY <2>1, <2>2, <2>5 DEF End, IInv, TypeOK, Outcomes
    <2>7. Running' /\ StraysKnown'
        BY <2>1, <2>5 DEF End, IInv, TypeOK, Running, StraysKnown
    <2>8. OwnProfileReturned'
        BY <2>1, <2>3, <2>4, <2>5 DEF End, IInv, TypeOK, OwnProfileReturned
    <2>9. NewAreMine'
        BY <2>1, <2>5 DEF End, IInv, TypeOK, NewAreMine
    <2> QED
        BY <2>6, <2>7, <2>8, <2>9 DEF IInv
<1>8. ASSUME NEW w \in stray, arrives(w) PROVE IInv'
    <2>1. /\ w.client \in Clients /\ w.op \in Ops(w.client) /\ late[w.client]
        BY DEF IInv, TypeOK, StraysKnown, Request
    <2>2. /\ Served(w.client, w.op) /\ stray' = stray \ {w}
          /\ UNCHANGED <<pc, op, before, outcome, result, calls, late>>
        BY <1>8 DEF arrives
    <2>3. /\ table' \in [Indices -> AllPublic \cup {None}]
          /\ active' \in Indices \cup {None}
          /\ enabled' \in BOOLEAN
          /\ made' \in [Clients -> SUBSET Indices]
          /\ \A d \in Clients \ {w.client} : made'[d] = made[d]
          /\ made[w.client] \subseteq made'[w.client]
        BY <2>1, <2>2, WriteEffect DEF IInv
    <2>4. NewAreMine'
        BY <2>1, <2>2, WriteKeepsNew
    <2>5. TypeOK'
        BY <2>2, <2>3 DEF IInv, TypeOK
    <2>6. Running' /\ StraysKnown'
        BY <2>1, <2>2, <2>3 DEF IInv, Running, StraysKnown
    <2>7. OwnProfileReturned'
        BY <2>1, <2>2, <2>3 DEF IInv, OwnProfileReturned
    <2> QED
        BY <2>4, <2>5, <2>6, <2>7 DEF IInv
<1> QED
    BY <1>1, <1>2, <1>3, <1>4, <1>5, <1>6, <1>7, <1>8 DEF Next, Step

\* A running operation has not ended.
Unended == \A c \in Clients : pc[c] # "idle" => outcome[c] = "none"

HInv == IInv /\ Unended /\ ReturnedHolds

\* A step of one client: what the others promised is void, for they are not alone
\* any more, and it keeps its own promise, or makes one that holds.
LEMMA OwnPromise ==
    ASSUME HInv, NEW c \in Clients, calls'[c] # 0,
           UNCHANGED op \/ outcome'[c] # "returned",
           \A d \in Clients \ {c} : pc'[d] = pc[d] /\ calls'[d] = calls[d]
                                    /\ outcome'[d] = outcome[d],
           pc'[c] # "idle" => outcome'[c] = "none",
           outcome'[c] = "returned" =>
               /\ op[c].kind = "add" => table'[result'[c]] = op[c].public
               /\ op[c].kind = "edit" => table'[op[c].index] = op[c].public
               /\ op[c].kind = "delete" => op[c].index \notin Existing'
               /\ op[c].kind = "active" => (active' = op[c].index) = op[c].value
               /\ op[c].kind = "enable" => enabled' = op[c].value
    PROVE  Unended' /\ ReturnedHolds'
<1>1. Unended'
    BY DEF HInv, Unended
<1>2. ASSUME NEW d \in Clients, outcome'[d] = "returned", Alone(d)' PROVE d = c
    BY <1>2 DEF Alone
<1>3. ReturnedHolds'
    BY <1>2, Zenon DEF ReturnedHolds
<1> QED
    BY <1>1, <1>3

LEMMA StepReturned == HInv /\ [Next]_vars => HInv'
<1> SUFFICES ASSUME HInv, [Next]_vars PROVE HInv'
    OBVIOUS
<1>1. IInv'
    BY StepInv DEF HInv
<1>2. TypeOK
    BY DEF HInv, IInv
<1>3. CASE UNCHANGED vars
    BY <1>1, <1>3 DEF vars, router_vars, stray_vars, HInv, Unended, ReturnedHolds, Alone, Existing
<1>4. ASSUME NEW w \in stray, arrives(w) PROVE HInv'
    <2>1. /\ w.client \in Clients /\ late[w.client] /\ calls[w.client] # 0
          /\ UNCHANGED <<pc, op, outcome, calls, late>>
        BY <1>4 DEF arrives, HInv, IInv, TypeOK, StraysKnown, Request
    <2>2. \A c \in Clients : ~Alone(c)'
        BY <2>1 DEF Alone
    <2> QED
        BY <1>1, <2>1, <2>2 DEF HInv, Unended, ReturnedHolds
<1>5. ASSUME NEW c \in Clients, (\E o \in Ops(c) : begin(c, o)) \/ Step(c) PROVE HInv'
    <2>1. CASE \E o \in Ops(c) : begin(c, o)
        <3>1. /\ pc' = [pc EXCEPT ![c] = "read"]
              /\ outcome' = [outcome EXCEPT ![c] = "none"]
              /\ calls' = [calls EXCEPT ![c] = @ + 1]
            BY <2>1 DEF begin
        <3>2. calls'[c] # 0
            BY <1>2, <3>1, BoundAssumption DEF TypeOK
        <3> QED
            BY <1>1, <1>2, <3>1, <3>2, OwnPromise DEF TypeOK, HInv
    <2>2. CASE Step(c)
        <3>1. pc[c] # "idle" /\ UNCHANGED <<op, calls>>
            BY <2>2 DEF Step, profiles_read, no_such_profile, nothing_to_do, read_fails,
                        write_answered, write_lost, add_returns, add_unverified, verified
        <3>2. calls'[c] # 0 /\ outcome[c] = "none"
            BY <3>1 DEF HInv, IInv, Running, Unended
        <3>3. CASE profiles_read(c) \/ write_answered(c)
            <4>1. UNCHANGED outcome /\ \E next \in {"write", "verify"} : pc' = [pc EXCEPT ![c] = next]
                BY <3>3 DEF profiles_read, write_answered
            <4> QED
                BY <1>1, <1>2, <3>1, <3>2, <4>1, OwnPromise DEF TypeOK, HInv
        <3>4. CASE no_such_profile(c) \/ read_fails(c) \/ write_lost(c) \/ add_unverified(c)
            <4>1. End(c, "raised", None)
                BY <3>4 DEF no_such_profile, read_fails, write_lost, add_unverified
            <4> QED
                BY <1>1, <1>2, <3>1, <3>2, <4>1, OwnPromise DEF End, TypeOK, HInv
        <3>5. CASE nothing_to_do(c)
            <4>1. End(c, "returned", None) /\ NothingToDo(op[c]) /\ UNCHANGED router_vars
                BY <3>5 DEF nothing_to_do
            <4>2. /\ op[c].kind \in {"enable", "active"}
                  /\ op[c].kind = "active" => (active' = op[c].index) = op[c].value
                  /\ op[c].kind = "enable" => enabled' = op[c].value
                BY <4>1 DEF NothingToDo, router_vars
            <4> QED
                BY <1>1, <1>2, <3>1, <3>2, <4>1, <4>2, OwnPromise DEF End, TypeOK, HInv
        <3>6. CASE add_returns(c)
            <4>1. PICK i \in Matches(c) : End(c, "returned", i)
                BY <3>6 DEF add_returns
            <4>2. op[c].kind = "add" /\ UNCHANGED router_vars
                BY <3>6 DEF add_returns
            <4>3. result'[c] = i
                BY <1>2, <4>1 DEF End, TypeOK
            <4>4. table'[result'[c]] = op[c].public
                BY <4>2, <4>3 DEF Matches, router_vars
            <4> QED
                BY <1>1, <1>2, <3>1, <3>2, <4>1, <4>2, <4>4, OwnPromise DEF End, TypeOK, HInv
        <3>7. CASE verified(c)
            <4>1. op[c].kind # "add" /\ UNCHANGED router_vars
                  /\ End(c, IF Verified(c) THEN "returned" ELSE "raised", None)
                BY <3>7 DEF verified
            <4>2. CASE ~Verified(c)
                BY <1>1, <1>2, <3>1, <3>2, <4>1, <4>2, OwnPromise DEF End, TypeOK, HInv
            <4>3. CASE Verified(c)
                <5>1. /\ op[c].kind = "edit" => table'[op[c].index] = op[c].public
                      /\ op[c].kind = "delete" => op[c].index \notin Existing'
                      /\ op[c].kind = "active" => (active' = op[c].index) = op[c].value
                      /\ op[c].kind = "enable" => enabled' = op[c].value
                    BY <4>1, <4>3 DEF Verified, Existing, router_vars
                <5> QED
                    BY <1>1, <1>2, <3>1, <3>2, <4>1, <4>3, <5>1, OwnPromise
                    DEF End, TypeOK, HInv
            <4> QED
                BY <4>2, <4>3
        <3> QED
            BY <2>2, <3>3, <3>4, <3>5, <3>6, <3>7 DEF Step
    <2> QED
        BY <1>5, <2>1, <2>2
<1> QED
    BY <1>3, <1>4, <1>5 DEF Next

\* Every variable keeps its type.
THEOREM TypeCorrect == Spec => []TypeOK
<1>1. IInv => TypeOK
    BY DEF IInv
<1> QED
    BY <1>1, InitInv, StepInv, PTL DEF Spec

\* add_profile returns a profile that its client has written since it began, its
\* own unless an earlier write is late, whatever the other clients do meanwhile
\* (vpn.py:131-151).
THEOREM OwnProfile == Spec => []OwnProfileReturned
<1>1. IInv => OwnProfileReturned
    BY DEF IInv
<1> QED
    BY <1>1, InitInv, StepInv, PTL DEF Spec

\* An operation that returned has left the router as asked while nobody else has
\* begun anything and no write of its client is late, although it never looks at
\* the answer of its write (vpn.py:97-104).
THEOREM ReturnedStands == Spec => []ReturnedHolds
<1>1. Init => HInv
    BY InitInv DEF Init, HInv, Unended, ReturnedHolds
<1>2. HInv => ReturnedHolds
    BY DEF HInv
<1> QED
    BY <1>1, <1>2, StepReturned, PTL DEF Spec
============================================================================
