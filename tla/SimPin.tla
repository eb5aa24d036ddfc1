------------------------------ MODULE SimPin -------------------------------
(***************************************************************************)
(* The PIN and PUK operations of the namespace sim and their guard: before *)
(* a secret is sent, the attempts left are read, and the operation refuses *)
(* when the attempt could be the last.  The guard and the command are two  *)
(* exchanges: other clients, and commands whose answers were lost, come    *)
(* between them.                                                           *)
(*                                                                         *)
(* The SIM is external: a wrong secret costs one attempt, the right one    *)
(* gives all of them back, and a PIN without attempts is blocked until the *)
(* PUK resets it.  A secret is right or wrong; which one the caller passes *)
(* is the caller's choice.                                                 *)
(***************************************************************************)
EXTENDS Integers, FiniteSets

CONSTANTS
    Clients,
    Full,      \* [{"pin", "puk"} -> Nat]: attempts of a SIM that was not tried
    MaxCalls,  \* bound: operations of a client
    Lossy,     \* may an exchange fail?
    Late       \* may a command be served after its exchange has failed?

Secrets == {"pin", "puk"}

ASSUME ClientsAssumption == IsFiniteSet(Clients) /\ Clients # {}
ASSUME FullAssumption == Full \in [Secrets -> Nat \ {0, 1}]
ASSUME BoundAssumption == MaxCalls \in Nat
ASSUME SwitchesAssumption == Lossy \in BOOLEAN /\ Late \in BOOLEAN

VARIABLES
    \* the clients
    pc,        \* the exchange a client is about to make, or "idle"
    op,        \* its running or last operation
    outcome,   \* how its last operation ended
    calls,     \* operations begun
    \* the SIM (external)
    attempts,  \* pin_attempts and puk_attempts
    shown,     \* does get_sim_status show the attempts as numbers?
    late,      \* [client -> the secrets it has sent that are still on their way]
    \* history
    contested  \* the secrets tried while another one was past the guard, too

client_vars == <<pc, op, outcome, calls>>
vars == <<client_vars, attempts, shown, late, contested>>

\* provide_pin, enable_pin, disable_pin and change_pin send a PIN,
\* reset_pin_using_puk a PUK.
Ops == [kind: {"provide_pin", "enable_pin", "disable_pin", "change_pin"},
        secret: {"pin"}, right: BOOLEAN]
       \cup [kind: {"reset_pin_using_puk"}, secret: {"puk"}, right: BOOLEAN]

NoOp == [kind |-> "none"]

Outcomes == {"none", "returned", "raised"}

---------------------------------------------------------------------------
(* Helpers                                                                 *)

End(c, how) ==
    /\ pc' = [pc EXCEPT ![c] = "idle"]
    /\ outcome' = [outcome EXCEPT ![c] = how]

\* Mutant of Preserves: off by one, the last attempt may be used.
LastMayGo(n) == n >= 1

\* An attempt that is certain not to be the last.
Preserves(n) == n > 1

\* The clients that have a secret past the guard, to send or on its way.
Pending(s) ==
    {c \in Clients : \/ pc[c] = "command" /\ op[c].secret = s
                     \/ \E sent \in late[c] : sent.secret = s}

\* What a secret does to the SIM that receives it; it is contested if others
\* are past the guard still.
Try(secret, right) ==
    /\ attempts' =
          IF attempts[secret] = 0 THEN attempts
          ELSE IF ~right THEN [attempts EXCEPT ![secret] = @ - 1]
          ELSE [s \in Secrets |->
                  IF s = secret \/ secret = "puk" THEN Full[s] ELSE attempts[s]]
    /\ contested' = IF Pending(secret)' = {} THEN contested
                    ELSE contested \cup {secret}

---------------------------------------------------------------------------
(* The operations                                                          *)

\* protect_retries is left at its default.
begin(c, o) ==
    /\ pc[c] = "idle"
    /\ calls[c] < MaxCalls
    /\ pc' = [pc EXCEPT ![c] = "guard"]
    /\ op' = [op EXCEPT ![c] = o]
    /\ outcome' = [outcome EXCEPT ![c] = "none"]
    /\ calls' = [calls EXCEPT ![c] = @ + 1]
    /\ UNCHANGED <<attempts, shown, late, contested>>

guard_passes(c) ==
    /\ pc[c] = "guard"
    /\ shown
    /\ Preserves(attempts[op[c].secret])
    /\ pc' = [pc EXCEPT ![c] = "command"]
    /\ UNCHANGED <<op, outcome, calls, attempts, shown, late, contested>>

\* The attempts are not shown, or the next could be the last.
guard_refuses(c) ==
    /\ pc[c] = "guard"
    /\ ~shown \/ ~Preserves(attempts[op[c].secret])
    /\ End(c, "raised")
    /\ UNCHANGED <<op, calls, attempts, shown, late, contested>>

exchange_fails(c) ==
    /\ Lossy
    /\ pc[c] \in {"guard", "command"}
    /\ End(c, "raised")
    /\ UNCHANGED <<op, calls, attempts, shown, late, contested>>

\* Whatever the SIM made of it, the answer is returned; or it is lost.
command_served(c) ==
    /\ pc[c] = "command"
    /\ \E how \in {"returned", "raised"} :
        /\ how = "raised" => Lossy
        /\ End(c, how)
    /\ UNCHANGED <<op, calls, shown, late>>
    /\ Try(op[c].secret, op[c].right)

command_on_its_way(c) ==
    /\ Late
    /\ pc[c] = "command"
    /\ late[c] = {}
    /\ late' = [late EXCEPT ![c] = {[secret |-> op[c].secret, right |-> op[c].right]}]
    /\ End(c, "raised")
    /\ UNCHANGED <<op, calls, attempts, shown, contested>>

served_late(c) ==
    /\ UNCHANGED <<client_vars, shown>>
    /\ \E sent \in late[c] :
        /\ late' = [late EXCEPT ![c] = @ \ {sent}]
        /\ Try(sent.secret, sent.right)

---------------------------------------------------------------------------
(* The specification                                                       *)

Init ==
    /\ pc = [c \in Clients |-> "idle"]
    /\ op = [c \in Clients |-> NoOp]
    /\ outcome = [c \in Clients |-> "none"]
    /\ calls = [c \in Clients |-> 0]
    /\ \E pin \in 1 .. Full["pin"], puk \in 1 .. Full["puk"] :
        attempts = [s \in Secrets |-> IF s = "pin" THEN pin ELSE puk]
    /\ shown \in BOOLEAN
    /\ late = [c \in Clients |-> {}]
    /\ contested = {}

Step(c) ==
    \/ guard_passes(c)
    \/ guard_refuses(c)
    \/ exchange_fails(c)
    \/ command_served(c)
    \/ command_on_its_way(c)
    \/ served_late(c)

Next ==
    \E c \in Clients :
        \/ \E o \in Ops : begin(c, o)
        \/ Step(c)

Spec == Init /\ [][Next]_vars

---------------------------------------------------------------------------
(* Properties                                                              *)

\* Every variable has its type.
TypeOK ==
    /\ pc \in [Clients -> {"idle", "guard", "command"}]
    /\ op \in [Clients -> Ops \cup {NoOp}]
    /\ outcome \in [Clients -> Outcomes]
    /\ calls \in [Clients -> 0 .. MaxCalls]
    /\ attempts \in [Secrets -> Nat]
    /\ \A s \in Secrets : attempts[s] <= Full[s]
    /\ shown \in BOOLEAN
    /\ late \in [Clients -> SUBSET [secret: Secrets, right: BOOLEAN]]
    /\ contested \subseteq Secrets

\* What CHANGELOG.md:23 says of the guard: the final attempt is preserved.  A SIM
\* that had an attempt left is never brought to none, neither for the PIN nor
\* for the PUK (sim.py:218-245).
FinalAttemptKept == \A s \in Secrets : attempts[s] >= 1

\* What the guard is worth among any number of clients, with answers lost and
\* commands delayed: the last attempt goes only where two secrets were past the
\* guard at the same time.
FinalAttemptContested ==
    \A s \in Secrets : attempts[s] = 0 => s \in contested

\* The clients about to send this secret, and those that have it on its way.
Sending(s) == {c \in Clients : pc[c] = "command" /\ op[c].secret = s}
OnItsWay(s) == {c \in Clients : \E sent \in late[c] : sent.secret = s}

\* The attempts past the guard, as the claims of AttemptGuard.
Claims(s) == (Sending(s) \X {"running"}) \cup (OnItsWay(s) \X {"late"})

\* Bound: claims on one secret there can be at once.
MostClaims == Cardinality(Clients) * (IF Late THEN 2 ELSE 1)

PinGuard == INSTANCE AttemptGuard WITH
    left <- attempts["pin"], granted <- Claims("pin"), Full <- Full["pin"],
    Most <- MostClaims

PukGuard == INSTANCE AttemptGuard WITH
    left <- attempts["puk"], granted <- Claims("puk"), Full <- Full["puk"],
    Most <- MostClaims

\* The retry guard is one for each secret, although the PUK gives back the attempts
\* of the PIN, too: an attempt is granted by a reading of two at least, and costs
\* one at most (sim.py:218-245).
KeepsGuard == PinGuard!Spec /\ PukGuard!Spec

\* So that among any number of clients the SIM keeps an attempt for each secret
\* past the guard, short of one for each there can be beyond the first two.
AttemptsCovered == PinGuard!Covered /\ PukGuard!Covered
============================================================================
