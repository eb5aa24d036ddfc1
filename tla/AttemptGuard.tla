---------------------------- MODULE AttemptGuard ----------------------------
(***************************************************************************)
(* What a guard is worth that looks at a budget of attempts in one         *)
(* exchange and uses an attempt in a later one: the lockout guard of       *)
(* NR2301Client.login and the retry guard of the PIN and PUK operations.   *)
(*                                                                         *)
(* A claim is granted while two attempts are left, and used up later.      *)
(* Nothing keeps others from being granted in between, and a claim whose   *)
(* client has given it up may still be used up.  What is left then depends *)
(* only on how many claims there can be at once.                           *)
(***************************************************************************)
EXTENDS Integers, FiniteSets

CONSTANTS
    Full,  \* the attempts of a budget nobody has tried
    Most   \* bound: claims there can be at once

VARIABLES
    left,    \* the attempts left
    granted  \* the claims past the guard that are not used up

vars == <<left, granted>>

\* The guard has seen that this attempt is not the last.
Grant ==
    /\ left >= 2
    /\ Cardinality(granted) < Most
    /\ \E k \in granted' \ granted : granted' = granted \cup {k}
    /\ UNCHANGED left

\* The secret is wrong, and costs an attempt.
Spend ==
    /\ left >= 1
    /\ left' = left - 1
    /\ \E k \in granted : granted' = granted \ {k}

\* It is right, and gives all attempts back.
Redeem ==
    /\ left' = Full
    /\ \E k \in granted : granted' = granted \ {k}

\* It is never judged: lost, refused without being looked at, or not sent.
Withdraw ==
    /\ \E k \in granted : granted' = granted \ {k}
    /\ UNCHANGED left

\* Its client gives it up while it is on its way: it stands for itself then.
Delay ==
    /\ \E k \in granted, l \in granted' \ granted :
          granted' = (granted \ {k}) \cup {l}
    /\ UNCHANGED left

\* The router gives all attempts back for a reason of its own.
Refill ==
    /\ left' = Full
    /\ UNCHANGED granted

Init ==
    /\ left \in 1 .. Full
    /\ granted = {}

Next == Grant \/ Spend \/ Redeem \/ Withdraw \/ Delay \/ Refill

Spec == Init /\ [][Next]_vars

\* The budget covers the claims, short of one attempt for each claim there can
\* be beyond the first two; with one claim at a time the last attempt stays.
Covered ==
    /\ left >= 0
    /\ left + Most >= Cardinality(granted) + 2
=============================================================================
