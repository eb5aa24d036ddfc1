----------------------------- MODULE MCSimPin ------------------------------
(***************************************************************************)
(* Instances of SimPin for TLC.                                            *)
(***************************************************************************)
EXTENDS SimPin, TLC

CONSTANTS c1, c2

TwoClients == {c1, c2}
SmallBudgets == [s \in Secrets |-> IF s = "pin" THEN 3 ELSE 2]
Symmetry == Permutations(TwoClients)
============================================================================
