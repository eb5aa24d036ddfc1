--------------------------- MODULE MCMaintenance ---------------------------
(***************************************************************************)
(* Instances of Maintenance for TLC.                                       *)
(***************************************************************************)
EXTENDS Maintenance

CONSTANTS p1, p2

TwoPasswords == {p1, p2}
Restore == {"restore"}
============================================================================
