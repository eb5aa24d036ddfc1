----------------------------- MODULE MCSession -----------------------------
(***************************************************************************)
(* Instances of Session for TLC: one client and a lossy network, and two   *)
(* clients whose abandoned requests may reach the router late.             *)
(***************************************************************************)
EXTENDS Session, TLC

CONSTANTS c1, c2, p1, p2, r1, r2, t1, t2

OneClient == {c1}
TwoClients == {c1, c2}
TwoPasswords == {p1, p2}
OneRand == {r1}
TwoRands == {r1, r2}
OneToken == {t1}
TwoTokens == {t1, t2}

\* Clients and passwords are only compared.
Symmetric == Permutations(TwoClients) \cup Permutations(TwoPasswords)
============================================================================
