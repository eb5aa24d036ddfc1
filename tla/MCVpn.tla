------------------------------- MODULE MCVpn -------------------------------
(***************************************************************************)
(* Instances of Vpn for TLC.                                               *)
(***************************************************************************)
EXTENDS Vpn, TLC

CONSTANTS c1, c2, a, b, i1, i2

TwoClients == {c1, c2}
PublicOfTwo == [c \in TwoClients |-> IF c = c1 THEN {a} ELSE {b}]
TwoIndices == {i1, i2}

\* The clients are alike, each with its profile, and so are the indices.
Alike ==
    {p @@ q : p \in {c1 :> c1 @@ c2 :> c2 @@ a :> a @@ b :> b,
                     c1 :> c2 @@ c2 :> c1 @@ a :> b @@ b :> a},
              q \in Permutations(TwoIndices)}
============================================================================
