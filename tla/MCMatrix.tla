------------------------------ MODULE MCMatrix ------------------------------
(***************************************************************************)
(* An instance of Matrix for TLC: two sections, two tokens, a real key and *)
(* the two synthetic ones.                                                 *)
(***************************************************************************)
EXTENDS Matrix

CONSTANTS s1, s2, psk, open, real, test, empty

TwoSections == <<s1, s2>>
OneRadio == {s1}
TwoTokens == <<psk, open>>
AllKeys == {real, test, empty}
============================================================================
