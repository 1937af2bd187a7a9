--------------------------- MODULE MCTokenLedger ---------------------------
(***************************************************************************)
(* Instances of TokenLedger for TLC: three requests over one or two things *)
(* that are paid for.                                                      *)
(***************************************************************************)
EXTENDS TokenLedger, TLC

CONSTANTS c1, c2, c3, r1, r2

AnyPrice  == 0..2
FreeFirst == {0, 1}
ThreeTokens == {3}
Credits   == {3}
Charging  == {"feature", "repeat"}
Crediting == {"feature", "grant"}

Requests == Permutations(Call)
Things   == Permutations(Call) \cup Permutations(Ref)
=============================================================================
