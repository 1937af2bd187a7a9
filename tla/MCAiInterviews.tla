--------------------------- MODULE MCAiInterviews ---------------------------
(***************************************************************************)
(* Instances of AiInterviews for TLC.                                      *)
(***************************************************************************)
EXTENDS AiInterviews, TLC

CONSTANTS s1, s2, r1, r2

FirstTurn == {1}
Requests == Permutations(Request)
=============================================================================
