--------------------------- MODULE MCJobPostings ---------------------------
(***************************************************************************)
(* Instances of JobPostings for TLC.                                       *)
(***************************************************************************)
EXTENDS JobPostings, TLC

CONSTANTS c1, c2, r1, r2

\* Requests are alike (used for safety only).
Alike == Permutations(Request)
=============================================================================
