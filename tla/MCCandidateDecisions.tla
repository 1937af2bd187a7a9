------------------------ MODULE MCCandidateDecisions ------------------------
(***************************************************************************)
(* Instances of CandidateDecisions for TLC.                                *)
(***************************************************************************)
EXTENDS CandidateDecisions

CONSTANTS c1, c2, r1, r2
=============================================================================
