------------------------ MODULE MCInterviewSchedules ------------------------
(***************************************************************************)
(* Instances of InterviewSchedules for TLC.                                *)
(***************************************************************************)
EXTENDS InterviewSchedules

CONSTANTS s1, s2, r1, r2
=============================================================================
