-------------------------- MODULE MCLiveRecordings --------------------------
(***************************************************************************)
(* Instances of LiveRecordings for TLC.                                    *)
(***************************************************************************)
EXTENDS LiveRecordings, TLC

CONSTANTS t1, t2, u1, u2, u3

Identities == Permutations(Tab) \cup Permutations(Upload)
=============================================================================
