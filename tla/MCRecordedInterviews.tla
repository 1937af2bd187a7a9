------------------------ MODULE MCRecordedInterviews ------------------------
(***************************************************************************)
(* Instances of RecordedInterviews for TLC: two parts, two workers, one    *)
(* request, two attachments.                                               *)
(***************************************************************************)
EXTENDS RecordedInterviews, TLC

CONSTANTS w1, w2, u1

Anywhere == Label
Statements == {"load", "replace", "insert", "next", "count", "begin", "segments",
               "save", "charge", "revert"}
Nowhere == {}
OfferedStates == {"failed"}
=============================================================================
