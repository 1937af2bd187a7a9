-------------------------- MODULE MCScreeningQueue --------------------------
(***************************************************************************)
(* Instances of ScreeningQueue for TLC: two tenants, where the candidate   *)
(* c3 belongs to the second one, up to four rows and two or three loops.   *)
(***************************************************************************)
EXTENDS ScreeningQueue, TLC

CONSTANTS c1, c2, c3, orgA, orgB, w1, w2, w3, r1, r2

TwoTenants == [c \in Candidate |-> IF c = c3 THEN orgB ELSE orgA]
OneTenant  == [c \in Candidate |-> orgA]

TwoJobs   == 1..2
ThreeJobs == 1..3

\* Where an invocation may be killed: at any await while it has a row, or only
\* during the LLM call, by far the longest of them, or never.
Everywhere == Holding \cup Settled
WhileEvaluating == {"eval"}
Nowhere == {}

LoopSymmetry == Permutations(Loop)
Workers == Permutations(Loop) \cup Permutations(Requester)
=============================================================================
