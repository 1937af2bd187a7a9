--------------------------- MODULE EvaluationPool ---------------------------
(***************************************************************************)
(* What the evaluation queue promises to the rest of the system.  An       *)
(* evaluation waits, runs in one of a bounded number of slots, may be put  *)
(* back to wait, ends once and for all, and only then is paid, at most     *)
(* once.  A candidate is the subject of at most one evaluation at a time   *)
(* that has not ended.                                                     *)
(***************************************************************************)
EXTENDS Naturals, FiniteSets

CONSTANTS Job, Candidate, Slots, Nobody

VARIABLES stage, subject, paid
vars == <<stage, subject, paid>>

Running == {j \in Job : stage[j] = "running"}
Live(c) == {j \in Job : subject[j] = c /\ stage[j] \in {"waiting", "running"}}

Init ==
    /\ stage = [j \in Job |-> "unused"]
    /\ subject = [j \in Job |-> Nobody]
    /\ paid = {}

Submit(j, c) ==
    /\ stage[j] = "unused" /\ Live(c) = {}
    /\ stage' = [stage EXCEPT ![j] = "waiting"]
    /\ subject' = [subject EXCEPT ![j] = c]
    /\ UNCHANGED paid

Start(j) ==
    /\ stage[j] = "waiting" /\ Cardinality(Running) < Slots
    /\ stage' = [stage EXCEPT ![j] = "running"]
    /\ UNCHANGED <<subject, paid>>

\* Some running evaluations go back to wait.
PutBack(S) ==
    /\ S \subseteq Running
    /\ stage' = [j \in Job |-> IF j \in S THEN "waiting" ELSE stage[j]]
    /\ UNCHANGED <<subject, paid>>

\* Some evaluations end: completed, failed, withdrawn or deleted.
End(S) ==
    /\ \A j \in S : stage[j] # "unused"
    /\ stage' = [j \in Job |-> IF j \in S THEN "over" ELSE stage[j]]
    /\ UNCHANGED <<subject, paid>>

Pay(j) ==
    /\ stage[j] = "over" /\ j \notin paid
    /\ paid' = paid \cup {j}
    /\ UNCHANGED <<stage, subject>>

Next ==
    \/ \E j \in Job : Start(j) \/ Pay(j) \/ \E c \in Candidate : Submit(j, c)
    \/ \E S \in SUBSET Job : PutBack(S) \/ End(S)

Spec == Init /\ [][Next]_vars
=============================================================================
