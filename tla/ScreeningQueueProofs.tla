------------------------ MODULE ScreeningQueueProofs ------------------------
(***************************************************************************)
(* Safety of ScreeningQueue for every value of its constants.              *)
(***************************************************************************)
EXTENDS ScreeningQueue, FiniteSetTheorems, TLAPS

USE DEF jobVars, requestVars, moneyVars, scanVars, loopVars, history

-----------------------------------------------------------------------------
(* Type correctness. *)

LEMMA CeilDivBound ==
  ASSUME NEW a \in Nat \ {0}, NEW b \in Nat \ {0}
  PROVE  CeilDiv(a, b) \in 0..a
<1> DEFINE q == (a + b - 1) \div b
           r == (a + b - 1) % b
<1>1. q \in Int /\ r \in 0..(b - 1) /\ a + b - 1 = b * q + r
  OBVIOUS
<1>2. q >= 0
  BY <1>1, SMT
<1>3. q <= a
  BY <1>1, SMT
<1> QED
  BY <1>1, <1>2, <1>3 DEF CeilDiv

\* The fair share is a number of slots.
LEMMA FairShareBound == FairShare \in 0..MaxConcurrency
<1> DEFINE S == {k \in Job : Claimable(k) \/ k \in Processing}
<1>1. IsFiniteSet(S)
  BY QueueAssumption, FS_Subset
<1>2. IsFiniteSet(LiveOrgs)
  <2> DEFINE f == [j \in S |-> JobOrg(j)]
  <2>1. f \in Surjection(S, LiveOrgs)
    BY DEF Surjection, LiveOrgs
  <2> QED
    BY <1>1, <2>1, FS_Surjection
<1>3. LiveOrgs # {} => Cardinality(LiveOrgs) \in Nat \ {0}
  BY <1>2, FS_CardinalityType, FS_EmptySet
<1> QED
  BY <1>3, CeilDivBound, QueueAssumption DEF FairShare

\* A loop that has picked a row, and until it lets it go, points to a row that
\* exists or existed.
MineIsRow ==
    \A w \in Loop :
        pc[w] \in {"claim", "look"} \cup Holding \cup Settled
            => mine[w] \in Job /\ status[mine[w]] # "free"

\* The two movements of a wallet keep the money typed.
LEMMA ChargeTypes ==
  ASSUME MoneyTypes, NEW j \in Job, JobOrg(j) \in Org, Charge(j)
  PROVE  MoneyTypes'
<1>1. CASE j \in charged
  BY <1>1 DEF MoneyTypes, Charge
<1>2. CASE j \notin charged
  <2>1. wallet[JobOrg(j)] - Cost \in Int
    BY QueueAssumption DEF MoneyTypes
  <2>2. wallet' = [wallet EXCEPT ![JobOrg(j)] = wallet[JobOrg(j)] - Cost]
    BY <1>2 DEF Charge
  <2> QED
    BY <2>1, <2>2 DEF MoneyTypes, Charge
<1> QED
  BY <1>1, <1>2

LEMMA RefundTypes ==
  ASSUME MoneyTypes, NEW j \in Job, Refund(j)
  PROVE  MoneyTypes'
<1>1. CASE j \in charged \ refunded
  <2>1. wallet' = [wallet EXCEPT ![JobOrg(j)] = wallet[JobOrg(j)] + Cost]
    BY <1>1 DEF Refund
  <2>2. CASE JobOrg(j) \in Org
    <3>1. wallet[JobOrg(j)] + Cost \in Int
      BY <2>2, QueueAssumption DEF MoneyTypes
    <3> QED
      BY <1>1, <2>1, <3>1 DEF MoneyTypes, Refund
  <2>3. CASE JobOrg(j) \notin Org
    BY <1>1, <2>1, <2>3 DEF MoneyTypes, Refund
  <2> QED
    BY <2>2, <2>3
<1>2. CASE j \notin charged \ refunded
  BY <1>2 DEF MoneyTypes, Refund
<1> QED
  BY <1>1, <1>2

\* Putting a row back in the queue keeps rows and loops typed.
LEMMA RequeueTypes ==
  ASSUME TypeOK, NEW w \in Loop, mine[w] \in Job, cand[mine[w]] \in Candidate, NEW t \in Nat,
         Requeue(w, t), UNCHANGED <<cand, history>>
  PROVE  JobTypes' /\ LoopTypes'
<1> USE DEF TypeOK, JobTypes, LoopTypes, Status, Label, Goto
<1>1. CASE IndexAllows(mine[w], cand[mine[w]])
  <2>1. /\ status' \in [Job -> Status] /\ lock' \in [Job -> {"none", "fresh", "stale"}]
    BY <1>1 DEF Requeue, RowBecomes
  <2>2. due' \in [Job -> BOOLEAN] /\ attempts' \in [Job -> Nat]
    BY <1>1 DEF Requeue
  <2>3. pc' \in [Loop -> Label] /\ mine' \in [Loop -> Job \cup {NoJob}]
    BY <1>1 DEF Requeue, NextJob
  <2>4. ASSUME NEW j \in Job, status'[j] # "free" PROVE cand'[j] \in Candidate
    BY <1>1, <2>4 DEF Requeue, RowBecomes
  <2> QED
    BY <1>1, <2>1, <2>2, <2>3, <2>4 DEF Requeue, NextJob
<1>2. CASE ~IndexAllows(mine[w], cand[mine[w]])
  BY <1>2 DEF Requeue
<1> QED
  BY <1>1, <1>2

\* Every row that a loop points to has an org.
LEMMA MineHasOrg ==
  ASSUME TypeOK, MineIsRow, NEW w \in Loop,
         pc[w] \in {"claim", "look"} \cup Holding \cup Settled
  PROVE  mine[w] \in Job /\ cand[mine[w]] \in Candidate /\ JobOrg(mine[w]) \in Org
BY QueueAssumption DEF TypeOK, JobTypes, MineIsRow, JobOrg

\* One step preserves the types.
LEMMA TypeStep ==
  ASSUME TypeOK, MineIsRow, [Next]_vars
  PROVE  TypeOK'
<1> USE QueueAssumption DEF TypeOK, JobTypes, RequestTypes, MoneyTypes, LoopTypes, Status, ReportPhase, Label, Goto, MineIsRow, Holding, Settled, JobOrg
<1>1. ASSUME NEW r \in Requester, NEW c \in Candidate, LookForActive(r, c) PROVE TypeOK'
  BY <1>1 DEF LookForActive
<1>2. ASSUME NEW r \in Requester, NEW j \in Job, InsertJob(r, j) PROVE TypeOK'
  BY <1>2 DEF InsertJob, IndexAllows
<1>3. ASSUME NEW j \in Job, BecomeDue(j) PROVE TypeOK'
  BY <1>3 DEF BecomeDue
<1>4. ASSUME NEW j \in Job, LockExpires(j) PROVE TypeOK'
  BY <1>4 DEF LockExpires
<1>5. ASSUME NEW w \in Loop, StartLoop(w) PROVE TypeOK'
  BY <1>5 DEF StartLoop
<1>6. ASSUME NEW w \in Loop, Snapshot(w) PROVE TypeOK'
  <2>1. CASE Cardinality(Processing) >= MaxConcurrency
    BY <1>6, <2>1 DEF Snapshot
  <2>2. CASE ~(Cardinality(Processing) >= MaxConcurrency)
    <3>1. pc' \in [Loop -> Label]
      BY <1>6, <2>2 DEF Snapshot
    <3>2. cap' \in [Loop -> 0..MaxConcurrency] /\ after' \in [Loop -> Nat]
      BY <1>6, <2>2, FairShareBound DEF Snapshot
    <3>3. skip' \in [Loop -> SUBSET Org]
      BY <1>6, <2>2 DEF Snapshot
    <3> QED
      BY <1>6, <2>2, <3>1, <3>2, <3>3 DEF Snapshot
  <2> QED
    BY <2>1, <2>2
<1>7. ASSUME NEW w \in Loop, PickNothing(w) PROVE TypeOK'
  BY <1>7 DEF PickNothing
<1>8. ASSUME NEW w \in Loop, Claim(w) PROVE TypeOK'
  BY <1>8, SMTT(60) DEF Claim, ClaimAllowed
<1>9. ASSUME NEW w \in Loop, LookAgain(w) PROVE TypeOK'
  <2>1. mine[w] \in Job /\ JobOrg(mine[w]) \in Org
    BY <1>9, MineHasOrg DEF LookAgain
  <2>2. after' \in [Loop -> Nat]
    BY <1>9, <2>1 DEF LookAgain
  <2>3. skip' \in [Loop -> SUBSET Org]
    BY <1>9, <2>1 DEF LookAgain
  <2>4. pc' \in [Loop -> Label] /\ mine' \in [Loop -> Job \cup {NoJob}]
    BY <1>9 DEF LookAgain
  <2> QED
    BY <1>9, <2>2, <2>3, <2>4 DEF LookAgain
<1>10. ASSUME NEW w \in Loop, StartEvaluation(w) PROVE TypeOK'
  BY <1>10 DEF StartEvaluation
<1>11. ASSUME NEW w \in Loop, EvaluateDuplicate(w) PROVE TypeOK'
  BY <1>11, ZenonT(60) DEF EvaluateDuplicate, Cascade
<1>12. ASSUME NEW w \in Loop, MarkDone(w) PROVE TypeOK'
  BY <1>12 DEF MarkDone, RowBecomes
<1>13. ASSUME NEW w \in Loop, MarkDoneThrows(w) PROVE TypeOK'
  BY <1>13 DEF MarkDoneThrows, RowBecomes
<1>14. ASSUME NEW w \in Loop, FailForGood(w) PROVE TypeOK'
  BY <1>14 DEF FailForGood, RowBecomes, NextJob
<1>15. ASSUME NEW w \in Loop, FailOrRetry(w) PROVE TypeOK'
  <2>1. CASE attempts[mine[w]] >= MAX_ATTEMPTS
    BY <1>15, <2>1, SMTT(30) DEF FailOrRetry, RowBecomes, NextJob
  <2>2. CASE ~(attempts[mine[w]] >= MAX_ATTEMPTS)
    <3>1. JobTypes' /\ LoopTypes'
      BY <1>15, <2>2, RequeueTypes, MineHasOrg DEF FailOrRetry
    <3> QED
      BY <1>15, <2>2, <3>1 DEF FailOrRetry
  <2> QED
    BY <2>1, <2>2
<1>16. ASSUME NEW w \in Loop, RequeueOutage(w) PROVE TypeOK'
  <2> DEFINE t == IF attempts[mine[w]] = 0 THEN 0 ELSE attempts[mine[w]] - 1
  <2>1. mine[w] \in Job /\ cand[mine[w]] \in Candidate
    BY <1>16, MineHasOrg DEF RequeueOutage
  <2>2. t \in Nat
    <3>1. attempts[mine[w]] \in Nat
      BY <2>1
    <3> QED
      BY <3>1
  <2>3. Requeue(w, t) /\ UNCHANGED <<cand, history>>
    BY <1>16 DEF RequeueOutage
  <2>4. JobTypes' /\ LoopTypes'
    BY <2>1, <2>2, <2>3, RequeueTypes
  <2> QED
    BY <1>16, <2>4 DEF RequeueOutage
<1>17. ASSUME NEW w \in Loop, CheckCharge(w) PROVE TypeOK'
  BY <1>17 DEF CheckCharge, NextJob
<1>18. ASSUME NEW w \in Loop, ChargeJob(w) PROVE TypeOK'
  <2>1. MoneyTypes'
    BY <1>18, MineHasOrg, ChargeTypes DEF ChargeJob
  <2> QED
    BY <1>18, <2>1 DEF ChargeJob
<1>19. ASSUME NEW w \in Loop, ChargeThrows(w) PROVE TypeOK'
  <2>1. MoneyTypes'
    BY <1>19, MineHasOrg, ChargeTypes DEF ChargeThrows
  <2> QED
    BY <1>19, <2>1 DEF ChargeThrows, NextJob
<1>20. ASSUME NEW w \in Loop, RecheckReport(w) PROVE TypeOK'
  <2>1. MoneyTypes'
    BY <1>20, MineHasOrg, RefundTypes DEF RecheckReport
  <2> QED
    BY <1>20, <2>1 DEF RecheckReport, NextJob
<1>21. ASSUME NEW w \in Loop, Die(w) PROVE TypeOK'
  BY <1>21 DEF Die
<1>22. ASSUME NEW w \in Loop, NEW j \in Job, PickRow(w, j) PROVE TypeOK'
  BY <1>22 DEF PickRow
<1>23. ASSUME NEW w \in Loop, NEW r \in Outcome, Evaluate(w, r) PROVE TypeOK'
  BY <1>23 DEF Evaluate, Outcome
<1>24. ASSUME NEW c \in Candidate, CloseCandidate(c) PROVE TypeOK'
  BY <1>24 DEF CloseCandidate, UpdateWaiting, WaitingOf
<1>25. ASSUME NEW c \in Candidate, DeleteCandidate(c) PROVE TypeOK'
  BY <1>25 DEF DeleteCandidate, Cascade
<1>26. ASSUME NEW c \in Candidate, ReportClaim(c) PROVE TypeOK'
  BY <1>26 DEF ReportClaim
<1>27. ASSUME NEW c \in Candidate, ReportRelease(c) PROVE TypeOK'
  BY <1>27 DEF ReportRelease
<1>28. ASSUME NEW c \in Candidate, ReportLink(c) PROVE TypeOK'
  BY <1>28 DEF ReportLink
<1>29. ASSUME NEW c \in Candidate, ReportStop(c) PROVE TypeOK'
  BY <1>29 DEF ReportStop, UpdateWaiting, WaitingOf
<1>30. ASSUME NEW c \in Candidate, ReportList(c) PROVE TypeOK'
  BY <1>30 DEF ReportList
<1>31. ASSUME NEW c \in Candidate, ReportEnd(c) PROVE TypeOK'
  BY <1>31 DEF ReportEnd
<1>32. ASSUME NEW c \in Candidate, NEW j \in Job, ReportRefund(c, j) PROVE TypeOK'
  <2>1. MoneyTypes'
    BY <1>32, RefundTypes DEF ReportRefund
  <2> QED
    BY <1>32, <2>1 DEF ReportRefund
<1>33. ASSUME NEW o \in Org, OpenWallet(o) PROVE TypeOK'
  BY <1>33 DEF OpenWallet
<1>34. ASSUME NEW o \in Org, TopUp(o) PROVE TypeOK'
  BY <1>34 DEF TopUp
<1>35. ASSUME FailStuck PROVE TypeOK'
  BY <1>35 DEF FailStuck, UpdateRows, Exhausted, Stuck
<1>36. ASSUME RequeueStuck PROVE TypeOK'
  BY <1>36 DEF RequeueStuck, UpdateRows, Recoverable, Stuck
<1>37. ASSUME PauseHolds PROVE TypeOK'
  BY <1>37 DEF PauseHolds, UpdateRows
<1>38. ASSUME ResumeHolds PROVE TypeOK'
  BY <1>38 DEF ResumeHolds, UpdateRows
<1>39. CASE UNCHANGED vars
  BY <1>39 DEF vars
<1> QED
  BY <1>1, <1>2, <1>3, <1>4, <1>5, <1>6, <1>7, <1>8, <1>9, <1>10, <1>11, <1>12, <1>13,
     <1>14, <1>15, <1>16, <1>17, <1>18, <1>19, <1>20, <1>21, <1>22, <1>23, <1>24, <1>25,
     <1>26, <1>27, <1>28, <1>29, <1>30, <1>31, <1>32, <1>33, <1>34, <1>35, <1>36, <1>37,
     <1>38, <1>39
     DEF Next, LoopStep, ClaimStep, EvaluateStep, SettleStep, ChargeStep, RequestStep,
         ReportStep, Maintenance

-----------------------------------------------------------------------------
(* The inductive invariant.  The properties are about rows and about loops *)
(* separately; what makes them inductive is how the two correspond: a row  *)
(* in the hands of a living loop is locked and in process, a row that is   *)
(* being charged is over, and a charged row is in nobody's hands.          *)

HeldRows ==
    \A w \in Loop :
        /\ pc[w] \in {"start", "eval", "mark", "fail"}
              => status[mine[w]] \in {"processing", "gone"}
        /\ pc[w] \in {"retry", "outage"}
              => status[mine[w]] \in {"processing", "gone", "done"}
        /\ pc[w] \in Settled => status[mine[w]] \in {"done", "gone"}
        /\ pc[w] \in Holding /\ status[mine[w]] = "processing"
              => lock[mine[w]] = "fresh"

ChargedOver ==
    \A j \in charged : /\ status[j] \in {"done", "gone"}
                       /\ \A w \in Loop : ~Holds(w, j)

UnusedUntried == \A j \in Job : status[j] = "free" => attempts[j] = 0

Hands ==
    /\ MineIsRow /\ HeldRows /\ OneHolder
    /\ OneActiveJob /\ WaitingHasTries /\ UnusedUntried /\ ChargedOver

IInv == TypeOK /\ Hands

\* The claiming UPDATE: a row in the queue is in nobody's hands.
LEMMA ClaimKeeps ==
  ASSUME IInv, NEW w \in Loop, Claim(w)
  PROVE  Hands'
<1> USE QueueAssumption 
       DEF IInv, Hands, TypeOK, JobTypes, MoneyTypes, LoopTypes, Status, Label, Goto, Holding, Settled,
           Active, Claim, ClaimAllowed
<1>a. \A v \in Loop \ {w} : pc'[v] = pc[v] /\ mine'[v] = mine[v]
  OBVIOUS
<1>b. \A x \in Job \ {mine[w]} : status'[x] = status[x] /\ lock'[x] = lock[x]
  OBVIOUS
<1>c. \A x \in Job : status[x] # "free" => status'[x] # "free"
  BY DEF MineIsRow
<1>1. MineIsRow'
  <2>0. SUFFICES ASSUME NEW v \in Loop, pc'[v] \in {"claim", "look"} \cup Holding \cup Settled
                PROVE  mine'[v] \in Job /\ status'[mine'[v]] # "free"
    BY DEF MineIsRow
  <2>1. CASE v = w
    BY <2>0, <2>1 DEF MineIsRow
  <2>2. CASE v # w
    <3>1. MineIsRow
      OBVIOUS
    <3>2. mine[v] \in Job /\ status[mine[v]] # "free"
      BY ONLY <2>0, <2>2, <1>a, <3>1, v \in Loop DEF MineIsRow
    <3> QED
      BY ONLY <3>2, <1>a, <1>c, <2>2, v \in Loop
  <2> QED
    BY <2>1, <2>2
<1>2. HeldRows'
  <2>0. SUFFICES ASSUME NEW v \in Loop, pc'[v] \in Holding \cup Settled
                PROVE  HeldRows!(v)'
    BY DEF HeldRows
  <2>1. CASE v = w
    BY <2>0, <2>1 DEF MineIsRow, HeldRows
  <2>2. CASE v # w
    <3>1. pc'[v] = pc[v] /\ mine'[v] = mine[v]
      BY ONLY <2>2, <1>a, v \in Loop
    <3>2. mine[v] \in Job /\ status[mine[v]] \in {"processing", "gone", "done"}
      BY <2>0, <2>2, <3>1 DEF HeldRows, MineIsRow
    <3>3. status'[mine[v]] = status[mine[v]] /\ lock'[mine[v]] = lock[mine[v]]
      <4>1. CASE ClaimAllowed(w, mine[w])
        BY <3>2, <4>1, <1>b
      <4>2. CASE ~ClaimAllowed(w, mine[w])
        BY <4>2
      <4> QED
        BY <4>1, <4>2
    <3>4. HeldRows!(v)
      BY DEF HeldRows
    <3> QED
      BY ONLY <3>1, <3>3, <3>4
  <2> QED
    BY <2>1, <2>2
<1>3. OneHolder'
  BY DEF MineIsRow, HeldRows, OneHolder
<1>4. OneActiveJob'
  BY DEF MineIsRow, HeldRows, OneActiveJob
<1>5. WaitingHasTries'
  BY DEF MineIsRow, HeldRows, WaitingHasTries
<1>0. UnusedUntried'
  BY DEF UnusedUntried, MineIsRow
<1>6. ChargedOver'
  BY DEF MineIsRow, HeldRows, OneHolder, ChargedOver, Holds
<1> QED
  BY <1>0, <1>1, <1>2, <1>3, <1>4, <1>5, <1>6

\* markDone throws: the row is done or not, and the loop still holds it.
LEMMA MarkDoneThrowsKeeps ==
  ASSUME IInv, NEW w \in Loop, MarkDoneThrows(w)
  PROVE  Hands'
<1> USE QueueAssumption 
       DEF IInv, Hands, TypeOK, JobTypes, MoneyTypes, LoopTypes, Status, Label, Goto, Holding, Settled,
           Active, MarkDoneThrows, RowBecomes
<1>a. \A v \in Loop \ {w} : pc'[v] = pc[v] /\ mine'[v] = mine[v]
  OBVIOUS
<1>b. \A x \in Job \ {mine[w]} : status'[x] = status[x] /\ lock'[x] = lock[x]
  OBVIOUS
<1>c. \A x \in Job : status[x] # "free" => status'[x] # "free"
  BY DEF MineIsRow
<1>1. MineIsRow'
  <2>0. SUFFICES ASSUME NEW v \in Loop, pc'[v] \in {"claim", "look"} \cup Holding \cup Settled
                PROVE  mine'[v] \in Job /\ status'[mine'[v]] # "free"
    BY DEF MineIsRow
  <2>1. CASE v = w
    BY <2>0, <2>1 DEF MineIsRow
  <2>2. CASE v # w
    <3>1. MineIsRow
      OBVIOUS
    <3>2. mine[v] \in Job /\ status[mine[v]] # "free"
      BY ONLY <2>0, <2>2, <1>a, <3>1, v \in Loop DEF MineIsRow
    <3> QED
      BY ONLY <3>2, <1>a, <1>c, <2>2, v \in Loop
  <2> QED
    BY <2>1, <2>2
<1>2. HeldRows'
  <2>0. SUFFICES ASSUME NEW v \in Loop, pc'[v] \in Holding \cup Settled
                PROVE  HeldRows!(v)'
    BY DEF HeldRows
  <2>1. CASE v = w
    BY <2>0, <2>1 DEF MineIsRow, HeldRows
  <2>2. CASE v # w
    <3>1. pc'[v] = pc[v] /\ mine'[v] = mine[v]
      BY ONLY <2>2, <1>a, v \in Loop
    <3>2. mine[v] \in Job /\ mine[v] # mine[w]
      BY <2>0, <2>2, <3>1 DEF HeldRows, MineIsRow, OneHolder
    <3>3. status'[mine[v]] = status[mine[v]] /\ lock'[mine[v]] = lock[mine[v]]
      BY ONLY <3>2, <1>b
    <3>4. HeldRows!(v)
      BY DEF HeldRows
    <3> QED
      BY ONLY <3>1, <3>3, <3>4
  <2> QED
    BY <2>1, <2>2
<1>3. OneHolder'
  BY DEF MineIsRow, HeldRows, OneHolder
<1>4. OneActiveJob'
  BY DEF MineIsRow, HeldRows, OneActiveJob
<1>5. WaitingHasTries'
  BY DEF MineIsRow, HeldRows, WaitingHasTries
<1>0. UnusedUntried'
  BY DEF UnusedUntried, MineIsRow
<1>6. ChargedOver'
  BY DEF MineIsRow, HeldRows, OneHolder, ChargedOver, Holds
<1> QED
  BY <1>0, <1>1, <1>2, <1>3, <1>4, <1>5, <1>6

\* A transient failure: the row goes back to the queue or fails.
LEMMA FailOrRetryKeeps ==
  ASSUME IInv, NEW w \in Loop, FailOrRetry(w)
  PROVE  Hands'
<1> USE QueueAssumption 
       DEF IInv, Hands, TypeOK, JobTypes, MoneyTypes, LoopTypes, Status, Label, Goto, Holding, Settled,
           Active, FailOrRetry, RowBecomes, NextJob, Requeue, IndexAllows
<1>a. \A v \in Loop \ {w} : pc'[v] = pc[v] /\ mine'[v] = mine[v]
  OBVIOUS
<1>b. \A x \in Job \ {mine[w]} : status'[x] = status[x] /\ lock'[x] = lock[x]
  OBVIOUS
<1>c. \A x \in Job : status[x] # "free" => status'[x] # "free"
  BY DEF MineIsRow
<1>1. MineIsRow'
  <2>0. SUFFICES ASSUME NEW v \in Loop, pc'[v] \in {"claim", "look"} \cup Holding \cup Settled
                PROVE  mine'[v] \in Job /\ status'[mine'[v]] # "free"
    BY DEF MineIsRow
  <2>1. CASE v = w
    BY <2>0, <2>1 DEF MineIsRow
  <2>2. CASE v # w
    <3>1. MineIsRow
      OBVIOUS
    <3>2. mine[v] \in Job /\ status[mine[v]] # "free"
      BY ONLY <2>0, <2>2, <1>a, <3>1, v \in Loop DEF MineIsRow
    <3> QED
      BY ONLY <3>2, <1>a, <1>c, <2>2, v \in Loop
  <2> QED
    BY <2>1, <2>2
<1>2. HeldRows'
  <2>0. SUFFICES ASSUME NEW v \in Loop, pc'[v] \in Holding \cup Settled
                PROVE  HeldRows!(v)'
    BY DEF HeldRows
  <2>1. CASE v = w
    BY <2>0, <2>1 DEF MineIsRow, HeldRows
  <2>2. CASE v # w
    <3>1. pc'[v] = pc[v] /\ mine'[v] = mine[v]
      BY ONLY <2>2, <1>a, v \in Loop
    <3>2. mine[v] \in Job /\ mine[v] # mine[w]
      BY <2>0, <2>2, <3>1 DEF HeldRows, MineIsRow, OneHolder
    <3>3. status'[mine[v]] = status[mine[v]] /\ lock'[mine[v]] = lock[mine[v]]
      BY ONLY <3>2, <1>b
    <3>4. HeldRows!(v)
      BY DEF HeldRows
    <3> QED
      BY ONLY <3>1, <3>3, <3>4
  <2> QED
    BY <2>1, <2>2
<1>3. OneHolder'
  BY DEF MineIsRow, HeldRows, OneHolder
<1>4. OneActiveJob'
  BY DEF MineIsRow, HeldRows, OneActiveJob
<1>5. WaitingHasTries'
  BY DEF MineIsRow, HeldRows, WaitingHasTries
<1>0. UnusedUntried'
  BY DEF UnusedUntried, MineIsRow
<1>6. ChargedOver'
  BY DEF MineIsRow, HeldRows, OneHolder, ChargedOver, Holds
<1> QED
  BY <1>0, <1>1, <1>2, <1>3, <1>4, <1>5, <1>6

\* An outage of the LLM: the row goes back to the queue with its attempt.
LEMMA RequeueOutageKeeps ==
  ASSUME IInv, NEW w \in Loop, RequeueOutage(w)
  PROVE  Hands'
<1> USE QueueAssumption
       DEF IInv, Hands, TypeOK, JobTypes, MoneyTypes, LoopTypes, Status, Label, Goto, Holding, Settled,
           Active, RequeueOutage, RowBecomes, NextJob, Requeue, IndexAllows
<1>a. \A v \in Loop \ {w} : pc'[v] = pc[v] /\ mine'[v] = mine[v]
  OBVIOUS
<1>b. \A x \in Job \ {mine[w]} : status'[x] = status[x] /\ lock'[x] = lock[x]
  OBVIOUS
<1>c. \A x \in Job : status[x] # "free" => status'[x] # "free"
  BY DEF MineIsRow
<1>1. MineIsRow'
  <2>0. SUFFICES ASSUME NEW v \in Loop, pc'[v] \in {"claim", "look"} \cup Holding \cup Settled
                PROVE  mine'[v] \in Job /\ status'[mine'[v]] # "free"
    BY DEF MineIsRow
  <2>1. CASE v = w
    BY <2>0, <2>1 DEF MineIsRow
  <2>2. CASE v # w
    <3>1. MineIsRow
      OBVIOUS
    <3>2. mine[v] \in Job /\ status[mine[v]] # "free"
      BY ONLY <2>0, <2>2, <1>a, <3>1, v \in Loop DEF MineIsRow
    <3> QED
      BY ONLY <3>2, <1>a, <1>c, <2>2, v \in Loop
  <2> QED
    BY <2>1, <2>2
<1>2. HeldRows'
  <2>0. SUFFICES ASSUME NEW v \in Loop, pc'[v] \in Holding \cup Settled
                PROVE  HeldRows!(v)'
    BY DEF HeldRows
  <2>1. CASE v = w
    BY <2>0, <2>1 DEF MineIsRow, HeldRows
  <2>2. CASE v # w
    <3>1. pc'[v] = pc[v] /\ mine'[v] = mine[v]
      BY ONLY <2>2, <1>a, v \in Loop
    <3>2. mine[v] \in Job /\ mine[v] # mine[w]
      BY <2>0, <2>2, <3>1 DEF HeldRows, MineIsRow, OneHolder
    <3>3. status'[mine[v]] = status[mine[v]] /\ lock'[mine[v]] = lock[mine[v]]
      BY ONLY <3>2, <1>b
    <3>4. HeldRows!(v)
      BY DEF HeldRows
    <3> QED
      BY ONLY <3>1, <3>3, <3>4
  <2> QED
    BY <2>1, <2>2
<1>3. OneHolder'
  BY DEF MineIsRow, HeldRows, OneHolder
<1>4. OneActiveJob'
  BY DEF MineIsRow, HeldRows, OneActiveJob
<1>5. WaitingHasTries'
  BY DEF MineIsRow, HeldRows, WaitingHasTries
<1>0. UnusedUntried'
  BY DEF UnusedUntried, MineIsRow
<1>6. ChargedOver'
  BY DEF MineIsRow, HeldRows, OneHolder, ChargedOver, Holds
<1> QED
  BY <1>0, <1>1, <1>2, <1>3, <1>4, <1>5, <1>6

\* The charge throws: what it charged, if anything, is over.
LEMMA ChargeThrowsKeeps ==
  ASSUME IInv, NEW w \in Loop, ChargeThrows(w)
  PROVE  Hands'
<1> USE QueueAssumption 
       DEF IInv, Hands, TypeOK, JobTypes, MoneyTypes, LoopTypes, Status, Label, Goto, Holding, Settled,
           Active, ChargeThrows, Charge, NextJob
<1>1. MineIsRow'
  <2> SUFFICES ASSUME NEW v \in Loop, pc'[v] \in {"claim", "look"} \cup Holding \cup Settled
              PROVE  mine'[v] \in Job /\ status'[mine'[v]] # "free"
    BY DEF MineIsRow
  <2>1. CASE v = w
    BY <2>1 DEF MineIsRow
  <2>2. CASE v # w
    BY <2>2 DEF MineIsRow
  <2> QED
    BY <2>1, <2>2
<1>2. HeldRows'
  BY DEF MineIsRow, HeldRows, OneHolder
<1>3. OneHolder'
  BY DEF MineIsRow, HeldRows, OneHolder
<1>4. OneActiveJob'
  BY DEF MineIsRow, HeldRows, OneActiveJob
<1>5. WaitingHasTries'
  BY DEF MineIsRow, HeldRows, WaitingHasTries
<1>0. UnusedUntried'
  BY DEF UnusedUntried, MineIsRow
<1>6. ChargedOver'
  <2>1. charged' \subseteq charged \cup {mine[w]}
    OBVIOUS
  <2>2. \A v \in Loop : pc'[v] \in Holding => pc'[v] = pc[v] /\ mine'[v] = mine[v] /\ v # w
    OBVIOUS
  <2>3. status' = status /\ mine[w] \in Job /\ status[mine[w]] \in {"done", "gone"}
    BY DEF MineIsRow, HeldRows
  <2>4. \A v \in Loop \ {w} : pc[v] \in Holding => mine[v] # mine[w]
    BY DEF OneHolder
  <2>5. ChargedOver
    OBVIOUS
  <2> QED
    BY ONLY <2>1, <2>2, <2>3, <2>4, <2>5 DEF ChargedOver, Holds
<1> QED
  BY <1>0, <1>1, <1>2, <1>3, <1>4, <1>5, <1>6

\* The refund after a report leaves the rows and the charges alone.
LEMMA RecheckReportKeeps ==
  ASSUME IInv, NEW w \in Loop, RecheckReport(w)
  PROVE  Hands'
<1> USE QueueAssumption 
       DEF IInv, Hands, TypeOK, JobTypes, MoneyTypes, LoopTypes, Status, Label, Goto, Holding, Settled,
           Active, RecheckReport, Refund, NextJob
<1>1. MineIsRow'
  BY DEF MineIsRow
<1>2. HeldRows'
  BY DEF MineIsRow, HeldRows, OneHolder
<1>3. OneHolder'
  BY DEF MineIsRow, HeldRows, OneHolder
<1>4. OneActiveJob'
  BY DEF MineIsRow, HeldRows, OneActiveJob
<1>5. WaitingHasTries'
  BY DEF MineIsRow, HeldRows, WaitingHasTries
<1>0. UnusedUntried'
  BY DEF UnusedUntried, MineIsRow
<1>6. ChargedOver'
  BY ZenonT(60) DEF MineIsRow, HeldRows, OneHolder, ChargedOver, Holds
<1> QED
  BY <1>0, <1>1, <1>2, <1>3, <1>4, <1>5, <1>6

\* One step preserves how rows and loops correspond.
LEMMA HandsStep ==
  ASSUME IInv, [Next]_vars
  PROVE  Hands'
<1> USE QueueAssumption
    DEF IInv, Hands, TypeOK, JobTypes, MoneyTypes, LoopTypes, Status, Label, Goto,
        Holding, Settled, Active, MineIsRow, HeldRows, OneHolder, OneActiveJob,
        WaitingHasTries, UnusedUntried, ChargedOver, Holds
<1>1. ASSUME NEW w \in Loop, StartLoop(w) PROVE Hands'
  BY <1>1 DEF StartLoop
<1>2. ASSUME NEW w \in Loop, Snapshot(w) PROVE Hands'
  BY <1>2 DEF Snapshot
<1>3. ASSUME NEW w \in Loop, PickNothing(w) PROVE Hands'
  BY <1>3 DEF PickNothing
<1>4. ASSUME NEW w \in Loop, Claim(w) PROVE Hands'
  BY ONLY <1>4, IInv, ClaimKeeps
<1>5. ASSUME NEW w \in Loop, LookAgain(w) PROVE Hands'
  BY <1>5 DEF LookAgain
<1>6. ASSUME NEW w \in Loop, NEW j \in Job, PickRow(w, j) PROVE Hands'
  BY <1>6 DEF PickRow, Pickable, Claimable
<1>7. ASSUME NEW w \in Loop, StartEvaluation(w) PROVE Hands'
  BY <1>7 DEF StartEvaluation
<1>8. ASSUME NEW w \in Loop, NEW r \in Outcome, Evaluate(w, r) PROVE Hands'
  BY <1>8 DEF Evaluate, Outcome
<1>9. ASSUME NEW w \in Loop, EvaluateDuplicate(w) PROVE Hands'
  BY <1>9 DEF EvaluateDuplicate, Cascade
<1>10. ASSUME NEW w \in Loop, MarkDone(w) PROVE Hands'
  BY <1>10 DEF MarkDone, RowBecomes
<1>11. ASSUME NEW w \in Loop, MarkDoneThrows(w) PROVE Hands'
  BY ONLY <1>11, IInv, MarkDoneThrowsKeeps
<1>12. ASSUME NEW w \in Loop, FailForGood(w) PROVE Hands'
  BY <1>12 DEF FailForGood, RowBecomes, NextJob
<1>13. ASSUME NEW w \in Loop, FailOrRetry(w) PROVE Hands'
  BY ONLY <1>13, IInv, FailOrRetryKeeps
<1>14. ASSUME NEW w \in Loop, RequeueOutage(w) PROVE Hands'
  BY ONLY <1>14, IInv, RequeueOutageKeeps
<1>15. ASSUME NEW w \in Loop, CheckCharge(w) PROVE Hands'
  BY <1>15 DEF CheckCharge, NextJob
<1>16. ASSUME NEW w \in Loop, ChargeJob(w) PROVE Hands'
  BY <1>16 DEF ChargeJob, Charge
<1>17. ASSUME NEW w \in Loop, ChargeThrows(w) PROVE Hands'
  BY ONLY <1>17, IInv, ChargeThrowsKeeps
<1>18. ASSUME NEW w \in Loop, RecheckReport(w) PROVE Hands'
  BY ONLY <1>18, IInv, RecheckReportKeeps
<1>19. ASSUME NEW w \in Loop, Die(w) PROVE Hands'
  BY <1>19 DEF Die
<1>20. ASSUME NEW r \in Requester, NEW c \in Candidate, LookForActive(r, c) PROVE Hands'
  BY <1>20 DEF LookForActive
<1>21. ASSUME NEW r \in Requester, NEW j \in Job, InsertJob(r, j) PROVE Hands'
  BY <1>21 DEF InsertJob, IndexAllows
<1>22. ASSUME NEW j \in Job, BecomeDue(j) PROVE Hands'
  BY <1>22 DEF BecomeDue
<1>23. ASSUME NEW j \in Job, LockExpires(j) PROVE Hands'
  BY <1>23 DEF LockExpires, HeldByDead
<1>24. ASSUME NEW c \in Candidate, CloseCandidate(c) PROVE Hands'
  BY <1>24 DEF CloseCandidate, UpdateWaiting, WaitingOf
<1>25. ASSUME NEW c \in Candidate, DeleteCandidate(c) PROVE Hands'
  BY <1>25 DEF DeleteCandidate, Cascade
<1>26. ASSUME NEW c \in Candidate, ReportClaim(c) PROVE Hands'
  BY <1>26 DEF ReportClaim
<1>27. ASSUME NEW c \in Candidate, ReportRelease(c) PROVE Hands'
  BY <1>27 DEF ReportRelease
<1>28. ASSUME NEW c \in Candidate, ReportLink(c) PROVE Hands'
  BY <1>28 DEF ReportLink
<1>29. ASSUME NEW c \in Candidate, ReportStop(c) PROVE Hands'
  BY <1>29 DEF ReportStop, UpdateWaiting, WaitingOf
<1>30. ASSUME NEW c \in Candidate, ReportList(c) PROVE Hands'
  BY <1>30 DEF ReportList
<1>31. ASSUME NEW c \in Candidate, ReportEnd(c) PROVE Hands'
  BY <1>31 DEF ReportEnd
<1>32. ASSUME NEW c \in Candidate, NEW j \in Job, ReportRefund(c, j) PROVE Hands'
  BY <1>32, ZenonT(60) DEF ReportRefund, Refund
<1>33. ASSUME NEW o \in Org, OpenWallet(o) PROVE Hands'
  BY <1>33 DEF OpenWallet
<1>34. ASSUME NEW o \in Org, TopUp(o) PROVE Hands'
  BY <1>34 DEF TopUp
<1>35. ASSUME FailStuck PROVE Hands'
  BY <1>35 DEF FailStuck, UpdateRows, Exhausted, Stuck
<1>36. ASSUME RequeueStuck PROVE Hands'
  BY <1>36 DEF RequeueStuck, UpdateRows, Recoverable, Stuck
<1>37. ASSUME PauseHolds PROVE Hands'
  BY <1>37 DEF PauseHolds, UpdateRows
<1>38. ASSUME ResumeHolds PROVE Hands'
  BY <1>38 DEF ResumeHolds, UpdateRows
<1>39. CASE UNCHANGED vars
  BY <1>39 DEF vars
<1> QED
  BY <1>1, <1>2, <1>3, <1>4, <1>5, <1>6, <1>7, <1>8, <1>9, <1>10, <1>11, <1>12,
     <1>13, <1>14, <1>15, <1>16, <1>17, <1>18, <1>19, <1>20, <1>21, <1>22, <1>23, <1>24,
     <1>25, <1>26, <1>27, <1>28, <1>29, <1>30, <1>31, <1>32, <1>33, <1>34, <1>35, <1>36,
     <1>37, <1>38, <1>39
     DEF Next, LoopStep, ClaimStep, EvaluateStep, SettleStep, ChargeStep, RequestStep,
         ReportStep, Maintenance

LEMMA InitInv == Init => IInv
BY QueueAssumption
   DEF Init, IInv, Hands, TypeOK, JobTypes, RequestTypes, MoneyTypes, LoopTypes, Status,
       ReportPhase, Label, Holding, Settled, Active, MineIsRow, HeldRows, OneHolder,
       OneActiveJob, WaitingHasTries, UnusedUntried, ChargedOver, Holds

LEMMA StepInv == IInv /\ [Next]_vars => IInv'
BY TypeStep, HandsStep DEF IInv, Hands

\* Rows and loops correspond in every reachable state.
THEOREM InductiveInvariant == Spec => []IInv
BY InitInv, StepInv, PTL DEF Spec

\* Every variable keeps its type.
THEOREM TypeCorrect == Spec => []TypeOK
<1>1. IInv => TypeOK
  BY DEF IInv
<1> QED
  BY <1>1, InductiveInvariant, PTL

\* At most one row of a candidate is active, with any number of requests
\* enqueueing at once and any worker reviving a row.
THEOREM AtMostOneActiveJob == Spec => []OneActiveJob
<1>1. IInv => OneActiveJob
  BY DEF IInv, Hands
<1> QED
  BY <1>1, InductiveInvariant, PTL

\* Two living loops never hold the same row, although rows are taken from
\* loops that died.
THEOREM RowsHaveOneHolder == Spec => []OneHolder
<1>1. IInv => OneHolder
  BY DEF IInv, Hands
<1> QED
  BY <1>1, InductiveInvariant, PTL

\* A row in the queue has attempts left, through crashes, requeues and outages.
THEOREM WaitingRowsHaveTries == Spec => []WaitingHasTries
<1>1. IInv => WaitingHasTries
  BY DEF IInv, Hands
<1> QED
  BY <1>1, InductiveInvariant, PTL

\* The ledger row of a charge is never deleted.
LEMMA ChargedGrows == [Next]_vars => charged \subseteq charged'
<1>1. ASSUME NEW w \in Loop, LoopStep(w) PROVE charged \subseteq charged'
  BY <1>1 DEF LoopStep, ClaimStep, StartLoop, Snapshot, PickNothing, Claim, LookAgain, PickRow,
        EvaluateStep, StartEvaluation, EvaluateDuplicate, Evaluate, SettleStep, MarkDone,
        MarkDoneThrows, FailForGood, FailOrRetry, RequeueOutage, ChargeStep, CheckCharge,
        ChargeJob, ChargeThrows, Charge, RecheckReport, Refund
<1>2. ASSUME NEW c \in Candidate, ReportStep(c) PROVE charged \subseteq charged'
  BY <1>2 DEF ReportStep, ReportClaim, ReportRelease, ReportLink, ReportStop, ReportList,
        ReportEnd, ReportRefund, Refund
<1>3. CASE UNCHANGED vars
  BY <1>3 DEF vars
<1> QED
  BY <1>1, <1>2, <1>3
     DEF Next, Die, RequestStep, LookForActive, InsertJob, BecomeDue, LockExpires,
         CloseCandidate, DeleteCandidate, OpenWallet, TopUp, Maintenance, FailStuck,
         RequeueStuck, PauseHolds, ResumeHolds

\* A charged row never goes back to the queue.
THEOREM ChargedNeverRestart == Spec => ChargedStaysDone
<1>1. IInv /\ [Next]_vars
        => [\A j \in charged : status[j] \in {"done", "gone"}
                               /\ status'[j] \in {"done", "gone"}]_vars
  <2> SUFFICES ASSUME IInv, [Next]_vars, NEW j \in charged
               PROVE  status[j] \in {"done", "gone"} /\ status'[j] \in {"done", "gone"}
    OBVIOUS
  <2>1. charged \subseteq charged'
    BY ChargedGrows
  <2>2. IInv'
    BY StepInv
  <2> QED
    BY <2>1, <2>2 DEF IInv, Hands, ChargedOver
<1> QED
  BY <1>1, InductiveInvariant, PTL DEF Spec, ChargedStaysDone

-----------------------------------------------------------------------------
(* The slots.                                                              *)

\* Only the claiming UPDATE puts a row in process.
LEMMA ProcessingGrows ==
  ASSUME IInv, [Next]_vars
  PROVE  \/ Processing' \subseteq Processing
         \/ \E w \in Loop : pc[w] = "claim" /\ Claim(w)
<1> USE DEF Processing
<1>1. ASSUME NEW w \in Loop, LoopStep(w), ~Claim(w) PROVE Processing' \subseteq Processing
  BY <1>1 DEF LoopStep, ClaimStep, StartLoop, Snapshot, PickNothing, LookAgain, PickRow,
        EvaluateStep, StartEvaluation, EvaluateDuplicate, Cascade, Evaluate, SettleStep,
        MarkDone, MarkDoneThrows, FailForGood, FailOrRetry, RequeueOutage, Requeue,
        RowBecomes, ChargeStep, CheckCharge, ChargeJob, ChargeThrows, RecheckReport,
        IInv, TypeOK, JobTypes
<1>2. ASSUME NEW c \in Candidate, ReportStep(c) PROVE Processing' \subseteq Processing
  BY <1>2 DEF ReportStep, ReportClaim, ReportRelease, ReportLink, ReportStop, UpdateWaiting,
        ReportList, ReportEnd, ReportRefund, IInv, TypeOK, JobTypes
<1>3. CASE UNCHANGED vars
  BY <1>3 DEF vars
<1>4. ASSUME NEW r \in Requester, RequestStep(r) PROVE Processing' \subseteq Processing
  BY <1>4 DEF RequestStep, LookForActive, InsertJob, IInv, TypeOK, JobTypes
<1>5. ASSUME Maintenance PROVE Processing' \subseteq Processing
  BY <1>5 DEF Maintenance, FailStuck, RequeueStuck, PauseHolds, ResumeHolds, UpdateRows,
        IInv, TypeOK, JobTypes
<1> QED
  BY <1>1, <1>2, <1>3, <1>4, <1>5
     DEF Next, Claim, Die, BecomeDue, LockExpires, CloseCandidate, UpdateWaiting,
         DeleteCandidate, Cascade, OpenWallet, TopUp, IInv, TypeOK, JobTypes

LEMMA SlotsStep ==
  ASSUME IInv, [Next]_vars, InFlightBounded
  PROVE  InFlightBounded'
<1>1. IsFiniteSet(Processing) /\ Cardinality(Processing) \in Nat
  BY QueueAssumption, FS_Subset, FS_CardinalityType DEF Processing
<1>2. CASE Processing' \subseteq Processing
  <2>1. Cardinality(Processing') <= Cardinality(Processing)
    BY <1>1, <1>2, FS_Subset
  <2>2. Cardinality(Processing') \in Nat
    BY <1>1, <1>2, FS_Subset, FS_CardinalityType
  <2> QED
    BY <1>1, <2>1, <2>2, QueueAssumption DEF InFlightBounded
<1>3. ASSUME NEW w \in Loop, pc[w] = "claim", Claim(w), ~(Processing' \subseteq Processing)
      PROVE  InFlightBounded'
  <2>1. mine[w] \in Job
    BY <1>3 DEF IInv, Hands, MineIsRow
  <2>2. ClaimAllowed(w, mine[w])
    BY <1>3 DEF Claim, Processing
  <2>3. Processing' = Processing \cup {mine[w]} /\ mine[w] \notin Processing
    BY <1>3, <2>1, <2>2 DEF Claim, ClaimAllowed, Processing, IInv, TypeOK, JobTypes
  <2>4. Cardinality(Processing') = Cardinality(Processing) + 1
    BY <1>1, <2>3, FS_AddElement
  <2>5. Cardinality(Processing) < MaxConcurrency
    BY <2>2 DEF ClaimAllowed
  <2> QED
    BY <1>1, <2>4, <2>5, QueueAssumption DEF InFlightBounded
<1> QED
  BY <1>2, <1>3, ProcessingGrows

LEMMA SlotsInit == Init => InFlightBounded
<1> SUFFICES ASSUME Init PROVE InFlightBounded
  OBVIOUS
<1>1. Processing = {}
  BY DEF Init, Processing
<1> QED
  BY <1>1, FS_EmptySet, QueueAssumption DEF InFlightBounded

\* No more rows are in process than there are slots, whatever the number of
\* loops and however stale the snapshots they decide on.
THEOREM SlotsAreNotExceeded == Spec => []InFlightBounded
BY SlotsInit, SlotsStep, InductiveInvariant, PTL DEF Spec

-----------------------------------------------------------------------------
(* The refinement.                                                         *)

\* Without statement faults a loop that goes to retry has not settled its row.
RetryUnsettled ==
    \A w \in Loop : pc[w] \in {"retry", "outage"} => status[mine[w]] # "done"

LEMMA RetryUnsettledStep ==
  ASSUME IInv, RetryUnsettled, ~Faults, [Next]_vars
  PROVE  RetryUnsettled'
<1> SUFFICES ASSUME NEW v \in Loop, pc'[v] \in {"retry", "outage"}
             PROVE  status'[mine'[v]] # "done"
  BY DEF RetryUnsettled
<1> USE DEF Goto
<1>0. /\ pc \in [Loop -> Label] /\ mine \in [Loop -> Job \cup {NoJob}]
      /\ status \in [Job -> Status]
  BY DEF IInv, TypeOK, JobTypes, LoopTypes
<1>1. CASE pc[v] \in {"retry", "outage"} /\ mine'[v] = mine[v]
  <2>1. mine[v] \in Job /\ status[mine[v]] \in {"processing", "gone"}
    BY <1>1 DEF IInv, Hands, MineIsRow, HeldRows, Holding, RetryUnsettled
  <2>2. \A w \in Loop \ {v} : pc[w] \in Holding \cup Settled => mine[w] # mine[v]
    BY <1>1 DEF IInv, Hands, OneHolder, Holding
  <2>3. ASSUME NEW w \in Loop, LoopStep(w) PROVE status'[mine[v]] # "done"
    BY <1>0, <1>1, <2>1, <2>2, <2>3
       DEF LoopStep, ClaimStep, StartLoop, Snapshot, PickNothing, Claim, ClaimAllowed, LookAgain,
           PickRow, EvaluateStep, StartEvaluation, EvaluateDuplicate, Cascade, Evaluate,
           SettleStep, MarkDone, MarkDoneThrows, FailForGood, FailOrRetry, RequeueOutage,
           Requeue, RowBecomes, NextJob, ChargeStep, CheckCharge, ChargeJob, ChargeThrows,
           RecheckReport, Holding
  <2>4. ASSUME NEW c \in Candidate, ReportStep(c) PROVE status'[mine[v]] # "done"
    BY <1>0, <2>1, <2>4
       DEF ReportStep, ReportClaim, ReportRelease, ReportLink, ReportStop, UpdateWaiting,
           WaitingOf, ReportList, ReportEnd, ReportRefund, jobVars
  <2>5. ASSUME NEW r \in Requester, RequestStep(r) PROVE status'[mine[v]] # "done"
    BY <1>0, <2>1, <2>5 DEF RequestStep, LookForActive, InsertJob
  <2>6. ASSUME Maintenance PROVE status'[mine[v]] # "done"
    BY <1>0, <2>1, <2>6
       DEF Maintenance, FailStuck, RequeueStuck, PauseHolds, ResumeHolds, UpdateRows
  <2>7. CASE UNCHANGED vars
    BY <2>1, <2>7 DEF vars
  <2> QED
    BY <1>0, <1>1, <2>1, <2>3, <2>4, <2>5, <2>6, <2>7
       DEF Next, Die, BecomeDue, LockExpires, CloseCandidate, UpdateWaiting, WaitingOf,
           DeleteCandidate, Cascade, OpenWallet, TopUp
<1>2. CASE pc[v] = "eval" /\ mine'[v] = mine[v] /\ status' = status
  BY <1>2 DEF IInv, Hands, HeldRows
<1>3. \/ pc[v] \in {"retry", "outage"} /\ mine'[v] = mine[v]
      \/ pc[v] = "eval" /\ mine'[v] = mine[v] /\ status' = status
  <2>1. ASSUME NEW w \in Loop, LoopStep(w) PROVE <1>3
    BY <1>0, <2>1
       DEF LoopStep, ClaimStep, StartLoop, Snapshot, PickNothing, Claim, LookAgain,
           PickRow, EvaluateStep, StartEvaluation, EvaluateDuplicate, Cascade, Evaluate,
           SettleStep, MarkDone, MarkDoneThrows, FailForGood, FailOrRetry, RequeueOutage,
           Requeue, NextJob, ChargeStep, CheckCharge, ChargeJob, ChargeThrows,
           RecheckReport
  <2>2. CASE UNCHANGED <<pc, mine>>
    BY <2>2
  <2>3. ASSUME NEW c \in Candidate, ReportStep(c) PROVE UNCHANGED <<pc, mine>>
    BY <2>3
       DEF ReportStep, ReportClaim, ReportRelease, ReportLink, ReportStop, ReportList,
           ReportEnd, ReportRefund
  <2>4. ASSUME NEW w \in Loop, Die(w) PROVE <1>3
    BY <1>0, <2>4 DEF Die
  <2> QED
    BY <2>1, <2>2, <2>3, <2>4
       DEF Next, vars, RequestStep, LookForActive, InsertJob, BecomeDue, LockExpires,
           CloseCandidate, DeleteCandidate, OpenWallet, TopUp, Maintenance, FailStuck,
           RequeueStuck, PauseHolds, ResumeHolds
<1> QED
  BY <1>1, <1>2, <1>3

\* What a step is for the pool: a stutter, ...
LEMMA PoolStutters ==
  ASSUME UNCHANGED <<cand, charged>>, \A j \in Job : Stage(j)' = Stage(j)
  PROVE  UNCHANGED Pool!vars
BY DEF Pool!vars

\* ... the end of some evaluations, ...
LEMMA PoolEnds ==
  ASSUME UNCHANGED <<cand, charged>>, NEW S \in SUBSET Job,
         \A j \in S : status[j] # "free" /\ status'[j] \in {"done", "failed", "gone"},
         \A j \in Job \ S : status'[j] = status[j],
         status \in [Job -> Status]
  PROVE  Pool!Next
<1>1. \A j \in S : Stage(j) # "unused" /\ Stage(j)' = "over"
  BY DEF Stage, Status
<1>2. \A j \in Job \ S : Stage(j)' = Stage(j)
  BY DEF Stage
<1>3. Pool!End(S)
  BY <1>1, <1>2 DEF Pool!End
<1> QED
  BY <1>3 DEF Pool!Next

\* ... or the return of some to the queue.
LEMMA PoolPutsBack ==
  ASSUME UNCHANGED <<cand, charged>>, NEW S \in SUBSET Processing,
         \A j \in S : status'[j] = "queued",
         \A j \in Job \ S : status'[j] = status[j]
  PROVE  Pool!Next
<1>1. \A j \in S : j \in Job /\ Stage(j) = "running" /\ Stage(j)' = "waiting"
  BY DEF Stage, Processing
<1>2. \A j \in Job \ S : Stage(j)' = Stage(j)
  BY DEF Stage
<1>3. Pool!PutBack(S)
  BY <1>1, <1>2 DEF Pool!PutBack, Pool!Running
<1>4. S \in SUBSET Job
  BY DEF Processing
<1> QED
  BY <1>3, <1>4 DEF Pool!Next

LEMMA PoolStep ==
  ASSUME IInv, RetryUnsettled, ~Faults, [Next]_vars
  PROVE  [Pool!Next]_(Pool!vars)
<1> USE DEF Goto
<1>0. /\ pc \in [Loop -> Label] /\ mine \in [Loop -> Job \cup {NoJob}]
      /\ status \in [Job -> Status] /\ charged \in SUBSET Job
      /\ cand \in [Job -> Candidate \cup {NoCandidate}]
  BY DEF IInv, TypeOK, JobTypes, LoopTypes, MoneyTypes
<1>a. ASSUME UNCHANGED <<status, cand, charged>> PROVE UNCHANGED Pool!vars
  BY <1>a, PoolStutters DEF Stage
\* The claim starts an evaluation.
<1>1. ASSUME NEW w \in Loop, Claim(w) PROVE [Pool!Next]_(Pool!vars)
  <2> DEFINE j == mine[w]
  <2>1. j \in Job
    BY <1>1 DEF Claim, IInv, Hands, MineIsRow
  <2>2. CASE ~ClaimAllowed(w, j)
    BY <1>1, <2>2, <1>a DEF Claim
  <2>3. CASE ClaimAllowed(w, j)
    <3>1. Pool!Running = Processing
      <4>1. \A k \in Job : Stage(k) = "running" <=> status[k] = "processing"
        BY <1>0 DEF Stage, Status
      <4> QED
        BY <4>1 DEF Pool!Running, Processing
    <3>2. Stage(j) = "waiting" /\ Stage(j)' = "running"
      BY <1>0, <1>1, <2>1, <2>3 DEF Claim, ClaimAllowed, Stage
    <3>3. \A k \in Job \ {j} : Stage(k)' = Stage(k)
      BY <1>0, <1>1, <2>1, <2>3 DEF Claim, Stage
    <3>4. Pool!Cardinality(Pool!Running) < MaxConcurrency
      <4>1. Pool!Cardinality(Processing) = Cardinality(Processing)
        BY DEF Pool!Cardinality, Cardinality
      <4> QED
        BY <2>3, <3>1, <4>1 DEF ClaimAllowed
    <3>5. Pool!Start(j)
      BY <1>1, <2>1, <3>2, <3>3, <3>4 DEF Pool!Start, Claim
    <3> QED
      BY <2>1, <3>5 DEF Pool!Next
  <2> QED
    BY <2>2, <2>3
\* An enqueued row is a submission.
<1>2. ASSUME NEW r \in Requester, NEW j \in Job, InsertJob(r, j)
      PROVE [Pool!Next]_(Pool!vars)
  <2> DEFINE c == req[r]
             won == c \notin removed /\ IndexAllows(j, c)
  <2>1. c \in Candidate
    BY <1>2 DEF InsertJob, IInv, TypeOK, RequestTypes
  <2>2. CASE ~won
    BY <1>2, <2>2, <1>a DEF InsertJob
  <2>3. CASE won
    <3>1. Stage(j) = "unused" /\ Stage(j)' = "waiting"
      BY <1>0, <1>2, <2>3 DEF InsertJob, Stage
    <3>2. \A k \in Job \ {j} : Stage(k)' = Stage(k)
      BY <1>0, <1>2, <2>3 DEF InsertJob, Stage
    <3>3. Pool!Live(c) = {}
      <4>1. \A k \in Job : Stage(k) \in {"waiting", "running"} => status[k] \in Active
        BY <1>0 DEF Stage, Status, Active
      <4> QED
        BY <2>3, <3>1, <4>1 DEF Pool!Live, IndexAllows
    <3>4. Pool!Submit(j, c)
      BY <1>0, <1>2, <2>3, <3>1, <3>2, <3>3 DEF Pool!Submit, InsertJob
    <3> QED
      BY <2>1, <3>4 DEF Pool!Next
  <2> QED
    BY <2>2, <2>3
\* Settling ends the evaluation, unless it is put back.
<1>3. ASSUME NEW w \in Loop, NEW s \in {"done", "failed"}, pc[w] \in Holding,
             RowBecomes(mine[w], s), UNCHANGED <<cand, charged>>
      PROVE  [Pool!Next]_(Pool!vars)
  <2>1. mine[w] \in Job /\ status[mine[w]] # "free"
    BY <1>3 DEF IInv, Hands, MineIsRow
  <2>2. status'[mine[w]] \in {"done", "failed", "gone"}
    BY <1>0, <1>3, <2>1 DEF RowBecomes
  <2>3. \A k \in Job \ {mine[w]} : status'[k] = status[k]
    BY <1>0, <1>3, <2>1 DEF RowBecomes
  <2> DEFINE S == {mine[w]}
  <2>4. /\ S \in SUBSET Job
        /\ \A k \in S : status[k] # "free" /\ status'[k] \in {"done", "failed", "gone"}
        /\ \A k \in Job \ S : status'[k] = status[k]
    BY <2>1, <2>2, <2>3
  <2> HIDE DEF S
  <2> QED
    BY <1>0, <1>3, <2>4, PoolEnds
<1>4. ASSUME NEW w \in Loop, NEW t, pc[w] \in {"retry", "outage"}, Requeue(w, t),
             UNCHANGED <<cand, charged>>
      PROVE  [Pool!Next]_(Pool!vars)
  <2>1. mine[w] \in Job /\ status[mine[w]] \in {"processing", "gone"}
    BY <1>4 DEF IInv, Hands, MineIsRow, HeldRows, Holding, RetryUnsettled
  <2>2. CASE status[mine[w]] = "processing" /\ status' # status
    <3>1. status'[mine[w]] = "queued" /\ \A k \in Job \ {mine[w]} : status'[k] = status[k]
      BY <1>0, <1>4, <2>1, <2>2 DEF Requeue, RowBecomes
    <3>2. {mine[w]} \in SUBSET Processing
      BY <2>1, <2>2 DEF Processing
    <3> QED
      BY <1>4, <3>1, <3>2, PoolPutsBack
  <2>3. CASE status[mine[w]] = "gone" \/ status' = status
    <3>1. status' = status
      BY <1>0, <1>4, <2>1, <2>3 DEF Requeue, RowBecomes
    <3> QED
      BY <1>4, <1>a, <3>1
  <2> QED
    BY <2>1, <2>2, <2>3
\* A charge pays an evaluation that is over.
<1>5. ASSUME NEW w \in Loop, pc[w] = "charge", Charge(mine[w]), UNCHANGED <<status, cand>>
      PROVE  [Pool!Next]_(Pool!vars)
  <2>1. mine[w] \in Job /\ status[mine[w]] \in {"done", "gone"}
    BY <1>5 DEF IInv, Hands, MineIsRow, HeldRows, Settled
  <2>2. CASE mine[w] \in charged
    <3>1. charged' = charged
      BY <1>5, <2>2 DEF Charge
    <3> QED
      BY <1>5, <1>a, <3>1
  <2>3. CASE mine[w] \notin charged
    <3>1. Stage(mine[w]) = "over" /\ \A k \in Job : Stage(k)' = Stage(k)
      BY <1>5, <2>1 DEF Stage
    <3>2. Pool!Pay(mine[w])
      BY <1>5, <2>1, <2>3, <3>1 DEF Pool!Pay, Charge
    <3> QED
      BY <2>1, <3>2 DEF Pool!Next
  <2> QED
    BY <2>2, <2>3
\* Deleting a candidate and closing one end evaluations.
<1>6. ASSUME NEW c \in Candidate, Cascade(c), UNCHANGED charged
      PROVE  [Pool!Next]_(Pool!vars)
  <2> DEFINE S == {j \in Job : cand[j] = c /\ status[j] # "free"}
  <2>1. S \in SUBSET Job /\ UNCHANGED <<cand, charged>>
    BY <1>6 DEF Cascade
  <2>2. \A j \in S : status[j] # "free" /\ status'[j] \in {"done", "failed", "gone"}
    BY <1>6 DEF Cascade
  <2>3. \A j \in Job \ S : status'[j] = status[j]
    BY <1>6 DEF Cascade
  <2> HIDE DEF S
  <2> QED
    BY <1>0, <2>1, <2>2, <2>3, PoolEnds
<1>7. ASSUME NEW c \in Candidate, NEW s \in {"done", "failed"}, UpdateWaiting(c, s),
             UNCHANGED charged
      PROVE  [Pool!Next]_(Pool!vars)
  <2>1. WaitingOf(c) \in SUBSET Job /\ UNCHANGED <<cand, charged>>
    BY <1>7 DEF UpdateWaiting, WaitingOf
  <2>2. \A j \in WaitingOf(c) : status[j] # "free" /\ status'[j] \in {"done", "failed", "gone"}
    BY <1>7 DEF UpdateWaiting, WaitingOf
  <2>3. \A j \in Job \ WaitingOf(c) : status'[j] = status[j]
    BY <1>7 DEF UpdateWaiting
  <2> QED
    BY <1>0, <2>1, <2>2, <2>3, PoolEnds
\* The maintenance ends or puts back what dead workers left, or holds what waits.
<1>8. ASSUME Maintenance PROVE [Pool!Next]_(Pool!vars)
  <2>0. UNCHANGED <<cand, charged>>
    BY <1>8 DEF Maintenance, FailStuck, RequeueStuck, PauseHolds, ResumeHolds
  <2>1. CASE FailStuck
    <3> DEFINE S == {j \in Job : Exhausted(j)}
    <3>1. \A j \in S : status[j] # "free" /\ status'[j] \in {"done", "failed", "gone"}
      BY <2>1 DEF FailStuck, UpdateRows, Exhausted, Stuck
    <3>2. \A j \in Job \ S : status'[j] = status[j]
      BY <2>1 DEF FailStuck, UpdateRows
    <3>3. S \in SUBSET Job
      OBVIOUS
    <3> HIDE DEF S
    <3> QED
      BY <1>0, <2>0, <3>1, <3>2, <3>3, PoolEnds
  <2>2. CASE RequeueStuck
    <3> DEFINE S == {j \in Job : Recoverable(j)}
    <3>1. \A j \in S : status'[j] = "queued"
      BY <2>2 DEF RequeueStuck, UpdateRows
    <3>2. \A j \in Job \ S : status'[j] = status[j]
      BY <2>2 DEF RequeueStuck, UpdateRows
    <3>3. S \in SUBSET Processing
      BY DEF Processing, Recoverable, Stuck
    <3> HIDE DEF S
    <3> QED
      BY <2>0, <3>1, <3>2, <3>3, PoolPutsBack
  <2>3. CASE PauseHolds
    BY <2>0, <2>3, PoolStutters DEF PauseHolds, UpdateRows, Stage
  <2>4. CASE ResumeHolds
    BY <2>0, <2>4, PoolStutters DEF ResumeHolds, UpdateRows, Stage
  <2> QED
    BY <1>8, <2>1, <2>2, <2>3, <2>4 DEF Maintenance
<1>9. ASSUME NEW w \in Loop, LoopStep(w) PROVE [Pool!Next]_(Pool!vars)
  <2>1. CASE ClaimStep(w)
    BY <1>1, <1>a, <2>1
       DEF ClaimStep, StartLoop, Snapshot, PickNothing, LookAgain, PickRow
  <2>2. CASE EvaluateStep(w)
    <3>1. CASE EvaluateDuplicate(w)
      <4>1. cand[mine[w]] \in Candidate
        BY <3>1 DEF EvaluateDuplicate, IInv, Hands, MineIsRow, Holding, TypeOK, JobTypes
      <4> QED
        BY <1>6, <3>1, <4>1 DEF EvaluateDuplicate
    <3> QED
      BY <1>a, <2>2, <3>1 DEF EvaluateStep, StartEvaluation, Evaluate
  <2>3. CASE SettleStep(w)
    <3>1. CASE MarkDone(w)
      BY <1>3, <3>1 DEF MarkDone, Holding
    <3>2. CASE FailForGood(w)
      BY <1>3, <3>2 DEF FailForGood, Holding
    <3>3. CASE FailOrRetry(w)
      BY <1>3, <1>4, <3>3 DEF FailOrRetry, Holding
    <3>4. CASE RequeueOutage(w)
      BY <1>4, <3>4 DEF RequeueOutage
    <3> QED
      BY <2>3, <3>1, <3>2, <3>3, <3>4 DEF SettleStep, MarkDoneThrows
  <2>4. CASE ChargeStep(w)
    <3>1. CASE ChargeJob(w)
      BY <1>5, <3>1 DEF ChargeJob
    <3>2. CASE RecheckReport(w)
      <4>1. UNCHANGED <<status, cand, charged>>
        BY <3>2 DEF RecheckReport, Refund
      <4> QED
        BY <4>1, <1>a
    <3> QED
      BY <1>a, <2>4, <3>1, <3>2 DEF ChargeStep, CheckCharge, ChargeThrows
  <2> QED
    BY <1>9, <2>1, <2>2, <2>3, <2>4 DEF LoopStep
<1>10. ASSUME NEW c \in Candidate, ReportStep(c) PROVE [Pool!Next]_(Pool!vars)
  <2>1. CASE ReportStop(c)
    BY <1>7, <2>1 DEF ReportStop
  <2>2. CASE UNCHANGED <<status, cand, charged>>
    BY <1>a, <2>2
  <2> QED
    BY <1>10, <2>1, <2>2
       DEF ReportStep, ReportClaim, ReportRelease, ReportLink, ReportList, ReportEnd,
           ReportRefund, Refund
<1>11. ASSUME NEW c \in Candidate, CloseCandidate(c) \/ DeleteCandidate(c)
       PROVE  [Pool!Next]_(Pool!vars)
  BY <1>6, <1>7, <1>11 DEF CloseCandidate, DeleteCandidate
<1>12. CASE UNCHANGED <<status, cand, charged>>
  BY <1>a, <1>12
<1> QED
  BY <1>2, <1>8, <1>9, <1>10, <1>11, <1>12
     DEF Next, vars, Die, RequestStep, LookForActive, BecomeDue, LockExpires, OpenWallet,
         TopUp

\* Without statement faults the queue implements the pool: whatever dies, races
\* and is recovered, evaluations of a candidate do not overlap, the slots
\* suffice, what has ended does not start again, and only that is paid.
THEOREM QueueImplementsPool == ~Faults /\ Spec => ImplementsPool
<1> SUFFICES ASSUME ~Faults PROVE Spec => ImplementsPool
  OBVIOUS
<1>1. Init => Pool!Init
  BY DEF Init, Pool!Init, Stage
<1>2. Init => RetryUnsettled
  BY DEF Init, RetryUnsettled
<1>3. IInv /\ RetryUnsettled /\ [Next]_vars => RetryUnsettled'
  BY RetryUnsettledStep
<1>4. IInv /\ RetryUnsettled /\ [Next]_vars => [Pool!Next]_(Pool!vars)
  BY PoolStep
<1> QED
  BY <1>1, <1>2, <1>3, <1>4, InductiveInvariant, PTL DEF Spec, ImplementsPool, Pool!Spec

-----------------------------------------------------------------------------
(* The debt.                                                               *)

\* A row keeps its candidate once it is issued.
LEMMA RowsKeepCandidates ==
  ASSUME IInv, [Next]_vars
  PROVE  \A j \in Job : status[j] # "free" => cand'[j] = cand[j]
<1>1. ASSUME NEW w \in Loop, LoopStep(w) PROVE cand' = cand
  BY <1>1 DEF LoopStep, ClaimStep, StartLoop, Snapshot, PickNothing, Claim, LookAgain, PickRow,
        EvaluateStep, StartEvaluation, EvaluateDuplicate, Cascade, Evaluate, SettleStep,
        MarkDone, MarkDoneThrows, FailForGood, FailOrRetry, RequeueOutage, ChargeStep,
        CheckCharge, ChargeJob, ChargeThrows, RecheckReport
<1>2. ASSUME NEW c \in Candidate, ReportStep(c) PROVE cand' = cand
  BY <1>2 DEF ReportStep, ReportClaim, ReportRelease, ReportLink, ReportStop, UpdateWaiting,
        ReportList, ReportEnd, ReportRefund
<1>3. ASSUME NEW r \in Requester, RequestStep(r)
      PROVE  \A j \in Job : status[j] # "free" => cand'[j] = cand[j]
  BY <1>3 DEF RequestStep, LookForActive, InsertJob, IInv, TypeOK, JobTypes
<1>4. ASSUME Maintenance PROVE cand' = cand
  BY <1>4 DEF Maintenance, FailStuck, RequeueStuck, PauseHolds, ResumeHolds
<1>5. ASSUME NEW c \in Candidate, CloseCandidate(c) \/ DeleteCandidate(c) PROVE cand' = cand
  BY <1>5 DEF CloseCandidate, UpdateWaiting, DeleteCandidate, Cascade
<1>6. CASE UNCHANGED vars
  BY <1>6 DEF vars
<1>7. ASSUME NEW w \in Loop, Die(w) PROVE cand' = cand
  BY <1>7 DEF Die
<1> QED
  BY <1>1, <1>2, <1>3, <1>4, <1>5, <1>6, <1>7
     DEF Next, BecomeDue, LockExpires, OpenWallet, TopUp

\* Where a loop is before it charges the row it has picked, and the org it may cost.
Before == Holding \cup {"claim", "check", "charge"}

\* Of the steps that a loop takes, only picking a row commits it, and charging
\* the row ends what it was committed to.
LEMMA LoopCommits ==
  ASSUME IInv, NEW w \in Loop, LoopStep(w) \/ Die(w)
  PROVE  /\ \A v \in Loop \ {w} : pc'[v] = pc[v] /\ mine'[v] = mine[v]
         /\ \/ \E j \in Job : PickRow(w, j)
            \/ pc'[w] \notin Before
            \/ pc[w] \in Before /\ mine'[w] = mine[w]
BY DEF IInv, TypeOK, LoopTypes, Before, Holding, Settled, Label, Goto, NextJob, LoopStep, ClaimStep, StartLoop,
       Snapshot, PickNothing, Claim, LookAgain, PickRow, EvaluateStep, StartEvaluation,
       EvaluateDuplicate, Evaluate, Outcome, SettleStep, MarkDone, MarkDoneThrows, FailForGood,
       FailOrRetry, RequeueOutage, Requeue, ChargeStep, CheckCharge, ChargeJob, ChargeThrows,
       RecheckReport, Die

\* Nobody else commits a loop.
LEMMA OthersCommitNone ==
  ASSUME [Next]_vars, \A w \in Loop : ~LoopStep(w) /\ ~Die(w)
  PROVE  UNCHANGED <<pc, mine>>
BY DEF Next, vars, RequestStep, LookForActive, InsertJob, BecomeDue, LockExpires,
       CloseCandidate, DeleteCandidate, ReportStep, ReportClaim, ReportRelease, ReportLink,
       ReportStop, ReportList, ReportEnd, ReportRefund, OpenWallet, TopUp, Maintenance,
       FailStuck, RequeueStuck, PauseHolds, ResumeHolds

LEMMA CommittedShrinks ==
  ASSUME IInv, [Next]_vars
  PROVE  \A o \in Org :
            \/ Committed(o)' \subseteq Committed(o)
            \/ \E w \in Loop, j \in Job : PickRow(w, j) /\ o = JobOrg(j)
<1> SUFFICES ASSUME NEW o \in Org,
                    \A w \in Loop, j \in Job : PickRow(w, j) => o # JobOrg(j),
                    NEW v \in Loop, v \in Committed(o)'
             PROVE  v \in Committed(o)
  BY DEF Committed
<1>1. pc'[v] \in Before /\ mine'[v] \in Job /\ OrgOf[cand'[mine'[v]]] = o
  BY DEF Committed, Before, JobOrg
<1>2. CASE pc[v] \in Before /\ mine'[v] = mine[v]
  <2>1. status[mine[v]] # "free"
    BY <1>2 DEF Before, IInv, Hands, MineIsRow, Settled
  <2>2. cand'[mine[v]] = cand[mine[v]]
    BY <1>1, <1>2, <2>1, RowsKeepCandidates
  <2> QED
    BY <1>1, <1>2, <2>2 DEF Committed, Before, JobOrg
<1>3. ASSUME NEW w \in Loop, NEW j \in Job, PickRow(w, j) PROVE v \in Committed(o)
  <2>1. CASE v = w
    BY <1>1, <1>3, <2>1 DEF PickRow, JobOrg, IInv, TypeOK, LoopTypes
  <2>2. CASE v # w
    BY <1>1, <1>2, <1>3, <2>2 DEF PickRow, Goto, IInv, TypeOK, LoopTypes
  <2> QED
    BY <2>1, <2>2
<1>4. ASSUME NEW w \in Loop, LoopStep(w) \/ Die(w) PROVE v \in Committed(o)
  BY <1>1, <1>2, <1>3, <1>4, LoopCommits
<1>5. CASE UNCHANGED <<pc, mine>>
  BY <1>1, <1>2, <1>5
<1> QED
  BY <1>4, <1>5, OthersCommitNone

\* Only orgs that pay have a wallet, a wallet that is not there is empty, and
\* what was charged was charged to a wallet.
Wallets ==
    /\ \A o \in Org \ opened : wallet[o] = 0
    /\ opened \cap Unmetered = {}
    /\ \A j \in charged : JobOrg(j) \in opened
    /\ \A w \in Loop : pc[w] = "charge" => JobOrg(mine[w]) \notin Unmetered

\* The steps that move money.
LEMMA MoneyMoves ==
  ASSUME IInv, [Next]_vars
  PROVE  \/ UNCHANGED moneyVars
         \/ \E w \in Loop : /\ pc[w] = "charge" /\ Charge(mine[w])
                            /\ pc'[w] \notin Before
         \/ \E j \in Job : Refund(j)
         \/ \E o \in Org : OpenWallet(o) \/ TopUp(o)
<1>1. ASSUME NEW w \in Loop, LoopStep(w), ~ChargeJob(w), ~ChargeThrows(w), ~RecheckReport(w)
      PROVE  UNCHANGED moneyVars
  BY <1>1 DEF LoopStep, ClaimStep, StartLoop, Snapshot, PickNothing, Claim, LookAgain, PickRow,
        EvaluateStep, StartEvaluation, EvaluateDuplicate, Evaluate, SettleStep, MarkDone,
        MarkDoneThrows, FailForGood, FailOrRetry, RequeueOutage, ChargeStep, CheckCharge
<1>2. ASSUME NEW w \in Loop, ChargeJob(w) \/ ChargeThrows(w)
      PROVE  UNCHANGED moneyVars \/ (pc[w] = "charge" /\ Charge(mine[w]) /\ pc'[w] \notin Before)
  BY <1>2 DEF ChargeJob, ChargeThrows, NextJob, Goto, Before, Holding, IInv, TypeOK, LoopTypes
<1>3. ASSUME NEW w \in Loop, RecheckReport(w)
      PROVE  UNCHANGED moneyVars \/ \E j \in Job : Refund(j)
  BY <1>3 DEF RecheckReport, IInv, Hands, MineIsRow, Settled
<1>4. ASSUME NEW c \in Candidate, ReportStep(c)
      PROVE  UNCHANGED moneyVars \/ \E j \in Job : Refund(j)
  BY <1>4 DEF ReportStep, ReportClaim, ReportRelease, ReportLink, ReportStop, ReportList,
        ReportEnd, ReportRefund
<1> QED
  BY <1>1, <1>2, <1>3, <1>4
     DEF Next, vars, Die, RequestStep, LookForActive, InsertJob, BecomeDue, LockExpires,
         CloseCandidate, DeleteCandidate, Maintenance, FailStuck, RequeueStuck, PauseHolds,
         ResumeHolds

\* No loop is about to charge an org that does not pay.
LEMMA ChargeIsMetered ==
  ASSUME IInv, Wallets, [Next]_vars, NEW w \in Loop, pc'[w] = "charge"
  PROVE  JobOrg(mine[w])' \notin Unmetered
<1>1. mine[w]' = mine[w] /\ pc[w] \in Settled
         /\ (pc[w] = "charge" \/ JobOrg(mine[w]) \notin Unmetered)
  <2>1. ASSUME NEW v \in Loop, LoopStep(v) \/ Die(v) PROVE <1>1
    BY <2>1 DEF IInv, TypeOK, LoopTypes, Settled, Label, Goto, NextJob, LoopStep, ClaimStep,
         StartLoop, Snapshot, PickNothing, Claim, LookAgain, PickRow, EvaluateStep,
         StartEvaluation, EvaluateDuplicate, Evaluate, Outcome, SettleStep, MarkDone,
         MarkDoneThrows, FailForGood, FailOrRetry, RequeueOutage, Requeue, ChargeStep,
         CheckCharge, Exempt, JobOrg, ChargeJob, ChargeThrows, RecheckReport, Die
  <2> QED
    BY <2>1, OthersCommitNone DEF Settled
<1>2. cand'[mine[w]] = cand[mine[w]]
  BY <1>1, RowsKeepCandidates DEF IInv, Hands, MineIsRow
<1> QED
  BY <1>1, <1>2 DEF Wallets, JobOrg

LEMMA WalletsStep ==
  ASSUME IInv, Wallets, [Next]_vars
  PROVE  Wallets'
<1>0. /\ wallet \in [Org -> Int] /\ opened \in SUBSET Org
      /\ \A j \in charged : j \in Job /\ status[j] # "free"
      /\ \A w \in Loop : pc[w] = "charge" => mine[w] \in Job /\ cand[mine[w]] \in Candidate
  BY DEF IInv, TypeOK, JobTypes, MoneyTypes, Hands, ChargedOver, MineIsRow, Settled
<1>a. \A j \in charged : JobOrg(j)' = JobOrg(j)
  BY <1>0, RowsKeepCandidates DEF JobOrg
<1>b. \A w \in Loop : pc[w] = "charge" => JobOrg(mine[w]) \in Org
  BY <1>0, QueueAssumption DEF JobOrg
<1>1. /\ \A o \in Org \ opened' : wallet'[o] = 0
      /\ opened' \cap Unmetered = {}
      /\ \A j \in charged' : JobOrg(j)' \in opened'
  <2>1. CASE UNCHANGED moneyVars
    BY <1>0, <1>a, <2>1 DEF Wallets
  <2>2. ASSUME NEW w \in Loop, pc[w] = "charge", Charge(mine[w]) PROVE <1>1
    <3>1. JobOrg(mine[w]) \in Org \ Unmetered
      BY <1>b, <2>2 DEF Wallets
    <3>2. JobOrg(mine[w])' = JobOrg(mine[w])' /\ cand'[mine[w]] = cand[mine[w]]
      BY <2>2, RowsKeepCandidates DEF IInv, Hands, MineIsRow, Settled
    <3>3. \A j \in charged' : OrgOf[cand'[j]] \in opened'
      BY <1>a, <2>2, <3>2 DEF Wallets, Charge, JobOrg
    <3> QED
      BY <1>0, <2>2, <3>1, <3>3 DEF Wallets, Charge, JobOrg
  <2>3. ASSUME NEW j \in Job, Refund(j) PROVE <1>1
    BY <1>0, <1>a, <2>3 DEF Wallets, Refund
  <2>4. ASSUME NEW o \in Org, OpenWallet(o) \/ TopUp(o) PROVE <1>1
    BY <1>0, <1>a, <2>4 DEF Wallets, OpenWallet, TopUp
  <2> QED
    BY <2>1, <2>2, <2>3, <2>4, MoneyMoves
<1> QED
  BY <1>1, ChargeIsMetered DEF Wallets

\* The bound, in numbers.
LEMMA LessFree ==
  ASSUME NEW c \in Nat, NEW n \in Nat, NEW a \in Nat, NEW b \in 0..a
  PROVE  -c * (n - b) <= -c * (n - a)
<1>1. c * (a - b) >= 0
  BY SMT
<1>2. c * (n - b) = c * (n - a) + c * (a - b)
  BY SMT
<1> QED
  BY <1>1, <1>2, SMT

LEMMA OneFreed ==
  ASSUME NEW c \in Nat, NEW n \in Nat, NEW a \in Nat \ {0}
  PROVE  -c * (n - a) - c = -c * (n - (a - 1))
BY SMT

LEMMA NothingOwing ==
  ASSUME NEW c \in Nat, NEW n \in Nat, NEW a \in 0..n
  PROVE  -c * (n - a) <= 0
<1>1. c * (n - a) >= 0
  BY SMT
<1> QED
  BY <1>1, SMT

LEMMA CommittedCount ==
  ASSUME NEW S \in SUBSET Loop
  PROVE  IsFiniteSet(S) /\ Cardinality(S) \in 0..Cardinality(Loop) /\ Cardinality(Loop) \in Nat
BY QueueAssumption, FS_Subset, FS_CardinalityType

LEMMA DebtStep ==
  ASSUME IInv, Wallets, DebtBounded, [Next]_vars
  PROVE  DebtBounded'
<1> SUFFICES ASSUME NEW o \in Org
             PROVE  wallet'[o] >= -Cost * (Cardinality(Loop) - Cardinality(Committed(o)'))
  BY DEF DebtBounded
<1> DEFINE n == Cardinality(Loop)
           C == Committed(o)
           D == Committed(o)'
<1>0. wallet \in [Org -> Int] /\ wallet' \in [Org -> Int] /\ Cost \in Nat /\ Grant \in Nat
  BY StepInv, QueueAssumption DEF IInv, TypeOK, MoneyTypes
<1>1. C \in SUBSET Loop /\ D \in SUBSET Loop
  BY DEF Committed
<1>2. /\ IsFiniteSet(C) /\ Cardinality(C) \in 0..n /\ n \in Nat
      /\ IsFiniteSet(D) /\ Cardinality(D) \in 0..n
  BY <1>1, CommittedCount
<1>3. wallet[o] >= -Cost * (n - Cardinality(C))
  BY DEF DebtBounded
\* A row is picked only while its org has tokens or pays nothing.
<1>4. ASSUME NEW w \in Loop, NEW j \in Job, PickRow(w, j), o = JobOrg(j)
      PROVE  wallet'[o] >= -Cost * (n - Cardinality(D))
  <2>1. wallet[o] >= 0
    BY <1>0, <1>4 DEF PickRow, Pickable, Claimable, Spendable, Wallets
  <2>2. wallet'[o] >= 0
    BY <1>4, <2>1 DEF PickRow
  <2>3. -Cost * (n - Cardinality(D)) <= 0
    BY <1>0, <1>2, NothingOwing
  <2> HIDE DEF n, D
  <2>4. Cardinality(D) \in Int /\ n \in Int
    BY <1>2
  <2> QED
    BY <1>0, <2>2, <2>3, <2>4
<1>5. ASSUME D \subseteq C PROVE wallet'[o] >= -Cost * (n - Cardinality(D))
  <2>1. Cardinality(D) <= Cardinality(C)
    BY <1>2, <1>5, FS_Subset
  <2>2. -Cost * (n - Cardinality(D)) <= -Cost * (n - Cardinality(C))
    BY <1>0, <1>2, <2>1, LessFree
  <2>3. CASE wallet'[o] >= wallet[o]
    <3> HIDE DEF n, C, D
    <3> QED
      BY <1>0, <1>2, <1>3, <2>2, <2>3
  \* A charge ends what the loop was committed to.
  <2>4. ASSUME NEW w \in Loop, pc[w] = "charge", Charge(mine[w]), pc'[w] \notin Before,
               ~(wallet'[o] >= wallet[o])
        PROVE  wallet'[o] >= -Cost * (n - Cardinality(D))
    <3>1. o = JobOrg(mine[w]) /\ wallet'[o] = wallet[o] - Cost
      BY <1>0, <2>4 DEF Charge
    <3>2. w \in C /\ w \notin D
      BY <2>4, <3>1 DEF Committed, Before, IInv, Hands, MineIsRow, Settled
    <3>3. D \subseteq C \ {w} /\ IsFiniteSet(C \ {w})
          /\ Cardinality(C \ {w}) = Cardinality(C) - 1
      BY <1>2, <1>5, <3>2, FS_RemoveElement
    <3>4. Cardinality(D) <= Cardinality(C) - 1 /\ Cardinality(C) \in Nat \ {0}
      <4>1. Cardinality(D) <= Cardinality(C \ {w})
        BY <3>3, FS_Subset
      <4> HIDE DEF C, D
      <4> QED
        BY <1>2, <3>3, <4>1
    <3>5. -Cost * (n - Cardinality(D)) <= -Cost * (n - (Cardinality(C) - 1))
      BY <1>0, <1>2, <3>4, LessFree
    <3>6. -Cost * (n - Cardinality(C)) - Cost = -Cost * (n - (Cardinality(C) - 1))
      BY <1>0, <1>2, <3>4, OneFreed
    <3> HIDE DEF n, C, D
    <3> QED
      BY <1>0, <1>2, <1>3, <3>1, <3>5, <3>6
  <2>5. ASSUME NEW j \in Job, Refund(j) PROVE wallet'[o] >= wallet[o]
    BY <1>0, <2>5 DEF Refund
  <2>6. ASSUME NEW p \in Org, OpenWallet(p) \/ TopUp(p) PROVE wallet'[o] >= wallet[o]
    BY <1>0, <2>6 DEF OpenWallet, TopUp
  <2>7. CASE UNCHANGED moneyVars
    BY <1>0, <2>3, <2>7
  <2> QED
    BY <2>3, <2>4, <2>5, <2>6, <2>7, MoneyMoves
<1> QED
  BY <1>4, <1>5, CommittedShrinks

LEMMA DebtInit == Init => Wallets /\ DebtBounded
<1> SUFFICES ASSUME Init PROVE Wallets /\ DebtBounded
  OBVIOUS
<1>1. Wallets
  BY DEF Init, Wallets
<1>2. ASSUME NEW o \in Org
      PROVE  wallet[o] >= -Cost * (Cardinality(Loop) - Cardinality(Committed(o)))
  <2>1. Committed(o) \in SUBSET Loop
    BY DEF Committed
  <2>2. -Cost * (Cardinality(Loop) - Cardinality(Committed(o))) <= 0
    BY <2>1, CommittedCount, NothingOwing, QueueAssumption
  <2>3. Cardinality(Loop) \in Int /\ Cardinality(Committed(o)) \in Int
    BY <2>1, CommittedCount
  <2> QED
    BY <2>2, <2>3, QueueAssumption DEF Init
<1> QED
  BY <1>1, <1>2 DEF DebtBounded

\* Evaluations are paid after the fact and from stale looks at the balance, and
\* yet no org ever owes more than one evaluation for every loop that has not
\* picked one of its rows.
THEOREM DebtIsBounded == Spec => []DebtBounded
<1>1. IInv /\ Wallets /\ DebtBounded /\ [Next]_vars => Wallets' /\ DebtBounded'
  BY WalletsStep, DebtStep
<1> QED
  BY <1>1, DebtInit, InductiveInvariant, PTL DEF Spec

-----------------------------------------------------------------------------
(* The identity report.                                                    *)

GoneIsRemoved == \A j \in Job : status[j] = "gone" => cand[j] \in removed

Rechecked(j) == \E w \in Loop : pc[w] = "recheck" /\ mine[w] = j

\* What was charged for a candidate and not given back is on the list of the
\* report that refunds, or the loop that charged it has yet to look again.
RefundsPending ==
    \A j \in charged \ refunded :
        cand[j] \notin removed =>
            /\ rep[cand[j]] = "refunding" => j \in todo[cand[j]] \/ Rechecked(j)
            /\ rep[cand[j]] = "reported" => Rechecked(j)

LEMMA GoneStep ==
  ASSUME IInv, GoneIsRemoved, [Next]_vars
  PROVE  GoneIsRemoved'
<1> USE DEF GoneIsRemoved, IInv, TypeOK, JobTypes
<1>1. ASSUME NEW w \in Loop, LoopStep(w) PROVE GoneIsRemoved'
  BY <1>1 DEF LoopStep, ClaimStep, StartLoop, Snapshot, PickNothing, Claim, LookAgain, PickRow,
        EvaluateStep, StartEvaluation, EvaluateDuplicate, Cascade, Evaluate, SettleStep,
        MarkDone, MarkDoneThrows, FailForGood, FailOrRetry, RequeueOutage, Requeue, RowBecomes,
        ChargeStep, CheckCharge, ChargeJob, ChargeThrows, RecheckReport
<1>2. ASSUME NEW c \in Candidate, ReportStep(c) PROVE GoneIsRemoved'
  BY <1>2 DEF ReportStep, ReportClaim, ReportRelease, ReportLink, ReportStop, UpdateWaiting,
        ReportList, ReportEnd, ReportRefund
<1>3. ASSUME NEW r \in Requester, RequestStep(r) PROVE GoneIsRemoved'
  BY <1>3 DEF RequestStep, LookForActive, InsertJob
<1>4. ASSUME Maintenance PROVE GoneIsRemoved'
  BY <1>4 DEF Maintenance, FailStuck, RequeueStuck, PauseHolds, ResumeHolds, UpdateRows
<1>5. ASSUME NEW c \in Candidate, CloseCandidate(c) \/ DeleteCandidate(c) PROVE GoneIsRemoved'
  BY <1>5 DEF CloseCandidate, UpdateWaiting, DeleteCandidate, Cascade
<1>6. CASE UNCHANGED vars
  BY <1>6 DEF vars
<1> QED
  BY <1>1, <1>2, <1>3, <1>4, <1>5, <1>6
     DEF Next, Die, BecomeDue, LockExpires, OpenWallet, TopUp

\* A loop that has yet to look again does so, unless it is killed there.
LEMMA RecheckStays ==
  ASSUME IInv, [Next]_vars, "recheck" \notin DiesAt, NEW v \in Loop, pc[v] = "recheck"
  PROVE  RecheckReport(v) \/ (pc'[v] = "recheck" /\ mine'[v] = mine[v])
<1>1. ASSUME NEW w \in Loop, w # v, LoopStep(w) \/ Die(w)
      PROVE  pc'[v] = "recheck" /\ mine'[v] = mine[v]
  BY <1>1, LoopCommits
<1>2. CASE LoopStep(v)
  BY <1>2 DEF LoopStep, ClaimStep, StartLoop, Snapshot, PickNothing, Claim, LookAgain, PickRow,
        EvaluateStep, StartEvaluation, EvaluateDuplicate, Evaluate, SettleStep, MarkDone,
        MarkDoneThrows, FailForGood, FailOrRetry, RequeueOutage, ChargeStep, CheckCharge,
        ChargeJob, ChargeThrows
<1>3. CASE Die(v)
  BY <1>3 DEF Die
<1> QED
  BY <1>1, <1>2, <1>3, OthersCommitNone

\* A job is charged by a loop that looks again afterwards.
LEMMA ChargedByLoop ==
  ASSUME IInv, [Next]_vars, ~Faults, NEW j \in charged' \ charged
  PROVE  Rechecked(j)'
<1>1. ASSUME NEW w \in Loop, ChargeJob(w) PROVE Rechecked(j)'
  <2>1. mine[w] = j /\ pc'[w] = "recheck" /\ mine'[w] = mine[w]
    BY <1>1 DEF ChargeJob, Charge, Goto, IInv, TypeOK, LoopTypes
  <2> QED
    BY <2>1 DEF Rechecked
<1>2. ASSUME NEW w \in Loop, LoopStep(w), ~ChargeJob(w) PROVE charged' = charged
  BY <1>2 DEF LoopStep, ClaimStep, StartLoop, Snapshot, PickNothing, Claim, LookAgain, PickRow,
        EvaluateStep, StartEvaluation, EvaluateDuplicate, Evaluate, SettleStep, MarkDone,
        MarkDoneThrows, FailForGood, FailOrRetry, RequeueOutage, ChargeStep, CheckCharge,
        ChargeThrows, RecheckReport, Refund
<1>3. ASSUME NEW c \in Candidate, ReportStep(c) PROVE charged' = charged
  BY <1>3 DEF ReportStep, ReportClaim, ReportRelease, ReportLink, ReportStop, ReportList,
        ReportEnd, ReportRefund, Refund
<1>4. ASSUME Maintenance PROVE charged' = charged
  BY <1>4 DEF Maintenance, FailStuck, RequeueStuck, PauseHolds, ResumeHolds
<1> QED
  BY <1>1, <1>2, <1>3, <1>4
     DEF Next, vars, Die, RequestStep, LookForActive, InsertJob, BecomeDue, LockExpires,
         CloseCandidate, DeleteCandidate, OpenWallet, TopUp

\* The ledger row of a refund is never deleted, and no deletion is undone.
LEMMA RefundedGrows ==
  ASSUME [Next]_vars
  PROVE  refunded \subseteq refunded' /\ removed \subseteq removed'
<1>1. ASSUME NEW w \in Loop, LoopStep(w) PROVE refunded \subseteq refunded' /\ removed \subseteq removed'
  BY <1>1 DEF LoopStep, ClaimStep, StartLoop, Snapshot, PickNothing, Claim, LookAgain, PickRow,
        EvaluateStep, StartEvaluation, EvaluateDuplicate, Cascade, Evaluate, SettleStep,
        MarkDone, MarkDoneThrows, FailForGood, FailOrRetry, RequeueOutage, ChargeStep,
        CheckCharge, ChargeJob, ChargeThrows, Charge, RecheckReport, Refund
<1>2. ASSUME NEW c \in Candidate, ReportStep(c)
      PROVE  refunded \subseteq refunded' /\ removed \subseteq removed'
  BY <1>2 DEF ReportStep, ReportClaim, ReportRelease, ReportLink, ReportStop, ReportList,
        ReportEnd, ReportRefund, Refund
<1>3. ASSUME Maintenance PROVE refunded \subseteq refunded' /\ removed \subseteq removed'
  BY <1>3 DEF Maintenance, FailStuck, RequeueStuck, PauseHolds, ResumeHolds
<1> QED
  BY <1>1, <1>2, <1>3
     DEF Next, vars, Die, RequestStep, LookForActive, InsertJob, BecomeDue, LockExpires,
         CloseCandidate, DeleteCandidate, Cascade, OpenWallet, TopUp

\* Only the report of a candidate moves its phase and its list.
LEMMA ReportMoves ==
  ASSUME [Next]_vars
  PROVE  UNCHANGED <<rep, todo>> \/ \E c \in Candidate : ReportStep(c)
<1>1. ASSUME NEW w \in Loop, LoopStep(w) PROVE UNCHANGED <<rep, todo>>
  BY <1>1 DEF LoopStep, ClaimStep, StartLoop, Snapshot, PickNothing, Claim, LookAgain, PickRow,
        EvaluateStep, StartEvaluation, EvaluateDuplicate, Evaluate, SettleStep, MarkDone,
        MarkDoneThrows, FailForGood, FailOrRetry, RequeueOutage, ChargeStep, CheckCharge,
        ChargeJob, ChargeThrows, RecheckReport
<1>2. ASSUME Maintenance PROVE UNCHANGED <<rep, todo>>
  BY <1>2 DEF Maintenance, FailStuck, RequeueStuck, PauseHolds, ResumeHolds
<1> QED
  BY <1>1, <1>2
     DEF Next, vars, Die, RequestStep, LookForActive, InsertJob, BecomeDue, LockExpires,
         CloseCandidate, DeleteCandidate, OpenWallet, TopUp

\* What a step of a report does to a row that was charged and not refunded.
LEMMA ReportLists ==
  ASSUME IInv, Wallets, GoneIsRemoved, RefundsPending, NEW c \in Candidate, ReportStep(c),
         NEW j \in charged \ refunded, cand[j] \notin removed, j \notin refunded'
  PROVE  /\ rep'[cand[j]] = "refunding" => j \in todo'[cand[j]] \/ Rechecked(j)
         /\ rep'[cand[j]] = "reported" => Rechecked(j)
<1>0. /\ rep \in [Candidate -> ReportPhase] /\ todo \in [Candidate -> SUBSET Job]
      /\ j \in Job /\ status[j] = "done" /\ cand[j] \in Candidate
      /\ OrgOf[cand[j]] \notin Unmetered
  BY DEF IInv, TypeOK, JobTypes, RequestTypes, MoneyTypes, Hands, ChargedOver, GoneIsRemoved,
         Wallets, JobOrg
<1>1. CASE cand[j] # c
  BY <1>0, <1>1
     DEF RefundsPending, ReportStep, ReportClaim, ReportRelease, ReportLink, ReportStop,
         ReportList, ReportEnd, ReportRefund
<1>2. CASE cand[j] = c
  <2>1. CASE ReportList(c)
    BY <1>0, <1>2, <2>1 DEF ReportList
  <2>2. CASE ReportEnd(c)
    BY <1>0, <1>2, <2>2 DEF ReportEnd, RefundsPending
  <2>3. ASSUME NEW k \in Job, ReportRefund(c, k)
        PROVE  rep'[c] = "refunding" /\ (j \in todo'[c] \/ Rechecked(j))
    <3>1. rep[c] = "refunding" /\ rep' = rep /\ todo' = [todo EXCEPT ![c] = todo[c] \ {k}]
      BY <2>3 DEF ReportRefund
    <3>2. k # j
      BY <2>3 DEF ReportRefund, Refund
    <3>3. j \in todo[c] \/ Rechecked(j)
      BY <1>2, <3>1 DEF RefundsPending
    <3> QED
      BY <1>0, <3>1, <3>2, <3>3
  <2>4. CASE ReportClaim(c) \/ ReportRelease(c) \/ ReportLink(c) \/ ReportStop(c)
    BY <1>0, <1>2, <2>4 DEF ReportClaim, ReportRelease, ReportLink, ReportStop
  <2> QED
    BY <1>2, <2>1, <2>2, <2>3, <2>4 DEF ReportStep
<1> QED
  BY <1>1, <1>2

LEMMA PendingStep ==
  ASSUME IInv, Wallets, GoneIsRemoved, RefundsPending, ~Faults, "recheck" \notin DiesAt,
         [Next]_vars
  PROVE  RefundsPending'
<1> SUFFICES ASSUME NEW j \in charged' \ refunded', cand'[j] \notin removed',
                    rep'[cand'[j]] \in {"refunding", "reported"}, ~Rechecked(j)'
             PROVE  rep'[cand'[j]] = "refunding" /\ j \in todo'[cand'[j]]
  BY DEF RefundsPending
<1>1. j \in charged \ refunded
  BY ChargedByLoop, RefundedGrows
<1>2. j \in Job /\ cand'[j] = cand[j] /\ cand[j] \notin removed
  BY <1>1, RowsKeepCandidates, RefundedGrows
     DEF IInv, TypeOK, MoneyTypes, Hands, ChargedOver
<1>3. ~Rechecked(j) \/ \E w \in Loop : RecheckReport(w) /\ mine[w] = j
  BY RecheckStays DEF Rechecked
\* The loop that looked again has refunded it if the candidate was reported.
<1>4. ASSUME NEW w \in Loop, RecheckReport(w), mine[w] = j PROVE FALSE
  <2>1. rep[cand[j]] # "none"
    BY <1>2, <1>4 DEF RecheckReport
  <2>2. OwesRefund(j)
    BY <1>2, <2>1 DEF OwesRefund, Reported
  <2> QED
    BY <1>1, <1>4, <2>2 DEF RecheckReport, Refund
<1>5. ASSUME NEW c \in Candidate, ReportStep(c)
      PROVE  rep'[cand'[j]] = "refunding" /\ j \in todo'[cand'[j]]
  BY <1>1, <1>2, <1>3, <1>4, <1>5, ReportLists
<1>6. CASE UNCHANGED <<rep, todo>>
  BY <1>1, <1>2, <1>3, <1>4, <1>6 DEF RefundsPending
<1> QED
  BY <1>5, <1>6, ReportMoves

\* An applicant whose identity was misused pays for nothing in the end, although
\* the worker charges from an old look at the report, and the report refunds from
\* an old list of rows: as long as every charge is followed by the second look,
\* that is, no statement fails and no invocation is killed between the two.
THEOREM ReportedAreRefunded ==
  ~Faults /\ "recheck" \notin DiesAt /\ Spec => []ReportedPaysNothing
<1> SUFFICES ASSUME ~Faults, "recheck" \notin DiesAt PROVE Spec => []ReportedPaysNothing
  OBVIOUS
<1>1. Init => Wallets /\ GoneIsRemoved /\ RefundsPending
  BY DebtInit DEF Init, GoneIsRemoved, RefundsPending
<1>2. IInv /\ Wallets /\ GoneIsRemoved /\ RefundsPending /\ [Next]_vars
        => Wallets' /\ GoneIsRemoved' /\ RefundsPending'
  BY WalletsStep, GoneStep, PendingStep
<1>3. IInv /\ RefundsPending => ReportedPaysNothing
  BY DEF IInv, TypeOK, MoneyTypes, RefundsPending, ReportedPaysNothing, Rechecked, Settled
<1> QED
  BY <1>1, <1>2, <1>3, InductiveInvariant, PTL DEF Spec
=============================================================================
