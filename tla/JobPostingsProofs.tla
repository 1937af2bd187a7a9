-------------------------- MODULE JobPostingsProofs --------------------------
(***************************************************************************)
(* Safety of JobPostings for every value of its constants.                 *)
(***************************************************************************)
EXTENDS JobPostings, TLAPS

USE DEF posting, people, money, request, history, job, strays, Goto, End,
        DEFAULT_JOB_DURATION, EXTENSION

-----------------------------------------------------------------------------
(* The inductive invariant, part by part.                                  *)

Extending == {"count", "charge extension", "extend"}
DaysOf(n) == DEFAULT_JOB_DURATION + n * EXTENSION
PaidFor(n) == {<<"job_extension", i>> : i \in 1..n} \subseteq charged

\* What a request has read of the row was consistent when it read it, and it
\* extends by its own extension, which is paid before the row is written.
Readings ==
    /\ read \in [Request -> [closesAt : Nat, extensions : Nat]]
    /\ \A r \in Request : pc[r] \in Extending =>
          /\ read[r].extensions < MaxExtensions
          /\ read[r].closesAt = DaysOf(read[r].extensions)
          /\ PaidFor(read[r].extensions)
          /\ pc[r] = "extend" => PaidFor(read[r].extensions + 1)

\* Nobody works on a posting that is not there yet; one that is refunded, or
\* about to be, is there no more.
Course ==
    /\ status = "none" => extensions = 0 /\ \A r \in Request : pc[r] = "idle"
    /\ \A r \in Request : pc[r] = "refund" => status = "gone"
    /\ refunded => status = "gone"

\* From the rejection of everybody on, whoever is undecided came late.
Decided == ClosingBegan => \A c \in Candidate : state[c] = "open" => c \in late

\* A regular posting is paid for, or a request is about to pay for it.
Charged ==
    Exists /\ ~draft =>
        Post \in charged \/ unpaid \/ \E r \in Request : pc[r] = "charge post"

IInv == TypeOK /\ Readings /\ ExtensionsArePaid /\ Course /\ Decided /\ Charged

-----------------------------------------------------------------------------
(* Types.                                                                  *)

\* The types, by the variables a step may change together.
RowOK ==
    /\ status \in {"none", "active", "closed", "gone"} /\ draft \in BOOLEAN /\ young \in BOOLEAN
    /\ closesAt \in 0..(DEFAULT_JOB_DURATION + MaxExtensions * EXTENSION)
    /\ extensions \in 0..MaxExtensions
TimeOK == today \in 0..LastDay /\ closedAt \in 0..today /\ sentOn \in [Candidate -> 0..today]
PeopleOK ==
    /\ state \in [Candidate -> {"none", "sent", "open", "rejected", "hired", "gone"}]
    /\ linked \subseteq Rows /\ stored \subseteq {c \in Candidate : state[c] # "none"}
MoneyOK   == charged \subseteq Keys /\ refunded \in BOOLEAN
RequestOK ==
    /\ pc \in [Request -> Label] /\ read \in [Request -> [closesAt : Nat, extensions : Nat]]
    /\ \A r \in Request : read[r].extensions \in 0..MaxExtensions
SweepOK   == sweep \in Phase /\ list \subseteq Candidate \cup {"posting"}
WeeklyOK  == weekly \in {"idle", "delete"} /\ known \subseteq Candidate
HistoryOK == late \subseteq Candidate /\ unpaid \in BOOLEAN

LEMMA TypeParts ==
  ASSUME IInv
  PROVE  /\ RowOK /\ TimeOK /\ PeopleOK /\ MoneyOK /\ RequestOK /\ SweepOK /\ WeeklyOK /\ HistoryOK
BY DEF IInv, TypeOK, Readings, RowOK, TimeOK, PeopleOK, MoneyOK, RequestOK, SweepOK, WeeklyOK,
       HistoryOK

\* What a step leaves alone keeps its type.
LEMMA KeptTypes ==
  ASSUME IInv
  PROVE  /\ UNCHANGED <<status, draft, young, closesAt, extensions>> => RowOK'
         /\ UNCHANGED <<today, closedAt, sentOn>> => TimeOK'
         /\ UNCHANGED <<state, linked, stored>> => PeopleOK'
         /\ UNCHANGED money => MoneyOK'
         /\ UNCHANGED request => RequestOK'
         /\ UNCHANGED job => SweepOK'
         /\ UNCHANGED strays => WeeklyOK'
         /\ UNCHANGED history => HistoryOK'
BY TypeParts DEF RowOK, TimeOK, PeopleOK, MoneyOK, RequestOK, SweepOK, WeeklyOK, HistoryOK, Rows

\* The next label of a request, and its end.
LEMMA RequestTypes ==
  ASSUME IInv, NEW r \in Request, End(r) \/ \E l \in Label : Goto(r, l)
  PROVE  RequestOK'
<1>0. RequestOK /\ MaxExtensions \in Nat
  BY TypeParts, JobAssumption
<1>1. CASE End(r)
  <2>1. Nothing \in [closesAt : Nat, extensions : Nat] /\ Nothing.extensions \in 0..MaxExtensions
    BY <1>0 DEF Nothing
  <2> QED
    BY <1>0, <1>1, <2>1 DEF RequestOK, Label
<1>2. ASSUME NEW l \in Label, Goto(r, l) PROVE RequestOK'
  BY <1>0, <1>2 DEF RequestOK
<1> QED
  BY <1>1, <1>2

\* Deleting the row or dropping files keeps the types.
LEMMA PeopleTypes ==
  ASSUME IInv
  PROVE  /\ \A S \in SUBSET Candidate : Drop(S) /\ UNCHANGED state => PeopleOK'
         /\ DeleteRow /\ linked' = {} /\ UNCHANGED stored => PeopleOK'
         /\ DeleteRow /\ Drop(Rows) => PeopleOK'
         /\ DeleteRow => RowOK'
<1>0. PeopleOK /\ RowOK
  BY TypeParts
<1>1. ASSUME NEW S \in SUBSET Candidate, Drop(S), UNCHANGED state PROVE PeopleOK'
  BY <1>0, <1>1 DEF PeopleOK, Drop, Rows
<1>2. ASSUME DeleteRow, linked' = {}, UNCHANGED stored PROVE PeopleOK'
  BY <1>0, <1>2 DEF PeopleOK, DeleteRow, Rows
<1>3. ASSUME DeleteRow, Drop(Rows) PROVE PeopleOK'
  <2>1. linked' = {} /\ stored' \subseteq stored
    BY <1>0, <1>3 DEF Drop, PeopleOK
  <2> QED
    BY <1>0, <1>3, <2>1 DEF PeopleOK, DeleteRow, Rows
<1>4. DeleteRow => RowOK'
  BY <1>0 DEF RowOK, DeleteRow
<1> QED
  BY <1>1, <1>2, <1>3, <1>4

LEMMA TypeStep ==
  ASSUME IInv, [Next]_vars
  PROVE  TypeOK'
<1> DEFINE OK == /\ RowOK /\ TimeOK /\ PeopleOK /\ MoneyOK /\ RequestOK /\ SweepOK /\ WeeklyOK
                 /\ HistoryOK
<1>0. OK /\ MaxExtensions \in Nat /\ LastDay \in Nat
  BY TypeParts, JobAssumption
<1>1. ASSUME NEW r \in Request, RequestStep(r) PROVE OK'
  <2>1. RequestOK'
    <3>1. ASSUME ExtendRead(r) PROVE RequestOK'
      <4>1. [closesAt |-> closesAt, extensions |-> extensions] \in [closesAt : Nat, extensions : Nat]
            /\ extensions \in 0..MaxExtensions
        BY <1>0 DEF RowOK
      <4> QED
        BY <1>0, <3>1, <4>1 DEF ExtendRead, RequestOK, Label
    <3>2. ASSUME NEW b \in BOOLEAN, Create(r, b) PROVE RequestOK'
      BY <3>2, KeptTypes, RequestTypes DEF Create, Label
    <3>3. CASE ChargePost(r) \/ FinalizeRead(r) \/ Finalize(r) \/ Count(r) \/ ChargeExtension(r)
               \/ Extend(r)
      BY <3>3, RequestTypes DEF ChargePost, FinalizeRead, Finalize, Count, ChargeExtension, Extend,
                                Label
    <3>4. CASE CloseRead(r) \/ CloseReject(r) \/ CloseShut(r) \/ ReopenRead(r) \/ Reopen(r)
               \/ DeleteRead(r) \/ DeleteFiles(r) \/ Delete(r) \/ Refund(r) \/ Die(r)
      BY <3>4, RequestTypes DEF CloseRead, CloseReject, CloseShut, ReopenRead, Reopen, DeleteRead,
                                DeleteFiles, Delete, Refund, Die, Label
    <3> QED
      BY <1>1, <3>1, <3>2, <3>3, <3>4 DEF RequestStep
  <2> DEFINE Rest == RowOK /\ TimeOK /\ PeopleOK /\ MoneyOK /\ SweepOK /\ WeeklyOK /\ HistoryOK
  <2>2. ASSUME NEW b \in BOOLEAN, Create(r, b) PROVE Rest'
    <3>1. RowOK'
      <4>1. draft' \in BOOLEAN
        BY <2>2 DEF Create
      <4>2. closesAt' \in 0..(DEFAULT_JOB_DURATION + MaxExtensions * EXTENSION)
        <5>1. closesAt' = 2
          BY <2>2 DEF Create
        <5>2. MaxExtensions * 2 \in Nat
          BY <1>0
        <5> QED
          BY <5>1, <5>2
      <4> QED
        BY <1>0, <2>2, <4>1, <4>2 DEF Create, RowOK
    <3> QED
      BY <2>2, <3>1, KeptTypes DEF Create
  <2>3. ASSUME ChargePost(r) \/ Refund(r) PROVE Rest'
    <3>1. MoneyOK'
      BY <1>0, <2>3 DEF ChargePost, Refund, MoneyOK, Keys
    <3> QED
      BY <2>3, <3>1, KeptTypes DEF ChargePost, Refund
  <2>4. ASSUME ChargeExtension(r) PROVE Rest'
    <3>1. ExtensionKey(r) \in Keys
      <4>1. read[r].extensions \in Nat /\ read[r].extensions < MaxExtensions
        BY <1>0, <2>4 DEF ChargeExtension, IInv, Readings, Extending, RequestOK
      <4>2. read[r].extensions + 1 \in 1..MaxExtensions
        BY <1>0, <4>1
      <4> QED
        BY <4>2 DEF ExtensionKey, Keys
    <3>2. MoneyOK'
      BY <1>0, <2>4, <3>1 DEF ChargeExtension, MoneyOK
    <3> QED
      BY <2>4, <3>2, KeptTypes DEF ChargeExtension
  <2>5. ASSUME Finalize(r) PROVE Rest'
    <3>1. RowOK'
      BY <1>0, <2>5 DEF Finalize, RowOK
    <3> QED
      BY <2>5, <3>1, KeptTypes DEF Finalize
  <2>6. ASSUME Extend(r) PROVE Rest'
    <3>1. /\ read[r].extensions \in Nat /\ read[r].extensions < MaxExtensions
          /\ read[r].closesAt = 2 + read[r].extensions * 2
      BY <1>0, <2>6 DEF Extend, IInv, Readings, Extending, DaysOf, RequestOK
    <3>2. RowOK'
      BY <1>0, <2>6, <3>1 DEF Extend, RowOK
    <3>3. TimeOK'
      BY <1>0, <2>6 DEF Extend, TimeOK
    <3> QED
      BY <2>6, <3>2, <3>3, KeptTypes DEF Extend
  <2>7. ASSUME CloseReject(r) PROVE Rest'
    <3>1. PeopleOK'
      BY <1>0, <2>7 DEF CloseReject, Undecided, Drop, PeopleOK, Rows
    <3> QED
      BY <2>7, <3>1, KeptTypes DEF CloseReject
  <2>8. ASSUME CloseShut(r) \/ Reopen(r) PROVE Rest'
    <3>1. RowOK' /\ TimeOK'
      BY <1>0, <2>8 DEF CloseShut, Reopen, RowOK, TimeOK
    <3> QED
      BY <2>8, <3>1, KeptTypes DEF CloseShut, Reopen
  <2>9. ASSUME DeleteFiles(r) PROVE Rest'
    <3>1. PeopleOK'
      BY <1>0, <2>9 DEF DeleteFiles, PeopleOK, Rows
    <3> QED
      BY <2>9, <3>1, KeptTypes DEF DeleteFiles
  <2>10. ASSUME Delete(r) PROVE Rest'
    <3>1. RowOK' /\ PeopleOK' /\ UNCHANGED <<today, closedAt, sentOn>>
      BY <2>10, PeopleTypes DEF Delete, DeleteRow
    <3> QED
      BY <2>10, <3>1, KeptTypes DEF Delete
  <2>11. ASSUME Die(r) PROVE Rest'
    <3>1. HistoryOK'
      <4>1. (unpaid \/ pc[r] = "charge post") \in BOOLEAN
        BY <1>0 DEF HistoryOK
      <4> QED
        BY <1>0, <2>11, <4>1 DEF Die, HistoryOK
    <3> QED
      BY <2>11, <3>1, KeptTypes DEF Die
  <2>12. ASSUME FinalizeRead(r) \/ ExtendRead(r) \/ Count(r) \/ CloseRead(r) \/ ReopenRead(r)
                \/ DeleteRead(r)
         PROVE  Rest'
    BY <2>12, KeptTypes DEF FinalizeRead, ExtendRead, Count, CloseRead, ReopenRead, DeleteRead
  <2>13. Rest'
    <3> HIDE DEF Rest
    <3> QED
      BY <1>1, <2>2, <2>3, <2>4, <2>5, <2>6, <2>7, <2>8, <2>9, <2>10, <2>11, <2>12 DEF RequestStep
  <2> QED
    BY <2>1, <2>13
<1>2. ASSUME NEW c \in Candidate, CandidateStep(c) PROVE OK'
  <2>1. CASE Send(c)
    <3>1. PeopleOK' /\ TimeOK'
      BY <1>0, <2>1 DEF Send, PeopleOK, TimeOK, Rows
    <3> QED
      BY <2>1, <3>1, KeptTypes DEF Send
  <2>2. CASE Apply(c)
    <3>1. PeopleOK'
      BY <1>0, <2>2 DEF Apply, PeopleOK, Rows
    <3>2. HistoryOK'
      BY <1>0, <2>2 DEF Apply, HistoryOK
    <3> QED
      BY <2>2, <3>1, <3>2, KeptTypes DEF Apply
  <2>3. CASE ApplyDies(c) \/ Hire(c)
    <3>1. PeopleOK'
      BY <1>0, <2>3 DEF ApplyDies, Hire, PeopleOK, Rows
    <3> QED
      BY <2>3, <3>1, KeptTypes DEF ApplyDies, Hire
  <2>4. CASE Reject(c)
    <3>1. PeopleOK'
      BY <1>0, <2>4 DEF Reject, Drop, PeopleOK, Rows
    <3> QED
      BY <2>4, <3>1, KeptTypes DEF Reject
  <2>5. CASE Revive(c)
    <3>1. PeopleOK'
      BY <1>0, <2>5 DEF Revive, PeopleOK, Rows
    <3>2. HistoryOK'
      BY <1>0, <2>5 DEF Revive, HistoryOK
    <3> QED
      BY <2>5, <3>1, <3>2, KeptTypes DEF Revive
  <2> HIDE DEF OK
  <2> QED
    BY <1>2, <2>1, <2>2, <2>3, <2>4, <2>5 DEF CandidateStep
<1>3. ASSUME SweepStep \/ SweepDies PROVE OK'
  <2>1. CASE SweepBegin \/ SweepDies
    <3>1. SweepOK'
      BY <1>0, <2>1 DEF SweepBegin, SweepDies, SweepGoto, SweepOK, Phase
    <3> QED
      BY <2>1, <3>1, KeptTypes DEF SweepBegin, SweepDies
  <2>2. CASE SelectOld \/ SelectPdf \/ SelectPii \/ SelectExpired \/ SelectDrafts
    <3>1. SweepOK'
      BY <1>0, <2>2 DEF SelectOld, SelectPdf, SelectPii, SelectExpired, SelectDrafts, Select,
           SweepGoto,
                        NotHired, Rows, SweepOK, Phase
    <3> QED
      BY <2>2, <3>1, KeptTypes DEF SelectOld, SelectPdf, SelectPii, SelectExpired,
           SelectDrafts, Select
  <2>3. CASE PurgeOld \/ PurgePdf \/ PurgePii
    <3>1. SweepOK'
      BY <1>0, <2>3 DEF PurgeOld, PurgePdf, PurgePii, SweepGoto, SweepOK, Phase
    <3>2. PeopleOK'
      <4>1. linked' = linked \ list /\ stored' \subseteq stored
        BY <1>0, <2>3 DEF PurgeOld, PurgePdf, PurgePii, Drop, PeopleOK
      <4>2. \A d \in Candidate : state'[d] = state[d] \/ (d \in list /\ state'[d] = "gone")
        BY <1>0, <2>3 DEF PurgeOld, PurgePdf, PurgePii, PeopleOK
      <4>3. state' \in [Candidate -> {"none", "sent", "open", "rejected", "hired", "gone"}]
        BY <1>0, <2>3 DEF PurgeOld, PurgePdf, PurgePii, PeopleOK
      <4> QED
        BY <1>0, <4>1, <4>2, <4>3 DEF PeopleOK, Rows
    <3> QED
      BY <2>3, <3>1, <3>2, KeptTypes DEF PurgeOld, PurgePdf, PurgePii
  <2>4. CASE DeleteExpired \/ DeleteDrafts
    <3>1. SweepOK'
      BY <1>0, <2>4 DEF DeleteExpired, DeleteDrafts, SweepGoto, SweepOK, Phase
    <3>2. RowOK' /\ PeopleOK' /\ UNCHANGED <<today, closedAt, sentOn>>
      BY <2>4, PeopleTypes DEF DeleteExpired, DeleteDrafts, DeleteRow
    <3> QED
      BY <2>4, <3>1, <3>2, KeptTypes DEF DeleteExpired, DeleteDrafts
  <2> HIDE DEF OK
  <2> QED
    BY <1>3, <2>1, <2>2, <2>3, <2>4 DEF SweepStep
<1>4. ASSUME OrphanRead \/ \E failed \in SUBSET Deletable : OrphanDelete(failed) PROVE OK'
  <2>1. WeeklyOK'
    BY <1>0, <1>4 DEF OrphanRead, OrphanDelete, WeeklyOK, PeopleOK, Rows
  <2>2. PeopleOK'
    BY <1>0, <1>4 DEF OrphanRead, OrphanDelete, PeopleOK, Rows
  <2> QED
    BY <1>4, <2>1, <2>2, KeptTypes DEF OrphanRead, OrphanDelete
<1>5. ASSUME Age \/ Tick PROVE OK'
  <2>1. RowOK'
    BY <1>0, <1>5 DEF Age, Tick, RowOK
  <2>2. TimeOK'
    <3>1. CASE Age
      BY <1>0, <3>1 DEF Age, TimeOK
    <3>2. CASE Tick
      <4>1. today \in Nat /\ today' = today + 1 /\ today' \in 0..LastDay /\ 0..today \subseteq 0..today'
        BY <1>0, <3>2 DEF Tick, TimeOK
      <4>2. UNCHANGED <<closedAt, sentOn>>
        BY <3>2 DEF Tick
      <4> QED
        BY <1>0, <4>1, <4>2 DEF TimeOK
    <3> QED
      BY <1>5, <3>1, <3>2
  <2> QED
    BY <1>5, <2>1, <2>2, KeptTypes DEF Age, Tick
<1>6. ASSUME UNCHANGED vars PROVE OK'
  BY <1>6, KeptTypes DEF vars
<1>7. OK'
  <2> HIDE DEF OK
  <2> QED
    BY <1>1, <1>2, <1>3, <1>4, <1>5, <1>6 DEF Next
<1> QED
  BY <1>7 DEF TypeOK, RowOK, TimeOK, PeopleOK, MoneyOK, RequestOK, SweepOK, WeeklyOK, HistoryOK

-----------------------------------------------------------------------------
(* What the steps do to the row, the ledger and the candidates.            *)

\* Others' locals stay as they are.
LEMMA LocalsAreOwn ==
  ASSUME IInv, [Next]_vars, NEW q \in Request, ~RequestStep(q)
  PROVE  pc'[q] = pc[q] /\ read'[q] = read[q]
<1>0. RequestOK
  BY TypeParts
<1>1. ASSUME NEW r \in Request, r # q, RequestStep(r) PROVE pc'[q] = pc[q] /\ read'[q] = read[q]
  BY <1>0, <1>1 DEF RequestOK, RequestStep, Create, ChargePost, FinalizeRead, Finalize, ExtendRead,
       Count, ChargeExtension, Extend, CloseRead, CloseReject, CloseShut, ReopenRead, Reopen,
       DeleteRead, DeleteFiles, Delete, Refund, Die
<1>2. ASSUME \/ \E c \in Candidate : CandidateStep(c)
             \/ SweepStep \/ SweepDies
             \/ OrphanRead \/ \E failed \in SUBSET Deletable : OrphanDelete(failed)
             \/ Age \/ Tick \/ UNCHANGED vars
      PROVE  pc' = pc /\ read' = read
  BY <1>2 DEF CandidateStep, Send, Apply, ApplyDies, Hire, Reject, Revive, SweepStep, SweepBegin,
       SelectOld, SelectPdf, SelectPii, SelectExpired, SelectDrafts, Select, PurgeOld,
       PurgePdf, PurgePii,
       DeleteExpired, DeleteDrafts, SweepDies, OrphanRead, OrphanDelete, Age, Tick, vars
<1> QED
  BY <1>1, <1>2 DEF Next

\* Who changes the row of the posting outside the extensions.
LEMMA RowMoves ==
  ASSUME IInv, [Next]_vars
  PROVE  \/ UNCHANGED <<closesAt, extensions>> /\ (status = "none" <=> status' = "none")
            /\ (status = "gone" => status' = "gone")
         \/ \E r \in Request, b \in BOOLEAN : Create(r, b)
         \/ \E r \in Request : Extend(r) /\ Exists
<1> DEFINE Kept == UNCHANGED <<closesAt, extensions>> /\ (status = "none" <=> status' = "none")
                   /\ (status = "gone" => status' = "gone")
<1>1. ASSUME NEW r \in Request, RequestStep(r), \A b \in BOOLEAN : ~Create(r, b),
             ~(Extend(r) /\ Exists)
      PROVE  Kept
  <2>1. CASE ChargePost(r) \/ FinalizeRead(r) \/ Finalize(r) \/ ExtendRead(r) \/ Count(r)
             \/ ChargeExtension(r) \/ Extend(r)
    BY <1>1, <2>1 DEF ChargePost, FinalizeRead, Finalize, ExtendRead, Count, ChargeExtension, Extend
  <2>2. CASE CloseRead(r) \/ CloseReject(r) \/ CloseShut(r) \/ ReopenRead(r) \/ Reopen(r)
    BY <2>2 DEF CloseRead, CloseReject, CloseShut, ReopenRead, Reopen, Exists
  <2>3. CASE DeleteRead(r) \/ DeleteFiles(r) \/ Delete(r) \/ Refund(r) \/ Die(r)
    BY <2>3 DEF DeleteRead, DeleteFiles, Delete, DeleteRow, Refund, Die, Exists
  <2> QED
    BY <1>1, <2>1, <2>2, <2>3 DEF RequestStep
<1>2. ASSUME NEW c \in Candidate, CandidateStep(c) PROVE Kept
  BY <1>2 DEF CandidateStep, Send, Apply, ApplyDies, Hire, Reject, Revive
<1>3. ASSUME SweepStep \/ SweepDies PROVE Kept
  BY <1>3 DEF SweepStep, SweepBegin, SelectOld, SelectPdf, SelectPii, SelectExpired,
       SelectDrafts, Select,
       PurgeOld, PurgePdf, PurgePii, DeleteExpired, DeleteDrafts, DeleteRow, SweepDies, Exists
<1>4. ASSUME \/ OrphanRead \/ \E failed \in SUBSET Deletable : OrphanDelete(failed)
             \/ Age \/ Tick \/ UNCHANGED vars
      PROVE  Kept
  BY <1>4 DEF OrphanRead, OrphanDelete, Age, Tick, vars
<1> QED
  BY <1>1, <1>2, <1>3, <1>4 DEF Next

\* The ledger only grows.
LEMMA LedgerGrows == ASSUME [Next]_vars PROVE charged \subseteq charged'
<1>1. ASSUME NEW r \in Request, RequestStep(r) PROVE charged \subseteq charged'
  BY <1>1 DEF RequestStep, Create, ChargePost, FinalizeRead, Finalize, ExtendRead,
       Count, ChargeExtension, Extend, CloseRead, CloseReject, CloseShut, ReopenRead, Reopen,
       DeleteRead, DeleteFiles, Delete, Refund, Die
<1>2. ASSUME \/ \E c \in Candidate : CandidateStep(c)
             \/ SweepStep \/ SweepDies
             \/ OrphanRead \/ \E failed \in SUBSET Deletable : OrphanDelete(failed)
             \/ Age \/ Tick \/ UNCHANGED vars
      PROVE  charged' = charged
  BY <1>2 DEF CandidateStep, Send, Apply, ApplyDies, Hire, Reject, Revive, SweepStep, SweepBegin,
       SelectOld, SelectPdf, SelectPii, SelectExpired, SelectDrafts, Select, PurgeOld,
       PurgePdf, PurgePii,
       DeleteExpired, DeleteDrafts, SweepDies, OrphanRead, OrphanDelete, Age, Tick, vars
<1> QED
  BY <1>1, <1>2 DEF Next

\* The labels of an extension, in their order.
LEMMA ExtensionSteps ==
  ASSUME IInv, NEW q \in Request, RequestStep(q), pc'[q] \in Extending
  PROVE  \/ /\ ExtendRead(q) /\ pc'[q] = "count"
            /\ read'[q] = [closesAt |-> closesAt, extensions |-> extensions]
         \/ /\ pc[q] \in Extending /\ read'[q] = read[q]
            /\ pc'[q] = "extend" => ChargeExtension(q)
<1>0. RequestOK
  BY TypeParts
<1> USE <1>0 DEF RequestOK, Extending, Label
<1>1. CASE ExtendRead(q)
  BY <1>1 DEF ExtendRead
<1>2. CASE ChargePost(q) \/ FinalizeRead(q) \/ Finalize(q) \/ Count(q) \/ ChargeExtension(q)
           \/ Extend(q)
  BY <1>2 DEF ChargePost, FinalizeRead, Finalize, Count, ChargeExtension, Extend
<1>3. CASE CloseRead(q) \/ CloseReject(q) \/ CloseShut(q) \/ ReopenRead(q) \/ Reopen(q)
           \/ DeleteRead(q) \/ DeleteFiles(q) \/ Delete(q) \/ Refund(q) \/ Die(q)
  BY <1>3 DEF CloseRead, CloseReject, CloseShut, ReopenRead, Reopen, DeleteRead, DeleteFiles,
              Delete, Refund, Die
<1>4. ASSUME NEW b \in BOOLEAN, Create(q, b) PROVE FALSE
  BY <1>4 DEF Create
<1> QED
  BY <1>1, <1>2, <1>3, <1>4 DEF RequestStep

-----------------------------------------------------------------------------
(* The extensions.                                                         *)

LEMMA PaidForNext ==
  ASSUME NEW n \in Nat, PaidFor(n), <<"job_extension", n + 1>> \in charged
  PROVE  PaidFor(n + 1)
BY DEF PaidFor

LEMMA PaidForStays ==
  ASSUME [Next]_vars, NEW n \in Nat, PaidFor(n)
  PROVE  PaidFor(n)'
BY LedgerGrows DEF PaidFor

LEMMA ReadingsStep ==
  ASSUME IInv, [Next]_vars
  PROVE  Readings'
<1>0. RequestOK /\ RowOK /\ MaxExtensions \in Nat
  BY TypeParts, JobAssumption
<1>1. read' \in [Request -> [closesAt : Nat, extensions : Nat]]
  <2>1. ASSUME NEW r \in Request, RequestStep(r) PROVE <1>1
    <3>1. CASE ExtendRead(r)
      <4>1. [closesAt |-> closesAt, extensions |-> extensions] \in [closesAt : Nat, extensions : Nat]
        BY <1>0 DEF RowOK
      <4> QED
        BY <1>0, <3>1, <4>1 DEF ExtendRead, RequestOK
    <3>2. CASE ~ExtendRead(r)
      <4>1. UNCHANGED read \/ read' = [read EXCEPT ![r] = Nothing]
        BY <2>1, <3>2 DEF RequestStep, Create, ChargePost, FinalizeRead, Finalize,
           Count, ChargeExtension, Extend, CloseRead, CloseReject, CloseShut, ReopenRead, Reopen,
           DeleteRead, DeleteFiles, Delete, Refund, Die
      <4>2. Nothing \in [closesAt : Nat, extensions : Nat]
        BY DEF Nothing
      <4> QED
        BY <1>0, <4>1, <4>2 DEF RequestOK
    <3> QED
      BY <3>1, <3>2
  <2>2. ASSUME \/ \E c \in Candidate : CandidateStep(c)
               \/ SweepStep \/ SweepDies
               \/ OrphanRead \/ \E failed \in SUBSET Deletable : OrphanDelete(failed)
               \/ Age \/ Tick \/ UNCHANGED vars
        PROVE  read' = read
    BY <2>2 DEF CandidateStep, Send, Apply, ApplyDies, Hire, Reject, Revive, SweepStep, SweepBegin,
         SelectOld, SelectPdf, SelectPii, SelectExpired, SelectDrafts, Select, PurgeOld,
         PurgePdf, PurgePii,
         DeleteExpired, DeleteDrafts, SweepDies, OrphanRead, OrphanDelete, Age, Tick, vars
  <2> QED
    BY <1>0, <2>1, <2>2 DEF Next, RequestOK
<1>2. ASSUME NEW q \in Request, pc'[q] \in Extending
      PROVE  /\ read'[q].extensions < MaxExtensions
             /\ read'[q].closesAt = DaysOf(read'[q].extensions)
             /\ PaidFor(read[q].extensions)'
             /\ pc'[q] = "extend" => PaidFor(read[q].extensions + 1)'
  <2>0. read[q].extensions \in Nat
    BY <1>0 DEF RequestOK
  <2>1. CASE ~RequestStep(q)
    <3>1. pc'[q] = pc[q] /\ read'[q] = read[q]
      BY <2>1, LocalsAreOwn
    <3>2. /\ read[q].extensions < MaxExtensions
          /\ read[q].closesAt = DaysOf(read[q].extensions)
          /\ PaidFor(read[q].extensions)
          /\ pc[q] = "extend" => PaidFor(read[q].extensions + 1)
      BY <1>2, <3>1 DEF IInv, Readings
    <3> QED
      BY <2>0, <3>1, <3>2, LedgerGrows DEF PaidFor
  <2>2. CASE ExtendRead(q) /\ pc'[q] = "count"
             /\ read'[q] = [closesAt |-> closesAt, extensions |-> extensions]
    <3>1. extensions < MaxExtensions /\ status # "none" /\ charged' = charged
      BY <2>2 DEF ExtendRead, Exists
    <3>2. closesAt = DaysOf(extensions) /\ PaidFor(extensions)
      BY <3>1 DEF IInv, ExtensionsArePaid, DaysOf, PaidFor
    <3> QED
      BY <2>2, <3>1, <3>2 DEF PaidFor
  <2>3. CASE pc[q] \in Extending /\ read'[q] = read[q] /\ (pc'[q] = "extend" => ChargeExtension(q))
    <3>1. /\ read[q].extensions < MaxExtensions
          /\ read[q].closesAt = DaysOf(read[q].extensions)
          /\ PaidFor(read[q].extensions)
      BY <2>3 DEF IInv, Readings
    <3>2. ChargeExtension(q) => <<"job_extension", read[q].extensions + 1>> \in charged'
      BY DEF ChargeExtension, ExtensionKey
    <3> QED
      BY <2>0, <2>3, <3>1, <3>2, LedgerGrows DEF PaidFor
  <2> QED
    BY <1>2, <2>1, <2>2, <2>3, ExtensionSteps
<1> QED
  BY <1>1, <1>2 DEF Readings

LEMMA ExtensionsStep ==
  ASSUME IInv, [Next]_vars
  PROVE  ExtensionsArePaid'
<1>0. RowOK /\ RequestOK
  BY TypeParts
<1>1. PaidFor(extensions) /\ (status # "none" => closesAt = DaysOf(extensions))
  BY DEF IInv, ExtensionsArePaid, PaidFor, DaysOf
<1>2. CASE UNCHANGED <<closesAt, extensions>> /\ (status = "none" <=> status' = "none")
  BY <1>1, <1>2, LedgerGrows DEF ExtensionsArePaid, PaidFor, DaysOf
<1>3. ASSUME NEW r \in Request, NEW b \in BOOLEAN, Create(r, b) PROVE ExtensionsArePaid'
  <2>1. extensions' = 0 /\ closesAt' = 2
    BY <1>3 DEF Create, IInv, Course
  <2> QED
    BY <2>1 DEF ExtensionsArePaid
<1>4. ASSUME NEW r \in Request, Extend(r), Exists PROVE ExtensionsArePaid'
  <2>1. /\ closesAt' = read[r].closesAt + 2 /\ extensions' = read[r].extensions + 1
        /\ charged' = charged /\ pc[r] = "extend"
    BY <1>4 DEF Extend
  <2>2. /\ read[r].closesAt = 2 + read[r].extensions * 2 /\ read[r].extensions \in Nat
        /\ PaidFor(read[r].extensions + 1)
    BY <1>0, <2>1 DEF IInv, Readings, Extending, DaysOf, RequestOK
  <2>3. closesAt' = 2 + extensions' * 2
    BY <2>1, <2>2
  <2> QED
    BY <2>1, <2>2, <2>3 DEF ExtensionsArePaid, PaidFor
<1> QED
  BY <1>2, <1>3, <1>4, RowMoves

-----------------------------------------------------------------------------
(* The charge of the posting and its refund.                               *)

\* A request that is at work has found the posting, and refunds it only after it
\* has deleted it.
LEMMA CourseStep ==
  ASSUME IInv, [Next]_vars
  PROVE  Course'
<1>0. RowOK /\ RequestOK /\ MoneyOK
  BY TypeParts
<1>1. status' = "none" => extensions' = 0
  <2>1. ASSUME NEW r \in Request, NEW b \in BOOLEAN, Create(r, b) PROVE status' # "none"
    BY <2>1 DEF Create
  <2>2. ASSUME NEW r \in Request, Extend(r), Exists PROVE status' # "none"
    BY <2>2 DEF Extend
  <2> QED
    BY <2>1, <2>2, RowMoves DEF IInv, Course
<1>2. status' = "none" => status = "none"
  <2>1. ASSUME NEW r \in Request, NEW b \in BOOLEAN, Create(r, b) PROVE status = "none"
    BY <2>1 DEF Create
  <2>2. ASSUME NEW r \in Request, Extend(r), Exists PROVE status' # "none"
    BY <2>2 DEF Extend
  <2> QED
    BY <2>1, <2>2, RowMoves
<1>3. status = "gone" => status' = "gone"
  <2>1. ASSUME NEW r \in Request, NEW b \in BOOLEAN, Create(r, b) PROVE status # "gone"
    BY <2>1 DEF Create
  <2>2. Exists => status # "gone"
    BY DEF Exists
  <2> QED
    BY <2>1, <2>2, RowMoves
<1>4. ASSUME NEW r \in Request, status' = "none" PROVE pc'[r] = "idle"
  <2>1. status = "none" /\ pc[r] = "idle"
    BY <1>2, <1>4 DEF IInv, Course
  <2>2. ~RequestStep(r)
    BY <1>4, <2>1 DEF Exists, RequestStep, Create, ChargePost, FinalizeRead, Finalize, ExtendRead,
       Count, ChargeExtension, Extend, CloseRead, CloseReject, CloseShut, ReopenRead, Reopen,
       DeleteRead, DeleteFiles, Delete, Refund, Die
  <2> QED
    BY <2>1, <2>2, LocalsAreOwn
<1>5. ASSUME NEW r \in Request, pc'[r] = "refund" PROVE status' = "gone"
  <2>1. CASE ~RequestStep(r)
    BY <1>3, <1>5, <2>1, LocalsAreOwn DEF IInv, Course
  <2>2. CASE RequestStep(r)
    <3>1. Delete(r)
      <4>1. CASE ChargePost(r) \/ FinalizeRead(r) \/ Finalize(r) \/ ExtendRead(r) \/ Count(r)
                 \/ ChargeExtension(r) \/ Extend(r)
        BY <1>0, <1>5, <4>1 DEF RequestOK, ChargePost, FinalizeRead, Finalize, ExtendRead, Count,
                                ChargeExtension, Extend
      <4>2. CASE CloseRead(r) \/ CloseReject(r) \/ CloseShut(r) \/ ReopenRead(r) \/ Reopen(r)
                 \/ DeleteRead(r) \/ DeleteFiles(r) \/ Refund(r) \/ Die(r)
        BY <1>0, <1>5, <4>2 DEF RequestOK, CloseRead, CloseReject, CloseShut, ReopenRead, Reopen,
                                DeleteRead, DeleteFiles, Refund, Die
      <4>3. ASSUME NEW b \in BOOLEAN, Create(r, b) PROVE FALSE
        BY <1>0, <1>5, <4>3 DEF RequestOK, Create
      <4> QED
        BY <2>2, <4>1, <4>2, <4>3 DEF RequestStep
    <3>2. status # "none"
      BY <3>1 DEF Delete, IInv, Course
    <3> QED
      BY <1>0, <3>1, <3>2 DEF Delete, DeleteRow, Exists, RowOK
  <2> QED
    BY <2>1, <2>2
<1>6. refunded' => status' = "gone"
  <2>1. ASSUME NEW r \in Request, RequestStep(r), ~Refund(r) PROVE refunded' = refunded
    BY <2>1 DEF RequestStep, Create, ChargePost, FinalizeRead, Finalize, ExtendRead,
       Count, ChargeExtension, Extend, CloseRead, CloseReject, CloseShut, ReopenRead, Reopen,
       DeleteRead, DeleteFiles, Delete, Die
  <2>2. ASSUME NEW r \in Request, Refund(r) PROVE status = "gone"
    BY <2>2 DEF Refund, IInv, Course
  <2>3. ASSUME \/ \E c \in Candidate : CandidateStep(c)
               \/ SweepStep \/ SweepDies
               \/ OrphanRead \/ \E failed \in SUBSET Deletable : OrphanDelete(failed)
               \/ Age \/ Tick \/ UNCHANGED vars
        PROVE  refunded' = refunded
    BY <2>3 DEF CandidateStep, Send, Apply, ApplyDies, Hire, Reject, Revive, SweepStep, SweepBegin,
         SelectOld, SelectPdf, SelectPii, SelectExpired, SelectDrafts, Select, PurgeOld,
         PurgePdf, PurgePii,
         DeleteExpired, DeleteDrafts, SweepDies, OrphanRead, OrphanDelete, Age, Tick, vars
  <2> QED
    BY <1>3, <2>1, <2>2, <2>3 DEF Next, IInv, Course
<1> QED
  BY <1>1, <1>4, <1>5, <1>6 DEF Course

LEMMA ChargedStep ==
  ASSUME IInv, [Next]_vars
  PROVE  Charged'
<1> DEFINE Paying == Post \in charged \/ unpaid \/ \E r \in Request : pc[r] = "charge post"
<1>0. RequestOK /\ HistoryOK
  BY TypeParts
<1>1. unpaid => unpaid'
  <2>1. ASSUME NEW r \in Request, RequestStep(r) PROVE unpaid => unpaid'
    BY <2>1 DEF RequestStep, Create, ChargePost, FinalizeRead, Finalize, ExtendRead,
       Count, ChargeExtension, Extend, CloseRead, CloseReject, CloseShut, ReopenRead, Reopen,
       DeleteRead, DeleteFiles, Delete, Refund, Die
  <2>2. ASSUME \/ \E c \in Candidate : CandidateStep(c)
               \/ SweepStep \/ SweepDies
               \/ OrphanRead \/ \E failed \in SUBSET Deletable : OrphanDelete(failed)
               \/ Age \/ Tick \/ UNCHANGED vars
        PROVE  unpaid' = unpaid
    BY <2>2 DEF CandidateStep, Send, Apply, ApplyDies, Hire, Reject, Revive, SweepStep, SweepBegin,
         SelectOld, SelectPdf, SelectPii, SelectExpired, SelectDrafts, Select, PurgeOld,
         PurgePdf, PurgePii,
         DeleteExpired, DeleteDrafts, SweepDies, OrphanRead, OrphanDelete, Age, Tick, vars
  <2> QED
    BY <2>1, <2>2 DEF Next
<1>2. ASSUME NEW q \in Request, pc[q] = "charge post" PROVE Paying'
  <2>1. CASE ~RequestStep(q)
    BY <1>2, <2>1, LocalsAreOwn
  <2>2. CASE ChargePost(q)
    BY <2>2 DEF ChargePost
  <2>3. CASE Die(q)
    BY <1>2, <2>3 DEF Die
  <2>4. CASE RequestStep(q) /\ ~ChargePost(q) /\ ~Die(q)
    BY <1>2, <2>4 DEF RequestStep, Create, FinalizeRead, Finalize, ExtendRead,
       Count, ChargeExtension, Extend, CloseRead, CloseReject, CloseShut, ReopenRead, Reopen,
       DeleteRead, DeleteFiles, Delete, Refund
  <2> QED
    BY <2>1, <2>2, <2>3, <2>4
<1>3. Paying => Paying'
  BY <1>1, <1>2, LedgerGrows
<1>4. (Exists /\ ~draft)' => (Exists /\ ~draft) \/ Paying'
  <2>1. ASSUME NEW r \in Request, NEW b \in BOOLEAN, Create(r, b)
        PROVE  (Exists /\ ~draft)' => Paying'
    BY <1>0, <2>1 DEF Create, RequestOK
  <2>2. ASSUME NEW r \in Request, Finalize(r) PROVE (Exists /\ ~draft)' => (Exists /\ ~draft) \/ Paying'
    BY <1>0, <2>2 DEF Finalize, RequestOK, Exists
  <2>3. ASSUME NEW r \in Request, RequestStep(r), \A b \in BOOLEAN : ~Create(r, b), ~Finalize(r)
        PROVE  (Exists' => Exists) /\ draft' = draft
    BY <2>3 DEF Exists, RequestStep, ChargePost, FinalizeRead, ExtendRead,
       Count, ChargeExtension, Extend, CloseRead, CloseReject, CloseShut, ReopenRead, Reopen,
       DeleteRead, DeleteFiles, Delete, DeleteRow, Refund, Die
  <2>4. ASSUME \/ \E c \in Candidate : CandidateStep(c)
               \/ SweepStep \/ SweepDies
               \/ OrphanRead \/ \E failed \in SUBSET Deletable : OrphanDelete(failed)
               \/ Age \/ Tick \/ UNCHANGED vars
        PROVE  (Exists' => Exists) /\ draft' = draft
    BY <2>4 DEF Exists, CandidateStep, Send, Apply, ApplyDies, Hire, Reject, Revive, SweepStep,
         SweepBegin, SelectOld, SelectPdf, SelectPii, SelectExpired, SelectDrafts, Select,
         PurgeOld, PurgePdf, PurgePii,
         DeleteExpired, DeleteDrafts, DeleteRow, SweepDies, OrphanRead, OrphanDelete, Age,
         Tick, vars
  <2> HIDE DEF Paying
  <2> QED
    BY <2>1, <2>2, <2>3, <2>4 DEF Next
<1> QED
  BY <1>3, <1>4 DEF IInv, Charged

-----------------------------------------------------------------------------
(* The decisions of a closing.                                             *)

LEMMA DecidedStep ==
  ASSUME IInv, [Next]_vars
  PROVE  Decided'
<1>0. RequestOK /\ PeopleOK /\ HistoryOK
  BY TypeParts
<1>1. ASSUME NEW r \in Request, CloseReject(r) PROVE Decided'
  <2>1. \A c \in Candidate : state'[c] # "open"
    BY <1>0, <1>1 DEF CloseReject, Undecided, Rows, PeopleOK
  <2> QED
    BY <2>1 DEF Decided
<1>2. ClosingBegan' => ClosingBegan \/ \E r \in Request : CloseReject(r)
  <2>1. ASSUME NEW r \in Request, RequestStep(r), ~CloseReject(r)
        PROVE  /\ status' = "closed" => status = "closed" \/ pc[r] = "shut"
               /\ pc'[r] = "shut" => pc[r] = "shut"
    <3>1. CASE ChargePost(r) \/ FinalizeRead(r) \/ Finalize(r) \/ ExtendRead(r) \/ Count(r)
               \/ ChargeExtension(r) \/ Extend(r)
      BY <1>0, <3>1 DEF RequestOK, ChargePost, FinalizeRead, Finalize, ExtendRead, Count,
                              ChargeExtension, Extend
    <3>2. CASE CloseRead(r) \/ CloseShut(r) \/ ReopenRead(r) \/ Reopen(r)
               \/ DeleteRead(r) \/ DeleteFiles(r) \/ Delete(r) \/ Refund(r) \/ Die(r)
      BY <1>0, <3>2 DEF RequestOK, CloseRead, CloseShut, ReopenRead, Reopen,
                              DeleteRead, DeleteFiles, Delete, DeleteRow, Refund, Die
    <3>3. ASSUME NEW b \in BOOLEAN, Create(r, b)
          PROVE  status' # "closed" /\ pc'[r] # "shut"
      BY <1>0, <3>3 DEF RequestOK, Create
    <3> QED
      BY <2>1, <3>1, <3>2, <3>3 DEF RequestStep
  <2>2. ASSUME \/ \E c \in Candidate : CandidateStep(c)
               \/ SweepStep \/ SweepDies
               \/ OrphanRead \/ \E failed \in SUBSET Deletable : OrphanDelete(failed)
               \/ Age \/ Tick \/ UNCHANGED vars
        PROVE  status' = "closed" => status = "closed"
    BY <2>2 DEF CandidateStep, Send, Apply, ApplyDies, Hire, Reject, Revive, SweepStep,
         SweepBegin, SelectOld, SelectPdf, SelectPii, SelectExpired, SelectDrafts, Select,
         PurgeOld, PurgePdf, PurgePii,
         DeleteExpired, DeleteDrafts, DeleteRow, SweepDies, OrphanRead, OrphanDelete, Age,
         Tick, vars
  <2>3. ASSUME NEW q \in Request, pc'[q] = "shut"
        PROVE  pc[q] = "shut" \/ CloseReject(q)
    BY <2>1, <2>3, LocalsAreOwn
  <2>4. status' = "closed" => ClosingBegan \/ \E r \in Request : CloseReject(r)
    BY <2>1, <2>2 DEF Next, ClosingBegan
  <2> QED
    BY <2>3, <2>4 DEF ClosingBegan
<1>3. ASSUME NEW c \in Candidate, ClosingBegan, state'[c] = "open"
      PROVE  c \in late'
  <2>1. CASE state[c] = "open"
    <3>1. c \in late
      BY <1>3, <2>1 DEF IInv, Decided
    <3>2. late \subseteq late'
      <4>1. ASSUME NEW d \in Candidate, CandidateStep(d) PROVE late \subseteq late'
        BY <4>1 DEF CandidateStep, Send, Apply, ApplyDies, Hire, Reject, Revive
      <4>2. ASSUME NEW r \in Request, RequestStep(r) PROVE late' = late
        BY <4>2 DEF RequestStep, Create, ChargePost, FinalizeRead, Finalize, ExtendRead,
           Count, ChargeExtension, Extend, CloseRead, CloseReject, CloseShut, ReopenRead, Reopen,
           DeleteRead, DeleteFiles, Delete, Refund, Die
      <4>3. ASSUME \/ SweepStep \/ SweepDies
                   \/ OrphanRead \/ \E failed \in SUBSET Deletable : OrphanDelete(failed)
                   \/ Age \/ Tick \/ UNCHANGED vars
            PROVE  late' = late
        BY <4>3 DEF SweepStep, SweepBegin, SelectOld, SelectPdf, SelectPii, SelectExpired,
             SelectDrafts,
             Select, PurgeOld, PurgePdf, PurgePii, DeleteExpired, DeleteDrafts, SweepDies,
             OrphanRead,
             OrphanDelete, Age, Tick, vars
      <4> QED
        BY <4>1, <4>2, <4>3 DEF Next
    <3> QED
      BY <3>1, <3>2
  <2>2. CASE state[c] # "open"
    <3>1. ASSUME NEW d \in Candidate, CandidateStep(d) PROVE c \in late'
      <4>1. CASE Apply(d) \/ Revive(d)
        BY <1>0, <1>3, <2>2, <4>1 DEF Apply, Revive, PeopleOK
      <4>2. CASE Send(d) \/ ApplyDies(d) \/ Hire(d) \/ Reject(d)
        BY <1>0, <1>3, <2>2, <4>2 DEF Send, ApplyDies, Hire, Reject, PeopleOK
      <4> QED
        BY <3>1, <4>1, <4>2 DEF CandidateStep
    <3>2. ASSUME NEW r \in Request, RequestStep(r) PROVE state'[c] # "open"
      BY <1>0, <2>2, <3>2 DEF PeopleOK, RequestStep, Create, ChargePost, FinalizeRead, Finalize,
         ExtendRead, Count, ChargeExtension, Extend, CloseRead, CloseReject, CloseShut, ReopenRead,
         Reopen, DeleteRead, DeleteFiles, Delete, DeleteRow, Refund, Die
    <3>3. ASSUME \/ SweepStep \/ SweepDies
                 \/ OrphanRead \/ \E failed \in SUBSET Deletable : OrphanDelete(failed)
                 \/ Age \/ Tick \/ UNCHANGED vars
          PROVE  state'[c] # "open"
      BY <1>0, <2>2, <3>3 DEF PeopleOK, SweepStep, SweepBegin, SelectOld, SelectPdf,
           SelectPii, SelectExpired,
           SelectDrafts, Select, PurgeOld, PurgePdf, PurgePii, DeleteExpired, DeleteDrafts,
           DeleteRow,
           SweepDies, OrphanRead, OrphanDelete, Age, Tick, vars
    <3> QED
      BY <1>3, <3>1, <3>2, <3>3 DEF Next
  <2> QED
    BY <2>1, <2>2
<1> QED
  BY <1>1, <1>2, <1>3 DEF Decided

-----------------------------------------------------------------------------
(* The theorems.                                                           *)

LEMMA IInvInit == Init => IInv
<1> SUFFICES ASSUME Init PROVE IInv
  OBVIOUS
<1>0. MaxExtensions \in Nat /\ LastDay \in Nat /\ MaxExtensions * 2 \in Nat
  BY JobAssumption
<1>1. Readings
  BY DEF Init, Readings, Nothing, Extending
<1>2. TypeOK
  <2>1. /\ status = "none" /\ draft = FALSE /\ young = TRUE /\ today = 0
        /\ closesAt = 0 /\ closedAt = 0 /\ extensions = 0
        /\ charged = {} /\ refunded = FALSE /\ linked = {} /\ stored = {}
        /\ sweep = "idle" /\ list = {} /\ weekly = "idle" /\ known = {}
        /\ late = {} /\ unpaid = FALSE
    BY DEF Init
  <2>2. today \in 0..LastDay /\ closedAt \in 0..today /\ extensions \in 0..MaxExtensions
    BY <1>0, <2>1
  <2>3. closesAt \in 0..(DEFAULT_JOB_DURATION + MaxExtensions * EXTENSION)
    BY <1>0, <2>1 DEF DEFAULT_JOB_DURATION, EXTENSION
  <2>4. state \in [Candidate -> {"none", "sent", "open", "rejected", "hired", "gone"}]
    BY DEF Init
  <2>5. sentOn \in [Candidate -> 0..today]
    BY DEF Init
  <2>6. pc \in [Request -> Label]
    BY DEF Init, Label
  <2>7. \A r \in Request : read[r].extensions \in 0..MaxExtensions
    BY <1>0 DEF Init, Nothing
  <2> QED
    BY <2>1, <2>2, <2>3, <2>4, <2>5, <2>6, <2>7 DEF TypeOK, Phase
<1>3. ExtensionsArePaid /\ Course /\ Decided /\ Charged
  BY DEF Init, ExtensionsArePaid, Course, Decided, ClosingBegan, Charged, Exists
<1> QED
  BY <1>1, <1>2, <1>3 DEF IInv

LEMMA IInvStep == IInv /\ [Next]_vars => IInv'
BY TypeStep, ReadingsStep, ExtensionsStep, CourseStep, DecidedStep, ChargedStep DEF IInv

\* What requests have read of the row, and what they owe, in every reachable state.
THEOREM InductiveInvariant == Spec => []IInv
BY IInvInit, IInvStep, PTL DEF Spec

\* Every variable keeps its type: no candidate's row names a file without the
\* row, and no key is charged but that of the posting and of its extensions.
THEOREM TypeCorrect == Spec => []TypeOK
<1>1. IInv => TypeOK
  BY DEF IInv
<1> QED
  BY <1>1, InductiveInvariant, PTL

\* However requests that extend overtake each other, and whichever is killed
\* between its charge and its UPDATE, every extension of a posting was paid for
\* and its closing date is the one they add up to.
THEOREM ExtensionsArePaidFor == Spec => []ExtensionsArePaid
<1>1. IInv => ExtensionsArePaid
  BY DEF IInv
<1> QED
  BY <1>1, InductiveInvariant, PTL

\* Whoever is undecided in a closed posting came, or came back, after the closing
\* had begun.
THEOREM ClosingDecides == Spec => []ClosedIsDecided
<1>1. IInv => ClosedIsDecided
  BY DEF IInv, Decided, ClosingBegan, ClosedIsDecided
<1> QED
  BY <1>1, InductiveInvariant, PTL

\* A regular posting is paid for, or being paid for, unless the request that made
\* it regular was killed before the charge; and it is not refunded while it is
\* there.
THEOREM RegularPostingIsPaid == Spec => []RegularIsPaid
<1>1. IInv => RegularIsPaid
  BY DEF IInv, Charged, Course, RegularIsPaid, Exists
<1> QED
  BY <1>1, InductiveInvariant, PTL
=============================================================================
