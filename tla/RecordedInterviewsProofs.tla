---------------------- MODULE RecordedInterviewsProofs ----------------------
(***************************************************************************)
(* Safety of RecordedInterviews for every value of its constants.          *)
(***************************************************************************)
EXTENDS RecordedInterviews, FiniteSetTheorems, WellFoundedInduction, TLAPS

USE DEF row, blobs, ledger, reads, locals, money, history, Goto, End, Lock, Settled, Done,
        Process, Sender

-----------------------------------------------------------------------------
(* The inductive invariant, part by part.                                  *)

Holds(p) == pc[p] \in Holding
Early    == status \in {"none", "recording"}

\* Labels of the work on one part, of the evaluation, and those of a request.
OnPart       == {"transcribe", "replace", "insert", "discard", "next"}
Finishing    == {"begin", "segments", "evaluate", "save", "charge", "revert"}
RequestLabel == Finishing \cup {"idle", "asked", "over"}

\* A worker holds a row in process, or one that an evaluation has settled under
\* its hands; a row in process whose lock is not fresh is held by nobody.
Locks ==
    /\ \A p \in Request : pc[p] \in RequestLabel
    /\ \A p \in Worker : /\ pc[p] \notin {"asked", "over"}
                         /\ Holds(p) => status \in {"processing"} \cup Settled
    /\ status = "processing" /\ lock # "fresh" => ~Held
    /\ OneWorker

Tries ==
    /\ WaitingHasTries
    /\ Early => attempts = 0
    /\ \A p \in Worker : Holds(p) => tries[p] = attempts

\* The list of parts is a tail of the recording; what a worker knows of it.
Tail ==
    /\ Early => audio = {}
    /\ \A a \in audio, b \in Part : a <= b => b \in audio
    /\ \A p \in Worker :
          /\ pc[p] \in OnPart => audio # {} /\ list[p] = audio
          /\ pc[p] = "next" => First(audio) \notin files
          /\ pc[p] = "fail" => files = {}
          /\ pc[p] \in {"count"} \cup Finishing => audio = {}

\* A request evaluates a row whose session has ended; audio is sent at its end.
Begun ==
    /\ \A p \in Request :
          pc[p] # "idle" => status # "none" /\ (status = "recording" => ended)
    /\ ~ended => \A s \in Sender : sending[s] = "no"

\* As long as no audio was attached to a row that did not take it.
TInv == TypeOK /\ ~crossed /\ Locks /\ Tries /\ Tail /\ Begun

\* A process at work on a part has read one, even if attachments crossed.
Reading == \A p \in Process : pc[p] \in OnPart => list[p] # {}

IInv == TypeOK /\ Reading /\ (crossed \/ TInv)

\* The first part of a list is one of the list.
LEMMA FirstIsListed ==
  ASSUME NEW S \in SUBSET Part, S # {}
  PROVE  First(S) \in S /\ \A q \in S : First(S) <= q
<1>1. S \in SUBSET Nat
  BY DEF Part
<1>2. PICK p \in S : \A q \in S : ~(<<q, p>> \in OpToRel(<, Nat))
  BY <1>1, NatLessThanWellFounded, WFMin
<1>3. ASSUME NEW q \in S, q < p PROVE FALSE
  <2>1. <<q, p>> \in OpToRel(<, Nat)
    BY <1>1, <1>3 DEF OpToRel
  <2> QED
    BY <1>2, <2>1
<1>4. \A q \in S : p <= q
  BY <1>1, <1>3
<1> QED
  BY <1>2, <1>4 DEF First

\* Nothing uncrosses the attachments, and until they cross each of them meets a
\* row that takes it.
LEMMA Uncrossed ==
  ASSUME [Next]_vars, ~crossed'
  PROVE  ~crossed /\ \A s \in Sender : AttachAudio(s) \/ RefuseAudio(s) => Takes
<1>1. ASSUME NEW p \in Process, Step(p) PROVE crossed' = crossed
  BY <1>1 DEF Step, MarkAsked, Transcription, Claim, Load, Transcribe, Replace, Insert, Discard,
              NextPart, Count, Finalize, Begin, ReadSegments, Evaluate, Save, SaveReport, Charge,
              Revert, Catch, Caught, Drop, Fail
<1>4. \A s \in Sender : AttachAudio(s) \/ RefuseAudio(s) => Takes
  BY DEF AttachAudio, RefuseAudio, Meets
<1>2. CASE Browser
  <2>1. CASE Upload \/ StartLive \/ CleanLive \/ Confirm
    BY <1>4, <2>1 DEF Upload, StartLive, CleanLive, Confirm
  <2>2. ASSUME NEW s \in Sender, BeginAttach(s) PROVE crossed' = crossed
    BY <2>2 DEF BeginAttach
  <2>3. ASSUME NEW s \in Sender, AttachAudio(s) \/ RefuseAudio(s) PROVE ~crossed
    BY <2>3 DEF AttachAudio, RefuseAudio, Meets
  <2>4. ASSUME NEW p \in Request, FinishLive(p) \/ AskAgain(p) PROVE crossed' = crossed
    BY <2>4 DEF FinishLive, AskAgain
  <2> QED
    BY <1>2, <1>4, <2>1, <2>2, <2>3, <2>4 DEF Browser
<1>3. ASSUME NEW p \in Process, Kill(p) \/ Throw(p) PROVE crossed' = crossed
  BY <1>3 DEF Kill, Throw
<1> QED
  BY <1>1, <1>2, <1>3, <1>4 DEF Next, vars, ModelFails, LockExpires, FailStuck, RequeueStuck

\* A process at work on a part has read the list it is in.
LEMMA ReadingStep ==
  ASSUME TypeOK, Reading, [Next]_vars
  PROVE  Reading'
<1>t. pc \in [Process -> Label] /\ list \in [Process -> SUBSET Part] /\ Reading
  BY DEF TypeOK
<1> USE <1>t, RecordedAssumption DEF Label, Reading, OnPart
<1>1. CASE Browser
  BY <1>1 DEF Browser, Upload, StartLive, CleanLive, BeginAttach, AttachAudio, RefuseAudio, Meets,
              Confirm, FinishLive, AskAgain
<1>2. ASSUME NEW p \in Process, MarkAsked(p) PROVE Reading'
  BY <1>2 DEF MarkAsked
<1>3. ASSUME NEW p \in Process, Transcription(p) PROVE Reading'
  <2>1. CASE Claim(p)
    BY <2>1 DEF Claim
  <2>2. CASE Load(p)
    BY <2>2 DEF Load, Raise, Finalizing
  <2>3. CASE Transcribe(p)
    BY <2>3 DEF Transcribe, Raise, Finalizing
  <2>4. CASE Replace(p) \/ Insert(p) \/ Discard(p)
    BY <2>4 DEF Replace, Insert, Discard
  <2>5. CASE NextPart(p)
    BY <2>5 DEF NextPart
  <2>6. CASE Count(p)
    BY <2>6 DEF Count, Raise, Finalizing
  <2> QED
    BY <1>3, <2>1, <2>2, <2>3, <2>4, <2>5, <2>6 DEF Transcription
<1>4. ASSUME NEW p \in Process, Finalize(p) PROVE Reading'
  <2>1. CASE Begin(p) \/ Evaluate(p) \/ Save(p)
    BY <2>1 DEF Begin, Evaluate, Save, SaveReport
  <2>2. CASE ReadSegments(p)
    BY <2>2 DEF ReadSegments, Raise, Finalizing
  <2>3. CASE Charge(p)
    BY <2>3 DEF Charge
  <2>4. CASE Revert(p)
    BY <2>4 DEF Revert
  <2> QED
    BY <1>4, <2>1, <2>2, <2>3, <2>4 DEF Finalize
<1>5. ASSUME NEW p \in Process, Catch(p) PROVE Reading'
  BY <1>5 DEF Catch, Caught, Drop, Fail
<1>6. ASSUME NEW p \in Process, Kill(p) PROVE Reading'
  BY <1>6 DEF Kill
<1>7. ASSUME NEW p \in Process, Throw(p) \/ \E e \in {"transient", "outage"} : ModelFails(p, e)
      PROVE  Reading'
  BY <1>7 DEF Throw, ModelFails, Raise, Finalizing
<1>8. CASE LockExpires \/ FailStuck \/ RequeueStuck \/ UNCHANGED vars
  BY <1>8 DEF LockExpires, FailStuck, RequeueStuck, vars
<1> QED
  BY <1>1, <1>2, <1>3, <1>4, <1>5, <1>6, <1>7, <1>8 DEF Next, Step

-----------------------------------------------------------------------------
(* Types, locks and the list.                                              *)

\* An error on its way keeps the types.
LEMMA RaiseTypes ==
  ASSUME TypeOK, NEW p \in Process, NEW e \in {"permanent", "transient", "outage"}, Raise(p, e)
  PROVE  /\ pc' \in [Process -> Label]
         /\ error' \in [Process -> {"none", "permanent", "transient", "outage"}]
BY DEF TypeOK, Raise, Label

\* The end of an invocation keeps the types.
LEMMA EndTypes ==
  ASSUME TypeOK, NEW p \in Process, End(p)
  PROVE  /\ pc' \in [Process -> Label] /\ text' \in [Process -> SUBSET Source]
         /\ list' \in [Process -> SUBSET Part] /\ tries' \in [Process -> Nat]
         /\ error' \in [Process -> {"none", "permanent", "transient", "outage"}]
BY DEF TypeOK, Label

\* Until attachments cross, a file that is stored is one of a part still listed, and
\* nobody has more than MAX_ATTEMPTS attempts.
LEMMA ListedStep ==
  ASSUME TInv, ~crossed', [Next]_vars
  PROVE  files' \subseteq audio' /\ attempts' <= MAX_ATTEMPTS
<1> USE RecordedAssumption DEF TInv, TypeOK
<1>a. Early => audio = {} /\ files = {}
  BY DEF Tail
<1>b. status = "queued" => attempts < MAX_ATTEMPTS
  BY DEF Tries, WaitingHasTries
<1>1. CASE Browser
  BY <1>1, <1>a DEF Browser, Upload, StartLive, CleanLive, BeginAttach, AttachAudio, RefuseAudio,
                    Meets, Takes, Confirm, FinishLive, AskAgain, Early
<1>2. ASSUME NEW p \in Process, Transcription(p)
      PROVE  files' \subseteq audio' /\ attempts' <= MAX_ATTEMPTS
  <2>1. CASE NextPart(p)
    <3>1. First(audio) \notin files /\ list[p] = audio
      BY <2>1 DEF NextPart, Tail, Locks, OnPart, RequestLabel, Finishing
    <3> QED
      BY <2>1, <3>1 DEF NextPart, OtherParts
  <2>2. CASE Claim(p)
    BY <1>b, <2>2 DEF Claim
  <2> QED
    BY <1>2, <2>1, <2>2 DEF Transcription, Load, Transcribe, Replace, Insert, Discard, Count
<1>3. ASSUME NEW p \in Process, Catch(p) PROVE files' \subseteq audio' /\ attempts' <= MAX_ATTEMPTS
  <2>1. CASE Fail(p)
    BY <2>1 DEF Fail, Tail, Locks, RequestLabel, Finishing
  <2> QED
    BY <1>3, <2>1 DEF Catch, Caught, Drop
<1>4. ASSUME NEW p \in Process, MarkAsked(p) \/ Finalize(p) \/ Kill(p) \/ Throw(p)
      PROVE  files' \subseteq audio' /\ attempts' <= MAX_ATTEMPTS
  BY <1>4 DEF MarkAsked, Finalize, Begin, ReadSegments, Evaluate, Save, SaveReport, Charge, Revert,
              Kill, Throw
<1>5. CASE LockExpires \/ FailStuck \/ RequeueStuck \/ UNCHANGED vars
  BY <1>5 DEF LockExpires, FailStuck, RequeueStuck, vars
<1> QED
  BY <1>1, <1>2, <1>3, <1>4, <1>5 DEF Next, Step, ModelFails

LEMMA TypeStep ==
  ASSUME IInv, [Next]_vars
  PROVE  TypeOK'
<1>l. crossed' \/ (files' \subseteq audio' /\ attempts' <= MAX_ATTEMPTS)
  BY Uncrossed, ListedStep DEF IInv
<1>r. \A p \in Process : pc[p] \in OnPart => First(list[p]) \in Part
  BY FirstIsListed DEF IInv, Reading, TypeOK
<1>t. TypeOK
  BY DEF IInv
<1> USE RecordedAssumption DEF TypeOK, Label, Source, Part
<1>1. CASE Browser
  <2>1. CASE Upload
    BY <1>l, <1>t, <2>1 DEF Upload
  <2>7. CASE StartLive
    BY <1>l, <1>t, <2>7 DEF StartLive
  <2>8. CASE CleanLive
    BY <1>l, <1>t, <2>8 DEF CleanLive, More
  <2>9. CASE Confirm
    BY <1>l, <1>t, <2>9 DEF Confirm
  <2>2. ASSUME NEW s \in Sender, BeginAttach(s) PROVE TypeOK'
    BY <1>l, <1>t, <2>2 DEF BeginAttach
  <2>3. ASSUME NEW s \in Sender, AttachAudio(s) PROVE TypeOK'
    BY <1>l, <1>t, <2>3 DEF AttachAudio, Meets
  <2>4. ASSUME NEW s \in Sender, RefuseAudio(s) PROVE TypeOK'
    BY <1>l, <1>t, <2>4 DEF RefuseAudio, Meets
  <2>5. ASSUME NEW p \in Request, FinishLive(p) PROVE TypeOK'
    <3>1. pc' \in [Process -> Label]
      <4>1. Goto(p, "over") \/ Goto(p, "begin")
        BY <2>5 DEF FinishLive
      <4> QED
        BY <1>t, <4>1
    <3>2. status' \in {"none", "recording", "queued", "processing"} \cup Settled
      BY <1>t, <2>5 DEF FinishLive
    <3>3. length' \in {"unknown", "short", "long"}
      BY <1>t, <2>5 DEF FinishLive
    <3> QED
      BY <1>l, <1>t, <2>5, <3>1, <3>2, <3>3 DEF FinishLive
  <2>6. ASSUME NEW p \in Request, AskAgain(p) PROVE TypeOK'
    BY <1>l, <1>t, <2>6 DEF AskAgain
  <2> QED
    BY <1>1, <2>1, <2>2, <2>3, <2>4, <2>5, <2>6, <2>7, <2>8, <2>9 DEF Browser
<1>2. ASSUME NEW p \in Process, MarkAsked(p) PROVE TypeOK'
  BY <1>l, <1>t, <1>2 DEF MarkAsked
<1>3. ASSUME NEW p \in Process, Transcription(p) PROVE TypeOK'
  <2>1. CASE Claim(p)
    BY <1>l, <1>t, <2>1 DEF Claim
  <2>2. CASE Load(p)
    <3>1. /\ pc' \in [Process -> Label]
          /\ error' \in [Process -> {"none", "permanent", "transient", "outage"}]
      <4>1. CASE Raise(p, "permanent")
        BY <1>t, <4>1, RaiseTypes
      <4>2. CASE (Goto(p, "count") \/ Goto(p, "transcribe")) /\ UNCHANGED error
        BY <1>t, <4>2
      <4> QED
        BY <2>2, <4>1, <4>2 DEF Load
    <3>2. list' \in [Process -> SUBSET Part]
      BY <1>t, <2>2 DEF Load
    <3> QED
      BY <1>l, <1>t, <2>2, <3>1, <3>2 DEF Load
  <2>3. CASE Transcribe(p)
    <3>1. First(list[p]) \in Part
      BY <1>r, <2>3 DEF Transcribe, OnPart
    <3>2. /\ pc' \in [Process -> Label]
          /\ error' \in [Process -> {"none", "permanent", "transient", "outage"}]
      <4>1. CASE Raise(p, "permanent")
        BY <1>t, <4>1, RaiseTypes
      <4>2. ASSUME NEW l \in Label, Goto(p, l), UNCHANGED error PROVE <3>2
        BY <1>t, <4>2
      <4> QED
        BY <2>3, <4>1, <4>2 DEF Transcribe
    <3>3. quiet' \in SUBSET Part
      <4>1. quiet' = quiet \/ quiet' = quiet \cup {First(list[p])}
        BY <2>3 DEF Transcribe
      <4> QED
        BY <1>t, <3>1, <4>1
    <3> QED
      BY <1>l, <1>t, <2>3, <3>2, <3>3 DEF Transcribe
  <2>4. CASE Replace(p)
    BY <1>l, <1>t, <2>4 DEF Replace
  <2>5. CASE Insert(p)
    BY <1>l, <1>t, <1>r, <2>5 DEF Insert, More, OnPart
  <2>6. CASE Discard(p)
    <3>1. files' \in SUBSET Part
      BY <1>t, <2>6 DEF Discard
    <3>2. pc' \in [Process -> Label]
      BY <1>t, <2>6 DEF Discard
    <3> QED
      BY <1>l, <1>t, <2>6, <3>1, <3>2 DEF Discard
  <2>7. CASE Count(p)
    <3>1. /\ pc' \in [Process -> Label]
          /\ error' \in [Process -> {"none", "permanent", "transient", "outage"}]
      <4>1. CASE Raise(p, "permanent")
        BY <1>t, <4>1, RaiseTypes
      <4>2. CASE Goto(p, "begin") /\ UNCHANGED error
        BY <1>t, <4>2
      <4> QED
        BY <2>7, <4>1, <4>2 DEF Count
    <3> QED
      BY <1>l, <1>t, <2>7, <3>1 DEF Count
  <2>8. CASE NextPart(p)
    <3>1. audio' \in SUBSET Part /\ files' \in SUBSET Part
      BY <1>t, <2>8 DEF NextPart, OtherParts
    <3>2. length' \in {"unknown", "short", "long"}
      BY <1>t, <2>8 DEF NextPart
    <3> QED
      BY <1>l, <1>t, <2>8, <3>1, <3>2, EndTypes DEF NextPart
  <2> QED
    BY <1>3, <2>1, <2>2, <2>3, <2>4, <2>5, <2>6, <2>7, <2>8 DEF Transcription
<1>4. ASSUME NEW p \in Process, Finalize(p) PROVE TypeOK'
  <2>1. CASE Begin(p)
    BY <1>l, <1>t, <2>1 DEF Begin
  <2>6. CASE Evaluate(p)
    BY <1>l, <1>t, <2>6 DEF Evaluate
  <2>2. CASE ReadSegments(p)
    <3>1. Spoken \in SUBSET Source
      BY DEF Spoken
    <3>2. /\ pc' \in [Process -> Label] /\ text' \in [Process -> SUBSET Source]
          /\ list' \in [Process -> SUBSET Part] /\ tries' \in [Process -> Nat]
          /\ error' \in [Process -> {"none", "permanent", "transient", "outage"}]
      <4>1. CASE Raise(p, "transient") /\ UNCHANGED reads
        BY <1>t, <4>1, RaiseTypes
      <4>2. CASE End(p)
        BY <1>t, <4>2, EndTypes
      <4>3. CASE /\ Goto(p, "evaluate") /\ UNCHANGED <<list, tries, error>>
                 /\ text' = [text EXCEPT ![p] = Spoken]
        BY <1>t, <3>1, <4>3
      <4> QED
        BY <2>2, <4>1, <4>2, <4>3 DEF ReadSegments
    <3>3. status' \in {"none", "recording", "queued", "processing"} \cup Settled
      BY <1>t, <2>2 DEF ReadSegments
    <3> QED
      BY <1>l, <1>t, <2>2, <3>2, <3>3 DEF ReadSegments
  <2>3. CASE Save(p)
    BY <1>l, <1>t, <2>3 DEF Save, SaveReport
  <2>4. CASE Charge(p)
    BY <1>l, <1>t, <2>4 DEF Charge, ChargeRow
  <2>5. CASE Revert(p)
    <3>1. status' \in {"none", "recording", "queued", "processing"} \cup Settled
      BY <1>t, <2>5 DEF Revert, UnlessDone
    <3>2. UNCHANGED <<audio, length, attempts, lock, blobs, copies, ledger, history>>
      BY <2>5 DEF Revert
    <3>3. CASE Goto(p, "caught") /\ UNCHANGED locals
      BY <1>l, <1>t, <3>1, <3>2, <3>3
    <3>4. CASE End(p)
      BY <1>l, <1>t, <3>1, <3>2, <3>4, EndTypes
    <3> QED
      BY <2>5, <3>3, <3>4 DEF Revert
  <2> QED
    BY <1>4, <2>1, <2>2, <2>3, <2>4, <2>5, <2>6 DEF Finalize
<1>5. ASSUME NEW p \in Process, Catch(p) PROVE TypeOK'
  <2>1. CASE Caught(p)
    <3>1. attempts' \in Nat
      BY <1>t, <2>1 DEF Caught
    <3>2. status' = status \/ status' = "queued"
      BY <2>1 DEF Caught, UnlessDone
    <3>3. /\ pc' \in [Process -> Label] /\ text' \in [Process -> SUBSET Source]
          /\ list' \in [Process -> SUBSET Part] /\ tries' \in [Process -> Nat]
          /\ error' \in [Process -> {"none", "permanent", "transient", "outage"}]
      <4>1. (Goto(p, "drop") /\ UNCHANGED locals) \/ End(p)
        BY <2>1 DEF Caught
      <4>2. CASE Goto(p, "drop") /\ UNCHANGED locals
        BY <1>t, <4>2
      <4>3. CASE End(p)
        BY <1>t, <4>3, EndTypes
      <4> QED
        BY <4>1, <4>2, <4>3
    <3>4. UNCHANGED <<audio, length, lock, blobs, copies, ledger, history>>
      BY <2>1 DEF Caught
    <3>5. status' \in {"none", "recording", "queued", "processing"} \cup Settled
      BY <1>t, <3>2
    <3> QED
      BY <1>l, <1>t, <3>1, <3>3, <3>4, <3>5
  <2>2. CASE Drop(p)
    BY <1>l, <1>t, <2>2 DEF Drop
  <2>3. CASE Fail(p)
    BY <1>l, <1>t, <2>3, EndTypes DEF Fail, UnlessDone
  <2> QED
    BY <1>5, <2>1, <2>2, <2>3 DEF Catch
<1>6. ASSUME NEW p \in Process, NEW e \in {"transient", "outage"}, ModelFails(p, e)
      PROVE  TypeOK'
  BY <1>l, <1>t, <1>6 DEF ModelFails, Raise
<1>7. ASSUME NEW p \in Process, Kill(p) PROVE TypeOK'
  BY <1>l, <1>t, <1>7 DEF Kill, Loses
<1>8. ASSUME NEW p \in Process, Throw(p) PROVE TypeOK'
  <2>1. pc[p] = "insert" => First(list[p]) \in Part
    BY <1>r DEF OnPart
  <2>2. /\ pc' \in [Process -> Label]
        /\ error' \in [Process -> {"none", "permanent", "transient", "outage"}]
    BY <1>t, <1>8, RaiseTypes DEF Throw
  <2>3. pc[p] = "insert" => [copies EXCEPT ![First(list[p])] = More(@)] \in [Source -> 0..2]
    BY <1>t, <2>1 DEF More
  <2>4. CASE pc[p] = "save" /\ SaveReport(p) /\ lost' = TRUE
    BY <1>l, <1>t, <1>8, <2>2, <2>4 DEF Throw, SaveReport
  <2>5. CASE pc[p] = "charge" /\ ChargeRow(p) /\ UNCHANGED <<row, copies, quiet, money>>
    BY <1>l, <1>t, <1>8, <2>2, <2>5 DEF Throw, ChargeRow
  <2>6. (lost \/ pc[p] = "charge") \in BOOLEAN
    OBVIOUS
  <2>7. CASE Loses(p) /\ UNCHANGED <<row, copies, ledger, quiet, report, saves, asks>>
    BY <1>l, <1>t, <1>8, <2>2, <2>6, <2>7 DEF Throw, Loses
  <2>8. CASE /\ pc[p] = "insert" /\ UNCHANGED <<row, ledger, quiet, money>>
             /\ copies' = [copies EXCEPT ![First(list[p])] = More(@)]
    BY <1>l, <1>t, <1>8, <2>2, <2>3, <2>8 DEF Throw
  <2> QED
    BY <1>8, <2>4, <2>5, <2>7, <2>8 DEF Throw
<1>9. CASE LockExpires \/ FailStuck \/ RequeueStuck
  <2>1. CASE LockExpires
    BY <1>l, <1>t, <2>1 DEF LockExpires
  <2>2. CASE FailStuck
    BY <1>l, <1>t, <2>2 DEF FailStuck
  <2>3. CASE RequeueStuck
    BY <1>l, <1>t, <2>3 DEF RequeueStuck
  <2> QED
    BY <1>9, <2>1, <2>2, <2>3
<1>10. CASE UNCHANGED vars
  BY <1>l, <1>t, <1>10 DEF vars
<1> QED
  BY <1>1, <1>2, <1>3, <1>4, <1>5, <1>6, <1>7, <1>8, <1>9, <1>10 DEF Next, Step

LEMMA LocksStep ==
  ASSUME TInv, ~crossed', [Next]_vars
  PROVE  Locks'
<1>t. pc \in [Process -> Label] /\ ~crossed /\ Locks
  BY DEF TInv, TypeOK
<1>e. Early => \A p \in Worker : pc[p] \notin Holding
  BY DEF TInv, Locks, Holds, Early
<1> USE <1>t, RecordedAssumption
    DEF Label, Locks, OneWorker, Holds, Held, Holding, RequestLabel, Finishing
<1>1. CASE Browser
  <2>1. CASE Upload \/ StartLive \/ CleanLive
    BY <1>e, <2>1 DEF Upload, StartLive, CleanLive, Early
  <2>2. CASE Confirm
    BY <2>2 DEF Confirm
  <2>3. ASSUME NEW s \in Sender, BeginAttach(s) PROVE Locks'
    BY <2>3 DEF BeginAttach
  <2>4. ASSUME NEW s \in Sender, AttachAudio(s) \/ RefuseAudio(s) PROVE Locks'
    <3>1. AtRest /\ pc' = pc /\ status' # "processing"
      BY <2>4 DEF AttachAudio, RefuseAudio, Meets, Takes
    <3> QED
      BY <3>1 DEF AtRest
  <2>5. ASSUME NEW p \in Request, FinishLive(p) PROVE Locks'
    BY <1>e, <2>5 DEF FinishLive, Early
  <2>6. ASSUME NEW p \in Request, AskAgain(p) PROVE Locks'
    BY <2>6 DEF AskAgain
  <2> QED
    BY <1>1, <2>1, <2>2, <2>3, <2>4, <2>5, <2>6 DEF Browser
<1>2. ASSUME NEW p \in Process, MarkAsked(p) PROVE Locks'
  BY <1>2 DEF MarkAsked
<1>3. ASSUME NEW p \in Process, Transcription(p) PROVE Locks'
  <2>1. CASE Claim(p)
    BY <2>1 DEF Claim
  <2>2. CASE Load(p)
    BY <2>2 DEF Load, Raise, Finalizing
  <2>3. CASE Transcribe(p)
    BY <2>3 DEF Transcribe, Raise, Finalizing
  <2>4. CASE Replace(p)
    BY <2>4 DEF Replace
  <2>6. CASE Insert(p)
    BY <2>6 DEF Insert
  <2>7. CASE Discard(p)
    BY <2>7 DEF Discard
  <2>8. CASE Count(p)
    BY <2>8 DEF Count, Raise, Finalizing
  <2>5. CASE NextPart(p)
    BY <2>5 DEF NextPart
  <2> QED
    BY <1>3, <2>1, <2>2, <2>3, <2>4, <2>5, <2>6, <2>7, <2>8 DEF Transcription
<1>4. ASSUME NEW p \in Process, Finalize(p) PROVE Locks'
  <2>1. CASE Begin(p)
    BY <2>1 DEF Begin
  <2>2. CASE ReadSegments(p)
    BY <2>2 DEF ReadSegments, Raise, Finalizing
  <2>3. CASE Evaluate(p)
    BY <2>3 DEF Evaluate
  <2>4. CASE Save(p)
    BY <2>4 DEF Save, SaveReport
  <2>5. CASE Charge(p)
    BY <2>5 DEF Charge
  <2>6. CASE Revert(p)
    BY <2>6 DEF Revert, UnlessDone
  <2> QED
    BY <1>4, <2>1, <2>2, <2>3, <2>4, <2>5, <2>6 DEF Finalize
<1>5. ASSUME NEW p \in Process, Catch(p) PROVE Locks'
  <2>1. CASE Caught(p)
    BY <2>1 DEF Caught, UnlessDone
  <2>2. CASE Drop(p)
    BY <2>2 DEF Drop
  <2>3. CASE Fail(p)
    BY <2>3 DEF Fail, UnlessDone
  <2> QED
    BY <1>5, <2>1, <2>2, <2>3 DEF Catch
<1>6. ASSUME NEW p \in Process, NEW e \in {"transient", "outage"}, ModelFails(p, e)
      PROVE  Locks'
  BY <1>6 DEF ModelFails, Raise, Finalizing
<1>7. ASSUME NEW p \in Process, Kill(p) PROVE Locks'
  BY <1>7 DEF Kill
<1>8. ASSUME NEW p \in Process, Throw(p) PROVE Locks'
  BY <1>8 DEF Throw, Raise, Finalizing, SaveReport
<1>9. CASE LockExpires \/ FailStuck \/ RequeueStuck
  BY <1>9 DEF LockExpires, FailStuck, RequeueStuck, Stuck
<1>10. CASE UNCHANGED vars
  BY <1>10 DEF vars
<1> QED
  BY <1>1, <1>2, <1>3, <1>4, <1>5, <1>6, <1>7, <1>8, <1>9, <1>10 DEF Next, Step

LEMMA TriesStep ==
  ASSUME TInv, ~crossed', [Next]_vars
  PROVE  Tries'
<1>t. /\ pc \in [Process -> Label] /\ tries \in [Process -> Nat] /\ attempts \in Nat
      /\ Tries /\ ~crossed
  BY DEF TInv, TypeOK
<1>l. /\ \A p \in Process, w \in Worker : p # w => ~(p \in Worker /\ Holds(p) /\ Holds(w))
      /\ Early => \A w \in Worker : ~Holds(w)
      /\ status = "queued" => \A w \in Worker : ~Holds(w)
      /\ status = "processing" /\ lock # "fresh" => \A w \in Worker : ~Holds(w)
      /\ \A p \in Worker : pc[p] \notin {"asked", "over"}
  BY DEF TInv, Locks, OneWorker, Holds, Held, Early
<1> USE <1>t, <1>l, RecordedAssumption DEF Tries, WaitingHasTries, Early, Holds, Holding, Label
<1>1. CASE Browser
  <2>1. CASE Upload \/ StartLive \/ CleanLive \/ Confirm
    BY <2>1 DEF Upload, StartLive, CleanLive, Confirm
  <2>2. ASSUME NEW s \in Sender, BeginAttach(s) PROVE Tries'
    BY <2>2 DEF BeginAttach
  <2>3. ASSUME NEW s \in Sender, AttachAudio(s) \/ RefuseAudio(s) PROVE Tries'
    BY <2>3 DEF AttachAudio, RefuseAudio, Meets, Takes, AtRest
  <2>4. ASSUME NEW p \in Request, FinishLive(p) \/ AskAgain(p) PROVE Tries'
    BY <2>4 DEF FinishLive, AskAgain
  <2> QED
    BY <1>1, <2>1, <2>2, <2>3, <2>4 DEF Browser
<1>2. ASSUME NEW p \in Process, MarkAsked(p) PROVE Tries'
  BY <1>2 DEF MarkAsked
<1>3. ASSUME NEW p \in Process, Transcription(p) PROVE Tries'
  <2>1. CASE Claim(p)
    BY <2>1 DEF Claim
  <2>2. CASE Load(p)
    BY <2>2 DEF Load, Raise, Finalizing
  <2>3. CASE Transcribe(p)
    BY <2>3 DEF Transcribe, Raise, Finalizing
  <2>4. CASE Replace(p) \/ Insert(p) \/ Discard(p)
    BY <2>4 DEF Replace, Insert, Discard
  <2>5. CASE NextPart(p)
    <3>1. p \in Worker
      BY <2>5 DEF TInv, Locks, RequestLabel, Finishing, NextPart
    <3> QED
      BY <2>5, <3>1 DEF NextPart
  <2>6. CASE Count(p)
    BY <2>6 DEF Count, Raise, Finalizing
  <2> QED
    BY <1>3, <2>1, <2>2, <2>3, <2>4, <2>5, <2>6 DEF Transcription
<1>4. ASSUME NEW p \in Process, Finalize(p) PROVE Tries'
  <2>1. CASE Begin(p) \/ Evaluate(p) \/ Save(p)
    BY <2>1 DEF Begin, Evaluate, Save, SaveReport
  <2>2. CASE ReadSegments(p)
    BY <2>2 DEF ReadSegments, Raise, Finalizing
  <2>3. CASE Charge(p)
    BY <2>3 DEF Charge
  <2>4. CASE Revert(p)
    BY <2>4 DEF Revert, UnlessDone
  <2> QED
    BY <1>4, <2>1, <2>2, <2>3, <2>4 DEF Finalize
<1>5. ASSUME NEW p \in Process, Catch(p) PROVE Tries'
  <2>1. p \in Worker
    BY <1>5 DEF TInv, Locks, RequestLabel, Finishing, Catch, Caught, Drop, Fail
  <2>2. CASE Caught(p)
    <3>1. CASE Goto(p, "drop") /\ UNCHANGED <<status, attempts, locals>>
      <4>1. pc[p] = "caught"
        BY <2>2 DEF Caught
      <4> QED
        BY <3>1, <4>1
    <3>2. CASE /\ error[p] = "transient" /\ TriesLeft(tries[p])
               /\ UnlessDone("queued") /\ End(p) /\ UNCHANGED attempts
      BY <2>1, <2>2, <3>2 DEF Caught, UnlessDone, TriesLeft
    <3>3. CASE error[p] = "outage"
      <4>1. /\ UnlessDone("queued") /\ End(p) /\ pc[p] = "caught"
            /\ attempts' = IF status \in Done \/ attempts = 0 THEN attempts ELSE attempts - 1
        BY <2>2, <3>3 DEF Caught
      <4>2. \A w \in Worker : pc'[w] \notin Holding
        BY <2>1, <4>1
      <4>3. status' = "queued" => attempts' < MAX_ATTEMPTS
        BY <2>1, <4>1 DEF UnlessDone, TInv, TypeOK
      <4>4. Early' => attempts' = 0
        BY <4>1 DEF UnlessDone
      <4> QED
        BY <4>2, <4>3, <4>4
    <3> QED
      BY <2>2, <3>1, <3>2, <3>3 DEF Caught
  <2>3. CASE Drop(p)
    BY <2>3 DEF Drop
  <2>4. CASE Fail(p)
    BY <2>1, <2>4 DEF Fail, UnlessDone
  <2> QED
    BY <1>5, <2>2, <2>3, <2>4 DEF Catch
<1>6. ASSUME NEW p \in Process, NEW e \in {"transient", "outage"}, ModelFails(p, e)
      PROVE  Tries'
  BY <1>6 DEF ModelFails, Raise, Finalizing
<1>7. ASSUME NEW p \in Process, Kill(p) PROVE Tries'
  BY <1>7 DEF Kill
<1>8. ASSUME NEW p \in Process, Throw(p) PROVE Tries'
  BY <1>8 DEF Throw, Raise, Finalizing, SaveReport
<1>9. CASE LockExpires \/ FailStuck \/ RequeueStuck
  BY <1>9 DEF LockExpires, FailStuck, RequeueStuck, Stuck, TriesLeft
<1>10. CASE UNCHANGED vars
  BY <1>10 DEF vars
<1> QED
  BY <1>1, <1>2, <1>3, <1>4, <1>5, <1>6, <1>7, <1>8, <1>9, <1>10 DEF Next, Step

LEMMA BegunStep ==
  ASSUME TInv, ~crossed', [Next]_vars
  PROVE  Begun'
<1> USE RecordedAssumption DEF TInv, TypeOK, Locks, Begun, Finishing, RequestLabel
<1>1. CASE Browser
  BY <1>1 DEF Browser, Upload, StartLive, CleanLive, BeginAttach, AttachAudio,
       RefuseAudio, Meets, Takes, AtRest, Confirm, FinishLive, AskAgain
<1>2. ASSUME NEW p \in Process, MarkAsked(p) \/ Transcription(p) \/ Catch(p) PROVE Begun'
  BY <1>2 DEF MarkAsked, Transcription, Claim, Load, Transcribe, Replace, Insert, Discard,
              NextPart, Count, Raise, Catch, Caught, Drop, Fail, UnlessDone
<1>3. ASSUME NEW p \in Process, Finalize(p) PROVE Begun'
  BY <1>3 DEF Finalize, Begin, ReadSegments, Raise, Finalizing, Evaluate, Save, SaveReport,
              Charge, Revert, UnlessDone
<1>4. ASSUME NEW p \in Process, NEW e \in {"transient", "outage"}, ModelFails(p, e)
      PROVE  Begun'
  BY <1>4 DEF ModelFails, Raise, Finalizing
<1>5. ASSUME NEW p \in Process, Kill(p) PROVE Begun'
  BY <1>5 DEF Kill, Holding
<1>6. ASSUME NEW p \in Process, Throw(p) PROVE Begun'
  BY <1>6 DEF Throw, Raise, Finalizing, SaveReport
<1>7. CASE LockExpires \/ FailStuck \/ RequeueStuck
  BY <1>7 DEF LockExpires, FailStuck, RequeueStuck
<1>8. CASE UNCHANGED vars
  BY <1>8 DEF vars
<1> QED
  BY <1>1, <1>2, <1>3, <1>4, <1>5, <1>6, <1>7, <1>8 DEF Next, Step
\* The steps that change the list or the files, and who takes them.
LEMMA ListMoves ==
  ASSUME TInv, ~crossed', [Next]_vars
  PROVE  \/ UNCHANGED <<audio, files>>
         \/ /\ status = "none" \/ (Takes /\ \E s \in Sender : sending[s] # "no")
            /\ audio' = Part /\ files' = Part /\ ~Early'
         \/ \E p \in Worker : Discard(p) \/ NextPart(p) \/ Drop(p) \/ Fail(p)
         \/ FailStuck
<1>1. CASE Browser
  <2>1. ASSUME NEW s \in Sender, RefuseAudio(s) PROVE UNCHANGED <<audio, files>>
    BY <2>1 DEF RefuseAudio, Meets, Takes
  <2>2. ASSUME NEW s \in Sender, BeginAttach(s) PROVE UNCHANGED <<audio, files>>
    BY <2>2 DEF BeginAttach
  <2>3. ASSUME NEW s \in Sender, AttachAudio(s)
        PROVE  Takes /\ sending[s] # "no" /\ audio' = Part /\ files' = Part /\ ~Early'
    BY <2>3 DEF AttachAudio, Meets, Early
  <2> QED
    BY <1>1, <2>1, <2>2, <2>3
       DEF Browser, Upload, StartLive, CleanLive, Confirm, FinishLive, AskAgain, Early
<1>2. ASSUME NEW p \in Process, Step(p)
      PROVE  \/ UNCHANGED <<audio, files>>
             \/ p \in Worker /\ (Discard(p) \/ NextPart(p) \/ Drop(p) \/ Fail(p))
  <2>1. CASE Discard(p) \/ NextPart(p) \/ Drop(p) \/ Fail(p)
    BY <2>1 DEF Discard, NextPart, Drop, Fail, TInv, Locks, RequestLabel, Finishing
  <2>2. CASE MarkAsked(p) \/ Claim(p) \/ Load(p) \/ Transcribe(p) \/ Replace(p) \/ Insert(p)
                \/ Count(p) \/ Caught(p)
    BY <2>2 DEF MarkAsked, Claim, Load, Transcribe, Replace, Insert, Count, Caught
  <2>3. CASE Finalize(p)
    BY <2>3 DEF Finalize, Begin, ReadSegments, Evaluate, Save, SaveReport, Charge, Revert
  <2> QED
    BY <1>2, <2>1, <2>2, <2>3 DEF Step, Transcription, Catch
<1>3. ASSUME NEW p \in Process, Kill(p) \/ Throw(p) PROVE UNCHANGED <<audio, files>>
  BY <1>3 DEF Kill, Throw, SaveReport
<1>4. ASSUME NEW p \in Process, NEW e \in {"transient", "outage"}, ModelFails(p, e)
      PROVE  UNCHANGED <<audio, files>>
  BY <1>4 DEF ModelFails
<1>5. CASE LockExpires \/ RequeueStuck
  BY <1>5 DEF LockExpires, RequeueStuck
<1>6. CASE UNCHANGED vars
  BY <1>6 DEF vars
<1> QED
  BY <1>1, <1>2, <1>3, <1>4, <1>5, <1>6 DEF Next

\* What brings a worker to the labels of the list.
LEMMA ListLabels ==
  ASSUME TInv, ~crossed', [Next]_vars, NEW w \in Worker
  PROVE  /\ pc'[w] \in OnPart =>
              \/ pc[w] \in OnPart /\ list'[w] = list[w]
              \/ /\ pc[w] = "load" /\ audio # {}
                 /\ audio' = audio /\ list'[w] = audio
         /\ pc'[w] = "next" => pc[w] = "next" \/ Discard(w)
         /\ pc'[w] = "fail" => pc[w] = "fail" \/ Drop(w)
         /\ pc'[w] \in {"count"} \cup Finishing =>
              pc[w] \in {"count"} \cup Finishing \/ (pc[w] = "load" /\ audio = {} /\ audio' = audio)
<1> USE RecordedAssumption DEF TInv, TypeOK, Label, OnPart, Finishing
<1>1. CASE Browser
  BY <1>1 DEF Browser, Upload, StartLive, CleanLive, BeginAttach, AttachAudio,
       RefuseAudio, Meets, Takes, AtRest, Confirm, FinishLive, AskAgain
<1>2. ASSUME NEW p \in Process, p # w, Step(p) \/ Kill(p) \/ Throw(p)
                 \/ \E e \in {"transient", "outage"} : ModelFails(p, e)
      PROVE  pc'[w] = pc[w] /\ list'[w] = list[w]
  BY <1>2 DEF Step, MarkAsked, Transcription, Claim, Load, Transcribe, Replace, Insert, Discard,
              NextPart, Count, Finalize, Begin, ReadSegments, Evaluate, Save, Charge, Revert,
              Catch, Caught, Drop, Fail, Raise, Kill, Throw, ModelFails
<1>3. CASE MarkAsked(w)
  BY <1>3 DEF MarkAsked, Locks
<1>4. CASE Transcription(w)
  <2>1. CASE Claim(w) \/ Load(w)
    BY <2>1 DEF Claim, Load, Raise, Finalizing
  <2>2. CASE Transcribe(w)
    BY <2>2 DEF Transcribe, Raise, Finalizing
  <2>3. CASE Replace(w) \/ Insert(w) \/ Discard(w) \/ NextPart(w) \/ Count(w)
    BY <2>3 DEF Replace, Insert, Discard, NextPart, Count, Raise, Finalizing
  <2> QED
    BY <1>4, <2>1, <2>2, <2>3 DEF Transcription
<1>5. CASE Finalize(w)
  BY <1>5 DEF Finalize, Begin, ReadSegments, Raise, Finalizing, Evaluate, Save, Charge, Revert
<1>6. CASE Catch(w)
  BY <1>6 DEF Catch, Caught, Drop, Fail
<1>7. CASE Kill(w) \/ Throw(w) \/ \E e \in {"transient", "outage"} : ModelFails(w, e)
  BY <1>7 DEF Kill, Throw, ModelFails, Raise, Finalizing
<1>8. CASE LockExpires \/ FailStuck \/ RequeueStuck \/ UNCHANGED vars
  BY <1>8 DEF LockExpires, FailStuck, RequeueStuck, vars
<1> QED
  BY <1>1, <1>2, <1>3, <1>4, <1>5, <1>6, <1>7, <1>8 DEF Next, Step

\* While a worker holds the row no other worker does anything with its list.
LEMMA ListIsHeld ==
  ASSUME TInv, ~crossed', [Next]_vars, NEW w \in Worker, Holds(w),
         \A p \in Worker : p = w => ~(Discard(p) \/ NextPart(p) \/ Drop(p) \/ Fail(p))
  PROVE  UNCHANGED <<audio, files>>
<1>1. ~Early /\ ~Takes
  BY DEF TInv, Locks, Early, Takes, AtRest, Holds, Holding
<1>2. ~FailStuck
  BY DEF TInv, Locks, Held, Holds, FailStuck, Stuck
<1>3. ASSUME NEW p \in Worker, p # w PROVE ~(Discard(p) \/ NextPart(p) \/ Drop(p) \/ Fail(p))
  BY <1>3 DEF TInv, Locks, OneWorker, Holds, Holding, Label, Discard, NextPart, Drop, Fail
<1> QED
  BY <1>1, <1>2, <1>3, ListMoves DEF Early

\* No step makes a row that exists a new one.
LEMMA EarlyEnds ==
  ASSUME [Next]_vars
  PROVE  Early' => Early
<1>1. ASSUME NEW p \in Process, Step(p) PROVE Early' => Early
  BY <1>1 DEF Early, Step, MarkAsked, Transcription, Claim, Load, Transcribe, Replace, Insert,
       Discard, NextPart, Count, Finalize, Begin, ReadSegments, Evaluate, Save, SaveReport,
       Charge, Revert, Catch, Caught, Drop, Fail, UnlessDone
<1>2. CASE Browser
  BY <1>2 DEF Early, Browser, Upload, StartLive, CleanLive, BeginAttach, AttachAudio,
       RefuseAudio, Meets, Takes, AtRest, Confirm, FinishLive,
       AskAgain
<1>3. ASSUME NEW p \in Process, Kill(p) \/ Throw(p) PROVE Early' => Early
  BY <1>3 DEF Early, Kill, Throw, SaveReport
<1> QED
  BY <1>1, <1>2, <1>3 DEF Next, vars, Early, ModelFails, LockExpires, FailStuck, RequeueStuck

LEMMA TailStep ==
  ASSUME TInv, ~crossed', [Next]_vars
  PROVE  Tail'
<1>a. audio \in SUBSET Part /\ files \in SUBSET audio /\ Part \subseteq Nat
  BY DEF TInv, TypeOK, Part
<1>1. Early' => audio' = {}
  <2>1. Early' => Early
    BY EarlyEnds
  <2>2. Early => ~\E p \in Worker : Discard(p) \/ NextPart(p) \/ Drop(p) \/ Fail(p)
    BY DEF TInv, Locks, Holds, Holding, Label, Early, Discard, NextPart, Drop, Fail
  <2>3. Early => ~FailStuck
    BY DEF Early, FailStuck, Stuck
  <2> QED
    BY <2>1, <2>2, <2>3, ListMoves DEF TInv, Tail, Early
<1>2. \A a \in audio', b \in Part : a <= b => b \in audio'
  <2>1. ASSUME NEW p \in Worker, NextPart(p) PROVE <1>2
    <3>1. /\ audio' = audio \ {First(audio)} /\ First(audio) \in audio
          /\ \A q \in audio : First(audio) <= q
      BY <1>a, <2>1, FirstIsListed DEF TInv, Tail, NextPart, OtherParts, OnPart
    <3> QED
      BY <1>a, <3>1 DEF TInv, Tail
  <2>2. ASSUME NEW p \in Worker, Fail(p) PROVE <1>2
    BY <2>2 DEF TInv, Tail, Fail
  <2>3. ASSUME NEW p \in Worker, Discard(p) \/ Drop(p) PROVE <1>2
    BY <2>3 DEF TInv, Tail, Discard, Drop
  <2>4. CASE FailStuck
    BY <2>4 DEF FailStuck
  <2> QED
    BY <2>1, <2>2, <2>3, <2>4, ListMoves DEF TInv, Tail
<1>3. ASSUME NEW w \in Worker
      PROVE  /\ pc'[w] \in OnPart => audio' # {} /\ list'[w] = audio'
             /\ pc'[w] = "next" => First(audio') \notin files'
             /\ pc'[w] = "fail" => files' = {}
             /\ pc'[w] \in {"count"} \cup Finishing => audio' = {}
  <2>1. CASE Discard(w)
    <3>1. /\ pc'[w] = "next" /\ audio' = audio /\ files' = files \ {First(audio)}
          /\ audio # {} /\ list' = list /\ list[w] = audio
      BY <2>1 DEF Discard, TInv, TypeOK, Tail, OnPart
    <3> QED
      BY <3>1 DEF Finishing, OnPart
  <2>2. CASE NextPart(w) \/ Fail(w)
    BY <2>2 DEF NextPart, Fail, TInv, TypeOK, OnPart, Finishing
  <2>3. CASE Drop(w)
    BY <1>a, <2>3 DEF Drop, TInv, TypeOK, OnPart, Finishing
  <2>4. CASE ~(Discard(w) \/ NextPart(w) \/ Drop(w) \/ Fail(w)) /\ Holds(w)
    <3>1. UNCHANGED <<audio, files>>
      BY <2>4, ListIsHeld
    <3> QED
      BY <2>4, <3>1, ListLabels DEF TInv, Tail
  <2>5. CASE ~Holds(w)
    BY <2>5, ListLabels DEF Holds, Holding, OnPart, Finishing, Label, TInv, TypeOK, Discard, Drop
  <2> QED
    BY <2>1, <2>2, <2>3, <2>4, <2>5
<1> QED
  BY <1>1, <1>2, <1>3 DEF Tail

LEMMA TInvStep ==
  ASSUME TInv, ~crossed', IInv, [Next]_vars
  PROVE  TInv'
BY TypeStep, LocksStep, TriesStep, TailStep, BegunStep DEF TInv

LEMMA IInvStep == IInv /\ [Next]_vars => IInv'
<1> SUFFICES ASSUME IInv, [Next]_vars PROVE IInv'
  OBVIOUS
<1>1. TypeOK' /\ Reading'
  BY TypeStep, ReadingStep DEF IInv
<1>2. crossed' \/ TInv'
  BY Uncrossed, TInvStep DEF IInv
<1> QED
  BY <1>1, <1>2 DEF IInv

LEMMA IInvInit == Init => IInv
<1> SUFFICES ASSUME Init PROVE IInv
  OBVIOUS
<1>1. TypeOK
  <2>1. copies \in [Source -> 0..2] /\ attempts \in Nat /\ attempts <= MAX_ATTEMPTS
        /\ extra \in Nat /\ saves \in Nat /\ asks \in Nat
    BY RecordedAssumption DEF Init
  <2>2. list \in [Process -> SUBSET Part] /\ tries \in [Process -> Nat]
    BY DEF Init
  <2> QED
    BY <2>1, <2>2 DEF Init, TypeOK, Label
<1>2. Locks
  BY DEF Init, Locks, RequestLabel, Holds, Held, Holding, OneWorker
<1>3. Tries
  BY RecordedAssumption DEF Init, Tries, WaitingHasTries, Early, Holds, Holding
<1>4. Tail /\ Begun /\ Reading /\ ~crossed
  BY RecordedAssumption DEF Init, Early, Tail, OnPart, Finishing, Begun, Reading
<1> QED
  BY <1>1, <1>2, <1>3, <1>4 DEF TInv, IInv

\* What workers and requests may rely on, in every reachable state.
THEOREM InductiveInvariant == Spec => []IInv
BY IInvInit, IInvStep, PTL DEF Spec

\* Every variable keeps its type; as long as no audio was attached to a row that no
\* longer took it, parts are worked off in order, and a file that is stored is one of a part
\* still listed.
THEOREM TypeCorrect == Spec => []TypeOK
<1>1. IInv => TypeOK
  BY DEF IInv
<1> QED
  BY <1>1, InductiveInvariant, PTL

\* However workers die and are recovered, requests evaluate in the background and
\* audio is attached to a failed row, two workers hold the row at the same time
\* only after audio was attached to a row that no longer took it.
THEOREM RowHasOneWorker == Spec => []OneWorker
<1>1. IInv => OneWorker
  BY DEF IInv, TInv, Locks, OneWorker
<1> QED
  BY <1>1, InductiveInvariant, PTL

-----------------------------------------------------------------------------
(* The files.                                                              *)

\* A request starts when the files are gone, and none comes while it is at work.
NoFilesAsked == \A p \in Request : pc[p] \notin {"idle", "over"} => files = {}

LEMMA FilesShrink ==
  ASSUME TInv, ~crossed', [Next]_vars, status # "none", ~AtRest
  PROVE  files' \subseteq files
BY ListMoves DEF Takes, Discard, NextPart, Drop, Fail, FailStuck

LEMMA NoFilesAskedStep ==
  ASSUME TInv, ~crossed', NoFilesAsked, AudioIsDiscarded, Offered \subseteq Settled, [Next]_vars
  PROVE  NoFilesAsked'
<1> SUFFICES ASSUME NEW p \in Request, pc'[p] \notin {"idle", "over"} PROVE files' = {}
  BY DEF NoFilesAsked
<1>1. CASE pc[p] \notin {"idle", "over"}
  <2>1. files = {} /\ status # "none" /\ ~AtRest
    BY <1>1 DEF NoFilesAsked, TInv, Begun, AtRest
  <2> QED
    BY <2>1, FilesShrink
<1>2. CASE pc[p] \in {"idle", "over"}
  <2>1. ASSUME NEW q \in Request, FinishLive(q) \/ AskAgain(q) PROVE files' = {}
    <3>1. files = {}
      BY <2>1 DEF FinishLive, AskAgain, AudioIsDiscarded, TInv, Tail, TypeOK, Early
    <3> QED
      BY <2>1, <3>1 DEF FinishLive, AskAgain
  <2>2. ASSUME NEW q \in Process, Step(q) \/ Kill(q) PROVE pc'[p] = pc[p]
    <3>1. pc[q] \notin {"idle", "over"} \/ (q \in Worker /\ Claim(q))
      BY <2>2 DEF Step, MarkAsked, Transcription, Claim, Load, Transcribe, Replace, Insert,
           Discard, NextPart, Count, Finalize, Begin, ReadSegments, Evaluate, Save, Charge,
           Revert, Catch, Caught, Drop, Fail, Kill, Holding
    <3>2. p # q
      BY <1>2, <3>1, RecordedAssumption
    <3> QED
      BY <1>2, <2>2, <3>2
         DEF TInv, TypeOK, Step, MarkAsked, Transcription, Claim, Load, Transcribe, Replace, Insert,
           Discard, NextPart, Count, Finalize, Begin, ReadSegments, Evaluate, Save, Charge,
           Revert, Catch, Caught, Drop, Fail, Raise, Kill
  <2>3. ASSUME NEW q \in Process, Throw(q) \/ \E e \in {"transient", "outage"} : ModelFails(q, e)
        PROVE  pc'[p] = pc[p]
    <3>1. pc[q] \notin {"idle", "over"}
      BY <2>3, RecordedAssumption DEF Throw, ModelFails
    <3> QED
      BY <1>2, <2>3, <3>1 DEF TInv, TypeOK, Throw, ModelFails, Raise
  <2>4. CASE UNCHANGED pc
    BY <1>2, <2>4
  <2> QED
    BY <1>2, <2>1, <2>2, <2>3, <2>4
       DEF Next, vars, Browser, Upload, StartLive, CleanLive, BeginAttach, AttachAudio,
       RefuseAudio, Meets, Takes, AtRest, Confirm, LockExpires,
           FailStuck, RequeueStuck
<1> QED
  BY <1>1, <1>2

LEMMA DiscardedStep ==
  ASSUME TInv, ~crossed', NoFilesAsked, AudioIsDiscarded, [Next]_vars
  PROVE  AudioIsDiscarded'
<1> USE DEF AudioIsDiscarded
<1>1. CASE Browser
  BY <1>1 DEF Browser, Upload, StartLive, CleanLive, BeginAttach, AttachAudio,
       RefuseAudio, Meets, Takes, AtRest, Confirm, FinishLive, AskAgain,
              TInv, TypeOK, Tail, Early
<1>2. ASSUME NEW p \in Process, pc[p] \in Finishing PROVE files = {}
  BY <1>2 DEF TInv, TypeOK, Tail, NoFilesAsked, Finishing
<1>3. ASSUME NEW p \in Process, Finalize(p) PROVE AudioIsDiscarded'
  <2>1. files = {} /\ files' = files
    BY <1>2, <1>3 DEF Finalize, Begin, ReadSegments, Evaluate, Save, SaveReport, Charge, Revert,
         Finishing
  <2> QED
    BY <2>1
<1>4. ASSUME NEW p \in Process, MarkAsked(p) \/ Transcription(p) PROVE AudioIsDiscarded'
  BY <1>4 DEF MarkAsked, Transcription, Claim, Load, Transcribe, Replace, Insert, Discard,
              NextPart, Count
<1>5. ASSUME NEW p \in Process, Catch(p) PROVE AudioIsDiscarded'
  <2>1. CASE Fail(p)
    BY <2>1 DEF Fail, TInv, Tail, Locks, RequestLabel, Finishing
  <2> QED
    BY <1>5, <2>1 DEF Catch, Caught, Drop, UnlessDone
<1>6. ASSUME NEW p \in Process, Throw(p) PROVE AudioIsDiscarded'
  <2>1. pc[p] = "save" => files = {}
    BY <1>2 DEF Finishing
  <2> QED
    BY <1>6, <2>1 DEF Throw, SaveReport
<1>7. CASE LockExpires \/ FailStuck \/ RequeueStuck
  BY <1>7 DEF LockExpires, FailStuck, RequeueStuck, TInv, TypeOK
<1>8. CASE UNCHANGED vars
  BY <1>8 DEF vars
<1> QED
  BY <1>1, <1>3, <1>4, <1>5, <1>6, <1>7, <1>8 DEF Next, Step, Kill, ModelFails

\* In a row that is ready or has failed no file is left whose deletion was not
\* asked for, whoever settled it and whatever died on the way, if a re-evaluation
\* is offered for settled rows only and no audio was attached to a row that no
\* longer took it.
THEOREM SettledRowsKeepNoAudio == Offered \subseteq Settled /\ Spec => []AudioIsDiscarded
<1> SUFFICES ASSUME Offered \subseteq Settled PROVE Spec => []AudioIsDiscarded
  OBVIOUS
<1> DEFINE Gone == crossed \/ (NoFilesAsked /\ AudioIsDiscarded)
<1>1. Init => Gone
  BY DEF Init, NoFilesAsked, AudioIsDiscarded
<1>2. IInv /\ Gone /\ [Next]_vars => Gone'
  BY Uncrossed, NoFilesAskedStep, DiscardedStep DEF IInv
<1>3. Gone => AudioIsDiscarded
  BY DEF AudioIsDiscarded
<1> HIDE DEF Gone
<1> QED
  BY <1>1, <1>2, <1>3, InductiveInvariant, PTL DEF Spec

-----------------------------------------------------------------------------
(* The charge.                                                             *)

Chargers == {p \in Process : pc[p] = "charge"}

\* Every charge, and every process on its way to one, has its report.
Paid == Charges + Cardinality(Chargers) <= saves

LEMMA ChargersCount ==
  ASSUME NEW S \in SUBSET Process
  PROVE  IsFiniteSet(S) /\ Cardinality(S) \in Nat
BY RecordedAssumption, FS_Subset, FS_CardinalityType

\* What a step does to reports, charges and those who are about to charge.
LEMMA MoneyMoves ==
  ASSUME TypeOK, [Next]_vars
  PROVE  \/ UNCHANGED <<base, extra>> /\ saves' >= saves /\ Chargers' \subseteq Chargers
         \/ \E p \in Process : Save(p)
         \/ \E p \in Process : pc[p] = "charge" /\ ChargeRow(p) /\ saves' = saves
                              /\ Chargers' \subseteq Chargers \ {p}
<1> USE DEF TypeOK, Label, Chargers
<1>1. CASE Browser
  BY <1>1 DEF Browser, Upload, StartLive, CleanLive, BeginAttach, AttachAudio,
       RefuseAudio, Meets, Takes, AtRest, Confirm, FinishLive, AskAgain
<1>2. ASSUME NEW p \in Process, MarkAsked(p) \/ Transcription(p) \/ Catch(p)
      PROVE  UNCHANGED <<base, extra>> /\ saves' >= saves /\ Chargers' \subseteq Chargers
  BY <1>2 DEF MarkAsked, Transcription, Claim, Load, Transcribe, Replace, Insert, Discard,
              NextPart, Count, Raise, Finalizing, Catch, Caught, Drop, Fail
<1>3. ASSUME NEW p \in Process, Begin(p) \/ ReadSegments(p) \/ Evaluate(p) \/ Revert(p)
      PROVE  UNCHANGED <<base, extra>> /\ saves' >= saves /\ Chargers' \subseteq Chargers
  BY <1>3 DEF Begin, ReadSegments, Raise, Finalizing, Evaluate, Revert
<1>4. ASSUME NEW p \in Process, Charge(p)
      PROVE  /\ pc[p] = "charge" /\ ChargeRow(p) /\ saves' = saves
             /\ Chargers' \subseteq Chargers \ {p}
  BY <1>4 DEF Charge
<1>5. ASSUME NEW p \in Process, NEW e \in {"transient", "outage"}, ModelFails(p, e)
      PROVE  UNCHANGED <<base, extra>> /\ saves' >= saves /\ Chargers' \subseteq Chargers
  BY <1>5 DEF ModelFails, Raise, Finalizing
<1>6. ASSUME NEW p \in Process, Kill(p)
      PROVE  UNCHANGED <<base, extra>> /\ saves' >= saves /\ Chargers' \subseteq Chargers
  BY <1>6 DEF Kill
<1>7. ASSUME NEW p \in Process, Throw(p)
      PROVE  \/ UNCHANGED <<base, extra>> /\ saves' >= saves /\ Chargers' \subseteq Chargers
             \/ /\ pc[p] = "charge" /\ ChargeRow(p) /\ saves' = saves
                /\ Chargers' \subseteq Chargers \ {p}
  BY <1>7 DEF Throw, Raise, Finalizing, SaveReport
<1>8. CASE LockExpires \/ FailStuck \/ RequeueStuck
  BY <1>8 DEF LockExpires, FailStuck, RequeueStuck
<1>9. CASE UNCHANGED vars
  BY <1>9 DEF vars
<1> QED
  BY <1>1, <1>2, <1>3, <1>4, <1>5, <1>6, <1>7, <1>8, <1>9 DEF Next, Step, Finalize

LEMMA PaidStep ==
  ASSUME IInv, Paid, [Next]_vars
  PROVE  Paid'
<1>0. /\ Chargers \in SUBSET Process /\ Chargers' \in SUBSET Process
      /\ base \in BOOLEAN /\ extra \in Nat /\ saves \in Nat /\ Charges \in Nat
      /\ base' \in BOOLEAN /\ extra' \in Nat /\ saves' \in Nat /\ Charges' \in Nat
  BY TypeStep DEF Chargers, IInv, TypeOK, Charges
<1>1. /\ IsFiniteSet(Chargers) /\ Cardinality(Chargers) \in Nat
      /\ IsFiniteSet(Chargers') /\ Cardinality(Chargers') \in Nat
  BY <1>0, ChargersCount
<1> HIDE DEF Process
<1>2. CASE UNCHANGED <<base, extra>> /\ saves' >= saves /\ Chargers' \subseteq Chargers
  <2>1. Cardinality(Chargers') <= Cardinality(Chargers) /\ Charges' = Charges
    BY <1>1, <1>2, FS_Subset DEF Charges
  <2> QED
    BY <1>0, <1>1, <1>2, <2>1 DEF Paid
<1>3. ASSUME NEW p \in Process, Save(p) PROVE Paid'
  <2>1. Chargers' = Chargers \cup {p} /\ p \notin Chargers
    BY <1>3 DEF Save, Chargers, IInv, TypeOK
  <2>2. Cardinality(Chargers') = Cardinality(Chargers) + 1
    BY <1>1, <2>1, FS_AddElement
  <2>3. saves' = saves + 1 /\ Charges' = Charges
    BY <1>3 DEF Save, SaveReport, Charges
  <2> QED
    BY <1>0, <1>1, <2>2, <2>3 DEF Paid
<1>4. ASSUME NEW p \in Process, pc[p] = "charge", ChargeRow(p), saves' = saves,
             Chargers' \subseteq Chargers \ {p}
      PROVE  Paid'
  <2>1. p \in Chargers
    BY <1>4 DEF Chargers
  <2>2. IsFiniteSet(Chargers \ {p}) /\ Cardinality(Chargers \ {p}) = Cardinality(Chargers) - 1
    BY <1>1, <2>1, FS_RemoveElement
  <2>3. Cardinality(Chargers') <= Cardinality(Chargers) - 1
    BY <1>4, <2>2, FS_Subset
  <2>4. Charges' <= Charges + 1
    BY <1>0, <1>4 DEF ChargeRow, Charges
  <2> QED
    BY <1>0, <1>1, <1>4, <2>3, <2>4 DEF Paid
<1> QED
  BY <1>2, <1>3, <1>4, MoneyMoves DEF IInv

-----------------------------------------------------------------------------
(* While nobody asks for a re-evaluation.                                  *)

Working == OnPart \cup {"load", "count", "begin", "segments", "evaluate", "save"}

\* One process holds the row, and until it has saved a report the row says so.
Alone ==
    /\ \A p \in Request : pc[p] # "asked"
    /\ \A p, q \in Process : p # q => ~(Holds(p) /\ Holds(q))
    /\ \A p, q \in Request : p # q => pc[p] = "idle" \/ pc[q] = "idle"
    /\ \A p \in Process : /\ Holds(p) => status # "queued"
                          /\ pc[p] \in Working =>
                               \/ status = "processing"
                               \/ p \in Request /\ pc[p] = "begin" /\ status = "recording"

\* There is at most one report, it makes the row ready, and its charge follows.
Once ==
    /\ saves = (IF status \in Done THEN 1 ELSE 0)
    /\ report # {} => saves = 1
    /\ Chargers # {} => saves = 1
    /\ saves = 1 /\ ~lost => base \/ Chargers # {}

LEMMA AloneStep ==
  ASSUME TInv, ~crossed', Alone, Once, asks = 0, asks' = 0, [Next]_vars
  PROVE  Alone'
<1>t. /\ pc \in [Process -> Label] /\ Locks /\ Begun /\ ~crossed
      /\ status \in {"none", "recording", "queued", "processing"} \cup Settled
  BY DEF TInv, TypeOK
<1> USE <1>t, RecordedAssumption
    DEF Label, Locks, Holds, Holding, RequestLabel, Finishing, Alone, OnPart, Working
<1>1. CASE Browser
  <2>1. CASE Upload \/ StartLive \/ CleanLive \/ Confirm
    BY <2>1 DEF Upload, StartLive, CleanLive, Confirm, Begun, Once
  <2>4. ASSUME NEW s \in Sender, BeginAttach(s) PROVE Alone'
    BY <2>4 DEF BeginAttach
  <2>5. ASSUME NEW s \in Sender, AttachAudio(s) \/ RefuseAudio(s) PROVE Alone'
    <3>1. UNCHANGED pc /\ \A p \in Process : pc[p] \in {"idle", "over"}
      BY <2>5 DEF AttachAudio, RefuseAudio, Meets, Takes, AtRest
    <3> QED
      BY <3>1
  <2>2. ASSUME NEW p \in Request, FinishLive(p) PROVE Alone'
    <3>1. \A q \in Request : pc[q] = "idle"
      BY <2>2 DEF FinishLive, Begun
    <3>2. \A q \in Worker : ~Holds(q)
      BY <2>2 DEF FinishLive
    <3> QED
      BY <2>2, <3>1, <3>2 DEF FinishLive
  <2>3. ASSUME NEW p \in Request, AskAgain(p) PROVE FALSE
    BY <2>3 DEF AskAgain
  <2> QED
    BY <1>1, <2>1, <2>2, <2>3, <2>4, <2>5 DEF Browser
<1>2. ASSUME NEW p \in Process, MarkAsked(p) PROVE FALSE
  BY <1>2 DEF MarkAsked
<1>3. ASSUME NEW p \in Process, Transcription(p) PROVE Alone'
  <2>1. CASE Claim(p)
    BY <2>1 DEF Claim
  <2>2. CASE Load(p)
    BY <2>2 DEF Load, Raise, Finalizing
  <2>3. CASE Transcribe(p)
    BY <2>3 DEF Transcribe, Raise, Finalizing
  <2>4. CASE Replace(p)
    BY <2>4 DEF Replace
  <2>6. CASE Insert(p)
    BY <2>6 DEF Insert
  <2>7. CASE Discard(p)
    BY <2>7 DEF Discard
  <2>8. CASE Count(p)
    BY <2>8 DEF Count, Raise, Finalizing
  <2>5. CASE NextPart(p)
    BY <2>5 DEF NextPart
  <2> QED
    BY <1>3, <2>1, <2>2, <2>3, <2>4, <2>5, <2>6, <2>7, <2>8 DEF Transcription
<1>4. ASSUME NEW p \in Process, Finalize(p) PROVE Alone'
  <2>1. CASE Begin(p)
    BY <2>1 DEF Begin
  <2>2. CASE ReadSegments(p)
    BY <2>2 DEF ReadSegments, Raise, Finalizing
  <2>3. CASE Evaluate(p)
    BY <2>3 DEF Evaluate
  <2>4. CASE Save(p)
    BY <2>4 DEF Save, SaveReport
  <2>5. CASE Charge(p)
    BY <2>5 DEF Charge
  <2>6. CASE Revert(p)
    BY <2>6 DEF Revert, UnlessDone
  <2> QED
    BY <1>4, <2>1, <2>2, <2>3, <2>4, <2>5, <2>6 DEF Finalize
<1>5. ASSUME NEW p \in Process, Catch(p) PROVE Alone'
  <2>1. CASE Caught(p)
    BY <2>1 DEF Caught, UnlessDone
  <2>2. CASE Drop(p)
    BY <2>2 DEF Drop
  <2>3. CASE Fail(p)
    BY <2>3 DEF Fail, UnlessDone
  <2> QED
    BY <1>5, <2>1, <2>2, <2>3 DEF Catch
<1>6. ASSUME NEW p \in Process, NEW e \in {"transient", "outage"}, ModelFails(p, e)
      PROVE  Alone'
  BY <1>6 DEF ModelFails, Raise, Finalizing
<1>7. ASSUME NEW p \in Process, Kill(p) PROVE Alone'
  BY <1>7 DEF Kill
<1>8. ASSUME NEW p \in Process, Throw(p) PROVE Alone'
  BY <1>8 DEF Throw, Raise, Finalizing, SaveReport
<1>9. CASE LockExpires \/ FailStuck \/ RequeueStuck
  BY <1>9 DEF LockExpires, FailStuck, RequeueStuck, Stuck, Held
<1>10. CASE UNCHANGED vars
  BY <1>10 DEF vars
<1> QED
  BY <1>1, <1>2, <1>3, <1>4, <1>5, <1>6, <1>7, <1>8, <1>9, <1>10 DEF Next, Step

LEMMA OnceStep ==
  ASSUME TInv, ~crossed', Alone, Once, asks = 0, asks' = 0, [Next]_vars
  PROVE  Once'
<1> USE DEF TInv, TypeOK, Label, Once, Chargers
<1>1. CASE Browser
  <2>1. CASE Upload \/ StartLive \/ CleanLive \/ Confirm
    BY <2>1 DEF Upload, StartLive, CleanLive, Confirm
  <2>2. ASSUME NEW s \in Sender, BeginAttach(s) PROVE Once'
    BY <2>2 DEF BeginAttach
  <2>3. ASSUME NEW s \in Sender, AttachAudio(s) \/ RefuseAudio(s) PROVE Once'
    <3>1. status \notin Done /\ status' \notin Done /\ UNCHANGED <<pc, ledger, report, saves, lost>>
      BY <2>3 DEF AttachAudio, RefuseAudio, Meets, Takes
    <3>2. Chargers' = Chargers
      BY <3>1
    <3> QED
      BY <3>1, <3>2
  <2>4. ASSUME NEW p \in Request, FinishLive(p) PROVE Once'
    BY <2>4 DEF FinishLive
  <2>5. ASSUME NEW p \in Request, AskAgain(p) PROVE FALSE
    BY <2>5 DEF AskAgain
  <2> QED
    BY <1>1, <2>1, <2>2, <2>3, <2>4, <2>5 DEF Browser
<1>2. ASSUME NEW p \in Process, MarkAsked(p) \/ Transcription(p) PROVE Once'
  BY <1>2 DEF Alone, Working, OnPart, Locks, RequestLabel, Finishing, MarkAsked, Transcription,
              Claim, Load, Transcribe,
              Replace, Insert, Discard, NextPart, Count, Raise, Finalizing
<1>3. ASSUME NEW p \in Process, Finalize(p) PROVE Once'
  <2>1. CASE Begin(p)
    BY <2>1 DEF Begin, Alone, Working
  <2>2. CASE ReadSegments(p)
    BY <2>2 DEF ReadSegments, Raise, Finalizing, Alone, Working
  <2>3. CASE Evaluate(p)
    BY <2>3 DEF Evaluate
  <2>4. CASE Save(p)
    BY <2>4 DEF Save, SaveReport, Alone, Working
  <2>5. CASE Charge(p)
    BY <2>5 DEF Charge, ChargeRow
  <2>6. CASE Revert(p)
    BY <2>6 DEF Revert, UnlessDone
  <2> QED
    BY <1>3, <2>1, <2>2, <2>3, <2>4, <2>5, <2>6 DEF Finalize
<1>4. ASSUME NEW p \in Process, Catch(p) PROVE Once'
  BY <1>4 DEF Catch, Caught, Drop, Fail, UnlessDone
<1>5. ASSUME NEW p \in Process, NEW e \in {"transient", "outage"}, ModelFails(p, e)
      PROVE  Once'
  BY <1>5 DEF ModelFails, Raise, Finalizing
<1>6. ASSUME NEW p \in Process, Kill(p) PROVE Once'
  BY <1>6 DEF Kill, Loses
<1>7. ASSUME NEW p \in Process, Throw(p) PROVE Once'
  <2>1. pc' = [pc EXCEPT ![p] = IF pc[p] \in Finalizing THEN "revert"
                               ELSE IF p \in Worker THEN "caught" ELSE "over"]
    BY <1>7 DEF Throw, Raise
  <2>2. CASE Loses(p) /\ UNCHANGED <<row, copies, ledger, quiet, report, saves, asks>>
    BY <2>1, <2>2 DEF Loses
  <2>3. CASE pc[p] = "insert" /\ UNCHANGED <<row, ledger, quiet, money>>
    BY <2>1, <2>3
  <2>4. CASE pc[p] = "save" /\ SaveReport(p) /\ lost' = TRUE
    <3>1. saves = 0 /\ {q \in Process : pc[q] = "charge"} = {}
      BY <2>4 DEF Alone, Working
    <3> QED
      BY <2>1, <2>4, <3>1 DEF SaveReport
  <2>5. CASE pc[p] = "charge" /\ ChargeRow(p) /\ UNCHANGED <<row, copies, quiet, money>>
    BY <2>1, <2>5 DEF ChargeRow
  <2> QED
    BY <1>7, <2>2, <2>3, <2>4, <2>5 DEF Throw
<1>8. CASE LockExpires \/ FailStuck \/ RequeueStuck
  BY <1>8 DEF LockExpires, FailStuck, RequeueStuck, Stuck
<1>9. CASE UNCHANGED vars
  BY <1>9 DEF vars
<1> QED
  BY <1>1, <1>2, <1>3, <1>4, <1>5, <1>6, <1>7, <1>8, <1>9 DEF Next, Step

-----------------------------------------------------------------------------
(* What is evaluated, while nobody asks for a re-evaluation.               *)

Asking    == \E r \in Request : pc[r] # "idle"
Whole(S)  == 0 \notin S /\ Part \subseteq S \cup quiet
Saying(s) == copies[s] > 0 \/ s \in quiet

\* A session that ended without audio has its draft and nothing else.
DraftOnly ==
    /\ ended /\ \A s \in Sender : sending[s] = "no"
    /\ audio = {} /\ \A s \in Part : copies[s] = 0
    /\ \A p \in Process : pc[p] \in {"evaluate", "save"} => text[p] \subseteq {0}
    /\ report \subseteq {0}

\* A recording: a part that is not listed any more is in the transcript, if it
\* says anything, and from the first part on the draft is not.
Heard ==
    /\ \A s \in Part \ audio : Saying(s)
    /\ 1 \notin audio => copies[0] = 0

Knows(w) ==
    /\ pc[w] = "replace" => First(audio) = 1
    /\ pc[w] \in {"insert", "discard", "next"} => copies[0] = 0
    /\ pc[w] \in {"discard", "next"} => Saying(First(audio))
    /\ pc[w] \in {"evaluate", "save"} => Whole(text[w])

FromAudio == Heard /\ \A w \in Worker : Knows(w)
Untouched == (\A p \in Process : ~Holds(p)) /\ (\A s \in Part : copies[s] = 0) /\ report = {}
Ended     == status = "failed" /\ ~Held

Story ==
    /\ Asking => DraftOnly
    /\ ~Asking /\ Early => Untouched
    /\ ~Asking /\ ~Early => (Ended \/ FromAudio) /\ (report # {} => Whole(report))

\* A request that has begun does not begin again.
LEMMA AskingStays ==
  ASSUME TInv, ~crossed', [Next]_vars, Asking
  PROVE  Asking'
<1> PICK r \in Request : pc[r] # "idle"
  BY DEF Asking
<1> SUFFICES pc'[r] # "idle"
  BY DEF Asking
<1> USE RecordedAssumption DEF TInv, TypeOK
<1>1. CASE Browser
  BY <1>1 DEF Browser, Upload, StartLive, CleanLive, BeginAttach, AttachAudio,
       RefuseAudio, Meets, Takes, AtRest, Confirm, FinishLive, AskAgain
<1>2. ASSUME NEW p \in Process, Step(p) PROVE pc'[r] # "idle"
  BY <1>2 DEF Step, MarkAsked, Transcription, Claim, Load, Transcribe, Replace, Insert, Discard,
              NextPart, Count, Finalize, Begin, ReadSegments, Evaluate, Save, Charge, Revert,
              Catch, Caught, Drop, Fail, Raise
<1>3. ASSUME NEW p \in Process, Kill(p) \/ Throw(p)
                \/ \E e \in {"transient", "outage"} : ModelFails(p, e)
      PROVE  pc'[r] # "idle"
  BY <1>3 DEF Kill, Throw, ModelFails, Raise
<1> QED
  BY <1>1, <1>2, <1>3 DEF Next, vars, LockExpires, FailStuck, RequeueStuck

\* Without a re-evaluation a request begins at the end of a live session.
LEMMA AskingBegins ==
  ASSUME TInv, ~crossed', [Next]_vars, ~Asking, Asking', asks' = asks
  PROVE  \E r \in Request : FinishLive(r)
<1> USE RecordedAssumption DEF TInv, TypeOK, Asking
<1>1. CASE Browser
  <2>1. ~(Upload \/ StartLive \/ CleanLive \/ Confirm)
    BY DEF Upload, StartLive, CleanLive, Confirm
  <2>2. \A s \in Sender : ~(BeginAttach(s) \/ AttachAudio(s) \/ RefuseAudio(s))
    BY DEF BeginAttach, AttachAudio, RefuseAudio
  <2>3. \A p \in Request : ~AskAgain(p)
    BY DEF AskAgain
  <2> QED
    BY <1>1, <2>1, <2>2, <2>3 DEF Browser
<1>2. ASSUME NEW p \in Process, Step(p) PROVE FALSE
  <2>1. p \in Worker
    BY <1>2 DEF Step, MarkAsked, Transcription, Claim, Load, Transcribe, Replace, Insert, Discard,
                NextPart, Count, Finalize, Begin, ReadSegments, Evaluate, Save, Charge, Revert,
                Catch, Caught, Drop, Fail
  <2> QED
    BY <1>2, <2>1 DEF Step, MarkAsked, Transcription, Claim, Load, Transcribe, Replace, Insert,
                Discard, NextPart, Count, Finalize, Begin, ReadSegments, Evaluate, Save, Charge,
                Revert, Catch, Caught, Drop, Fail, Raise
<1>3. ASSUME NEW p \in Process, Kill(p) \/ Throw(p)
                \/ \E e \in {"transient", "outage"} : ModelFails(p, e)
      PROVE  FALSE
  <2>1. p \in Worker
    BY <1>3 DEF Kill, Throw, ModelFails, Holding
  <2> QED
    BY <1>3, <2>1 DEF Kill, Throw, ModelFails, Raise
<1> QED
  BY <1>1, <1>2, <1>3 DEF Next, vars, LockExpires, FailStuck, RequeueStuck

\* The transcript is read and text of the report taken over by these steps only.
LEMMA DraftOnlyStep ==
  ASSUME TInv, ~crossed', Alone, Asking, DraftOnly, asks' = asks, [Next]_vars
  PROVE  DraftOnly'
<1> USE DEF TInv, TypeOK, DraftOnly
<1>0. \A s \in Sender : ~BeginAttach(s) /\ ~AttachAudio(s) /\ ~RefuseAudio(s)
  <2>1. ASSUME NEW s \in Sender, BeginAttach(s) PROVE FALSE
    <3>1. s > 1 /\ 1 \in Sender /\ 1 \in 1..(s - 1)
      BY <2>1, RecordedAssumption DEF BeginAttach
    <3> QED
      BY <2>1, <3>1 DEF BeginAttach
  <2>2. ASSUME NEW s \in Sender, AttachAudio(s) \/ RefuseAudio(s) PROVE FALSE
    BY <2>2 DEF AttachAudio, RefuseAudio
  <2> QED
    BY <2>1, <2>2
<1>1. audio' = {}
  <2>1. status # "none" /\ \A s \in Sender : sending[s] = "no"
    BY DEF Asking, Begun
  <2>2. ASSUME NEW p \in Worker, Discard(p) \/ NextPart(p) \/ Drop(p) \/ Fail(p) PROVE audio' = {}
    <3>1. ~NextPart(p)
      BY DEF NextPart, Tail, OnPart
    <3> QED
      BY <2>2, <3>1 DEF Discard, Drop, Fail
  <2>3. CASE FailStuck
    BY <2>3 DEF FailStuck
  <2> QED
    BY <2>1, <2>2, <2>3, ListMoves
<1>2. CASE Browser
  BY <1>0, <1>1, <1>2 DEF Browser, Upload, StartLive, CleanLive, Confirm, FinishLive, AskAgain,
                    Asking, Begun, Source, Part, Label
<1>3. ASSUME NEW p \in Process, MarkAsked(p) \/ Transcription(p) \/ Catch(p) PROVE DraftOnly'
  <2>1. ~(Transcribe(p) \/ Replace(p) \/ Insert(p) \/ Discard(p) \/ NextPart(p))
    BY DEF Transcribe, Replace, Insert, Discard, NextPart, Tail, OnPart, Locks, RequestLabel,
           Finishing
  <2>2. CASE MarkAsked(p) \/ Claim(p)
    BY <1>1, <2>2 DEF MarkAsked, Claim
  <2>3. CASE Load(p) \/ Count(p)
    BY <1>1, <2>3 DEF Load, Count, Raise, Finalizing
  <2>4. CASE Caught(p)
    BY <1>1, <2>4 DEF Caught
  <2>5. CASE Drop(p) \/ Fail(p)
    BY <1>1, <2>5 DEF Drop, Fail
  <2> QED
    BY <1>3, <2>1, <2>2, <2>3, <2>4, <2>5 DEF Transcription, Catch
<1>4. ASSUME NEW p \in Process, Finalize(p) PROVE DraftOnly'
  <2>1. CASE ReadSegments(p)
    <3>1. Spoken \subseteq {0}
      BY DEF Spoken, Source, Part
    <3>2. CASE Raise(p, "transient") /\ UNCHANGED reads
      BY <1>1, <2>1, <3>2 DEF ReadSegments, Raise, Finalizing
    <3>3. CASE End(p)
      BY <1>1, <2>1, <3>3 DEF ReadSegments
    <3>4. CASE text' = [text EXCEPT ![p] = Spoken] /\ Goto(p, "evaluate")
      BY <1>1, <2>1, <3>1, <3>4 DEF ReadSegments
    <3> QED
      BY <2>1, <3>2, <3>3, <3>4 DEF ReadSegments
  <2>2. CASE Begin(p)
    BY <1>1, <2>2 DEF Begin
  <2>4. CASE Evaluate(p)
    BY <1>1, <2>4 DEF Evaluate
  <2>5. CASE Charge(p)
    BY <1>1, <2>5 DEF Charge
  <2>6. CASE Revert(p)
    BY <1>1, <2>6 DEF Revert
  <2>3. CASE Save(p)
    BY <1>1, <2>3 DEF Save, SaveReport
  <2> QED
    BY <1>4, <2>1, <2>2, <2>3, <2>4, <2>5, <2>6 DEF Finalize
<1>5. ASSUME NEW p \in Process, NEW e \in {"transient", "outage"}, ModelFails(p, e)
      PROVE  DraftOnly'
  BY <1>1, <1>5 DEF ModelFails, Raise, Finalizing
<1>6. ASSUME NEW p \in Process, Kill(p) PROVE DraftOnly'
  BY <1>1, <1>6 DEF Kill
<1>7. ASSUME NEW p \in Process, Throw(p) PROVE DraftOnly'
  <2>1. pc[p] # "insert"
    BY DEF Tail, OnPart, Locks, RequestLabel, Finishing
  <2>2. /\ text' = text
        /\ pc' = [pc EXCEPT ![p] = IF pc[p] \in Finalizing THEN "revert"
                                   ELSE IF p \in Worker THEN "caught" ELSE "over"]
    BY <1>7 DEF Throw, Raise
  <2>3. UNCHANGED copies /\ (report' = report \/ (pc[p] = "save" /\ report' = text[p]))
    BY <1>7, <2>1 DEF Throw, SaveReport
  <2>4. \A q \in Process : pc'[q] \in {"evaluate", "save"} => pc[q] \in {"evaluate", "save"}
    BY <2>2
  <2>5. UNCHANGED <<ended, sending>>
    BY <1>7 DEF Throw
  <2> QED
    BY <1>1, <2>2, <2>3, <2>4, <2>5
<1>8. CASE LockExpires \/ FailStuck \/ RequeueStuck
  BY <1>1, <1>8 DEF LockExpires, FailStuck, RequeueStuck
<1>9. CASE UNCHANGED vars
  BY <1>9 DEF vars
<1> QED
  BY <1>2, <1>3, <1>4, <1>5, <1>6, <1>7, <1>8, <1>9 DEF Next, Step

\* The first events of a row: an upload, a live session that grows a draft and
\* ends with its audio or without.
LEMMA EarlyStep ==
  ASSUME TInv, ~crossed', Alone, ~Asking, Early, Untouched, asks' = asks, [Next]_vars
  PROVE  Story'
<1> USE RecordedAssumption DEF TInv, TypeOK
<1>0. (\A p \in Process : ~Holds(p)) /\ audio = {} /\ report = {} /\ copies \in [Source -> 0..2]
      /\ \A s \in Part : copies[s] = 0
  BY DEF Untouched, Tail
<1>1. ~Asking'
      => Browser \/ UNCHANGED <<status, audio, copies, report, quiet, pc, text>>
  <2>0. \A p \in Process : pc[p] = "idle"
    BY <1>0 DEF Holds, Holding, Label, Asking, Locks
  <2>1. ASSUME NEW p \in Process, Step(p) PROVE FALSE
    BY <2>0, <2>1 DEF Early, Step, MarkAsked, Transcription, Claim, Load, Transcribe, Replace,
       Insert, Discard, NextPart, Count, Finalize, Begin, ReadSegments, Evaluate, Save, Charge,
       Revert, Catch, Caught, Drop, Fail
  <2>2. ASSUME NEW p \in Process, Kill(p) \/ Throw(p)
                  \/ \E e \in {"transient", "outage"} : ModelFails(p, e)
        PROVE  FALSE
    BY <2>0, <2>2 DEF Kill, Throw, ModelFails, Holding
  <2>3. ~FailStuck /\ ~RequeueStuck
    BY DEF Early, FailStuck, RequeueStuck, Stuck
  <2>4. CASE LockExpires \/ UNCHANGED vars
    BY <2>4 DEF LockExpires, vars
  <2> QED
    BY <2>1, <2>2, <2>3, <2>4 DEF Next
<1>2. CASE Asking'
  <2>1. PICK r \in Request : FinishLive(r)
    BY <1>2, AskingBegins
  <2>2. \A p \in Process : pc[p] \notin {"evaluate", "save"}
    BY <1>0 DEF Holds, Holding
  <2>3. DraftOnly'
    BY <1>0, <2>1, <2>2 DEF FinishLive, DraftOnly, Begun
  <2> QED
    BY <1>2, <2>3 DEF Story
<1>3. CASE ~Asking' /\ Browser
  <2>1. \A r \in Request : ~FinishLive(r) /\ ~AskAgain(r)
    BY <1>3 DEF Asking, FinishLive, AskAgain
  <2>2. CASE Upload
    <3>1. Heard'
      BY <2>2 DEF Upload, Heard, Part
    <3>2. \A w \in Worker : Knows(w)'
      BY <1>0, <2>2 DEF Upload, Knows, Holds, Holding
    <3> QED
      BY <1>0, <1>3, <2>2, <3>1, <3>2 DEF Upload, Story, FromAudio, Early
  <2>3. CASE StartLive \/ CleanLive
    <3>1. Untouched' /\ Early'
      BY <1>0, <2>3 DEF StartLive, CleanLive, Untouched, Holds, Early, Source, Part
    <3> QED
      BY <1>3, <3>1 DEF Story
  <2>4. ASSUME NEW s \in Sender, BeginAttach(s) PROVE Story'
    <3>1. Untouched' /\ Early'
      BY <1>0, <2>4 DEF BeginAttach, Untouched, Holds, Early
    <3> QED
      BY <1>3, <3>1 DEF Story
  <2>6. ASSUME NEW s \in Sender, RefuseAudio(s) PROVE Story'
    BY <1>0, <1>3, <2>6 DEF RefuseAudio, Story, Ended, Held, Holds, Early
  <2>7. ASSUME NEW s \in Sender, AttachAudio(s) PROVE Story'
    <3>1. Heard'
      BY <2>7 DEF AttachAudio, Heard, Part
    <3>2. \A w \in Worker : Knows(w)'
      BY <1>0, <2>7 DEF AttachAudio, Knows, Holds, Holding
    <3> QED
      BY <1>0, <1>3, <2>7, <3>1, <3>2 DEF AttachAudio, Story, FromAudio, Early
  <2>5. ~Confirm
    BY DEF Confirm, Early
  <2> QED
    BY <1>3, <2>1, <2>2, <2>3, <2>4, <2>5, <2>6, <2>7 DEF Browser
<1>4. CASE ~Asking' /\ UNCHANGED <<status, audio, copies, report, quiet, pc, text>>
  <2>1. Untouched' /\ Early'
    BY <1>0, <1>4 DEF Untouched, Holds, Early
  <2> QED
    BY <1>4, <2>1 DEF Story
<1> QED
  BY <1>1, <1>2, <1>3, <1>4

\* What the holder of a row knows, what was heard and what the report says stay
\* true under its own steps.
LEMMA HolderStep ==
  ASSUME TInv, Alone, Once, ~Asking, ~Early, Heard, NEW w \in Worker, Holds(w), Knows(w),
         report # {} => Whole(report),
         \/ Step(w) \/ Throw(w) \/ Kill(w) \/ \E e \in {"transient", "outage"} : ModelFails(w, e)
  PROVE  /\ Heard' \/ (status' = "failed" /\ ~Holds(w)')
         /\ Knows(w)'
         /\ report' # {} => Whole(report)'
<1> USE RecordedAssumption
    DEF TInv, TypeOK, Label, Heard, Knows, Saying, Whole, Source, Part
<1>0. audio # {} => First(audio) \in audio /\ \A q \in audio : First(audio) <= q
  BY FirstIsListed
<1>1. w \notin Request /\ Request \cap Worker = {}
  OBVIOUS
<1>2. pc[w] \in OnPart => audio # {} /\ list[w] = audio /\ First(audio) \in 1..Parts
  BY <1>0 DEF Tail
<1>4. CASE MarkAsked(w) \/ Claim(w)
  BY <1>4 DEF MarkAsked, Claim, Locks, Holds, Holding
<1>5. CASE Load(w)
  BY <1>5 DEF Load, Raise, Finalizing
<1>6. CASE Transcribe(w)
  <2>1. UNCHANGED <<audio, copies, report, text>>
    BY <1>6 DEF Transcribe
  <2>2. pc'[w] \in {"replace", "insert", "discard", "caught"}
    BY <1>2, <1>6 DEF Transcribe, Raise, Finalizing, OnPart
  <2>3. pc'[w] = "replace" => First(audio) = 1
    BY <1>2, <1>6 DEF Transcribe, Raise, Finalizing, OnPart
  <2>4. pc'[w] \in {"insert", "discard"} => First(audio) # 1
    BY <1>2, <1>6 DEF Transcribe, Raise, Finalizing, OnPart
  <2>5. pc[w] = "transcribe" /\ (First(audio) # 1 => copies[0] = 0)
    BY <1>0, <1>2, <1>6 DEF Transcribe, OnPart
  <2>6. pc'[w] = "discard" => First(audio) \in quiet'
    BY <1>2, <1>6 DEF Transcribe, Raise, Finalizing, OnPart
  <2>7. quiet \subseteq quiet'
    BY <1>6 DEF Transcribe
  <2> QED
    BY <2>1, <2>2, <2>3, <2>4, <2>5, <2>6, <2>7
<1>7. CASE Replace(w)
  <2>1. First(audio) = 1 /\ 1 \in audio
    BY <1>0, <1>2, <1>7 DEF Replace, OnPart
  <2>2. \A b \in Part : 1 <= b => b \in audio
    BY <2>1 DEF Tail
  <2> QED
    BY <1>7, <2>1, <2>2 DEF Replace
<1>8. CASE Insert(w)
  <2>1. First(audio) \in Part /\ UNCHANGED <<audio, quiet, report, text>>
    BY <1>2, <1>8 DEF Insert, OnPart
  <2>2. copies'[0] = copies[0] /\ copies'[First(audio)] > 0
    BY <1>2, <1>8, <2>1 DEF Insert, More, OnPart
  <2>3. \A s \in Part : copies'[s] > 0 \/ copies'[s] = copies[s]
    BY <1>2, <1>8, <2>1, <2>2 DEF Insert, OnPart
  <2>4. pc[w] = "insert" /\ pc'[w] = "discard"
    BY <1>8 DEF Insert
  <2> QED
    BY <2>1, <2>2, <2>3, <2>4
<1>9. CASE Discard(w)
  <2>1. UNCHANGED <<audio, copies, quiet, report, text>>
    BY <1>9 DEF Discard
  <2> QED
    BY <1>9, <2>1 DEF Discard
<1>10. CASE NextPart(w)
  BY <1>2, <1>10 DEF NextPart, OtherParts, OnPart
<1>11. CASE Count(w)
  BY <1>11 DEF Count, Raise, Finalizing
<1>12. CASE Begin(w) \/ Evaluate(w) \/ Charge(w)
  BY <1>12 DEF Begin, Evaluate, Charge
<1>13. CASE ReadSegments(w)
  <2>1. audio = {}
    BY <1>13 DEF ReadSegments, Tail, Finishing
  <2>2. Whole(Spoken)
    BY <2>1 DEF Spoken
  <2>3. UNCHANGED <<audio, copies, quiet, report>>
    BY <1>13 DEF ReadSegments
  <2>4. pc'[w] \in {"revert", "idle"} \/ (pc'[w] = "evaluate" /\ text'[w] = Spoken)
    BY <1>13 DEF ReadSegments, Raise, Finalizing
  <2> QED
    BY <2>2, <2>3, <2>4
<1>14. CASE Save(w)
  BY <1>14 DEF Save, SaveReport
<1>15. CASE Revert(w)
  BY <1>15 DEF Revert
<1>16. CASE Caught(w) \/ Drop(w)
  BY <1>16 DEF Caught, Drop
<1>17. CASE Fail(w)
  BY <1>17 DEF Fail, UnlessDone, Holds, Holding
<1>18. CASE Kill(w)
  BY <1>18 DEF Kill
<1>19. ASSUME NEW e \in {"transient", "outage"}, ModelFails(w, e)
       PROVE  Heard' /\ Knows(w)' /\ (report' # {} => Whole(report)')
  BY <1>19 DEF ModelFails, Raise, Finalizing
<1>20. CASE Throw(w)
  <2>1. UNCHANGED <<audio, quiet, text>> /\ pc'[w] \in {"revert", "caught"}
    BY <1>20 DEF Throw, Raise, SaveReport
  <2>2. pc[w] = "insert" => First(audio) \in Part
    BY <1>2 DEF OnPart
  <2>3. \/ copies' = copies
        \/ First(audio) \in Part /\ copies' = [copies EXCEPT ![First(audio)] = More(@)]
    BY <1>2, <1>20, <2>2 DEF Throw, SaveReport, OnPart
  <2>4. copies'[0] = copies[0] /\ \A s \in Part : copies'[s] > 0 \/ copies'[s] = copies[s]
    BY <2>3 DEF More
  <2>5. report' = report \/ (pc[w] = "save" /\ report' = text[w])
    BY <1>20 DEF Throw, SaveReport
  <2> QED
    BY <2>1, <2>4, <2>5
<1>21. CASE Transcription(w)
  BY <1>4, <1>5, <1>6, <1>7, <1>8, <1>9, <1>10, <1>11, <1>21 DEF Transcription
<1>22. CASE Finalize(w)
  BY <1>12, <1>13, <1>14, <1>15, <1>22 DEF Finalize
<1>23. CASE Catch(w)
  BY <1>16, <1>17, <1>23 DEF Catch
<1>24. CASE Step(w)
  BY <1>4, <1>21, <1>22, <1>23, <1>24 DEF Step
<1>25. CASE \E e \in {"transient", "outage"} : ModelFails(w, e)
  BY <1>19, <1>25
<1> QED
  BY <1>18, <1>20, <1>24, <1>25

\* In a row that is settled, or that waits, a worker changes nothing before it
\* has claimed it; recovery acts on a row nobody holds.
LEMMA SettledStep ==
  ASSUME TInv, ~crossed', Alone, Once, ~Asking, ~Early, Ended \/ FromAudio,
         report # {} => Whole(report),
         asks' = asks, ~Asking', [Next]_vars
  PROVE  (Ended \/ FromAudio)' /\ (report # {} => Whole(report))'
<1> USE RecordedAssumption DEF TInv, TypeOK
<1>0. \A w \in Worker : Holds(w) => FromAudio
  BY DEF Ended, Held, Holds
<1>1. ASSUME NEW w \in Worker, Holds(w),
             \/ Step(w) \/ Throw(w) \/ Kill(w)
             \/ \E e \in {"transient", "outage"} : ModelFails(w, e)
      PROVE  (Ended \/ FromAudio)' /\ (report # {} => Whole(report))'
  <2>1. /\ Heard' \/ (status' = "failed" /\ ~Holds(w)')
        /\ Knows(w)'
        /\ report' # {} => Whole(report)'
    BY <1>0, <1>1, HolderStep DEF FromAudio
  <2>2. \A p \in Process : p # w => ~Holds(p) /\ pc'[p] = pc[p]
    BY <1>1 DEF Alone, Step, MarkAsked, Transcription, Claim, Load, Transcribe, Replace, Insert,
       Discard, NextPart, Count, Finalize, Begin, ReadSegments, Evaluate, Save, Charge, Revert,
       Catch, Caught, Drop, Fail, Kill, Throw, ModelFails, Raise
  <2>3. \A p \in Worker : p # w => Knows(p)'
    BY <2>2 DEF Knows, Holds, Holding
  <2>4. ~Holds(w)' => ~Held'
    BY <2>2 DEF Holds, Held
  <2> QED
    BY <2>1, <2>3, <2>4 DEF FromAudio, Ended
<1>2. ASSUME NEW w \in Worker, Claim(w)
      PROVE  (Ended \/ FromAudio)' /\ (report # {} => Whole(report))'
  <2>1. ~Ended
    BY <1>2 DEF Claim, Ended
  <2>2. Heard' /\ (report # {} => Whole(report))'
    BY <1>2, <2>1 DEF Claim, FromAudio, Heard, Saying, Whole
  <2>3. \A p \in Worker : Knows(p)'
    BY <1>2, <2>1 DEF Claim, FromAudio, Knows, Saying, Whole
  <2> QED
    BY <2>2, <2>3 DEF FromAudio
<1>3. CASE UNCHANGED <<audio, copies, quiet, report, pc, text>>
           /\ (status' = status \/ status # "failed")
  <2>1. Ended => Ended'
    BY <1>3 DEF Ended, Held
  <2>2. FromAudio => FromAudio'
    BY <1>3 DEF FromAudio, Heard, Knows, Saying, Whole
  <2> QED
    BY <1>3, <2>1, <2>2 DEF Whole
<1>4. CASE FailStuck
  BY <1>4 DEF FailStuck, Stuck, Locks, Ended, Held, Whole
<1>5. CASE Browser
  <2>1. ~Upload /\ ~StartLive /\ ~CleanLive
    BY DEF Early, Upload, StartLive, CleanLive
  <2>2. \A r \in Request : ~FinishLive(r) /\ ~AskAgain(r)
    BY DEF Early, FinishLive, AskAgain
  <2>3. CASE Confirm
    BY <1>3, <2>3 DEF Confirm
  <2>4. ASSUME NEW s \in Sender, BeginAttach(s)
        PROVE  (Ended \/ FromAudio)' /\ (report # {} => Whole(report))'
    BY <1>3, <2>4 DEF BeginAttach
  <2>5. ASSUME NEW s \in Sender, AttachAudio(s) \/ RefuseAudio(s)
        PROVE  (Ended \/ FromAudio)' /\ (report # {} => Whole(report))'
    <3>1. status = "failed" /\ report = {} /\ report' = {} /\ UNCHANGED pc
      BY <2>5 DEF AttachAudio, RefuseAudio, Meets, Takes, Once, Early
    <3>2. \A p \in Process : ~Holds(p)
      BY <2>5 DEF AttachAudio, RefuseAudio, Meets, Takes, AtRest, Holds, Holding
    <3>3. CASE AttachAudio(s)
      BY <3>1, <3>2, <3>3 DEF AttachAudio, FromAudio, Heard, Knows, Holds, Holding, Part
    <3>4. CASE RefuseAudio(s)
      BY <3>1, <3>2, <3>4 DEF RefuseAudio, Ended, Held, Holds
    <3> QED
      BY <2>5, <3>3, <3>4
  <2> QED
    BY <1>5, <2>1, <2>2, <2>3, <2>4, <2>5 DEF Browser
<1>6. CASE LockExpires \/ RequeueStuck \/ UNCHANGED vars
  <2>1. UNCHANGED <<audio, copies, quiet, report, pc, text>>
           /\ (status' = status \/ status # "failed")
    BY <1>6 DEF LockExpires, RequeueStuck, Stuck, vars
  <2> QED
    BY <1>3, <2>1
<1>7. ASSUME NEW p \in Process,
             \/ Step(p) \/ Throw(p) \/ Kill(p)
             \/ \E e \in {"transient", "outage"} : ModelFails(p, e)
      PROVE  p \in Worker /\ (Holds(p) \/ Claim(p))
  <2>1. pc[p] # "idle" \/ (p \in Worker /\ Claim(p))
    BY <1>7 DEF Step, MarkAsked, Transcription, Claim, Load, Transcribe, Replace, Insert,
       Discard, NextPart, Count, Finalize, Begin, ReadSegments, Evaluate, Save, Charge,
       Revert, Catch, Caught, Drop, Fail, Kill, Throw, ModelFails, Holding
  <2>2. p \in Worker
    BY <2>1 DEF Asking
  <2> QED
    BY <2>1, <2>2 DEF Locks, Holds, Holding, Label
<1> QED
  BY <1>1, <1>2, <1>4, <1>5, <1>6, <1>7 DEF Next

LEMMA StoryStep ==
  ASSUME TInv, ~crossed', Alone, Once, Story, asks' = asks, [Next]_vars
  PROVE  Story'
<1>1. CASE Asking
  BY <1>1, AskingStays, DraftOnlyStep DEF Story
<1>2. CASE ~Asking /\ Early
  BY <1>2, EarlyStep DEF Story
<1>3. CASE ~Asking /\ ~Early
  <2>1. ~Early'
    BY <1>3, EarlyEnds
  <2>2. ~Asking'
    BY <1>3, AskingBegins DEF FinishLive, Early
  <2> QED
    BY <1>3, <2>1, <2>2, SettledStep DEF Story
<1> QED
  BY <1>1, <1>2, <1>3

\* Requests to evaluate again are counted.
LEMMA AsksGrow == ASSUME TypeOK, [Next]_vars PROVE asks \in Nat /\ asks' >= asks
<1>0. asks \in Nat
  BY DEF TypeOK
<1>1. ASSUME NEW p \in Process, Step(p) PROVE asks' = asks
  BY <1>1 DEF Step, MarkAsked, Transcription, Claim, Load, Transcribe, Replace, Insert, Discard,
              NextPart, Count, Finalize, Begin, ReadSegments, Evaluate, Save, SaveReport, Charge,
              Revert, Catch, Caught, Drop, Fail
<1>2. CASE Browser
  BY <1>0, <1>2 DEF Browser, Upload, StartLive, CleanLive, BeginAttach, AttachAudio,
       RefuseAudio, Meets, Takes, AtRest, Confirm, FinishLive,
                    AskAgain
<1>3. ASSUME NEW p \in Process, Kill(p) \/ Throw(p) PROVE asks' = asks
  BY <1>3 DEF Kill, Throw, SaveReport
<1> QED
  BY <1>0, <1>1, <1>2, <1>3 DEF Next, vars, ModelFails, LockExpires, FailStuck, RequeueStuck

Unasked == asks = 0 => Alone /\ Once /\ Story

LEMMA UnaskedStep ==
  ASSUME TInv, ~crossed', Unasked, [Next]_vars
  PROVE  Unasked'
<1> SUFFICES ASSUME asks' = 0 PROVE Alone' /\ Once' /\ Story'
  BY DEF Unasked
<1>1. asks = 0
  BY AsksGrow DEF TInv
<1> QED
  BY <1>1, AloneStep, OnceStep, StoryStep DEF Unasked

\* Until attachments cross.
Told == crossed \/ Unasked

LEMMA ToldStep == IInv /\ Told /\ [Next]_vars => Told'
BY Uncrossed, UnaskedStep DEF IInv, Told

LEMMA MoneyInit == Init => Paid /\ Told
<1> SUFFICES ASSUME Init PROVE Paid /\ Unasked
  BY DEF Told
<1>1. Chargers = {}
  BY DEF Init, Chargers
<1>2. Cardinality(Chargers) = 0 /\ Charges = 0
  BY <1>1, FS_EmptySet DEF Init, Charges
<1>3. Paid /\ Once
  BY <1>1, <1>2 DEF Init, Paid, Once
<1>4. Alone
  BY DEF Init, Alone, Holds, Holding, Working, OnPart
<1>5. Story
  <2>1. \A p \in Process : ~Holds(p)
    BY DEF Init, Holds, Holding
  <2>2. ~Asking /\ Early /\ report = {} /\ \A s \in Part : copies[s] = 0
    BY DEF Init, Asking, Early, Part, Source
  <2> QED
    BY <2>1, <2>2 DEF Story, Untouched
<1> QED
  BY <1>3, <1>4, <1>5 DEF Unasked

\* Nothing is charged without a report, and as long as nobody asks for a
\* re-evaluation every report is charged once, however often workers were killed
\* or failed before it, unless one ended between the report and its charge or
\* attachments crossed.
THEOREM ReportsAreChargedOnce == Spec => []OneChargePerReport
<1>1. IInv /\ Paid /\ Told => OneChargePerReport
  <2> SUFFICES ASSUME IInv, Paid, Told PROVE OneChargePerReport
    OBVIOUS
  <2>1. /\ Cardinality(Chargers) \in Nat /\ Charges \in Nat /\ saves \in Nat
        /\ base \in BOOLEAN /\ extra \in Nat
    BY ChargersCount DEF Chargers, Charges, IInv, TypeOK
  <2>2. Charges <= saves
    BY <2>1 DEF Paid
  <2>3. ASSUME AtRest, ~lost, asks = 0, ~crossed PROVE saves = Charges
    <3>1. Chargers = {}
      BY <2>3 DEF AtRest, Chargers
    <3>2. CASE saves = 1
      BY <2>1, <2>2, <2>3, <3>1, <3>2 DEF Told, Unasked, Once, Charges
    <3>3. CASE saves = 0
      BY <2>1, <2>2, <3>3
    <3> QED
      BY <2>3, <3>2, <3>3 DEF Told, Unasked, Once
  <2> QED
    BY <2>2, <2>3 DEF OneChargePerReport
<1>2. IInv /\ Paid /\ Told /\ [Next]_vars => Paid' /\ Told'
  BY PaidStep, ToldStep
<1> QED
  BY <1>1, <1>2, MoneyInit, InductiveInvariant, PTL DEF Spec

\* As long as nobody asks for a re-evaluation and attachments do not cross, no
\* failure, retry or recovery of a dead worker takes a report back.
THEOREM ReportsAreFinal == Spec => ReportIsFinal
<1>1. IInv /\ Told /\ [Next]_vars
        => [(status \in Done /\ asks' = 0 /\ ~crossed') => status' \in Done]_vars
  <2> SUFFICES ASSUME IInv, Told, [Next]_vars, status \in Done, asks' = 0, ~crossed'
               PROVE  status' \in Done
    OBVIOUS
  <2>0. TInv /\ Unasked
    BY Uncrossed DEF IInv, Told
  <2>1. asks = 0
    BY <2>0, AsksGrow DEF TInv
  <2>2. Once /\ Once'
    BY <2>0, <2>1, UnaskedStep DEF Unasked
  <2>3. saves' >= saves
    BY MoneyMoves DEF Save, SaveReport, IInv, TypeOK
  <2> QED
    BY <2>2, <2>3 DEF Once
<1>2. IInv /\ Told /\ [Next]_vars => Told'
  BY ToldStep
<1> QED
  BY <1>1, <1>2, MoneyInit, InductiveInvariant, PTL DEF Spec, ReportIsFinal

\* As long as nobody asks for a re-evaluation, a report is on every part in which
\* somebody spoke and not on the draft of the browser, however often workers
\* died or failed between the parts, unless attachments crossed; a session without
\* audio is evaluated on its draft alone.
THEOREM ReportsAreWhole == Spec => []ReportIsWhole
<1>1. IInv /\ Told => ReportIsWhole
  <2> SUFFICES ASSUME IInv, Told, report # {}, asks = 0, ~crossed
               PROVE  IF Asking THEN report = {0} ELSE Whole(report)
    BY DEF ReportIsWhole, Asking, Whole
  <2>1. Story
    BY DEF Told, Unasked
  <2> QED
    BY <2>1 DEF Story, DraftOnly, Untouched
<1>2. IInv /\ Told /\ [Next]_vars => Told'
  BY ToldStep
<1> QED
  BY <1>1, <1>2, MoneyInit, InductiveInvariant, PTL DEF Spec
=============================================================================
