------------------------- MODULE RecordedInterviews -------------------------
(***************************************************************************)
(* One recording of a face-to-face interview: a row of recorded_interviews,*)
(* the stored parts of its audio, the transcript in                        *)
(* interview_transcript_segments, the workers of                           *)
(* /api/internal/process-recorded-interviews that transcribe one part per  *)
(* invocation and then evaluate, the recovery of rows whose worker died,   *)
(* the requests that attach the audio of a live session, and those that    *)
(* evaluate in the background (the end of a live session without audio, a  *)
(* re-evaluation).  The rows are the queue; they share nothing but the     *)
(* order in which they are claimed.                                        *)
(***************************************************************************)
EXTENDS Integers, FiniteSets

CONSTANTS
    Parts,         \* number of parts a recording is split into
    Worker,        \* worker invocations alive at once
    Request,       \* requests that evaluate in the background, each once
    ATTACHMENTS,   \* bound: requests that attach audio
    Crossing,      \* bound: whether one may meet a row that no longer takes it
    MAX_ATTEMPTS,  \* MAX_RECORDED_ATTEMPTS, 5 in the code
    Offered,       \* states in which the page offers a re-evaluation
    DiesAt,        \* labels at which an invocation may be killed
    Throws         \* labels whose statement may throw, committed or not

Part    == 1..Parts
Source  == 0..Parts        \* of a transcript: 0 is the draft of the browser
Process == Worker \cup Request
Sender  == 1..ATTACHMENTS  \* numbered in the order in which they read the row

Label == {"idle", "load", "transcribe", "replace", "insert", "discard", "next",
          "count", "asked", "begin", "segments", "evaluate", "save", "charge",
          "revert", "caught", "drop", "fail", "over"}

ASSUME RecordedAssumption ==
    /\ Parts \in Nat \ {0} /\ MAX_ATTEMPTS \in Nat \ {0}
    /\ Worker \cap Request = {} /\ IsFiniteSet(Process)
    /\ ATTACHMENTS \in Nat /\ Crossing \in BOOLEAN
    /\ Offered \subseteq {"queued", "ready", "failed", "confirmed"}
    /\ DiesAt \subseteq Label /\ Throws \subseteq Label \ {"idle", "over"}

VARIABLES
    status,    \* "none" before the row exists
    audio,     \* parts listed in audio_blob_key
    files,     \* parts whose file is stored and was never asked to be deleted
    copies,    \* [Source -> 0..2]: times its text is in the transcript (2: more)
    length,    \* duration_seconds: "unknown" (0), "short" (under 5 minutes), "long"
    attempts,
    lock,      \* started_at: "none", "fresh", or "stale" after 360s
    ended,     \* the browser hands over its audio, or has none
    sending,   \* of each sender: the length it will write, "brief" if that is
               \*   under five minutes, "no" before and "done" after
    base,      \* the ledger has the row of the first charge
    extra,     \* number of rows of later charges (_re1, ...)
    pc,        \* of each process: its label,
    text,      \*   the sources of the transcript it evaluates,
    list,      \*   the parts it has read from the row,
    tries,     \*   the attempts it has read when it claimed the row,
    error,     \*   the error that is on its way to the catch block
    quiet,     \* history: parts in which nobody spoke
    report,    \* history: the sources of the last report saved
    saves,     \* history: number of reports saved
    asks,      \* history: number of re-evaluations
    lost,      \* history: an invocation ended between the report and its charge
    crossed    \* history: audio was attached to a row that no longer took it, or
               \*   that somebody was at work on

row     == <<status, audio, length, attempts, lock>>
blobs   == <<files, ended, sending>>
ledger  == <<base, extra>>
reads   == <<text, list, tries>>
locals  == <<text, list, tries, error>>
money   == <<report, saves, asks, lost>>
history == <<quiet, report, saves, asks, lost, crossed>>
vars == <<row, blobs, copies, ledger, pc, locals, history>>

Settled == {"ready", "failed", "confirmed"}
First(S) == CHOOSE p \in S : \A q \in S : p <= q
Spoken  == {s \in Source : copies[s] > 0}
Goto(p, l) == pc' = [pc EXCEPT ![p] = l]
\* The invocation ends; a worker is started again by the next tick of the cron.
End(p) ==
    /\ Goto(p, IF p \in Worker THEN "idle" ELSE "over")
    /\ text' = [text EXCEPT ![p] = {}]
    /\ list' = [list EXCEPT ![p] = {}]
    /\ tries' = [tries EXCEPT ![p] = 0]
    /\ error' = [error EXCEPT ![p] = "none"]
More(n) == IF n = 0 THEN 1 ELSE 2

Init ==
    /\ status = "none" /\ audio = {} /\ files = {} /\ ended = FALSE
    /\ copies = [s \in Source |-> 0]
    /\ length = "unknown" /\ attempts = 0 /\ lock = "none"
    /\ base = FALSE /\ extra = 0
    /\ pc = [p \in Process |-> "idle"]
    /\ text = [p \in Process |-> {}] /\ list = [p \in Process |-> {}]
    /\ tries = [p \in Process |-> 0]
    /\ error = [p \in Process |-> "none"]
    /\ sending = [s \in Sender |-> "no"]
    /\ quiet = {} /\ report = {} /\ saves = 0 /\ asks = 0
    /\ lost = FALSE /\ crossed = FALSE

-----------------------------------------------------------------------------
(* The browser.                                                            *)

\* POST recorded-interview: all parts are stored, then the row is inserted.
\* A measured length under five minutes is refused.
Upload ==
    /\ status = "none"
    /\ status' = "queued" /\ audio' = Part /\ files' = Part /\ ended' = TRUE
    /\ length' \in {"unknown", "long"}
    /\ UNCHANGED <<sending, copies, attempts, lock, ledger, pc, locals, history>>

\* live, action "start".
StartLive ==
    /\ status = "none"
    /\ status' = "recording"
    /\ UNCHANGED <<audio, length, attempts, lock, blobs, copies, ledger, pc,
                   locals, history>>

\* live, action "clean": the draft grows; the browser waits for the last of
\* these before it ends the session.
CleanLive ==
    /\ status = "recording" /\ ~ended
    /\ copies' = [copies EXCEPT ![0] = More(@)]
    /\ UNCHANGED <<row, blobs, ledger, pc, locals, history>>

\* The session ends with audio, which this tab or another one hands over: the
\* row is read, ...
BeginAttach(s) ==
    /\ sending[s] = "no"
    /\ status \in {"recording", "failed"}
    /\ \A t \in 1..(s - 1) : sending[t] # "no"
    /\ ended => s > 1
    /\ ended' = TRUE
    /\ \E l \in {length, "long", "brief"} : sending' = [sending EXCEPT ![s] = l]
    /\ UNCHANGED <<row, files, copies, ledger, pc, locals, history>>

\* A row that takes audio: it lists none, and nobody is at work on it.
AtRest == \A p \in Process : pc[p] \in {"idle", "over"}
Takes  == status \in {"recording", "failed"} /\ audio = {} /\ AtRest

\* ... and written, whatever it has become.
Meets ==
    /\ Takes \/ Crossing
    /\ crossed' = (crossed \/ ~Takes)

AttachAudio(s) ==
    /\ sending[s] \in {"unknown", "short", "long"}
    /\ status' = "queued" /\ length' = sending[s]
    /\ lock' = "none" /\ attempts' = 0
    /\ audio' = Part /\ files' = Part /\ quiet' = {}
    /\ Meets
    /\ sending' = [sending EXCEPT ![s] = "done"]
    /\ UNCHANGED <<ended, copies, ledger, pc, locals, money>>

\* A measured length under five minutes fails the row.
RefuseAudio(s) ==
    /\ sending[s] = "brief"
    /\ status' = "failed" /\ length' = "short" /\ lock' = "none" /\ audio' = {}
    /\ Meets
    /\ sending' = [sending EXCEPT ![s] = "done"]
    /\ UNCHANGED <<attempts, files, ended, copies, ledger, pc, locals, quiet, money>>

\* live, action "finish": the session ends without audio; too short, or the
\* draft is evaluated by the request itself.
FinishLive(p) ==
    /\ p \in Request /\ pc[p] = "idle"
    /\ status = "recording" /\ ~ended
    /\ ended' = TRUE
    /\ \/ status' = "failed" /\ length' = "short" /\ Goto(p, "over")
       \/ length' \in {length, "long"} /\ Goto(p, "begin") /\ UNCHANGED status
    /\ UNCHANGED <<audio, attempts, lock, files, sending, copies, ledger, locals,
                   history>>

\* PATCH, action "reevaluate": the row is read, ...
AskAgain(p) ==
    /\ p \in Request /\ pc[p] = "idle"
    /\ status \in Offered /\ Spoken # {}
    /\ Goto(p, "asked")
    /\ asks' = asks + 1
    /\ UNCHANGED <<row, blobs, copies, ledger, locals, quiet, report, saves, lost,
                   crossed>>

Lock == status' = "processing" /\ lock' = "fresh"

\* ... and marked, whatever it has become; the evaluation follows (after()).
MarkAsked(p) ==
    /\ pc[p] = "asked"
    /\ Lock
    /\ Goto(p, "begin")
    /\ UNCHANGED <<audio, length, attempts, blobs, copies, ledger, locals, history>>

\* PATCH, action "confirm".
Confirm ==
    /\ status = "ready"
    /\ status' = "confirmed"
    /\ UNCHANGED <<audio, length, attempts, lock, blobs, copies, ledger, pc,
                   locals, history>>

-----------------------------------------------------------------------------
(* The worker: claimNextRecorded, then one step of the recording.          *)

Claim(p) ==
    /\ p \in Worker /\ pc[p] = "idle"
    /\ status = "queued"
    /\ Lock
    /\ attempts' = attempts + 1
    /\ tries' = [tries EXCEPT ![p] = attempts + 1]
    /\ Goto(p, "load")
    /\ UNCHANGED <<audio, length, blobs, copies, ledger, text, list, error, history>>

\* An error reaches a catch block: that of finalizeRecordedInterview first, if
\* it is thrown there, then that of the worker.
Finalizing == {"segments", "evaluate", "save", "charge"}
Raise(p, e) ==
    /\ error' = [error EXCEPT ![p] = e]
    /\ Goto(p, IF pc[p] \in Finalizing THEN "revert"
               ELSE IF p \in Worker THEN "caught" ELSE "over")

\* The row and its first part are read; its file may be gone, unless its
\* deletion has failed.
Load(p) ==
    /\ pc[p] = "load"
    /\ list' = [list EXCEPT ![p] = audio]
    /\ \/ audio = {} /\ Goto(p, "count") /\ UNCHANGED error
       \/ audio # {} /\ Goto(p, "transcribe") /\ UNCHANGED error
       \/ audio # {} /\ First(audio) \notin files /\ Raise(p, "permanent")
    /\ UNCHANGED <<row, blobs, copies, ledger, text, tries, history>>

\* transcribeAudio: the first part replaces the draft; a silent first part is a
\* permanent error, a later one has nothing to insert.
Transcribe(p) ==
    LET part == First(list[p]) IN
    /\ pc[p] = "transcribe"
    /\ \/ /\ Goto(p, IF part = 1 THEN "replace" ELSE "insert")
          /\ UNCHANGED <<error, quiet>>
       \/ /\ part = 1 /\ Raise(p, "permanent") /\ UNCHANGED quiet
       \/ /\ part # 1 /\ quiet' = quiet \cup {part}
          /\ Goto(p, "discard") /\ UNCHANGED error
    /\ UNCHANGED <<row, blobs, copies, ledger, reads, money, crossed>>

\* A call of the model fails: a transient error, or an outage of its capacity.
ModelFails(p, e) ==
    /\ pc[p] \in {"transcribe", "evaluate"}
    /\ Raise(p, e)
    /\ UNCHANGED <<row, blobs, copies, ledger, reads, history>>

\* Mutant: the draft is kept.
ReplaceNothing(p) ==
    /\ pc[p] = "replace"
    /\ Goto(p, "insert")
    /\ UNCHANGED <<row, blobs, copies, ledger, locals, history>>

Replace(p) ==
    /\ pc[p] = "replace"
    /\ copies' = [s \in Source |-> 0]
    /\ Goto(p, "insert")
    /\ UNCHANGED <<row, blobs, ledger, locals, history>>

Insert(p) ==
    /\ pc[p] = "insert"
    /\ copies' = [copies EXCEPT ![First(list[p])] = More(@)]
    /\ Goto(p, "discard")
    /\ UNCHANGED <<row, blobs, ledger, locals, history>>

\* deleteFile; an error is swallowed.
Discard(p) ==
    /\ pc[p] = "discard"
    /\ files' = files \ {First(list[p])}
    /\ Goto(p, "next")
    /\ UNCHANGED <<row, ended, sending, copies, ledger, locals, history>>

\* Mutant: the list is cleared with its first part.
NoParts(p) == {}

OtherParts(p) == list[p] \ {First(list[p])}

\* The UPDATE that hands the rest of the parts to the next invocation; without
\* a measured length, the last part tells it.
NextPart(p) ==
    /\ pc[p] = "next"
    /\ audio' = OtherParts(p)
    /\ status' = "queued" /\ lock' = "none" /\ attempts' = 0
    /\ length' \in IF length = "unknown" /\ audio' = {}
                   THEN {"unknown", "short", "long"} ELSE {length}
    /\ End(p)
    /\ UNCHANGED <<blobs, copies, ledger, history>>

\* The second stage needs a transcript.
Count(p) ==
    /\ pc[p] = "count"
    /\ IF Spoken = {} THEN Raise(p, "permanent")
                      ELSE Goto(p, "begin") /\ UNCHANGED error
    /\ UNCHANGED <<row, blobs, copies, ledger, reads, history>>

-----------------------------------------------------------------------------
(* finalizeRecordedInterview, by a worker or a request.                    *)

Begin(p) ==
    /\ pc[p] = "begin"
    /\ Lock
    /\ Goto(p, "segments")
    /\ UNCHANGED <<audio, length, attempts, blobs, copies, ledger, locals, history>>

\* The transcript is read; a recording under five minutes is not evaluated.
ReadSegments(p) ==
    /\ pc[p] = "segments"
    /\ \/ /\ Spoken = {}
          /\ Raise(p, "transient") /\ UNCHANGED <<status, reads>>
       \/ /\ Spoken # {} /\ length = "short"
          /\ status' = "failed" /\ End(p)
       \/ /\ Spoken # {} /\ length # "short"
          /\ text' = [text EXCEPT ![p] = Spoken]
          /\ Goto(p, "evaluate") /\ UNCHANGED <<status, list, tries, error>>
    /\ UNCHANGED <<audio, length, attempts, lock, blobs, copies, ledger, history>>

Evaluate(p) ==
    /\ pc[p] = "evaluate"
    /\ Goto(p, "save")
    /\ UNCHANGED <<row, blobs, copies, ledger, locals, history>>

SaveReport(p) ==
    /\ status' = "ready"
    /\ report' = text[p] /\ saves' = saves + 1
    /\ UNCHANGED <<audio, length, attempts, lock, blobs, copies, ledger, quiet,
                   asks, crossed>>

Save(p) ==
    /\ pc[p] = "save"
    /\ SaveReport(p)
    /\ Goto(p, "charge")
    /\ UNCHANGED <<locals, lost>>

\* A worker charges once per row (chargeFeature), a request every time
\* (chargeRepeatable); the first key is the same.
ChargeRow(p) ==
    /\ base' = TRUE
    /\ extra' = IF p \in Request /\ base THEN extra + 1 ELSE extra

Charge(p) ==
    /\ pc[p] = "charge"
    /\ ChargeRow(p)
    /\ End(p)
    /\ UNCHANGED <<row, blobs, copies, history>>

Done == {"ready", "confirmed"}

\* Mutant: a failure overwrites the success of another evaluation.
Overwrite(s) == status' = s

\* UPDATE ... WHERE status is neither ready nor confirmed.
UnlessDone(s) == status' = IF status \in Done THEN status ELSE s

\* The catch block of finalize marks the row failed and throws again.
Revert(p) ==
    /\ pc[p] = "revert"
    /\ UnlessDone("failed")
    /\ IF p \in Worker THEN Goto(p, "caught") /\ UNCHANGED locals ELSE End(p)
    /\ UNCHANGED <<audio, length, attempts, lock, blobs, copies, ledger, history>>

-----------------------------------------------------------------------------
(* The catch block of the worker.                                          *)

TriesLeft(n) == n < MAX_ATTEMPTS

\* markRecordedFailedOrRetry, with the attempts it claimed, and
\* requeueRecordedOutage, with those of the row.
Caught(p) ==
    LET e == error[p] IN
    /\ pc[p] = "caught"
    /\ \/ /\ e = "permanent" \/ (e = "transient" /\ ~TriesLeft(tries[p]))
          /\ Goto(p, "drop")
          /\ UNCHANGED <<status, attempts, locals>>
       \/ /\ e = "transient" /\ TriesLeft(tries[p])
          /\ UnlessDone("queued")
          /\ End(p)
          /\ UNCHANGED attempts
       \/ /\ e = "outage"
          /\ UnlessDone("queued")
          /\ attempts' = IF status \in Done \/ attempts = 0 THEN attempts
                                                            ELSE attempts - 1
          /\ End(p)
    /\ UNCHANGED <<audio, length, lock, blobs, copies, ledger, history>>

\* Mutant: only the file of the first part is deleted.
DropFirst(p) ==
    /\ pc[p] = "drop"
    /\ files' = IF audio = {} THEN files ELSE files \ {First(audio)}
    /\ Goto(p, "fail")
    /\ UNCHANGED <<row, ended, sending, copies, ledger, locals, history>>

\* For good: the files of the parts the row still lists are deleted, ...
Drop(p) ==
    /\ pc[p] = "drop"
    /\ files' = files \ audio
    /\ Goto(p, "fail")
    /\ UNCHANGED <<row, ended, sending, copies, ledger, locals, history>>

\* ... then the row fails.
Fail(p) ==
    /\ pc[p] = "fail"
    /\ UnlessDone("failed")
    /\ audio' = IF status \in Done THEN audio ELSE {}
    /\ End(p)
    /\ UNCHANGED <<length, attempts, lock, blobs, copies, ledger, history>>

-----------------------------------------------------------------------------
(* Failures of the environment and their recovery.                         *)

Holding == Label \ {"idle", "asked", "over"}

\* Mutant: the lock is shorter than an invocation may live.
HeldByNone == FALSE

Held == \E p \in Process : pc[p] \in Holding

\* A report without its charge.
Loses(p) == lost' = (lost \/ pc[p] = "charge")

\* The platform kills the invocation.
Kill(p) ==
    /\ pc[p] \in DiesAt \cap (Holding \cup {"asked"})
    /\ Loses(p)
    /\ End(p)
    /\ UNCHANGED <<row, blobs, copies, ledger, quiet, report, saves, asks, crossed>>

\* A statement throws; if it is the insert, the report or the charge it may
\* have been committed.  That the UPDATE of NextPart is committed and its reply
\* lost is left out: its worker would then go on with a row the next worker may
\* have claimed.
Throw(p) ==
    /\ pc[p] \in Throws /\ Raise(p, "transient")
    /\ UNCHANGED <<reads, blobs, crossed>>
    /\ \/ /\ Loses(p)
          /\ UNCHANGED <<row, copies, ledger, quiet, report, saves, asks>>
       \/ /\ pc[p] = "insert"
          /\ copies' = [copies EXCEPT ![First(list[p])] = More(@)]
          /\ UNCHANGED <<row, ledger, quiet, money>>
       \/ /\ pc[p] = "save" /\ SaveReport(p) /\ lost' = TRUE
       \/ /\ pc[p] = "charge" /\ ChargeRow(p)
          /\ UNCHANGED <<row, copies, quiet, money>>

\* LOCK_STALE_SECONDS (360s) is longer than an invocation may live (300s).
LockExpires ==
    /\ lock = "fresh" /\ ~Held
    /\ lock' = "stale"
    /\ UNCHANGED <<status, audio, length, attempts, blobs, copies, ledger, pc,
                   locals, history>>

\* Mutant: the status is not looked at.
StuckAnyStatus == status # "none" /\ lock = "stale"

\* Mutant: a lock with a time is never found to be stale.
StuckUntimed == status = "processing" /\ lock = "none"

Stuck == status = "processing" /\ lock # "fresh"

\* cleanupStuckRecorded: out of attempts, the files are deleted first.  An
\* attachment between that and the UPDATE, which then finds the row queued,
\* comes to the same as one after both.
FailStuck ==
    /\ Stuck /\ ~TriesLeft(attempts)
    /\ status' = "failed" /\ audio' = {} /\ files' = files \ audio
    /\ UNCHANGED <<length, attempts, lock, ended, sending, copies, ledger, pc,
                   locals, history>>

\* cleanupStuckRecorded: attempts left.
RequeueStuck ==
    /\ Stuck /\ TriesLeft(attempts)
    /\ status' = "queued"
    /\ UNCHANGED <<audio, length, attempts, lock, blobs, copies, ledger, pc,
                   locals, history>>

-----------------------------------------------------------------------------
Browser ==
    \/ Upload \/ StartLive \/ CleanLive \/ Confirm
    \/ \E s \in Sender : BeginAttach(s) \/ AttachAudio(s) \/ RefuseAudio(s)
    \/ \E p \in Request : FinishLive(p) \/ AskAgain(p)

Transcription(p) ==
    \/ Claim(p) \/ Load(p) \/ Transcribe(p) \/ Replace(p) \/ Insert(p)
    \/ Discard(p) \/ NextPart(p) \/ Count(p)

Finalize(p) ==
    Begin(p) \/ ReadSegments(p) \/ Evaluate(p) \/ Save(p) \/ Charge(p) \/ Revert(p)

Catch(p) == Caught(p) \/ Drop(p) \/ Fail(p)

Step(p) == MarkAsked(p) \/ Transcription(p) \/ Finalize(p) \/ Catch(p)

Next ==
    \/ Browser
    \/ \E p \in Process : \/ Step(p) \/ Kill(p) \/ Throw(p)
                          \/ \E e \in {"transient", "outage"} : ModelFails(p, e)
    \/ LockExpires \/ FailStuck \/ RequeueStuck

Spec == Init /\ [][Next]_vars

\* The cron claims and recovers every minute, time passes, and the model is not
\* out of capacity for ever.
Answer(p) == Transcribe(p) \/ Evaluate(p) \/ ModelFails(p, "transient")

Fairness ==
    /\ \A p \in Process : WF_vars(Step(p))
    /\ SF_vars(\E p \in Process : Answer(p))
    /\ WF_vars(LockExpires \/ FailStuck \/ RequeueStuck)

FairSpec == Spec /\ Fairness

-----------------------------------------------------------------------------
(* Properties.                                                             *)

\* Types; unless attachments crossed, parts are worked off in order, and a part
\* that is listed no more has no file.
TypeOK ==
    /\ status \in {"none", "recording", "queued", "processing"} \cup Settled
    /\ audio \in SUBSET Part /\ files \in SUBSET Part
    /\ crossed \/ (files \subseteq audio /\ attempts <= MAX_ATTEMPTS)
    /\ copies \in [Source -> 0..2]
    /\ length \in {"unknown", "short", "long"}
    /\ attempts \in Nat /\ lock \in {"none", "fresh", "stale"}
    /\ ended \in BOOLEAN /\ base \in BOOLEAN /\ extra \in Nat
    /\ sending \in [Sender -> {"no", "unknown", "short", "long", "brief", "done"}]
    /\ pc \in [Process -> Label] /\ text \in [Process -> SUBSET Source]
    /\ list \in [Process -> SUBSET Part] /\ tries \in [Process -> Nat]
    /\ error \in [Process -> {"none", "permanent", "transient", "outage"}]
    /\ quiet \in SUBSET Part /\ report \in SUBSET Source
    /\ saves \in Nat /\ asks \in Nat /\ lost \in BOOLEAN /\ crossed \in BOOLEAN

\* Recovery, retries, re-evaluations and audio attached anew never give a row to
\* two workers, unless audio is attached to a row at work (the UPDATE of the
\* attachment does not look at what the row has become).
OneWorker ==
    ~crossed => \A p, q \in Worker :
                    p # q => ~(pc[p] \in Holding /\ pc[q] \in Holding)

\* A row that waits has attempts left, so that killed workers cannot go round
\* with it for ever.
WaitingHasTries == status = "queued" => attempts < MAX_ATTEMPTS

\* As long as no user asks for a re-evaluation, a report is on every part in
\* which someone spoke and not on the draft, however often workers were killed
\* or failed on the way and the audio was attached again; the draft is
\* evaluated, alone, only if the session ended without audio.
ReportIsWhole ==
    (report # {} /\ asks = 0 /\ ~crossed) =>
        IF \E r \in Request : pc[r] # "idle" THEN report = {0}
        ELSE 0 \notin report /\ Part \subseteq report \cup quiet

\* Audio is not kept: on whatever way a row becomes ready or fails, the deletion
\* of each of its files has been asked for, unless attachments crossed.
AudioIsDiscarded == status \in Settled /\ ~crossed => files = {}

\* A report is final: no failure, retry or recovery takes a row out of ready
\* unless a user asked for a re-evaluation or attachments crossed.
ReportIsFinal ==
    [][(status \in Done /\ asks' = 0 /\ ~crossed') => status' \in Done]_vars

Charges == extra + (IF base THEN 1 ELSE 0)

\* Nothing is charged without a report, and while no user asks for a
\* re-evaluation every report is charged, once, unless its invocation ends
\* between report and charge or attachments crossed.
OneChargePerReport ==
    /\ Charges <= saves
    /\ AtRest /\ ~lost /\ asks = 0 /\ ~crossed => saves = Charges

\* Whatever fails and whatever is attached, a row that waits or is in process
\* comes to an end.
RowSettles == status \in {"queued", "processing"} ~> (status \in Settled /\ ~Held)

\* Two workers do not take the same row (comment of claimNextRecorded).  False of
\* the code when the audio of a session is attached twice.
AlwaysOneWorker ==
    \A p, q \in Worker : p # q => ~(pc[p] \in Holding /\ pc[q] \in Holding)

\* The page offers the re-evaluation of a failed row with the words that its
\* transcription is complete.  False of the code: a later part may have failed.
AskedIsWhole ==
    report # {} => report = {0} \/ (0 \notin report /\ Part \subseteq report \cup quiet)

\* A part that was transcribed is not transcribed again when its worker dies
\* (comment in processRecordedInterview).  False of the code between the
\* INSERT of its text and the UPDATE of the list.
TranscribedOnce == \A s \in Part : copies[s] <= 1
=============================================================================
