--------------------------- MODULE LiveRecordings ---------------------------
(***************************************************************************)
(* A live recording of a face-to-face interview as the browser sees it:    *)
(* the recorder, which stores the audio in IndexedDB while it runs, the    *)
(* upload at its end, the uploads that later visits of the page repeat, and*)
(* the request that attaches the files to the row of recorded_interviews.  *)
(* A tab is one mounted panel of the candidate's page; all tabs share the  *)
(* IndexedDB.  What the worker does with the row is RecordedInterviews;    *)
(* here it takes the audio, and ends with a report or a failure.           *)
(***************************************************************************)
EXTENDS Integers, FiniteSets

CONSTANTS
    Tab,
    Pieces,   \* pieces of audio (chunks of a part) an interview can have
    Upload,   \* uploads whose files or requests are around at once
    None,     \* no upload
    Draft     \* an evaluation of the text the browser recognised, not of audio

Piece == 1..Pieces

ASSUME LiveAssumption ==
    /\ IsFiniteSet(Tab) /\ Pieces \in Nat \ {0}
    /\ None \notin Upload /\ Draft \notin Upload \cup {None}

VARIABLES
    status,    \* of the row; "none" before it exists
    audio,     \* the upload listed in audio_blob_key
    work,      \* evaluations under way: of an upload, or of the draft
    files,     \* uploads with files in the store
    phase,     \* of each upload: how far its request is
    content,   \* of each upload: the pieces it consists of
    sess,      \* state of the session in IndexedDB
    old,       \* ... which is older than 65 minutes
    kept,      \* pieces in IndexedDB
    inflight,  \* pieces recorded and not yet stored
    audioOk,   \* the recorder runs beside the recognition of speech
    pc,        \* of each tab: its label,
    mine,      \*   the upload it waits for,
    recov,     \*   whether it repeats the upload of an earlier visit
    heard,     \* history: pieces recorded
    dropped,   \* history: pieces IndexedDB did not take
    finished,  \* history: a recording with audio came to its end
    taken,     \* history: the row was given audio
    refused    \* history: why the user was told that the audio is given up

row     == <<status, audio, work>>
uploads == <<phase, content>>
local   == <<sess, old, kept>>
mic     == <<inflight, audioOk>>
tabs    == <<pc, mine, recov>>
history == <<heard, dropped, finished, taken, refused>>
vars == <<row, files, uploads, local, mic, tabs, history>>

Label == {"closed", "open", "capture", "record", "drain", "short", "report",
          "stop", "mark", "hung", "assemble", "put", "wait", "drop", "finish"}
Phase == {"free", "put", "posted", "read", "taken", "acked", "refused", "broken"}

Recording == {"capture", "record", "drain", "short", "stop", "mark"}
InRequest == {"put", "posted", "read"}

Goto(t, l) == pc' = [pc EXCEPT ![t] = l]
Enter(u, p) == phase' = [phase EXCEPT ![u] = p]
\* The tab has nothing more to do until it is opened again.
Rest(t) == Goto(t, "open") /\ mine' = [mine EXCEPT ![t] = None]
ForgetLocal == sess' = "none" /\ kept' = {}

\* Nothing is left of an earlier use of u.
Free(u) ==
    /\ u \notin files \cup work \cup {audio}
    /\ phase[u] \notin InRequest
    /\ \A t \in Tab : mine[t] # u

Init ==
    /\ status = "none" /\ audio = None /\ work = {} /\ files = {}
    /\ phase = [u \in Upload |-> "free"] /\ content = [u \in Upload |-> {}]
    /\ sess = "none" /\ old = FALSE /\ kept = {}
    /\ inflight = {} /\ audioOk = FALSE
    /\ pc = [t \in Tab |-> "closed"] /\ mine = [t \in Tab |-> None]
    /\ recov = [t \in Tab |-> FALSE]
    /\ heard = {} /\ dropped = {} /\ finished = FALSE /\ taken = FALSE
    /\ refused = "no"

-----------------------------------------------------------------------------
(* A visit of the page.                                                    *)

Recoverable == sess = "complete"

\* The panel is mounted: it repeats the upload of a recording that had ended
\* and deletes one that broke off more than 65 minutes ago.
Open(t) ==
    /\ pc[t] = "closed"
    /\ \/ Recoverable /\ Goto(t, "assemble") /\ UNCHANGED local
       \/ /\ ~Recoverable /\ sess = "recording" /\ old
          /\ ForgetLocal /\ Goto(t, "open") /\ UNCHANGED old
       \/ /\ ~Recoverable /\ ~(sess = "recording" /\ old)
          /\ Goto(t, "open") /\ UNCHANGED local
    /\ recov' = [recov EXCEPT ![t] = TRUE]
    /\ UNCHANGED <<row, files, uploads, mic, mine, history>>

\* Reload, crash, or another page: what the tab had not stored is gone; an
\* upload breaks off with or without some of its files, a request goes on.
Leave(t) ==
    /\ pc[t] # "closed"
    /\ Goto(t, "closed") /\ mine' = [mine EXCEPT ![t] = None]
    /\ inflight' = IF pc[t] \in Recording THEN {} ELSE inflight
    /\ dropped' = IF pc[t] \in Recording THEN dropped \cup inflight ELSE dropped
    /\ IF pc[t] = "put"
         THEN Enter(mine[t], "broken") /\ files' \in {files, files \cup {mine[t]}}
         ELSE UNCHANGED <<phase, files>>
    /\ UNCHANGED <<row, content, local, audioOk, recov, heard, finished, taken,
                   refused>>

\* The session in IndexedDB turns 65 minutes old; a recording ends after 60.
Age ==
    /\ sess = "recording" /\ ~old
    /\ \A t \in Tab : pc[t] \notin Recording
    /\ old' = TRUE
    /\ UNCHANGED <<row, files, uploads, sess, kept, mic, tabs, history>>

-----------------------------------------------------------------------------
(* The recorder.                                                           *)

\* live, action "start": the row is inserted; the answer may be lost.
Start(t) ==
    /\ pc[t] = "open" /\ status = "none"
    /\ status' = "recording"
    /\ Goto(t, "capture") \/ Goto(t, "open")
    /\ recov' = [recov EXCEPT ![t] = FALSE]
    /\ UNCHANGED <<audio, work, files, uploads, local, mic, mine, history>>

\* startAudioCapture: without permission or storage only the text is left.
Capture(t) ==
    /\ pc[t] = "capture"
    /\ \/ audioOk' = TRUE /\ sess' = "recording"
       \/ audioOk' = FALSE /\ UNCHANGED sess
    /\ Goto(t, "record")
    /\ UNCHANGED <<row, files, uploads, old, kept, inflight, mine, recov, history>>

\* ondataavailable: the piece joins the chain of those to be stored.
Speak(t) ==
    /\ pc[t] \in {"record", "drain"} /\ audioOk
    /\ \E p \in Piece :
         /\ heard = 1..(p - 1)
         /\ heard' = heard \cup {p} /\ inflight' = inflight \cup {p}
    /\ UNCHANGED <<row, files, uploads, local, audioOk, tabs, dropped, finished,
                   taken, refused>>

\* idbAppendChunk, one after the other; that it failed is swallowed.
Store ==
    \E p \in inflight :
        /\ \A q \in inflight : p <= q
        /\ inflight' = inflight \ {p}
        /\ \/ kept' = kept \cup {p} /\ UNCHANGED dropped
           \/ dropped' = dropped \cup {p} /\ UNCHANGED kept
        /\ UNCHANGED <<row, files, uploads, sess, old, audioOk, tabs, heard,
                       finished, taken, refused>>

\* doFinish: by the button, after an hour, or when the shared screen ends.
Finish(t) ==
    /\ pc[t] = "record"
    /\ Goto(t, "drain")
    /\ UNCHANGED <<row, files, uploads, local, mic, mine, recov, history>>

\* The last texts have been sent; now the length decides.
Drain(t) ==
    /\ pc[t] = "drain"
    /\ \/ Goto(t, "short")
       \/ Goto(t, IF audioOk THEN "stop" ELSE "finish")
    /\ UNCHANGED <<row, files, uploads, local, mic, mine, recov, history>>

\* Mutant: what is still being stored is not awaited.
ChainAny == TRUE

ChainDone == inflight = {}

\* Under five minutes: the audio is thrown away and the row marked failed, if
\* the request arrives.
TooShort(t) ==
    /\ pc[t] = "short" /\ ChainDone
    /\ ForgetLocal
    /\ Goto(t, "report")
    /\ UNCHANGED <<row, files, uploads, old, mic, mine, recov, history>>

ReportShort(t) ==
    /\ pc[t] = "report"
    /\ status' \in {"failed", status}
    /\ Rest(t)
    /\ UNCHANGED <<audio, work, files, uploads, local, mic, recov, history>>

StopCapture(t) ==
    /\ pc[t] = "stop" /\ ChainDone
    /\ Goto(t, "mark")
    /\ UNCHANGED <<row, files, uploads, local, mic, mine, recov, history>>

\* idbCompleteSession; its error ends doFinish, and the tab shows "finishing"
\* until it is left.
Mark(t) ==
    /\ pc[t] = "mark"
    /\ \/ /\ sess' = IF sess = "recording" THEN "complete" ELSE sess
          /\ finished' = (sess = "recording" /\ kept # {})
          /\ Goto(t, "assemble")
       \/ Goto(t, "hung") /\ UNCHANGED <<sess, finished>>
    /\ UNCHANGED <<row, files, uploads, old, kept, mic, mine, recov, heard,
                   dropped, taken, refused>>

\* No audio: live, action "finish", evaluates the draft, if it arrives.
FinishDraft(t) ==
    /\ pc[t] = "finish"
    /\ \/ status' = "processing" /\ work' = work \cup {Draft}
       \/ UNCHANGED <<status, work>>
    /\ Rest(t)
    /\ UNCHANGED <<audio, files, uploads, local, mic, recov, history>>

-----------------------------------------------------------------------------
(* uploadLiveRecording, at the end of the recording or by a later visit.   *)

\* The pieces are read; without any, the recorder falls back to the draft, ...
AssembleNothing(t) ==
    /\ pc[t] = "assemble" /\ kept = {}
    /\ ForgetLocal
    /\ Goto(t, IF recov[t] THEN "open" ELSE "finish")
    /\ UNCHANGED <<row, files, uploads, old, mic, mine, recov, history>>

\* ... and an error leaves all as it is.
AssembleThrows(t) ==
    /\ pc[t] = "assemble"
    /\ Rest(t)
    /\ UNCHANGED <<row, files, uploads, local, mic, recov, history>>

\* A part that is too large is given up, with the rest.
AssembleTooBig(t) ==
    /\ pc[t] = "assemble" /\ kept # {}
    /\ ForgetLocal /\ refused' = "size"
    /\ Rest(t)
    /\ UNCHANGED <<row, files, uploads, old, mic, recov, heard, dropped, finished,
                   taken>>

Assemble(t, u) ==
    /\ pc[t] = "assemble" /\ kept # {} /\ Free(u)
    /\ content' = [content EXCEPT ![u] = kept]
    /\ Enter(u, "put")
    /\ mine' = [mine EXCEPT ![t] = u]
    /\ Goto(t, "put")
    /\ UNCHANGED <<row, files, local, mic, recov, history>>

\* The files go to the store, under names of their own, then the request is
\* sent; ...
Put(t) ==
    /\ pc[t] = "put"
    /\ files' = files \cup {mine[t]}
    /\ Enter(mine[t], "posted")
    /\ Goto(t, "wait")
    /\ UNCHANGED <<row, content, local, mic, mine, recov, history>>

\* ... or the upload fails, with some of the files stored.
PutFails(t) ==
    /\ pc[t] = "put"
    /\ files' \in {files, files \cup {mine[t]}}
    /\ Enter(mine[t], "broken")
    /\ Rest(t)
    /\ UNCHANGED <<row, content, local, mic, recov, history>>

\* Mutant: any answer is taken for success.
AnyAnswer == {"taken", "acked", "broken"}

Accepted == {"taken", "acked"}

\* The answer: 2xx and 4xx end the upload, after 5xx a later visit repeats it.
Answer(t) ==
    LET p == phase[mine[t]] IN
    /\ pc[t] = "wait" /\ p \notin InRequest
    /\ IF p \in Accepted \cup {"refused"}
         THEN Goto(t, "drop") /\ UNCHANGED mine
         ELSE Rest(t)
    /\ refused' = IF p = "refused" THEN "answer" ELSE refused
    /\ UNCHANGED <<row, files, uploads, local, mic, recov, heard, dropped,
                   finished, taken>>

\* The connection is lost; the request goes on.
NoAnswer(t) ==
    /\ pc[t] = "wait"
    /\ Rest(t)
    /\ UNCHANGED <<row, files, uploads, local, mic, recov, history>>

\* idbDeleteSession, ...
Drop(t) ==
    /\ pc[t] = "drop"
    /\ ForgetLocal
    /\ Rest(t)
    /\ UNCHANGED <<row, files, uploads, old, mic, recov, history>>

\* ... which may throw.
DropThrows(t) ==
    /\ pc[t] = "drop"
    /\ Rest(t)
    /\ UNCHANGED <<row, files, uploads, local, mic, recov, history>>

-----------------------------------------------------------------------------
(* POST recorded-interview with recordedInterviewId.                       *)

\* The wallet is empty, the session has expired, ...: nothing is done.
Refuse(u) ==
    /\ phase[u] = "posted"
    /\ Enter(u, "refused")
    /\ UNCHANGED <<row, files, content, local, mic, tabs, history>>

\* The function is killed or a statement throws.
Break(u) ==
    /\ phase[u] \in {"posted", "read"}
    /\ Enter(u, "broken")
    /\ UNCHANGED <<row, files, content, local, mic, tabs, history>>

AttachableStatus == {"recording", "failed"}

\* Mutant: the files have the names of the first upload.
SameNames(u) == files' = {}

DiscardOwn(u) == files' = files \ {u}

\* The row is read: one that has its audio gets no other, and the repeated
\* upload is thrown away.
Look(u) ==
    /\ phase[u] = "posted"
    /\ IF status \in AttachableStatus
         THEN Enter(u, "read") /\ UNCHANGED files
         ELSE DiscardOwn(u) /\ Enter(u, "acked")
    /\ UNCHANGED <<row, content, local, mic, tabs, history>>

\* ... and updated, whatever it has become.
Attach(u) ==
    /\ phase[u] = "read"
    /\ Enter(u, "taken")
    /\ status' = "queued" /\ audio' = u
    /\ taken' = TRUE
    /\ UNCHANGED <<work, files, content, local, mic, tabs, heard, dropped,
                   finished, refused>>

-----------------------------------------------------------------------------
(* The worker and a re-evaluation, in coarse steps; the sweeper.           *)

Claim ==
    /\ status = "queued" /\ audio # None
    /\ status' = "processing" /\ work' = work \cup {audio}
    /\ UNCHANGED <<audio, files, uploads, local, mic, tabs, history>>

\* The parts are deleted and the list of them cleared.
DiscardAudio(u) ==
    IF u = Draft THEN UNCHANGED <<files, audio>>
                 ELSE files' = files \ {u} /\ audio' = None

Evaluated(u) ==
    /\ u \in work
    /\ work' = work \ {u}
    /\ status' = "ready"
    /\ DiscardAudio(u)
    /\ UNCHANGED <<uploads, local, mic, tabs, history>>

EvaluationFails(u) ==
    /\ u \in work
    /\ work' = work \ {u}
    /\ status' = IF status = "ready" THEN status ELSE "failed"
    /\ DiscardAudio(u)
    /\ UNCHANGED <<uploads, local, mic, tabs, history>>

\* PATCH, action "reevaluate": of what is there of a transcript, in any state
\* but these; bound: one such evaluation at a time.
Reevaluate ==
    /\ status \notin {"none", "recording", "processing"} /\ Draft \notin work
    /\ status' = "processing" /\ work' = work \cup {Draft}
    /\ UNCHANGED <<audio, files, uploads, local, mic, tabs, history>>

\* blob-orphans: after 30 days a file no row lists is deleted.  (A list of more
\* than one part is not known to it; bound: no row waits for 30 days.)
Sweep(u) ==
    /\ u \in files /\ u # audio /\ u \notin work
    /\ phase[u] \notin InRequest /\ \A t \in Tab : mine[t] # u
    /\ files' = files \ {u}
    /\ UNCHANGED <<row, uploads, local, mic, tabs, history>>

-----------------------------------------------------------------------------
Recorder(t) ==
    \/ Capture(t) \/ Speak(t) \/ Finish(t) \/ Drain(t) \/ TooShort(t)
    \/ ReportShort(t) \/ StopCapture(t) \/ Mark(t) \/ FinishDraft(t)
Uploading(t) ==
    \/ AssembleNothing(t) \/ AssembleThrows(t) \/ AssembleTooBig(t)
    \/ \E u \in Upload : Assemble(t, u)
    \/ Put(t) \/ PutFails(t) \/ Answer(t) \/ NoAnswer(t) \/ Drop(t) \/ DropThrows(t)
Server(u) == Refuse(u) \/ Break(u) \/ Look(u) \/ Attach(u)
Evaluation(u) == Evaluated(u) \/ EvaluationFails(u)

Next ==
    \/ \E t \in Tab : Open(t) \/ Leave(t) \/ Start(t) \/ Recorder(t) \/ Uploading(t)
    \/ Age \/ Store \/ Claim \/ Reevaluate
    \/ \E u \in Upload : Server(u) \/ Sweep(u)
    \/ \E u \in Upload \cup {Draft} : Evaluation(u)

Spec == Init /\ [][Next]_vars

\* There is another visit, what a tab has begun goes on, requests end, and the
\* worker and the sweeper run.
FairSpec ==
    /\ Spec
    /\ WF_vars(Store)
    /\ \A t \in Tab : WF_vars(Open(t)) /\ WF_vars(Recorder(t)) /\ WF_vars(Uploading(t))
    /\ \A u \in Upload : WF_vars(Server(u)) /\ WF_vars(Sweep(u))
    /\ WF_vars(Claim)
    /\ \A u \in Upload \cup {Draft} : WF_vars(Evaluation(u))

-----------------------------------------------------------------------------
RowTypes ==
    /\ status \in {"none", "recording", "queued", "processing", "ready", "failed"}
    /\ audio \in Upload \cup {None} /\ work \subseteq Upload \cup {Draft}

UploadTypes ==
    /\ files \subseteq Upload
    /\ phase \in [Upload -> Phase] /\ content \in [Upload -> SUBSET Piece]

PieceTypes ==
    /\ sess \in {"none", "recording", "complete"} /\ old \in BOOLEAN
    /\ kept \subseteq Piece /\ inflight \subseteq Piece /\ audioOk \in BOOLEAN
    /\ heard \subseteq Piece /\ dropped \subseteq Piece

TabTypes ==
    /\ pc \in [Tab -> Label] /\ mine \in [Tab -> Upload \cup {None}]
    /\ recov \in [Tab -> BOOLEAN]
    /\ finished \in BOOLEAN /\ taken \in BOOLEAN
    /\ refused \in {"no", "size", "answer"}

\* Columns, files and requests of the server, sessions and chunks of IndexedDB,
\* and the variables of doFinish and uploadLiveRecording keep their types.
TypeOK == RowTypes /\ UploadTypes /\ PieceTypes /\ TabTypes

\* A recording that came to its end stays in the browser, whole, until the row
\* has been given audio or the user was told that it was refused.
KeptUntilTaken ==
    finished => \/ sess = "complete" /\ kept = heard \ dropped
                \/ taken \/ refused # "no"

\* What is uploaded, at once or by a later visit, is the recording to its end.
UploadIsWhole ==
    \A u \in Upload : phase[u] \in InRequest => content[u] = heard \ dropped

\* The audio a worker will find listed is there: no repeated upload, discarded
\* or swept, takes it away.
QueuedHasAudio == status = "queued" => audio \in files

-----------------------------------------------------------------------------
(* Statements of comments and documents the code does not keep.            *)

\* The comment at the catch block of a short recording calls a row left in
\* "recording" harmless; the panel of the round shows no control while its
\* last row is in that state, and nothing ends it.
RecordingEnds == (status = "recording") ~> (status # "recording")

\* The comment of the route says that audio sent twice is dropped: a row is
\* given audio again only after it failed.
AttachedOnce ==
    [][(audio' # audio /\ audio' # None => status \in AttachableStatus)]_vars

\* LIVE_INTERVIEW_PLAN.md, 99 and 137: no loss; the doc of uploadLiveRecording
\* gives up what is wrong with the file.  An empty wallet is a 4xx, too.
NeverLost == finished => sess = "complete" \/ taken \/ refused = "size"
=============================================================================
