------------------------ MODULE LiveRecordingsProofs ------------------------
(***************************************************************************)
(* The safety properties of LiveRecordings, for any number of tabs, pieces *)
(* and uploads, with pages left and requests lost anywhere.                *)
(***************************************************************************)
EXTENDS LiveRecordings, TLAPS

Quiet == inflight = {} /\ \A t \in Tab : pc[t] \notin Recording

Elsewhere(t) == \A s \in Tab \ {t} : pc[s] \in {"closed", "open"}

Fresh ==
    /\ sess = "none" /\ kept = {} /\ heard = {} /\ inflight = {} /\ dropped = {}
    /\ work = {} /\ ~old /\ ~finished /\ \A u \in Upload : phase[u] = "free"

\* Before the recorder runs there is nothing to upload or to lose.
Beginning ==
    /\ status = "none" => Fresh /\ \A t \in Tab : pc[t] \in {"closed", "open"}
    /\ \A t \in Tab : pc[t] = "capture" => Fresh

\* While a tab records, it alone works, and no upload has begun.
Alone ==
    \A t \in Tab : pc[t] \in Recording =>
        /\ status = "recording" /\ work = {} /\ ~old /\ ~finished
        /\ Elsewhere(t)
        /\ \A u \in Upload : phase[u] = "free"
        /\ sess # "complete"
        /\ pc[t] # "capture" /\ audioOk => sess = "recording"
        /\ pc[t] \in {"stop", "mark"} => audioOk
        /\ pc[t] = "mark" => inflight = {}

\* A piece is being stored, is kept, was not taken, or has been given up with
\* the session.
Pieced ==
    /\ inflight \subseteq heard /\ dropped \subseteq heard
    /\ inflight \cap dropped = {}
    /\ sess = "none" => kept = {}
    /\ sess # "none" => kept = heard \ (dropped \cup inflight)
    /\ inflight # {} => audioOk /\ \E t \in Tab : pc[t] \in Recording \ {"capture"}

\* Uploads begin when the recording has ended.
Ended ==
    /\ \A t \in Tab : pc[t] \in {"assemble", "put", "wait", "drop"} =>
         sess # "recording" /\ Quiet
    /\ \A u \in Upload : phase[u] # "free" => sess # "recording" /\ Quiet

\* A tab has a request of its own.
Own ==
    /\ \A t \in Tab : mine[t] # None <=> pc[t] \in {"put", "wait", "drop"}
    /\ \A t \in Tab : pc[t] = "put" => phase[mine[t]] = "put"
    /\ \A s, t \in Tab : mine[s] = mine[t] /\ mine[t] # None => s = t

\* What nobody has taken is in the browser, and no evaluation has begun.
Waiting ==
    finished /\ ~taken /\ refused = "no" =>
        /\ sess = "complete" /\ kept # {}
        /\ status = "recording" /\ work = {}
        /\ \A u \in Upload : phase[u] \notin {"taken", "acked"}
        /\ \A t \in Tab : pc[t] \notin {"drop", "finish", "report"}

\* A request has files of its own.
Stored ==
    /\ \A u \in Upload : phase[u] \in InRequest => u # audio /\ u \notin work
    /\ \A u \in Upload : phase[u] \in {"posted", "read"} => u \in files

IInv ==
    /\ TypeOK /\ Beginning /\ Alone /\ Pieced /\ Ended /\ Own /\ Waiting /\ Stored
    /\ UploadIsWhole /\ QueuedHasAudio

\* A step keeps the types of the row.
LEMMA RowTypesStep == IInv /\ [Next]_vars => RowTypes'
<1> SUFFICES ASSUME RowTypes, UploadTypes, TabTypes, Own, [Next]_vars PROVE
       RowTypes'
  BY DEF IInv, TypeOK
<1>1. ASSUME NEW t \in Tab, Open(t) PROVE RowTypes'
  BY <1>1 DEF Open, Recoverable, ForgetLocal, Goto, RowTypes, UploadTypes,
     TabTypes, Own, row, uploads, local, mic, tabs, history
<1>2. ASSUME NEW t \in Tab, Leave(t) PROVE RowTypes'
  BY <1>2 DEF Leave, Goto, Enter, RowTypes, UploadTypes, TabTypes, Own, row,
     uploads, local, mic, tabs, history
<1>3. ASSUME NEW t \in Tab, Start(t) PROVE RowTypes'
  BY <1>3 DEF Start, Goto, RowTypes, UploadTypes, TabTypes, Own, row, uploads,
     local, mic, tabs, history
<1>4. ASSUME NEW t \in Tab, Recorder(t) PROVE RowTypes'
  BY <1>4 DEF Recorder, Capture, Goto, Speak, Finish, Drain, TooShort,
     ChainDone, ForgetLocal, ReportShort, Rest, StopCapture, Mark, FinishDraft,
     RowTypes, UploadTypes, TabTypes, Own, row, uploads, local, mic, tabs, history
<1>5. ASSUME NEW t \in Tab, Uploading(t) PROVE RowTypes'
  BY <1>5 DEF Uploading, AssembleNothing, ForgetLocal, Goto, AssembleThrows,
     Rest, AssembleTooBig, Assemble, Free, Enter, Put, PutFails, Answer, Accepted,
     NoAnswer, Drop, DropThrows, RowTypes, UploadTypes, TabTypes, Own, row,
     uploads, local, mic, tabs, history
<1>6. ASSUME Age \/ Store \/ Claim \/ Reevaluate PROVE RowTypes'
  BY <1>6 DEF Age, Store, Claim, Reevaluate, RowTypes, UploadTypes, TabTypes,
     Own, row, uploads, local, mic, tabs, history
<1>7. ASSUME NEW u \in Upload, Server(u) \/ Sweep(u) PROVE RowTypes'
  BY <1>7 DEF Server, Refuse, Enter, Break, Look, AttachableStatus, DiscardOwn,
     Attach, Sweep, RowTypes, UploadTypes, TabTypes, Own, row, uploads, local,
     mic, tabs, history
<1>8. ASSUME NEW u \in Upload \cup {Draft}, Evaluation(u) PROVE RowTypes'
  BY <1>8 DEF Evaluation, Evaluated, DiscardAudio, EvaluationFails, RowTypes,
     UploadTypes, TabTypes, Own, row, uploads, local, mic, tabs, history
<1>9. CASE UNCHANGED vars
  BY <1>9 DEF vars, RowTypes, UploadTypes, TabTypes, Own, row, uploads, local,
     mic, tabs, history
<1> QED
  BY <1>1, <1>2, <1>3, <1>4, <1>5, <1>6, <1>7, <1>8, <1>9 DEF Next

\* ... of the uploads, ...
LEMMA UploadTypesStep == IInv /\ [Next]_vars => UploadTypes'
<1> SUFFICES ASSUME UploadTypes, PieceTypes, TabTypes, Own, [Next]_vars PROVE
       UploadTypes'
  BY DEF IInv, TypeOK
<1>1. ASSUME NEW t \in Tab, Open(t) PROVE UploadTypes'
  BY <1>1 DEF Open, Recoverable, ForgetLocal, Goto, UploadTypes, PieceTypes,
     TabTypes, Own, Phase, row, uploads, local, mic, tabs, history
<1>2. ASSUME NEW t \in Tab, Leave(t) PROVE UploadTypes'
  BY <1>2 DEF Leave, Goto, Enter, UploadTypes, PieceTypes, TabTypes, Own,
     Phase, row, uploads, local, mic, tabs, history
<1>3. ASSUME NEW t \in Tab, Start(t) PROVE UploadTypes'
  BY <1>3 DEF Start, Goto, UploadTypes, PieceTypes, TabTypes, Own, Phase, row,
     uploads, local, mic, tabs, history
<1>4. ASSUME NEW t \in Tab, Recorder(t) PROVE UploadTypes'
  BY <1>4 DEF Recorder, Capture, Goto, Speak, Finish, Drain, TooShort,
     ChainDone, ForgetLocal, ReportShort, Rest, StopCapture, Mark, FinishDraft,
     UploadTypes, PieceTypes, TabTypes, Own, Phase, row, uploads, local, mic,
     tabs, history
<1>5. ASSUME NEW t \in Tab, Uploading(t) PROVE UploadTypes'
  BY <1>5 DEF Uploading, AssembleNothing, ForgetLocal, Goto, AssembleThrows,
     Rest, AssembleTooBig, Assemble, Free, Enter, Put, PutFails, Answer, Accepted,
     NoAnswer, Drop, DropThrows, UploadTypes, PieceTypes, TabTypes, Own, Phase,
     row, uploads, local, mic, tabs, history
<1>6. ASSUME Age \/ Store \/ Claim \/ Reevaluate PROVE UploadTypes'
  BY <1>6 DEF Age, Store, Claim, Reevaluate, UploadTypes, PieceTypes, TabTypes,
     Own, Phase, row, uploads, local, mic, tabs, history
<1>7. ASSUME NEW u \in Upload, Server(u) \/ Sweep(u) PROVE UploadTypes'
  BY <1>7 DEF Server, Refuse, Enter, Break, Look, AttachableStatus, DiscardOwn,
     Attach, Sweep, UploadTypes, PieceTypes, TabTypes, Own, Phase, row, uploads,
     local, mic, tabs, history
<1>8. ASSUME NEW u \in Upload \cup {Draft}, Evaluation(u) PROVE UploadTypes'
  BY <1>8 DEF Evaluation, Evaluated, DiscardAudio, EvaluationFails,
     UploadTypes, PieceTypes, TabTypes, Own, Phase, row, uploads, local, mic,
     tabs, history
<1>9. CASE UNCHANGED vars
  BY <1>9 DEF vars, UploadTypes, PieceTypes, TabTypes, Own, Phase, row,
     uploads, local, mic, tabs, history
<1> QED
  BY <1>1, <1>2, <1>3, <1>4, <1>5, <1>6, <1>7, <1>8, <1>9 DEF Next

\* ... of the pieces, ...
LEMMA PieceTypesStep == IInv /\ [Next]_vars => PieceTypes'
<1> SUFFICES ASSUME PieceTypes, [Next]_vars PROVE PieceTypes'
  BY DEF IInv, TypeOK
<1>1. ASSUME NEW t \in Tab, Open(t) PROVE PieceTypes'
  BY <1>1 DEF Open, Recoverable, ForgetLocal, Goto, PieceTypes, Piece, row,
     uploads, local, mic, tabs, history
<1>2. ASSUME NEW t \in Tab, Leave(t) PROVE PieceTypes'
  BY <1>2 DEF Leave, Goto, Enter, PieceTypes, Piece, row, uploads, local, mic,
     tabs, history
<1>3. ASSUME NEW t \in Tab, Start(t) PROVE PieceTypes'
  BY <1>3 DEF Start, Goto, PieceTypes, Piece, row, uploads, local, mic, tabs,
     history
<1>4. ASSUME NEW t \in Tab, Recorder(t) PROVE PieceTypes'
  BY <1>4 DEF Recorder, Capture, Goto, Speak, Finish, Drain, TooShort,
     ChainDone, ForgetLocal, ReportShort, Rest, StopCapture, Mark, FinishDraft,
     PieceTypes, Piece, row, uploads, local, mic, tabs, history
<1>5. ASSUME NEW t \in Tab, Uploading(t) PROVE PieceTypes'
  BY <1>5 DEF Uploading, AssembleNothing, ForgetLocal, Goto, AssembleThrows,
     Rest, AssembleTooBig, Assemble, Free, Enter, Put, PutFails, Answer, Accepted,
     NoAnswer, Drop, DropThrows, PieceTypes, Piece, row, uploads, local, mic,
     tabs, history
<1>6. ASSUME Age \/ Store \/ Claim \/ Reevaluate PROVE PieceTypes'
  BY <1>6 DEF Age, Store, Claim, Reevaluate, PieceTypes, Piece, row, uploads,
     local, mic, tabs, history
<1>7. ASSUME NEW u \in Upload, Server(u) \/ Sweep(u) PROVE PieceTypes'
  BY <1>7 DEF Server, Refuse, Enter, Break, Look, AttachableStatus, DiscardOwn,
     Attach, Sweep, PieceTypes, Piece, row, uploads, local, mic, tabs, history
<1>8. ASSUME NEW u \in Upload \cup {Draft}, Evaluation(u) PROVE PieceTypes'
  BY <1>8 DEF Evaluation, Evaluated, DiscardAudio, EvaluationFails, PieceTypes,
     Piece, row, uploads, local, mic, tabs, history
<1>9. CASE UNCHANGED vars
  BY <1>9 DEF vars, PieceTypes, Piece, row, uploads, local, mic, tabs, history
<1> QED
  BY <1>1, <1>2, <1>3, <1>4, <1>5, <1>6, <1>7, <1>8, <1>9 DEF Next

\* ... and of the tabs.
LEMMA TabTypesStep == IInv /\ [Next]_vars => TabTypes'
<1> SUFFICES ASSUME TabTypes, Own, [Next]_vars PROVE TabTypes'
  BY DEF IInv, TypeOK
<1>1. ASSUME NEW t \in Tab, Open(t) PROVE TabTypes'
  BY <1>1 DEF Open, Recoverable, ForgetLocal, Goto, TabTypes, Own, Label, row,
     uploads, local, mic, tabs, history
<1>2. ASSUME NEW t \in Tab, Leave(t) PROVE TabTypes'
  BY <1>2 DEF Leave, Goto, Enter, TabTypes, Own, Label, row, uploads, local,
     mic, tabs, history
<1>3. ASSUME NEW t \in Tab, Start(t) PROVE TabTypes'
  BY <1>3 DEF Start, Goto, TabTypes, Own, Label, row, uploads, local, mic,
     tabs, history
<1>4. ASSUME NEW t \in Tab, Recorder(t) PROVE TabTypes'
  <2>1. CASE Capture(t)
    BY <2>1 DEF Capture, Goto, TabTypes, Own, Label, row, uploads, local, mic,
       tabs, history
  <2>2. CASE Speak(t)
    BY <2>2 DEF Speak, TabTypes, Own, Label, row, uploads, local, mic, tabs,
       history
  <2>3. CASE Finish(t)
    BY <2>3 DEF Finish, Goto, TabTypes, Own, Label, row, uploads, local, mic,
       tabs, history
  <2>4. CASE Drain(t)
    BY <2>4 DEF Drain, Goto, TabTypes, Own, Label, row, uploads, local, mic,
       tabs, history
  <2>5. CASE TooShort(t)
    BY <2>5 DEF TooShort, ChainDone, ForgetLocal, Goto, TabTypes, Own, Label,
       row, uploads, local, mic, tabs, history
  <2>6. CASE ReportShort(t)
    BY <2>6 DEF ReportShort, Rest, Goto, TabTypes, Own, Label, row, uploads,
       local, mic, tabs, history
  <2>7. CASE StopCapture(t)
    BY <2>7 DEF StopCapture, ChainDone, Goto, TabTypes, Own, Label, row,
       uploads, local, mic, tabs, history
  <2>8. CASE Mark(t)
    BY <2>8 DEF Mark, Goto, TabTypes, Own, Label, row, uploads, local, mic,
       tabs, history
  <2>9. CASE FinishDraft(t)
    BY <2>9 DEF FinishDraft, Rest, Goto, TabTypes, Own, Label, row, uploads,
       local, mic, tabs, history
  <2> QED
    BY <1>4, <2>1, <2>2, <2>3, <2>4, <2>5, <2>6, <2>7, <2>8, <2>9 DEF Recorder
<1>5. ASSUME NEW t \in Tab, Uploading(t) PROVE TabTypes'
  <2>1. CASE AssembleNothing(t)
    BY <2>1 DEF AssembleNothing, ForgetLocal, Goto, TabTypes, Own, Label, row,
       uploads, local, mic, tabs, history
  <2>2. CASE AssembleThrows(t)
    BY <2>2 DEF AssembleThrows, Rest, Goto, TabTypes, Own, Label, row, uploads,
       local, mic, tabs, history
  <2>3. CASE AssembleTooBig(t)
    BY <2>3 DEF AssembleTooBig, ForgetLocal, Rest, Goto, TabTypes, Own, Label,
       row, uploads, local, mic, tabs, history
  <2>4. ASSUME NEW u \in Upload, Assemble(t, u) PROVE TabTypes'
    BY <2>4 DEF Assemble, Free, Enter, Goto, TabTypes, Own, Label, row,
       uploads, local, mic, tabs, history
  <2>5. CASE Put(t)
    BY <2>5 DEF Put, Enter, Goto, TabTypes, Own, Label, row, uploads, local,
       mic, tabs, history
  <2>6. CASE PutFails(t)
    BY <2>6 DEF PutFails, Enter, Rest, Goto, TabTypes, Own, Label, row,
       uploads, local, mic, tabs, history
  <2>7. CASE Answer(t)
    BY <2>7 DEF Answer, Accepted, Rest, Goto, TabTypes, Own, Label, row,
       uploads, local, mic, tabs, history
  <2>8. CASE NoAnswer(t)
    BY <2>8 DEF NoAnswer, Rest, Goto, TabTypes, Own, Label, row, uploads,
       local, mic, tabs, history
  <2>9. CASE Drop(t)
    BY <2>9 DEF Drop, ForgetLocal, Rest, Goto, TabTypes, Own, Label, row,
       uploads, local, mic, tabs, history
  <2>10. CASE DropThrows(t)
    BY <2>10 DEF DropThrows, Rest, Goto, TabTypes, Own, Label, row, uploads,
       local, mic, tabs, history
  <2> QED
    BY <1>5, <2>1, <2>2, <2>3, <2>4, <2>5, <2>6, <2>7, <2>8, <2>9, <2>10 DEF
       Uploading
<1>6. ASSUME Age \/ Store \/ Claim \/ Reevaluate PROVE TabTypes'
  BY <1>6 DEF Age, Store, Claim, Reevaluate, TabTypes, Own, Label, row,
     uploads, local, mic, tabs, history
<1>7. ASSUME NEW u \in Upload, Server(u) \/ Sweep(u) PROVE TabTypes'
  BY <1>7 DEF Server, Refuse, Enter, Break, Look, AttachableStatus, DiscardOwn,
     Attach, Sweep, TabTypes, Own, Label, row, uploads, local, mic, tabs, history
<1>8. ASSUME NEW u \in Upload \cup {Draft}, Evaluation(u) PROVE TabTypes'
  BY <1>8 DEF Evaluation, Evaluated, DiscardAudio, EvaluationFails, TabTypes,
     Own, Label, row, uploads, local, mic, tabs, history
<1>9. CASE UNCHANGED vars
  BY <1>9 DEF vars, TabTypes, Own, Label, row, uploads, local, mic, tabs,
     history
<1> QED
  BY <1>1, <1>2, <1>3, <1>4, <1>5, <1>6, <1>7, <1>8, <1>9 DEF Next

\* Before the recorder runs a step begins nothing else.
LEMMA BeginningStep == IInv /\ [Next]_vars => Beginning'
<1> SUFFICES ASSUME RowTypes, UploadTypes, PieceTypes, TabTypes, Beginning,
       Alone, Ended, Pieced, [Next]_vars PROVE Beginning'
  BY DEF IInv, TypeOK
<1>1. ASSUME NEW t \in Tab, Open(t) PROVE Beginning'
  BY <1>1, LiveAssumption DEF Open, Recoverable, ForgetLocal, Goto, Beginning,
     RowTypes, UploadTypes, PieceTypes, TabTypes, Alone, Ended, Pieced, Fresh,
     Elsewhere, Recording, Quiet, row, uploads, local, mic, tabs, history
<1>2. ASSUME NEW t \in Tab, Leave(t) PROVE Beginning'
  BY <1>2, LiveAssumption DEF Leave, Goto, Enter, Beginning, RowTypes,
     UploadTypes, PieceTypes, TabTypes, Alone, Ended, Pieced, Fresh, Elsewhere,
     Recording, Quiet, row, uploads, local, mic, tabs, history
<1>3. ASSUME NEW t \in Tab, Start(t) PROVE Beginning'
  BY <1>3, LiveAssumption DEF Start, Goto, Beginning, RowTypes, UploadTypes,
     PieceTypes, TabTypes, Alone, Ended, Pieced, Fresh, Elsewhere, Recording,
     Quiet, row, uploads, local, mic, tabs, history
<1>4. ASSUME NEW t \in Tab, Recorder(t) PROVE Beginning'
  BY <1>4, LiveAssumption DEF Recorder, Capture, Goto, Speak, Finish, Drain,
     TooShort, ChainDone, ForgetLocal, ReportShort, Rest, StopCapture, Mark,
     FinishDraft, Beginning, RowTypes, UploadTypes, PieceTypes, TabTypes, Alone,
     Ended, Pieced, Fresh, Elsewhere, Recording, Quiet, row, uploads, local, mic,
     tabs, history
<1>5. ASSUME NEW t \in Tab, Uploading(t) PROVE Beginning'
  BY <1>5, LiveAssumption DEF Uploading, AssembleNothing, ForgetLocal, Goto,
     AssembleThrows, Rest, AssembleTooBig, Assemble, Free, Enter, Put, PutFails,
     Answer, Accepted, NoAnswer, Drop, DropThrows, Beginning, RowTypes,
     UploadTypes, PieceTypes, TabTypes, Alone, Ended, Pieced, Fresh, Elsewhere,
     Recording, Quiet, row, uploads, local, mic, tabs, history
<1>6. ASSUME Age \/ Store \/ Claim \/ Reevaluate PROVE Beginning'
  BY <1>6, LiveAssumption DEF Age, Store, Claim, Reevaluate, Beginning,
     RowTypes, UploadTypes, PieceTypes, TabTypes, Alone, Ended, Pieced, Fresh,
     Elsewhere, Recording, Quiet, row, uploads, local, mic, tabs, history
<1>7. ASSUME NEW u \in Upload, Server(u) \/ Sweep(u) PROVE Beginning'
  BY <1>7, LiveAssumption DEF Server, Refuse, Enter, Break, Look,
     AttachableStatus, DiscardOwn, Attach, Sweep, Beginning, RowTypes,
     UploadTypes, PieceTypes, TabTypes, Alone, Ended, Pieced, Fresh, Elsewhere,
     Recording, Quiet, row, uploads, local, mic, tabs, history
<1>8. ASSUME NEW u \in Upload \cup {Draft}, Evaluation(u) PROVE Beginning'
  BY <1>8, LiveAssumption DEF Evaluation, Evaluated, DiscardAudio,
     EvaluationFails, Beginning, RowTypes, UploadTypes, PieceTypes, TabTypes,
     Alone, Ended, Pieced, Fresh, Elsewhere, Recording, Quiet, row, uploads,
     local, mic, tabs, history
<1>9. CASE UNCHANGED vars
  BY <1>9 DEF vars, Beginning, RowTypes, UploadTypes, PieceTypes, TabTypes,
     Alone, Ended, Pieced, Fresh, Elsewhere, Recording, Quiet, row, uploads,
     local, mic, tabs, history
<1> QED
  BY <1>1, <1>2, <1>3, <1>4, <1>5, <1>6, <1>7, <1>8, <1>9 DEF Next

\* A step leaves the tab that records alone.
LEMMA AloneStep == IInv /\ [Next]_vars => Alone'
<1> SUFFICES ASSUME RowTypes, TabTypes, UploadTypes, PieceTypes, Beginning,
       Alone, Ended, Pieced, [Next]_vars PROVE Alone'
  BY DEF IInv, TypeOK
<1>1. ASSUME NEW t \in Tab, Open(t) PROVE Alone'
  BY <1>1 DEF Open, Recoverable, ForgetLocal, Goto, Alone, RowTypes, TabTypes,
     UploadTypes, PieceTypes, Beginning, Ended, Pieced, Fresh, Elsewhere,
     Recording, Quiet, row, uploads, local, mic, tabs, history
<1>2. ASSUME NEW t \in Tab, Leave(t) PROVE Alone'
  BY <1>2 DEF Leave, Goto, Enter, Alone, RowTypes, TabTypes, UploadTypes,
     PieceTypes, Beginning, Ended, Pieced, Fresh, Elsewhere, Recording, Quiet,
     row, uploads, local, mic, tabs, history
<1>3. ASSUME NEW t \in Tab, Start(t) PROVE Alone'
  BY <1>3 DEF Start, Goto, Alone, RowTypes, TabTypes, UploadTypes, PieceTypes,
     Beginning, Ended, Pieced, Fresh, Elsewhere, Recording, Quiet, row, uploads,
     local, mic, tabs, history
<1>4. ASSUME NEW t \in Tab, Recorder(t) PROVE Alone'
  BY <1>4 DEF Recorder, Capture, Goto, Speak, Finish, Drain, TooShort,
     ChainDone, ForgetLocal, ReportShort, Rest, StopCapture, Mark, FinishDraft,
     Alone, RowTypes, TabTypes, UploadTypes, PieceTypes, Beginning, Ended, Pieced,
     Fresh, Elsewhere, Recording, Quiet, row, uploads, local, mic, tabs, history
<1>5. ASSUME NEW t \in Tab, Uploading(t) PROVE Alone'
  BY <1>5 DEF Uploading, AssembleNothing, ForgetLocal, Goto, AssembleThrows,
     Rest, AssembleTooBig, Assemble, Free, Enter, Put, PutFails, Answer, Accepted,
     NoAnswer, Drop, DropThrows, Alone, RowTypes, TabTypes, UploadTypes,
     PieceTypes, Beginning, Ended, Pieced, Fresh, Elsewhere, Recording, Quiet,
     row, uploads, local, mic, tabs, history
<1>6. ASSUME Age \/ Store \/ Claim \/ Reevaluate PROVE Alone'
  BY <1>6 DEF Age, Store, Claim, Reevaluate, Alone, RowTypes, TabTypes,
     UploadTypes, PieceTypes, Beginning, Ended, Pieced, Fresh, Elsewhere,
     Recording, Quiet, row, uploads, local, mic, tabs, history
<1>7. ASSUME NEW u \in Upload, Server(u) \/ Sweep(u) PROVE Alone'
  BY <1>7 DEF Server, Refuse, Enter, Break, Look, AttachableStatus, DiscardOwn,
     Attach, Sweep, Alone, RowTypes, TabTypes, UploadTypes, PieceTypes, Beginning,
     Ended, Pieced, Fresh, Elsewhere, Recording, Quiet, row, uploads, local, mic,
     tabs, history
<1>8. ASSUME NEW u \in Upload \cup {Draft}, Evaluation(u) PROVE Alone'
  BY <1>8 DEF Evaluation, Evaluated, DiscardAudio, EvaluationFails, Alone,
     RowTypes, TabTypes, UploadTypes, PieceTypes, Beginning, Ended, Pieced, Fresh,
     Elsewhere, Recording, Quiet, row, uploads, local, mic, tabs, history
<1>9. CASE UNCHANGED vars
  BY <1>9 DEF vars, Alone, RowTypes, TabTypes, UploadTypes, PieceTypes,
     Beginning, Ended, Pieced, Fresh, Elsewhere, Recording, Quiet, row, uploads,
     local, mic, tabs, history
<1> QED
  BY <1>1, <1>2, <1>3, <1>4, <1>5, <1>6, <1>7, <1>8, <1>9 DEF Next

\* The tab that opens is not the one that records.
LEMMA PiecedOpen ==
  ASSUME IInv, NEW t \in Tab, Open(t) PROVE Pieced'
<1> SUFFICES ASSUME TabTypes, PieceTypes, Pieced, Alone PROVE Pieced'
  BY DEF IInv, TypeOK
<1> USE DEF Open, Recoverable, ForgetLocal, Goto, local, mic, history
<1>1. inflight' # {} => audioOk' /\ \E s \in Tab : pc'[s] \in Recording \ {"capture"}
  <2> SUFFICES ASSUME inflight # {}
               PROVE  audioOk /\ \E s \in Tab : pc'[s] \in Recording \ {"capture"}
    OBVIOUS
  <2>1. PICK s \in Tab : pc[s] \in Recording \ {"capture"}
    BY DEF Pieced
  <2>2. s # t /\ pc'[s] = pc[s]
    BY <2>1 DEF TabTypes, Recording
  <2> QED
    BY <2>1, <2>2 DEF Pieced
<1>2. sess' # "none" => sess' = sess /\ kept' = kept
  OBVIOUS
<1> QED
  BY <1>1, <1>2 DEF Pieced

\* The tab that is left takes the pieces it was storing with it.
LEMMA PiecedLeave ==
  ASSUME IInv, NEW t \in Tab, Leave(t) PROVE Pieced'
<1> SUFFICES ASSUME TabTypes, PieceTypes, Pieced, Alone PROVE Pieced'
  BY DEF IInv, TypeOK
<1> USE DEF Leave, Goto, local
<1>1. CASE pc[t] \in Recording
  BY <1>1 DEF Pieced
<1>2. CASE pc[t] \notin Recording
  <2>1. inflight' # {} => \E s \in Tab : pc'[s] \in Recording \ {"capture"}
    <3> SUFFICES ASSUME inflight # {}
                 PROVE  \E s \in Tab : pc'[s] \in Recording \ {"capture"}
      BY <1>2
    <3>1. PICK s \in Tab : pc[s] \in Recording \ {"capture"}
      BY DEF Pieced
    <3>2. s # t /\ pc'[s] = pc[s]
      BY <1>2, <3>1 DEF TabTypes
    <3> QED
      BY <3>1, <3>2
  <2> QED
    BY <1>2, <2>1 DEF Pieced
<1> QED
  BY <1>1, <1>2

\* A stored piece is kept or lost.
LEMMA PiecedStore ==
  ASSUME IInv, Store PROVE Pieced'
<1> SUFFICES ASSUME TabTypes, PieceTypes, Pieced, Alone PROVE Pieced'
  BY DEF IInv, TypeOK
<1>1. PICK p \in inflight :
        /\ inflight' = inflight \ {p}
        /\ \/ kept' = kept \cup {p} /\ UNCHANGED dropped
           \/ dropped' = dropped \cup {p} /\ UNCHANGED kept
        /\ UNCHANGED <<sess, audioOk, heard, tabs>>
  BY DEF Store
<1>2. UNCHANGED pc
  BY <1>1 DEF tabs
<1>3. PICK t \in Tab : pc[t] \in Recording \ {"capture"}
  BY <1>1 DEF Pieced
<1>4. audioOk /\ sess = "recording"
  BY <1>1, <1>3 DEF Pieced, Alone
<1>5. kept = heard \ (dropped \cup inflight)
  BY <1>4 DEF Pieced
<1>6. inflight' \subseteq heard' /\ dropped' \subseteq heard' /\ inflight' \cap dropped' = {}
  BY <1>1 DEF Pieced
<1>7. kept' = heard' \ (dropped' \cup inflight')
  BY <1>1, <1>5 DEF Pieced
<1> QED
  BY <1>1, <1>2, <1>3, <1>4, <1>6, <1>7 DEF Pieced

\* A step loses no piece from sight.
LEMMA PiecedStep == IInv /\ [Next]_vars => Pieced'
<1> SUFFICES ASSUME IInv, PieceTypes, TabTypes, Beginning, Alone, Ended,
       Pieced, [Next]_vars PROVE Pieced'
  BY DEF IInv, TypeOK
<1>1. ASSUME NEW t \in Tab, Open(t) PROVE Pieced'
  BY <1>1, PiecedOpen
<1>2. ASSUME NEW t \in Tab, Leave(t) PROVE Pieced'
  BY <1>2, PiecedLeave
<1>3. ASSUME NEW t \in Tab, Start(t) PROVE Pieced'
  BY <1>3 DEF Start, Goto, Pieced, PieceTypes, TabTypes, Beginning, Alone,
     Ended, Piece, Fresh, Elsewhere, Recording, Quiet, row, uploads, local, mic,
     tabs, history
<1>4. ASSUME NEW t \in Tab, Recorder(t) PROVE Pieced'
  <2>1. CASE Capture(t)
    BY <2>1 DEF Capture, Goto, Pieced, PieceTypes, TabTypes, Beginning, Alone,
       Ended, Piece, Fresh, Elsewhere, Recording, Quiet, row, uploads, local, mic,
       tabs, history
  <2>2. CASE Speak(t)
    BY <2>2 DEF Speak, Pieced, PieceTypes, TabTypes, Beginning, Alone, Ended,
       Piece, Fresh, Elsewhere, Recording, Quiet, row, uploads, local, mic, tabs,
       history
  <2>3. CASE Finish(t)
    BY <2>3 DEF Finish, Goto, Pieced, PieceTypes, TabTypes, Beginning, Alone,
       Ended, Piece, Fresh, Elsewhere, Recording, Quiet, row, uploads, local, mic,
       tabs, history
  <2>4. CASE Drain(t)
    BY <2>4 DEF Drain, Goto, Pieced, PieceTypes, TabTypes, Beginning, Alone,
       Ended, Piece, Fresh, Elsewhere, Recording, Quiet, row, uploads, local, mic,
       tabs, history
  <2>5. CASE TooShort(t)
    BY <2>5 DEF TooShort, ChainDone, ForgetLocal, Goto, Pieced, PieceTypes,
       TabTypes, Beginning, Alone, Ended, Piece, Fresh, Elsewhere, Recording,
       Quiet, row, uploads, local, mic, tabs, history
  <2>6. CASE ReportShort(t)
    BY <2>6 DEF ReportShort, Rest, Goto, Pieced, PieceTypes, TabTypes,
       Beginning, Alone, Ended, Piece, Fresh, Elsewhere, Recording, Quiet, row,
       uploads, local, mic, tabs, history
  <2>7. CASE StopCapture(t)
    BY <2>7 DEF StopCapture, ChainDone, Goto, Pieced, PieceTypes, TabTypes,
       Beginning, Alone, Ended, Piece, Fresh, Elsewhere, Recording, Quiet, row,
       uploads, local, mic, tabs, history
  <2>8. CASE Mark(t)
    BY <2>8 DEF Mark, Goto, Pieced, PieceTypes, TabTypes, Beginning, Alone,
       Ended, Piece, Fresh, Elsewhere, Recording, Quiet, row, uploads, local, mic,
       tabs, history
  <2>9. CASE FinishDraft(t)
    BY <2>9 DEF FinishDraft, Rest, Goto, Pieced, PieceTypes, TabTypes,
       Beginning, Alone, Ended, Piece, Fresh, Elsewhere, Recording, Quiet, row,
       uploads, local, mic, tabs, history
  <2> QED
    BY <1>4, <2>1, <2>2, <2>3, <2>4, <2>5, <2>6, <2>7, <2>8, <2>9 DEF Recorder
<1>5. ASSUME NEW t \in Tab, Uploading(t) PROVE Pieced'
  BY <1>5 DEF Uploading, AssembleNothing, ForgetLocal, Goto, AssembleThrows,
     Rest, AssembleTooBig, Assemble, Free, Enter, Put, PutFails, Answer, Accepted,
     NoAnswer, Drop, DropThrows, Pieced, PieceTypes, TabTypes, Beginning, Alone,
     Ended, Piece, Fresh, Elsewhere, Recording, Quiet, row, uploads, local, mic,
     tabs, history
<1>6. ASSUME Age \/ Store \/ Claim \/ Reevaluate PROVE Pieced'
  <2>1. CASE Age
    BY <2>1 DEF Age, Pieced, PieceTypes, TabTypes, Beginning, Alone, Ended,
       Piece, Fresh, Elsewhere, Recording, Quiet, row, uploads, local, mic, tabs,
       history
  <2>2. CASE Store
    BY <2>2, PiecedStore
  <2>3. CASE Claim
    BY <2>3 DEF Claim, Pieced, PieceTypes, TabTypes, Beginning, Alone, Ended,
       Piece, Fresh, Elsewhere, Recording, Quiet, row, uploads, local, mic, tabs,
       history
  <2>4. CASE Reevaluate
    BY <2>4 DEF Reevaluate, Pieced, PieceTypes, TabTypes, Beginning, Alone,
       Ended, Piece, Fresh, Elsewhere, Recording, Quiet, row, uploads, local, mic,
       tabs, history
  <2> QED
    BY <1>6, <2>1, <2>2, <2>3, <2>4
<1>7. ASSUME NEW u \in Upload, Server(u) \/ Sweep(u) PROVE Pieced'
  BY <1>7 DEF Server, Refuse, Enter, Break, Look, AttachableStatus, DiscardOwn,
     Attach, Sweep, Pieced, PieceTypes, TabTypes, Beginning, Alone, Ended, Piece,
     Fresh, Elsewhere, Recording, Quiet, row, uploads, local, mic, tabs, history
<1>8. ASSUME NEW u \in Upload \cup {Draft}, Evaluation(u) PROVE Pieced'
  BY <1>8 DEF Evaluation, Evaluated, DiscardAudio, EvaluationFails, Pieced,
     PieceTypes, TabTypes, Beginning, Alone, Ended, Piece, Fresh, Elsewhere,
     Recording, Quiet, row, uploads, local, mic, tabs, history
<1>9. CASE UNCHANGED vars
  BY <1>9 DEF vars, Pieced, PieceTypes, TabTypes, Beginning, Alone, Ended,
     Piece, Fresh, Elsewhere, Recording, Quiet, row, uploads, local, mic, tabs,
     history
<1> QED
  BY <1>1, <1>2, <1>3, <1>4, <1>5, <1>6, <1>7, <1>8, <1>9 DEF Next

\* After a step uploads still begin at the end only.
LEMMA EndedStep == IInv /\ [Next]_vars => Ended'
<1> SUFFICES ASSUME UploadTypes, PieceTypes, TabTypes, Beginning, Alone, Ended,
       Pieced, Own, [Next]_vars PROVE Ended'
  BY DEF IInv, TypeOK
<1>1. ASSUME NEW t \in Tab, Open(t) PROVE Ended'
  BY <1>1 DEF Open, Recoverable, ForgetLocal, Goto, Ended, UploadTypes,
     PieceTypes, TabTypes, Beginning, Alone, Pieced, Own, Fresh, Elsewhere,
     Recording, Quiet, InRequest, Phase, row, uploads, local, mic, tabs, history
<1>2. ASSUME NEW t \in Tab, Leave(t) PROVE Ended'
  BY <1>2 DEF Leave, Goto, Enter, Ended, UploadTypes, PieceTypes, TabTypes,
     Beginning, Alone, Pieced, Own, Fresh, Elsewhere, Recording, Quiet, InRequest,
     Phase, row, uploads, local, mic, tabs, history
<1>3. ASSUME NEW t \in Tab, Start(t) PROVE Ended'
  BY <1>3 DEF Start, Goto, Ended, UploadTypes, PieceTypes, TabTypes, Beginning,
     Alone, Pieced, Own, Fresh, Elsewhere, Recording, Quiet, InRequest, Phase,
     row, uploads, local, mic, tabs, history
<1>4. ASSUME NEW t \in Tab, Recorder(t) PROVE Ended'
  BY <1>4 DEF Recorder, Capture, Goto, Speak, Finish, Drain, TooShort,
     ChainDone, ForgetLocal, ReportShort, Rest, StopCapture, Mark, FinishDraft,
     Ended, UploadTypes, PieceTypes, TabTypes, Beginning, Alone, Pieced, Own,
     Fresh, Elsewhere, Recording, Quiet, InRequest, Phase, row, uploads, local,
     mic, tabs, history
<1>5. ASSUME NEW t \in Tab, Uploading(t) PROVE Ended'
  BY <1>5 DEF Uploading, AssembleNothing, ForgetLocal, Goto, AssembleThrows,
     Rest, AssembleTooBig, Assemble, Free, Enter, Put, PutFails, Answer, Accepted,
     NoAnswer, Drop, DropThrows, Ended, UploadTypes, PieceTypes, TabTypes,
     Beginning, Alone, Pieced, Own, Fresh, Elsewhere, Recording, Quiet, InRequest,
     Phase, row, uploads, local, mic, tabs, history
<1>6. ASSUME Age \/ Store \/ Claim \/ Reevaluate PROVE Ended'
  BY <1>6 DEF Age, Store, Claim, Reevaluate, Ended, UploadTypes, PieceTypes,
     TabTypes, Beginning, Alone, Pieced, Own, Fresh, Elsewhere, Recording, Quiet,
     InRequest, Phase, row, uploads, local, mic, tabs, history
<1>7. ASSUME NEW u \in Upload, Server(u) \/ Sweep(u) PROVE Ended'
  BY <1>7 DEF Server, Refuse, Enter, Break, Look, AttachableStatus, DiscardOwn,
     Attach, Sweep, Ended, UploadTypes, PieceTypes, TabTypes, Beginning, Alone,
     Pieced, Own, Fresh, Elsewhere, Recording, Quiet, InRequest, Phase, row,
     uploads, local, mic, tabs, history
<1>8. ASSUME NEW u \in Upload \cup {Draft}, Evaluation(u) PROVE Ended'
  BY <1>8 DEF Evaluation, Evaluated, DiscardAudio, EvaluationFails, Ended,
     UploadTypes, PieceTypes, TabTypes, Beginning, Alone, Pieced, Own, Fresh,
     Elsewhere, Recording, Quiet, InRequest, Phase, row, uploads, local, mic,
     tabs, history
<1>9. CASE UNCHANGED vars
  BY <1>9 DEF vars, Ended, UploadTypes, PieceTypes, TabTypes, Beginning, Alone,
     Pieced, Own, Fresh, Elsewhere, Recording, Quiet, InRequest, Phase, row,
     uploads, local, mic, tabs, history
<1> QED
  BY <1>1, <1>2, <1>3, <1>4, <1>5, <1>6, <1>7, <1>8, <1>9 DEF Next

\* After a step tabs still have requests of their own.
LEMMA OwnStep == IInv /\ [Next]_vars => Own'
<1> SUFFICES ASSUME UploadTypes, TabTypes, Own, [Next]_vars PROVE Own'
  BY DEF IInv, TypeOK
<1>1. ASSUME NEW t \in Tab, Open(t) PROVE Own'
  BY <1>1 DEF Open, Recoverable, ForgetLocal, Goto, Own, UploadTypes, TabTypes,
     row, uploads, local, mic, tabs, history
<1>2. ASSUME NEW t \in Tab, Leave(t) PROVE Own'
  BY <1>2 DEF Leave, Goto, Enter, Own, UploadTypes, TabTypes, row, uploads,
     local, mic, tabs, history
<1>3. ASSUME NEW t \in Tab, Start(t) PROVE Own'
  BY <1>3 DEF Start, Goto, Own, UploadTypes, TabTypes, row, uploads, local,
     mic, tabs, history
<1>4. ASSUME NEW t \in Tab, Recorder(t) PROVE Own'
  BY <1>4 DEF Recorder, Capture, Goto, Speak, Finish, Drain, TooShort,
     ChainDone, ForgetLocal, ReportShort, Rest, StopCapture, Mark, FinishDraft,
     Own, UploadTypes, TabTypes, row, uploads, local, mic, tabs, history
<1>5. ASSUME NEW t \in Tab, Uploading(t) PROVE Own'
  BY <1>5 DEF Uploading, AssembleNothing, ForgetLocal, Goto, AssembleThrows,
     Rest, AssembleTooBig, Assemble, Free, Enter, Put, PutFails, Answer, Accepted,
     NoAnswer, Drop, DropThrows, Own, UploadTypes, TabTypes, row, uploads, local,
     mic, tabs, history
<1>6. ASSUME Age \/ Store \/ Claim \/ Reevaluate PROVE Own'
  BY <1>6 DEF Age, Store, Claim, Reevaluate, Own, UploadTypes, TabTypes, row,
     uploads, local, mic, tabs, history
<1>7. ASSUME NEW u \in Upload, Server(u) \/ Sweep(u) PROVE Own'
  BY <1>7 DEF Server, Refuse, Enter, Break, Look, AttachableStatus, DiscardOwn,
     Attach, Sweep, Own, UploadTypes, TabTypes, row, uploads, local, mic, tabs,
     history
<1>8. ASSUME NEW u \in Upload \cup {Draft}, Evaluation(u) PROVE Own'
  BY <1>8 DEF Evaluation, Evaluated, DiscardAudio, EvaluationFails, Own,
     UploadTypes, TabTypes, row, uploads, local, mic, tabs, history
<1>9. CASE UNCHANGED vars
  BY <1>9 DEF vars, Own, UploadTypes, TabTypes, row, uploads, local, mic, tabs,
     history
<1> QED
  BY <1>1, <1>2, <1>3, <1>4, <1>5, <1>6, <1>7, <1>8, <1>9 DEF Next

\* At the end of a recording nobody else has done anything.
LEMMA WaitingMark ==
  ASSUME IInv, NEW t \in Tab, Mark(t) PROVE Waiting'
<1> SUFFICES ASSUME finished', TabTypes, Alone, Mark(t) PROVE
        /\ sess' = "complete" /\ kept' # {}
        /\ status' = "recording" /\ work' = {}
        /\ \A u \in Upload : phase'[u] \notin {"taken", "acked"}
        /\ \A s \in Tab : pc'[s] \notin {"drop", "finish", "report"}
  BY DEF IInv, TypeOK, Waiting
<1> USE DEF Mark, Goto, row, uploads
<1>1. pc[t] \in Recording /\ ~finished
  BY DEF Recording, Alone
<1>2. /\ status = "recording" /\ work = {}
      /\ \A u \in Upload : phase[u] = "free"
      /\ \A s \in Tab \ {t} : pc[s] \in {"closed", "open"}
  BY <1>1 DEF Alone, Elsewhere
<1>3. sess' = "complete" /\ kept' # {} /\ pc'[t] = "assemble"
  BY <1>1 DEF TabTypes
<1>4. \A s \in Tab \ {t} : pc'[s] = pc[s]
  BY DEF TabTypes
<1> QED
  BY <1>2, <1>3, <1>4

\* Only an answer that tells of the audio, or a refusal, ends an upload.
LEMMA WaitingAnswer ==
  ASSUME IInv, NEW t \in Tab, Answer(t) PROVE Waiting'
<1> SUFFICES ASSUME finished', ~taken', refused' = "no", TabTypes, Own, Waiting PROVE
        /\ sess' = "complete" /\ kept' # {}
        /\ status' = "recording" /\ work' = {}
        /\ \A u \in Upload : phase'[u] \notin {"taken", "acked"}
        /\ \A s \in Tab : pc'[s] \notin {"drop", "finish", "report"}
  BY DEF IInv, TypeOK, Waiting
<1> USE DEF Answer, Goto, Rest, Accepted, row, uploads, local
<1>1. /\ sess = "complete" /\ kept # {} /\ status = "recording" /\ work = {}
      /\ \A u \in Upload : phase[u] \notin {"taken", "acked"}
      /\ \A s \in Tab : pc[s] \notin {"drop", "finish", "report"}
  BY DEF Waiting
<1>2. mine[t] \in Upload
  BY DEF Own, TabTypes
<1>3. phase[mine[t]] \notin {"taken", "acked", "refused"}
  BY <1>1, <1>2
<1>4. pc' = [pc EXCEPT ![t] = "open"]
  BY <1>3
<1> QED
  BY <1>1, <1>4 DEF TabTypes

\* A step leaves what nobody has taken in the browser.
LEMMA WaitingStep == IInv /\ [Next]_vars => Waiting'
<1> SUFFICES ASSUME IInv, RowTypes, UploadTypes, PieceTypes, TabTypes, Alone,
       Ended, Pieced, Own, Waiting, [Next]_vars PROVE Waiting'
  BY DEF IInv, TypeOK
<1>1. ASSUME NEW t \in Tab, Open(t) PROVE Waiting'
  BY <1>1 DEF Open, Recoverable, ForgetLocal, Goto, Waiting, RowTypes,
     UploadTypes, PieceTypes, TabTypes, Alone, Ended, Pieced, Own, Elsewhere,
     Recording, Quiet, row, uploads, local, mic, tabs, history
<1>2. ASSUME NEW t \in Tab, Leave(t) PROVE Waiting'
  BY <1>2 DEF Leave, Goto, Enter, Waiting, RowTypes, UploadTypes, PieceTypes,
     TabTypes, Alone, Ended, Pieced, Own, Elsewhere, Recording, Quiet, row,
     uploads, local, mic, tabs, history
<1>3. ASSUME NEW t \in Tab, Start(t) PROVE Waiting'
  BY <1>3 DEF Start, Goto, Waiting, RowTypes, UploadTypes, PieceTypes,
     TabTypes, Alone, Ended, Pieced, Own, Elsewhere, Recording, Quiet, row,
     uploads, local, mic, tabs, history
<1>4. ASSUME NEW t \in Tab, Recorder(t) PROVE Waiting'
  <2>1. CASE Capture(t)
    BY <2>1 DEF Capture, Goto, Waiting, RowTypes, UploadTypes, PieceTypes,
       TabTypes, Alone, Ended, Pieced, Own, Elsewhere, Recording, Quiet, row,
       uploads, local, mic, tabs, history
  <2>2. CASE Speak(t)
    BY <2>2 DEF Speak, Waiting, RowTypes, UploadTypes, PieceTypes, TabTypes,
       Alone, Ended, Pieced, Own, Elsewhere, Recording, Quiet, row, uploads,
       local, mic, tabs, history
  <2>3. CASE Finish(t)
    BY <2>3 DEF Finish, Goto, Waiting, RowTypes, UploadTypes, PieceTypes,
       TabTypes, Alone, Ended, Pieced, Own, Elsewhere, Recording, Quiet, row,
       uploads, local, mic, tabs, history
  <2>4. CASE Drain(t)
    BY <2>4 DEF Drain, Goto, Waiting, RowTypes, UploadTypes, PieceTypes,
       TabTypes, Alone, Ended, Pieced, Own, Elsewhere, Recording, Quiet, row,
       uploads, local, mic, tabs, history
  <2>5. CASE TooShort(t)
    BY <2>5 DEF TooShort, ChainDone, ForgetLocal, Goto, Waiting, RowTypes,
       UploadTypes, PieceTypes, TabTypes, Alone, Ended, Pieced, Own, Elsewhere,
       Recording, Quiet, row, uploads, local, mic, tabs, history
  <2>6. CASE ReportShort(t)
    BY <2>6 DEF ReportShort, Rest, Goto, Waiting, RowTypes, UploadTypes,
       PieceTypes, TabTypes, Alone, Ended, Pieced, Own, Elsewhere, Recording,
       Quiet, row, uploads, local, mic, tabs, history
  <2>7. CASE StopCapture(t)
    BY <2>7 DEF StopCapture, ChainDone, Goto, Waiting, RowTypes, UploadTypes,
       PieceTypes, TabTypes, Alone, Ended, Pieced, Own, Elsewhere, Recording,
       Quiet, row, uploads, local, mic, tabs, history
  <2>8. CASE Mark(t)
    BY <2>8, WaitingMark
  <2>9. CASE FinishDraft(t)
    BY <2>9 DEF FinishDraft, Rest, Goto, Waiting, RowTypes, UploadTypes,
       PieceTypes, TabTypes, Alone, Ended, Pieced, Own, Elsewhere, Recording,
       Quiet, row, uploads, local, mic, tabs, history
  <2> QED
    BY <1>4, <2>1, <2>2, <2>3, <2>4, <2>5, <2>6, <2>7, <2>8, <2>9 DEF Recorder
<1>5. ASSUME NEW t \in Tab, Uploading(t) PROVE Waiting'
  <2>1. CASE AssembleNothing(t)
    BY <2>1 DEF AssembleNothing, ForgetLocal, Goto, Waiting, RowTypes,
       UploadTypes, PieceTypes, TabTypes, Alone, Ended, Pieced, Own, Elsewhere,
       Recording, Quiet, row, uploads, local, mic, tabs, history
  <2>2. CASE AssembleThrows(t)
    BY <2>2 DEF AssembleThrows, Rest, Goto, Waiting, RowTypes, UploadTypes,
       PieceTypes, TabTypes, Alone, Ended, Pieced, Own, Elsewhere, Recording,
       Quiet, row, uploads, local, mic, tabs, history
  <2>3. CASE AssembleTooBig(t)
    BY <2>3 DEF AssembleTooBig, ForgetLocal, Rest, Goto, Waiting, RowTypes,
       UploadTypes, PieceTypes, TabTypes, Alone, Ended, Pieced, Own, Elsewhere,
       Recording, Quiet, row, uploads, local, mic, tabs, history
  <2>4. ASSUME NEW u \in Upload, Assemble(t, u) PROVE Waiting'
    BY <2>4 DEF Assemble, Free, Enter, Goto, Waiting, RowTypes, UploadTypes,
       PieceTypes, TabTypes, Alone, Ended, Pieced, Own, Elsewhere, Recording,
       Quiet, row, uploads, local, mic, tabs, history
  <2>5. CASE Put(t)
    BY <2>5 DEF Put, Enter, Goto, Waiting, RowTypes, UploadTypes, PieceTypes,
       TabTypes, Alone, Ended, Pieced, Own, Elsewhere, Recording, Quiet, row,
       uploads, local, mic, tabs, history
  <2>6. CASE PutFails(t)
    BY <2>6 DEF PutFails, Enter, Rest, Goto, Waiting, RowTypes, UploadTypes,
       PieceTypes, TabTypes, Alone, Ended, Pieced, Own, Elsewhere, Recording,
       Quiet, row, uploads, local, mic, tabs, history
  <2>7. CASE Answer(t)
    BY <2>7, WaitingAnswer
  <2>8. CASE NoAnswer(t)
    BY <2>8 DEF NoAnswer, Rest, Goto, Waiting, RowTypes, UploadTypes,
       PieceTypes, TabTypes, Alone, Ended, Pieced, Own, Elsewhere, Recording,
       Quiet, row, uploads, local, mic, tabs, history
  <2>9. CASE Drop(t)
    BY <2>9 DEF Drop, ForgetLocal, Rest, Goto, Waiting, RowTypes, UploadTypes,
       PieceTypes, TabTypes, Alone, Ended, Pieced, Own, Elsewhere, Recording,
       Quiet, row, uploads, local, mic, tabs, history
  <2>10. CASE DropThrows(t)
    BY <2>10 DEF DropThrows, Rest, Goto, Waiting, RowTypes, UploadTypes,
       PieceTypes, TabTypes, Alone, Ended, Pieced, Own, Elsewhere, Recording,
       Quiet, row, uploads, local, mic, tabs, history
  <2> QED
    BY <1>5, <2>1, <2>2, <2>3, <2>4, <2>5, <2>6, <2>7, <2>8, <2>9, <2>10 DEF
       Uploading
<1>6. ASSUME Age \/ Store \/ Claim \/ Reevaluate PROVE Waiting'
  BY <1>6 DEF Age, Store, Claim, Reevaluate, Waiting, RowTypes, UploadTypes,
     PieceTypes, TabTypes, Alone, Ended, Pieced, Own, Elsewhere, Recording, Quiet,
     row, uploads, local, mic, tabs, history
<1>7. ASSUME NEW u \in Upload, Server(u) \/ Sweep(u) PROVE Waiting'
  <2>1. CASE Refuse(u)
    BY <2>1 DEF Refuse, Enter, Waiting, RowTypes, UploadTypes, PieceTypes,
       TabTypes, Alone, Ended, Pieced, Own, Elsewhere, Recording, Quiet, row,
       uploads, local, mic, tabs, history
  <2>2. CASE Break(u)
    BY <2>2 DEF Break, Enter, Waiting, RowTypes, UploadTypes, PieceTypes,
       TabTypes, Alone, Ended, Pieced, Own, Elsewhere, Recording, Quiet, row,
       uploads, local, mic, tabs, history
  <2>3. CASE Look(u)
    BY <2>3 DEF Look, AttachableStatus, DiscardOwn, Enter, Waiting, RowTypes,
       UploadTypes, PieceTypes, TabTypes, Alone, Ended, Pieced, Own, Elsewhere,
       Recording, Quiet, row, uploads, local, mic, tabs, history
  <2>4. CASE Attach(u)
    BY <2>4 DEF Attach, Enter, Waiting, RowTypes, UploadTypes, PieceTypes,
       TabTypes, Alone, Ended, Pieced, Own, Elsewhere, Recording, Quiet, row,
       uploads, local, mic, tabs, history
  <2>5. CASE Sweep(u)
    BY <2>5 DEF Sweep, Waiting, RowTypes, UploadTypes, PieceTypes, TabTypes,
       Alone, Ended, Pieced, Own, Elsewhere, Recording, Quiet, row, uploads,
       local, mic, tabs, history
  <2> QED
    BY <1>7, <2>1, <2>2, <2>3, <2>4, <2>5 DEF Server
<1>8. ASSUME NEW u \in Upload \cup {Draft}, Evaluation(u) PROVE Waiting'
  BY <1>8 DEF Evaluation, Evaluated, DiscardAudio, EvaluationFails, Waiting,
     RowTypes, UploadTypes, PieceTypes, TabTypes, Alone, Ended, Pieced, Own,
     Elsewhere, Recording, Quiet, row, uploads, local, mic, tabs, history
<1>9. CASE UNCHANGED vars
  BY <1>9 DEF vars, Waiting, RowTypes, UploadTypes, PieceTypes, TabTypes,
     Alone, Ended, Pieced, Own, Elsewhere, Recording, Quiet, row, uploads, local,
     mic, tabs, history
<1> QED
  BY <1>1, <1>2, <1>3, <1>4, <1>5, <1>6, <1>7, <1>8, <1>9 DEF Next

\* A step leaves a request its files.
LEMMA StoredStep == IInv /\ [Next]_vars => Stored'
<1> SUFFICES ASSUME UploadTypes, RowTypes, TabTypes, Own, Stored, [Next]_vars
       PROVE Stored'
  BY DEF IInv, TypeOK
<1>1. ASSUME NEW t \in Tab, Open(t) PROVE Stored'
  BY <1>1, LiveAssumption DEF Open, Recoverable, ForgetLocal, Goto, Stored,
     UploadTypes, RowTypes, TabTypes, Own, InRequest, row, uploads, local, mic,
     tabs, history
<1>2. ASSUME NEW t \in Tab, Leave(t) PROVE Stored'
  BY <1>2, LiveAssumption DEF Leave, Goto, Enter, Stored, UploadTypes,
     RowTypes, TabTypes, Own, InRequest, row, uploads, local, mic, tabs, history
<1>3. ASSUME NEW t \in Tab, Start(t) PROVE Stored'
  BY <1>3, LiveAssumption DEF Start, Goto, Stored, UploadTypes, RowTypes,
     TabTypes, Own, InRequest, row, uploads, local, mic, tabs, history
<1>4. ASSUME NEW t \in Tab, Recorder(t) PROVE Stored'
  BY <1>4, LiveAssumption DEF Recorder, Capture, Goto, Speak, Finish, Drain,
     TooShort, ChainDone, ForgetLocal, ReportShort, Rest, StopCapture, Mark,
     FinishDraft, Stored, UploadTypes, RowTypes, TabTypes, Own, InRequest, row,
     uploads, local, mic, tabs, history
<1>5. ASSUME NEW t \in Tab, Uploading(t) PROVE Stored'
  BY <1>5, LiveAssumption DEF Uploading, AssembleNothing, ForgetLocal, Goto,
     AssembleThrows, Rest, AssembleTooBig, Assemble, Free, Enter, Put, PutFails,
     Answer, Accepted, NoAnswer, Drop, DropThrows, Stored, UploadTypes, RowTypes,
     TabTypes, Own, InRequest, row, uploads, local, mic, tabs, history
<1>6. ASSUME Age \/ Store \/ Claim \/ Reevaluate PROVE Stored'
  BY <1>6, LiveAssumption DEF Age, Store, Claim, Reevaluate, Stored,
     UploadTypes, RowTypes, TabTypes, Own, InRequest, row, uploads, local, mic,
     tabs, history
<1>7. ASSUME NEW u \in Upload, Server(u) \/ Sweep(u) PROVE Stored'
  BY <1>7, LiveAssumption DEF Server, Refuse, Enter, Break, Look,
     AttachableStatus, DiscardOwn, Attach, Sweep, Stored, UploadTypes, RowTypes,
     TabTypes, Own, InRequest, row, uploads, local, mic, tabs, history
<1>8. ASSUME NEW u \in Upload \cup {Draft}, Evaluation(u) PROVE Stored'
  BY <1>8, LiveAssumption DEF Evaluation, Evaluated, DiscardAudio,
     EvaluationFails, Stored, UploadTypes, RowTypes, TabTypes, Own, InRequest,
     row, uploads, local, mic, tabs, history
<1>9. CASE UNCHANGED vars
  BY <1>9 DEF vars, Stored, UploadTypes, RowTypes, TabTypes, Own, InRequest,
     row, uploads, local, mic, tabs, history
<1> QED
  BY <1>1, <1>2, <1>3, <1>4, <1>5, <1>6, <1>7, <1>8, <1>9 DEF Next

\* A step leaves uploads whole.
LEMMA UploadIsWholeStep == IInv /\ [Next]_vars => UploadIsWhole'
<1> SUFFICES ASSUME UploadTypes, PieceTypes, TabTypes, Own, Pieced, Ended,
       UploadIsWhole, [Next]_vars PROVE UploadIsWhole'
  BY DEF IInv, TypeOK
<1>1. ASSUME NEW t \in Tab, Open(t) PROVE UploadIsWhole'
  BY <1>1 DEF Open, Recoverable, ForgetLocal, Goto, UploadIsWhole, UploadTypes,
     PieceTypes, TabTypes, Own, Pieced, Ended, InRequest, Quiet, Recording, Phase,
     row, uploads, local, mic, tabs, history
<1>2. ASSUME NEW t \in Tab, Leave(t) PROVE UploadIsWhole'
  BY <1>2 DEF Leave, Goto, Enter, UploadIsWhole, UploadTypes, PieceTypes,
     TabTypes, Own, Pieced, Ended, InRequest, Quiet, Recording, Phase, row,
     uploads, local, mic, tabs, history
<1>3. ASSUME NEW t \in Tab, Start(t) PROVE UploadIsWhole'
  BY <1>3 DEF Start, Goto, UploadIsWhole, UploadTypes, PieceTypes, TabTypes,
     Own, Pieced, Ended, InRequest, Quiet, Recording, Phase, row, uploads, local,
     mic, tabs, history
<1>4. ASSUME NEW t \in Tab, Recorder(t) PROVE UploadIsWhole'
  BY <1>4 DEF Recorder, Capture, Goto, Speak, Finish, Drain, TooShort,
     ChainDone, ForgetLocal, ReportShort, Rest, StopCapture, Mark, FinishDraft,
     UploadIsWhole, UploadTypes, PieceTypes, TabTypes, Own, Pieced, Ended,
     InRequest, Quiet, Recording, Phase, row, uploads, local, mic, tabs, history
<1>5. ASSUME NEW t \in Tab, Uploading(t) PROVE UploadIsWhole'
  BY <1>5 DEF Uploading, AssembleNothing, ForgetLocal, Goto, AssembleThrows,
     Rest, AssembleTooBig, Assemble, Free, Enter, Put, PutFails, Answer, Accepted,
     NoAnswer, Drop, DropThrows, UploadIsWhole, UploadTypes, PieceTypes, TabTypes,
     Own, Pieced, Ended, InRequest, Quiet, Recording, Phase, row, uploads, local,
     mic, tabs, history
<1>6. ASSUME Age \/ Store \/ Claim \/ Reevaluate PROVE UploadIsWhole'
  BY <1>6 DEF Age, Store, Claim, Reevaluate, UploadIsWhole, UploadTypes,
     PieceTypes, TabTypes, Own, Pieced, Ended, InRequest, Quiet, Recording, Phase,
     row, uploads, local, mic, tabs, history
<1>7. ASSUME NEW u \in Upload, Server(u) \/ Sweep(u) PROVE UploadIsWhole'
  BY <1>7 DEF Server, Refuse, Enter, Break, Look, AttachableStatus, DiscardOwn,
     Attach, Sweep, UploadIsWhole, UploadTypes, PieceTypes, TabTypes, Own, Pieced,
     Ended, InRequest, Quiet, Recording, Phase, row, uploads, local, mic, tabs,
     history
<1>8. ASSUME NEW u \in Upload \cup {Draft}, Evaluation(u) PROVE UploadIsWhole'
  BY <1>8 DEF Evaluation, Evaluated, DiscardAudio, EvaluationFails,
     UploadIsWhole, UploadTypes, PieceTypes, TabTypes, Own, Pieced, Ended,
     InRequest, Quiet, Recording, Phase, row, uploads, local, mic, tabs, history
<1>9. CASE UNCHANGED vars
  BY <1>9 DEF vars, UploadIsWhole, UploadTypes, PieceTypes, TabTypes, Own,
     Pieced, Ended, InRequest, Quiet, Recording, Phase, row, uploads, local, mic,
     tabs, history
<1> QED
  BY <1>1, <1>2, <1>3, <1>4, <1>5, <1>6, <1>7, <1>8, <1>9 DEF Next

\* A step leaves a queued row its audio.
LEMMA QueuedHasAudioStep == IInv /\ [Next]_vars => QueuedHasAudio'
<1> SUFFICES ASSUME UploadTypes, RowTypes, Stored, QueuedHasAudio, [Next]_vars
       PROVE QueuedHasAudio'
  BY DEF IInv, TypeOK
<1>1. ASSUME NEW t \in Tab, Open(t) PROVE QueuedHasAudio'
  BY <1>1 DEF Open, Recoverable, ForgetLocal, Goto, QueuedHasAudio,
     UploadTypes, RowTypes, Stored, InRequest, row, uploads, local, mic, tabs,
     history
<1>2. ASSUME NEW t \in Tab, Leave(t) PROVE QueuedHasAudio'
  BY <1>2 DEF Leave, Goto, Enter, QueuedHasAudio, UploadTypes, RowTypes,
     Stored, InRequest, row, uploads, local, mic, tabs, history
<1>3. ASSUME NEW t \in Tab, Start(t) PROVE QueuedHasAudio'
  BY <1>3 DEF Start, Goto, QueuedHasAudio, UploadTypes, RowTypes, Stored,
     InRequest, row, uploads, local, mic, tabs, history
<1>4. ASSUME NEW t \in Tab, Recorder(t) PROVE QueuedHasAudio'
  BY <1>4 DEF Recorder, Capture, Goto, Speak, Finish, Drain, TooShort,
     ChainDone, ForgetLocal, ReportShort, Rest, StopCapture, Mark, FinishDraft,
     QueuedHasAudio, UploadTypes, RowTypes, Stored, InRequest, row, uploads,
     local, mic, tabs, history
<1>5. ASSUME NEW t \in Tab, Uploading(t) PROVE QueuedHasAudio'
  BY <1>5 DEF Uploading, AssembleNothing, ForgetLocal, Goto, AssembleThrows,
     Rest, AssembleTooBig, Assemble, Free, Enter, Put, PutFails, Answer, Accepted,
     NoAnswer, Drop, DropThrows, QueuedHasAudio, UploadTypes, RowTypes, Stored,
     InRequest, row, uploads, local, mic, tabs, history
<1>6. ASSUME Age \/ Store \/ Claim \/ Reevaluate PROVE QueuedHasAudio'
  BY <1>6 DEF Age, Store, Claim, Reevaluate, QueuedHasAudio, UploadTypes,
     RowTypes, Stored, InRequest, row, uploads, local, mic, tabs, history
<1>7. ASSUME NEW u \in Upload, Server(u) \/ Sweep(u) PROVE QueuedHasAudio'
  BY <1>7 DEF Server, Refuse, Enter, Break, Look, AttachableStatus, DiscardOwn,
     Attach, Sweep, QueuedHasAudio, UploadTypes, RowTypes, Stored, InRequest, row,
     uploads, local, mic, tabs, history
<1>8. ASSUME NEW u \in Upload \cup {Draft}, Evaluation(u) PROVE QueuedHasAudio'
  BY <1>8 DEF Evaluation, Evaluated, DiscardAudio, EvaluationFails,
     QueuedHasAudio, UploadTypes, RowTypes, Stored, InRequest, row, uploads,
     local, mic, tabs, history
<1>9. CASE UNCHANGED vars
  BY <1>9 DEF vars, QueuedHasAudio, UploadTypes, RowTypes, Stored, InRequest,
     row, uploads, local, mic, tabs, history
<1> QED
  BY <1>1, <1>2, <1>3, <1>4, <1>5, <1>6, <1>7, <1>8, <1>9 DEF Next

\* The invariant from which the properties follow is inductive.
THEOREM InductiveInvariant == Spec => []IInv
<1>1. Init => IInv
  <2> SUFFICES ASSUME Init PROVE IInv
    OBVIOUS
  <2>1. TypeOK
    BY DEF Init, TypeOK, RowTypes, UploadTypes, PieceTypes, TabTypes, Phase,
           Label
  <2>2. Beginning /\ Alone /\ Pieced /\ Ended
    BY DEF Init, Beginning, Fresh, Alone, Recording, Pieced, Ended
  <2>3. Own /\ Waiting /\ Stored /\ UploadIsWhole /\ QueuedHasAudio
    BY LiveAssumption DEF Init, Own, Waiting, Stored, InRequest, UploadIsWhole,
                          QueuedHasAudio
  <2> QED
    BY <2>1, <2>2, <2>3 DEF IInv
<1>2. IInv /\ [Next]_vars => IInv'
  BY RowTypesStep, UploadTypesStep, PieceTypesStep, TabTypesStep, BeginningStep,
     AloneStep, PiecedStep, EndedStep, OwnStep, WaitingStep, StoredStep,
     UploadIsWholeStep, QueuedHasAudioStep DEF IInv, TypeOK
<1> QED
  BY <1>1, <1>2, PTL DEF Spec

\* All that the browser, the route and the worker keep stays of its type.
THEOREM TypeCorrect == Spec => []TypeOK
<1>1. IInv => TypeOK
  BY DEF IInv
<1> QED
  BY <1>1, InductiveInvariant, PTL

\* However often pages are left, uploads fail and answers are lost, a recording
\* that ended stays in the browser until the row has audio or a refusal was told.
THEOREM RecordingsAreKept == Spec => []KeptUntilTaken
<1>1. IInv => KeptUntilTaken
  BY DEF IInv, Waiting, Pieced, Alone, KeptUntilTaken
<1> QED
  BY <1>1, InductiveInvariant, PTL

\* No visit of the page, however early, uploads a part of a recording that is
\* still stored or still running.
THEOREM UploadsAreWhole == Spec => []UploadIsWhole
<1>1. IInv => UploadIsWhole
  BY DEF IInv
<1> QED
  BY <1>1, InductiveInvariant, PTL

\* No repeated upload, evaluation or sweep takes away the audio of a queued row.
THEOREM QueuedRowsHaveAudio == Spec => []QueuedHasAudio
<1>1. IInv => QueuedHasAudio
  BY DEF IInv
<1> QED
  BY <1>1, InductiveInvariant, PTL
=============================================================================
