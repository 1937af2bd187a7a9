---------------------------- MODULE AiInterviews ----------------------------
(***************************************************************************)
(* The AI interviews of one candidate: the rows of interview_sessions (a   *)
(* link may be issued again while an older one is still open), the stage   *)
(* and outcome of the candidate, the requests of the applicant's pages     *)
(* (consent, tests, turns of the conversation, completion, withdrawal), of *)
(* the recruiters (links, stages, decisions, re-evaluation) and the cron   *)
(* job that ends expired links.  Requests run as serverless invocations:   *)
(* each await is a step, and a kill may follow any of them.                *)
(***************************************************************************)
EXTENDS Naturals, SequencesExt

CONSTANTS
    Session,    \* links that may be issued to the candidate
    Request,    \* invocations alive at once
    MaxTurns,   \* MAX_CANDIDATE_TURNS, 40 in the code
    MaxAgain,   \* bound on the re-evaluations of a session
    MaxRevived, \* bound on the times a completed session is taken back
    Tested,     \* the posting has a personality or multiple-choice test
    Terse       \* turns in which the applicant says next to nothing

\* "screened" stands for applied, too, "round1_candidate" for every later stage.
Stage   == {"screened", "ai_pending", "ai_evaluated", "round1_candidate"}
Outcome == {"none", "hired", "rejected", "withdrawn"}
Status  == {"unissued", "pending", "in_progress", "completed", "expired"}
Label   == {"idle", "insert", "advance", "mailed", "gate", "start", "stream",
            "look", "claim", "promote", "evaluate", "charge", "reevaluate",
            "recharge", "expire", "withdraw", "outcome", "decide", "cleanup"}
CronLabel == {"idle", "started", "select", "reject", "cleanup"}

ASSUME InterviewAssumption ==
    /\ Session # {} /\ IsFiniteSet(Request)
    /\ MaxTurns \in Nat \ {0} /\ MaxAgain \in Nat /\ MaxRevived \in Nat
    /\ Tested \in BOOLEAN /\ Terse \subseteq Nat

VARIABLES
    stage, outcome,  \* of the candidate
    reason,          \* outcome_reason
    status,          \* of each session
    lapsed,          \*   expires_at has passed
    consent,         \*   a valid row of consent_logs
    answered,        \*   the results of the tests are stored
    messages,        \*   the turns saved, numbered as they are saved
    report,          \*   the conversation the evaluation is about; <<>>: none
    automatic,       \*   charges of the completion
    again,           \*   charges of re-evaluations
    pc,              \* of each request: its label,
    on,              \*   its session,
    seen,            \*   the conversation it has read,
    read,            \*   the stage, outcome or status it has read
    cron,            \* of the cron job: its label,
    ended,           \*   the pending sessions it has ended
    saves,           \* history: UPDATEs of each conversation
    revived          \* history: times a completed session was opened or expired

candidate == <<stage, outcome, reason>>
rows      == <<status, messages, report>>
inputs    == <<lapsed, consent, answered>>
ledger    == <<automatic, again>>
locals    == <<on, seen, read>>
job       == <<cron, ended>>
history   == <<saves, revived>>
vars == <<candidate, rows, inputs, ledger, pc, locals, job, history>>

Live == {s \in Session : status[s] \in {"pending", "in_progress"}}
Goto(r, l) == pc' = [pc EXCEPT ![r] = l]
Nobody == CHOOSE s \in Session : TRUE
\* The request ends; its locals are forgotten.
End(r) ==
    /\ Goto(r, "idle")
    /\ on' = [on EXCEPT ![r] = Nobody]
    /\ seen' = [seen EXCEPT ![r] = <<>>]
    /\ read' = [read EXCEPT ![r] = "none"]
Keep(r, s, conversation, value) ==
    /\ on' = [on EXCEPT ![r] = s]
    /\ seen' = [seen EXCEPT ![r] = conversation]
    /\ read' = [read EXCEPT ![r] = value]

Init ==
    /\ stage = "screened" /\ outcome = "none"
    /\ reason = "none"
    /\ status = [s \in Session |-> "unissued"]
    /\ lapsed = [s \in Session |-> FALSE]
    /\ consent = [s \in Session |-> FALSE]
    /\ answered = [s \in Session |-> FALSE]
    /\ messages = [s \in Session |-> <<>>]
    /\ report = [s \in Session |-> <<>>]
    /\ automatic = [s \in Session |-> 0] /\ again = [s \in Session |-> 0]
    /\ pc = [r \in Request |-> "idle"]
    /\ on = [r \in Request |-> Nobody]
    /\ seen = [r \in Request |-> <<>>]
    /\ read = [r \in Request |-> "none"]
    /\ cron = "idle" /\ ended = {}
    /\ saves = [s \in Session |-> 0] /\ revived = [s \in Session |-> 0]

-----------------------------------------------------------------------------
(* Links.                                                                  *)

\* isAiInterviewSuperseded
Superseded == outcome # "none" \/ stage = "round1_candidate"

\* POST interview-link or interview-links: the candidate is open and not past
\* the AI interview.  Older links stay as they are.
IssueCheck(r, s) ==
    /\ pc[r] = "idle" /\ status[s] = "unissued"
    /\ \A q \in Request : pc[q] = "insert" => on[q] # s
    /\ ~Superseded
    /\ Goto(r, "insert") /\ Keep(r, s, <<>>, stage)
    /\ UNCHANGED <<candidate, rows, inputs, ledger, job, history>>

\* The row is inserted; a single link then moves the stage at once, a batch
\* after its mail has gone out.
IssueInsert(r) ==
    /\ pc[r] = "insert"
    /\ status' = [status EXCEPT ![on[r]] = "pending"]
    /\ Goto(r, "advance") \/ Goto(r, "mailed")
    /\ UNCHANGED <<candidate, messages, report, inputs, ledger, locals, job, history>>

Early == {"screened"}      \* applied, screened

IssueAdvance(r) ==
    /\ pc[r] = "advance"
    /\ stage' = IF read[r] \in Early THEN "ai_pending" ELSE stage
    /\ End(r)
    /\ UNCHANGED <<outcome, reason, rows, inputs, ledger, job, history>>

\* The batch writes the stage it has read, whatever it is.
IssueMailed(r) ==
    /\ pc[r] = "mailed"
    /\ stage' = IF read[r] \in Early THEN "ai_pending" ELSE read[r]
    /\ End(r)
    /\ UNCHANGED <<outcome, reason, rows, inputs, ledger, job, history>>

MailFails(r) ==
    /\ pc[r] = "mailed"
    /\ End(r)
    /\ UNCHANGED <<candidate, rows, inputs, ledger, job, history>>

\* The validity of a link ends.
Lapse(s) ==
    /\ status[s] # "unissued" /\ ~lapsed[s]
    /\ lapsed' = [lapsed EXCEPT ![s] = TRUE]
    /\ UNCHANGED <<candidate, rows, consent, answered, ledger, pc, locals, job, history>>

-----------------------------------------------------------------------------
(* The applicant before the conversation.  Consent and the results of the  *)
(* tests are never taken back, so a request that reads them and inserts is *)
(* one step.                                                               *)

GiveConsent(s) ==
    /\ s \in Live /\ ~lapsed[s] /\ outcome = "none" /\ ~consent[s]
    /\ consent' = [consent EXCEPT ![s] = TRUE]
    /\ UNCHANGED <<candidate, rows, lapsed, answered, ledger, pc, locals, job, history>>

\* POST personality, POST mcq: the status is compared with "completed" only.
Answer(s) ==
    /\ Tested
    /\ status[s] \notin {"unissued", "completed"} /\ ~lapsed[s]
    /\ consent[s] /\ ~answered[s]
    /\ answered' = [answered EXCEPT ![s] = TRUE]
    /\ UNCHANGED <<candidate, rows, lapsed, consent, ledger, pc, locals, job, history>>

-----------------------------------------------------------------------------
(* A turn of the conversation: POST chat.                                  *)

\* Mutant: one turn too many.
HasRoomOff(s) == Len(messages[s]) <= MaxTurns
HasRoom(s) == Len(messages[s]) < MaxTurns
\* Mutant: the tests are not asked for.
TestsAreOptional(s) == answered[s] \in BOOLEAN
TestsTaken(s) == Tested /\ messages[s] = <<>> => answered[s]

\* The session is read; the first turn needs the tests.
ChatRead(r, s) ==
    /\ pc[r] = "idle"
    /\ s \in Live /\ ~lapsed[s]
    /\ HasRoom(s) /\ TestsTaken(s)
    /\ Goto(r, "gate") /\ Keep(r, s, messages[s], status[s])
    /\ UNCHANGED <<candidate, rows, inputs, ledger, job, history>>

\* Consent and candidate are read.
ChatGate(r) ==
    /\ pc[r] = "gate"
    /\ IF consent[on[r]] /\ ~Superseded
       THEN Goto(r, "start") /\ UNCHANGED locals
       ELSE End(r)
    /\ UNCHANGED <<candidate, rows, inputs, ledger, job, history>>

\* A completed session is no longer completed: it can be claimed once more.
TakesBack(s) ==
    revived' = IF status[s] = "completed" /\ status'[s] # "completed"
               THEN [revived EXCEPT ![s] = @ + 1] ELSE revived

\* Of a session read as pending the status is set, by its id only, while the
\* model is called; the model may refuse.
ChatStart(r) ==
    /\ pc[r] = "start"
    /\ status' = IF read[r] = "pending"
                 THEN [status EXCEPT ![on[r]] = "in_progress"] ELSE status
    /\ TakesBack(on[r])
    /\ \/ Goto(r, "stream") /\ UNCHANGED locals
       \/ End(r)
    /\ UNCHANGED <<candidate, messages, report, inputs, ledger, job, saves>>

\* Mutant: the conversation is saved whatever became of it.
AnyConversation(s, conversation) == Len(conversation) >= 0
SaveAllowed(s, conversation) == Len(messages[s]) = Len(conversation)

\* What the model has answered, whole or cut off, is saved if the conversation
\* has as many messages as when it was read.
ChatSave(r) ==
    /\ pc[r] = "stream"
    /\ LET s == on[r] IN
       IF SaveAllowed(s, seen[r])
       THEN /\ messages' = [messages EXCEPT ![s] = Append(seen[r], saves[s] + 1)]
            /\ saves' = [saves EXCEPT ![s] = @ + 1]
       ELSE UNCHANGED <<messages, saves>>
    /\ End(r)
    /\ UNCHANGED <<candidate, status, report, inputs, ledger, job, revived>>

-----------------------------------------------------------------------------
(* The end of an interview: POST complete.                                 *)

FinishRead(r, s) ==
    /\ pc[r] = "idle"
    /\ status[s] \notin {"unissued", "expired"} /\ ~lapsed[s]
    /\ ~(status[s] = "completed" /\ report[s] # <<>>)
    /\ messages[s] # <<>> /\ consent[s]
    /\ Goto(r, "look") /\ Keep(r, s, messages[s], "none")
    /\ UNCHANGED <<candidate, rows, inputs, ledger, job, history>>

\* The candidate is read.
FinishLook(r) ==
    /\ pc[r] = "look"
    /\ IF Superseded THEN End(r)
       ELSE Goto(r, "claim") /\ Keep(r, on[r], seen[r], stage)
    /\ UNCHANGED <<candidate, rows, inputs, ledger, job, history>>

\* Mutant: a completed interview may be claimed, too.
AnyStatus(s) == status[s] \in Status
ClaimAllowed(s) == status[s] # "completed"

\* The conditional UPDATE that makes one request the owner of the evaluation.
FinishClaim(r) ==
    /\ pc[r] = "claim"
    /\ IF ClaimAllowed(on[r])
       THEN /\ status' = [status EXCEPT ![on[r]] = "completed"]
            /\ Goto(r, "promote") /\ UNCHANGED locals
       ELSE UNCHANGED status /\ End(r)
    /\ UNCHANGED <<candidate, messages, report, inputs, ledger, job, history>>

FinishPromote(r) ==
    /\ pc[r] = "promote"
    /\ stage' = IF read[r] \in Early \cup {"ai_pending"} THEN "ai_evaluated" ELSE stage
    /\ Goto(r, "evaluate")
    /\ UNCHANGED <<outcome, reason, rows, inputs, ledger, locals, job, history>>

Silent(conversation) == \A i \in DOMAIN conversation : conversation[i] \in Terse

SaveReport(r) == report' = [report EXCEPT ![on[r]] = seen[r]]

\* Nothing was said: a report without the model and without a charge.
FinishSilent(r) ==
    /\ pc[r] = "evaluate" /\ Silent(seen[r])
    /\ SaveReport(r) /\ End(r)
    /\ UNCHANGED <<candidate, status, messages, inputs, ledger, job, history>>

FinishEvaluate(r) ==
    /\ pc[r] = "evaluate" /\ ~Silent(seen[r])
    /\ SaveReport(r) /\ Goto(r, "charge")
    /\ UNCHANGED <<candidate, status, messages, inputs, ledger, locals, job, history>>

\* The model or a statement fails: the session stays completed.
FinishFails(r) ==
    /\ pc[r] \in {"evaluate", "charge"}
    /\ pc[r] = "evaluate" => ~Silent(seen[r])
    /\ End(r)
    /\ UNCHANGED <<candidate, rows, inputs, ledger, job, history>>

FinishCharge(r) ==
    /\ pc[r] = "charge"
    /\ automatic' = [automatic EXCEPT ![on[r]] = @ + 1]
    /\ End(r)
    /\ UNCHANGED <<candidate, rows, inputs, again, job, history>>

\* POST reevaluate: any completed session with a conversation.
AgainRead(r, s) ==
    /\ pc[r] = "idle"
    /\ status[s] = "completed" /\ messages[s] # <<>> /\ again[s] < MaxAgain
    /\ Goto(r, "reevaluate") /\ Keep(r, s, messages[s], "none")
    /\ UNCHANGED <<candidate, rows, inputs, ledger, job, history>>

AgainSave(r) ==
    /\ pc[r] = "reevaluate"
    /\ SaveReport(r) /\ Goto(r, "recharge")
    /\ UNCHANGED <<candidate, status, messages, inputs, ledger, locals, job, history>>

AgainCharge(r) ==
    /\ pc[r] = "recharge"
    /\ again' = [again EXCEPT ![on[r]] = @ + 1]
    /\ End(r)
    /\ UNCHANGED <<candidate, rows, inputs, automatic, job, history>>

AgainFails(r) ==
    /\ pc[r] \in {"reevaluate", "recharge"}
    /\ End(r)
    /\ UNCHANGED <<candidate, rows, inputs, ledger, job, history>>

-----------------------------------------------------------------------------
(* Stage and outcome.                                                      *)

\* POST withdraw: the session, unless it was read as completed, is expired by
\* its id; then the candidate is read, and closed if it is open.
WithdrawRead(r, s) ==
    /\ pc[r] = "idle"
    /\ status[s] \notin {"unissued", "completed"} /\ revived[s] < MaxRevived
    /\ Goto(r, "expire") /\ Keep(r, s, <<>>, "none")
    /\ UNCHANGED <<candidate, rows, inputs, ledger, job, history>>

WithdrawExpire(r) ==
    /\ pc[r] = "expire"
    /\ status' = [status EXCEPT ![on[r]] = "expired"]
    /\ TakesBack(on[r])
    /\ Goto(r, "withdraw")
    /\ UNCHANGED <<candidate, messages, report, inputs, ledger, locals, job, saves>>

WithdrawLook(r) ==
    /\ pc[r] = "withdraw"
    /\ IF outcome # "none" THEN End(r) ELSE Goto(r, "outcome") /\ UNCHANGED locals
    /\ UNCHANGED <<candidate, rows, inputs, ledger, job, history>>

WithdrawDecide(r) ==
    /\ pc[r] = "outcome"
    /\ outcome' = "withdrawn" /\ reason' = "candidate_withdrew"
    /\ Goto(r, "cleanup")
    /\ UNCHANGED <<stage, rows, inputs, ledger, locals, job, history>>

\* PATCH stage with an outcome: read, then written by its id.
DecideRead(r) ==
    /\ pc[r] = "idle"
    /\ Goto(r, "decide") /\ Keep(r, Nobody, <<>>, outcome)
    /\ UNCHANGED <<candidate, rows, inputs, ledger, job, history>>

DecideWrite(r) ==
    /\ pc[r] = "decide"
    /\ \E o \in {"hired", "rejected"} \ {read[r]} : outcome' = o
    /\ reason' = "chosen"
    /\ IF read[r] = "none" THEN Goto(r, "cleanup") /\ UNCHANGED locals ELSE End(r)
    /\ UNCHANGED <<stage, rows, inputs, ledger, job, history>>

\* cleanupOnClose: links that are still open end.
CloseLinks == status' = [s \in Session |-> IF s \in Live THEN "expired" ELSE status[s]]

Cleanup(r) ==
    /\ pc[r] = "cleanup"
    /\ CloseLinks /\ End(r)
    /\ UNCHANGED <<candidate, messages, report, inputs, ledger, job, history>>

\* PATCH stage with a stage.
MoveStage(t) ==
    /\ stage # t
    /\ stage' = t
    /\ UNCHANGED <<outcome, reason, rows, inputs, ledger, pc, locals, job, history>>

\* POST reopen: a guarded UPDATE; links do not come back.
Reopen ==
    /\ outcome # "none"
    /\ outcome' = "none" /\ reason' = "none"
    /\ UNCHANGED <<stage, rows, inputs, ledger, pc, locals, job, history>>

-----------------------------------------------------------------------------
(* The cron job: expireInterviewSessions.                                  *)

\* Mutant: an interview that was begun never lapses.
OverduePending(state) == {s \in Session : status[s] = "pending" /\ lapsed[s] /\ state \in Status}
Overdue(state) == {s \in Session : status[s] = state /\ lapsed[s]}

ExpirePending ==
    /\ cron = "idle" /\ \E s \in Live : lapsed[s]
    /\ ended' = Overdue("pending")
    /\ status' = [s \in Session |-> IF s \in ended' THEN "expired" ELSE status[s]]
    /\ cron' = "started"
    /\ UNCHANGED <<candidate, messages, report, inputs, ledger, pc, locals, history>>

ExpireStarted ==
    /\ cron = "started"
    /\ status' = [s \in Session |-> IF s \in Overdue("in_progress")
                                    THEN "expired" ELSE status[s]]
    /\ cron' = IF ended = {} THEN "idle" ELSE "select"
    /\ UNCHANGED <<candidate, messages, report, inputs, ledger, pc, locals, ended, history>>

\* The candidates of the ended links that are open.
SelectOpen ==
    /\ cron = "select"
    /\ cron' = IF outcome = "none" THEN "reject" ELSE "idle"
    /\ ended' = {}
    /\ UNCHANGED <<candidate, rows, inputs, ledger, pc, locals, history>>

RejectAllowed == outcome = "none"

\* The UPDATE repeats the condition, the cleanup does not.
RejectExpired ==
    /\ cron = "reject"
    /\ IF RejectAllowed
       THEN outcome' = "rejected" /\ reason' = "ai_link_expired"
       ELSE UNCHANGED <<outcome, reason>>
    /\ cron' = "cleanup"
    /\ UNCHANGED <<stage, rows, inputs, ledger, pc, locals, ended, history>>

CleanupExpired ==
    /\ cron = "cleanup"
    /\ CloseLinks /\ cron' = "idle"
    /\ UNCHANGED <<candidate, messages, report, inputs, ledger, pc, locals, ended, history>>

-----------------------------------------------------------------------------
(* Kills.                                                                  *)

Die(r) ==
    /\ pc[r] # "idle"
    /\ End(r)
    /\ UNCHANGED <<candidate, rows, inputs, ledger, job, history>>

CronDies ==
    /\ cron # "idle"
    /\ cron' = "idle" /\ ended' = {}
    /\ UNCHANGED <<candidate, rows, inputs, ledger, pc, locals, history>>

-----------------------------------------------------------------------------
Begin(r) ==
    \/ \E s \in Session : \/ IssueCheck(r, s) \/ ChatRead(r, s) \/ FinishRead(r, s)
                          \/ AgainRead(r, s)  \/ WithdrawRead(r, s)
    \/ DecideRead(r)

Continue(r) ==
    \/ IssueInsert(r) \/ IssueAdvance(r) \/ IssueMailed(r) \/ MailFails(r)
    \/ ChatGate(r) \/ ChatStart(r) \/ ChatSave(r)
    \/ FinishLook(r) \/ FinishClaim(r) \/ FinishPromote(r) \/ FinishSilent(r)
    \/ FinishEvaluate(r) \/ FinishFails(r) \/ FinishCharge(r)
    \/ AgainSave(r) \/ AgainCharge(r) \/ AgainFails(r)
    \/ WithdrawExpire(r) \/ WithdrawLook(r) \/ WithdrawDecide(r)
    \/ DecideWrite(r) \/ Cleanup(r)

CronStep ==
    \/ ExpirePending \/ ExpireStarted \/ SelectOpen \/ RejectExpired \/ CleanupExpired

Next ==
    \/ \E r \in Request : Begin(r) \/ Continue(r) \/ Die(r)
    \/ \E s \in Session : Lapse(s) \/ GiveConsent(s) \/ Answer(s)
    \/ \E t \in Stage : MoveStage(t)
    \/ Reopen \/ CronStep \/ CronDies

Spec == Init /\ [][Next]_vars
\* The cron job runs every hour (vercel.json), and not every run is killed
\* between its first two statements.
FairSpec == Spec /\ WF_vars(CronStep) /\ SF_vars(ExpireStarted)

-----------------------------------------------------------------------------
(* Properties.                                                             *)

\* Types, and the limit of turns of a conversation.
TypeOK ==
    /\ stage \in Stage /\ outcome \in Outcome
    /\ reason \in {"none", "chosen", "candidate_withdrew", "ai_link_expired"}
    /\ status \in [Session -> Status]
    /\ lapsed \in [Session -> BOOLEAN] /\ consent \in [Session -> BOOLEAN]
    /\ answered \in [Session -> BOOLEAN]
    /\ messages \in [Session -> Seq(Nat)] /\ report \in [Session -> Seq(Nat)]
    /\ \A s \in Session : Len(messages[s]) <= MaxTurns
    /\ automatic \in [Session -> Nat] /\ again \in [Session -> Nat]
    /\ pc \in [Request -> Label] /\ on \in [Request -> Session]
    /\ seen \in [Request -> Seq(Nat)] /\ read \in [Request -> Stage \cup Outcome \cup Status]
    /\ cron \in CronLabel /\ ended \subseteq Session
    /\ saves \in [Session -> Nat] /\ revived \in [Session -> Nat]

\* A saved turn is never lost: whatever tabs and retries run at once, a
\* conversation is only ever extended (chat/route.ts, optimistic lock).
ConversationGrows ==
    [][\A s \in Session : IsPrefix(messages[s], messages'[s])]_vars

\* However many requests complete an interview, it is charged once, unless a
\* request that had read the session before sets it back: a first turn to in
\* progress, a withdrawal to expired.
AutomaticOnce == \A s \in Session : automatic[s] <= 1 + revived[s]

\* What the stored evaluation is about was said in this interview, by an
\* applicant who had consented and, where there are tests, taken them.
ReportOfConversation ==
    \A s \in Session : report[s] # <<>> =>
        IsPrefix(report[s], messages[s]) /\ consent[s] /\ (Tested => answered[s])

\* No link stays usable for ever: once its validity is over it ends, although
\* a late first turn may set it back once more.
LinksEnd == \A s \in Session : lapsed[s] ~> s \notin Live

\* "The AI interview was not started and has expired: automatic rejection"
\* (expire-sessions.ts:56): a candidate whom the cron job rejects has no
\* evaluated interview.
EvaluatedNotRejected ==
    reason = "ai_link_expired" => \A s \in Session : report[s] = <<>>
=============================================================================
