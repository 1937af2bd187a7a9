------------------------- MODULE CandidateDecisions -------------------------
(***************************************************************************)
(* Decisions on the candidates of one posting and what follows from them:  *)
(* the notice (by mail at once, by the evening drain, or by telephone),    *)
(* the purge of files, the closing of the posting, which rejects whoever   *)
(* is still open, and the reopening of a candidate.  Every await of a      *)
(* request, of the closing and of the drain is a step; any of them may be  *)
(* killed after any step.  Identity reports, which only take candidates    *)
(* off the lists, candidates without an address, and the deletion of old   *)
(* files by the daily job (JobPostings has it) are left out.               *)
(***************************************************************************)
EXTENDS Naturals, SequencesExt

CONSTANTS
    Candidate,
    Request,     \* invocations of the recruiters alive at once
    MaxMails,    \* MAX_DECISION_EMAILS_PER_CANDIDATE, 10 in the code
    SoftCap,     \* mails the closing may send at once: REJECTION_DAYTIME_SOFT_CAP
    Budget       \* mails the drain may send a day: MAIL_DAILY_BUDGET

Outcome == {"none", "hired", "rejected", "withdrawn"}
Counted(n) == IF n < MaxMails THEN n + 1 ELSE n
Told    == {"hired", "rejected"}      \* outcomes there is a mail for
Label   == {"idle", "write", "send", "count", "purge", "clear", "reopen", "mark"}
CloseLabel == {"idle", "reject", "purge", "clear", "shut", "mails", "count"}
DrainLabel == {"idle", "send", "count"}

ASSUME DecisionAssumption ==
    /\ IsFiniteSet(Candidate) /\ Candidate # {}
    /\ MaxMails \in Nat \ {0} /\ SoftCap \in Nat
    /\ Budget \in Nat \ {0}

VARIABLES
    outcome,    \* of each candidate
    before,     \* decided_at of the closed ones: <<c, d>> if c was decided before d
    files,      \* the résumé and its files are there
    sent,       \* decision_email_count, counted as far as MaxMails
    queued,     \* decision_notify_queued
    external,   \* decision_notified_externally_at is set
    job,        \* the posting: active or closed
    pc,         \* of each request: its label,
    on,         \*   its candidate,
    read,       \*   the outcome it has read,
    want,       \*   the outcome it writes or tells,
    notify,     \*   whether a mail is asked for, and whether one may be sent
    closing,    \* closeJob: its label,
    targets,    \*   the candidates it has selected,
    todo,       \*   those left in the loop it is in,
    cap,        \*   mails it may still send at once
    drain,      \* the drain: its label
    list,       \*   and the candidates left
    overtaken,  \* history: changed while a sender had selected them
    misled      \* history: told what is not so, or again, but not overtaken

candidates == <<outcome, before, files, sent, queued, external>>
request    == <<pc, on, read, want, notify>>
closer     == <<closing, targets, todo, cap>>
drainer    == <<drain, list>>
history    == <<overtaken, misled>>
vars == <<candidates, job, request, closer, drainer, history>>

Nobody == CHOOSE c \in Candidate : TRUE
Goto(r, l) == pc' = [pc EXCEPT ![r] = l]
End(r) ==
    /\ Goto(r, "idle")
    /\ on' = [on EXCEPT ![r] = Nobody] /\ notify' = [notify EXCEPT ![r] = "no"]
    /\ read' = [read EXCEPT ![r] = "none"] /\ want' = [want EXCEPT ![r] = "none"]
Keep(r, c, old, new, mail) ==
    /\ on' = [on EXCEPT ![r] = c] /\ notify' = [notify EXCEPT ![r] = mail]
    /\ read' = [read EXCEPT ![r] = old] /\ want' = [want EXCEPT ![r] = new]

Init ==
    /\ outcome = [c \in Candidate |-> "none"] /\ before = {}
    /\ files = [c \in Candidate |-> TRUE]
    /\ sent = [c \in Candidate |-> 0]
    /\ queued = [c \in Candidate |-> FALSE] /\ external = [c \in Candidate |-> FALSE]
    /\ job = "active"
    /\ pc = [r \in Request |-> "idle"] /\ on = [r \in Request |-> Nobody]
    /\ read = [r \in Request |-> "none"] /\ want = [r \in Request |-> "none"]
    /\ notify = [r \in Request |-> "no"]
    /\ closing = "idle" /\ targets = <<>> /\ todo = <<>> /\ cap = 0
    /\ drain = "idle" /\ list = <<>>
    /\ overtaken = {} /\ misled = {}

-----------------------------------------------------------------------------
(* History: who is told, and what was changed behind a sender's back.      *)

HeldByRequest(c, self) == \E r \in Request \ self : pc[r] = "send" /\ on[r] = c
HeldByCloser(c) ==
    /\ closing # "idle" /\ c \in ToSet(targets)
    /\ closing = "reject" => c \notin ToSet(todo)
    /\ closing \in {"mails", "count"} => c \in ToSet(todo)
HeldByDrain(c) == c \in ToSet(list)

\* A candidate is changed by a request, or by the closing.
Changed(self, c) ==
    overtaken' = IF HeldByRequest(c, self) \/ HeldByCloser(c) \/ HeldByDrain(c)
                 THEN overtaken \cup {c} ELSE overtaken
\* A mail that tells o leaves for c.
Tell(c, o, again) ==
    misled' = IF (outcome[c] # o \/ again) /\ c \notin overtaken
              THEN misled \cup {c} ELSE misled

Closed == {c \in Candidate : outcome[c] # "none"}
Undecided(c) == {p \in before : c \notin {p[1], p[2]}}
Decide(c, o) ==
    /\ outcome' = [outcome EXCEPT ![c] = o]
    /\ before' = Undecided(c) \cup {<<d, c>> : d \in Closed \ {c}}

-----------------------------------------------------------------------------
(* A decision on one candidate: PATCH stage.                               *)

Asked(c, o, mail) ==
    IF ~mail THEN "no" ELSE IF o \in Told /\ sent[c] < MaxMails THEN "mail" ELSE "full"

DecideRead(r, c) ==
    /\ pc[r] = "idle"
    /\ \E o \in Outcome \ {"none", outcome[c]}, mail \in BOOLEAN :
          Keep(r, c, outcome[c], o, Asked(c, o, mail))
    /\ Goto(r, "write")
    /\ UNCHANGED <<candidates, job, closer, drainer, history>>

\* The UPDATE names the candidate only.
DecideWrite(r) ==
    /\ pc[r] = "write"
    /\ Decide(on[r], want[r]) /\ Changed({r}, on[r])
    /\ IF notify[r] # "no" THEN Goto(r, "send") /\ UNCHANGED <<on, read, want, notify>>
       ELSE IF read[r] = "none" THEN Goto(r, "purge") /\ UNCHANGED <<on, read, want, notify>>
       ELSE End(r)
    /\ UNCHANGED <<files, sent, queued, external, job, closer, drainer, misled>>

\* POST decision-mail: the outcome that was read is told.
MailRead(r, c) ==
    /\ pc[r] = "idle" /\ outcome[c] \in Told /\ sent[c] < MaxMails
    /\ Keep(r, c, "resend", outcome[c], "mail")
    /\ Goto(r, "send")
    /\ UNCHANGED <<candidates, job, closer, drainer, history>>

Send(r) ==
    /\ pc[r] = "send" /\ notify[r] = "mail"
    /\ Tell(on[r], want[r], FALSE) /\ Goto(r, "count")
    /\ UNCHANGED <<candidates, job, on, read, want, notify, closer, drainer, overtaken>>

\* No tokens, too many mails, no mail server or an error: the files stay.
SendFails(r) ==
    /\ pc[r] \in {"send", "count"} /\ End(r)
    /\ UNCHANGED <<candidates, job, closer, drainer, history>>

\* A decision counts the mail; the mail that is sent again also leaves the queue.
Count(r) ==
    /\ pc[r] = "count"
    /\ sent' = [sent EXCEPT ![on[r]] = Counted(@)]
    /\ queued' = [queued EXCEPT ![on[r]] = @ /\ read[r] # "resend"]
    /\ IF read[r] = "none" THEN Goto(r, "purge") /\ UNCHANGED <<on, read, want, notify>>
                           ELSE End(r)
    /\ UNCHANGED <<outcome, before, files, external, job, closer, drainer, history>>

Purgeable(c) == outcome[c] # "hired"

\* purgeOnDecision: the outcome is read again, then the files are deleted.
PurgeLook(r) ==
    /\ pc[r] = "purge"
    /\ IF Purgeable(on[r]) THEN Goto(r, "clear") /\ UNCHANGED <<on, read, want, notify>>
                           ELSE End(r)
    /\ UNCHANGED <<candidates, job, closer, drainer, history>>

PurgeClear(r) ==
    /\ pc[r] = "clear"
    /\ files' = [files EXCEPT ![on[r]] = FALSE]
    /\ End(r)
    /\ UNCHANGED <<outcome, before, sent, queued, external, job, closer, drainer, history>>

-----------------------------------------------------------------------------
(* Reopening, and notices given by telephone.                              *)

ReopenRead(r, c) ==
    /\ pc[r] = "idle" /\ outcome[c] # "none"
    /\ Keep(r, c, outcome[c], "none", "no") /\ Goto(r, "reopen")
    /\ UNCHANGED <<candidates, job, closer, drainer, history>>

\* The UPDATE repeats the outcome that was read.
ReopenWrite(r) ==
    /\ pc[r] = "reopen"
    /\ LET c == on[r] IN
       IF outcome[c] = read[r]
       THEN /\ outcome' = [outcome EXCEPT ![c] = "none"] /\ before' = Undecided(c)
            /\ queued' = [queued EXCEPT ![c] = FALSE]
            /\ external' = [external EXCEPT ![c] = FALSE]
            /\ Changed({r}, c)
       ELSE UNCHANGED <<outcome, before, queued, external, overtaken>>
    /\ End(r)
    /\ UNCHANGED <<files, sent, job, closer, drainer, misled>>

MarkRead(r, c) ==
    /\ pc[r] = "idle" /\ outcome[c] \in Told /\ ~external[c]
    /\ Keep(r, c, outcome[c], "none", "no") /\ Goto(r, "mark")
    /\ UNCHANGED <<candidates, job, closer, drainer, history>>

MarkWrite(r) ==
    /\ pc[r] = "mark"
    /\ external' = [external EXCEPT ![on[r]] = TRUE]
    /\ queued' = [queued EXCEPT ![on[r]] = FALSE]
    /\ Changed({r}, on[r]) /\ End(r)
    /\ UNCHANGED <<outcome, before, files, sent, job, closer, drainer, misled>>

\* DELETE: the queue does not come back.
Unmark(c) ==
    /\ external[c]
    /\ external' = [external EXCEPT ![c] = FALSE]
    /\ UNCHANGED <<outcome, before, files, sent, queued, job, request, closer, drainer, history>>

-----------------------------------------------------------------------------
(* The closing of the posting: closeJob.                                   *)

CloseSelect ==
    /\ closing = "idle" /\ job = "active"
    /\ targets' = SetToSeq({c \in Candidate : outcome[c] = "none"})
    /\ todo' = targets' /\ closing' = "reject"
    /\ UNCHANGED <<candidates, job, request, cap, drainer, history>>

\* Each is rejected by its id, whatever it has become; then the loop of purges.
CloseReject ==
    /\ closing = "reject" /\ todo # <<>>
    /\ Decide(Head(todo), "rejected")
    /\ Changed({}, Head(todo))
    /\ IF Len(todo) = 1 THEN todo' = targets /\ closing' = "purge"
                        ELSE todo' = Tail(todo) /\ UNCHANGED closing
    /\ UNCHANGED <<files, sent, queued, external, job, request, targets, cap, drainer, misled>>

CloseNext ==
    IF Len(todo) = 1 THEN todo' = <<>> /\ closing' = "shut"
                     ELSE todo' = Tail(todo) /\ closing' = "purge"

ClosePurge ==
    /\ closing = "purge"
    /\ IF Purgeable(Head(todo)) THEN closing' = "clear" /\ UNCHANGED todo ELSE CloseNext
    /\ UNCHANGED <<candidates, job, request, targets, cap, drainer, history>>

CloseClear ==
    /\ closing = "clear"
    /\ files' = [files EXCEPT ![Head(todo)] = FALSE] /\ CloseNext
    /\ UNCHANGED <<outcome, before, sent, queued, external, job, request, targets, cap,
                   drainer, history>>

\* The posting is closed; if mails are asked for they are sent after the reply.
CloseShut ==
    /\ closing = "shut" \/ (closing = "reject" /\ todo = <<>>)
    /\ job' = "closed"
    /\ \/ /\ targets # <<>> /\ closing' = "mails" /\ todo' = targets
          /\ cap' \in 0..SoftCap /\ UNCHANGED targets
       \/ closing' = "idle" /\ todo' = <<>> /\ targets' = <<>> /\ cap' = 0
    /\ UNCHANGED <<candidates, request, drainer, history>>

MailsNext ==
    IF Len(todo) = 1 THEN closing' = "idle" /\ todo' = <<>> /\ targets' = <<>>
                     ELSE closing' = "mails" /\ todo' = Tail(todo) /\ UNCHANGED targets

\* Past the cap, or after any error, the drain has to do it.
CloseQueue ==
    /\ closing \in {"mails", "count"}
    /\ queued' = [queued EXCEPT ![Head(todo)] = TRUE] \/ UNCHANGED queued
    /\ MailsNext /\ cap' = IF closing' = "idle" THEN 0 ELSE cap
    /\ UNCHANGED <<outcome, before, files, sent, external, job, request, drainer,
                   history>>

CloseSend ==
    /\ closing = "mails" /\ cap > 0
    /\ Tell(Head(todo), "rejected", FALSE)
    /\ closing' = "count"
    /\ UNCHANGED <<candidates, job, request, targets, todo, cap, drainer, overtaken>>

CloseCount ==
    /\ closing = "count"
    /\ sent' = [sent EXCEPT ![Head(todo)] = Counted(@)]
    /\ queued' = [queued EXCEPT ![Head(todo)] = FALSE]
    /\ MailsNext /\ cap' = IF closing' = "idle" THEN 0 ELSE cap - 1
    /\ UNCHANGED <<outcome, before, files, external, job, request, drainer, history>>

\* POST reopen of the posting: candidates stay as they are.
ReopenJob ==
    /\ job = "closed" /\ closing = "idle"
    /\ job' = "active"
    /\ UNCHANGED <<candidates, request, closer, drainer, history>>

-----------------------------------------------------------------------------
(* The evening drain: drainQueuedDecisions.                                *)

\* Mutant: the drain does not look at the outcome again.
AnyQueued(c) == queued[c] /\ ~external[c] /\ sent[c] < MaxMails
Due(c) == queued[c] /\ outcome[c] = "rejected" /\ ~external[c] /\ sent[c] < MaxMails

\* Mutant: the drain serves closed postings only.
DrainClosed ==
    /\ drain = "idle" /\ job = "closed"
    /\ \E c \in Candidate : Due(c) /\ list' = <<c>>
    /\ drain' = "send"
    /\ UNCHANGED <<candidates, job, request, closer, history>>

\* The oldest decisions first, as many as the budget of the day allows.
DrainSelect ==
    /\ drain = "idle"
    /\ LET due == {c \in Candidate : Due(c)} IN
       \E n \in 1..Budget : \E oldest \in [1..n -> due] :
          /\ \A i, j \in 1..n : i < j => <<oldest[i], oldest[j]>> \in before
          /\ \A c \in due \ ToSet(oldest) : <<oldest[n], c>> \in before
          /\ list' = oldest
    /\ drain' = "send"
    /\ UNCHANGED <<candidates, job, request, closer, history>>

DrainNext == list' = Tail(list) /\ drain' = IF Len(list) = 1 THEN "idle" ELSE "send"

DrainSend ==
    /\ drain = "send"
    /\ Tell(Head(list), "rejected", external[Head(list)])
    /\ drain' = "count"
    /\ UNCHANGED <<candidates, job, request, closer, list, overtaken>>

\* An error: the candidate stays in the queue.
DrainFails ==
    /\ drain \in {"send", "count"} /\ DrainNext
    /\ UNCHANGED <<candidates, job, request, closer, history>>

DrainCount ==
    /\ drain = "count"
    /\ sent' = [sent EXCEPT ![Head(list)] = Counted(@)]
    /\ queued' = [queued EXCEPT ![Head(list)] = FALSE]
    /\ DrainNext
    /\ UNCHANGED <<outcome, before, files, external, job, request, closer, history>>

-----------------------------------------------------------------------------
(* Kills.                                                                  *)

Die(r) ==
    /\ pc[r] # "idle" /\ End(r)
    /\ UNCHANGED <<candidates, job, closer, drainer, history>>

CloserDies ==
    /\ closing # "idle"
    /\ closing' = "idle" /\ targets' = <<>> /\ todo' = <<>> /\ cap' = 0
    /\ UNCHANGED <<candidates, job, request, drainer, history>>

DrainDies ==
    /\ drain # "idle"
    /\ drain' = "idle" /\ list' = <<>>
    /\ UNCHANGED <<candidates, job, request, closer, history>>

-----------------------------------------------------------------------------
RecruiterStep(r) ==
    \/ \E c \in Candidate :
          DecideRead(r, c) \/ MailRead(r, c) \/ ReopenRead(r, c) \/ MarkRead(r, c)
    \/ DecideWrite(r) \/ Send(r) \/ SendFails(r) \/ Count(r) \/ PurgeLook(r)
    \/ PurgeClear(r) \/ ReopenWrite(r) \/ MarkWrite(r)

CloseStep ==
    \/ CloseSelect \/ CloseReject \/ ClosePurge \/ CloseClear \/ CloseShut
    \/ CloseQueue \/ CloseSend \/ CloseCount

DrainStep == DrainSelect \/ DrainSend \/ DrainFails \/ DrainCount

Next ==
    \/ \E r \in Request : RecruiterStep(r) \/ Die(r)
    \/ \E c \in Candidate : Unmark(c)
    \/ CloseStep \/ CloserDies \/ ReopenJob
    \/ DrainStep \/ DrainDies

Spec == Init /\ [][Next]_vars
\* The drain runs every day (vercel.json); not every mail it sends to a
\* candidate fails and not every run is killed before it has counted it.
FairSpec ==
    /\ Spec /\ WF_vars(DrainSelect)
    /\ \A c \in Candidate :
          /\ SF_vars(list # <<>> /\ Head(list) = c /\ DrainSend)
          /\ SF_vars(list # <<>> /\ Head(list) = c /\ DrainCount)

-----------------------------------------------------------------------------
(* Properties.                                                             *)

TypeOK ==
    /\ outcome \in [Candidate -> Outcome]
    /\ before \subseteq Closed \X Closed
    /\ \A c \in Closed : <<c, c>> \notin before
    /\ \A c, d \in Closed : c # d => (<<c, d>> \in before <=> <<d, c>> \notin before)
    /\ \A c, d, e \in Closed : <<c, d>> \in before /\ <<d, e>> \in before => <<c, e>> \in before
    /\ files \in [Candidate -> BOOLEAN] /\ sent \in [Candidate -> 0..MaxMails]
    /\ queued \in [Candidate -> BOOLEAN] /\ external \in [Candidate -> BOOLEAN]
    /\ job \in {"active", "closed"}
    /\ pc \in [Request -> Label] /\ on \in [Request -> Candidate]
    /\ read \in [Request -> Outcome \cup {"resend"}] /\ want \in [Request -> Outcome]
    /\ notify \in [Request -> {"no", "mail", "full"}]
    /\ closing \in CloseLabel /\ targets \in Seq(Candidate) /\ todo \in Seq(Candidate)
    /\ cap \in 0..SoftCap
    /\ drain \in DrainLabel /\ list \in Seq(Candidate)
    /\ overtaken \subseteq Candidate /\ misled \subseteq Candidate

\* What a candidate is told by mail is what was decided: a mail that says something
\* else, or one of the drain that repeats what was marked as told by telephone, is
\* only possible if the candidate was changed after the sender had selected them.
NoticeIsCurrent == misled = {}

\* Nobody who waits for the evening drain is forgotten, however many wait, and
\* whatever fails or is killed: the mail is sent, or the decision taken back, or
\* told by telephone, or the limit of the candidate's mails is reached.
QueuedAreTold == \A c \in Candidate : Due(c) ~> ~Due(c)

\* "Candidates in progress (outcome=null) are rejected in bulk"
\* (job-lifecycle.ts:328): the closing overwrites nobody's decision.
ClosingKeepsDecisions ==
    [][\A c \in Candidate :
        closing = "reject" /\ outcome'[c] # outcome[c] /\ pc' = pc => outcome[c] = "none"]_vars

\* "The résumé, the attachments and the photo of the hired are kept as they are"
\* (candidate-stage.ts:176): no step deletes them, also not the purge that had
\* looked before the candidate was hired.
HiredKeepFiles == [][\A c \in Candidate : files[c] /\ ~files'[c] => outcome[c] # "hired"]_vars
=============================================================================
