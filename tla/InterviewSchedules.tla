------------------------- MODULE InterviewSchedules -------------------------
(***************************************************************************)
(* Appointments for the first interview with people of one candidate:      *)
(* proposals, the candidate's answers (a choice, a counter-proposal, the   *)
(* withdrawal), the recruiter's confirmation and direct registration, the  *)
(* decision that closes the candidate, their reopening, and the cron job   *)
(* that rejects whose proposal, or whose link to the interview with the    *)
(* model, has lapsed.  Every UPDATE, INSERT and notice of a request is a   *)
(* step, and a request may be killed after any of them.  Times, the online *)
(* meeting and interviews that are already over are left out; the second   *)
(* round differs in that it leaves the stage alone.                        *)
(***************************************************************************)
EXTENDS Naturals, FiniteSets

CONSTANTS
    Schedule,    \* rows that may come to exist
    Recruiter,   \* invocations alive at once: of the recruiters,
    Applicant,   \*   and through the candidate's links
    Audience,    \* how the people of an interview are reached
    Faults,      \* bound: whether messages get lost and requests are killed
    Overtaking   \* bound: whether a reopening may overtake a closing's announcement

Caller == Recruiter \cup Applicant

Status == {"none", "pending", "counter_proposed", "selected", "withdrawn", "cancelled"}
Kind   == {"answer", "withdraw", "propose", "manual", "decide"}
ScheduleLabel ==
    {"idle", "claim", "counter", "withdraw", "look", "prior", "cancel", "insert", "stage",
     "tell", "close", "find", "notice", "clean"}

ASSUME ScheduleAssumption ==
    Schedule # {} /\ Audience \subseteq {"mail", "share", "phone"} /\ Faults \in BOOLEAN
    /\ Overtaking \in BOOLEAN

VARIABLES
    status,     \* of each row; "none" before it is inserted
    lapsed,     \* rows whose expires_at has passed
    stage,      \* of the candidate: first, up to round1_waiting, or passed
    candidateOutcome, \* none or closed
    label,      \* of each request: where it is,
    kind,       \*   what it does,
    at,         \*   the row it is about,
    prior,      \*   the confirmed rows it has read, whose cancelling it announces
    cron,       \* the hourly job: its label
    lapsing,    \*   and the rows it has selected
    confirmed,  \* history: how often each row became selected, as far as 2
    revived,    \* history: rows a counter-proposal took back from an end
    reopenedEarly, \* history: a reopening came before what the closing announces
    calledOff   \* history: <<audience, row>>, told last that it is off,
                \*   of rows that no reopening has reinstated since

rows         == <<status, lapsed, stage, candidateOutcome>>
callerVars   == <<label, kind, at, prior>>
hourly       == <<cron, lapsing>>
past         == <<confirmed, revived, reopenedEarly>>
scheduleVars == <<rows, callerVars, hourly, past, calledOff>>

Open(s) == status[s] \in {"pending", "counter_proposed"}
Fresh == {s \in Schedule : status[s] = "none"}
Chosen == {s \in Schedule : status[s] = "selected"}
NoRow == CHOOSE s \in Schedule : TRUE

\* isScheduleSuperseded.
Superseded == candidateOutcome # "none" \/ stage = "passed"

Enter(r, l) == label' = [label EXCEPT ![r] = l]
Start(r, k, s, l) ==
    /\ Enter(r, l)
    /\ kind' = [kind EXCEPT ![r] = k] /\ at' = [at EXCEPT ![r] = s]
Leave(r) ==
    /\ Enter(r, "idle")
    /\ kind' = [kind EXCEPT ![r] = "answer"] /\ at' = [at EXCEPT ![r] = NoRow]
    /\ prior' = [prior EXCEPT ![r] = {}]
Step(r, l) == Enter(r, l) /\ UNCHANGED <<kind, at, prior>>

ScheduleInit ==
    /\ status = [s \in Schedule |-> "none"] /\ lapsed = {}
    /\ stage = "first" /\ candidateOutcome = "none"
    /\ label = [r \in Caller |-> "idle"] /\ kind = [r \in Caller |-> "answer"]
    /\ at = [r \in Caller |-> NoRow] /\ prior = [r \in Caller |-> {}]
    /\ cron = "idle" /\ lapsing = {}
    /\ confirmed = [s \in Schedule |-> 0]
    /\ revived = {} /\ reopenedEarly = FALSE /\ calledOff = {}

-----------------------------------------------------------------------------
(* Messages.                                                               *)

\* Those whom the messages for A reach; a failure is logged and swallowed.
Delivered(A) == IF Faults THEN SUBSET A ELSE {A}

\* A confirmation goes to everybody; of a withdrawal everybody hears.  Of any
\* other cancelling the interviewers get no mail: only those it was shared with
\* and the verified telephones hear, of a registration's the telephones alone.
Hearers(k) ==
    CASE k = "withdraw" -> Audience
      [] k = "manual" -> Audience \cap {"phone"}
      [] OTHER -> Audience \ {"mail"}

Confirms(s) == confirmed' = [confirmed EXCEPT ![s] = IF @ < 2 THEN @ + 1 ELSE 2]

-----------------------------------------------------------------------------
(* The candidate chooses a time, or the recruiter confirms one.            *)

SelectRead(r, s) ==
    /\ label[r] = "idle" /\ Open(s) /\ s \notin lapsed /\ ~Superseded
    /\ Start(r, "answer", s, "claim")
    /\ UNCHANGED <<rows, prior, hourly, past, calledOff>>

\* Neither the validity nor the candidate is looked at.
ConfirmRead(r, s) ==
    /\ label[r] = "idle" /\ Open(s)
    /\ Start(r, "answer", s, "claim")
    /\ UNCHANGED <<rows, prior, hourly, past, calledOff>>

\* Mutant: a chosen row can be claimed.
EvenChosen(s) == status[s] # "none"
ClaimAllowed(s) == Open(s)

Claim(r) ==
    /\ label[r] = "claim"
    /\ IF ClaimAllowed(at[r])
       THEN /\ status' = [status EXCEPT ![at[r]] = "selected"]
            /\ Confirms(at[r]) /\ Step(r, "stage")
       ELSE Leave(r) /\ UNCHANGED <<status, confirmed>>
    /\ UNCHANGED <<lapsed, stage, candidateOutcome, hourly, revived, reopenedEarly, calledOff>>

\* The UPDATE of the stage (round1_scheduling or round1_waiting) names the
\* candidate only.
SetStage(r) ==
    /\ label[r] = "stage"
    /\ stage' = "first"
    /\ IF kind[r] = "propose" THEN Leave(r) ELSE Step(r, "tell")
    /\ UNCHANGED <<status, lapsed, candidateOutcome, hourly, past, calledOff>>

\* The confirmation goes out.
Invite(r) ==
    /\ label[r] = "tell"
    /\ \E G \in Delivered(Audience \X {at[r]}) : calledOff' = calledOff \ G
    /\ Leave(r)
    /\ UNCHANGED <<rows, hourly, past>>

-----------------------------------------------------------------------------
(* The candidate proposes other times.                                     *)

CounterRead(r, s) ==
    /\ label[r] = "idle" /\ Open(s) /\ s \notin lapsed /\ ~Superseded
    /\ Start(r, "answer", s, "counter")
    /\ UNCHANGED <<rows, prior, hourly, past, calledOff>>

\* The UPDATE names the row only, whatever has become of it.
CounterWrite(r) ==
    /\ label[r] = "counter"
    /\ status' = [status EXCEPT ![at[r]] = "counter_proposed"]
    /\ revived' = IF Open(at[r]) THEN revived ELSE revived \cup {at[r]}
    /\ Leave(r)
    /\ UNCHANGED <<lapsed, stage, candidateOutcome, hourly, confirmed, reopenedEarly, calledOff>>

-----------------------------------------------------------------------------
(* The candidate withdraws the application through the link.               *)

WithdrawRead(r, s) ==
    /\ label[r] = "idle" /\ status[s] \notin {"none", "withdrawn"}
    /\ s \in lapsed => status[s] = "selected"
    /\ Start(r, "withdraw", s, "withdraw")
    /\ prior' = [prior EXCEPT ![r] = IF status[s] = "selected" THEN {s} ELSE {}]
    /\ UNCHANGED <<rows, hourly, past, calledOff>>

WithdrawWrite(r) ==
    /\ label[r] = "withdraw"
    /\ status' = [status EXCEPT ![at[r]] = "withdrawn"]
    /\ Step(r, "look")
    /\ UNCHANGED <<lapsed, stage, candidateOutcome, hourly, past, calledOff>>

\* Of a candidate who is closed already the closing has told.
WithdrawLook(r) ==
    /\ label[r] = "look"
    /\ IF candidateOutcome = "none" THEN Step(r, "close") ELSE Leave(r)
    /\ UNCHANGED <<rows, hourly, past, calledOff>>

-----------------------------------------------------------------------------
(* A recruiter proposes times (propose) or registers an appointment made   *)
(* by telephone (manual).                                                  *)

ScheduleRead(r, k) ==
    /\ label[r] = "idle" /\ candidateOutcome = "none" /\ k \in {"propose", "manual"}
    /\ Fresh # {}
    /\ Start(r, k, NoRow, "prior")
    /\ UNCHANGED <<rows, prior, hourly, past, calledOff>>

\* A proposal reads one confirmed row, a registration all of them.
ReadPrior(r) ==
    /\ label[r] = "prior"
    /\ \E P \in SUBSET Chosen :
          /\ P = {} => Chosen = {}
          /\ IF kind[r] = "propose" THEN Cardinality(P) <= 1 ELSE P = Chosen
          /\ prior' = [prior EXCEPT ![r] = P]
    /\ Enter(r, "cancel")
    /\ UNCHANGED <<rows, kind, at, hourly, past, calledOff>>

OpenRows == {s \in Schedule : Open(s)}
\* Mutant: the confirmed rows are left standing.
OnlyOpen == OpenRows
Replaced == OpenRows \cup Chosen
SetCancelled(S) == status' = [s \in Schedule |-> IF s \in S THEN "cancelled" ELSE status[s]]

CancelOld(r) ==
    /\ label[r] = "cancel"
    /\ SetCancelled(Replaced) /\ Step(r, "notice")
    /\ UNCHANGED <<lapsed, stage, candidateOutcome, hourly, past, calledOff>>

\* The cancelling of the confirmed rows that were read is announced.
Notice(r) ==
    /\ label[r] = "notice"
    /\ \E G \in Delivered(Hearers(kind[r]) \X prior[r]) : calledOff' = calledOff \cup G
    /\ CASE kind[r] \in {"propose", "manual"} -> Step(r, "insert")
         [] kind[r] = "decide" -> Step(r, "clean")
         [] OTHER -> Leave(r)
    /\ UNCHANGED <<rows, hourly, past>>

Insert(r) ==
    /\ label[r] = "insert"
    /\ IF Fresh = {} THEN Leave(r) /\ UNCHANGED <<status, confirmed>>
       ELSE LET s == CHOOSE f \in Fresh : TRUE IN
            /\ status' = [status EXCEPT ![s] =
                             IF kind[r] = "manual" THEN "selected" ELSE "pending"]
            /\ IF kind[r] = "manual" THEN Confirms(s) ELSE UNCHANGED confirmed
            /\ at' = [at EXCEPT ![r] = s] /\ Enter(r, "stage") /\ UNCHANGED <<kind, prior>>
    /\ UNCHANGED <<lapsed, stage, candidateOutcome, hourly, revived, reopenedEarly, calledOff>>

-----------------------------------------------------------------------------
(* A recruiter closes the candidate, takes that back, or moves them on.    *)

CloseRead(r) ==
    /\ label[r] = "idle" /\ candidateOutcome = "none"
    /\ Start(r, "decide", NoRow, "close")
    /\ UNCHANGED <<rows, prior, hourly, past, calledOff>>

CloseCandidate(r) ==
    /\ label[r] = "close"
    /\ candidateOutcome' = "closed"
    /\ IF kind[r] = "decide" THEN Step(r, "find") ELSE Step(r, "clean")
    /\ UNCHANGED <<status, lapsed, stage, hourly, past, calledOff>>

\* notifyScheduleCancelOnCandidateClosed.
FindChosen(r) ==
    /\ label[r] = "find"
    /\ prior' = [prior EXCEPT ![r] = Chosen] /\ Enter(r, "notice")
    /\ UNCHANGED <<rows, kind, at, hourly, past, calledOff>>

\* cleanupOnClose; a withdrawal announces the cancelling after it.
Clean(r) ==
    /\ label[r] = "clean"
    /\ SetCancelled(OpenRows)
    /\ IF kind[r] = "withdraw" THEN Step(r, "notice") ELSE Leave(r)
    /\ UNCHANGED <<lapsed, stage, candidateOutcome, hourly, past, calledOff>>

\* A closing has yet to announce what it took back.
Announcing == \E r \in Caller : label[r] \in {"find", "notice"} /\ kind[r] = "decide"

\* A confirmed row stands again, though its cancelling may have been announced.
Reopen ==
    /\ Announcing => Overtaking
    /\ candidateOutcome = "closed" /\ candidateOutcome' = "none"
    /\ calledOff' = calledOff \ (Audience \X Chosen)
    /\ reopenedEarly' = (reopenedEarly \/ Announcing)
    /\ UNCHANGED <<status, lapsed, stage, callerVars, hourly, confirmed, revived>>

MoveOn ==
    /\ stage # "passed" /\ candidateOutcome = "none"
    /\ stage' = "passed"
    /\ UNCHANGED <<status, lapsed, candidateOutcome, callerVars, hourly, past, calledOff>>

-----------------------------------------------------------------------------
(* Time, and the cron job.                                                 *)

Lapse(s) ==
    /\ status[s] # "none" /\ s \notin lapsed
    /\ lapsed' = lapsed \cup {s}
    /\ UNCHANGED <<status, stage, candidateOutcome, callerVars, hourly, past, calledOff>>

Overdue(s) == s \in lapsed /\ Open(s)

\* The candidate did not begin the interview with the model in time: the same
\* job rejects them, and announces nothing.
CronExpire ==
    /\ cron = "idle" /\ candidateOutcome = "none"
    /\ candidateOutcome' = "closed" /\ cron' = "clean"
    /\ UNCHANGED <<status, lapsed, stage, lapsing, callerVars, past, calledOff>>

CronSelect ==
    /\ cron = "idle"
    /\ lapsing' = {s \in Schedule : Overdue(s)} /\ lapsing' # {}
    /\ cron' = "cancel"
    /\ UNCHANGED <<rows, callerVars, past, calledOff>>

\* The UPDATE names the rows it has selected, whatever has become of them.
CronCancel ==
    /\ cron = "cancel"
    /\ SetCancelled(lapsing)
    /\ cron' = "reject" /\ lapsing' = {}
    /\ UNCHANGED <<lapsed, stage, candidateOutcome, callerVars, past, calledOff>>

\* The interviewers of the other rows hear nothing of it.
CronReject ==
    /\ cron = "reject"
    /\ IF candidateOutcome = "none" THEN candidateOutcome' = "closed" /\ cron' = "clean"
                                    ELSE cron' = "idle" /\ UNCHANGED candidateOutcome
    /\ UNCHANGED <<status, lapsed, stage, lapsing, callerVars, past, calledOff>>

CronClean ==
    /\ cron = "clean"
    /\ SetCancelled(OpenRows) /\ cron' = "idle"
    /\ UNCHANGED <<lapsed, stage, candidateOutcome, lapsing, callerVars, past, calledOff>>

-----------------------------------------------------------------------------
(* Kills.                                                                  *)

Killed(r) ==
    /\ Faults /\ label[r] # "idle" /\ Leave(r)
    /\ UNCHANGED <<rows, hourly, past, calledOff>>

CronDies ==
    /\ Faults /\ cron # "idle"
    /\ cron' = "idle" /\ lapsing' = {}
    /\ UNCHANGED <<rows, callerVars, past, calledOff>>

-----------------------------------------------------------------------------
Begin(r) ==
    \/ /\ r \in Applicant
       /\ \E s \in Schedule : SelectRead(r, s) \/ CounterRead(r, s) \/ WithdrawRead(r, s)
    \/ /\ r \in Recruiter
       /\ \/ \E s \in Schedule : ConfirmRead(r, s)
          \/ ScheduleRead(r, "propose") \/ ScheduleRead(r, "manual") \/ CloseRead(r)
Continue(r) ==
    \/ Claim(r) \/ SetStage(r) \/ Invite(r) \/ CounterWrite(r)
    \/ WithdrawWrite(r) \/ WithdrawLook(r)
    \/ ReadPrior(r) \/ CancelOld(r) \/ Notice(r) \/ Insert(r)
    \/ CloseCandidate(r) \/ FindChosen(r) \/ Clean(r)
CronStep == CronExpire \/ CronSelect \/ CronCancel \/ CronReject \/ CronClean

ScheduleNext ==
    \/ \E r \in Caller : Begin(r) \/ Continue(r) \/ Killed(r)
    \/ MoveOn \/ Reopen \/ \E s \in Schedule : Lapse(s)
    \/ CronStep \/ CronDies

ScheduleSpec == ScheduleInit /\ [][ScheduleNext]_scheduleVars
\* Time passes; the job is called every hour (vercel.json), and not every run
\* of it is killed before it has cancelled what it selects.
ScheduleFairSpec ==
    /\ ScheduleSpec /\ WF_scheduleVars(CronStep)
    /\ SF_scheduleVars(CronSelect) /\ SF_scheduleVars(CronCancel)
    /\ \A s \in Schedule : WF_scheduleVars(Lapse(s))

-----------------------------------------------------------------------------
(* Properties.                                                             *)

ScheduleTypeOK ==
    /\ status \in [Schedule -> Status] /\ lapsed \subseteq Schedule \ Fresh
    /\ stage \in {"first", "passed"}
    /\ candidateOutcome \in {"none", "closed"}
    /\ label \in [Caller -> ScheduleLabel] /\ kind \in [Caller -> Kind]
    /\ at \in [Caller -> Schedule] /\ prior \in [Caller -> SUBSET Schedule]
    /\ \A r \in Caller : prior[r] \cap Fresh = {}
    /\ cron \in {"idle", "cancel", "reject", "clean"} /\ lapsing \subseteq Schedule \ Fresh
    /\ confirmed \in [Schedule -> 0..2] /\ revived \subseteq Schedule
    /\ reopenedEarly \in BOOLEAN
    /\ calledOff \subseteq Audience \X (Schedule \ Fresh)

\* "At once, by a double click or by the candidate's choice crossing the
\* recruiter's confirmation, two meetings and two confirmations" are excluded
\* by the claim (select/route.ts:68): a row is confirmed once ...
ConfirmedOnce == \A s \in Schedule : confirmed[s] <= 1

\* ... unless a counter-proposal that was read before has taken it back.
OneConfirmation == \A s \in Schedule : confirmed[s] <= 1 \/ s \in revived

Stands(s) == status[s] = "selected" /\ candidateOutcome = "none"

\* Whoever was last told that an interview is off need not come: an announced
\* cancelling is of a row that ended, or of a closed candidate, whoever answered,
\* confirmed or proposed between its reading and its announcement, unless a
\* stale counter-proposal brought the row back, or a reopening overtook the closing.
OffIsOff == reopenedEarly \/ \A m \in calledOff : ~Stands(m[2]) \/ m[2] \in revived

\* "Who was told of an interview and does not learn that it is cancelled comes for
\* nothing, and the room stays booked" (schedule-share.ts:309): when no request is
\* under way, everybody knows of a row that was confirmed and does not stand any more.
NoGhostBooking ==
    (cron = "idle" /\ \A r \in Caller : label[r] = "idle")
        => \A s \in Schedule : confirmed[s] > 0 /\ ~Stands(s) => Audience \X {s} \subseteq calledOff

\* Every proposal ends: chosen, withdrawn or cancelled, by the cron job if by
\* nobody else.
ProposalsEnd == \A s \in Schedule : Open(s) ~> ~Open(s)
=============================================================================
