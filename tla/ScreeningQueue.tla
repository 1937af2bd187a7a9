--------------------------- MODULE ScreeningQueue ---------------------------
(***************************************************************************)
(* The resume-evaluation queue: the rows of screening_jobs, the worker     *)
(* loops of /api/internal/process-screenings that claim, evaluate, settle  *)
(* and charge them, the balance holds, the recovery of rows whose worker   *)
(* died, and the three outside writers (a candidate is closed, deleted, or *)
(* reported as an identity theft).                                         *)
(*                                                                         *)
(* A database statement is one action: SQLite has one writer.  Every await *)
(* between two statements is a place where the other processes may run and *)
(* where an invocation may be killed, so it is a label of the loop's pc.   *)
(***************************************************************************)
EXTENDS Integers, FiniteSets

CONSTANTS
    Candidate,       \* candidates.id
    Org,             \* tenants; candidates without one share a pseudo tenant
    OrgOf,           \* [Candidate -> Org], candidates.org_id
    Unmetered,       \* the pseudo tenants (org_id NULL): no wallet, no charge
    Job,             \* ids that the autoincrement of screening_jobs may issue
    Loop,            \* worker loops alive at once, over all invocations
    Requester,       \* requests that enqueue at the same time
    MaxConcurrency,  \* DEFAULT_CONCURRENCY, the global number of slots
    MAX_ATTEMPTS,    \* 3 in the code
    Cost,            \* token price of one evaluation (resume_upload)
    Grant,           \* tokens of one top-up
    WalletCeil,      \* bound: no top-up above this balance
    Unscored,        \* candidates of postings with aiScreeningDisabled
    Draft,           \* candidates of postings with isDraft
    Closable,        \* candidates that cleanupOnClose may close
    Deletable,       \* candidates an operator or the deduplication may delete
    Reportable,      \* candidates that may be reported as identity theft
    DiesAt,          \* labels of pc at which an invocation may be killed
    Faults,          \* may a statement fail, or commit and lose its reply?
    NoJob, NoCandidate

Label == {"idle", "snap", "pick", "claim", "look", "start", "eval", "mark",
          "check", "charge", "recheck", "fail", "retry", "outage"}

ASSUME QueueAssumption ==
    /\ Job \subseteq Nat \ {0} /\ IsFiniteSet(Job) /\ NoJob \notin Job
    /\ IsFiniteSet(Loop)
    /\ NoCandidate \notin Candidate
    /\ OrgOf \in [Candidate -> Org]
    /\ MaxConcurrency \in Nat \ {0}
    /\ MAX_ATTEMPTS \in Nat \ {0}
    /\ Cost \in Nat /\ Grant \in Nat /\ WalletCeil \in Int
    /\ Unscored \subseteq Candidate /\ Draft \subseteq Candidate
    /\ Faults \in BOOLEAN

VARIABLES
    status,    \* [Job -> ...]: "free" not issued yet, "gone" deleted by cascade
    cand,      \* [Job -> Candidate]: candidate_id
    attempts,  \* [Job -> Nat]
    due,       \* [Job -> BOOLEAN]: not_before is null or has passed
    lock,      \* [Job -> {"none", "fresh", "stale"}]: locked_at, stale after 300s
    removed,   \* candidates whose row is deleted
    req,       \* [Requester -> Candidate]: its SELECT found no active job
    rep,       \* [Candidate -> ...]: progress of the identity report
    todo,      \* [Candidate -> SUBSET Job]: jobs the report has yet to refund
    wallet,    \* [Org -> Int]: token_wallets.balance, 0 without a row
    opened,    \* orgs with a row in token_wallets
    charged,   \* jobs with a resume_upload row in token_ledger
    refunded,  \* jobs with a refund row in token_ledger
    pc, mine,  \* of each loop: label, and the row picked or claimed
    cap, skip, after,  \* of each loop: the locals of atomicClaimNext
    scored,    \* history: jobs for which the LLM evaluation completed
    withdrawn  \* history: jobs that existed when their candidate was closed

jobVars     == <<status, cand, attempts, due, lock>>
requestVars == <<removed, req, rep, todo>>
moneyVars   == <<wallet, opened, charged, refunded>>
scanVars    == <<cap, skip, after>>
loopVars    == <<pc, mine, scanVars>>
history     == <<scored, withdrawn>>
vars == <<jobVars, requestVars, moneyVars, loopVars, history>>

-----------------------------------------------------------------------------
(* Derived values. *)

Active == {"queued", "processing", "paused"}

\* Org of a row (the join of screening_jobs with candidates).
JobOrg(j) == OrgOf[cand[j]]

\* Mutant: the queue does not look at the balance.
SpendableAlways(o) == TRUE

\* The predicate "org null or balance null or balance >= 1" of both selects.
Spendable(o) == o \in Unmetered \/ o \notin opened \/ wallet[o] >= 1

Claimable(j) == status[j] = "queued" /\ due[j] /\ Spendable(JobOrg(j))

Processing     == {j \in Job : status[j] = "processing"}
ProcessingOf(o) == {j \in Processing : JobOrg(j) = o}

\* Mutant: the partial unique index is missing.
IndexAllowsAll(j, c) == TRUE

\* The partial unique index screening_jobs_active_candidate_uq lets the row j
\* become active only if no other row of candidate c is.
IndexAllows(j, c) ==
    \A k \in Job \ {j} : ~(status[k] \in Active /\ cand[k] = c)

\* A loop holds the row it claimed from the claim to the settling statement.
Holding   == {"start", "eval", "mark", "fail", "retry", "outage"}
Settled   == {"check", "charge", "recheck"}
Holds(w, j) == pc[w] \in Holding /\ mine[w] = j

Reported(c) == rep[c] # "none"

CeilDiv(a, b) == (a + b - 1) \div b

\* Orgs with a row in process or claimable, and the slots each may use.
LiveOrgs == {JobOrg(j) : j \in {k \in Job : Claimable(k) \/ k \in Processing}}
FairShare ==
    CeilDiv(MaxConcurrency, IF LiveOrgs = {} THEN 1 ELSE Cardinality(LiveOrgs))

Goto(w, l) == pc' = [pc EXCEPT ![w] = l]

-----------------------------------------------------------------------------
Init ==
    /\ status = [j \in Job |-> "free"]
    /\ cand = [j \in Job |-> NoCandidate]
    /\ attempts = [j \in Job |-> 0]
    /\ due = [j \in Job |-> TRUE]
    /\ lock = [j \in Job |-> "none"]
    /\ removed = {}
    /\ req = [r \in Requester |-> NoCandidate]
    /\ rep = [c \in Candidate |-> "none"]
    /\ todo = [c \in Candidate |-> {}]
    /\ wallet = [o \in Org |-> 0]
    /\ opened = {}
    /\ charged = {} /\ refunded = {}
    /\ pc = [w \in Loop |-> "idle"]
    /\ mine = [w \in Loop |-> NoJob]
    /\ cap = [w \in Loop |-> 0]
    /\ skip = [w \in Loop |-> {}]
    /\ after = [w \in Loop |-> 0]
    /\ scored = {} /\ withdrawn = {}

-----------------------------------------------------------------------------
(* Requests that enqueue: a SELECT for an active row, then the INSERT.     *)

LookForActive(r, c) ==
    /\ req[r] = NoCandidate /\ c \notin removed
    /\ \A j \in Job : ~(cand[j] = c /\ status[j] \in Active)
    /\ req' = [req EXCEPT ![r] = c]
    /\ UNCHANGED <<jobVars, removed, rep, todo, moneyVars, loopVars, history>>

\* INSERT ... ON CONFLICT DO NOTHING.  The next id is issued by autoincrement.
\* A deleted candidate fails the foreign key and nothing is inserted.
InsertJob(r, j) ==
    LET c == req[r]
        won == c \notin removed /\ IndexAllows(j, c)
    IN  /\ c # NoCandidate
        /\ status[j] = "free" /\ \A k \in Job : k < j => status[k] # "free"
        /\ req' = [req EXCEPT ![r] = NoCandidate]
        /\ status' = IF won THEN [status EXCEPT ![j] = "queued"] ELSE status
        /\ cand' = IF won THEN [cand EXCEPT ![j] = c] ELSE cand
        /\ UNCHANGED <<attempts, due, lock, removed, rep, todo, moneyVars,
                       loopVars, history>>

\* The back-off elapses, or an operator asks to retry now (not_before := null).
BecomeDue(j) ==
    /\ status[j] = "queued" /\ ~due[j]
    /\ due' = [due EXCEPT ![j] = TRUE]
    /\ UNCHANGED <<status, cand, attempts, lock, requestVars, moneyVars,
                   loopVars, history>>

-----------------------------------------------------------------------------
(* atomicClaimNext, one loop of a worker invocation at a time.             *)

\* The cron, a trigger or the self-chain starts an invocation and its loops.
StartLoop(w) ==
    /\ pc[w] = "idle"
    /\ Goto(w, "snap")
    /\ UNCHANGED <<jobVars, requestVars, moneyVars, mine, scanVars, history>>

\* The two snapshot selects: slots in use, and the fair share of an org.
Snapshot(w) ==
    /\ pc[w] = "snap"
    /\ IF Cardinality(Processing) >= MaxConcurrency
       THEN /\ Goto(w, "idle") /\ UNCHANGED scanVars
       ELSE /\ Goto(w, "pick")
            /\ cap' = [cap EXCEPT ![w] = FairShare]
            /\ skip' = [skip EXCEPT ![w] =
                 {o \in Org : Cardinality(ProcessingOf(o)) >= FairShare}]
            /\ after' = [after EXCEPT ![w] = 0]
    /\ UNCHANGED <<jobVars, requestVars, moneyVars, mine, history>>

Pickable(w, j) == Claimable(j) /\ j > after[w] /\ JobOrg(j) \notin skip[w]

\* The oldest claimable row after the last one lost, outside the skipped orgs.
PickRow(w, j) ==
    /\ pc[w] = "pick"
    /\ Pickable(w, j) /\ \A k \in Job : Pickable(w, k) => j <= k
    /\ mine' = [mine EXCEPT ![w] = j]
    /\ Goto(w, "claim")
    /\ UNCHANGED <<jobVars, requestVars, moneyVars, scanVars, history>>

\* Nothing to claim: the loop ends ("no_job").
PickNothing(w) ==
    /\ pc[w] = "pick" /\ \A j \in Job : ~Pickable(w, j)
    /\ Goto(w, "idle")
    /\ cap' = [cap EXCEPT ![w] = 0] /\ skip' = [skip EXCEPT ![w] = {}]
    /\ after' = [after EXCEPT ![w] = 0]
    /\ UNCHANGED <<jobVars, requestVars, moneyVars, mine, history>>

\* Mutant: the slots are checked by the snapshot only.
ClaimUnbounded(w, j) ==
    status[j] = "queued" /\ Cardinality(ProcessingOf(JobOrg(j))) < cap[w]

\* The WHERE of the claiming UPDATE; neither the balance nor not_before is in it.
ClaimAllowed(w, j) ==
    /\ status[j] = "queued"
    /\ Cardinality(Processing) < MaxConcurrency
    /\ Cardinality(ProcessingOf(JobOrg(j))) < cap[w]

Claim(w) ==
    LET j == mine[w] IN
    /\ pc[w] = "claim"
    /\ IF ClaimAllowed(w, j)
       THEN /\ status' = [status EXCEPT ![j] = "processing"]
            /\ lock' = [lock EXCEPT ![j] = "fresh"]
            /\ attempts' = [attempts EXCEPT ![j] = @ + 1]
            /\ Goto(w, "start")
            /\ cap' = [cap EXCEPT ![w] = 0] /\ skip' = [skip EXCEPT ![w] = {}]
            /\ after' = [after EXCEPT ![w] = 0]
       ELSE Goto(w, "look") /\ UNCHANGED <<status, lock, attempts, scanVars>>
    /\ UNCHANGED <<cand, due, requestVars, moneyVars, mine, history>>

\* Still queued: the org is at its cap, skip it.  Otherwise: lost to another loop.
LookAgain(w) ==
    LET j == mine[w] IN
    /\ pc[w] = "look"
    /\ IF status[j] = "queued"
       THEN skip' = [skip EXCEPT ![w] = @ \cup {JobOrg(j)}] /\ UNCHANGED after
       ELSE after' = [after EXCEPT ![w] = j] /\ UNCHANGED skip
    /\ mine' = [mine EXCEPT ![w] = NoJob]
    /\ Goto(w, "pick")
    /\ UNCHANGED <<jobVars, requestVars, moneyVars, cap, history>>

-----------------------------------------------------------------------------
(* runScreeningOnce and the settling of the row by processOne.             *)

\* An update by id: it changes nothing when the row is deleted.
RowBecomes(j, s) ==
    /\ status' = [status EXCEPT ![j] = IF @ = "gone" THEN @ ELSE s]
    /\ lock' = [lock EXCEPT ![j] = "none"]

\* The first reads: a reported or deleted candidate is a permanent error.
StartEvaluation(w) ==
    LET c == cand[mine[w]] IN
    /\ pc[w] = "start"
    /\ Goto(w, IF c \in removed \/ Reported(c) THEN "fail" ELSE "eval")
    /\ UNCHANGED <<jobVars, requestVars, moneyVars, mine, scanVars, history>>

Outcome == {"ok", "permanent", "transient", "outage"}

\* Parsing and the LLM call.  "ok" covers the parse-only return for postings
\* without AI screening and for drafts, which scores nothing.
Evaluate(w, r) ==
    LET j == mine[w] IN
    /\ pc[w] = "eval"
    /\ Goto(w, CASE r = "ok" -> "mark"
                 [] r = "permanent" -> "fail"
                 [] r = "transient" -> "retry"
                 [] r = "outage" -> "outage")
    /\ scored' = IF r = "ok" /\ cand[j] \notin Unscored \cup Draft
                 THEN scored \cup {j} ELSE scored
    /\ UNCHANGED <<jobVars, requestVars, moneyVars, mine, scanVars, withdrawn>>

\* Deleting a candidate deletes its rows (ON DELETE CASCADE).
Cascade(c) ==
    /\ c \notin removed
    /\ removed' = removed \cup {c}
    /\ status' = [j \in Job |-> IF cand[j] = c /\ status[j] # "free"
                                THEN "gone" ELSE status[j]]
    /\ lock' = [j \in Job |-> IF cand[j] = c THEN "none" ELSE lock[j]]
    /\ UNCHANGED <<cand, attempts, due>>

\* An earlier candidate of the posting has the same content: this one is
\* deleted with its rows and the evaluation returns as a success.
EvaluateDuplicate(w) ==
    LET c == cand[mine[w]] IN
    /\ pc[w] = "eval" /\ c \in Deletable
    /\ Cascade(c)
    /\ Goto(w, "mark")
    /\ UNCHANGED <<req, rep, todo, moneyVars, mine, scanVars, history>>

MarkDone(w) ==
    /\ pc[w] = "mark"
    /\ RowBecomes(mine[w], "done")
    /\ Goto(w, "check")
    /\ UNCHANGED <<cand, attempts, due, requestVars, moneyVars, mine, scanVars,
                   history>>

\* markDone throws, having committed or not: the catch block treats it as a
\* transient error, or an outage by the text of the message.
MarkDoneThrows(w) ==
    /\ Faults /\ pc[w] = "mark"
    /\ \/ RowBecomes(mine[w], "done")
       \/ UNCHANGED <<status, lock>>
    /\ \E l \in {"retry", "outage"} : Goto(w, l)
    /\ UNCHANGED <<cand, attempts, due, requestVars, moneyVars, mine, scanVars,
                   history>>

\* After a job the loop takes the next one, or stops at its time or job budget.
NextJob(w) ==
    /\ \E l \in {"snap", "idle"} : Goto(w, l)
    /\ mine' = [mine EXCEPT ![w] = NoJob]
    /\ UNCHANGED scanVars

\* markFailedOrRetry(id, msg, MAX_ATTEMPTS).
FailForGood(w) ==
    /\ pc[w] = "fail"
    /\ RowBecomes(mine[w], "failed")
    /\ NextJob(w)
    /\ UNCHANGED <<cand, attempts, due, requestVars, moneyVars, history>>

\* The UPDATE that puts the row back in the queue with a back-off; if the
\* unique index refuses it, it throws and the loop is over.
Requeue(w, tries) ==
    LET j == mine[w] IN
    IF IndexAllows(j, cand[j])
    THEN /\ RowBecomes(j, "queued")
         /\ due' = [due EXCEPT ![j] = FALSE]
         /\ attempts' = [attempts EXCEPT ![j] = tries]
         /\ NextJob(w)
    ELSE /\ Goto(w, "idle") /\ mine' = [mine EXCEPT ![w] = NoJob]
         /\ UNCHANGED <<status, lock, due, attempts, scanVars>>

\* markFailedOrRetry(id, msg, claim.attempts): nobody else changes attempts
\* while the loop holds the row, so the claimed value is the stored one.
FailOrRetry(w) ==
    LET j == mine[w] IN
    /\ pc[w] = "retry"
    /\ IF attempts[j] >= MAX_ATTEMPTS
       THEN RowBecomes(j, "failed") /\ NextJob(w) /\ UNCHANGED <<due, attempts>>
       ELSE Requeue(w, attempts[j])
    /\ UNCHANGED <<cand, requestVars, moneyVars, history>>

\* requeueOutage: the attempt does not count.
RequeueOutage(w) ==
    LET j == mine[w] IN
    /\ pc[w] = "outage"
    /\ Requeue(w, IF attempts[j] = 0 THEN 0 ELSE attempts[j] - 1)
    /\ UNCHANGED <<cand, requestVars, moneyVars, history>>

-----------------------------------------------------------------------------
(* chargeScreeningSuccess: check, charge, look again.                      *)

\* The early returns: deleted, without org, reported, or AI screening off.
Exempt(c) ==
    c \in removed \/ OrgOf[c] \in Unmetered \/ Reported(c) \/ c \in Unscored

CheckCharge(w) ==
    /\ pc[w] = "check"
    /\ IF Exempt(cand[mine[w]])
       THEN NextJob(w)
       ELSE Goto(w, "charge") /\ UNCHANGED <<mine, scanVars>>
    /\ UNCHANGED <<jobVars, requestVars, moneyVars, history>>

\* chargeFeature, whose effect is one idempotent ledger transaction: the
\* ledger row is keyed by the job, the wallet moves with it.
Charge(j) ==
    LET o == JobOrg(j) IN
    /\ opened' = opened \cup {o}
    /\ charged' = charged \cup {j}
    /\ wallet' = IF j \in charged THEN wallet
                 ELSE [wallet EXCEPT ![o] = @ - Cost]
    /\ UNCHANGED refunded

ChargeJob(w) ==
    /\ pc[w] = "charge"
    /\ Charge(mine[w])
    /\ Goto(w, "recheck")
    /\ UNCHANGED <<jobVars, requestVars, mine, scanVars, history>>

\* Mutant: a failing charge reaches the catch block of the evaluation.
ChargeThrowsIntoCatch(w) ==
    /\ Faults /\ pc[w] = "charge"
    /\ Charge(mine[w]) \/ UNCHANGED moneyVars
    /\ Goto(w, "retry")
    /\ UNCHANGED <<jobVars, requestVars, mine, scanVars, history>>

\* The charge throws, having committed or not: processOne logs it and goes on.
ChargeThrows(w) ==
    /\ Faults /\ pc[w] = "charge"
    /\ Charge(mine[w]) \/ UNCHANGED moneyVars
    /\ NextJob(w)
    /\ UNCHANGED <<jobVars, requestVars, history>>

\* refundFeature: once, and only what was charged.
Refund(j) ==
    IF j \in charged \ refunded
    THEN /\ refunded' = refunded \cup {j}
         /\ wallet' = [wallet EXCEPT ![JobOrg(j)] = @ + Cost]
         /\ UNCHANGED <<opened, charged>>
    ELSE UNCHANGED moneyVars

\* Mutant: the report is not looked at again.
NothingOwed(j) == FALSE

\* Reported between the check and the charge: the charger refunds.
OwesRefund(j) == cand[j] \notin removed /\ Reported(cand[j])

RecheckReport(w) ==
    /\ pc[w] = "recheck"
    /\ IF OwesRefund(mine[w]) THEN Refund(mine[w]) ELSE UNCHANGED moneyVars
    /\ NextJob(w)
    /\ UNCHANGED <<jobVars, requestVars, history>>

\* The platform kills the invocation at maxDuration, or a statement throws
\* outside the try block: the loop is gone and its row keeps its status.
Die(w) ==
    /\ pc[w] \in DiesAt \cap (Holding \cup Settled)
    /\ Goto(w, "idle")
    /\ mine' = [mine EXCEPT ![w] = NoJob]
    /\ UNCHANGED <<jobVars, requestVars, moneyVars, scanVars, history>>

-----------------------------------------------------------------------------
(* Maintenance at the start of every invocation: four statements that read *)
(* nothing before they write.  Invocations overlap and die between any two *)
(* of them, so each statement may run at any time, in any order.           *)

\* Mutant: locks expire while the worker may still be alive.
HeldByNone(j) == TRUE

HeldByDead(j) == \A w \in Loop : ~Holds(w, j)

\* locked_at is older than LOCK_STALE_SECONDS (300s).  An invocation lives at
\* most maxDuration (120s), so no living loop holds the row.
LockExpires(j) ==
    /\ status[j] = "processing" /\ lock[j] = "fresh"
    /\ HeldByDead(j)
    /\ lock' = [lock EXCEPT ![j] = "stale"]
    /\ UNCHANGED <<status, cand, attempts, due, requestVars, moneyVars,
                   loopVars, history>>

Stuck(j) == status[j] = "processing" /\ lock[j] # "fresh"

\* Mutant: only rows that never got a lock are recovered.
RecoverableUnlocked(j) == Stuck(j) /\ lock[j] = "none" /\ attempts[j] < MAX_ATTEMPTS

Exhausted(j)   == Stuck(j) /\ attempts[j] >= MAX_ATTEMPTS
Recoverable(j) == Stuck(j) /\ attempts[j] < MAX_ATTEMPTS

\* All rows of S change status at once; S is not empty.
UpdateRows(S, s) ==
    /\ S # {}
    /\ status' = [j \in Job |-> IF j \in S THEN s ELSE status[j]]
    /\ lock' = [j \in Job |-> IF j \in S THEN "none" ELSE lock[j]]

\* cleanupStuck: out of attempts.
FailStuck ==
    /\ UpdateRows({j \in Job : Exhausted(j)}, "failed")
    /\ UNCHANGED <<cand, attempts, due, requestVars, moneyVars, loopVars, history>>

\* cleanupStuck: attempts left.
RequeueStuck ==
    /\ UpdateRows({j \in Job : Recoverable(j)}, "queued")
    /\ UNCHANGED <<cand, attempts, due, requestVars, moneyVars, loopVars, history>>

\* reconcileBalanceHolds compares the balance of an existing wallet.
Broke(o)  == o \in opened /\ wallet[o] <= 0
Funded(o) == o \in opened /\ wallet[o] > 0

PauseHolds ==
    /\ UpdateRows({j \in Job : status[j] = "queued" /\ Broke(JobOrg(j))}, "paused")
    /\ UNCHANGED <<cand, attempts, due, requestVars, moneyVars, loopVars, history>>

ResumeHolds ==
    LET S == {j \in Job : status[j] = "paused" /\ Funded(JobOrg(j))} IN
    /\ UpdateRows(S, "queued")
    /\ due' = [j \in Job |-> due[j] \/ j \in S]
    /\ UNCHANGED <<cand, attempts, requestVars, moneyVars, loopVars, history>>

-----------------------------------------------------------------------------
(* Outside writers. *)

\* Mutant: closing a candidate also takes the row a worker is processing.
WaitingOrRunning(c) == {j \in Job : cand[j] = c /\ status[j] \in Active}

WaitingOf(c) == {j \in Job : cand[j] = c /\ status[j] \in {"queued", "paused"}}

UpdateWaiting(c, s) ==
    /\ status' = [j \in Job |-> IF j \in WaitingOf(c) THEN s ELSE status[j]]
    /\ UNCHANGED <<cand, attempts, due, lock>>

\* cleanupOnClose: waiting rows are closed, a row being processed is left.
CloseCandidate(c) ==
    /\ c \in Closable \ removed
    /\ UpdateWaiting(c, "done")
    /\ withdrawn' = withdrawn \cup {j \in Job : cand[j] = c /\ status[j] # "free"}
    /\ UNCHANGED <<requestVars, moneyVars, loopVars, scored>>

\* DELETE /api/candidates/[id].
DeleteCandidate(c) ==
    /\ c \in Deletable
    /\ Cascade(c)
    /\ UNCHANGED <<req, rep, todo, moneyVars, loopVars, history>>

\* claimIdentityReport: the mark is set before the new application is saved.
ReportClaim(c) ==
    /\ c \in Reportable \ removed /\ rep[c] = "none"
    /\ rep' = [rep EXCEPT ![c] = "claimed"]
    /\ UNCHANGED <<jobVars, removed, req, todo, moneyVars, loopVars, history>>

\* releaseIdentityReport: saving the new application failed.
ReportRelease(c) ==
    /\ rep[c] = "claimed"
    /\ rep' = [rep EXCEPT ![c] = "none"]
    /\ UNCHANGED <<jobVars, removed, req, todo, moneyVars, loopVars, history>>

\* finalizeIdentityReport: link the new application, ...
ReportLink(c) ==
    /\ rep[c] = "claimed"
    /\ rep' = [rep EXCEPT ![c] = "linked"]
    /\ UNCHANGED <<jobVars, removed, req, todo, moneyVars, loopVars, history>>

\* ... stop the waiting rows, ...
ReportStop(c) ==
    /\ rep[c] = "linked"
    /\ rep' = [rep EXCEPT ![c] = "stopped"]
    /\ UpdateWaiting(c, "failed")
    /\ UNCHANGED <<removed, req, todo, moneyVars, loopVars, history>>

\* ... read the list of rows (none without an org), ...
ReportList(c) ==
    /\ rep[c] = "stopped"
    /\ rep' = [rep EXCEPT ![c] = "refunding"]
    /\ todo' = [todo EXCEPT ![c] =
         {j \in Job : cand[j] = c /\ status[j] \notin {"free", "gone"}
                      /\ OrgOf[c] \notin Unmetered}]
    /\ UNCHANGED <<jobVars, removed, req, moneyVars, loopVars, history>>

\* ... and refund them one by one.
ReportRefund(c, j) ==
    /\ rep[c] = "refunding" /\ j \in todo[c]
    /\ todo' = [todo EXCEPT ![c] = @ \ {j}]
    /\ Refund(j)
    /\ UNCHANGED <<jobVars, removed, req, rep, loopVars, history>>

ReportEnd(c) ==
    /\ rep[c] = "refunding" /\ todo[c] = {}
    /\ rep' = [rep EXCEPT ![c] = "reported"]
    /\ UNCHANGED <<jobVars, removed, req, todo, moneyVars, loopVars, history>>

\* Any read of the balance creates the wallet (ensureWallet).
OpenWallet(o) ==
    /\ o \notin opened \cup Unmetered
    /\ opened' = opened \cup {o}
    /\ UNCHANGED <<jobVars, requestVars, wallet, charged, refunded, loopVars,
                   history>>

\* A paid order or an administrator credits the wallet (writeLedger).
TopUp(o) ==
    /\ o \in opened /\ wallet[o] < WalletCeil
    /\ wallet' = [wallet EXCEPT ![o] = @ + Grant]
    /\ UNCHANGED <<jobVars, requestVars, opened, charged, refunded, loopVars,
                   history>>

-----------------------------------------------------------------------------
ClaimStep(w) ==
    \/ StartLoop(w) \/ Snapshot(w) \/ PickNothing(w) \/ Claim(w) \/ LookAgain(w)
    \/ \E j \in Job : PickRow(w, j)

EvaluateStep(w) ==
    StartEvaluation(w) \/ EvaluateDuplicate(w) \/ \E r \in Outcome : Evaluate(w, r)

SettleStep(w) ==
    \/ MarkDone(w) \/ MarkDoneThrows(w) \/ FailForGood(w) \/ FailOrRetry(w)
    \/ RequeueOutage(w)

ChargeStep(w) ==
    CheckCharge(w) \/ ChargeJob(w) \/ ChargeThrows(w) \/ RecheckReport(w)

LoopStep(w) == ClaimStep(w) \/ EvaluateStep(w) \/ SettleStep(w) \/ ChargeStep(w)

Maintenance == FailStuck \/ RequeueStuck \/ PauseHolds \/ ResumeHolds

ReportStep(c) ==
    \/ ReportClaim(c) \/ ReportRelease(c) \/ ReportLink(c) \/ ReportStop(c)
    \/ ReportList(c) \/ ReportEnd(c) \/ \E j \in Job : ReportRefund(c, j)

RequestStep(r) ==
    \/ \E c \in Candidate : LookForActive(r, c)
    \/ \E j \in Job : InsertJob(r, j)

Next ==
    \/ \E w \in Loop : LoopStep(w) \/ Die(w)
    \/ \E r \in Requester : RequestStep(r)
    \/ \E j \in Job : BecomeDue(j) \/ LockExpires(j)
    \/ \E c \in Candidate : CloseCandidate(c) \/ DeleteCandidate(c) \/ ReportStep(c)
    \/ \E o \in Org : OpenWallet(o) \/ TopUp(o)
    \/ Maintenance

\* A loop that holds no row is started again by the cron; a killed loop frees
\* its row when time passes; every invocation runs the maintenance; a capacity
\* outage of the LLM does not last for ever.
Fairness ==
    /\ \A w \in Loop :
         /\ WF_vars(LoopStep(w))
         /\ SF_vars(\E r \in Outcome \ {"outage"} : Evaluate(w, r))
    /\ \A j \in Job : WF_vars(BecomeDue(j)) /\ WF_vars(LockExpires(j))
    /\ WF_vars(FailStuck) /\ WF_vars(RequeueStuck)
    /\ WF_vars(PauseHolds) /\ WF_vars(ResumeHolds)

Spec == Init /\ [][Next]_vars
FairSpec == Spec /\ Fairness

-----------------------------------------------------------------------------
(* Properties. *)

Status == {"free", "queued", "processing", "done", "failed", "paused", "gone"}
ReportPhase == {"none", "claimed", "linked", "stopped", "refunding", "reported"}

JobTypes ==
    /\ status \in [Job -> Status]
    /\ cand \in [Job -> Candidate \cup {NoCandidate}]
    /\ \A j \in Job : status[j] # "free" => cand[j] \in Candidate
    /\ attempts \in [Job -> Nat]
    /\ due \in [Job -> BOOLEAN]
    /\ lock \in [Job -> {"none", "fresh", "stale"}]

RequestTypes ==
    /\ removed \in SUBSET Candidate
    /\ req \in [Requester -> Candidate \cup {NoCandidate}]
    /\ rep \in [Candidate -> ReportPhase]
    /\ todo \in [Candidate -> SUBSET Job]

MoneyTypes ==
    /\ wallet \in [Org -> Int] /\ opened \in SUBSET Org
    /\ charged \in SUBSET Job /\ refunded \in SUBSET Job

LoopTypes ==
    /\ pc \in [Loop -> Label]
    /\ mine \in [Loop -> Job \cup {NoJob}]
    /\ cap \in [Loop -> 0..MaxConcurrency] /\ after \in [Loop -> Nat]
    /\ skip \in [Loop -> SUBSET Org]
    /\ scored \in SUBSET Job /\ withdrawn \in SUBSET Job

\* Every variable keeps its type; a row that was issued belongs to a candidate.
TypeOK == JobTypes /\ RequestTypes /\ MoneyTypes /\ LoopTypes

\* At most one row of a candidate is queued, processing or paused, whatever
\* requests race in enqueueScreening and whatever worker revives an old row.
OneActiveJob ==
    \A j, k \in Job :
        j # k /\ status[j] \in Active /\ status[k] \in Active => cand[j] # cand[k]

\* No more rows are being processed than there are slots, with any number of
\* loops claiming at once from stale snapshots.
InFlightBounded == Cardinality(Processing) <= MaxConcurrency

\* A row in the queue has attempts left, so claiming, dying and being requeued
\* cannot go round for ever (the H6 comment of cleanupStuck).
WaitingHasTries ==
    \A j \in Job : /\ status[j] \in {"queued", "paused"} => attempts[j] < MAX_ATTEMPTS
                   /\ attempts[j] <= MAX_ATTEMPTS

\* Two living loops never work on the same row: the recovery of stuck rows
\* takes a row only from the dead.
OneHolder ==
    \A v, w \in Loop : /\ v # w
                       /\ pc[v] \in Holding \cup Settled
                       /\ pc[w] \in Holding \cup Settled
                       => mine[v] # mine[w]

\* A job is charged only if its LLM evaluation completed.
ChargeNeedsScore == charged \subseteq scored

\* Once a job is charged its row never goes back to the queue: a failing charge
\* must not reach the catch block that requeues (comment in processOne).
ChargedStaysDone ==
    [][\A j \in charged : status[j] \in {"done", "gone"}
                          /\ status'[j] \in {"done", "gone"}]_vars

\* When an identity report is complete and no loop is still charging a row of
\* the candidate, everything charged for the candidate has been refunded.
ReportedPaysNothing ==
    \A j \in Job :
        /\ j \in charged /\ rep[cand[j]] = "reported" /\ cand[j] \notin removed
        /\ \A w \in Loop : ~(pc[w] \in Settled /\ mine[w] = j)
        => j \in refunded

\* Loops of an org that may still cost it an evaluation it could afford when
\* the row was picked.
Committed(o) ==
    {w \in Loop : /\ pc[w] \in (Holding \cup {"claim", "check", "charge"})
                  /\ mine[w] \in Job /\ JobOrg(mine[w]) = o}

\* Payment is after the fact, but the debt it can run up is bounded: an org is
\* never further below zero than one evaluation per loop that is not committed.
DebtBounded ==
    \A o \in Org :
        wallet[o] >= -Cost * (Cardinality(Loop) - Cardinality(Committed(o)))

\* Every row that waits is eventually done, failed or deleted, or its org has no
\* tokens and the row is held: no row is stuck or starved by other orgs' rows,
\* and a held row is not forgotten when the wallet is filled (it settles, or is
\* held again for an empty wallet).
QueueDrains ==
    \A j \in Job :
        status[j] \in Active ~>
            \/ status[j] \in {"done", "failed", "gone"}
            \/ status[j] = "paused" /\ wallet[JobOrg(j)] <= 0

\* No loop is alive in the middle of a job.
AtRest == \A w \in Loop : pc[w] \in {"idle", "snap", "pick"}

\* "One charge for every success" (comment of chargeScreeningSuccess).
EverySuccessCharged ==
    AtRest => \A j \in scored :
        status[j] = "done" /\ OrgOf[cand[j]] \notin Unmetered
          /\ rep[cand[j]] = "none" => j \in charged

\* A claim never takes an org beyond its fair share of the moment (comment of
\* atomicClaimNext: "concurrent claims keep the cap exactly").
FairClaims ==
    [][\A j \in Job : status[j] = "queued" /\ status'[j] = "processing" =>
         Cardinality(ProcessingOf(JobOrg(j))) < FairShare]_vars

\* The evaluation of a closed candidate does not start again (cleanupOnClose:
\* otherwise "the worker picks it up, calls the LLM and charges tokens").
WithdrawnNotRestarted ==
    [][\A j \in withdrawn : status'[j] = "processing" => status[j] = "processing"]_vars

-----------------------------------------------------------------------------
(* What the queue promises, without workers, locks and requests.           *)

Stage(j) == CASE status[j] = "free" -> "unused"
              [] status[j] \in {"queued", "paused"} -> "waiting"
              [] status[j] = "processing" -> "running"
              [] status[j] \in {"done", "failed", "gone"} -> "over"

Pool == INSTANCE EvaluationPool WITH
            Slots <- MaxConcurrency, Nobody <- NoCandidate,
            stage <- [j \in Job |-> Stage(j)], subject <- cand, paid <- charged

\* Without statement faults, the queue implements the abstract pool: one live
\* evaluation per candidate, bounded slots, ended evaluations never restart and
\* only ended evaluations are paid, once.
ImplementsPool == Pool!Spec
=============================================================================
