---------------------------- MODULE JobPostings ----------------------------
(***************************************************************************)
(* The life of one posting: drafted or published, made regular, extended   *)
(* for tokens, closed, reopened and deleted by recruiters, swept by the    *)
(* daily job, and the applicants' files that must not outlive their rows.  *)
(* Every read and every write of a request is a step, and a request or a   *)
(* job may be killed after any of them.                                    *)
(*                                                                         *)
(* Time is counted in fortnights: a posting is open for two of them, an    *)
(* extension adds two, a file counts as stray after two.  The seven days   *)
(* of the drafts and of the files are one as well.  The ledger is the set  *)
(* of its keys, as TokenLedger shows that none is charged twice.  A        *)
(* decision about a candidate is one step (CandidateDecisions has them     *)
(* all), and so is the rejection of everybody when a posting is closed.    *)
(***************************************************************************)
EXTENDS Naturals, FiniteSets

CONSTANTS
    Candidate,      \* people who may apply, once each
    Request,        \* invocations of recruiters alive at once
    MaxExtensions,  \* bound of the extensions that are begun
    LastDay,        \* fortnights until time stops; the last three without applications
    Patient,        \* a fortnight begins between requests only (fewer states)
    Breaker         \* stray files above which the weekly job deletes none

ASSUME JobAssumption ==
    MaxExtensions \in Nat /\ LastDay \in Nat /\ Patient \in BOOLEAN /\ Breaker \in Nat

Post == <<"job", 1>>
Keys == {Post} \cup {<<"job_extension", n>> : n \in 1..MaxExtensions}
DEFAULT_JOB_DURATION == 2
EXTENSION == 2

VARIABLES
    status,     \* of the posting: none, active, closed, or gone (no row)
    draft,      \* isDraft
    young,      \* it was created less than five minutes ago
    today,      \* in fortnights since then
    closesAt,
    closedAt,
    extensions, \* extensionCount
    state,      \* of each candidate: none, sent, open, rejected, hired, gone
    linked,     \* candidates whose row names their files
    stored,     \* candidates whose files are in the store
    sentOn,     \* the day of each upload
    charged,    \* keys of the ledger
    refunded,
    pc,         \* of each request: its label,
    read,       \*   and what it has read of the row
    sweep, list,  \* the daily job: its label, what it has selected
    weekly, known,  \* the weekly job: its label, the files rows name
    late,       \* history: candidates who came (back) after a closing had begun
    unpaid      \* history: a request was killed before it charged the posting

posting == <<status, draft, young, closesAt, closedAt, extensions>>
people  == <<state, linked, stored, sentOn>>
money   == <<charged, refunded>>
request == <<pc, read>>
history == <<late, unpaid>>
job     == <<sweep, list>>
strays  == <<weekly, known>>
vars    == <<posting, today, people, money, request, job, strays, history>>

Label == {"idle", "charge post", "make regular", "count", "charge extension", "extend",
          "reject", "shut", "reopen", "files", "delete", "refund"}
Phase == {"idle", "old", "purge old", "pdf", "purge pdf", "pii", "purge pii", "expired",
          "delete expired", "drafts", "delete drafts"}

Exists == status \in {"active", "closed"}
Rows == {c \in Candidate : state[c] \in {"open", "rejected", "hired"}}
isJobExpired == status = "active" /\ closesAt <= today
NotHired == {c \in Rows : state[c] # "hired"}

Goto(r, l) == pc' = [pc EXCEPT ![r] = l] /\ UNCHANGED read
Nothing == [closesAt |-> 0, extensions |-> 0]
End(r) == pc' = [pc EXCEPT ![r] = "idle"] /\ read' = [read EXCEPT ![r] = Nothing]

Init ==
    /\ status = "none" /\ draft = FALSE /\ young = TRUE /\ today = 0
    /\ closesAt = 0 /\ closedAt = 0 /\ extensions = 0
    /\ state = [c \in Candidate |-> "none"] /\ sentOn = [c \in Candidate |-> 0]
    /\ linked = {} /\ stored = {}
    /\ charged = {} /\ refunded = FALSE
    /\ pc = [r \in Request |-> "idle"] /\ read = [r \in Request |-> Nothing]
    /\ sweep = "idle" /\ list = {} /\ weekly = "idle" /\ known = {}
    /\ late = {} /\ unpaid = FALSE

-----------------------------------------------------------------------------
(* Files.  A deletion that fails is ignored: the row forgets the file, the *)
(* store does not.                                                         *)

Drop(S) ==
    /\ linked' = linked \ S
    /\ \E failed \in SUBSET (S \cap stored) : stored' = stored \ (S \ failed)

\* The posting's row is deleted, and with it (cascade) its candidates'.
DeleteRow ==
    /\ status' = IF Exists THEN "gone" ELSE status
    /\ state' = [c \in Candidate |-> IF c \in Rows THEN "gone" ELSE state[c]]
    /\ UNCHANGED <<draft, young, closesAt, closedAt, extensions>>

-----------------------------------------------------------------------------
(* Creation.                                                               *)

\* POST /api/jobs, or /api/jobs/draft, which is not charged.
Create(r, asDraft) ==
    /\ pc[r] = "idle" /\ status = "none" /\ today = 0
    /\ status' = "active" /\ draft' = asDraft /\ closesAt' = DEFAULT_JOB_DURATION
    /\ IF asDraft THEN UNCHANGED request ELSE Goto(r, "charge post")
    /\ UNCHANGED <<young, closedAt, extensions, today, people, money, job, strays, history>>

ChargePost(r) ==
    /\ pc[r] = "charge post"
    /\ charged' = charged \cup {Post} /\ End(r)
    /\ UNCHANGED <<posting, today, people, refunded, job, strays, history>>

\* Mutant: finalizing a draft charges nothing.
FinalizeFree(r) ==
    /\ pc[r] = "make regular"
    /\ draft' = (draft /\ ~Exists) /\ End(r)
    /\ UNCHANGED <<status, young, closesAt, closedAt, extensions, today, people, money,
                   job, strays, history>>

\* PUT of a draft with everything filled in.
FinalizeRead(r) ==
    /\ pc[r] = "idle" /\ Exists /\ draft
    /\ Goto(r, "make regular")
    /\ UNCHANGED <<posting, today, people, money, job, strays, history>>

Finalize(r) ==
    /\ pc[r] = "make regular"
    /\ IF Exists THEN draft' = FALSE /\ Goto(r, "charge post") ELSE UNCHANGED draft /\ End(r)
    /\ UNCHANGED <<status, young, closesAt, closedAt, extensions, today, people, money,
                   job, strays, history>>

-----------------------------------------------------------------------------
(* Extension.                                                              *)

ExtendRead(r) ==
    /\ pc[r] = "idle" /\ Exists /\ extensions < MaxExtensions
    /\ status = "active" => closesAt <= today + 1
    /\ pc' = [pc EXCEPT ![r] = "count"]
    /\ read' = [read EXCEPT ![r] = [closesAt |-> closesAt, extensions |-> extensions]]
    /\ UNCHANGED <<posting, today, people, money, job, strays, history>>

Billable == {c \in Candidate : state[c] \in {"open", "hired"}}

\* Without resumes nothing is extended, nor with less tokens than they cost.
Count(r) ==
    /\ pc[r] = "count"
    /\ \/ Billable # {} /\ Goto(r, "charge extension")
       \/ End(r)
    /\ UNCHANGED <<posting, today, people, money, job, strays, history>>

\* Mutant: every extension has one key.
SameKey(r) == <<"job_extension", 1>>
ExtensionKey(r) == <<"job_extension", read[r].extensions + 1>>

ChargeExtension(r) ==
    /\ pc[r] = "charge extension"
    /\ charged' = charged \cup {ExtensionKey(r)} /\ Goto(r, "extend")
    /\ UNCHANGED <<posting, today, people, refunded, job, strays, history>>

Extend(r) ==
    /\ pc[r] = "extend"
    /\ IF Exists
       THEN /\ status' = "active" /\ closedAt' = 0
            /\ closesAt' = read[r].closesAt + EXTENSION
            /\ extensions' = read[r].extensions + 1
       ELSE UNCHANGED <<status, closedAt, closesAt, extensions>>
    /\ End(r)
    /\ UNCHANGED <<draft, young, today, people, money, job, strays, history>>

-----------------------------------------------------------------------------
(* Closing, reopening and deleting.                                        *)

CloseRead(r) ==
    /\ pc[r] = "idle" /\ status = "active"
    /\ Goto(r, "reject")
    /\ UNCHANGED <<posting, today, people, money, job, strays, history>>

\* Mutant: a draft closes without decisions.
Evaluated == {c \in Rows : state[c] = "open" /\ ~draft}
Undecided == {c \in Rows : state[c] = "open"}

CloseReject(r) ==
    /\ pc[r] = "reject"
    /\ state' = [c \in Candidate |-> IF c \in Undecided THEN "rejected" ELSE state[c]]
    /\ Drop(Undecided) /\ Goto(r, "shut")
    /\ UNCHANGED <<posting, today, sentOn, money, job, strays, history>>

CloseShut(r) ==
    /\ pc[r] = "shut"
    /\ IF Exists THEN status' = "closed" /\ closedAt' = today
                 ELSE UNCHANGED <<status, closedAt>>
    /\ End(r)
    /\ UNCHANGED <<draft, young, closesAt, extensions, today, people, money, job, strays, history>>

ReopenRead(r) ==
    /\ pc[r] = "idle" /\ status = "closed" /\ closesAt > today
    /\ Goto(r, "reopen")
    /\ UNCHANGED <<posting, today, people, money, job, strays, history>>

Reopen(r) ==
    /\ pc[r] = "reopen"
    /\ IF Exists THEN status' = "active" /\ closedAt' = 0 ELSE UNCHANGED <<status, closedAt>>
    /\ End(r)
    /\ UNCHANGED <<draft, young, closesAt, extensions, today, people, money, job, strays, history>>

DeleteRead(r) ==
    /\ pc[r] = "idle" /\ Exists
    /\ Goto(r, "files")
    /\ UNCHANGED <<posting, today, people, money, job, strays, history>>

DeleteFiles(r) ==
    /\ pc[r] = "files"
    /\ \E failed \in SUBSET (Rows \cap linked \cap stored) :
          stored' = stored \ ((Rows \cap linked) \ failed)
    /\ Goto(r, "delete")
    /\ UNCHANGED <<posting, today, state, linked, sentOn, money, job, strays, history>>

Delete(r) ==
    /\ pc[r] = "delete"
    /\ DeleteRow /\ linked' = {} /\ Goto(r, "refund")
    /\ UNCHANGED <<today, stored, sentOn, money, job, strays, history>>

RefundDue == young /\ Post \in charged

\* A posting that was just created is refunded, three times a day.
Refund(r) ==
    /\ pc[r] = "refund"
    /\ \/ RefundDue /\ refunded' = TRUE
       \/ UNCHANGED refunded
    /\ End(r)
    /\ UNCHANGED <<posting, today, people, charged, job, strays, history>>

-----------------------------------------------------------------------------
(* Candidates.                                                             *)

\* The files are uploaded first ...
Send(c) ==
    /\ state[c] = "none" /\ status = "active" /\ ~isJobExpired /\ today + 3 <= LastDay
    /\ state' = [state EXCEPT ![c] = "sent"] /\ sentOn' = [sentOn EXCEPT ![c] = today]
    /\ stored' = stored \cup {c}
    /\ UNCHANGED <<posting, today, linked, money, request, job, strays, history>>

\* A closing has begun, or is over.
ClosingBegan == status = "closed" \/ \E r \in Request : pc[r] = "shut"

\* ... then the row is inserted, which a deleted posting refuses.
Apply(c) ==
    /\ state[c] = "sent"
    /\ IF Exists
       THEN /\ state' = [state EXCEPT ![c] = "open"] /\ linked' = linked \cup {c}
            /\ late' = IF ClosingBegan THEN late \cup {c} ELSE late
       ELSE state' = [state EXCEPT ![c] = "gone"] /\ UNCHANGED <<linked, late>>
    /\ UNCHANGED <<posting, today, stored, sentOn, money, request, job, strays, unpaid>>

ApplyDies(c) ==
    /\ state[c] = "sent"
    /\ state' = [state EXCEPT ![c] = "gone"]
    /\ UNCHANGED <<posting, today, linked, stored, sentOn, money, request, job, strays, history>>

Hire(c) ==
    /\ state[c] = "open"
    /\ state' = [state EXCEPT ![c] = "hired"]
    /\ UNCHANGED <<posting, today, linked, stored, sentOn, money, request, job, strays, history>>

Reject(c) ==
    /\ state[c] = "open"
    /\ state' = [state EXCEPT ![c] = "rejected"] /\ Drop({c})
    /\ UNCHANGED <<posting, today, sentOn, money, request, job, strays, history>>

\* The decision about a candidate is taken back, in a closed posting as well.
Revive(c) ==
    /\ state[c] \in {"rejected", "hired"}
    /\ state' = [state EXCEPT ![c] = "open"]
    /\ late' = IF ClosingBegan THEN late \cup {c} ELSE late
    /\ UNCHANGED <<posting, today, linked, stored, sentOn, money, request, job, strays, unpaid>>

-----------------------------------------------------------------------------
(* The daily job: purgeExpiredOriginals, then those of runLifecycleSweep,  *)
(* one after another, each of which selects and then acts on what it has   *)
(* selected.                                                               *)

SweepGoto(l) == sweep' = l

SweepBegin ==
    /\ sweep = "idle" /\ weekly = "idle" /\ Exists
    /\ SweepGoto("old")
    /\ UNCHANGED <<posting, today, people, money, request, list, strays, history>>

\* Of what is not selected nothing is done.
Select(phase, what, act, next) ==
    /\ sweep = phase
    /\ list' = what
    /\ SweepGoto(IF what = {} THEN next ELSE act)
    /\ UNCHANGED <<posting, today, people, money, request, strays, history>>

LongClosed == status = "closed" /\ closedAt < today
Abandoned ==
    status = "active" /\ closesAt + 1 <= today /\ \A c \in Rows : state[c] # "hired"

OldEnough(c) == sentOn[c] + 2 <= today

\* After a month the files of everybody who was not hired go, whatever has been
\* decided, unless their text was never read.
SelectOld ==
    \E parsed \in SUBSET NotHired :
        Select("old", {c \in parsed : OldEnough(c)}, "purge old", "pdf")
SelectPdf == Select("pdf", IF LongClosed THEN NotHired ELSE {}, "purge pdf", "pii")
SelectPii == Select("pii", IF LongClosed THEN NotHired ELSE {}, "purge pii", "expired")
SelectExpired == Select("expired", IF Abandoned THEN {"posting"} ELSE {}, "delete expired", "drafts")
SelectDrafts ==
    Select("drafts", IF Exists /\ draft /\ today > 0 THEN {"posting"} ELSE {}, "delete drafts", "idle")

PurgeOld ==
    /\ sweep = "purge old"
    /\ Drop(list) /\ list' = {} /\ SweepGoto("pdf")
    /\ UNCHANGED <<posting, today, state, sentOn, money, request, strays, history>>

PurgePdf ==
    /\ sweep = "purge pdf"
    /\ Drop(list) /\ list' = {} /\ SweepGoto("pii")
    /\ UNCHANGED <<posting, today, state, sentOn, money, request, strays, history>>

PurgePii ==
    /\ sweep = "purge pii"
    /\ Drop(list) /\ state' = [c \in Candidate |-> IF c \in list THEN "gone" ELSE state[c]]
    /\ list' = {} /\ SweepGoto("expired")
    /\ UNCHANGED <<posting, today, sentOn, money, request, strays, history>>

\* The files of an expired posting's candidates are left to the weekly job.
DeleteExpired ==
    /\ sweep = "delete expired"
    /\ DeleteRow /\ linked' = {}
    /\ list' = {} /\ SweepGoto("drafts")
    /\ UNCHANGED <<today, stored, sentOn, money, request, strays, history>>

DeleteDrafts ==
    /\ sweep = "delete drafts"
    /\ DeleteRow /\ Drop(Rows)
    /\ list' = {} /\ SweepGoto("idle")
    /\ UNCHANGED <<today, sentOn, money, request, strays, history>>

-----------------------------------------------------------------------------
(* The weekly job deletes old files that no row names.                     *)

Deletable == {c \in stored \ known : OldEnough(c)}

\* It is called at four, half an hour after the daily one (vercel.json), and
\* neither runs that long.  A run that finds no old file is left out.
OrphanRead ==
    /\ weekly = "idle" /\ sweep = "idle" /\ \E c \in stored : OldEnough(c)
    /\ known' = linked /\ weekly' = "delete"
    /\ UNCHANGED <<posting, today, people, money, request, job, history>>

OrphanDelete(failed) ==
    /\ weekly = "delete"
    /\ stored' = IF Cardinality(Deletable) > Breaker THEN stored
                 ELSE stored \ (Deletable \ failed)
    /\ weekly' = "idle" /\ known' = {}
    /\ UNCHANGED <<posting, today, state, linked, sentOn, money, request, job, history>>

-----------------------------------------------------------------------------
(* Time, and kills.                                                        *)

Age ==
    /\ status # "none" /\ young
    /\ young' = FALSE
    /\ UNCHANGED <<status, draft, closesAt, closedAt, extensions, today, people, money,
                   request, job, strays, history>>

\* Nothing that runs outlives five minutes.
Quiet ==
    /\ sweep = "idle" /\ weekly = "idle"
    /\ \A r \in Request : pc[r] = "idle"
    /\ \A c \in Candidate : state[c] # "sent"

Tick ==
    /\ ~young /\ today < LastDay /\ (Patient => Quiet)
    /\ today' = today + 1
    /\ UNCHANGED <<posting, people, money, request, job, strays, history>>

Die(r) ==
    /\ pc[r] # "idle" /\ End(r)
    /\ unpaid' = (unpaid \/ pc[r] = "charge post")
    /\ UNCHANGED <<posting, today, people, money, job, strays, late>>

SweepDies ==
    /\ sweep # "idle"
    /\ sweep' = "idle" /\ list' = {}
    /\ UNCHANGED <<posting, today, people, money, request, strays, history>>

-----------------------------------------------------------------------------
RequestStep(r) ==
    \/ Create(r, TRUE) \/ Create(r, FALSE) \/ ChargePost(r)
    \/ FinalizeRead(r) \/ Finalize(r)
    \/ ExtendRead(r) \/ Count(r) \/ ChargeExtension(r) \/ Extend(r)
    \/ CloseRead(r) \/ CloseReject(r) \/ CloseShut(r) \/ ReopenRead(r) \/ Reopen(r)
    \/ DeleteRead(r) \/ DeleteFiles(r) \/ Delete(r) \/ Refund(r)
    \/ Die(r)

CandidateStep(c) ==
    Send(c) \/ Apply(c) \/ ApplyDies(c) \/ Hire(c) \/ Reject(c) \/ Revive(c)

SweepStep ==
    \/ SweepBegin \/ SelectOld \/ SelectPdf \/ SelectPii \/ SelectExpired \/ SelectDrafts
    \/ PurgeOld \/ PurgePdf \/ PurgePii \/ DeleteExpired \/ DeleteDrafts

Next ==
    \/ \E r \in Request : RequestStep(r)
    \/ \E c \in Candidate : CandidateStep(c)
    \/ SweepStep \/ SweepDies
    \/ OrphanRead \/ \E failed \in SUBSET Deletable : OrphanDelete(failed)
    \/ Age \/ Tick

Spec == Init /\ [][Next]_vars
\* Time passes; a sweep ends, if only at its time limit; the weekly job is
\* called (vercel.json), and the store does not fail to delete for ever.
FairSpec ==
    /\ Spec /\ WF_vars(Age) /\ WF_vars(Tick) /\ WF_vars(SweepDies)
    /\ SF_vars(OrphanRead) /\ SF_vars(OrphanDelete({}))
    /\ \A c \in Candidate : WF_vars(Apply(c) \/ ApplyDies(c))

-----------------------------------------------------------------------------
(* Properties.                                                             *)

TypeOK ==
    /\ status \in {"none", "active", "closed", "gone"} /\ draft \in BOOLEAN /\ young \in BOOLEAN
    /\ today \in 0..LastDay /\ closedAt \in 0..today
    /\ closesAt \in 0..(DEFAULT_JOB_DURATION + MaxExtensions * EXTENSION)
    /\ extensions \in 0..MaxExtensions
    /\ state \in [Candidate -> {"none", "sent", "open", "rejected", "hired", "gone"}]
    /\ linked \subseteq Rows /\ stored \subseteq {c \in Candidate : state[c] # "none"}
    /\ sentOn \in [Candidate -> 0..today]
    /\ charged \subseteq Keys /\ refunded \in BOOLEAN
    /\ pc \in [Request -> Label]
    /\ \A r \in Request : read[r].extensions \in 0..MaxExtensions
    /\ sweep \in Phase /\ list \subseteq Candidate \cup {"posting"}
    /\ weekly \in {"idle", "delete"} /\ known \subseteq Candidate
    /\ late \subseteq Candidate /\ unpaid \in BOOLEAN

\* Every extension a posting has was paid for (job-lifecycle.ts:176-181), and
\* its closing date is the one they add up to, however requests overtake each
\* other and whichever is killed between the charge and the UPDATE.
ExtensionsArePaid ==
    /\ {<<"job_extension", n>> : n \in 1..extensions} \subseteq charged
    /\ status # "none" => closesAt = DEFAULT_JOB_DURATION + extensions * EXTENSION

\* "The candidates still open are all rejected" when a posting is closed
\* (job-lifecycle.ts:328): whoever is undecided in a closed posting came, or
\* came back, after the closing had begun.
ClosedIsDecided ==
    status = "closed" => \A c \in Candidate : state[c] = "open" => c \in late

\* A regular posting is paid for, once and for all: the draft is charged when
\* it is made regular (jobs/[id]/route.ts:104-105), and nothing is given back
\* while the posting is there.  Only a request killed between the row and the
\* charge leaves a posting that nobody charges any more.
RegularIsPaid ==
    Exists /\ ~draft =>
        /\ Post \in charged \/ unpaid \/ \E r \in Request : pc[r] = "charge post"
        /\ ~refunded

\* No file outlives the row that named it: what a failed deletion, a cascade
\* or a broken upload leaves, the weekly job finds.
FilesGo == \A c \in Candidate : c \in stored \ linked ~> c \notin stored \ linked
=============================================================================
