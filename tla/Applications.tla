---------------------------- MODULE Applications ----------------------------
(***************************************************************************)
(* Applications for one posting: the public form with its duplicate checks *)
(* (same file, same phone number, same e-mail), the report by which the    *)
(* owner of a phone number replaces an application made in his name, the   *)
(* recruiter's upload, and what an evaluation does to the rows: it fills   *)
(* in a phone number the form left open and removes a resume whose text is *)
(* already there.  A statement may throw, with or without effect, and a    *)
(* request may be killed after any of them.  The bytes and the text of a   *)
(* resume are left open: any insertion may meet the same bytes, any two    *)
(* parsed rows may have the same text.  Left out are names, the e-mail a   *)
(* resume tells, attachments, limits, the queue (a recruiter may ask for   *)
(* an evaluation at any time), deletion by a recruiter and the code sent   *)
(* to the phone: a form has a valid ticket for its number or not.          *)
(***************************************************************************)
EXTENDS Naturals

CONSTANTS
    Request,    \* invocations alive at once
    Phone, Email,
    MaxId,      \* bound: rows ever inserted
    None        \* no row, no phone number, no e-mail, no request

Id == 1 .. MaxId

Row == [phone : Phone \cup {None}, email : Email \cup {None},
        parsed : BOOLEAN,                \* resume_content_hash is set
        reported : Request \cup {None},  \* identity_reported_at: whose time it is
        new : Id \cup {0},               \* identity_report_new_candidate_id
        isReport : BOOLEAN]              \* identity_report_of is set
Form == [phone : Phone \cup {None}, email : Email \cup {None}]

ASSUME ApplicationsAssumption ==
    /\ MaxId \in Nat
    /\ None \notin Request \cup Phone \cup Email \cup Row \cup Form

Label == {"idle", "claim", "insert", "recheck", "withdraw", "release", "link"}

VARIABLES
    row,        \* candidates by id
    last,       \* the last id that was given
    pc,         \* of each request: its label,
    form,       \*   what was sent,
    claim,      \*   the rows it reports,
    mine,       \*   the row it has inserted
    eval,       \* the row an evaluation is about to remove, or 0
    heir,       \* history: the earlier row a row was found to repeat
    excused,    \* history: rows whose request was not told of the insertion, or
                \*   broke off before it had looked again, or that were reported
                \*   and taken back, or uploaded
    abandoned   \* history: rows whose report was neither undone nor finished

rows    == <<row, last>>
request == <<pc, form, claim, mine>>
history == <<heir, excused, abandoned>>
vars    == <<rows, request, eval, history>>

Exists(i)   == row[i] # None
Rows        == {i \in Id : Exists(i)}
Unreported  == {i \in Rows : row[i].reported = None}

Init ==
    /\ row = [i \in Id |-> None] /\ last = 0
    /\ pc = [r \in Request |-> "idle"] /\ form = [r \in Request |-> None]
    /\ claim = [r \in Request |-> {}] /\ mine = [r \in Request |-> 0]
    /\ eval = 0
    /\ heir = [i \in Id |-> 0] /\ excused = {} /\ abandoned = {}

Goto(r, l) == pc' = [pc EXCEPT ![r] = l]
End(r) ==
    /\ Goto(r, "idle")
    /\ form' = [form EXCEPT ![r] = None] /\ claim' = [claim EXCEPT ![r] = {}]
    /\ mine' = [mine EXCEPT ![r] = 0]
Step(r, l) == Goto(r, l) /\ UNCHANGED <<form, claim, mine>>

Remove(i) ==
    /\ row' = [row EXCEPT ![i] = None]
    /\ excused' = excused \ {i} /\ abandoned' = abandoned \ {i}

\* The UPDATEs of a report.
Mark(S, r) ==
    row' = [i \in Id |-> IF i \in S THEN [row[i] EXCEPT !.reported = r] ELSE row[i]]
Name(S, n) ==
    row' = [i \in Id |-> IF i \in S THEN [row[i] EXCEPT !.new = n] ELSE row[i]]

-----------------------------------------------------------------------------
(* The checks that come first.                                             *)

\* findPhoneMatches.
Matches(p) == {i \in Rows : p # None /\ row[i].phone = p}

\* reportEligible: a number is reported once.
MayReport(S) == S # {} /\ \A i \in S : row[i].reported = None /\ ~row[i].isReport

\* The reads that come first, in one step: the file is new, and so is the
\* number, or its owner reports the rows that have it; an e-mail that only
\* those have is new.
Begin(r, f, ticket) ==
    LET S == Matches(f.phone) IN
    /\ pc[r] = "idle" /\ f.email # None
    /\ S = {} \/ (ticket /\ MayReport(S))
    /\ \A i \in Rows \ S : row[i].email # f.email
    /\ Goto(r, IF S # {} THEN "claim" ELSE "insert")
    /\ form' = [form EXCEPT ![r] = f] /\ claim' = [claim EXCEPT ![r] = S]
    /\ UNCHANGED <<rows, mine, eval, history>>

\* claimIdentityReport: of the rows that were read, those nobody has reported.
Claim(r) ==
    LET won == claim[r] \cap Unreported IN
    /\ pc[r] = "claim"
    /\ Mark(won, r)
    /\ IF won = {} THEN End(r)
       ELSE /\ Goto(r, "insert") /\ claim' = [claim EXCEPT ![r] = won]
            /\ UNCHANGED <<form, mine>>
    /\ UNCHANGED <<last, eval, history>>

-----------------------------------------------------------------------------
(* The row.                                                                *)

\* identity_report_of tells whether it replaces reported rows.
InsertRow(f, isReport) ==
    /\ last < MaxId
    /\ row' = [row EXCEPT ![last + 1] =
         [phone |-> f.phone, email |-> f.email, parsed |-> FALSE,
          reported |-> None, new |-> 0, isReport |-> isReport]]
    /\ last' = last + 1

Insert(r) ==
    /\ pc[r] = "insert" /\ InsertRow(form[r], claim[r] # {})
    /\ Goto(r, "recheck") /\ mine' = [mine EXCEPT ![r] = last + 1]
    /\ UNCHANGED <<form, claim, eval, history>>

\* Mutant: the report is not taken back.
Forget(r) == End(r)

\* The catch block of a request that knows of no row takes its report back.
Undo(r) == IF claim[r] = {} THEN End(r) ELSE Step(r, "release")

\* Somebody else has sent the same file (the unique index of job_id and
\* resume_hash), or the database is gone; the row may be there all the same.
InsertThrows(r) ==
    /\ pc[r] = "insert" /\ Undo(r)
    /\ \/ UNCHANGED <<rows, excused>>
       \/ InsertRow(form[r], claim[r] # {}) /\ excused' = excused \cup {last + 1}
    /\ UNCHANGED <<eval, heir, abandoned>>

\* Mutant: the request does not look again.
Nothing(i, e) == {}
\* Mutant: the later of two is taken for the earlier, too.
EarlierOrLater(i, e) == {j \in Unreported \ {i} : row[j].email = e}

\* Of two that were inserted at once the later one gives way.
Earlier(i, e) == {j \in Unreported : j < i /\ row[j].email = e}

Finish(r) == IF claim[r] = {} THEN End(r) ELSE Step(r, "link")

LookAgain(r) ==
    LET S == Earlier(mine[r], form[r].email) IN
    /\ pc[r] = "recheck"
    /\ IF S = {} THEN Finish(r) /\ UNCHANGED heir
       ELSE /\ Step(r, "withdraw")
            /\ \E j \in S : heir' = [heir EXCEPT ![mine[r]] = j]
    /\ UNCHANGED <<rows, eval, excused, abandoned>>

Withdraw(r) ==
    /\ pc[r] = "withdraw" /\ Remove(mine[r])
    /\ IF claim[r] # {} THEN Step(r, "release") ELSE End(r)
    /\ UNCHANGED <<last, eval, heir>>

\* releaseIdentityReport.
Released(r) == {i \in claim[r] \cap Rows : row[i].reported = r /\ row[i].new = 0}
Release(r) ==
    LET S == Released(r) IN
    /\ pc[r] = "release"
    /\ Mark(S, None)
    /\ excused' = excused \cup S /\ End(r)
    /\ UNCHANGED <<last, eval, heir, abandoned>>

\* finalizeIdentityReport.
Link(r) ==
    /\ pc[r] = "link" /\ Name(claim[r] \cap Rows, mine[r]) /\ End(r)
    /\ UNCHANGED <<last, eval, history>>

-----------------------------------------------------------------------------
(* Faults.                                                                 *)

Unsure(r)  == IF pc[r] \in {"recheck", "withdraw"} THEN {mine[r]} \cap Rows ELSE {}
Pending(r) == IF pc[r] \in {"idle", "claim"} THEN {} ELSE claim[r] \cap Rows

\* The catch block of a request that has inserted a row makes its report final,
\* although the row may be a duplicate, or withdrawn already.
Throw(r) ==
    /\ pc[r] \in {"recheck", "withdraw", "release"} /\ mine[r] # 0
    /\ Finish(r)
    /\ excused' = excused \cup Unsure(r)
    /\ abandoned' = IF pc[r] = "release" THEN abandoned \cup Pending(r) ELSE abandoned
    /\ UNCHANGED <<rows, eval, heir>>

\* The request is killed, or the statement that undoes or ends a report throws.
Quit(r) ==
    /\ pc[r] # "idle" /\ End(r)
    /\ excused' = excused \cup Unsure(r) /\ abandoned' = abandoned \cup Pending(r)
    /\ UNCHANGED <<rows, eval, heir>>

-----------------------------------------------------------------------------
(* Recruiters and the evaluation.                                          *)

\* processGroup looks at the file only.
Upload ==
    /\ InsertRow([phone |-> None, email |-> None], FALSE)
    /\ excused' = excused \cup {last + 1}
    /\ UNCHANGED <<request, eval, heir, abandoned>>

\* A reported row is not evaluated.  ensureParsed: what the form left open is
\* filled in from the resume.
FillIn(i, p) ==
    row' = [row EXCEPT ![i].parsed = TRUE, ![i].phone = IF @ = None THEN p ELSE @]
Parse(i, p) ==
    /\ i \in Unreported /\ ~row[i].parsed /\ FillIn(i, p)
    /\ UNCHANGED <<last, request, eval, history>>

\* Of a text that an earlier row has too.
LookForText(i) ==
    /\ eval = 0 /\ i \in Unreported /\ row[i].parsed
    /\ \E j \in {k \in Unreported : k < i /\ row[k].parsed} : heir' = [heir EXCEPT ![i] = j]
    /\ eval' = i
    /\ UNCHANGED <<rows, request, excused, abandoned>>

RemoveDuplicate ==
    /\ eval # 0 /\ Remove(eval) /\ eval' = 0
    /\ UNCHANGED <<last, request, heir>>

\* The worker dies first.
EvaluationEnds ==
    /\ eval # 0 /\ eval' = 0
    /\ UNCHANGED <<rows, request, history>>

-----------------------------------------------------------------------------
Apply(r) ==
    \/ \E f \in Form, ticket \in BOOLEAN : Begin(r, f, ticket)
    \/ Claim(r) \/ Insert(r) \/ InsertThrows(r)
    \/ LookAgain(r) \/ Withdraw(r) \/ Release(r) \/ Link(r)
    \/ Throw(r) \/ Quit(r)
Evaluation ==
    \/ \E i \in Id, p \in Phone \cup {None} : Parse(i, p)
    \/ \E i \in Id : LookForText(i)
    \/ RemoveDuplicate \/ EvaluationEnds

Next ==
    \/ \E r \in Request : Apply(r)
    \/ Upload \/ Evaluation

Spec == Init /\ [][Next]_vars

-----------------------------------------------------------------------------
RowTypes == row \in [Id -> Row \cup {None}] /\ last \in 0 .. MaxId
RequestTypes ==
    /\ pc \in [Request -> Label] /\ form \in [Request -> Form \cup {None}]
    /\ claim \in [Request -> SUBSET Id] /\ mine \in [Request -> Id \cup {0}]
OtherTypes ==
    /\ eval \in Id \cup {0} /\ heir \in [Id -> Id \cup {0}]
    /\ excused \subseteq Id /\ abandoned \subseteq Id

TypeOK == RowTypes /\ RequestTypes /\ OtherTypes

\* A row whose request has still to look again, or to withdraw it.
Rechecking(i) == \E r \in Request : mine[r] = i /\ pc[r] \in {"recheck", "withdraw"}

(* Two applications that may be evaluated have two e-mails, whatever the   *)
(* order in which their requests looked and inserted, unless the later one *)
(* is about to give way or one of them never got to look again.            *)
OneApplication ==
    \A i, j \in Unreported : i < j /\ row[i].email = row[j].email /\ row[i].email # None =>
        Rechecking(j) \/ {i, j} \cap excused # {}

(* Nobody is lost: when rows are removed because an earlier row repeats    *)
(* them, by e-mail or by text, one of those they give way to, directly or  *)
(* not, is there.                                                          *)
SomebodyIsKept ==
    \A i \in 1 .. last, S \in SUBSET Id :
        (i \in S /\ \A k \in S : heir[k] # 0 => heir[k] \in S) => S \cap Rows # {}

\* A request that has still to replace the row or to take the report back.
Held(i) == \E r \in Request : i \in Pending(r)

(* A row that is marked as an application in another's name, and so is     *)
(* evaluated no more, has its replacement, or the request that reports it  *)
(* is still under way, or was killed or failed while undoing.              *)
ReportedIsReplaced ==
    \A i \in Rows : row[i].reported # None =>
        Held(i) \/ i \in abandoned \/ row[i].new # 0

(* False of the code: the number is the main key of an application.  It is *)
(* looked for before the insertion only, not after it.                     *)
OneNumber ==
    \A i, j \in Unreported : i # j /\ row[i].phone = row[j].phone /\ row[i].phone # None =>
        \E k \in {i, j} : k \in excused \/ row[k].parsed \/ Rechecking(k)

(* False of the code: a number is used for one report.  Two rows of one    *)
(* number can each be claimed by a request of its own.                     *)
OneReport ==
    \A i, j \in Rows : i # j /\ row[i].isReport /\ row[j].isReport => row[i].phone # row[j].phone
=============================================================================
