------------------------- MODULE ApplicationsProofs -------------------------
(***************************************************************************)
(* The safety properties of Applications, for any number of requests,      *)
(* phone numbers, e-mails and rows, with statements that throw and         *)
(* requests that are killed anywhere.                                      *)
(***************************************************************************)
EXTENDS Applications, WellFoundedInduction, TLAPS

\* Ids are given in order.
Given(r) == mine[r] <= last /\ \A i \in claim[r] : i <= last
Below ==
    /\ \A i \in Id : i > last => row[i] = None
    /\ \A r \in Request : Given(r)

\* A row goes only after it has given way to an earlier one.
Heirs ==
    /\ \A k \in Id : heir[k] # 0 => heir[k] < k
    /\ \A k \in Id : k <= last /\ heir[k] = 0 => row[k] # None
    /\ eval # 0 => heir[eval] # 0
    /\ \A r \in Request : pc[r] = "withdraw" => heir[mine[r]] # 0

\* A request knows what was sent and, once it is there, its row.
Knows(r) ==
    /\ pc[r] \in {"claim", "insert", "recheck"} => form[r] # None
    /\ pc[r] \in {"recheck", "withdraw", "link"} => mine[r] # 0
    /\ pc[r] = "recheck" /\ row[mine[r]] # None => row[mine[r]].email = form[r].email
Sent == \A r \in Request : Knows(r)

\* The rows a request has claimed bear its time.
Holds(r) ==
    pc[r] \notin {"idle", "claim"} =>
        \A i \in claim[r] : row[i] # None => row[i].reported = r
Own == \A r \in Request : Holds(r)

Kept == Below /\ Heirs /\ Sent /\ Own /\ OneApplication /\ ReportedIsReplaced
IInv == TypeOK /\ Kept

-----------------------------------------------------------------------------
(* What the statements do to the rows.                                     *)

Marked(S, v) ==
    /\ row' \in [Id -> Row \cup {None}]
    /\ \A i \in Id :
         /\ row'[i] = None <=> row[i] = None
         /\ row'[i].reported = IF i \in S THEN v ELSE row[i].reported
         /\ row'[i].email = row[i].email /\ row'[i].new = row[i].new
Named(S, n) ==
    /\ row' \in [Id -> Row \cup {None}]
    /\ \A i \in Id :
         /\ row'[i] = None <=> row[i] = None
         /\ row'[i].new = IF i \in S THEN n ELSE row[i].new
         /\ row'[i].email = row[i].email /\ row'[i].reported = row[i].reported
Filled ==
    /\ row' \in [Id -> Row \cup {None}]
    /\ \A i \in Id :
         /\ row'[i] = None <=> row[i] = None
         /\ row'[i].email = row[i].email /\ row'[i].reported = row[i].reported
         /\ row'[i].new = row[i].new
Inserted(f) ==
    /\ row' \in [Id -> Row \cup {None}]
    /\ last + 1 \in Id /\ last' = last + 1 /\ last' \in 0 .. MaxId
    /\ row'[last + 1] # None
    /\ row'[last + 1].reported = None /\ row'[last + 1].email = f.email
    /\ \A i \in Id : i # last + 1 => row'[i] = row[i]
Removed(k) ==
    /\ row' \in [Id -> Row \cup {None}]
    /\ row'[k] = None /\ \A i \in Id : i # k => row'[i] = row[i]
    /\ excused' = excused \ {k} /\ abandoned' = abandoned \ {k}

\* ... and to the requests.
Others(r) ==
    \A s \in Request \ {r} :
        pc'[s] = pc[s] /\ form'[s] = form[s] /\ claim'[s] = claim[s] /\ mine'[s] = mine[s]
Ended(r) ==
    Others(r) /\ pc'[r] = "idle" /\ form'[r] = None /\ claim'[r] = {} /\ mine'[r] = 0
Moved(r, l) ==
    /\ Others(r) /\ pc'[r] = l /\ form'[r] = form[r]
    /\ claim'[r] = claim[r] /\ mine'[r] = mine[r]

\* A request that ends gives everything back ...
LEMMA Ending == ASSUME RequestTypes, NEW r \in Request, End(r) PROVE Ended(r)
  BY DEF RequestTypes, End, Goto, Ended, Others

\* ... and one that goes on keeps it.
LEMMA Moving == ASSUME RequestTypes, NEW r \in Request, NEW l, Step(r, l) PROVE Moved(r, l)
  BY DEF RequestTypes, Step, Goto, Moved, Others

\* Ids are numbers from 1 on.
LEMMA IdFacts == (\A i \in Id : i \in Nat /\ i # 0) /\ (\A n \in 0 .. MaxId : n \in Nat)
  BY ApplicationsAssumption DEF Id

\* claimIdentityReport and releaseIdentityReport touch nothing else.
LEMMA Marking ==
    ASSUME RowTypes, NEW S \in SUBSET Rows, NEW v \in Request \cup {None}, Mark(S, v)
    PROVE  Marked(S, v)
<1> SUFFICES ASSUME NEW i \in Id
             PROVE  /\ row'[i] \in Row \cup {None}
                    /\ row'[i] = None <=> row[i] = None
                    /\ row'[i].reported = IF i \in S THEN v ELSE row[i].reported
                    /\ row'[i].email = row[i].email /\ row'[i].new = row[i].new
  BY DEF Mark, Marked
<1>1. CASE i \notin S
  BY <1>1 DEF Mark, RowTypes
<1>2. CASE i \in S
  <2>1. row[i] \in Row
    BY <1>2 DEF RowTypes, Rows, Exists
  <2>2. row'[i] = [row[i] EXCEPT !.reported = v]
    BY <1>2 DEF Mark
  <2>3. row'[i] \in Row /\ row'[i].reported = v
        /\ row'[i].email = row[i].email /\ row'[i].new = row[i].new
    BY <2>1, <2>2 DEF Row
  <2> QED
    BY <1>2, <2>1, <2>3, ApplicationsAssumption
<1> QED
  BY <1>1, <1>2

\* ... nor does finalizeIdentityReport.
LEMMA Naming ==
    ASSUME RowTypes, NEW S \in SUBSET Rows, NEW n \in Id \cup {0}, Name(S, n)
    PROVE  Named(S, n)
<1> SUFFICES ASSUME NEW i \in Id
             PROVE  /\ row'[i] \in Row \cup {None}
                    /\ row'[i] = None <=> row[i] = None
                    /\ row'[i].new = IF i \in S THEN n ELSE row[i].new
                    /\ row'[i].email = row[i].email /\ row'[i].reported = row[i].reported
  BY DEF Name, Named
<1>1. CASE i \notin S
  BY <1>1 DEF Name, RowTypes
<1>2. CASE i \in S
  <2>1. row[i] \in Row
    BY <1>2 DEF RowTypes, Rows, Exists
  <2>2. row'[i] = [row[i] EXCEPT !.new = n]
    BY <1>2 DEF Name
  <2>3. row'[i] \in Row /\ row'[i].new = n
        /\ row'[i].email = row[i].email /\ row'[i].reported = row[i].reported
    BY <2>1, <2>2 DEF Row
  <2> QED
    BY <1>2, <2>1, <2>3, ApplicationsAssumption
<1> QED
  BY <1>1, <1>2

\* ensureParsed fills in what was left open.
LEMMA Filling ==
    ASSUME RowTypes, NEW i \in Unreported, NEW p \in Phone \cup {None}, FillIn(i, p)
    PROVE  Filled
<1>1. i \in Id /\ row[i] \in Row
  BY DEF RowTypes, Unreported, Rows, Exists
<1> DEFINE filled == [row[i] EXCEPT !.parsed = TRUE, !.phone = IF @ = None THEN p ELSE @]
<1>2. row' = [row EXCEPT ![i] = filled]
  BY <1>1 DEF FillIn, RowTypes
<1>3. /\ filled \in Row /\ filled.reported = row[i].reported
      /\ filled.email = row[i].email /\ filled.new = row[i].new
  BY <1>1 DEF Row
<1> HIDE DEF filled
<1> QED
  BY <1>1, <1>2, <1>3, ApplicationsAssumption DEF RowTypes, Filled

\* A new row has the next id.
LEMMA Inserting ==
    ASSUME RowTypes, NEW f \in Form, NEW b \in BOOLEAN, InsertRow(f, b)
    PROVE  Inserted(f)
<1> DEFINE new == [phone |-> f.phone, email |-> f.email, parsed |-> FALSE,
                   reported |-> None, new |-> 0, isReport |-> b]
<1>1. new \in Row /\ new.reported = None /\ new.email = f.email
  BY DEF Row, Form
<1>2. last + 1 \in Id /\ last' = last + 1 /\ last' \in 0 .. MaxId
  BY ApplicationsAssumption DEF InsertRow, RowTypes, Id
<1>3. row' = [row EXCEPT ![last + 1] = new]
  BY DEF InsertRow
<1> HIDE DEF new
<1> QED
  BY <1>1, <1>2, <1>3, ApplicationsAssumption DEF RowTypes, Inserted

\* A row that is removed takes nothing else along.
LEMMA Removing == ASSUME RowTypes, NEW k \in Id, Remove(k) PROVE Removed(k)
  BY DEF RowTypes, Remove, Removed

-----------------------------------------------------------------------------
(* Each part of the invariant is kept by every step.                       *)

\* A step keeps the types of the rows, ...
LEMMA RowTypesStep == IInv /\ [Next]_vars => RowTypes'
<1> SUFFICES ASSUME RowTypes, RequestTypes, OtherTypes, Sent,
       [Next]_vars PROVE RowTypes'
  BY DEF IInv, Kept, TypeOK
<1>1. ASSUME NEW r \in Request, NEW f \in Form, NEW ticket \in BOOLEAN,
       Begin(r, f, ticket) PROVE RowTypes'
  BY <1>1 DEF Begin, RowTypes, rows
<1>2. ASSUME NEW r \in Request, Claim(r) PROVE RowTypes'
  <2>1. Marked(claim[r] \cap Unreported, r)
    BY <1>2, Marking DEF RequestTypes, OtherTypes, Claim, Unreported, rows
  <2> QED
    BY <1>2, <2>1 DEF Claim, Marked, RowTypes, rows
<1>3. ASSUME NEW r \in Request, Insert(r) PROVE RowTypes'
  <2>1. Inserted(form[r])
    BY <1>3, Inserting DEF RequestTypes, OtherTypes, Insert, Sent, Knows, rows
  <2> QED
    BY <1>3, <2>1 DEF Insert, Inserted, RowTypes, rows
<1>4. ASSUME NEW r \in Request, InsertThrows(r) PROVE RowTypes'
  <2>1. \/ UNCHANGED <<rows, excused>>
        \/ Inserted(form[r]) /\ excused' = excused \cup {last + 1}
    BY <1>4, Inserting DEF RequestTypes, OtherTypes, InsertThrows, Sent, Knows,
       rows
  <2> QED
    BY <1>4, <2>1 DEF InsertThrows, Inserted, RowTypes, rows
<1>5. ASSUME NEW r \in Request, LookAgain(r) PROVE RowTypes'
  BY <1>5 DEF LookAgain, RowTypes, rows
<1>6. ASSUME NEW r \in Request, Withdraw(r) PROVE RowTypes'
  <2>1. Removed(mine[r])
    BY <1>6, Removing DEF RequestTypes, OtherTypes, Withdraw, Sent, Knows, rows
  <2> QED
    BY <1>6, <2>1 DEF Withdraw, Removed, RowTypes, rows
<1>7. ASSUME NEW r \in Request, Release(r) PROVE RowTypes'
  <2>1. Marked(Released(r), None)
    BY <1>7, Marking DEF RequestTypes, OtherTypes, Release, Released, rows
  <2> QED
    BY <1>7, <2>1 DEF Release, Marked, RowTypes, rows
<1>8. ASSUME NEW r \in Request, Link(r) PROVE RowTypes'
  <2>1. Named(claim[r] \cap Rows, mine[r])
    BY <1>8, Naming DEF RequestTypes, OtherTypes, Link, rows
  <2> QED
    BY <1>8, <2>1 DEF Link, Named, RowTypes, rows
<1>9. ASSUME NEW r \in Request, Throw(r) PROVE RowTypes'
  BY <1>9 DEF Throw, RowTypes, rows
<1>10. ASSUME NEW r \in Request, Quit(r) PROVE RowTypes'
  BY <1>10 DEF Quit, RowTypes, rows
<1>11. ASSUME Upload PROVE RowTypes'
  <2>1. Inserted([phone |-> None, email |-> None])
    BY <1>11, Inserting DEF RequestTypes, OtherTypes, Upload, Form, rows
  <2> QED
    BY <1>11, <2>1 DEF Upload, Inserted, RowTypes, rows
<1>12. ASSUME NEW i \in Id, NEW p \in Phone \cup {None}, Parse(i, p) PROVE RowTypes'
  <2>1. Filled
    BY <1>12, Filling DEF RequestTypes, OtherTypes, Parse, rows
  <2> QED
    BY <1>12, <2>1 DEF Parse, Filled, RowTypes, rows
<1>13. ASSUME NEW i \in Id, LookForText(i) PROVE RowTypes'
  BY <1>13 DEF LookForText, RowTypes, rows
<1>14. ASSUME RemoveDuplicate PROVE RowTypes'
  <2>1. Removed(eval)
    BY <1>14, Removing DEF RequestTypes, OtherTypes, RemoveDuplicate, rows
  <2> QED
    BY <1>14, <2>1 DEF RemoveDuplicate, Removed, RowTypes, rows
<1>15. ASSUME EvaluationEnds PROVE RowTypes'
  BY <1>15 DEF EvaluationEnds, RowTypes, rows
<1>16. CASE UNCHANGED vars
  BY <1>16 DEF vars, RowTypes, rows, request, history
<1> QED
  BY <1>1, <1>2, <1>3, <1>4, <1>5, <1>6, <1>7, <1>8, <1>9, <1>10, <1>11, <1>12,
     <1>13, <1>14, <1>15, <1>16 DEF Next, Apply, Evaluation

\* ... of the requests, ...
LEMMA RequestTypesStep == IInv /\ [Next]_vars => RequestTypes'
<1> SUFFICES ASSUME RowTypes, RequestTypes, OtherTypes, Sent,
       [Next]_vars PROVE RequestTypes'
  BY DEF IInv, Kept, TypeOK
<1>1. ASSUME NEW r \in Request, NEW f \in Form, NEW ticket \in BOOLEAN,
       Begin(r, f, ticket) PROVE RequestTypes'
  BY <1>1 DEF Begin, Matches, Goto, RequestTypes, RowTypes, Label, request,
     rows, Rows
<1>2. ASSUME NEW r \in Request, Claim(r) PROVE RequestTypes'
  BY <1>2 DEF Claim, End, Goto, RequestTypes, RowTypes, Label, request, rows,
     Unreported, Rows
<1>3. ASSUME NEW r \in Request, Insert(r) PROVE RequestTypes'
  <2>1. Inserted(form[r])
    BY <1>3, Inserting DEF Insert, Sent, Knows, RequestTypes
  <2> QED
    BY <1>3, <2>1 DEF Inserted, Insert, Goto, RequestTypes, RowTypes, Label,
       request, rows
<1>4. ASSUME NEW r \in Request, InsertThrows(r) PROVE RequestTypes'
  BY <1>4 DEF InsertThrows, Undo, End, Step, Goto, RequestTypes, RowTypes,
     Label, request, rows
<1>5. ASSUME NEW r \in Request, LookAgain(r) PROVE RequestTypes'
  BY <1>5 DEF LookAgain, Earlier, Finish, End, Step, Goto, RequestTypes,
     RowTypes, Label, request, rows
<1>6. ASSUME NEW r \in Request, Withdraw(r) PROVE RequestTypes'
  BY <1>6 DEF Withdraw, End, Step, Goto, RequestTypes, RowTypes, Label,
     request, rows
<1>7. ASSUME NEW r \in Request, Release(r) PROVE RequestTypes'
  BY <1>7 DEF Release, Released, End, Goto, RequestTypes, RowTypes, Label,
     request, rows
<1>8. ASSUME NEW r \in Request, Link(r) PROVE RequestTypes'
  BY <1>8 DEF Link, End, Goto, RequestTypes, RowTypes, Label, request, rows
<1>9. ASSUME NEW r \in Request, Throw(r) PROVE RequestTypes'
  BY <1>9 DEF Throw, Finish, Unsure, Pending, End, Step, Goto, RequestTypes,
     RowTypes, Label, request, rows
<1>10. ASSUME NEW r \in Request, Quit(r) PROVE RequestTypes'
  BY <1>10 DEF Quit, Unsure, Pending, End, Goto, RequestTypes, RowTypes, Label,
     request, rows
<1>11. ASSUME Upload PROVE RequestTypes'
  BY <1>11 DEF Upload, RequestTypes, RowTypes, Label, request, rows
<1>12. ASSUME NEW i \in Id, NEW p \in Phone \cup {None}, Parse(i, p) PROVE RequestTypes'
  BY <1>12 DEF Parse, RequestTypes, RowTypes, Label, request, rows
<1>13. ASSUME NEW i \in Id, LookForText(i) PROVE RequestTypes'
  BY <1>13 DEF LookForText, RequestTypes, RowTypes, Label, request, rows
<1>14. ASSUME RemoveDuplicate PROVE RequestTypes'
  BY <1>14 DEF RemoveDuplicate, RequestTypes, RowTypes, Label, request, rows
<1>15. ASSUME EvaluationEnds PROVE RequestTypes'
  BY <1>15 DEF EvaluationEnds, RequestTypes, RowTypes, Label, request, rows
<1>16. CASE UNCHANGED vars
  BY <1>16 DEF vars, RequestTypes, rows, request, history
<1> QED
  BY <1>1, <1>2, <1>3, <1>4, <1>5, <1>6, <1>7, <1>8, <1>9, <1>10, <1>11, <1>12,
     <1>13, <1>14, <1>15, <1>16 DEF Next, Apply, Evaluation

\* ... and of the rest.
LEMMA OtherTypesStep == IInv /\ [Next]_vars => OtherTypes'
<1> SUFFICES ASSUME RowTypes, RequestTypes, OtherTypes, Sent,
       [Next]_vars PROVE OtherTypes'
  BY DEF IInv, Kept, TypeOK
<1>1. ASSUME NEW r \in Request, NEW f \in Form, NEW ticket \in BOOLEAN,
       Begin(r, f, ticket) PROVE OtherTypes'
  BY <1>1 DEF Begin, OtherTypes, history
<1>2. ASSUME NEW r \in Request, Claim(r) PROVE OtherTypes'
  BY <1>2 DEF Claim, OtherTypes, history
<1>3. ASSUME NEW r \in Request, Insert(r) PROVE OtherTypes'
  <2>1. Inserted(form[r])
    BY <1>3, Inserting DEF Insert, Sent, Knows, RequestTypes, rows
  <2> QED
    BY <1>3, <2>1 DEF Inserted, Insert, OtherTypes, history
<1>4. ASSUME NEW r \in Request, InsertThrows(r) PROVE OtherTypes'
  <2>1. \/ UNCHANGED <<rows, excused>>
        \/ Inserted(form[r]) /\ excused' = excused \cup {last + 1}
    BY <1>4, Inserting DEF InsertThrows, Sent, Knows, RequestTypes, rows
  <2> QED
    BY <1>4, <2>1 DEF Inserted, InsertThrows, OtherTypes, history
<1>5. ASSUME NEW r \in Request, LookAgain(r) PROVE OtherTypes'
  BY <1>5 DEF LookAgain, RequestTypes, OtherTypes, history, Earlier,
     Unreported, Rows
<1>6. ASSUME NEW r \in Request, Withdraw(r) PROVE OtherTypes'
  <2>1. Removed(mine[r])
    BY <1>6, Removing DEF Withdraw, Sent, Knows, RequestTypes, rows
  <2> QED
    BY <1>6, <2>1 DEF Removed, Withdraw, OtherTypes, history
<1>7. ASSUME NEW r \in Request, Release(r) PROVE OtherTypes'
  BY <1>7 DEF Release, Released, Rows, RequestTypes, OtherTypes, history
<1>8. ASSUME NEW r \in Request, Link(r) PROVE OtherTypes'
  BY <1>8 DEF Link, OtherTypes, history
<1>9. ASSUME NEW r \in Request, Throw(r) PROVE OtherTypes'
  BY <1>9 DEF Throw, Unsure, Pending, Rows, RequestTypes, OtherTypes, history
<1>10. ASSUME NEW r \in Request, Quit(r) PROVE OtherTypes'
  BY <1>10 DEF Quit, Unsure, Pending, Rows, RequestTypes, OtherTypes, history
<1>11. ASSUME Upload PROVE OtherTypes'
  <2>1. Inserted([phone |-> None, email |-> None])
    BY <1>11, Inserting DEF Upload, Form, rows
  <2> QED
    BY <1>11, <2>1 DEF Inserted, Upload, OtherTypes, history
<1>12. ASSUME NEW i \in Id, NEW p \in Phone \cup {None}, Parse(i, p) PROVE OtherTypes'
  BY <1>12 DEF Parse, OtherTypes, history
<1>13. ASSUME NEW i \in Id, LookForText(i) PROVE OtherTypes'
  BY <1>13 DEF LookForText, OtherTypes, history, Unreported, Rows
<1>14. ASSUME RemoveDuplicate PROVE OtherTypes'
  <2>1. Removed(eval)
    BY <1>14, Removing DEF RemoveDuplicate, OtherTypes, rows
  <2> QED
    BY <1>14, <2>1 DEF Removed, RemoveDuplicate, OtherTypes, history
<1>15. ASSUME EvaluationEnds PROVE OtherTypes'
  BY <1>15 DEF EvaluationEnds, OtherTypes, history
<1>16. CASE UNCHANGED vars
  BY <1>16 DEF vars, OtherTypes, rows, request, history
<1> QED
  BY <1>1, <1>2, <1>3, <1>4, <1>5, <1>6, <1>7, <1>8, <1>9, <1>10, <1>11, <1>12,
     <1>13, <1>14, <1>15, <1>16 DEF Next, Apply, Evaluation

-----------------------------------------------------------------------------
(* What a step keeps besides the types.                                    *)

\* A request that begins has claimed nothing yet.
LEMMA BeginStep ==
    ASSUME IInv, NEW r \in Request, NEW f \in Form, NEW ticket \in BOOLEAN,
           Begin(r, f, ticket)
    PROVE  Kept'
<1>1. /\ RowTypes /\ RequestTypes /\ OtherTypes /\ last \in Nat
      /\ Below /\ Heirs /\ Sent /\ Own /\ OneApplication /\ ReportedIsReplaced
  BY IdFacts DEF IInv, Kept, TypeOK, RowTypes
<1>2. /\ UNCHANGED <<rows, eval, history>>
      /\ pc[r] = "idle"
  BY DEF Begin
<1>3. /\ Others(r) /\ form'[r] = f /\ f # None /\ mine'[r] = mine[r]
      /\ \/ pc'[r] = "claim" /\ \A i \in claim'[r] : i \in Id /\ row[i] # None
         \/ pc'[r] = "insert" /\ claim'[r] = {}
  BY <1>1, ApplicationsAssumption DEF Begin, Goto, Others, Matches, Rows,
     Exists, RequestTypes
<1>4. Below'
  BY <1>1, <1>2, <1>3, IdFacts DEF Below, Given, RequestTypes, Others, rows,
     request, history
<1>5. Heirs'
  BY <1>1, <1>2, <1>3, IdFacts DEF Heirs, Sent, Knows, RequestTypes,
     OtherTypes, Others, rows, request, history
<1>6. Sent'
  <2> SUFFICES ASSUME NEW s \in Request PROVE Knows(s)'
    BY DEF Sent
  <2>1. Knows(s) /\ Given(s) /\ s # None
    BY <1>1, ApplicationsAssumption DEF Sent, Below
  <2>2. CASE s = r
    BY <1>1, <1>2, <1>3, <2>1, <2>2, IdFacts DEF Knows, Given, RequestTypes,
       Others, rows, request, history
  <2>3. CASE s # r
    BY <1>1, <1>2, <1>3, <2>1, <2>3, IdFacts DEF Knows, Given, RequestTypes,
       Others, rows, request, history
  <2> QED
    BY <2>2, <2>3
<1>7. Own'
  <2> SUFFICES ASSUME NEW s \in Request PROVE Holds(s)'
    BY DEF Own
  <2>1. Holds(s) /\ Given(s) /\ s # None
    BY <1>1, ApplicationsAssumption DEF Own, Below
  <2>2. CASE s = r
    BY <1>1, <1>2, <1>3, <2>1, <2>2, IdFacts DEF Holds, Given, RequestTypes,
       Others, rows, request, history
  <2>3. CASE s # r
    BY <1>1, <1>2, <1>3, <2>1, <2>3, IdFacts DEF Holds, Given, RequestTypes,
       Others, rows, request, history
  <2> QED
    BY <2>2, <2>3
<1>8. OneApplication'
  BY <1>1, <1>2, <1>3, IdFacts DEF OneApplication, Rechecking, Sent, Knows,
     Below, Given, RequestTypes, Others, rows, request, history, Unreported,
     Rows, Exists
<1>9. ReportedIsReplaced'
  BY <1>1, <1>2, <1>3, IdFacts DEF ReportedIsReplaced, Held, Pending, Own,
     Holds, Sent, Knows, Below, Given, RequestTypes, Others, rows, request,
     history, Unreported, Rows, Exists
<1> QED
  BY <1>4, <1>5, <1>6, <1>7, <1>8, <1>9 DEF Kept

\* The rows a request claims are its own, and it holds them.
LEMMA ClaimStep ==
    ASSUME IInv, NEW r \in Request, Claim(r)
    PROVE  Kept'
<1>1. /\ RowTypes /\ RequestTypes /\ OtherTypes /\ last \in Nat
      /\ Below /\ Heirs /\ Sent /\ Own /\ OneApplication /\ ReportedIsReplaced
  BY IdFacts DEF IInv, Kept, TypeOK, RowTypes
<1>2. /\ UNCHANGED <<last, eval, history>>
      /\ pc[r] = "claim"
  BY DEF Claim
<1>3. Marked(claim[r] \cap Unreported, r)
  BY <1>1, Marking DEF Claim, Unreported, rows
<1>4. \/ Ended(r) /\ claim[r] \cap Unreported = {}
      \/ /\ Others(r) /\ pc'[r] = "insert" /\ form'[r] = form[r]
         /\ mine'[r] = mine[r] /\ claim'[r] = claim[r] \cap Unreported
  BY <1>1, Ending DEF Claim, Goto, Others, RequestTypes
<1>5. Below'
  BY <1>1, <1>2, <1>3, <1>4, IdFacts DEF Below, Given, RequestTypes, Marked,
     Others, Ended, rows, request, history, Unreported, Rows, Exists
<1>6. Heirs'
  BY <1>1, <1>2, <1>3, <1>4, IdFacts DEF Heirs, Sent, Knows, RequestTypes,
     OtherTypes, Marked, Others, Ended, rows, request, history, Unreported,
     Rows, Exists
<1>7. Sent'
  <2> SUFFICES ASSUME NEW s \in Request PROVE Knows(s)'
    BY DEF Sent
  <2>1. Knows(s) /\ Given(s) /\ s # None
    BY <1>1, ApplicationsAssumption DEF Sent, Below
  <2>2. CASE s = r
    BY <1>1, <1>2, <1>3, <1>4, <2>1, <2>2, IdFacts DEF Knows, Given,
       RequestTypes, Marked, Others, Ended, rows, request, history, Unreported,
       Rows, Exists
  <2>3. CASE s # r
    BY <1>1, <1>2, <1>3, <1>4, <2>1, <2>3, IdFacts DEF Knows, Given,
       RequestTypes, Marked, Others, Ended, rows, request, history, Unreported,
       Rows, Exists
  <2> QED
    BY <2>2, <2>3
<1>8. Own'
  <2> SUFFICES ASSUME NEW s \in Request PROVE Holds(s)'
    BY DEF Own
  <2>1. Holds(s) /\ Given(s) /\ s # None
    BY <1>1, ApplicationsAssumption DEF Own, Below
  <2>2. CASE s = r
    BY <1>1, <1>2, <1>3, <1>4, <2>1, <2>2, IdFacts DEF Holds, Given,
       RequestTypes, Marked, Others, Ended, rows, request, history, Unreported,
       Rows, Exists
  <2>3. CASE s # r
    BY <1>1, <1>2, <1>3, <1>4, <2>1, <2>3, IdFacts DEF Holds, Given,
       RequestTypes, Marked, Others, Ended, rows, request, history, Unreported,
       Rows, Exists
  <2> QED
    BY <2>2, <2>3
<1>9. OneApplication'
  BY <1>1, <1>2, <1>3, <1>4, IdFacts DEF OneApplication, Rechecking, Sent,
     Knows, Below, Given, RequestTypes, Marked, Others, Ended, rows, request,
     history, Unreported, Rows, Exists
<1>10. ReportedIsReplaced'
  BY <1>1, <1>2, <1>3, <1>4, IdFacts DEF ReportedIsReplaced, Held, Pending,
     Own, Holds, Sent, Knows, Below, Given, RequestTypes, Marked, Others,
     Ended, rows, request, history, Unreported, Rows, Exists
<1> QED
  BY <1>5, <1>6, <1>7, <1>8, <1>9, <1>10 DEF Kept

\* A request that has inserted its row has still to look again.
LEMMA InsertStep ==
    ASSUME IInv, NEW r \in Request, Insert(r)
    PROVE  Kept'
<1>1. /\ RowTypes /\ RequestTypes /\ OtherTypes /\ last \in Nat
      /\ Below /\ Heirs /\ Sent /\ Own /\ OneApplication /\ ReportedIsReplaced
  BY IdFacts DEF IInv, Kept, TypeOK, RowTypes
<1>2. /\ UNCHANGED <<eval, history>>
      /\ pc[r] = "insert"
  BY DEF Insert
<1>3. Inserted(form[r])
  BY <1>1, Inserting DEF Insert, Sent, Knows, RequestTypes, rows
<1>4. /\ Others(r) /\ pc'[r] = "recheck" /\ form'[r] = form[r]
      /\ mine'[r] = last + 1 /\ claim'[r] = claim[r]
  BY <1>1 DEF Insert, Goto, Others, RequestTypes
<1>5. Below'
  BY <1>1, <1>2, <1>3, <1>4, IdFacts DEF Below, Given, RequestTypes, Inserted,
     Others, rows, request, history
<1>6. Heirs'
  BY <1>1, <1>2, <1>3, <1>4, IdFacts DEF Heirs, Sent, Knows, RequestTypes,
     OtherTypes, Inserted, Others, rows, request, history
<1>7. Sent'
  <2> SUFFICES ASSUME NEW s \in Request PROVE Knows(s)'
    BY DEF Sent
  <2>1. Knows(s) /\ Given(s) /\ s # None
    BY <1>1, ApplicationsAssumption DEF Sent, Below
  <2>2. CASE s = r
    BY <1>1, <1>2, <1>3, <1>4, <2>1, <2>2, IdFacts DEF Knows, Given,
       RequestTypes, Inserted, Others, rows, request, history
  <2>3. CASE s # r
    BY <1>1, <1>2, <1>3, <1>4, <2>1, <2>3, IdFacts DEF Knows, Given,
       RequestTypes, Inserted, Others, rows, request, history
  <2> QED
    BY <2>2, <2>3
<1>8. Own'
  <2> SUFFICES ASSUME NEW s \in Request PROVE Holds(s)'
    BY DEF Own
  <2>1. Holds(s) /\ Given(s) /\ s # None
    BY <1>1, ApplicationsAssumption DEF Own, Below
  <2>2. CASE s = r
    BY <1>1, <1>2, <1>3, <1>4, <2>1, <2>2, IdFacts DEF Holds, Given,
       RequestTypes, Inserted, Others, rows, request, history
  <2>3. CASE s # r
    BY <1>1, <1>2, <1>3, <1>4, <2>1, <2>3, IdFacts DEF Holds, Given,
       RequestTypes, Inserted, Others, rows, request, history
  <2> QED
    BY <2>2, <2>3
<1>9. OneApplication'
  BY <1>1, <1>2, <1>3, <1>4, IdFacts DEF OneApplication, Rechecking, Sent,
     Knows, Below, Given, RequestTypes, Inserted, Others, rows, request,
     history, Unreported, Rows, Exists
<1>10. ReportedIsReplaced'
  BY <1>1, <1>2, <1>3, <1>4, IdFacts DEF ReportedIsReplaced, Held, Pending,
     Own, Holds, Sent, Knows, Below, Given, RequestTypes, Inserted, Others,
     rows, request, history, Unreported, Rows, Exists
<1> QED
  BY <1>5, <1>6, <1>7, <1>8, <1>9, <1>10 DEF Kept

\* A row whose insertion threw is excused; what was claimed is held.
LEMMA InsertThrowsStep ==
    ASSUME IInv, NEW r \in Request, InsertThrows(r)
    PROVE  Kept'
<1>1. /\ RowTypes /\ RequestTypes /\ OtherTypes /\ last \in Nat
      /\ Below /\ Heirs /\ Sent /\ Own /\ OneApplication /\ ReportedIsReplaced
  BY IdFacts DEF IInv, Kept, TypeOK, RowTypes
<1>2. /\ UNCHANGED <<eval, heir, abandoned>>
      /\ pc[r] = "insert"
  BY DEF InsertThrows
<1>3. \/ UNCHANGED <<rows, excused>>
      \/ Inserted(form[r]) /\ excused' = excused \cup {last + 1}
  BY <1>1, Inserting DEF InsertThrows, Sent, Knows, RequestTypes, rows
<1>4. (claim[r] = {} /\ Ended(r)) \/ Moved(r, "release")
  BY <1>1, Ending, Moving DEF InsertThrows, Undo, RequestTypes
<1>5. Below'
  BY <1>1, <1>2, <1>3, <1>4, IdFacts DEF Below, Given, RequestTypes, Inserted,
     Others, Ended, Moved, rows, request, history
<1>6. Heirs'
  BY <1>1, <1>2, <1>3, <1>4, IdFacts DEF Heirs, Sent, Knows, RequestTypes,
     OtherTypes, Inserted, Others, Ended, Moved, rows, request, history
<1>7. Sent'
  <2> SUFFICES ASSUME NEW s \in Request PROVE Knows(s)'
    BY DEF Sent
  <2>1. Knows(s) /\ Given(s) /\ s # None
    BY <1>1, ApplicationsAssumption DEF Sent, Below
  <2>2. CASE s = r
    BY <1>1, <1>2, <1>3, <1>4, <2>1, <2>2, IdFacts DEF Knows, Given,
       RequestTypes, Inserted, Others, Ended, Moved, rows, request, history
  <2>3. CASE s # r
    BY <1>1, <1>2, <1>3, <1>4, <2>1, <2>3, IdFacts DEF Knows, Given,
       RequestTypes, Inserted, Others, Ended, Moved, rows, request, history
  <2> QED
    BY <2>2, <2>3
<1>8. Own'
  <2> SUFFICES ASSUME NEW s \in Request PROVE Holds(s)'
    BY DEF Own
  <2>1. Holds(s) /\ Given(s) /\ s # None
    BY <1>1, ApplicationsAssumption DEF Own, Below
  <2>2. CASE s = r
    BY <1>1, <1>2, <1>3, <1>4, <2>1, <2>2, IdFacts DEF Holds, Given,
       RequestTypes, Inserted, Others, Ended, Moved, rows, request, history
  <2>3. CASE s # r
    BY <1>1, <1>2, <1>3, <1>4, <2>1, <2>3, IdFacts DEF Holds, Given,
       RequestTypes, Inserted, Others, Ended, Moved, rows, request, history
  <2> QED
    BY <2>2, <2>3
<1>9. OneApplication'
  <2> SUFFICES ASSUME NEW i \in Id, NEW j \in Id, i < j,
                      row'[i] # None, row'[i].reported = None,
                      row'[j] # None, row'[j].reported = None,
                      row'[i].email = row'[j].email, row'[i].email # None
               PROVE  Rechecking(j)' \/ {i, j} \cap excused' # {}
    BY DEF OneApplication, Unreported, Rows, Exists
  <2>1. ASSUME row'[i] = row[i], row'[j] = row[j]
        PROVE  Rechecking(j)' \/ {i, j} \cap excused' # {}
    <3>1. Rechecking(j) \/ {i, j} \cap excused # {}
      BY <1>1, <2>1 DEF OneApplication, Unreported, Rows, Exists
    <3>2. ASSUME NEW s \in Request, mine[s] = j, pc[s] \in {"recheck", "withdraw"}
          PROVE  Rechecking(j)'
      BY <1>2, <1>4, <3>2 DEF Rechecking, Others, Ended, Moved
    <3>3. excused \subseteq excused'
      BY <1>3
    <3> QED
      BY <3>1, <3>2, <3>3 DEF Rechecking
  <2>2. CASE UNCHANGED <<rows, excused>>
    BY <2>1, <2>2 DEF rows
  <2>3. CASE Inserted(form[r]) /\ excused' = excused \cup {last + 1}
    <3>1. CASE i = last + 1 \/ j = last + 1
      BY <2>3, <3>1
    <3>2. CASE i # last + 1 /\ j # last + 1
      BY <2>1, <2>3, <3>2 DEF Inserted
    <3> QED
      BY <3>1, <3>2
  <2> QED
    BY <1>3, <2>2, <2>3
<1>10. ReportedIsReplaced'
  <2> SUFFICES ASSUME NEW i \in Id, row'[i] # None, row'[i].reported # None
               PROVE  Held(i)' \/ i \in abandoned' \/ row'[i].new # 0
    BY DEF ReportedIsReplaced, Rows, Exists
  <2>1. row'[i] = row[i]
    BY <1>3 DEF Inserted, rows
  <2>2. Held(i) \/ i \in abandoned \/ row[i].new # 0
    BY <1>1, <2>1 DEF ReportedIsReplaced, Rows, Exists
  <2>3. ASSUME NEW s \in Request, i \in Pending(s) PROVE Held(i)'
    BY <1>2, <1>4, <2>1, <2>3 DEF Held, Pending, Others, Ended, Moved, Rows, Exists
  <2> QED
    BY <1>2, <2>1, <2>2, <2>3 DEF Held
<1> QED
  BY <1>5, <1>6, <1>7, <1>8, <1>9, <1>10 DEF Kept

\* A request that stays has seen no earlier row with its e-mail.
LEMMA LookAgainStep ==
    ASSUME IInv, NEW r \in Request, LookAgain(r)
    PROVE  Kept'
<1>1. /\ RowTypes /\ RequestTypes /\ OtherTypes /\ last \in Nat
      /\ Below /\ Heirs /\ Sent /\ Own /\ OneApplication /\ ReportedIsReplaced
  BY IdFacts DEF IInv, Kept, TypeOK, RowTypes
<1>2. /\ UNCHANGED <<rows, eval, excused, abandoned>>
      /\ pc[r] = "recheck"
  BY DEF LookAgain
<1>3. \/ /\ Earlier(mine[r], form[r].email) = {} /\ UNCHANGED heir
         /\ (Ended(r) /\ claim[r] = {}) \/ Moved(r, "link")
      \/ /\ Moved(r, "withdraw")
         /\ \E j \in Earlier(mine[r], form[r].email) : heir' = [heir EXCEPT ![mine[r]] = j]
  BY <1>1, Ending, Moving DEF LookAgain, Finish, RequestTypes
<1>4. Below'
  BY <1>1, <1>2, <1>3, IdFacts DEF Below, Given, RequestTypes, Others, Ended,
     Moved, rows, request, history
<1>5. Heirs'
  BY <1>1, <1>2, <1>3, IdFacts DEF Heirs, Sent, Knows, RequestTypes,
     OtherTypes, Others, Ended, Moved, rows, request, history, Earlier,
     Unreported, Rows, Exists
<1>6. Sent'
  <2> SUFFICES ASSUME NEW s \in Request PROVE Knows(s)'
    BY DEF Sent
  <2>1. Knows(s) /\ Given(s) /\ s # None
    BY <1>1, ApplicationsAssumption DEF Sent, Below
  <2>2. CASE s = r
    BY <1>1, <1>2, <1>3, <2>1, <2>2, IdFacts DEF Knows, Given, RequestTypes,
       Others, Ended, Moved, rows, request, history
  <2>3. CASE s # r
    BY <1>1, <1>2, <1>3, <2>1, <2>3, IdFacts DEF Knows, Given, RequestTypes,
       Others, Ended, Moved, rows, request, history
  <2> QED
    BY <2>2, <2>3
<1>7. Own'
  <2> SUFFICES ASSUME NEW s \in Request PROVE Holds(s)'
    BY DEF Own
  <2>1. Holds(s) /\ Given(s) /\ s # None
    BY <1>1, ApplicationsAssumption DEF Own, Below
  <2>2. CASE s = r
    BY <1>1, <1>2, <1>3, <2>1, <2>2, IdFacts DEF Holds, Given, RequestTypes,
       Others, Ended, Moved, rows, request, history
  <2>3. CASE s # r
    BY <1>1, <1>2, <1>3, <2>1, <2>3, IdFacts DEF Holds, Given, RequestTypes,
       Others, Ended, Moved, rows, request, history
  <2> QED
    BY <2>2, <2>3
<1>8. OneApplication'
  <2> SUFFICES ASSUME NEW i \in Id, NEW j \in Id, i < j,
                      row'[i] # None, row'[i].reported = None,
                      row'[j] # None, row'[j].reported = None,
                      row'[i].email = row'[j].email, row'[i].email # None
               PROVE  Rechecking(j)' \/ {i, j} \cap excused' # {}
    BY DEF OneApplication, Unreported, Rows, Exists
  <2>1. Rechecking(j) \/ {i, j} \cap excused # {}
    BY <1>1, <1>2 DEF OneApplication, Unreported, Rows, Exists, rows
  <2>2. CASE {i, j} \cap excused # {}
    BY <1>2, <2>2
  <2>3. ASSUME NEW s \in Request, mine[s] = j, pc[s] \in {"recheck", "withdraw"}
        PROVE  Rechecking(j)'
    <3>1. CASE s # r
      BY <1>3, <2>3, <3>1 DEF Rechecking, Others, Ended, Moved
    <3>2. CASE s = r
      <4>1. row[j].email = form[r].email
        BY <1>1, <1>2, <2>3, <3>2 DEF Sent, Knows, rows
      <4>2. i \in Earlier(mine[r], form[r].email)
        BY <1>2, <2>3, <3>2, <4>1 DEF Earlier, Unreported, Rows, Exists, rows
      <4>3. Moved(r, "withdraw")
        BY <1>3, <4>2
      <4> QED
        BY <2>3, <3>2, <4>3 DEF Rechecking, Moved
    <3> QED
      BY <3>1, <3>2
  <2> QED
    BY <2>1, <2>2, <2>3 DEF Rechecking
<1>9. ReportedIsReplaced'
  BY <1>1, <1>2, <1>3, IdFacts DEF ReportedIsReplaced, Held, Pending, Own,
     Holds, Sent, Knows, Below, Given, RequestTypes, Others, Ended, Moved,
     rows, request, history, Unreported, Rows, Exists
<1> QED
  BY <1>4, <1>5, <1>6, <1>7, <1>8, <1>9 DEF Kept

\* A row that is withdrawn has an heir.
LEMMA WithdrawStep ==
    ASSUME IInv, NEW r \in Request, Withdraw(r)
    PROVE  Kept'
<1>1. /\ RowTypes /\ RequestTypes /\ OtherTypes /\ last \in Nat
      /\ Below /\ Heirs /\ Sent /\ Own /\ OneApplication /\ ReportedIsReplaced
  BY IdFacts DEF IInv, Kept, TypeOK, RowTypes
<1>2. /\ UNCHANGED <<last, eval, heir>>
      /\ pc[r] = "withdraw"
  BY DEF Withdraw
<1>3. Removed(mine[r])
  BY <1>1, Removing DEF Withdraw, Sent, Knows, RequestTypes, rows
<1>4. (claim[r] = {} /\ Ended(r)) \/ Moved(r, "release")
  BY <1>1, Ending, Moving DEF Withdraw, RequestTypes
<1>5. Below'
  BY <1>1, <1>2, <1>3, <1>4, IdFacts DEF Below, Given, RequestTypes, Removed,
     Others, Ended, Moved, rows, request, history
<1>6. Heirs'
  BY <1>1, <1>2, <1>3, <1>4, IdFacts DEF Heirs, Sent, Knows, RequestTypes,
     OtherTypes, Removed, Others, Ended, Moved, rows, request, history
<1>7. Sent'
  <2> SUFFICES ASSUME NEW s \in Request PROVE Knows(s)'
    BY DEF Sent
  <2>1. Knows(s) /\ Given(s) /\ s # None
    BY <1>1, ApplicationsAssumption DEF Sent, Below
  <2>2. CASE s = r
    BY <1>1, <1>2, <1>3, <1>4, <2>1, <2>2, IdFacts DEF Knows, Given,
       RequestTypes, Removed, Others, Ended, Moved, rows, request, history
  <2>3. CASE s # r
    BY <1>1, <1>2, <1>3, <1>4, <2>1, <2>3, IdFacts DEF Knows, Given,
       RequestTypes, Removed, Others, Ended, Moved, rows, request, history
  <2> QED
    BY <2>2, <2>3
<1>8. Own'
  <2> SUFFICES ASSUME NEW s \in Request PROVE Holds(s)'
    BY DEF Own
  <2>1. Holds(s) /\ Given(s) /\ s # None
    BY <1>1, ApplicationsAssumption DEF Own, Below
  <2>2. CASE s = r
    BY <1>1, <1>2, <1>3, <1>4, <2>1, <2>2, IdFacts DEF Holds, Given,
       RequestTypes, Removed, Others, Ended, Moved, rows, request, history
  <2>3. CASE s # r
    BY <1>1, <1>2, <1>3, <1>4, <2>1, <2>3, IdFacts DEF Holds, Given,
       RequestTypes, Removed, Others, Ended, Moved, rows, request, history
  <2> QED
    BY <2>2, <2>3
<1>9. OneApplication'
  BY <1>1, <1>2, <1>3, <1>4, IdFacts DEF OneApplication, Rechecking, Sent,
     Knows, Below, Given, RequestTypes, Removed, Others, Ended, Moved, rows,
     request, history, Unreported, Rows, Exists
<1>10. ReportedIsReplaced'
  BY <1>1, <1>2, <1>3, <1>4, IdFacts DEF ReportedIsReplaced, Held, Pending,
     Own, Holds, Sent, Knows, Below, Given, RequestTypes, Removed, Others,
     Ended, Moved, rows, request, history, Unreported, Rows, Exists
<1> QED
  BY <1>5, <1>6, <1>7, <1>8, <1>9, <1>10 DEF Kept

\* What is taken back is excused, and nothing else was held.
LEMMA ReleaseStep ==
    ASSUME IInv, NEW r \in Request, Release(r)
    PROVE  Kept'
<1>1. /\ RowTypes /\ RequestTypes /\ OtherTypes /\ last \in Nat
      /\ Below /\ Heirs /\ Sent /\ Own /\ OneApplication /\ ReportedIsReplaced
  BY IdFacts DEF IInv, Kept, TypeOK, RowTypes
<1>2. /\ UNCHANGED <<last, eval, heir, abandoned>> /\ excused' = excused \cup Released(r)
      /\ pc[r] = "release"
  BY DEF Release
<1>3. Marked(Released(r), None)
  BY <1>1, Marking DEF Release, Released, rows
<1>4. Ended(r)
  BY <1>1, Ending DEF Release, RequestTypes
<1>5. Below'
  BY <1>1, <1>2, <1>3, <1>4, IdFacts DEF Below, Given, RequestTypes, Marked,
     Others, Ended, rows, request, history
<1>6. Heirs'
  BY <1>1, <1>2, <1>3, <1>4, IdFacts DEF Heirs, Sent, Knows, RequestTypes,
     OtherTypes, Marked, Others, Ended, rows, request, history
<1>7. Sent'
  <2> SUFFICES ASSUME NEW s \in Request PROVE Knows(s)'
    BY DEF Sent
  <2>1. Knows(s) /\ Given(s) /\ s # None
    BY <1>1, ApplicationsAssumption DEF Sent, Below
  <2>2. CASE s = r
    BY <1>1, <1>2, <1>3, <1>4, <2>1, <2>2, IdFacts DEF Knows, Given,
       RequestTypes, Marked, Others, Ended, rows, request, history
  <2>3. CASE s # r
    BY <1>1, <1>2, <1>3, <1>4, <2>1, <2>3, IdFacts DEF Knows, Given,
       RequestTypes, Marked, Others, Ended, rows, request, history
  <2> QED
    BY <2>2, <2>3
<1>8. Own'
  <2> SUFFICES ASSUME NEW s \in Request PROVE Holds(s)'
    BY DEF Own
  <2>1. Holds(s) /\ Given(s) /\ s # None
    BY <1>1, ApplicationsAssumption DEF Own, Below
  <2>2. CASE s = r
    BY <1>1, <1>2, <1>3, <1>4, <2>1, <2>2, IdFacts DEF Holds, Given,
       RequestTypes, Marked, Others, Ended, rows, request, history, Released
  <2>3. CASE s # r
    BY <1>1, <1>2, <1>3, <1>4, <2>1, <2>3, IdFacts DEF Holds, Given,
       RequestTypes, Marked, Others, Ended, rows, request, history, Released
  <2> QED
    BY <2>2, <2>3
<1>9. OneApplication'
  BY <1>1, <1>2, <1>3, <1>4, IdFacts DEF OneApplication, Rechecking, Sent,
     Knows, Below, Given, RequestTypes, Marked, Others, Ended, rows, request,
     history, Unreported, Rows, Exists, Released
<1>10. ReportedIsReplaced'
  BY <1>1, <1>2, <1>3, <1>4, IdFacts DEF ReportedIsReplaced, Held, Pending,
     Own, Holds, Sent, Knows, Below, Given, RequestTypes, Marked, Others,
     Ended, rows, request, history, Unreported, Rows, Exists, Released
<1> QED
  BY <1>5, <1>6, <1>7, <1>8, <1>9, <1>10 DEF Kept

\* A report ends with a replacement.
LEMMA LinkStep ==
    ASSUME IInv, NEW r \in Request, Link(r)
    PROVE  Kept'
<1>1. /\ RowTypes /\ RequestTypes /\ OtherTypes /\ last \in Nat
      /\ Below /\ Heirs /\ Sent /\ Own /\ OneApplication /\ ReportedIsReplaced
  BY IdFacts DEF IInv, Kept, TypeOK, RowTypes
<1>2. /\ UNCHANGED <<last, eval, history>>
      /\ pc[r] = "link"
  BY DEF Link
<1>3. Named(claim[r] \cap Rows, mine[r])
  BY <1>1, Naming DEF Link, RequestTypes, rows
<1>4. Ended(r)
  BY <1>1, Ending DEF Link, RequestTypes
<1>5. Below'
  BY <1>1, <1>2, <1>3, <1>4, IdFacts DEF Below, Given, RequestTypes, Named,
     Others, Ended, rows, request, history
<1>6. Heirs'
  BY <1>1, <1>2, <1>3, <1>4, IdFacts DEF Heirs, Sent, Knows, RequestTypes,
     OtherTypes, Named, Others, Ended, rows, request, history
<1>7. Sent'
  <2> SUFFICES ASSUME NEW s \in Request PROVE Knows(s)'
    BY DEF Sent
  <2>1. Knows(s) /\ Given(s) /\ s # None
    BY <1>1, ApplicationsAssumption DEF Sent, Below
  <2>2. CASE s = r
    BY <1>1, <1>2, <1>3, <1>4, <2>1, <2>2, IdFacts DEF Knows, Given,
       RequestTypes, Named, Others, Ended, rows, request, history
  <2>3. CASE s # r
    BY <1>1, <1>2, <1>3, <1>4, <2>1, <2>3, IdFacts DEF Knows, Given,
       RequestTypes, Named, Others, Ended, rows, request, history
  <2> QED
    BY <2>2, <2>3
<1>8. Own'
  <2> SUFFICES ASSUME NEW s \in Request PROVE Holds(s)'
    BY DEF Own
  <2>1. Holds(s) /\ Given(s) /\ s # None
    BY <1>1, ApplicationsAssumption DEF Own, Below
  <2>2. CASE s = r
    BY <1>1, <1>2, <1>3, <1>4, <2>1, <2>2, IdFacts DEF Holds, Given,
       RequestTypes, Named, Others, Ended, rows, request, history
  <2>3. CASE s # r
    BY <1>1, <1>2, <1>3, <1>4, <2>1, <2>3, IdFacts DEF Holds, Given,
       RequestTypes, Named, Others, Ended, rows, request, history
  <2> QED
    BY <2>2, <2>3
<1>9. OneApplication'
  BY <1>1, <1>2, <1>3, <1>4, IdFacts DEF OneApplication, Rechecking, Sent,
     Knows, Below, Given, RequestTypes, Named, Others, Ended, rows, request,
     history, Unreported, Rows, Exists
<1>10. ReportedIsReplaced'
  BY <1>1, <1>2, <1>3, <1>4, IdFacts DEF ReportedIsReplaced, Held, Pending,
     Own, Holds, Sent, Knows, Below, Given, RequestTypes, Named, Others, Ended,
     rows, request, history, Unreported, Rows, Exists
<1> QED
  BY <1>5, <1>6, <1>7, <1>8, <1>9, <1>10 DEF Kept

\* A request that throws leaves its row excused and its report to be ended.
LEMMA ThrowStep ==
    ASSUME IInv, NEW r \in Request, Throw(r)
    PROVE  Kept'
<1>1. /\ RowTypes /\ RequestTypes /\ OtherTypes /\ last \in Nat
      /\ Below /\ Heirs /\ Sent /\ Own /\ OneApplication /\ ReportedIsReplaced
  BY IdFacts DEF IInv, Kept, TypeOK, RowTypes
<1>2. /\ UNCHANGED <<rows, eval, heir>> /\ excused' = excused \cup Unsure(r)
      /\ abandoned' = IF pc[r] = "release" THEN abandoned \cup Pending(r) ELSE abandoned
      /\ pc[r] \in {"recheck", "withdraw", "release"} /\ mine[r] # 0
  BY DEF Throw
<1>3. (claim[r] = {} /\ Ended(r)) \/ Moved(r, "link")
  BY <1>1, Ending, Moving DEF Throw, Finish, RequestTypes
<1>4. Below'
  BY <1>1, <1>2, <1>3, IdFacts DEF Below, Given, RequestTypes, Others, Ended,
     Moved, rows, request, history
<1>5. Heirs'
  BY <1>1, <1>2, <1>3, IdFacts DEF Heirs, Sent, Knows, RequestTypes,
     OtherTypes, Others, Ended, Moved, rows, request, history
<1>6. Sent'
  <2> SUFFICES ASSUME NEW s \in Request PROVE Knows(s)'
    BY DEF Sent
  <2>1. Knows(s) /\ Given(s) /\ s # None
    BY <1>1, ApplicationsAssumption DEF Sent, Below
  <2>2. CASE s = r
    BY <1>1, <1>2, <1>3, <2>1, <2>2, IdFacts DEF Knows, Given, RequestTypes,
       Others, Ended, Moved, rows, request, history
  <2>3. CASE s # r
    BY <1>1, <1>2, <1>3, <2>1, <2>3, IdFacts DEF Knows, Given, RequestTypes,
       Others, Ended, Moved, rows, request, history
  <2> QED
    BY <2>2, <2>3
<1>7. Own'
  <2> SUFFICES ASSUME NEW s \in Request PROVE Holds(s)'
    BY DEF Own
  <2>1. Holds(s) /\ Given(s) /\ s # None
    BY <1>1, ApplicationsAssumption DEF Own, Below
  <2>2. CASE s = r
    BY <1>1, <1>2, <1>3, <2>1, <2>2, IdFacts DEF Holds, Given, RequestTypes,
       Others, Ended, Moved, rows, request, history
  <2>3. CASE s # r
    BY <1>1, <1>2, <1>3, <2>1, <2>3, IdFacts DEF Holds, Given, RequestTypes,
       Others, Ended, Moved, rows, request, history
  <2> QED
    BY <2>2, <2>3
<1>8. OneApplication'
  BY <1>1, <1>2, <1>3, IdFacts DEF OneApplication, Rechecking, Sent, Knows,
     Below, Given, RequestTypes, Others, Ended, Moved, rows, request, history,
     Unreported, Rows, Exists, Unsure
<1>9. ReportedIsReplaced'
  BY <1>1, <1>2, <1>3, IdFacts DEF ReportedIsReplaced, Held, Pending, Own,
     Holds, Sent, Knows, Below, Given, RequestTypes, Others, Ended, Moved,
     rows, request, history, Unreported, Rows, Exists
<1> QED
  BY <1>4, <1>5, <1>6, <1>7, <1>8, <1>9 DEF Kept

\* A request that is killed leaves its row excused, its report abandoned.
LEMMA QuitStep ==
    ASSUME IInv, NEW r \in Request, Quit(r)
    PROVE  Kept'
<1>1. /\ RowTypes /\ RequestTypes /\ OtherTypes /\ last \in Nat
      /\ Below /\ Heirs /\ Sent /\ Own /\ OneApplication /\ ReportedIsReplaced
  BY IdFacts DEF IInv, Kept, TypeOK, RowTypes
<1>2. /\ UNCHANGED <<rows, eval, heir>>
      /\ excused' = excused \cup Unsure(r) /\ abandoned' = abandoned \cup Pending(r)
  BY DEF Quit
<1>3. Ended(r)
  BY <1>1, Ending DEF Quit, RequestTypes
<1>4. Below'
  BY <1>1, <1>2, <1>3, IdFacts DEF Below, Given, RequestTypes, Others, Ended,
     rows, request, history
<1>5. Heirs'
  BY <1>1, <1>2, <1>3, IdFacts DEF Heirs, Sent, Knows, RequestTypes,
     OtherTypes, Others, Ended, rows, request, history
<1>6. Sent'
  <2> SUFFICES ASSUME NEW s \in Request PROVE Knows(s)'
    BY DEF Sent
  <2>1. Knows(s) /\ Given(s) /\ s # None
    BY <1>1, ApplicationsAssumption DEF Sent, Below
  <2>2. CASE s = r
    BY <1>1, <1>2, <1>3, <2>1, <2>2, IdFacts DEF Knows, Given, RequestTypes,
       Others, Ended, rows, request, history
  <2>3. CASE s # r
    BY <1>1, <1>2, <1>3, <2>1, <2>3, IdFacts DEF Knows, Given, RequestTypes,
       Others, Ended, rows, request, history
  <2> QED
    BY <2>2, <2>3
<1>7. Own'
  <2> SUFFICES ASSUME NEW s \in Request PROVE Holds(s)'
    BY DEF Own
  <2>1. Holds(s) /\ Given(s) /\ s # None
    BY <1>1, ApplicationsAssumption DEF Own, Below
  <2>2. CASE s = r
    BY <1>1, <1>2, <1>3, <2>1, <2>2, IdFacts DEF Holds, Given, RequestTypes,
       Others, Ended, rows, request, history
  <2>3. CASE s # r
    BY <1>1, <1>2, <1>3, <2>1, <2>3, IdFacts DEF Holds, Given, RequestTypes,
       Others, Ended, rows, request, history
  <2> QED
    BY <2>2, <2>3
<1>8. OneApplication'
  BY <1>1, <1>2, <1>3, IdFacts DEF OneApplication, Rechecking, Sent, Knows,
     Below, Given, RequestTypes, Others, Ended, rows, request, history,
     Unreported, Rows, Exists, Unsure
<1>9. ReportedIsReplaced'
  BY <1>1, <1>2, <1>3, IdFacts DEF ReportedIsReplaced, Held, Pending, Own,
     Holds, Sent, Knows, Below, Given, RequestTypes, Others, Ended, rows,
     request, history, Unreported, Rows, Exists
<1> QED
  BY <1>4, <1>5, <1>6, <1>7, <1>8, <1>9 DEF Kept

\* An uploaded row is excused.
LEMMA UploadStep ==
    ASSUME IInv, Upload
    PROVE  Kept'
<1>1. /\ RowTypes /\ RequestTypes /\ OtherTypes /\ last \in Nat
      /\ Below /\ Heirs /\ Sent /\ Own /\ OneApplication /\ ReportedIsReplaced
  BY IdFacts DEF IInv, Kept, TypeOK, RowTypes
<1>2. /\ UNCHANGED <<request, eval, heir, abandoned>> /\ excused' = excused \cup {last + 1}
  BY DEF Upload
<1>3. Inserted([phone |-> None, email |-> None])
  BY <1>1, Inserting DEF Upload, Form, rows
<1>4. Below'
  BY <1>1, <1>2, <1>3, IdFacts DEF Below, Given, RequestTypes, Inserted, rows,
     request, history
<1>5. Heirs'
  BY <1>1, <1>2, <1>3, IdFacts DEF Heirs, Sent, Knows, RequestTypes,
     OtherTypes, Inserted, rows, request, history
<1>6. Sent'
  BY <1>1, <1>2, <1>3, IdFacts DEF Sent, Knows, Below, Given, RequestTypes,
     Inserted, rows, request, history
<1>7. Own'
  BY <1>1, <1>2, <1>3, IdFacts DEF Own, Holds, Below, Given, RequestTypes,
     Inserted, rows, request, history
<1>8. OneApplication'
  BY <1>1, <1>2, <1>3, IdFacts DEF OneApplication, Rechecking, Sent, Knows,
     Below, Given, RequestTypes, Inserted, rows, request, history, Unreported,
     Rows, Exists
<1>9. ReportedIsReplaced'
  BY <1>1, <1>2, <1>3, IdFacts DEF ReportedIsReplaced, Held, Pending, Own,
     Holds, Sent, Knows, Below, Given, RequestTypes, Inserted, rows, request,
     history, Unreported, Rows, Exists
<1> QED
  BY <1>4, <1>5, <1>6, <1>7, <1>8, <1>9 DEF Kept

\* Parsing changes no e-mail and no report.
LEMMA ParseStep ==
    ASSUME IInv, NEW i \in Id, NEW p \in Phone \cup {None}, Parse(i, p)
    PROVE  Kept'
<1>1. /\ RowTypes /\ RequestTypes /\ OtherTypes /\ last \in Nat
      /\ Below /\ Heirs /\ Sent /\ Own /\ OneApplication /\ ReportedIsReplaced
  BY IdFacts DEF IInv, Kept, TypeOK, RowTypes
<1>2. /\ UNCHANGED <<last, request, eval, history>>
  BY DEF Parse
<1>3. Filled
  BY <1>1, Filling DEF Parse, rows
<1>4. Below'
  BY <1>1, <1>2, <1>3, IdFacts DEF Below, Given, RequestTypes, Filled, rows,
     request, history
<1>5. Heirs'
  BY <1>1, <1>2, <1>3, IdFacts DEF Heirs, Sent, Knows, RequestTypes,
     OtherTypes, Filled, rows, request, history
<1>6. Sent'
  BY <1>1, <1>2, <1>3, IdFacts DEF Sent, Knows, Below, Given, RequestTypes,
     Filled, rows, request, history
<1>7. Own'
  BY <1>1, <1>2, <1>3, IdFacts DEF Own, Holds, Below, Given, RequestTypes,
     Filled, rows, request, history
<1>8. OneApplication'
  BY <1>1, <1>2, <1>3, IdFacts DEF OneApplication, Rechecking, Sent, Knows,
     Below, Given, RequestTypes, Filled, rows, request, history, Unreported,
     Rows, Exists
<1>9. ReportedIsReplaced'
  BY <1>1, <1>2, <1>3, IdFacts DEF ReportedIsReplaced, Held, Pending, Own,
     Holds, Sent, Knows, Below, Given, RequestTypes, Filled, rows, request,
     history, Unreported, Rows, Exists
<1> QED
  BY <1>4, <1>5, <1>6, <1>7, <1>8, <1>9 DEF Kept

\* An heir is earlier.
LEMMA LookForTextStep ==
    ASSUME IInv, NEW i \in Id, LookForText(i)
    PROVE  Kept'
<1>1. /\ RowTypes /\ RequestTypes /\ OtherTypes /\ last \in Nat
      /\ Below /\ Heirs /\ Sent /\ Own /\ OneApplication /\ ReportedIsReplaced
  BY IdFacts DEF IInv, Kept, TypeOK, RowTypes
<1>2. /\ UNCHANGED <<rows, request, excused, abandoned>> /\ eval' = i
      /\ \E j \in Unreported : j < i /\ heir' = [heir EXCEPT ![i] = j]
  BY DEF LookForText
<1>3. Below'
  BY <1>1, <1>2, IdFacts DEF Below, Given, RequestTypes, rows, request,
     history, Unreported, Rows, Exists
<1>4. Heirs'
  BY <1>1, <1>2, IdFacts DEF Heirs, Sent, Knows, RequestTypes, OtherTypes,
     rows, request, history, Unreported, Rows, Exists
<1>5. Sent'
  BY <1>1, <1>2, IdFacts DEF Sent, Knows, Below, Given, RequestTypes, rows,
     request, history, Unreported, Rows, Exists
<1>6. Own'
  BY <1>1, <1>2, IdFacts DEF Own, Holds, Below, Given, RequestTypes, rows,
     request, history, Unreported, Rows, Exists
<1>7. OneApplication'
  BY <1>1, <1>2, IdFacts DEF OneApplication, Rechecking, Sent, Knows, Below,
     Given, RequestTypes, rows, request, history, Unreported, Rows, Exists
<1>8. ReportedIsReplaced'
  BY <1>1, <1>2, IdFacts DEF ReportedIsReplaced, Held, Pending, Own, Holds,
     Sent, Knows, Below, Given, RequestTypes, rows, request, history,
     Unreported, Rows, Exists
<1> QED
  BY <1>3, <1>4, <1>5, <1>6, <1>7, <1>8 DEF Kept

\* A duplicate that is removed has an heir.
LEMMA RemoveDuplicateStep ==
    ASSUME IInv, RemoveDuplicate
    PROVE  Kept'
<1>1. /\ RowTypes /\ RequestTypes /\ OtherTypes /\ last \in Nat
      /\ Below /\ Heirs /\ Sent /\ Own /\ OneApplication /\ ReportedIsReplaced
  BY IdFacts DEF IInv, Kept, TypeOK, RowTypes
<1>2. /\ UNCHANGED <<last, request, heir>> /\ eval' = 0
      /\ eval # 0
  BY DEF RemoveDuplicate
<1>3. Removed(eval)
  BY <1>1, Removing DEF RemoveDuplicate, OtherTypes, rows
<1>4. Below'
  BY <1>1, <1>2, <1>3, IdFacts DEF Below, Given, RequestTypes, Removed, rows,
     request, history
<1>5. Heirs'
  BY <1>1, <1>2, <1>3, IdFacts DEF Heirs, Sent, Knows, RequestTypes,
     OtherTypes, Removed, rows, request, history
<1>6. Sent'
  BY <1>1, <1>2, <1>3, IdFacts DEF Sent, Knows, Below, Given, RequestTypes,
     Removed, rows, request, history
<1>7. Own'
  BY <1>1, <1>2, <1>3, IdFacts DEF Own, Holds, Below, Given, RequestTypes,
     Removed, rows, request, history
<1>8. OneApplication'
  BY <1>1, <1>2, <1>3, IdFacts DEF OneApplication, Rechecking, Sent, Knows,
     Below, Given, RequestTypes, Removed, rows, request, history, Unreported,
     Rows, Exists
<1>9. ReportedIsReplaced'
  BY <1>1, <1>2, <1>3, IdFacts DEF ReportedIsReplaced, Held, Pending, Own,
     Holds, Sent, Knows, Below, Given, RequestTypes, Removed, rows, request,
     history, Unreported, Rows, Exists
<1> QED
  BY <1>4, <1>5, <1>6, <1>7, <1>8, <1>9 DEF Kept

\* A worker that dies removes nothing.
LEMMA EvaluationEndsStep ==
    ASSUME IInv, EvaluationEnds
    PROVE  Kept'
<1>1. /\ RowTypes /\ RequestTypes /\ OtherTypes /\ last \in Nat
      /\ Below /\ Heirs /\ Sent /\ Own /\ OneApplication /\ ReportedIsReplaced
  BY IdFacts DEF IInv, Kept, TypeOK, RowTypes
<1>2. /\ UNCHANGED <<rows, request, history>> /\ eval' = 0
  BY DEF EvaluationEnds
<1>3. Below'
  BY <1>1, <1>2, IdFacts DEF Below, Given, RequestTypes, rows, request, history
<1>4. Heirs'
  BY <1>1, <1>2, IdFacts DEF Heirs, Sent, Knows, RequestTypes, OtherTypes,
     rows, request, history
<1>5. Sent'
  BY <1>1, <1>2, IdFacts DEF Sent, Knows, Below, Given, RequestTypes, rows,
     request, history
<1>6. Own'
  BY <1>1, <1>2, IdFacts DEF Own, Holds, Below, Given, RequestTypes, rows,
     request, history
<1>7. OneApplication'
  BY <1>1, <1>2, IdFacts DEF OneApplication, Rechecking, Sent, Knows, Below,
     Given, RequestTypes, rows, request, history, Unreported, Rows, Exists
<1>8. ReportedIsReplaced'
  BY <1>1, <1>2, IdFacts DEF ReportedIsReplaced, Held, Pending, Own, Holds,
     Sent, Knows, Below, Given, RequestTypes, rows, request, history,
     Unreported, Rows, Exists
<1> QED
  BY <1>3, <1>4, <1>5, <1>6, <1>7, <1>8 DEF Kept

\* The invariant from which the properties follow is inductive.
THEOREM InductiveInvariant == Spec => []IInv
<1>1. Init => IInv
  <2> SUFFICES ASSUME Init PROVE IInv
    OBVIOUS
  <2>1. TypeOK
    BY ApplicationsAssumption
    DEF Init, TypeOK, RowTypes, RequestTypes, OtherTypes, Id, Label
  <2>2. Below /\ Heirs /\ Sent /\ Own
    BY DEF Init, Below, Given, Heirs, Sent, Knows, Own, Holds, Id
  <2>3. OneApplication /\ ReportedIsReplaced
    BY DEF Init, OneApplication, ReportedIsReplaced, Unreported, Rows, Exists
  <2> QED
    BY <2>1, <2>2, <2>3 DEF IInv, Kept
<1>2. IInv /\ [Next]_vars => IInv'
  <2>1. IInv /\ [Next]_vars => TypeOK'
    BY RowTypesStep, RequestTypesStep, OtherTypesStep DEF TypeOK
  <2>2. IInv /\ [Next]_vars => Kept'
    <3>1. IInv /\ UNCHANGED vars => Kept'
      BY DEF IInv, Kept, Below, Given, Heirs, Sent, Knows, Own, Holds, OneApplication,
             ReportedIsReplaced, Rechecking, Held, Pending, Unreported, Rows, Exists, vars,
             rows, request, history
    <3> QED
      BY <3>1, BeginStep, ClaimStep, InsertStep, InsertThrowsStep,
         LookAgainStep, WithdrawStep, ReleaseStep, LinkStep, ThrowStep,
         QuitStep, UploadStep, ParseStep, LookForTextStep, RemoveDuplicateStep,
         EvaluationEndsStep DEF Next, Apply, Evaluation
  <2> QED
    BY <2>1, <2>2 DEF IInv
<1> QED
  BY <1>1, <1>2, PTL DEF Spec

\* The rows and what every request has at hand stay of their types.
THEOREM TypeCorrect == Spec => []TypeOK
<1>1. IInv => TypeOK
  BY DEF IInv, Kept
<1> QED
  BY <1>1, InductiveInvariant, PTL

\* However many requests look and insert at once, at most one application of an
\* e-mail remains once the later ones have looked again.
THEOREM ApplicationsDiffer == Spec => []OneApplication
<1>1. IInv => OneApplication
  BY DEF IInv, Kept
<1> QED
  BY <1>1, InductiveInvariant, PTL

\* The least row of those that gave way to each other gave way to none, so it
\* was never removed.
THEOREM NobodyIsLost == Spec => []SomebodyIsKept
<1>1. IInv => SomebodyIsKept
  <2> SUFFICES ASSUME TypeOK, Heirs, NEW i \in 1 .. last, NEW S \in SUBSET Id, i \in S,
                      \A k \in S : heir[k] # 0 => heir[k] \in S
               PROVE  S \cap Rows # {}
    BY DEF IInv, Kept, SomebodyIsKept
  <2>1. PICK k \in S : \A j \in S : ~(<<j, k>> \in OpToRel(<, Nat))
    <3>1. S \subseteq Nat /\ S # {}
      BY DEF Id
    <3> QED
      BY <3>1, NatLessThanWellFounded, WFMin
  <2>2. \A j \in S : ~(j < k)
    <3> SUFFICES ASSUME NEW j \in S, j < k PROVE FALSE
      OBVIOUS
    <3>1. j \in Nat /\ k \in Nat
      BY DEF Id
    <3>2. <<j, k>> \in OpToRel(<, Nat)
      BY <3>1 DEF OpToRel
    <3> QED
      BY <2>1, <3>2
  <2>3. heir[k] = 0 /\ k <= last
    BY <2>2, ApplicationsAssumption DEF TypeOK, RowTypes, OtherTypes, Heirs, Id
  <2> QED
    BY <2>3 DEF Heirs, Rows, Exists, Id
<1> QED
  BY <1>1, InductiveInvariant, PTL

\* No interleaving of reports, failures and kills leaves a row marked as reported
\* without a replacement, but for the two cases the invariant names.
THEOREM ReportsReplace == Spec => []ReportedIsReplaced
<1>1. IInv => ReportedIsReplaced
  BY DEF IInv, Kept
<1> QED
  BY <1>1, InductiveInvariant, PTL
=============================================================================
