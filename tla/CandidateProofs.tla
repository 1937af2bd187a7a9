--------------------------- MODULE CandidateProofs ---------------------------
(***************************************************************************)
(* Safety of CandidateDecisions and of InterviewSchedules for every value  *)
(* of their constants: any number of candidates, requests and rows.        *)
(***************************************************************************)
EXTENDS CandidateDecisions, InterviewSchedules, FiniteSetTheorems, TLAPS

USE DEF candidates, request, closer, drainer, history, Goto, End, Keep

-----------------------------------------------------------------------------
(* Sequences of candidates.                                                *)

\* A list that is not empty is its head and its tail.
LEMMA HeadAndTail ==
  ASSUME NEW S, NEW q \in Seq(S), q # <<>>
  PROVE  /\ Head(q) \in S /\ Tail(q) \in Seq(S)
         /\ Head(q) \in ToSet(q) /\ ToSet(q) = {Head(q)} \cup ToSet(Tail(q))
         /\ Len(q) = 1 => ToSet(q) = {Head(q)}
         /\ Len(q) # 1 => Tail(q) # <<>>
<1>1. /\ Len(q) \in Nat /\ Len(q) > 0 /\ DOMAIN q = 1..Len(q) /\ Head(q) = q[1]
      /\ Head(q) \in S /\ Tail(q) \in Seq(S) /\ Len(Tail(q)) = Len(q) - 1
      /\ DOMAIN Tail(q) = 1..(Len(q) - 1)
      /\ \A i \in 1..(Len(q) - 1) : Tail(q)[i] = q[i + 1]
  OBVIOUS
<1>2. Head(q) \in ToSet(q)
  BY <1>1 DEF ToSet
<1>3. ASSUME NEW x \in ToSet(q) PROVE x \in {Head(q)} \cup ToSet(Tail(q))
  <2>1. PICK i \in 1..Len(q) : x = q[i]
    BY <1>1 DEF ToSet
  <2>2. CASE i = 1
    BY <1>1, <2>1, <2>2
  <2>3. CASE i # 1
    <3>1. i - 1 \in 1..(Len(q) - 1) /\ (i - 1) + 1 = i
      BY <1>1, <2>1, <2>3
    <3>2. x = Tail(q)[i - 1]
      BY <1>1, <2>1, <3>1
    <3> QED
      BY <1>1, <3>1, <3>2 DEF ToSet
  <2> QED
    BY <2>2, <2>3
<1>4. ASSUME NEW x \in ToSet(Tail(q)) PROVE x \in ToSet(q)
  <2>1. PICK i \in 1..(Len(q) - 1) : x = Tail(q)[i]
    BY <1>1 DEF ToSet
  <2>2. i + 1 \in 1..Len(q) /\ x = q[i + 1]
    BY <1>1, <2>1
  <2> QED
    BY <1>1, <2>2 DEF ToSet
<1>5. ASSUME Len(q) = 1 PROVE ToSet(Tail(q)) = {}
  BY <1>1, <1>5 DEF ToSet
<1>6. ToSet(q) = {Head(q)} \cup ToSet(Tail(q))
  BY <1>2, <1>3, <1>4
<1>7. Len(q) = 1 => ToSet(q) = {Head(q)}
  BY <1>5, <1>6
<1>8. Len(q) # 1 => Tail(q) # <<>>
  <2>1. Len(<<>>) = 0
    OBVIOUS
  <2>2. Len(q) # 1 => Len(Tail(q)) # 0
    BY <1>1
  <2> QED
    BY <2>1, <2>2
<1> QED
  BY <1>1, <1>2, <1>6, <1>7, <1>8

LEMMA NothingIn == ToSet(<<>>) = {}
BY DEF ToSet

\* The list of a finite set has its members.
LEMMA ListOfSet ==
  ASSUME NEW S, IsFiniteSet(S)
  PROVE  SetToSeq(S) \in Seq(S)
<1>1. Cardinality(S) \in Nat /\ ExistsBijection(1..Cardinality(S), S)
  BY FS_CardinalityType
<1>2. PICK f \in Bijection(1..Cardinality(S), S) : TRUE
  BY <1>1 DEF ExistsBijection
<1>3. f \in [1..Cardinality(S) -> S] /\ IsInjective(f)
  BY <1>2 DEF Bijection, Injection
<1>4. SetToSeq(S) \in [1..Cardinality(S) -> S]
  BY <1>3 DEF SetToSeq
<1> QED
  BY <1>1, <1>4

-----------------------------------------------------------------------------
(* CandidateDecisions: types, by the variables a step may change together. *)

\* Who was decided before whom is a strict total order of the closed ones.
OutcomesOK ==
    /\ outcome \in [Candidate -> Outcome]
    /\ before \subseteq Closed \X Closed
    /\ \A c \in Closed : <<c, c>> \notin before
    /\ \A c, d \in Closed : c # d => (<<c, d>> \in before <=> <<d, c>> \notin before)
    /\ \A c, d, e \in Closed : <<c, d>> \in before /\ <<d, e>> \in before => <<c, e>> \in before
FilesOK   == files \in [Candidate -> BOOLEAN]
SentOK    == sent \in [Candidate -> 0..MaxMails]
NoticesOK == queued \in [Candidate -> BOOLEAN] /\ external \in [Candidate -> BOOLEAN]
JobOK     == job \in {"active", "closed"}
RequestOK ==
    /\ pc \in [Request -> Label] /\ on \in [Request -> Candidate]
    /\ read \in [Request -> Outcome \cup {"resend"}] /\ want \in [Request -> Outcome]
    /\ notify \in [Request -> {"no", "mail", "full"}]
    /\ \A r \in Request : pc[r] = "write" => want[r] # "none"
\* The closing works on a part of what it selected, and has somebody to work on.
CloserOK ==
    /\ closing \in CloseLabel /\ cap \in 0..SoftCap
    /\ targets \in Seq(Candidate) /\ todo \in Seq(Candidate)
    /\ ToSet(todo) \subseteq ToSet(targets)
    /\ closing \in {"purge", "clear", "mails", "count"} => todo # <<>>
    /\ closing = "reject" /\ todo = <<>> => targets = <<>>
    /\ closing = "count" => cap > 0
DrainerOK ==
    /\ drain \in DrainLabel /\ list \in Seq(Candidate)
    /\ drain # "idle" => list # <<>>
MarksOK == overtaken \subseteq Candidate /\ misled \subseteq Candidate

Types ==
    /\ OutcomesOK /\ FilesOK /\ SentOK /\ NoticesOK /\ JobOK
    /\ RequestOK /\ CloserOK /\ DrainerOK /\ MarksOK

\* What a step leaves alone keeps its type.
LEMMA KeptTypes ==
  ASSUME Types
  PROVE  /\ UNCHANGED <<outcome, before>> => OutcomesOK'
         /\ UNCHANGED files => FilesOK'
         /\ UNCHANGED sent => SentOK'
         /\ UNCHANGED <<queued, external>> => NoticesOK'
         /\ UNCHANGED job => JobOK'
         /\ UNCHANGED request => RequestOK'
         /\ UNCHANGED closer => CloserOK'
         /\ UNCHANGED drainer => DrainerOK'
         /\ UNCHANGED history => MarksOK'
<1>1. UNCHANGED <<outcome, before>> => OutcomesOK'
  BY DEF Types, OutcomesOK, Closed
<1>2. UNCHANGED request => RequestOK'
  BY DEF Types, RequestOK
<1>3. UNCHANGED closer => CloserOK'
  BY DEF Types, CloserOK
<1>4. UNCHANGED drainer => DrainerOK'
  BY DEF Types, DrainerOK
<1>5. /\ UNCHANGED files => FilesOK'
      /\ UNCHANGED sent => SentOK'
      /\ UNCHANGED <<queued, external>> => NoticesOK'
      /\ UNCHANGED job => JobOK'
      /\ UNCHANGED history => MarksOK'
  BY DEF Types, FilesOK, SentOK, NoticesOK, JobOK, MarksOK
<1> QED
  BY <1>1, <1>2, <1>3, <1>4, <1>5

LEMMA NobodyIsOne == Nobody \in Candidate
BY DecisionAssumption DEF Nobody

\* A request goes to its next label, ends, or begins with what it has read.
LEMMA RequestTypes ==
  ASSUME Types, NEW r \in Request
  PROVE  /\ \A l \in Label \ {"write"} :
              Goto(r, l) /\ UNCHANGED <<on, read, want, notify>> => RequestOK'
         /\ End(r) => RequestOK'
         /\ \A l \in Label, c \in Candidate, o \in Outcome \cup {"resend"}, w \in Outcome,
               n \in {"no", "mail", "full"} :
               (l = "write" => w # "none") /\ Goto(r, l) /\ Keep(r, c, o, w, n) => RequestOK'
<1>0. RequestOK
  BY DEF Types
<1>1. ASSUME NEW l \in Label \ {"write"}, Goto(r, l), UNCHANGED <<on, read, want, notify>>
      PROVE  RequestOK'
  BY <1>0, <1>1 DEF RequestOK
<1>2. ASSUME End(r) PROVE RequestOK'
  BY <1>0, <1>2, NobodyIsOne DEF RequestOK, Label, Outcome
<1>3. ASSUME NEW l \in Label, NEW c \in Candidate, NEW o \in Outcome \cup {"resend"},
             NEW w \in Outcome, NEW n \in {"no", "mail", "full"},
             l = "write" => w # "none", Goto(r, l), Keep(r, c, o, w, n)
      PROVE  RequestOK'
  BY <1>0, <1>3 DEF RequestOK
<1> QED
  BY <1>1, <1>2, <1>3

\* A decision is the latest one; a reopened candidate leaves the order.
LEMMA DecideTypes ==
  ASSUME OutcomesOK, NEW c \in Candidate, NEW o \in Outcome \ {"none"}, Decide(c, o)
  PROVE  OutcomesOK'
<1>1. outcome' = [outcome EXCEPT ![c] = o] /\ outcome' \in [Candidate -> Outcome]
  BY DEF OutcomesOK, Decide
<1>2. Closed' = Closed \cup {c}
  BY <1>1 DEF Closed, OutcomesOK
<1>3. before' = {p \in before : c \notin {p[1], p[2]}} \cup {<<d, c>> : d \in Closed \ {c}}
  BY DEF Decide, Undecided
<1>4. \A d, e \in Candidate : <<d, e>> \in before' <=>
          \/ <<d, e>> \in before /\ d # c /\ e # c
          \/ e = c /\ d \in Closed /\ d # c
  BY <1>3
<1>5. before' \subseteq Closed' \X Closed'
  BY <1>2, <1>3 DEF OutcomesOK
<1>6. Closed \subseteq Candidate /\ Closed' \subseteq Candidate
  BY DEF Closed
<1>7. \A d \in Closed' : <<d, d>> \notin before'
  BY <1>2, <1>4, <1>6 DEF OutcomesOK
<1>8. \A d, e \in Closed' : d # e => (<<d, e>> \in before' <=> <<e, d>> \notin before')
  BY <1>2, <1>4, <1>6 DEF OutcomesOK
<1>9. \A d, e, f \in Closed' :
         <<d, e>> \in before' /\ <<e, f>> \in before' => <<d, f>> \in before'
  BY <1>2, <1>4, <1>6 DEF OutcomesOK
<1> QED
  BY <1>1, <1>5, <1>7, <1>8, <1>9 DEF OutcomesOK

LEMMA ReopenTypes ==
  ASSUME OutcomesOK, NEW c \in Candidate, outcome' = [outcome EXCEPT ![c] = "none"],
         before' = Undecided(c)
  PROVE  OutcomesOK'
<1>1. outcome' \in [Candidate -> Outcome]
  BY DEF OutcomesOK, Outcome
<1>2. Closed' = Closed \ {c}
  BY DEF Closed, OutcomesOK
<1>3. before' \subseteq before /\ before' \subseteq Closed' \X Closed'
  BY <1>2 DEF OutcomesOK, Undecided
<1>4. \A d, e \in Closed' : <<d, e>> \in before' <=> <<d, e>> \in before
  BY <1>2 DEF Undecided
<1> QED
  BY <1>1, <1>2, <1>3, <1>4 DEF OutcomesOK

LEMMA MarkTypes ==
  ASSUME Types, NEW c \in Candidate,
         overtaken' = overtaken \/ overtaken' = overtaken \cup {c},
         misled' = misled \/ misled' = misled \cup {c}
  PROVE  MarksOK'
BY DEF Types, MarksOK

\* The steps of a recruiter's request.
LEMMA RecruiterTypes ==
  ASSUME Types, NEW r \in Request, RecruiterStep(r) \/ Die(r)
  PROVE  Types'
<1>0. /\ OutcomesOK /\ FilesOK /\ SentOK /\ NoticesOK /\ RequestOK
      /\ on[r] \in Candidate /\ want[r] \in Outcome
  BY DEF Types, RequestOK
<1>a. /\ MaxMails \in Nat \ {0}
      /\ \A n \in 0..MaxMails : Counted(n) \in 0..MaxMails
  BY DecisionAssumption DEF Counted
<1>b. /\ Told \subseteq Outcome /\ Label = {"idle", "write", "send", "count", "purge", "clear",
                                           "reopen", "mark"}
  BY DEF Told, Outcome, Label
<1>1. ASSUME NEW c \in Candidate, DecideRead(r, c) PROVE Types'
  <2>1. PICK o \in Outcome \ {"none", outcome[c]}, mail \in BOOLEAN :
           Keep(r, c, outcome[c], o, Asked(c, o, mail))
    BY <1>1 DEF DecideRead
  <2>2. Asked(c, o, mail) \in {"no", "mail", "full"} /\ outcome[c] \in Outcome
    BY <1>0 DEF Asked, OutcomesOK
  <2>3. RequestOK'
    BY <1>b, <1>1, <2>1, <2>2, RequestTypes DEF DecideRead
  <2> QED
    BY <1>1, <2>3, KeptTypes DEF DecideRead, Types
<1>2. ASSUME NEW c \in Candidate, MailRead(r, c) PROVE Types'
  <2>1. outcome[c] \in Outcome
    BY <1>0 DEF OutcomesOK
  <2>2. RequestOK'
    BY <1>b, <1>2, <2>1, RequestTypes DEF MailRead
  <2> QED
    BY <1>2, <2>2, KeptTypes DEF MailRead, Types
<1>3. ASSUME NEW c \in Candidate, ReopenRead(r, c) PROVE Types'
  <2>1. outcome[c] \in Outcome /\ "none" \in Outcome
    BY <1>0 DEF OutcomesOK, Outcome
  <2>2. RequestOK'
    BY <1>b, <1>3, <2>1, RequestTypes DEF ReopenRead
  <2> QED
    BY <1>3, <2>2, KeptTypes DEF ReopenRead, Types
<1>4. ASSUME NEW c \in Candidate, MarkRead(r, c) PROVE Types'
  <2>1. outcome[c] \in Outcome /\ "none" \in Outcome
    BY <1>0 DEF OutcomesOK, Outcome
  <2>2. RequestOK'
    BY <1>b, <1>4, <2>1, RequestTypes DEF MarkRead
  <2> QED
    BY <1>4, <2>2, KeptTypes DEF MarkRead, Types
<1>5. ASSUME DecideWrite(r) PROVE Types'
  <2>1. Decide(on[r], want[r]) /\ want[r] # "none"
    BY <1>0, <1>5 DEF DecideWrite, RequestOK
  <2>2. OutcomesOK'
    BY <1>0, <2>1, DecideTypes
  <2>3. RequestOK'
    BY <1>b, <1>5, RequestTypes DEF DecideWrite
  <2>4. MarksOK'
    BY <1>0, <1>5, MarkTypes DEF DecideWrite, Decide, Changed
  <2> QED
    BY <1>5, <2>2, <2>3, <2>4, KeptTypes DEF DecideWrite, Types
<1>6. ASSUME Send(r) PROVE Types'
  <2>1. RequestOK'
    BY <1>b, <1>6, RequestTypes DEF Send
  <2>2. MarksOK'
    BY <1>0, <1>6, MarkTypes DEF Send, Tell
  <2> QED
    BY <1>6, <2>1, <2>2, KeptTypes DEF Send, Types
<1>7. ASSUME SendFails(r) \/ Die(r) PROVE Types'
  <2>1. RequestOK'
    BY <1>7, RequestTypes DEF SendFails, Die
  <2> QED
    BY <1>7, <2>1, KeptTypes DEF SendFails, Die, Types
<1>8. ASSUME Count(r) PROVE Types'
  <2>1. RequestOK'
    BY <1>b, <1>8, RequestTypes DEF Count
  <2>2. SentOK'
    BY <1>0, <1>a, <1>8 DEF Count, SentOK
  <2>3. NoticesOK'
    BY <1>0, <1>8 DEF Count, NoticesOK
  <2> QED
    BY <1>8, <2>1, <2>2, <2>3, KeptTypes DEF Count, Types
<1>9. ASSUME PurgeLook(r) PROVE Types'
  <2>1. RequestOK'
    BY <1>b, <1>9, RequestTypes DEF PurgeLook
  <2> QED
    BY <1>9, <2>1, KeptTypes DEF PurgeLook, Types
<1>10. ASSUME PurgeClear(r) PROVE Types'
  <2>1. RequestOK'
    BY <1>10, RequestTypes DEF PurgeClear
  <2>2. FilesOK'
    BY <1>0, <1>10 DEF PurgeClear, FilesOK
  <2> QED
    BY <1>10, <2>1, <2>2, KeptTypes DEF PurgeClear, Types
<1>11. ASSUME ReopenWrite(r) PROVE Types'
  <2>1. RequestOK'
    BY <1>11, RequestTypes DEF ReopenWrite
  <2>2. CASE outcome[on[r]] = read[r]
    <3>1. OutcomesOK'
      BY <1>0, <1>11, <2>2, ReopenTypes DEF ReopenWrite
    <3>2. NoticesOK'
      BY <1>0, <1>11, <2>2 DEF ReopenWrite, NoticesOK
    <3>3. MarksOK'
      BY <1>0, <1>11, <2>2, MarkTypes DEF ReopenWrite, Changed
    <3> QED
      BY <1>11, <2>1, <3>1, <3>2, <3>3, KeptTypes DEF ReopenWrite, Types
  <2>3. CASE outcome[on[r]] # read[r]
    <3>1. UNCHANGED <<outcome, before, queued, external, overtaken>>
      BY <1>11, <2>3 DEF ReopenWrite
    <3> QED
      BY <1>11, <2>1, <3>1, KeptTypes DEF ReopenWrite, Types
  <2> QED
    BY <2>2, <2>3
<1>12. ASSUME MarkWrite(r) PROVE Types'
  <2>1. RequestOK'
    BY <1>12, RequestTypes DEF MarkWrite
  <2>2. NoticesOK'
    BY <1>0, <1>12 DEF MarkWrite, NoticesOK
  <2>3. MarksOK'
    BY <1>0, <1>12, MarkTypes DEF MarkWrite, Changed
  <2> QED
    BY <1>12, <2>1, <2>2, <2>3, KeptTypes DEF MarkWrite, Types
<1> QED
  BY <1>1, <1>2, <1>3, <1>4, <1>5, <1>6, <1>7, <1>8, <1>9, <1>10, <1>11, <1>12
  DEF RecruiterStep

\* The steps of the closing.
LEMMA CloserTypes ==
  ASSUME Types, CloseStep \/ CloserDies \/ ReopenJob
  PROVE  Types'
<1>0. /\ OutcomesOK /\ FilesOK /\ SentOK /\ NoticesOK /\ CloserOK
      /\ MaxMails \in Nat \ {0} /\ SoftCap \in Nat
  BY DecisionAssumption DEF Types
<1>a. /\ \A n \in 0..MaxMails : Counted(n) \in 0..MaxMails
      /\ 0 \in 0..SoftCap /\ \A n \in 0..SoftCap : n > 0 => n - 1 \in 0..SoftCap
  BY <1>0 DEF Counted
<1>b. todo # <<>> =>
         /\ Head(todo) \in Candidate /\ Tail(todo) \in Seq(Candidate)
         /\ ToSet(Tail(todo)) \subseteq ToSet(targets)
         /\ Len(todo) # 1 => Tail(todo) # <<>>
         /\ targets # <<>>
  <2>1. ASSUME todo # <<>>
        PROVE  /\ Head(todo) \in Candidate /\ Tail(todo) \in Seq(Candidate)
               /\ ToSet(Tail(todo)) \subseteq ToSet(targets)
               /\ Len(todo) # 1 => Tail(todo) # <<>>
               /\ Head(todo) \in ToSet(targets)
    BY <1>0, <2>1, HeadAndTail DEF CloserOK
  <2> QED
    BY <2>1, NothingIn
<1>c. ToSet(<<>>) \subseteq ToSet(targets) /\ <<>> \in Seq(Candidate)
  BY NothingIn
<1>1. ASSUME CloseSelect PROVE Types'
  <2>1. targets' \in Seq(Candidate)
    <3> DEFINE open == {c \in Candidate : outcome[c] = "none"}
    <3>1. IsFiniteSet(open)
      BY DecisionAssumption, FS_Subset
    <3>2. SetToSeq(open) \in Seq(open)
      BY <3>1, ListOfSet
    <3>3. Seq(open) \subseteq Seq(Candidate)
      OBVIOUS
    <3> QED
      BY <1>1, <3>2, <3>3 DEF CloseSelect
  <2>2. CloserOK'
    BY <1>0, <1>1, <2>1 DEF CloseSelect, CloserOK, CloseLabel
  <2> QED
    BY <1>1, <2>2, KeptTypes DEF CloseSelect, Types
<1>2. ASSUME CloseReject PROVE Types'
  <2>1. todo # <<>> /\ Decide(Head(todo), "rejected")
    BY <1>2 DEF CloseReject
  <2>2. OutcomesOK'
    BY <1>0, <1>b, <2>1, DecideTypes DEF Outcome
  <2>3. CloserOK'
    BY <1>0, <1>b, <1>2, <2>1 DEF CloseReject, CloserOK, CloseLabel
  <2>4. MarksOK'
    BY <1>b, <1>2, <2>1, MarkTypes DEF CloseReject, Decide, Changed
  <2> QED
    BY <1>2, <2>2, <2>3, <2>4, KeptTypes DEF CloseReject, Types
<1>3. ASSUME closing \in {"purge", "clear"}, CloseNext, UNCHANGED <<targets, cap>>
      PROVE  CloserOK'
  BY <1>0, <1>b, <1>c, <1>3 DEF CloseNext, CloserOK, CloseLabel
<1>4. ASSUME ClosePurge PROVE Types'
  <2>1. CloserOK'
    <3>1. CASE Purgeable(Head(todo))
      BY <1>0, <1>4, <3>1 DEF ClosePurge, CloserOK, CloseLabel
    <3>2. CASE ~Purgeable(Head(todo))
      BY <1>3, <1>4, <3>2 DEF ClosePurge
    <3> QED
      BY <3>1, <3>2
  <2> QED
    BY <1>4, <2>1, KeptTypes DEF ClosePurge, Types
<1>5. ASSUME CloseClear PROVE Types'
  <2>1. CloserOK'
    BY <1>3, <1>5 DEF CloseClear
  <2>2. FilesOK'
    BY <1>0, <1>5 DEF CloseClear, FilesOK
  <2> QED
    BY <1>5, <2>1, <2>2, KeptTypes DEF CloseClear, Types
<1>6. ASSUME CloseShut PROVE Types'
  <2>1. CloserOK'
    BY <1>0, <1>a, <1>c, <1>6 DEF CloseShut, CloserOK, CloseLabel
  <2>2. JobOK'
    BY <1>6 DEF CloseShut, JobOK
  <2> QED
    BY <1>6, <2>1, <2>2, KeptTypes DEF CloseShut, Types
<1>7. ASSUME closing \in {"mails", "count"}, MailsNext, cap' \in 0..SoftCap
      PROVE  CloserOK'
  BY <1>0, <1>b, <1>c, <1>7 DEF MailsNext, CloserOK, CloseLabel
<1>8. ASSUME CloseQueue PROVE Types'
  <2>1. CloserOK'
    BY <1>0, <1>a, <1>7, <1>8 DEF CloseQueue, CloserOK
  <2>2. NoticesOK'
    BY <1>0, <1>8 DEF CloseQueue, NoticesOK
  <2> QED
    BY <1>8, <2>1, <2>2, KeptTypes DEF CloseQueue, Types
<1>9. ASSUME CloseSend PROVE Types'
  <2>1. CloserOK'
    BY <1>0, <1>9 DEF CloseSend, CloserOK, CloseLabel
  <2>2. todo # <<>>
    BY <1>0, <1>9 DEF CloseSend, CloserOK
  <2>3. MarksOK'
    BY <1>b, <1>9, <2>2, MarkTypes DEF CloseSend, Tell
  <2> QED
    BY <1>9, <2>1, <2>3, KeptTypes DEF CloseSend, Types
<1>10. ASSUME CloseCount PROVE Types'
  <2>1. CloserOK'
    <3>1. cap' \in 0..SoftCap
      BY <1>0, <1>a, <1>10 DEF CloseCount, CloserOK
    <3> QED
      BY <1>7, <1>10, <3>1 DEF CloseCount
  <2>2. SentOK'
    BY <1>0, <1>a, <1>10 DEF CloseCount, SentOK
  <2>3. NoticesOK'
    BY <1>0, <1>10 DEF CloseCount, NoticesOK
  <2> QED
    BY <1>10, <2>1, <2>2, <2>3, KeptTypes DEF CloseCount, Types
<1>11. ASSUME CloserDies PROVE Types'
  <2>1. CloserOK'
    BY <1>a, <1>11, <1>c, NothingIn DEF CloserDies, CloserOK, CloseLabel
  <2> QED
    BY <1>11, <2>1, KeptTypes DEF CloserDies, Types
<1>12. ASSUME ReopenJob PROVE Types'
  BY <1>12, KeptTypes DEF ReopenJob, JobOK, Types
<1> QED
  BY <1>1, <1>2, <1>4, <1>5, <1>6, <1>8, <1>9, <1>10, <1>11, <1>12 DEF CloseStep


\* The steps of the drain.
LEMMA DrainerTypes ==
  ASSUME Types, DrainStep \/ DrainDies
  PROVE  Types'
<1>0. /\ OutcomesOK /\ SentOK /\ NoticesOK /\ DrainerOK
      /\ MaxMails \in Nat \ {0} /\ Budget \in Nat \ {0}
      /\ \A n \in 0..MaxMails : Counted(n) \in 0..MaxMails
  BY DecisionAssumption DEF Types, Counted
<1>a. drain # "idle" =>
         Head(list) \in Candidate /\ Tail(list) \in Seq(Candidate)
  BY <1>0, HeadAndTail DEF DrainerOK
<1>b. DrainNext /\ drain # "idle" => DrainerOK'
  <2>1. drain # "idle" => (Len(list) # 1 => Tail(list) # <<>>)
    BY <1>0, HeadAndTail DEF DrainerOK
  <2> QED
    BY <1>a, <2>1 DEF DrainNext, DrainerOK, DrainLabel
<1>1. ASSUME DrainSelect PROVE Types'
  <2>0. PICK n \in 1..Budget :
           \E oldest \in [1..n -> {c \in Candidate : Due(c)}] : list' = oldest
    BY <1>1 DEF DrainSelect
  <2>1. PICK oldest \in [1..n -> {c \in Candidate : Due(c)}] : list' = oldest
    BY <2>0
  <2>2. oldest \in Seq(Candidate) /\ Len(oldest) = n /\ n > 0
    BY <1>0, <2>1
  <2>3. Len(<<>>) = 0
    OBVIOUS
  <2>4. DrainerOK'
    BY <1>1, <2>1, <2>2, <2>3 DEF DrainSelect, DrainerOK, DrainLabel
  <2> QED
    BY <1>1, <2>4, KeptTypes DEF DrainSelect, Types
<1>2. ASSUME DrainSend PROVE Types'
  <2>1. DrainerOK'
    BY <1>0, <1>2 DEF DrainSend, DrainerOK, DrainLabel
  <2>2. MarksOK'
    BY <1>a, <1>2, MarkTypes DEF DrainSend, Tell
  <2> QED
    BY <1>2, <2>1, <2>2, KeptTypes DEF DrainSend, Types
<1>3. ASSUME DrainFails PROVE Types'
  BY <1>b, <1>3, KeptTypes DEF DrainFails, Types
<1>4. ASSUME DrainCount PROVE Types'
  <2>1. SentOK' /\ NoticesOK'
    BY <1>0, <1>a, <1>4 DEF DrainCount, SentOK, NoticesOK
  <2> QED
    BY <1>b, <1>4, <2>1, KeptTypes DEF DrainCount, Types
<1>5. ASSUME DrainDies PROVE Types'
  <2>1. DrainerOK'
    BY <1>5 DEF DrainDies, DrainerOK, DrainLabel
  <2> QED
    BY <1>5, <2>1, KeptTypes DEF DrainDies, Types
<1> QED
  BY <1>1, <1>2, <1>3, <1>4, <1>5 DEF DrainStep

LEMMA TypesStep ==
  ASSUME Types, [Next]_vars
  PROVE  Types'
<1>1. ASSUME NEW c \in Candidate, Unmark(c) PROVE Types'
  <2>1. NoticesOK'
    BY <1>1 DEF Unmark, NoticesOK, Types
  <2> QED
    BY <1>1, <2>1, KeptTypes DEF Unmark, Types
<1>2. CASE UNCHANGED vars
  BY <1>2, KeptTypes DEF vars, Types
<1> QED
  BY <1>1, <1>2, RecruiterTypes, CloserTypes, DrainerTypes DEF Next

LEMMA TypesBegin == Init => Types
<1>1. ASSUME Init PROVE Types
  <2>1. /\ Nobody \in Candidate /\ <<>> \in Seq(Candidate) /\ ToSet(<<>>) = {}
        /\ MaxMails \in Nat \ {0} /\ SoftCap \in Nat
    BY NobodyIsOne, NothingIn, DecisionAssumption
  <2>2. OutcomesOK /\ FilesOK /\ SentOK /\ NoticesOK /\ JobOK /\ MarksOK
    BY <1>1, <2>1 DEF Init, OutcomesOK, FilesOK, SentOK, NoticesOK, JobOK, MarksOK, Outcome, Closed
  <2>3. RequestOK /\ CloserOK /\ DrainerOK
    BY <1>1, <2>1 DEF Init, RequestOK, CloserOK, DrainerOK, Label, CloseLabel, DrainLabel, Outcome
  <2> QED
    BY <2>2, <2>3 DEF Types
<1> QED
  BY <1>1

LEMMA TypesMeanTypeOK == Types => TypeOK
BY DEF Types, OutcomesOK, FilesOK, SentOK, NoticesOK, JobOK, RequestOK, CloserOK, DrainerOK,
       MarksOK, TypeOK

\* Type correctness of the decisions: the order of the decisions stays a strict
\* total order of those who are closed, and every list a list of candidates.
THEOREM TypeCorrect == Spec => []TypeOK
<1>1. Types /\ [Next]_vars => Types'
  BY TypesStep
<1> QED
  BY <1>1, TypesBegin, TypesMeanTypeOK, PTL DEF Spec

-----------------------------------------------------------------------------
(* What is told by mail is what was decided.                               *)

\* A request leaves the others where they are.
LEMMA OthersWait ==
  ASSUME RequestOK, NEW self \in Request, RecruiterStep(self) \/ Die(self),
         NEW r \in Request \ {self}
  PROVE  pc'[r] = pc[r] /\ on'[r] = on[r] /\ read'[r] = read[r] /\ want'[r] = want[r]
<1>1. CASE \E c \in Candidate :
              DecideRead(self, c) \/ MailRead(self, c) \/ ReopenRead(self, c) \/ MarkRead(self, c)
  BY <1>1 DEF RequestOK, DecideRead, MailRead, ReopenRead, MarkRead
<1>2. CASE DecideWrite(self) \/ Send(self) \/ SendFails(self) \/ Count(self)
  BY <1>2 DEF RequestOK, DecideWrite, Send, SendFails, Count
<1>3. CASE PurgeLook(self) \/ PurgeClear(self) \/ ReopenWrite(self) \/ MarkWrite(self) \/ Die(self)
  BY <1>3 DEF RequestOK, PurgeLook, PurgeClear, ReopenWrite, MarkWrite, Die
<1> QED
  BY <1>1, <1>2, <1>3 DEF RecruiterStep

\* A sender has the candidate in hand: a request about to send, the closing, the drain.
Held(c) == (\E r \in Request : pc[r] = "send" /\ on[r] = c) \/ HeldByCloser(c) \/ HeldByDrain(c)

\* The senders know what they tell, unless the candidate was changed meanwhile.
SendersKnow ==
    /\ \A r \in Request : pc[r] = "send" => outcome[on[r]] = want[r] \/ on[r] \in overtaken
    /\ \A c \in Candidate : HeldByCloser(c) => outcome[c] = "rejected" \/ c \in overtaken
    /\ \A c \in Candidate :
          HeldByDrain(c) => (outcome[c] = "rejected" /\ ~external[c]) \/ c \in overtaken

\* Whoever is changed while held is marked as overtaken.
LEMMA OvertakenStep ==
  ASSUME Types, [Next]_vars
  PROVE  /\ overtaken \subseteq overtaken'
         /\ \A c \in Candidate :
               Held(c) /\ (outcome'[c] # outcome[c] \/ (external'[c] /\ ~external[c]))
                   => c \in overtaken'
<1>0. /\ outcome \in [Candidate -> Outcome] /\ external \in [Candidate -> BOOLEAN]
      /\ RequestOK /\ CloserOK
  BY DEF Types, OutcomesOK, NoticesOK
<1> DEFINE Marked == /\ overtaken \subseteq overtaken'
                     /\ \A c \in Candidate :
                          Held(c) /\ (outcome'[c] # outcome[c] \/ (external'[c] /\ ~external[c]))
                              => c \in overtaken'
<1>1. ASSUME NEW self \in SUBSET Request, NEW c \in Candidate, Changed(self, c),
             \A r \in self : pc[r] # "send",
             \A d \in Candidate \ {c} : outcome'[d] = outcome[d] /\ external'[d] = external[d]
      PROVE  Marked
  BY <1>1 DEF Changed, Held, HeldByRequest
<1>2. ASSUME outcome' = outcome, overtaken' = overtaken,
             \A c \in Candidate : external'[c] => external[c]
      PROVE  Marked
  BY <1>2
<1>3. ASSUME NEW r \in Request, RecruiterStep(r) PROVE Marked
  <2>1. on[r] \in Candidate
    BY <1>0 DEF RequestOK
  <2>2. CASE DecideWrite(r)
    BY <1>0, <1>1, <2>1, <2>2 DEF DecideWrite, Decide
  <2>3. CASE ReopenWrite(r)
    <3>1. CASE outcome[on[r]] = read[r]
      <4>1. Changed({r}, on[r]) /\ pc[r] # "send"
        BY <2>3, <3>1 DEF ReopenWrite
      <4>2. \A d \in Candidate \ {on[r]} : outcome'[d] = outcome[d] /\ external'[d] = external[d]
        BY <1>0, <2>1, <2>3, <3>1 DEF ReopenWrite
      <4> QED
        BY <1>1, <2>1, <4>1, <4>2
    <3>2. CASE outcome[on[r]] # read[r]
      BY <1>2, <2>3, <3>2 DEF ReopenWrite
    <3> QED
      BY <3>1, <3>2
  <2>4. CASE MarkWrite(r)
    <3>1. Changed({r}, on[r]) /\ pc[r] # "send"
      BY <2>4 DEF MarkWrite
    <3>2. \A d \in Candidate \ {on[r]} : outcome'[d] = outcome[d] /\ external'[d] = external[d]
      BY <1>0, <2>1, <2>4 DEF MarkWrite
    <3> QED
      BY <1>1, <2>1, <3>1, <3>2
  <2>5. CASE \E c \in Candidate :
                DecideRead(r, c) \/ MailRead(r, c) \/ ReopenRead(r, c) \/ MarkRead(r, c)
    BY <1>2, <2>5 DEF DecideRead, MailRead, ReopenRead, MarkRead
  <2>6. CASE Send(r) \/ SendFails(r) \/ Count(r) \/ PurgeLook(r) \/ PurgeClear(r)
    BY <1>2, <2>6 DEF Send, SendFails, Count, PurgeLook, PurgeClear
  <2> QED
    BY <1>3, <2>2, <2>3, <2>4, <2>5, <2>6 DEF RecruiterStep
<1>4. CASE CloseReject
  <2>1. Head(todo) \in Candidate
    BY <1>0, <1>4, HeadAndTail DEF CloseReject, CloserOK
  <2> QED
    BY <1>0, <1>1, <1>4, <2>1 DEF CloseReject, Decide
<1>5. CASE CloseSelect \/ ClosePurge \/ CloseClear \/ CloseShut \/ CloseQueue \/ CloseSend
              \/ CloseCount \/ CloserDies \/ ReopenJob
  BY <1>2, <1>5 DEF CloseSelect, ClosePurge, CloseClear, CloseShut, CloseQueue, CloseSend,
     CloseCount, CloserDies, ReopenJob
<1>6. CASE DrainStep \/ DrainDies
  BY <1>2, <1>6 DEF DrainStep, DrainSelect, DrainSend, DrainFails, DrainCount, DrainDies
<1>7. CASE \E c \in Candidate : Unmark(c)
  BY <1>0, <1>2, <1>7 DEF Unmark
<1>8. CASE UNCHANGED vars \/ \E r \in Request : Die(r)
  BY <1>2, <1>8 DEF vars, Die
<1> QED
  BY <1>3, <1>4, <1>5, <1>6, <1>7, <1>8 DEF Next, CloseStep

LEMMA RequestsKnow ==
  ASSUME Types, SendersKnow, [Next]_vars
  PROVE  \A r \in Request : pc'[r] = "send" => outcome'[on'[r]] = want'[r] \/ on'[r] \in overtaken'
<1>0. RequestOK /\ outcome \in [Candidate -> Outcome]
  BY DEF Types, OutcomesOK
<1> SUFFICES ASSUME NEW r \in Request, pc'[r] = "send"
             PROVE  outcome'[on'[r]] = want'[r] \/ on'[r] \in overtaken'
  OBVIOUS
<1>a. on[r] \in Candidate
  BY <1>0 DEF RequestOK
<1>1. ASSUME pc[r] = "send", on'[r] = on[r], want'[r] = want[r]
      PROVE  outcome'[on'[r]] = want'[r] \/ on'[r] \in overtaken'
  BY <1>a, <1>1, OvertakenStep DEF SendersKnow, Held
<1>2. ASSUME NEW self \in Request, RecruiterStep(self) \/ Die(self), self # r
      PROVE  outcome'[on'[r]] = want'[r] \/ on'[r] \in overtaken'
  <2>1. pc'[r] = pc[r] /\ on'[r] = on[r] /\ want'[r] = want[r]
    BY <1>0, <1>2, OthersWait
  <2> QED
    BY <1>1, <2>1
<1>3. CASE DecideWrite(r)
  <2>1. on'[r] = on[r] /\ want'[r] = want[r]
    BY <1>0, <1>3 DEF DecideWrite, RequestOK
  <2>2. outcome'[on[r]] = want[r]
    BY <1>0, <1>3, <1>a DEF DecideWrite, Decide
  <2> QED
    BY <2>1, <2>2
<1>4. ASSUME NEW c \in Candidate, MailRead(r, c)
      PROVE  outcome'[on'[r]] = want'[r]
  BY <1>0, <1>4 DEF MailRead, RequestOK
<1>5. ASSUME RecruiterStep(r) \/ Die(r)
      PROVE  outcome'[on'[r]] = want'[r] \/ on'[r] \in overtaken'
  <2>1. DecideWrite(r) \/ \E c \in Candidate : MailRead(r, c)
    BY <1>0, <1>5 DEF RequestOK, RecruiterStep, Die, DecideRead, ReopenRead,
       MarkRead, Send, SendFails, Count, PurgeLook, PurgeClear, ReopenWrite, MarkWrite
  <2> QED
    BY <1>3, <1>4, <2>1
<1>6. CASE UNCHANGED request
  BY <1>1, <1>6
<1>7. CASE CloseStep \/ CloserDies \/ ReopenJob
  BY <1>6, <1>7 DEF CloseStep, CloseSelect, CloseReject, ClosePurge, CloseClear, CloseShut,
     CloseQueue, CloseSend, CloseCount, CloserDies, ReopenJob
<1>8. CASE DrainStep \/ DrainDies \/ (\E c \in Candidate : Unmark(c)) \/ UNCHANGED vars
  BY <1>6, <1>8 DEF DrainStep, DrainSelect, DrainSend, DrainFails, DrainCount, DrainDies, Unmark, vars
<1> QED
  BY <1>2, <1>5, <1>7, <1>8 DEF Next

\* The closing holds those it has held, and whom it rejects.
LEMMA CloserHolds ==
  ASSUME Types, [Next]_vars, NEW c \in Candidate, HeldByCloser(c)'
  PROVE  HeldByCloser(c) \/ (CloseReject /\ outcome'[c] = "rejected")
<1>0. CloserOK /\ outcome \in [Candidate -> Outcome]
  BY DEF Types, OutcomesOK
<1>a. /\ closing' # "idle" /\ c \in ToSet(targets')
      /\ closing' = "reject" => c \notin ToSet(todo')
      /\ closing' \in {"mails", "count"} => c \in ToSet(todo')
  BY DEF HeldByCloser
<1>b. todo # <<>> =>
         /\ ToSet(todo) = {Head(todo)} \cup ToSet(Tail(todo))
         /\ Len(todo) = 1 => ToSet(todo) = {Head(todo)}
  BY <1>0, HeadAndTail DEF CloserOK
<1>1. CASE CloseSelect
  BY <1>a, <1>1 DEF CloseSelect
<1>2. CASE CloseReject
  <2>1. targets' = targets /\ closing = "reject" /\ todo # <<>> /\ Head(todo) \in Candidate
    BY <1>0, <1>2, HeadAndTail DEF CloseReject, CloserOK
  <2>2. c \in ToSet(targets) /\ (c \in ToSet(todo) => c = Head(todo))
    BY <1>2, <1>a, <1>b, <2>1 DEF CloseReject
  <2>3. outcome'[Head(todo)] = "rejected"
    BY <1>0, <1>2, <2>1 DEF CloseReject, Decide
  <2> QED
    BY <1>2, <2>1, <2>2, <2>3 DEF HeldByCloser
<1>3. CASE ClosePurge \/ CloseClear
  BY <1>3, <1>a DEF ClosePurge, CloseClear, CloseNext, HeldByCloser
<1>4. CASE CloseShut
  <2>1. targets' = targets /\ targets # <<>>
    BY <1>4, <1>a DEF CloseShut
  <2>2. closing = "shut"
    BY <1>0, <1>4, <2>1 DEF CloseShut, CloserOK
  <2> QED
    BY <1>a, <2>1, <2>2 DEF HeldByCloser
<1>5. CASE CloseQueue \/ CloseSend \/ CloseCount
  <2>1. closing \in {"mails", "count"} /\ todo # <<>>
    BY <1>0, <1>5 DEF CloseQueue, CloseSend, CloseCount, CloserOK
  <2>2. targets' = targets /\ closing' \in {"mails", "count"}
        /\ (todo' = todo \/ todo' = Tail(todo))
    BY <1>5, <1>a DEF CloseQueue, CloseSend, CloseCount, MailsNext
  <2> QED
    BY <1>a, <1>b, <2>1, <2>2 DEF HeldByCloser
<1>6. CASE CloserDies
  BY <1>6, <1>a DEF CloserDies
<1>7. CASE UNCHANGED closer
  BY <1>7, <1>a DEF HeldByCloser
<1>8. CASE ReopenJob \/ DrainStep \/ DrainDies \/ (\E d \in Candidate : Unmark(d)) \/ UNCHANGED vars
  BY <1>7, <1>8 DEF ReopenJob, DrainStep, DrainSelect, DrainSend, DrainFails, DrainCount,
     DrainDies, Unmark, vars
<1>9. ASSUME NEW r \in Request, RecruiterStep(r) \/ Die(r) PROVE UNCHANGED closer
  BY <1>9 DEF RecruiterStep, Die, DecideRead, MailRead, ReopenRead, MarkRead, DecideWrite,
     Send, SendFails, Count, PurgeLook, PurgeClear, ReopenWrite, MarkWrite
<1> QED
  BY <1>1, <1>2, <1>3, <1>4, <1>5, <1>6, <1>7, <1>8, <1>9 DEF Next, CloseStep

\* The drain holds those it has held, and whom it selects.
LEMMA DrainHolds ==
  ASSUME Types, [Next]_vars, NEW c \in Candidate, HeldByDrain(c)'
  PROVE  HeldByDrain(c) \/ (Due(c) /\ UNCHANGED candidates)
<1>0. DrainerOK /\ c \in ToSet(list')
  BY DEF Types, HeldByDrain
<1>1. CASE DrainSelect
  <2>0. PICK n \in 1..Budget :
           \E oldest \in [1..n -> {d \in Candidate : Due(d)}] : list' = oldest
    BY <1>1 DEF DrainSelect
  <2>1. PICK oldest \in [1..n -> {d \in Candidate : Due(d)}] : list' = oldest
    BY <2>0
  <2>2. Due(c)
    BY <1>0, <2>1 DEF ToSet
  <2> QED
    BY <1>1, <2>2 DEF DrainSelect
<1>2. CASE DrainNext /\ drain # "idle"
  <2>1. ToSet(Tail(list)) \subseteq ToSet(list)
    BY <1>0, <1>2, HeadAndTail DEF DrainerOK
  <2> QED
    BY <1>0, <1>2, <2>1 DEF DrainNext, HeldByDrain
<1>3. CASE list' = list
  BY <1>0, <1>3 DEF HeldByDrain
<1>4. CASE DrainDies
  BY <1>0, <1>4, NothingIn DEF DrainDies
<1>5. CASE DrainStep
  BY <1>1, <1>2, <1>3, <1>5 DEF DrainStep, DrainSend, DrainFails, DrainCount
<1>6. CASE (\E d \in Candidate : Unmark(d)) \/ UNCHANGED vars
  BY <1>3, <1>6 DEF Unmark, vars
<1>7. ASSUME NEW r \in Request, RecruiterStep(r) \/ Die(r) PROVE list' = list
  BY <1>7 DEF RecruiterStep, Die, DecideRead, MailRead, ReopenRead, MarkRead, DecideWrite,
     Send, SendFails, Count, PurgeLook, PurgeClear, ReopenWrite, MarkWrite
<1>8. CASE CloseStep \/ CloserDies \/ ReopenJob
  BY <1>3, <1>8 DEF CloseStep, CloseSelect, CloseReject, ClosePurge, CloseClear, CloseShut,
     CloseQueue, CloseSend, CloseCount, CloserDies, ReopenJob
<1> QED
  BY <1>3, <1>4, <1>5, <1>6, <1>7, <1>8 DEF Next

LEMMA SendersStep ==
  ASSUME Types, SendersKnow, [Next]_vars
  PROVE  SendersKnow'
<1>0. outcome \in [Candidate -> Outcome] /\ external \in [Candidate -> BOOLEAN]
  BY DEF Types, OutcomesOK, NoticesOK
<1>1. ASSUME NEW c \in Candidate, HeldByCloser(c)'
      PROVE  outcome'[c] = "rejected" \/ c \in overtaken'
  <2>1. CASE HeldByCloser(c)
    BY <2>1, OvertakenStep DEF SendersKnow, Held
  <2>2. CASE ~HeldByCloser(c)
    BY <1>1, <2>2, CloserHolds
  <2> QED
    BY <2>1, <2>2
<1>2. ASSUME NEW c \in Candidate, HeldByDrain(c)'
      PROVE  (outcome'[c] = "rejected" /\ ~external'[c]) \/ c \in overtaken'
  <2>1. CASE HeldByDrain(c)
    <3>1. (outcome[c] = "rejected" /\ ~external[c]) \/ c \in overtaken
      BY <2>1 DEF SendersKnow
    <3> QED
      BY <2>1, <3>1, OvertakenStep DEF Held
  <2>2. CASE ~HeldByDrain(c)
    <3>1. Due(c) /\ UNCHANGED candidates
      BY <1>2, <2>2, DrainHolds
    <3> QED
      BY <3>1 DEF Due
  <2> QED
    BY <2>1, <2>2
<1> QED
  BY <1>1, <1>2, RequestsKnow DEF SendersKnow

LEMMA MailsStep ==
  ASSUME Types, SendersKnow, NoticeIsCurrent, [Next]_vars
  PROVE  NoticeIsCurrent'
<1>0. RequestOK /\ CloserOK /\ DrainerOK
  BY DEF Types
<1>1. ASSUME NEW r \in Request, Send(r) PROVE NoticeIsCurrent'
  BY <1>0, <1>1 DEF Send, Tell, NoticeIsCurrent, SendersKnow
<1>2. CASE CloseSend
  <2>1. Head(todo) \in Candidate /\ Head(todo) \in ToSet(todo)
    BY <1>0, <1>2, HeadAndTail DEF CloseSend, CloserOK
  <2>2. HeldByCloser(Head(todo))
    BY <1>0, <1>2, <2>1 DEF CloseSend, CloserOK, HeldByCloser
  <2> QED
    BY <1>2, <2>1, <2>2 DEF CloseSend, Tell, NoticeIsCurrent, SendersKnow
<1>3. CASE DrainSend
  <2>1. Head(list) \in Candidate /\ HeldByDrain(Head(list))
    BY <1>0, <1>3, HeadAndTail DEF DrainSend, DrainerOK, HeldByDrain
  <2> QED
    BY <1>3, <2>1 DEF DrainSend, Tell, NoticeIsCurrent, SendersKnow
<1>4. CASE UNCHANGED misled
  BY <1>4 DEF NoticeIsCurrent
<1>5. ASSUME NEW r \in Request, RecruiterStep(r) \/ Die(r) PROVE NoticeIsCurrent'
  BY <1>1, <1>4, <1>5 DEF RecruiterStep, Die, DecideRead, MailRead, ReopenRead, MarkRead,
     DecideWrite, SendFails, Count, PurgeLook, PurgeClear, ReopenWrite, MarkWrite
<1>6. CASE CloseStep \/ CloserDies \/ ReopenJob
  BY <1>2, <1>4, <1>6 DEF CloseStep, CloseSelect, CloseReject, ClosePurge, CloseClear, CloseShut,
     CloseQueue, CloseCount, CloserDies, ReopenJob
<1>7. CASE DrainStep \/ DrainDies
  BY <1>3, <1>4, <1>7 DEF DrainStep, DrainSelect, DrainFails, DrainCount, DrainDies
<1>8. CASE (\E c \in Candidate : Unmark(c)) \/ UNCHANGED vars
  BY <1>4, <1>8 DEF Unmark, vars
<1> QED
  BY <1>5, <1>6, <1>7, <1>8 DEF Next

\* A mail says what was decided: one that does not, or that the drain sends after
\* the notice by telephone, is for a candidate who was changed after its sender had
\* selected them (decision-drain.ts:57).
THEOREM NoticesAreCurrent == Spec => []NoticeIsCurrent
<1>1. Init => SendersKnow /\ NoticeIsCurrent
  BY NothingIn DEF Init, SendersKnow, NoticeIsCurrent, HeldByCloser, HeldByDrain
<1>2. Types /\ SendersKnow /\ NoticeIsCurrent /\ [Next]_vars => SendersKnow' /\ NoticeIsCurrent'
  BY SendersStep, MailsStep
<1>3. Types /\ [Next]_vars => Types'
  BY TypesStep
<1> QED
  BY <1>1, <1>2, <1>3, TypesBegin, PTL DEF Spec

-----------------------------------------------------------------------------
(* InterviewSchedules: types, and what a request does at each label.       *)

USE DEF rows, callerVars, hourly, past, Enter, Start, Leave, Step

RowsOK ==
    /\ status \in [Schedule -> Status] /\ lapsed \subseteq Schedule \ Fresh
    /\ stage \in {"first", "passed"} /\ candidateOutcome \in {"none", "closed"}
CallersOK ==
    /\ label \in [Caller -> ScheduleLabel] /\ kind \in [Caller -> Kind]
    /\ at \in [Caller -> Schedule] /\ prior \in [Caller -> SUBSET Schedule]
    /\ \A r \in Caller : prior[r] \cap Fresh = {}
HourlyOK ==
    cron \in {"idle", "cancel", "reject", "clean"} /\ lapsing \subseteq Schedule \ Fresh
BooksOK ==
    /\ confirmed \in [Schedule -> 0..2] /\ revived \subseteq Schedule /\ reopenedEarly \in BOOLEAN
    /\ calledOff \subseteq Audience \X (Schedule \ Fresh)

\* What a request at a label does, and whether it has a row in hand.
Courses ==
    \A r \in Caller :
        /\ label[r] \in {"claim", "counter"} => kind[r] = "answer"
        /\ label[r] \in {"withdraw", "look"} => kind[r] = "withdraw"
        /\ label[r] \in {"prior", "cancel", "insert"} => kind[r] \in {"propose", "manual"}
        /\ label[r] = "find" => kind[r] = "decide"
        /\ label[r] \in {"close", "clean"} => kind[r] \in {"withdraw", "decide"}
        /\ label[r] = "notice" => kind[r] # "answer"
        /\ label[r] = "stage" => kind[r] \in {"answer", "propose", "manual"}
        /\ label[r] = "tell" => kind[r] \in {"answer", "manual"}
        /\ label[r] \in {"claim", "counter", "withdraw", "stage", "tell"} => at[r] \notin Fresh

Callings == RowsOK /\ CallersOK /\ HourlyOK /\ BooksOK /\ Courses

LEMMA NoRowIsOne == NoRow \in Schedule
BY ScheduleAssumption DEF NoRow

\* A row that was inserted stays.
LEMMA FreshShrinks ==
  ASSUME Callings, [ScheduleNext]_scheduleVars
  PROVE  Fresh' \subseteq Fresh /\ status' \in [Schedule -> Status]
<1>0. status \in [Schedule -> Status] /\ CallersOK
  BY DEF Callings, RowsOK
<1>1. ASSUME NEW s \in Schedule, NEW v \in Status \ {"none"}, status' = [status EXCEPT ![s] = v]
      PROVE  Fresh' \subseteq Fresh /\ status' \in [Schedule -> Status]
  BY <1>0, <1>1 DEF Fresh
<1>2. ASSUME NEW S \in SUBSET Schedule,
             status' = [s \in Schedule |-> IF s \in S THEN "cancelled" ELSE status[s]]
      PROVE  Fresh' \subseteq Fresh /\ status' \in [Schedule -> Status]
  BY <1>0, <1>2 DEF Fresh, Status
<1>3. ASSUME status' = status PROVE Fresh' \subseteq Fresh /\ status' \in [Schedule -> Status]
  BY <1>0, <1>3 DEF Fresh
<1>4. ASSUME NEW r \in Caller, Begin(r) \/ Continue(r) \/ Killed(r)
      PROVE  Fresh' \subseteq Fresh /\ status' \in [Schedule -> Status]
  <2>0. at[r] \in Schedule
    BY <1>0 DEF CallersOK
  <2>1. CASE Begin(r) \/ Killed(r)
    BY <1>3, <2>1 DEF Begin, Killed, SelectRead, ConfirmRead, CounterRead, WithdrawRead,
       ScheduleRead, CloseRead
  <2>2. CASE Claim(r)
    BY <1>1, <1>3, <2>0, <2>2 DEF Claim, Status
  <2>3. CASE CounterWrite(r) \/ WithdrawWrite(r)
    BY <1>1, <2>0, <2>3 DEF CounterWrite, WithdrawWrite, Status
  <2>4. CASE CancelOld(r)
    BY <1>2, <2>4 DEF CancelOld, Replaced, OpenRows, Chosen, SetCancelled
  <2>5. CASE Clean(r)
    BY <1>2, <2>5 DEF Clean, OpenRows, SetCancelled
  <2>6. CASE Insert(r)
    <3>1. CASE Fresh = {}
      BY <1>3, <2>6, <3>1 DEF Insert
    <3>2. CASE Fresh # {}
      <4>1. (CHOOSE f \in Fresh : TRUE) \in Schedule
        BY <3>2 DEF Fresh
      <4> QED
        BY <1>1, <2>6, <3>2, <4>1 DEF Insert, Status
    <3> QED
      BY <3>1, <3>2
  <2>7. CASE SetStage(r) \/ Invite(r) \/ WithdrawLook(r) \/ ReadPrior(r) \/ Notice(r)
                \/ CloseCandidate(r) \/ FindChosen(r)
    BY <1>3, <2>7 DEF SetStage, Invite, WithdrawLook, ReadPrior, Notice, CloseCandidate, FindChosen
  <2> QED
    BY <1>4, <2>1, <2>2, <2>3, <2>4, <2>5, <2>6, <2>7 DEF Continue
<1>5. CASE CronCancel
  <2>1. lapsing \subseteq Schedule
    BY DEF Callings, HourlyOK
  <2> QED
    BY <1>2, <1>5, <2>1 DEF CronCancel, SetCancelled
<1>6. CASE CronClean
  BY <1>2, <1>6 DEF CronClean, OpenRows, SetCancelled
<1>7. CASE CronExpire \/ CronSelect \/ CronReject \/ CronDies \/ MoveOn \/ Reopen
              \/ (\E s \in Schedule : Lapse(s)) \/ UNCHANGED scheduleVars
  BY <1>3, <1>7 DEF CronExpire, CronSelect, CronReject, CronDies, MoveOn, Reopen, Lapse,
     scheduleVars
<1> QED
  BY <1>4, <1>5, <1>6, <1>7 DEF ScheduleNext, CronStep

\* What a step leaves alone keeps its type.
LEMMA KeptParts ==
  ASSUME Callings, [ScheduleNext]_scheduleVars
  PROVE  /\ UNCHANGED <<lapsed, stage, candidateOutcome>> => RowsOK'
         /\ UNCHANGED callerVars => CallersOK' /\ Courses'
         /\ UNCHANGED hourly => HourlyOK'
         /\ UNCHANGED <<past, calledOff>> => BooksOK'
BY FreshShrinks DEF Callings, RowsOK, CallersOK, Courses, HourlyOK, BooksOK

\* A request that goes on, ends or begins.
LEMMA CallerTypes ==
  ASSUME Callings, [ScheduleNext]_scheduleVars, NEW r \in Caller
  PROVE  /\ \A l \in ScheduleLabel : Step(r, l) => CallersOK'
         /\ \A l \in ScheduleLabel, P \in SUBSET (Schedule \ Fresh) :
               Enter(r, l) /\ prior' = [prior EXCEPT ![r] = P] /\ UNCHANGED <<kind, at>>
                   => CallersOK'
         /\ Leave(r) => CallersOK'
         /\ \A l \in ScheduleLabel, s \in Schedule :
               Enter(r, l) /\ at' = [at EXCEPT ![r] = s] /\ UNCHANGED <<kind, prior>>
                   => CallersOK'
<1>0. CallersOK /\ Fresh' \subseteq Fresh
  BY FreshShrinks DEF Callings
<1>1. ASSUME NEW l \in ScheduleLabel, Step(r, l) PROVE CallersOK'
  BY <1>0, <1>1 DEF CallersOK
<1>2. ASSUME NEW l \in ScheduleLabel, NEW P \in SUBSET (Schedule \ Fresh), Enter(r, l),
             prior' = [prior EXCEPT ![r] = P], UNCHANGED <<kind, at>>
      PROVE  CallersOK'
  BY <1>0, <1>2 DEF CallersOK
<1>3. ASSUME Leave(r) PROVE CallersOK'
  BY <1>0, <1>3, NoRowIsOne DEF CallersOK, ScheduleLabel, Kind
<1>4. ASSUME NEW l \in ScheduleLabel, NEW s \in Schedule, Enter(r, l),
             at' = [at EXCEPT ![r] = s], UNCHANGED <<kind, prior>>
      PROVE  CallersOK'
  BY <1>0, <1>4 DEF CallersOK
<1> QED
  BY <1>1, <1>2, <1>3, <1>4

\* A request that begins as k about the row s, at l.
LEMMA BegunTypes ==
  ASSUME Callings, [ScheduleNext]_scheduleVars, NEW r \in Caller,
         NEW k, k \in Kind, NEW s, s \in Schedule, NEW l, l \in ScheduleLabel,
         Start(r, k, s, l),
         \/ prior' = prior
         \/ \E P \in SUBSET (Schedule \ Fresh) : prior' = [prior EXCEPT ![r] = P]
  PROVE  CallersOK'
<1>0. CallersOK /\ Fresh' \subseteq Fresh
  BY FreshShrinks DEF Callings
<1>1. label' \in [Caller -> ScheduleLabel] /\ kind' \in [Caller -> Kind]
      /\ at' \in [Caller -> Schedule]
  BY <1>0 DEF CallersOK
<1>2. CASE prior' = prior
  BY <1>0, <1>1, <1>2 DEF CallersOK
<1>3. ASSUME NEW P \in SUBSET (Schedule \ Fresh), prior' = [prior EXCEPT ![r] = P]
      PROVE  CallersOK'
  BY <1>0, <1>1, <1>3 DEF CallersOK
<1> QED
  BY <1>2, <1>3

\* A request leaves the others where they are.
LEMMA OthersStay ==
  ASSUME CallersOK, NEW self \in Caller, Begin(self) \/ Continue(self) \/ Killed(self),
         NEW r \in Caller \ {self}
  PROVE  label'[r] = label[r] /\ kind'[r] = kind[r] /\ at'[r] = at[r] /\ prior'[r] = prior[r]
<1>1. CASE Begin(self) \/ Killed(self)
  BY <1>1 DEF CallersOK, Begin, Killed, SelectRead, ConfirmRead, CounterRead, WithdrawRead,
     ScheduleRead, CloseRead
<1>2. CASE Claim(self) \/ SetStage(self) \/ Invite(self) \/ CounterWrite(self)
             \/ WithdrawWrite(self) \/ WithdrawLook(self)
  BY <1>2 DEF CallersOK, Claim, SetStage, Invite, CounterWrite, WithdrawWrite, WithdrawLook
<1>3. CASE ReadPrior(self) \/ CancelOld(self) \/ CloseCandidate(self) \/ FindChosen(self)
             \/ Clean(self)
  BY <1>3 DEF CallersOK, ReadPrior, CancelOld, CloseCandidate, FindChosen, Clean
<1>4. CASE Notice(self)
  BY <1>4 DEF CallersOK, Notice
<1>5. CASE Insert(self)
  BY <1>5 DEF CallersOK, Insert
<1> QED
  BY <1>1, <1>2, <1>3, <1>4, <1>5 DEF Continue

\* What a request does goes with where it is.
LEMMA CoursesStep ==
  ASSUME Callings, [ScheduleNext]_scheduleVars
  PROVE  Courses'
<1>0. CallersOK /\ Courses /\ Fresh' \subseteq Fresh /\ status \in [Schedule -> Status]
  BY FreshShrinks DEF Callings, RowsOK
<1>1. ASSUME NEW self \in Caller, Begin(self) \/ Continue(self) \/ Killed(self) PROVE Courses'
  <2> DEFINE Fits == /\ label'[self] \in {"claim", "counter"} => kind'[self] = "answer"
                     /\ label'[self] \in {"withdraw", "look"} => kind'[self] = "withdraw"
                     /\ label'[self] \in {"prior", "cancel", "insert"}
                           => kind'[self] \in {"propose", "manual"}
                     /\ label'[self] = "find" => kind'[self] = "decide"
                     /\ label'[self] \in {"close", "clean"} => kind'[self] \in {"withdraw", "decide"}
                     /\ label'[self] = "notice" => kind'[self] # "answer"
                     /\ label'[self] = "stage" => kind'[self] \in {"answer", "propose", "manual"}
                     /\ label'[self] = "tell" => kind'[self] \in {"answer", "manual"}
                     /\ label'[self] \in {"claim", "counter", "withdraw", "stage", "tell"}
                           => at'[self] \notin Fresh'
  <2>0. kind[self] \in Kind /\ at[self] \in Schedule /\ label[self] \in ScheduleLabel
    BY <1>0 DEF CallersOK
  <2>1. ASSUME Leave(self) PROVE Fits
    <3>1. label'[self] = "idle"
      BY <1>0, <2>1 DEF CallersOK
    <3> QED
      BY <3>1
  <2>2. ASSUME NEW s \in Schedule, SelectRead(self, s) \/ ConfirmRead(self, s) \/ CounterRead(self, s)
        PROVE  Fits
    <3>1. s \notin Fresh /\ at'[self] = s /\ kind'[self] = "answer"
          /\ label'[self] \in {"claim", "counter"}
      BY <1>0, <2>2 DEF SelectRead, ConfirmRead, CounterRead, Open, Fresh, CallersOK
    <3> QED
      BY <1>0, <3>1
  <2>3. ASSUME NEW s \in Schedule, WithdrawRead(self, s) PROVE Fits
    <3>1. s \notin Fresh /\ at'[self] = s /\ kind'[self] = "withdraw" /\ label'[self] = "withdraw"
      BY <1>0, <2>3 DEF WithdrawRead, Fresh, CallersOK
    <3> QED
      BY <1>0, <3>1
  <2>4. ASSUME NEW k \in {"propose", "manual"}, ScheduleRead(self, k) PROVE Fits
    <3>1. kind'[self] = k /\ label'[self] = "prior"
      BY <1>0, <2>4 DEF ScheduleRead, CallersOK
    <3> QED
      BY <3>1
  <2>5. ASSUME CloseRead(self) PROVE Fits
    <3>1. kind'[self] = "decide" /\ label'[self] = "close"
      BY <1>0, <2>5 DEF CloseRead, CallersOK
    <3> QED
      BY <3>1
  <2>6. ASSUME Claim(self) /\ ~Leave(self) PROVE Fits
    <3>1. label[self] = "claim" /\ label'[self] = "stage" /\ UNCHANGED <<kind, at>>
      BY <1>0, <2>6 DEF Claim, CallersOK
    <3> QED
      BY <1>0, <3>1 DEF Courses
  <2>7. ASSUME SetStage(self) /\ ~Leave(self) PROVE Fits
    <3>1. label[self] = "stage" /\ label'[self] = "tell" /\ UNCHANGED <<kind, at>>
          /\ kind[self] # "propose"
      BY <1>0, <2>7 DEF SetStage, CallersOK
    <3> QED
      BY <1>0, <3>1 DEF Courses
  <2>8. ASSUME WithdrawWrite(self) PROVE Fits
    <3>1. label[self] = "withdraw" /\ label'[self] = "look" /\ UNCHANGED <<kind, at>>
      BY <1>0, <2>8 DEF WithdrawWrite, CallersOK
    <3> QED
      BY <1>0, <3>1 DEF Courses
  <2>9. ASSUME WithdrawLook(self) /\ ~Leave(self) PROVE Fits
    <3>1. label[self] = "look" /\ label'[self] = "close" /\ UNCHANGED <<kind, at>>
      BY <1>0, <2>9 DEF WithdrawLook, CallersOK
    <3> QED
      BY <1>0, <3>1 DEF Courses
  <2>10. ASSUME ReadPrior(self) PROVE Fits
    <3>1. label[self] = "prior" /\ label'[self] = "cancel" /\ UNCHANGED <<kind, at>>
      BY <1>0, <2>10 DEF ReadPrior, CallersOK
    <3> QED
      BY <1>0, <3>1 DEF Courses
  <2>11. ASSUME CancelOld(self) PROVE Fits
    <3>1. label[self] = "cancel" /\ label'[self] = "notice" /\ UNCHANGED <<kind, at>>
      BY <1>0, <2>11 DEF CancelOld, CallersOK
    <3> QED
      BY <1>0, <3>1 DEF Courses
  <2>12. ASSUME Notice(self) /\ ~Leave(self) PROVE Fits
    <3>1. /\ UNCHANGED <<kind, at>>
          /\ \/ kind[self] \in {"propose", "manual"} /\ label'[self] = "insert"
             \/ kind[self] = "decide" /\ label'[self] = "clean"
      BY <1>0, <2>0, <2>12 DEF Notice, CallersOK
    <3> QED
      BY <1>0, <3>1 DEF Courses
  <2>13. ASSUME Insert(self) /\ ~Leave(self) PROVE Fits
    <3> DEFINE s == CHOOSE f \in Fresh : TRUE
    <3>1. label[self] = "insert" /\ label'[self] = "stage" /\ UNCHANGED kind /\ Fresh # {}
          /\ at'[self] = s
          /\ status' = [status EXCEPT ![s] = IF kind[self] = "manual" THEN "selected" ELSE "pending"]
      BY <1>0, <2>13 DEF Insert, CallersOK
    <3>2. s \in Schedule
      BY <3>1 DEF Fresh
    <3> HIDE DEF s
    <3>3. s \notin Fresh'
      BY <1>0, <3>1, <3>2 DEF Fresh
    <3> QED
      BY <1>0, <3>1, <3>3 DEF Courses
  <2>14. ASSUME CloseCandidate(self) PROVE Fits
    <3>1. /\ label[self] = "close" /\ UNCHANGED <<kind, at>>
          /\ \/ kind[self] = "decide" /\ label'[self] = "find"
             \/ kind[self] # "decide" /\ label'[self] = "clean"
      BY <1>0, <2>14 DEF CloseCandidate, CallersOK
    <3> QED
      BY <1>0, <3>1 DEF Courses
  <2>15. ASSUME FindChosen(self) PROVE Fits
    <3>1. label[self] = "find" /\ label'[self] = "notice" /\ UNCHANGED <<kind, at>>
      BY <1>0, <2>15 DEF FindChosen, CallersOK
    <3> QED
      BY <1>0, <3>1 DEF Courses
  <2>16. ASSUME Clean(self) /\ ~Leave(self) PROVE Fits
    <3>1. kind[self] = "withdraw" /\ label'[self] = "notice" /\ UNCHANGED <<kind, at>>
      BY <1>0, <2>16 DEF Clean, CallersOK
    <3> QED
      BY <1>0, <3>1 DEF Courses
  <2>17. Fits
    BY <1>1, <2>1, <2>2, <2>3, <2>4, <2>5, <2>6, <2>7, <2>8, <2>9, <2>10, <2>11, <2>12, <2>13,
       <2>14, <2>15, <2>16
    DEF Begin, Continue, Killed, Invite, CounterWrite
  <2>18. \A r \in Caller \ {self} :
           label'[r] = label[r] /\ kind'[r] = kind[r] /\ at'[r] = at[r]
    BY <1>0, <1>1, OthersStay
  <2> QED
    BY <1>0, <2>17, <2>18 DEF Courses
<1>2. CASE UNCHANGED callerVars
  BY <1>2, KeptParts
<1>3. CASE CronStep \/ CronDies \/ MoveOn \/ Reopen \/ (\E s \in Schedule : Lapse(s))
              \/ UNCHANGED scheduleVars
  BY <1>2, <1>3 DEF CronStep, CronExpire, CronSelect, CronCancel, CronReject, CronClean, CronDies,
     MoveOn, Reopen, Lapse, scheduleVars
<1> QED
  BY <1>1, <1>3 DEF ScheduleNext

LEMMA CallersStep ==
  ASSUME Callings, [ScheduleNext]_scheduleVars
  PROVE  CallersOK'
<1>0. CallersOK /\ RowsOK /\ Courses
  BY DEF Callings
<1>1. ASSUME NEW r \in Caller, Begin(r) PROVE CallersOK'
  <2>0. /\ {"answer", "withdraw", "propose", "manual", "decide"} \subseteq Kind
        /\ {"claim", "counter", "withdraw", "prior", "close"} \subseteq ScheduleLabel
    BY DEF Kind, ScheduleLabel
  <2>1. ASSUME NEW s \in Schedule, SelectRead(r, s) \/ ConfirmRead(r, s) \/ CounterRead(r, s)
        PROVE  CallersOK'
    <3>1. CASE Start(r, "answer", s, "claim") /\ prior' = prior
      BY <2>0, <3>1, BegunTypes
    <3>2. CASE Start(r, "answer", s, "counter") /\ prior' = prior
      BY <2>0, <3>2, BegunTypes
    <3> QED
      BY <2>1, <3>1, <3>2 DEF SelectRead, ConfirmRead, CounterRead
  <2>2. ASSUME NEW s \in Schedule, WithdrawRead(r, s) PROVE CallersOK'
    <3> DEFINE P == IF status[s] = "selected" THEN {s} ELSE {}
    <3>1. P \in SUBSET (Schedule \ Fresh)
      BY DEF Fresh
    <3>2. Start(r, "withdraw", s, "withdraw") /\ prior' = [prior EXCEPT ![r] = P]
      BY <2>2 DEF WithdrawRead
    <3> HIDE DEF P
    <3>3. \E Q \in SUBSET (Schedule \ Fresh) : prior' = [prior EXCEPT ![r] = Q]
      BY <3>1, <3>2
    <3> QED
      BY <2>0, <3>2, <3>3, BegunTypes
  <2>3. ASSUME NEW k \in {"propose", "manual"}, ScheduleRead(r, k) PROVE CallersOK'
    <3>1. Start(r, k, NoRow, "prior") /\ prior' = prior
      BY <2>3 DEF ScheduleRead
    <3>2. k \in Kind /\ NoRow \in Schedule
      BY <2>0, NoRowIsOne
    <3> QED
      BY <2>0, <3>1, <3>2, BegunTypes
  <2>4. CASE CloseRead(r)
    <3>1. Start(r, "decide", NoRow, "close") /\ prior' = prior
      BY <2>4 DEF CloseRead
    <3> QED
      BY <2>0, <3>1, NoRowIsOne, BegunTypes
  <2> QED
    BY <1>1, <2>1, <2>2, <2>3, <2>4 DEF Begin
<1>2. ASSUME NEW r \in Caller, Continue(r) \/ Killed(r) PROVE CallersOK'
  <2>1. CASE Claim(r) \/ SetStage(r) \/ Invite(r) \/ CounterWrite(r) \/ WithdrawWrite(r)
                \/ WithdrawLook(r) \/ CancelOld(r) \/ Clean(r) \/ Killed(r)
    BY <2>1, CallerTypes DEF Claim, SetStage, Invite, CounterWrite, WithdrawWrite, WithdrawLook,
       CancelOld, Clean, Killed, ScheduleLabel
  <2>2. CASE ReadPrior(r)
    <3>1. Chosen \subseteq Schedule \ Fresh
      BY DEF Chosen, Fresh
    <3>2. PICK P \in SUBSET Chosen : prior' = [prior EXCEPT ![r] = P]
      BY <2>2 DEF ReadPrior
    <3> QED
      BY <2>2, <3>1, <3>2, CallerTypes DEF ReadPrior, ScheduleLabel
  <2>3. CASE Notice(r)
    BY <2>3, CallerTypes DEF Notice, ScheduleLabel
  <2>4. CASE Insert(r)
    <3>1. Fresh # {} => (CHOOSE f \in Fresh : TRUE) \in Schedule
      BY DEF Fresh
    <3> QED
      BY <2>4, <3>1, CallerTypes DEF Insert, ScheduleLabel
  <2>5. CASE CloseCandidate(r)
    BY <2>5, CallerTypes DEF CloseCandidate, ScheduleLabel
  <2>6. CASE FindChosen(r)
    <3>1. Chosen \subseteq Schedule \ Fresh
      BY DEF Chosen, Fresh
    <3> QED
      BY <2>6, <3>1, CallerTypes DEF FindChosen, ScheduleLabel
  <2> QED
    BY <1>2, <2>1, <2>2, <2>3, <2>4, <2>5, <2>6 DEF Continue
<1>3. CASE CronStep \/ CronDies \/ MoveOn \/ Reopen \/ (\E s \in Schedule : Lapse(s))
              \/ UNCHANGED scheduleVars
  BY <1>3, KeptParts DEF CronStep, CronExpire, CronSelect, CronCancel, CronReject, CronClean,
     CronDies, MoveOn, Reopen, Lapse, scheduleVars
<1> QED
  BY <1>1, <1>2, <1>3 DEF ScheduleNext

LEMMA RowsStep ==
  ASSUME Callings, [ScheduleNext]_scheduleVars
  PROVE  RowsOK' /\ HourlyOK'
<1>0. RowsOK /\ HourlyOK /\ Fresh' \subseteq Fresh /\ status' \in [Schedule -> Status]
  BY FreshShrinks DEF Callings
<1>1. ASSUME NEW r \in Caller, Begin(r) \/ Killed(r) PROVE RowsOK' /\ HourlyOK'
  BY <1>1, KeptParts DEF Begin, Killed, SelectRead, ConfirmRead, CounterRead, WithdrawRead,
     ScheduleRead, CloseRead
<1>2. ASSUME NEW r \in Caller, Continue(r) PROVE RowsOK' /\ HourlyOK'
  <2>1. UNCHANGED hourly
    BY <1>2 DEF Continue, Claim, SetStage, Invite, CounterWrite, WithdrawWrite, WithdrawLook,
       ReadPrior, CancelOld, Notice, Insert, CloseCandidate, FindChosen, Clean
  <2>2. lapsed' = lapsed /\ (stage' = stage \/ stage' = "first")
        /\ (candidateOutcome' = candidateOutcome \/ candidateOutcome' = "closed")
    BY <1>2 DEF Continue, Claim, SetStage, Invite, CounterWrite, WithdrawWrite, WithdrawLook,
       ReadPrior, CancelOld, Notice, Insert, CloseCandidate, FindChosen, Clean
  <2> QED
    BY <1>0, <2>1, <2>2, KeptParts DEF RowsOK
<1>3. CASE CronSelect
  <2>1. {s \in Schedule : Overdue(s)} \subseteq Schedule \ Fresh
    BY DEF Overdue, Open, Fresh
  <2> QED
    BY <1>0, <1>3, <2>1, KeptParts DEF CronSelect, HourlyOK, Fresh
<1>4. CASE CronExpire \/ CronCancel \/ CronReject \/ CronClean \/ CronDies
  <2>1. lapsed' = lapsed /\ stage' = stage /\ candidateOutcome' \in {"none", "closed"}
    BY <1>0, <1>4 DEF CronExpire, CronCancel, CronReject, CronClean, CronDies, RowsOK
  <2>2. cron' \in {"idle", "cancel", "reject", "clean"} /\ (lapsing' = lapsing \/ lapsing' = {})
    BY <1>4 DEF CronExpire, CronCancel, CronReject, CronClean, CronDies
  <2> QED
    BY <1>0, <2>1, <2>2 DEF RowsOK, HourlyOK
<1>5. CASE MoveOn \/ Reopen
  BY <1>0, <1>5, KeptParts DEF MoveOn, Reopen, RowsOK
<1>6. ASSUME NEW s \in Schedule, Lapse(s) PROVE RowsOK' /\ HourlyOK'
  <2>1. s \notin Fresh
    BY <1>6 DEF Lapse, Fresh
  <2> QED
    BY <1>0, <1>6, <2>1, KeptParts DEF Lapse, RowsOK
<1>7. CASE UNCHANGED scheduleVars
  BY <1>7, KeptParts DEF scheduleVars
<1> QED
  BY <1>1, <1>2, <1>3, <1>4, <1>5, <1>6, <1>7 DEF ScheduleNext, CronStep

\* Whom the messages reach is of those they are for.
LEMMA DeliveredSome == \A A : \A G \in Delivered(A) : G \subseteq A
BY ScheduleAssumption DEF Delivered

\* The cancelling is announced of rows that exist, to people of the interview.
LEMMA NoticeIsOf ==
  ASSUME CallersOK, NEW r \in Caller, NEW G \in Delivered(Hearers(kind[r]) \X prior[r])
  PROVE  G \subseteq Audience \X prior[r] /\ prior[r] \subseteq Schedule \ Fresh
<1>1. Hearers(kind[r]) \subseteq Audience
  BY DEF Hearers
<1>2. G \subseteq Hearers(kind[r]) \X prior[r]
  BY DeliveredSome
<1>3. prior[r] \subseteq Schedule \ Fresh
  BY DEF CallersOK
<1> QED
  BY <1>1, <1>2, <1>3

LEMMA BooksStep ==
  ASSUME Callings, [ScheduleNext]_scheduleVars
  PROVE  BooksOK'
<1>0. BooksOK /\ CallersOK /\ Courses /\ Fresh' \subseteq Fresh
  BY FreshShrinks DEF Callings
<1>1. /\ confirmed' = confirmed \/ \E s \in Schedule : Confirms(s)
      /\ revived' = revived \/ \E s \in Schedule : revived' = revived \cup {s}
      /\ reopenedEarly' \in BOOLEAN
      /\ calledOff' \subseteq calledOff \cup (Audience \X (Schedule \ Fresh))
  <2> DEFINE Books ==
        /\ confirmed' = confirmed \/ \E s \in Schedule : Confirms(s)
        /\ revived' = revived \/ \E s \in Schedule : revived' = revived \cup {s}
        /\ reopenedEarly' \in BOOLEAN
        /\ calledOff' \subseteq calledOff \cup (Audience \X (Schedule \ Fresh))
  <2>0. reopenedEarly \in BOOLEAN
    BY <1>0 DEF BooksOK
  <2>1. ASSUME NEW r \in Caller, Begin(r) \/ Killed(r) PROVE Books
    BY <2>0, <2>1 DEF Begin, Killed, SelectRead, ConfirmRead, CounterRead, WithdrawRead,
       ScheduleRead, CloseRead
  <2>2. ASSUME NEW r \in Caller, Continue(r) PROVE Books
    <3>0. at[r] \in Schedule
      BY <1>0 DEF CallersOK
    <3>1. CASE Claim(r)
      BY <2>0, <3>0, <3>1 DEF Claim
    <3>2. CASE CounterWrite(r)
      BY <2>0, <3>0, <3>2 DEF CounterWrite
    <3>3. CASE Insert(r)
      <4>1. Fresh # {} => (CHOOSE f \in Fresh : TRUE) \in Schedule
        BY DEF Fresh
      <4> QED
        BY <2>0, <3>3, <4>1 DEF Insert
    <3>4. CASE Invite(r)
      BY <2>0, <3>4 DEF Invite
    <3>5. CASE Notice(r)
      <4>1. PICK G \in Delivered(Hearers(kind[r]) \X prior[r]) : calledOff' = calledOff \cup G
        BY <3>5 DEF Notice
      <4>2. G \subseteq Audience \X (Schedule \ Fresh)
        BY <1>0, <4>1, NoticeIsOf
      <4> QED
        BY <2>0, <3>5, <4>1, <4>2 DEF Notice
    <3>6. CASE SetStage(r) \/ WithdrawWrite(r) \/ WithdrawLook(r) \/ ReadPrior(r) \/ CancelOld(r)
                  \/ CloseCandidate(r) \/ FindChosen(r) \/ Clean(r)
      BY <2>0, <3>6 DEF SetStage, WithdrawWrite, WithdrawLook, ReadPrior, CancelOld,
         CloseCandidate, FindChosen, Clean
    <3> QED
      BY <2>2, <3>1, <3>2, <3>3, <3>4, <3>5, <3>6 DEF Continue
  <2>3. CASE CronStep \/ CronDies
    BY <2>0, <2>3 DEF CronStep, CronExpire, CronSelect, CronCancel, CronReject, CronClean, CronDies
  <2>4. CASE MoveOn \/ Reopen \/ (\E s \in Schedule : Lapse(s)) \/ UNCHANGED scheduleVars
    BY <2>0, <2>4 DEF MoveOn, Reopen, Lapse, scheduleVars
  <2> QED
    BY <2>1, <2>2, <2>3, <2>4 DEF ScheduleNext
<1>2. confirmed' \in [Schedule -> 0..2]
  BY <1>0, <1>1 DEF BooksOK, Confirms
<1>3. calledOff' \subseteq Audience \X (Schedule \ Fresh')
  BY <1>0, <1>1 DEF BooksOK
<1> QED
  BY <1>0, <1>1, <1>2, <1>3 DEF BooksOK

LEMMA CallingsStep ==
  ASSUME Callings, [ScheduleNext]_scheduleVars
  PROVE  Callings'
BY CallersStep, RowsStep, BooksStep, CoursesStep DEF Callings

LEMMA CallingsBegin == ScheduleInit => Callings
<1>1. ScheduleInit => RowsOK /\ HourlyOK
  BY DEF ScheduleInit, RowsOK, HourlyOK, Status, Fresh
<1>3. ASSUME ScheduleInit PROVE BooksOK
  <2>1. confirmed \in [Schedule -> 0..2]
    BY <1>3 DEF ScheduleInit
  <2>2. revived \subseteq Schedule /\ reopenedEarly \in BOOLEAN /\ calledOff = {}
    BY <1>3 DEF ScheduleInit
  <2> QED
    BY <2>1, <2>2 DEF BooksOK
<1>2. ScheduleInit => CallersOK /\ Courses
  BY NoRowIsOne DEF ScheduleInit, CallersOK, Courses, ScheduleLabel, Kind, Fresh
<1> QED
  BY <1>1, <1>2, <1>3 DEF Callings

\* Type correctness of the appointments: rows that were inserted stay, and what was
\* read, announced or selected by the cron job is one of them.
THEOREM ScheduleTypesCorrect == ScheduleSpec => []ScheduleTypeOK
<1>1. Callings /\ [ScheduleNext]_scheduleVars => Callings'
  BY CallingsStep
<1>2. Callings => ScheduleTypeOK
  BY DEF Callings, RowsOK, CallersOK, HourlyOK, BooksOK, ScheduleTypeOK
<1> QED
  BY <1>1, <1>2, CallingsBegin, PTL DEF ScheduleSpec

-----------------------------------------------------------------------------
(* A row is confirmed once, unless a counter-proposal took it back.        *)

\* A row that may be claimed was never confirmed, or was taken back.
Claimable ==
    \A s \in Schedule :
        /\ status[s] = "none" => confirmed[s] = 0
        /\ Open(s) => confirmed[s] = 0 \/ s \in revived

LEMMA ClaimableStep ==
  ASSUME Callings, Claimable, OneConfirmation, [ScheduleNext]_scheduleVars
  PROVE  Claimable' /\ OneConfirmation'
<1>0. /\ status \in [Schedule -> Status] /\ confirmed \in [Schedule -> 0..2]
      /\ Fresh' \subseteq Fresh /\ CallersOK
  BY FreshShrinks DEF Callings, RowsOK, BooksOK
<1>1. ASSUME confirmed' = confirmed, revived' = revived,
             \A s \in Schedule : Open(s)' => Open(s) \/ confirmed[s] = 0
      PROVE  Claimable' /\ OneConfirmation'
  BY <1>0, <1>1 DEF Claimable, OneConfirmation, Fresh
<1>2. ASSUME confirmed' = confirmed, revived' = revived, status' = status
      PROVE  Claimable' /\ OneConfirmation'
  BY <1>2 DEF Claimable, OneConfirmation, Open
<1>3. ASSUME NEW s \in Schedule, status' = [status EXCEPT ![s] = "selected"], Confirms(s),
             revived' = revived, Open(s) \/ status[s] = "none"
      PROVE  Claimable' /\ OneConfirmation'
  <2>1. confirmed[s] = 0 \/ s \in revived
    BY <1>3 DEF Claimable
  <2>2. /\ \A t \in Schedule \ {s} : status'[t] = status[t] /\ confirmed'[t] = confirmed[t]
        /\ status'[s] = "selected" /\ (confirmed[s] = 0 => confirmed'[s] = 1)
    BY <1>0, <1>3 DEF Confirms
  <2> QED
    BY <1>3, <2>1, <2>2 DEF Claimable, OneConfirmation, Open
<1>4. ASSUME NEW r \in Caller, Continue(r) PROVE Claimable' /\ OneConfirmation'
  <2>0. at[r] \in Schedule
    BY <1>0 DEF CallersOK
  <2>1. CASE Claim(r)
    <3>1. CASE ClaimAllowed(at[r])
      BY <1>3, <2>0, <2>1, <3>1 DEF Claim, ClaimAllowed
    <3>2. CASE ~ClaimAllowed(at[r])
      BY <1>2, <2>1, <3>2 DEF Claim
    <3> QED
      BY <3>1, <3>2
  <2>2. CASE CounterWrite(r)
    <3>1. /\ status' = [status EXCEPT ![at[r]] = "counter_proposed"] /\ confirmed' = confirmed
          /\ revived' = IF Open(at[r]) THEN revived ELSE revived \cup {at[r]}
      BY <2>2 DEF CounterWrite
    <3>2. \A t \in Schedule \ {at[r]} : status'[t] = status[t]
      BY <1>0, <3>1
    <3>3. status'[at[r]] = "counter_proposed" /\ revived \subseteq revived'
          /\ (Open(at[r]) \/ at[r] \in revived')
      BY <1>0, <2>0, <3>1
    <3> QED
      BY <3>1, <3>2, <3>3 DEF Claimable, OneConfirmation, Open
  <2>3. CASE WithdrawWrite(r)
    BY <1>0, <1>1, <2>0, <2>3 DEF WithdrawWrite, Open
  <2>4. CASE CancelOld(r)
    BY <1>1, <2>4 DEF CancelOld, SetCancelled, Open
  <2>5. CASE Clean(r)
    BY <1>1, <2>5 DEF Clean, SetCancelled, Open
  <2>6. CASE Insert(r)
    <3> DEFINE s == CHOOSE f \in Fresh : TRUE
    <3>1. CASE Fresh = {}
      BY <1>2, <2>6, <3>1 DEF Insert
    <3>2. CASE Fresh # {}
      <4>1. s \in Schedule /\ status[s] = "none"
        BY <3>2 DEF Fresh
      <4>2. /\ status' = [status EXCEPT ![s] = IF kind[r] = "manual" THEN "selected" ELSE "pending"]
            /\ IF kind[r] = "manual" THEN Confirms(s) ELSE UNCHANGED confirmed
            /\ revived' = revived
        BY <2>6, <3>2 DEF Insert
      <4> HIDE DEF s
      <4>3. CASE kind[r] = "manual"
        BY <1>3, <4>1, <4>2, <4>3
      <4>4. CASE kind[r] # "manual"
        <5>1. confirmed[s] = 0
          BY <4>1 DEF Claimable
        <5> QED
          BY <1>0, <1>1, <4>1, <4>2, <4>4, <5>1 DEF Open
      <4> QED
        BY <4>3, <4>4
    <3> QED
      BY <3>1, <3>2
  <2>7. CASE SetStage(r) \/ Invite(r) \/ WithdrawLook(r) \/ ReadPrior(r) \/ Notice(r)
                \/ CloseCandidate(r) \/ FindChosen(r)
    BY <1>2, <2>7 DEF SetStage, Invite, WithdrawLook, ReadPrior, Notice, CloseCandidate, FindChosen
  <2> QED
    BY <1>4, <2>1, <2>2, <2>3, <2>4, <2>5, <2>6, <2>7 DEF Continue
<1>5. ASSUME NEW r \in Caller, Begin(r) \/ Killed(r) PROVE Claimable' /\ OneConfirmation'
  BY <1>2, <1>5 DEF Begin, Killed, SelectRead, ConfirmRead, CounterRead, WithdrawRead,
     ScheduleRead, CloseRead
<1>6. CASE CronCancel
  BY <1>1, <1>6 DEF CronCancel, SetCancelled, Open
<1>7. CASE CronClean
  BY <1>1, <1>7 DEF CronClean, SetCancelled, Open
<1>8. CASE CronExpire \/ CronSelect \/ CronReject \/ CronDies \/ MoveOn \/ Reopen
              \/ (\E s \in Schedule : Lapse(s)) \/ UNCHANGED scheduleVars
  BY <1>2, <1>8 DEF CronExpire, CronSelect, CronReject, CronDies, MoveOn, Reopen, Lapse,
     scheduleVars
<1> QED
  BY <1>4, <1>5, <1>6, <1>7, <1>8 DEF ScheduleNext, CronStep

\* A row is confirmed once, however the candidate's choice, the recruiter's
\* confirmation and the cron job cross (select/route.ts:68), unless a stale
\* counter-proposal took it back (counter/route.ts:61).
THEOREM RowsAreConfirmedOnce == ScheduleSpec => []OneConfirmation
<1>1. ScheduleInit => Claimable /\ OneConfirmation
  BY DEF ScheduleInit, Claimable, OneConfirmation, Open
<1>2. Callings /\ Claimable /\ OneConfirmation /\ [ScheduleNext]_scheduleVars
         => Claimable' /\ OneConfirmation'
  BY ClaimableStep
<1>3. Callings /\ [ScheduleNext]_scheduleVars => Callings'
  BY CallingsStep
<1> QED
  BY <1>1, <1>2, <1>3, CallingsBegin, PTL DEF ScheduleSpec

-----------------------------------------------------------------------------
(* Whoever was told that an interview is off need not come.                *)

\* A row that ended ...
Ended(s) == status[s] \in {"withdrawn", "cancelled"} \/ s \in revived
\* ... or that is confirmed, of a closed candidate.
Off(s) == Ended(s) \/ (status[s] = "selected" /\ candidateOutcome = "closed") \/ reopenedEarly

\* A withdrawal, a proposal or a registration announces rows that have ended; a
\* closing finds the candidate closed, and announces rows that are off.
Announces ==
    \A r \in Caller :
        /\ kind[r] = "withdraw" => prior[r] \subseteq {at[r]}
        /\ kind[r] = "withdraw" /\ label[r] # "withdraw" => \A s \in prior[r] : Ended(s)
        /\ kind[r] \in {"propose", "manual"} /\ label[r] = "notice" => \A s \in prior[r] : Ended(s)
        /\ kind[r] = "decide" /\ label[r] = "notice" => \A s \in prior[r] : Off(s)
        /\ label[r] = "find" => candidateOutcome = "closed" \/ reopenedEarly
\* What was announced as off is off.
AnnouncedOff == \A m \in calledOff : Off(m[2])

\* A row that has ended stays so, or a counter-proposal takes it back.
LEMMA EndedStays ==
  ASSUME Callings, [ScheduleNext]_scheduleVars, NEW s \in Schedule, Ended(s)
  PROVE  Ended(s)'
<1>0. status \in [Schedule -> Status] /\ CallersOK /\ HourlyOK /\ status'[s] \in Status
  BY FreshShrinks DEF Callings, RowsOK
<1>1. CASE s \in revived
  <2>1. revived \subseteq revived'
    <3>1. ASSUME NEW r \in Caller, Begin(r) \/ Killed(r) PROVE revived' = revived
      BY <3>1 DEF Begin, Killed, SelectRead, ConfirmRead, CounterRead, WithdrawRead,
         ScheduleRead, CloseRead
    <3>2. ASSUME NEW r \in Caller, CounterWrite(r) PROVE revived \subseteq revived'
      BY <3>2 DEF CounterWrite
    <3>3. ASSUME NEW r \in Caller, Continue(r), ~CounterWrite(r) PROVE revived' = revived
      BY <3>3 DEF Continue, Claim, SetStage, Invite, WithdrawWrite, WithdrawLook, ReadPrior,
         CancelOld, Notice, Insert, CloseCandidate, FindChosen, Clean
    <3>4. ASSUME CronStep \/ CronDies \/ MoveOn \/ Reopen \/ (\E t \in Schedule : Lapse(t))
                    \/ UNCHANGED scheduleVars
          PROVE  revived' = revived
      BY <3>4 DEF CronStep, CronExpire, CronSelect, CronCancel, CronReject, CronClean, CronDies,
         MoveOn, Reopen, Lapse, scheduleVars
    <3> QED
      BY <3>1, <3>2, <3>3, <3>4 DEF ScheduleNext
  <2> QED
    BY <1>1, <2>1 DEF Ended
<1>2. CASE status[s] \in {"withdrawn", "cancelled"}
  <2>1. ASSUME NEW r \in Caller, Continue(r) PROVE Ended(s)'
    <3>0. at[r] \in Schedule
      BY <1>0 DEF CallersOK
    <3>1. CASE Claim(r)
      BY <1>0, <1>2, <3>0, <3>1 DEF Claim, ClaimAllowed, Open, Ended
    <3>2. CASE CounterWrite(r)
      BY <1>0, <1>2, <3>0, <3>2 DEF CounterWrite, Open, Ended
    <3>3. CASE WithdrawWrite(r)
      BY <1>0, <1>2, <3>0, <3>3 DEF WithdrawWrite, Ended
    <3>4. CASE Insert(r)
      <4>1. Fresh # {} => (CHOOSE f \in Fresh : TRUE) \in Fresh
        OBVIOUS
      <4>2. s \notin Fresh
        BY <1>2 DEF Fresh
      <4> QED
        BY <1>0, <1>2, <3>4, <4>1, <4>2 DEF Insert, Ended
    <3>5. CASE CancelOld(r) \/ Clean(r)
      BY <1>0, <1>2, <3>5 DEF CancelOld, Clean, SetCancelled, Ended
    <3>6. CASE SetStage(r) \/ Invite(r) \/ WithdrawLook(r) \/ ReadPrior(r) \/ Notice(r)
                  \/ CloseCandidate(r) \/ FindChosen(r)
      BY <1>2, <3>6 DEF SetStage, Invite, WithdrawLook, ReadPrior, Notice, CloseCandidate,
         FindChosen, Ended
    <3> QED
      BY <2>1, <3>1, <3>2, <3>3, <3>4, <3>5, <3>6 DEF Continue
  <2>2. ASSUME NEW r \in Caller, Begin(r) \/ Killed(r) PROVE Ended(s)'
    BY <1>2, <2>2 DEF Begin, Killed, SelectRead, ConfirmRead, CounterRead, WithdrawRead,
       ScheduleRead, CloseRead, Ended
  <2>3. CASE CronCancel \/ CronClean
    BY <1>0, <1>2, <2>3 DEF CronCancel, CronClean, SetCancelled, Ended
  <2>4. CASE CronExpire \/ CronSelect \/ CronReject \/ CronDies \/ MoveOn \/ Reopen
                \/ (\E t \in Schedule : Lapse(t)) \/ UNCHANGED scheduleVars
    BY <1>2, <2>4 DEF CronExpire, CronSelect, CronReject, CronDies, MoveOn, Reopen, Lapse,
       scheduleVars, Ended
  <2> QED
    BY <2>1, <2>2, <2>3, <2>4 DEF ScheduleNext, CronStep
<1> QED
  BY <1>1, <1>2 DEF Ended

\* A confirmed row stays, ends, or is taken back.
LEMMA ChosenEnds ==
  ASSUME Callings, [ScheduleNext]_scheduleVars, NEW s \in Schedule, status[s] = "selected"
  PROVE  status'[s] = "selected" \/ Ended(s)'
<1>0. status \in [Schedule -> Status] /\ CallersOK
  BY DEF Callings, RowsOK
<1>1. ASSUME NEW r \in Caller, Continue(r) PROVE status'[s] = "selected" \/ Ended(s)'
  <2>0. at[r] \in Schedule
    BY <1>0 DEF CallersOK
  <2>1. CASE Claim(r)
    BY <1>0, <2>0, <2>1 DEF Claim
  <2>2. CASE CounterWrite(r)
    BY <1>0, <2>0, <2>2 DEF CounterWrite, Open, Ended
  <2>3. CASE WithdrawWrite(r)
    BY <1>0, <2>0, <2>3 DEF WithdrawWrite, Ended
  <2>4. CASE Insert(r)
    <3>1. Fresh # {} => (CHOOSE f \in Fresh : TRUE) \in Fresh
      OBVIOUS
    <3>2. s \notin Fresh
      BY DEF Fresh
    <3> QED
      BY <1>0, <2>4, <3>1, <3>2 DEF Insert
  <2>5. CASE CancelOld(r) \/ Clean(r)
    BY <1>0, <2>5 DEF CancelOld, Clean, SetCancelled, Ended
  <2>6. CASE SetStage(r) \/ Invite(r) \/ WithdrawLook(r) \/ ReadPrior(r) \/ Notice(r)
                \/ CloseCandidate(r) \/ FindChosen(r)
    BY <2>6 DEF SetStage, Invite, WithdrawLook, ReadPrior, Notice, CloseCandidate, FindChosen
  <2> QED
    BY <1>1, <2>1, <2>2, <2>3, <2>4, <2>5, <2>6 DEF Continue
<1>2. ASSUME NEW r \in Caller, Begin(r) \/ Killed(r) PROVE status'[s] = "selected"
  BY <1>2 DEF Begin, Killed, SelectRead, ConfirmRead, CounterRead, WithdrawRead, ScheduleRead,
     CloseRead
<1>3. CASE CronCancel \/ CronClean
  BY <1>0, <1>3 DEF CronCancel, CronClean, SetCancelled, Ended
<1>4. CASE CronExpire \/ CronSelect \/ CronReject \/ CronDies \/ MoveOn \/ Reopen
              \/ (\E t \in Schedule : Lapse(t)) \/ UNCHANGED scheduleVars
  BY <1>4 DEF CronExpire, CronSelect, CronReject, CronDies, MoveOn, Reopen, Lapse, scheduleVars
<1> QED
  BY <1>1, <1>2, <1>3, <1>4 DEF ScheduleNext, CronStep

\* Only a reopening takes a closing back, and it is known when that overtakes one.
LEMMA ClosedStays ==
  ASSUME Callings, [ScheduleNext]_scheduleVars
  PROVE  /\ reopenedEarly => reopenedEarly'
         /\ ~Reopen => (candidateOutcome = "closed" => candidateOutcome' = "closed")
<1>1. CASE Reopen
  BY <1>1 DEF Reopen
<1>2. ASSUME NEW r \in Caller, Begin(r) \/ Killed(r)
      PROVE  UNCHANGED <<reopenedEarly, candidateOutcome>>
  BY <1>2 DEF Begin, Killed, SelectRead, ConfirmRead, CounterRead, WithdrawRead, ScheduleRead,
     CloseRead
<1>3. ASSUME NEW r \in Caller, Continue(r)
      PROVE  reopenedEarly' = reopenedEarly
             /\ (candidateOutcome' = candidateOutcome \/ candidateOutcome' = "closed")
  BY <1>3 DEF Continue, Claim, SetStage, Invite, CounterWrite, WithdrawWrite, WithdrawLook,
     ReadPrior, CancelOld, Notice, Insert, CloseCandidate, FindChosen, Clean
<1>4. CASE CronStep \/ CronDies \/ MoveOn \/ (\E s \in Schedule : Lapse(s)) \/ UNCHANGED scheduleVars
  BY <1>4 DEF CronStep, CronExpire, CronSelect, CronCancel, CronReject, CronClean, CronDies,
     MoveOn, Lapse, scheduleVars
<1> QED
  BY <1>1, <1>2, <1>3, <1>4 DEF ScheduleNext

\* What is off stays off, but for a reopening that brings a confirmed row back.
LEMMA OffStays ==
  ASSUME Callings, [ScheduleNext]_scheduleVars, ~Reopen, NEW s \in Schedule, Off(s)
  PROVE  Off(s)'
BY EndedStays, ChosenEnds, ClosedStays DEF Off

\* What a request announces is off when it comes to announce it.
LEMMA AnnouncesStep ==
  ASSUME Callings, Announces, [ScheduleNext]_scheduleVars
  PROVE  Announces'
<1>0. /\ CallersOK /\ Courses /\ status \in [Schedule -> Status] /\ candidateOutcome \in {"none", "closed"}
      /\ \A r \in Caller : prior[r] \subseteq Schedule \ Fresh
  BY DEF Callings, RowsOK, CallersOK
<1> DEFINE Says(r) ==
      /\ kind[r] = "withdraw" => prior[r] \subseteq {at[r]}
      /\ kind[r] = "withdraw" /\ label[r] # "withdraw" => \A s \in prior[r] : Ended(s)
      /\ kind[r] \in {"propose", "manual"} /\ label[r] = "notice" => \A s \in prior[r] : Ended(s)
      /\ kind[r] = "decide" /\ label[r] = "notice" => \A s \in prior[r] : Off(s)
      /\ label[r] = "find" => candidateOutcome = "closed" \/ reopenedEarly
<1>1. ASSUME NEW r \in Caller, UNCHANGED <<label[r], kind[r], at[r], prior[r]>>, ~Reopen PROVE Says(r)'
  <2>1. Says(r)
    BY DEF Announces
  <2>2. \A s \in prior[r] : (Ended(s) => Ended(s)') /\ (Off(s) => Off(s)')
    BY <1>0, <1>1, EndedStays, OffStays
  <2> QED
    BY <1>1, <2>1, <2>2, ClosedStays
<1>2. ASSUME Reopen, NEW r \in Caller PROVE Says(r)'
  <2>1. Says(r) /\ UNCHANGED callerVars
    BY <1>2 DEF Announces, Reopen
  <2>2. \A s \in prior[r] : Ended(s) => Ended(s)'
    BY <1>0, EndedStays
  <2>3. label[r] = "find" \/ (label[r] = "notice" /\ kind[r] = "decide") => reopenedEarly'
    BY <1>0, <1>2 DEF Reopen, Announcing, Courses
  <2> QED
    BY <2>1, <2>2, <2>3 DEF Off
<1>3. ASSUME NEW self \in Caller, Begin(self) \/ Continue(self) \/ Killed(self) PROVE Says(self)'
  <2>0. kind[self] \in Kind /\ at[self] \in Schedule /\ Says(self)
    BY <1>0 DEF CallersOK, Announces
  <2>1. ASSUME label'[self] \notin {"notice", "find"}, kind'[self] # "withdraw" PROVE Says(self)'
    BY <2>1
  <2>2. ASSUME Leave(self) PROVE Says(self)'
    BY <1>0, <2>1, <2>2 DEF CallersOK
  <2>3. ASSUME Begin(self) PROVE Says(self)'
    <3>1. CASE \E s \in Schedule : WithdrawRead(self, s)
      <4>1. /\ label'[self] = "withdraw" /\ kind'[self] = "withdraw"
            /\ prior'[self] \subseteq {at'[self]}
        BY <1>0, <3>1 DEF CallersOK, WithdrawRead
      <4> QED
        BY <4>1
    <3>2. CASE ~\E s \in Schedule : WithdrawRead(self, s)
      <4>1. label'[self] \in {"claim", "counter", "prior", "close"} /\ kind'[self] # "withdraw"
        BY <1>0, <2>3, <3>2 DEF CallersOK, Begin, SelectRead, ConfirmRead, CounterRead,
           ScheduleRead, CloseRead
      <4> QED
        BY <2>1, <4>1
    <3> QED
      BY <3>1, <3>2
  <2>4. CASE WithdrawWrite(self)
    <3>1. /\ label[self] = "withdraw" /\ kind[self] = "withdraw" /\ label'[self] = "look"
          /\ UNCHANGED <<kind, at, prior>> /\ prior[self] \subseteq {at[self]}
      BY <1>0, <2>0, <2>4 DEF WithdrawWrite, CallersOK, Courses
    <3>2. status'[at[self]] = "withdrawn"
      BY <1>0, <2>0, <2>4 DEF WithdrawWrite
    <3> QED
      BY <3>1, <3>2 DEF Ended
  <2>5. ASSUME UNCHANGED <<kind, at, prior>>, label[self] # "withdraw", kind[self] = "withdraw",
               label'[self] # "find"
        PROVE  Says(self)'
    <3>1. \A s \in prior[self] : Ended(s) => Ended(s)'
      BY <1>0, EndedStays
    <3> QED
      BY <2>0, <2>5, <3>1
  <2>6. CASE WithdrawLook(self)
    <3>1. CASE Leave(self)
      BY <2>2, <3>1
    <3>2. CASE Step(self, "close")
      <4>1. label[self] = "look" /\ kind[self] = "withdraw" /\ label'[self] = "close"
        BY <1>0, <2>6, <3>2 DEF WithdrawLook, CallersOK, Courses
      <4> QED
        BY <2>5, <3>2, <4>1
    <3> QED
      BY <2>6, <3>1, <3>2 DEF WithdrawLook
  <2>7. CASE CancelOld(self)
    <3>1. /\ label'[self] = "notice" /\ kind[self] \in {"propose", "manual"}
          /\ UNCHANGED <<kind, prior>>
      BY <1>0, <2>7 DEF CancelOld, CallersOK, Courses
    <3>2. \A s \in Schedule \ Fresh : Ended(s)'
      BY <1>0, <2>7 DEF CancelOld, SetCancelled, Replaced, OpenRows, Open, Chosen, Fresh, Status,
         Ended
    <3> QED
      BY <1>0, <3>1, <3>2
  <2>8. CASE CloseCandidate(self)
    <3>1. CASE kind[self] = "decide"
      BY <1>0, <2>8, <3>1 DEF CloseCandidate, CallersOK
    <3>2. CASE kind[self] # "decide"
      <4>1. label[self] = "close" /\ kind[self] = "withdraw" /\ label'[self] = "clean"
            /\ UNCHANGED <<kind, at, prior>>
        BY <1>0, <2>8, <3>2 DEF CloseCandidate, CallersOK, Courses
      <4> QED
        BY <2>5, <4>1
    <3> QED
      BY <3>1, <3>2
  <2>9. CASE FindChosen(self)
    <3>1. /\ label[self] = "find" /\ kind[self] = "decide" /\ label'[self] = "notice"
          /\ UNCHANGED <<status, candidateOutcome, reopenedEarly, kind>> /\ prior'[self] = Chosen
      BY <1>0, <2>9 DEF FindChosen, CallersOK, Courses
    <3>2. candidateOutcome = "closed" \/ reopenedEarly
      BY <2>0, <3>1
    <3> QED
      BY <3>1, <3>2 DEF Chosen, Off
  <2>10. CASE Clean(self)
    <3>1. CASE Leave(self)
      BY <2>2, <3>1
    <3>2. CASE kind[self] = "withdraw"
      <4>1. label[self] = "clean" /\ label'[self] = "notice" /\ UNCHANGED <<kind, at, prior>>
        BY <1>0, <2>10, <3>2 DEF Clean, CallersOK
      <4> QED
        BY <2>5, <3>2, <4>1
    <3> QED
      BY <2>10, <3>1, <3>2 DEF Clean
  <2>11. CASE Claim(self) \/ SetStage(self) \/ Insert(self) \/ ReadPrior(self)
    <3>1. CASE Leave(self)
      BY <2>2, <3>1
    <3>2. CASE ~Leave(self)
      <4>1. label'[self] \in {"stage", "tell", "cancel"} /\ kind'[self] = kind[self]
            /\ kind[self] # "withdraw"
        BY <1>0, <2>11, <3>2 DEF Claim, SetStage, Insert, ReadPrior, CallersOK, Courses
      <4> QED
        BY <2>1, <4>1
    <3> QED
      BY <3>1, <3>2
  <2>12. CASE Notice(self)
    <3>1. CASE Leave(self)
      BY <2>2, <3>1
    <3>2. CASE ~Leave(self)
      <4>1. label'[self] \in {"insert", "clean"} /\ kind'[self] = kind[self]
            /\ kind[self] # "withdraw"
        BY <1>0, <2>12, <3>2 DEF Notice, CallersOK
      <4> QED
        BY <2>1, <4>1
    <3> QED
      BY <3>1, <3>2
  <2> QED
    BY <1>3, <2>2, <2>3, <2>4, <2>6, <2>7, <2>8, <2>9, <2>10, <2>11, <2>12
    DEF Continue, Killed, Invite, CounterWrite
<1>4. ASSUME NEW self \in Caller, Begin(self) \/ Continue(self) \/ Killed(self), ~Reopen
      PROVE  \A r \in Caller : Says(r)'
  <2>1. ASSUME NEW r \in Caller \ {self} PROVE Says(r)'
    <3>1. UNCHANGED <<label[r], kind[r], at[r], prior[r]>>
      BY <1>0, <1>4, OthersStay
    <3> QED
      BY <1>1, <1>4, <3>1
  <2> QED
    BY <1>3, <1>4, <2>1
<1>6. ASSUME CronStep \/ CronDies \/ MoveOn \/ Reopen \/ (\E s \in Schedule : Lapse(s))
                \/ UNCHANGED scheduleVars
      PROVE  \A r \in Caller : Says(r)'
  <2>1. UNCHANGED callerVars
    BY <1>6 DEF CronStep, CronExpire, CronSelect, CronCancel, CronReject, CronClean, CronDies,
       MoveOn, Reopen, Lapse, scheduleVars
  <2>2. ASSUME NEW r \in Caller PROVE Says(r)'
    <3>1. UNCHANGED <<label[r], kind[r], at[r], prior[r]>>
      BY <2>1
    <3> QED
      BY <1>1, <1>2, <3>1
  <2> QED
    BY <2>2
<1>7. \A r \in Caller : Says(r)'
  <2>1. CASE Reopen
    BY <1>2, <2>1
  <2>2. CASE ~Reopen
    BY <1>4, <1>6, <2>2 DEF ScheduleNext
  <2> QED
    BY <2>1, <2>2
<1> QED
  BY <1>7 DEF Announces

LEMMA AnnouncedStep ==
  ASSUME Callings, Announces, AnnouncedOff, [ScheduleNext]_scheduleVars
  PROVE  AnnouncedOff'
<1>0. calledOff \subseteq Audience \X Schedule /\ CallersOK /\ Courses
  BY DEF Callings, BooksOK
<1>1. ASSUME calledOff' \subseteq calledOff, ~Reopen PROVE AnnouncedOff'
  BY <1>0, <1>1, OffStays DEF AnnouncedOff
<1>2. CASE Reopen
  <2>1. ASSUME NEW m \in calledOff' PROVE Off(m[2])'
    <3>1. m \in calledOff /\ m \notin Audience \X Chosen /\ m[2] \in Schedule
          /\ UNCHANGED status
      BY <1>0, <1>2, <2>1 DEF Reopen
    <3>2. m[2] \notin Chosen
      BY <1>0, <3>1
    <3>3. Ended(m[2]) \/ reopenedEarly
      BY <3>1, <3>2 DEF AnnouncedOff, Off, Chosen
    <3> QED
      BY <3>1, <3>3, EndedStays, ClosedStays DEF Off
  <2> QED
    BY <2>1 DEF AnnouncedOff
<1>3. ASSUME NEW r \in Caller, Notice(r), ~Reopen PROVE AnnouncedOff'
  <2>1. PICK G \in Delivered(Hearers(kind[r]) \X prior[r]) : calledOff' = calledOff \cup G
    BY <1>3 DEF Notice
  <2>2. G \subseteq Audience \X prior[r] /\ prior[r] \subseteq Schedule
    BY <1>0, <2>1, NoticeIsOf
  <2>3. \A s \in prior[r] : Off(s)
    <3>1. label[r] = "notice" /\ kind[r] \in {"withdraw", "propose", "manual", "decide"}
      BY <1>0, <1>3 DEF Notice, Courses, CallersOK, Kind
    <3> QED
      BY <3>1 DEF Announces, Off
  <2>4. \A s \in prior[r] : Off(s)'
    BY <1>3, <2>2, <2>3, OffStays
  <2>5. \A m \in G : m[2] \in prior[r]
    BY <2>2
  <2> QED
    BY <1>0, <1>3, <2>1, <2>4, <2>5, OffStays DEF AnnouncedOff
<1>4. ASSUME NEW r \in Caller, Begin(r) \/ Continue(r) \/ Killed(r), ~Notice(r)
      PROVE  calledOff' \subseteq calledOff
  BY <1>4 DEF Begin, Killed, SelectRead, ConfirmRead, CounterRead, WithdrawRead, ScheduleRead,
     CloseRead, Continue, Claim, SetStage, Invite, CounterWrite, WithdrawWrite, WithdrawLook,
     ReadPrior, CancelOld, Insert, CloseCandidate, FindChosen, Clean
<1>5. CASE CronStep \/ CronDies \/ MoveOn \/ (\E s \in Schedule : Lapse(s)) \/ UNCHANGED scheduleVars
  <2>1. calledOff' = calledOff
    BY <1>5 DEF CronStep, CronExpire, CronSelect, CronCancel, CronReject, CronClean, CronDies,
       MoveOn, Lapse, scheduleVars
  <2> QED
    BY <1>1, <1>2, <2>1
<1> QED
  BY <1>1, <1>2, <1>3, <1>4, <1>5 DEF ScheduleNext

\* Whoever was last told that an interview is off need not come, however the requests
\* that read, cancel and announce cross (schedule-propose/route.ts:271,
\* schedule-share.ts:314, withdraw/route.ts:118), unless a stale counter-proposal
\* brought the row back, or a reopening came before what a closing announces.
THEOREM CalledOffIsOff == ScheduleSpec => []OffIsOff
<1>1. ScheduleInit => Callings /\ Announces /\ AnnouncedOff
  BY CallingsBegin DEF ScheduleInit, Announces, AnnouncedOff
<1>2. Callings /\ Announces /\ AnnouncedOff /\ [ScheduleNext]_scheduleVars
         => Callings' /\ Announces' /\ AnnouncedOff'
  BY CallingsStep, AnnouncesStep, AnnouncedStep
<1>3. AnnouncedOff => OffIsOff
  BY DEF AnnouncedOff, OffIsOff, Off, Ended, Stands
<1> QED
  BY <1>1, <1>2, <1>3, PTL DEF ScheduleSpec

=============================================================================
