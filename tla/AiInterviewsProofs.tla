-------------------------- MODULE AiInterviewsProofs --------------------------
(***************************************************************************)
(* Safety of AiInterviews for every value of its constants.                *)
(***************************************************************************)
EXTENDS AiInterviews, FiniteSetTheorems, TLAPS

USE DEF candidate, rows, inputs, ledger, locals, job, history, Goto, End, Keep

-----------------------------------------------------------------------------
(* The inductive invariant, part by part.                                  *)

\* Labels of a request for one session, of a turn, and of those that carry the
\* conversation they have read.
Talking  == {"gate", "start", "stream"}
Carrying == Talking \cup {"look", "claim", "promote", "evaluate", "charge",
                          "reevaluate", "recharge"}
Owning   == {"promote", "evaluate", "charge"}
Bound    == Carrying \cup {"expire"}

\* A link is issued by one request, which has read the stage, and nothing is
\* done with one that is not.
Links ==
    /\ \A r \in Request : pc[r] \in {"insert", "mailed"} => read[r] \in Stage
    /\ \A r \in Request : pc[r] \in Bound => status[on[r]] # "unissued"
    /\ \A r \in Request : pc[r] = "insert" =>
          /\ status[on[r]] = "unissued"
          /\ \A q \in Request : pc[q] = "insert" /\ on[q] = on[r] => q = r

\* What a request has read is the beginning of what has been said since.
Readings ==
    \A r \in Request :
        /\ pc[r] \in Carrying => IsPrefix(seen[r], messages[on[r]])
        /\ pc[r] \in Talking => Len(seen[r]) < MaxTurns

\* Nobody speaks without consent and tests.
Gates ==
    /\ \A s \in Session : messages[s] # <<>> => consent[s] /\ (Tested => answered[s])
    /\ \A r \in Request :
          /\ pc[r] \in {"start", "stream"} => consent[on[r]]
          /\ pc[r] \in Talking => (Tested /\ seen[r] = <<>> => answered[on[r]])

Reports == \A s \in Session : IsPrefix(report[s], messages[s])

IInv == TypeOK /\ Links /\ Readings /\ Gates /\ Reports

\* Requests that own the evaluation of a session, or will own it.
Owners(s)  == {r \in Request : on[r] = s /\ pc[r] \in Owning}
Open(s)    == IF status[s] = "completed" THEN 0 ELSE 1

\* Every charge, every owner and every session that may still be claimed goes
\* back to one completion.
Completions ==
    \A s \in Session : automatic[s] + Cardinality(Owners(s)) + Open(s) <= 1 + revived[s]

-----------------------------------------------------------------------------
(* Prefixes.                                                               *)

LEMMA PrefixAt ==
  ASSUME NEW s \in Seq(Nat), NEW t \in Seq(Nat)
  PROVE  IsPrefix(s, t) <=> Len(s) <= Len(t) /\ \A i \in 1..Len(s) : s[i] = t[i]
<1>1. CASE Len(s) <= Len(t)
  <2>1. /\ SubSeq(s, 1, Len(s)) \in Seq(Nat) /\ Len(SubSeq(s, 1, Len(s))) = Len(s)
        /\ \A i \in 1..Len(s) : SubSeq(s, 1, Len(s))[i] = s[i]
    OBVIOUS
  <2>2. /\ SubSeq(t, 1, Len(s)) \in Seq(Nat) /\ Len(SubSeq(t, 1, Len(s))) = Len(s)
        /\ \A i \in 1..Len(s) : SubSeq(t, 1, Len(s))[i] = t[i]
    BY <1>1
  <2>3. SubSeq(s, 1, Len(s)) = SubSeq(t, 1, Len(s)) <=> \A i \in 1..Len(s) : s[i] = t[i]
    BY <2>1, <2>2
  <2> QED
    BY <1>1, <2>3 DEF IsPrefix
<1>2. CASE ~(Len(s) <= Len(t))
  BY <1>2 DEF IsPrefix
<1> QED
  BY <1>1, <1>2

\* A conversation extends itself and the empty one.
LEMMA PrefixOfItself ==
  ASSUME NEW s \in Seq(Nat)
  PROVE  IsPrefix(s, s) /\ IsPrefix(<<>>, s) /\ (IsPrefix(s, <<>>) => s = <<>>)
<1>1. <<>> \in Seq(Nat) /\ Len(<<>>) = 0
  OBVIOUS
<1>2. IsPrefix(s, <<>>) => s = <<>>
  BY <1>1 DEF IsPrefix
<1>3. ASSUME NEW e \in Seq(Nat), Len(e) = 0 PROVE IsPrefix(e, s)
  <2>1. Len(s) >= 0 /\ 1..Len(e) = {}
    BY <1>3
  <2> QED
    BY <1>3, <2>1, PrefixAt
<1>4. IsPrefix(s, s)
  BY PrefixAt
<1> QED
  BY <1>1, <1>2, <1>3, <1>4

LEMMA PrefixExtends ==
  ASSUME NEW s \in Seq(Nat), NEW t \in Seq(Nat), NEW u \in Seq(Nat),
         IsPrefix(s, t), IsPrefix(t, u)
  PROVE  IsPrefix(s, u)
<1>1. Len(s) <= Len(t) /\ \A i \in 1..Len(s) : s[i] = t[i]
  BY PrefixAt
<1>2. Len(t) <= Len(u) /\ \A i \in 1..Len(t) : t[i] = u[i]
  BY PrefixAt
<1>3. Len(s) <= Len(u) /\ \A i \in 1..Len(s) : s[i] = u[i]
  BY <1>1, <1>2
<1> QED
  BY <1>3, PrefixAt

\* Of the same length, it is the same.
LEMMA PrefixOfLength ==
  ASSUME NEW s \in Seq(Nat), NEW t \in Seq(Nat), IsPrefix(s, t), Len(t) = Len(s)
  PROVE  s = t
<1>1. \A i \in 1..Len(s) : s[i] = t[i]
  BY PrefixAt
<1> QED
  BY <1>1

LEMMA PrefixAppended ==
  ASSUME NEW s \in Seq(Nat), NEW n \in Nat
  PROVE  /\ Append(s, n) \in Seq(Nat) /\ Len(Append(s, n)) = Len(s) + 1
         /\ IsPrefix(s, Append(s, n)) /\ Append(s, n) # <<>>
<1>1. /\ Append(s, n) \in Seq(Nat) /\ Len(Append(s, n)) = Len(s) + 1
      /\ \A i \in 1..Len(s) : Append(s, n)[i] = s[i]
  OBVIOUS
<1>2. Append(s, n) # <<>>
  BY <1>1
<1>3. ASSUME NEW t \in Seq(Nat), Len(t) = Len(s) + 1, \A i \in 1..Len(s) : t[i] = s[i]
      PROVE  IsPrefix(s, t)
  BY <1>3, PrefixAt
<1> QED
  BY <1>1, <1>2, <1>3

-----------------------------------------------------------------------------
(* Types.                                                                  *)

\* The conversation of a turn that is saved is the one that was read, and one
\* longer than before.
LEMMA SavedTurn ==
  ASSUME IInv, NEW r \in Request, ChatSave(r)
  PROVE  \/ UNCHANGED <<messages, saves>>
         \/ /\ on[r] \in Session /\ seen[r] = messages[on[r]] /\ pc[r] = "stream"
            /\ Len(messages[on[r]]) < MaxTurns /\ saves[on[r]] + 1 \in Nat
            /\ messages' = [messages EXCEPT ![on[r]] = Append(@, saves[on[r]] + 1)]
            /\ saves' = [saves EXCEPT ![on[r]] = @ + 1]
<1>1. /\ on[r] \in Session /\ seen[r] \in Seq(Nat) /\ messages[on[r]] \in Seq(Nat)
      /\ saves[on[r]] \in Nat /\ pc[r] = "stream"
  BY DEF IInv, TypeOK, ChatSave
<1>2. IsPrefix(seen[r], messages[on[r]]) /\ Len(seen[r]) < MaxTurns
  BY <1>1 DEF IInv, Readings, Carrying, Talking
<1>3. CASE SaveAllowed(on[r], seen[r])
  <2>1. seen[r] = messages[on[r]]
    BY <1>1, <1>2, <1>3, PrefixOfLength DEF SaveAllowed
  <2>2. saves' = [saves EXCEPT ![on[r]] = @ + 1]
    BY <1>3 DEF ChatSave
  <2>3. messages' = [messages EXCEPT ![on[r]] = Append(@, saves[on[r]] + 1)]
    BY <1>3, <2>1 DEF ChatSave
  <2> QED
    BY <1>1, <1>2, <2>1, <2>2, <2>3
<1>4. CASE ~SaveAllowed(on[r], seen[r])
  BY <1>4 DEF ChatSave
<1> QED
  BY <1>3, <1>4

\* The end of a request and the reading of a session keep the types.
LEMMA LocalTypes ==
  ASSUME TypeOK, NEW r \in Request,
         \/ End(r)
         \/ \E l \in Label, s \in Session, c \in Seq(Nat), v \in Stage \cup Outcome \cup Status :
               Goto(r, l) /\ Keep(r, s, c, v)
         \/ \E l \in Label : Goto(r, l) /\ UNCHANGED locals
  PROVE  /\ pc' \in [Request -> Label] /\ on' \in [Request -> Session]
         /\ seen' \in [Request -> Seq(Nat)]
         /\ read' \in [Request -> Stage \cup Outcome \cup Status]
<1>1. Nobody \in Session /\ <<>> \in Seq(Nat) /\ "idle" \in Label /\ "none" \in Outcome
  BY InterviewAssumption DEF Nobody, Label, Outcome
<1>2. CASE End(r)
  BY <1>1, <1>2 DEF TypeOK
<1>3. ASSUME NEW l \in Label, NEW s \in Session, NEW c \in Seq(Nat),
             NEW v \in Stage \cup Outcome \cup Status, Goto(r, l), Keep(r, s, c, v)
      PROVE  /\ pc' \in [Request -> Label] /\ on' \in [Request -> Session]
             /\ seen' \in [Request -> Seq(Nat)]
             /\ read' \in [Request -> Stage \cup Outcome \cup Status]
  BY <1>3 DEF TypeOK
<1>4. ASSUME NEW l \in Label, Goto(r, l), UNCHANGED locals
      PROVE  /\ pc' \in [Request -> Label] /\ on' \in [Request -> Session]
             /\ seen' \in [Request -> Seq(Nat)]
             /\ read' \in [Request -> Stage \cup Outcome \cup Status]
  BY <1>4 DEF TypeOK
<1>5. CASE \E l \in Label, s \in Session, c \in Seq(Nat), v \in Stage \cup Outcome \cup Status :
              Goto(r, l) /\ Keep(r, s, c, v)
  <2>1. PICK l \in Label, s \in Session, c \in Seq(Nat), v \in Stage \cup Outcome \cup Status :
               Goto(r, l) /\ Keep(r, s, c, v)
    BY <1>5
  <2> QED
    BY <1>3, <2>1
<1> QED
  BY <1>2, <1>4, <1>5

\* The types of the data, by the variables a step may change together.
CandidateOK ==
    /\ stage \in Stage /\ outcome \in Outcome
    /\ reason \in {"none", "chosen", "candidate_withdrew", "ai_link_expired"}
StatusOK == status \in [Session -> Status] /\ revived \in [Session -> Nat]
InputsOK ==
    /\ lapsed \in [Session -> BOOLEAN] /\ consent \in [Session -> BOOLEAN]
    /\ answered \in [Session -> BOOLEAN]
WordsOK ==
    /\ messages \in [Session -> Seq(Nat)] /\ saves \in [Session -> Nat]
    /\ \A s \in Session : Len(messages[s]) <= MaxTurns
ReportOK == report \in [Session -> Seq(Nat)]
LedgerOK == automatic \in [Session -> Nat] /\ again \in [Session -> Nat]
CronOK   == cron \in CronLabel /\ ended \subseteq Session
LocalsOK ==
    /\ pc \in [Request -> Label] /\ on \in [Request -> Session]
    /\ seen \in [Request -> Seq(Nat)] /\ read \in [Request -> Stage \cup Outcome \cup Status]

LEMMA TypeParts ==
  TypeOK <=> CandidateOK /\ StatusOK /\ InputsOK /\ WordsOK /\ ReportOK /\ LedgerOK /\ CronOK
             /\ LocalsOK
BY DEF TypeOK, CandidateOK, StatusOK, InputsOK, WordsOK, ReportOK, LedgerOK, CronOK, LocalsOK

\* What a step leaves alone keeps its type.
LEMMA KeptTypes ==
  ASSUME TypeOK
  PROVE  /\ UNCHANGED candidate => CandidateOK'
         /\ UNCHANGED <<status, revived>> => StatusOK'
         /\ UNCHANGED inputs => InputsOK'
         /\ UNCHANGED <<messages, saves>> => WordsOK'
         /\ UNCHANGED report => ReportOK'
         /\ UNCHANGED ledger => LedgerOK'
         /\ UNCHANGED job => CronOK'
         /\ UNCHANGED <<pc, locals>> => LocalsOK'
BY TypeParts DEF CandidateOK, StatusOK, InputsOK, WordsOK, ReportOK, LedgerOK, CronOK, LocalsOK

LEMMA LocalsStep ==
  ASSUME IInv, NEW r \in Request, Begin(r) \/ Continue(r) \/ Die(r)
  PROVE  LocalsOK'
<1>0. TypeOK /\ on[r] \in Session /\ seen[r] \in Seq(Nat) /\ stage \in Stage
  BY DEF IInv, TypeOK
<1>a. <<>> \in Seq(Nat) /\ Nobody \in Session
  BY InterviewAssumption DEF Nobody
<1>b. ASSUME NEW l \in Label, Goto(r, l), UNCHANGED locals PROVE LocalsOK'
  BY <1>0, <1>b, LocalTypes DEF LocalsOK
<1>c. ASSUME End(r) PROVE LocalsOK'
  BY <1>0, <1>c, LocalTypes DEF LocalsOK
<1>d. ASSUME NEW l \in Label, NEW s \in Session, NEW c \in Seq(Nat),
             NEW v \in Stage \cup Outcome \cup Status, Goto(r, l), Keep(r, s, c, v)
      PROVE  LocalsOK'
  BY <1>0, <1>d, LocalTypes DEF LocalsOK
<1> USE <1>b, <1>c, <1>d DEF Label
<1> HIDE DEF Goto, End, Keep
<1>1. CASE Begin(r)
  <2>1. ASSUME NEW s \in Session, IssueCheck(r, s) PROVE LocalsOK'
    BY <1>0, <1>a, <2>1 DEF IssueCheck
  <2>2. ASSUME NEW s \in Session, ChatRead(r, s) PROVE LocalsOK'
    BY <1>0, <2>2 DEF ChatRead, IInv, TypeOK
  <2>3. ASSUME NEW s \in Session, FinishRead(r, s) PROVE LocalsOK'
    BY <1>0, <2>3, "none" \in Outcome DEF FinishRead, Outcome, IInv, TypeOK
  <2>4. ASSUME NEW s \in Session, AgainRead(r, s) PROVE LocalsOK'
    BY <1>0, <2>4, "none" \in Outcome DEF AgainRead, Outcome, IInv, TypeOK
  <2>5. ASSUME NEW s \in Session, WithdrawRead(r, s) PROVE LocalsOK'
    BY <1>a, <2>5, "none" \in Outcome DEF WithdrawRead, Outcome
  <2>6. CASE DecideRead(r)
    BY <1>0, <1>a, <2>6 DEF DecideRead, IInv, TypeOK
  <2> QED
    BY <1>1, <2>1, <2>2, <2>3, <2>4, <2>5, <2>6 DEF Begin
<1>2. CASE Continue(r)
  <2>1. CASE IssueInsert(r) \/ IssueAdvance(r) \/ IssueMailed(r) \/ MailFails(r)
    BY <2>1 DEF IssueInsert, IssueAdvance, IssueMailed, MailFails
  <2>2. CASE ChatGate(r) \/ ChatStart(r) \/ ChatSave(r)
    BY <2>2 DEF ChatGate, ChatStart, ChatSave
  <2>3. CASE FinishLook(r)
    BY <1>0, <2>3 DEF FinishLook
  <2>4. CASE FinishClaim(r) \/ FinishPromote(r) \/ FinishSilent(r) \/ FinishEvaluate(r)
             \/ FinishFails(r) \/ FinishCharge(r)
    BY <2>4 DEF FinishClaim, FinishPromote, FinishSilent, FinishEvaluate, FinishFails, FinishCharge
  <2>5. CASE AgainSave(r) \/ AgainCharge(r) \/ AgainFails(r)
    BY <2>5 DEF AgainSave, AgainCharge, AgainFails
  <2>6. CASE WithdrawExpire(r) \/ WithdrawLook(r) \/ WithdrawDecide(r)
    BY <2>6 DEF WithdrawExpire, WithdrawLook, WithdrawDecide
  <2>7. CASE DecideWrite(r) \/ Cleanup(r)
    BY <2>7 DEF DecideWrite, Cleanup
  <2> QED
    BY <1>2, <2>1, <2>2, <2>3, <2>4, <2>5, <2>6, <2>7 DEF Continue
<1>3. CASE Die(r)
  BY <1>3 DEF Die
<1> QED
  BY <1>1, <1>2, <1>3

LEMMA TypeStep ==
  ASSUME IInv, [Next]_vars
  PROVE  TypeOK'
<1>0. /\ TypeOK /\ CandidateOK /\ StatusOK /\ InputsOK /\ WordsOK /\ ReportOK /\ LedgerOK /\ CronOK
      /\ LocalsOK
  BY TypeParts DEF IInv
<1> DEFINE DataOK == CandidateOK /\ StatusOK /\ InputsOK /\ WordsOK /\ ReportOK /\ LedgerOK /\ CronOK
<1>1. ASSUME NEW r \in Request, Begin(r) \/ Die(r) PROVE DataOK'
  BY <1>0, <1>1, KeptTypes
     DEF Begin, IssueCheck, ChatRead, FinishRead, AgainRead, WithdrawRead, DecideRead, Die
<1>2. ASSUME NEW r \in Request, Continue(r) PROVE DataOK'
  <2>0. on[r] \in Session /\ seen[r] \in Seq(Nat)
    BY <1>0 DEF LocalsOK
  <2>1. CASE IssueInsert(r)
    <3>1. StatusOK'
      BY <1>0, <2>1 DEF IssueInsert, StatusOK, Status
    <3> QED
      BY <1>0, <2>1, <3>1, KeptTypes DEF IssueInsert
  <2>2. CASE IssueAdvance(r) \/ IssueMailed(r) \/ FinishPromote(r)
    <3>1. CandidateOK'
      BY <1>0, <2>2 DEF IssueAdvance, IssueMailed, FinishPromote, CandidateOK, Stage, IInv, Links
    <3> QED
      BY <1>0, <2>2, <3>1, KeptTypes DEF IssueAdvance, IssueMailed, FinishPromote
  <2>3. CASE ChatStart(r) \/ WithdrawExpire(r)
    <3>1. status' \in [Session -> Status]
      BY <1>0, <2>3 DEF ChatStart, WithdrawExpire, StatusOK, Status
    <3>2. revived' \in [Session -> Nat]
      BY <1>0, <2>0, <2>3 DEF ChatStart, WithdrawExpire, TakesBack, StatusOK
    <3> QED
      BY <1>0, <2>3, <3>1, <3>2, KeptTypes DEF ChatStart, WithdrawExpire, StatusOK
  <2>4. CASE ChatSave(r)
    <3>1. WordsOK'
      <4>1. CASE UNCHANGED <<messages, saves>>
        BY <1>0, <4>1, KeptTypes
      <4>2. CASE ~UNCHANGED <<messages, saves>>
        <5> DEFINE m == Append(messages[on[r]], saves[on[r]] + 1)
        <5>1. m \in Seq(Nat) /\ Len(m) <= MaxTurns
          BY <1>0, <2>4, <4>2, SavedTurn, PrefixAppended, InterviewAssumption DEF WordsOK
        <5>2. messages' = [messages EXCEPT ![on[r]] = m] /\ saves' = [saves EXCEPT ![on[r]] = @ + 1]
          BY <2>4, <4>2, SavedTurn
        <5> HIDE DEF m
        <5> QED
          BY <1>0, <2>0, <5>1, <5>2 DEF WordsOK
      <4> QED
        BY <4>1, <4>2
    <3> QED
      BY <1>0, <2>4, <3>1, KeptTypes DEF ChatSave
  <2>5. CASE FinishClaim(r) \/ Cleanup(r)
    <3>1. StatusOK'
      BY <1>0, <2>5 DEF FinishClaim, Cleanup, CloseLinks, StatusOK, Status
    <3> QED
      BY <1>0, <2>5, <3>1, KeptTypes DEF FinishClaim, Cleanup
  <2>6. CASE FinishSilent(r) \/ FinishEvaluate(r) \/ AgainSave(r)
    <3>1. ReportOK'
      BY <1>0, <2>0, <2>6 DEF FinishSilent, FinishEvaluate, AgainSave, SaveReport, ReportOK
    <3> QED
      BY <1>0, <2>6, <3>1, KeptTypes DEF FinishSilent, FinishEvaluate, AgainSave
  <2>7. CASE FinishCharge(r) \/ AgainCharge(r)
    <3>1. LedgerOK'
      <4>1. CASE FinishCharge(r)
        BY <1>0, <2>0, <4>1 DEF FinishCharge, LedgerOK
      <4>2. CASE AgainCharge(r)
        BY <1>0, <2>0, <4>2 DEF AgainCharge, LedgerOK
      <4> QED
        BY <2>7, <4>1, <4>2
    <3> QED
      BY <1>0, <2>7, <3>1, KeptTypes DEF FinishCharge, AgainCharge
  <2>8. CASE WithdrawDecide(r) \/ DecideWrite(r)
    <3>1. CandidateOK'
      BY <1>0, <2>8 DEF WithdrawDecide, DecideWrite, CandidateOK, Outcome
    <3> QED
      BY <1>0, <2>8, <3>1, KeptTypes DEF WithdrawDecide, DecideWrite
  <2>9. CASE MailFails(r) \/ ChatGate(r) \/ FinishLook(r) \/ FinishFails(r) \/ AgainFails(r)
             \/ WithdrawLook(r)
    BY <1>0, <2>9, KeptTypes DEF MailFails, ChatGate, FinishLook, FinishFails, AgainFails, WithdrawLook
  <2> QED
    BY <1>2, <2>1, <2>2, <2>3, <2>4, <2>5, <2>6, <2>7, <2>8, <2>9 DEF Continue
<1>3. ASSUME NEW s \in Session, Lapse(s) \/ GiveConsent(s) \/ Answer(s)
      PROVE  DataOK' /\ LocalsOK'
  <2>1. InputsOK'
    BY <1>0, <1>3 DEF Lapse, GiveConsent, Answer, InputsOK
  <2> QED
    BY <1>0, <1>3, <2>1, KeptTypes DEF Lapse, GiveConsent, Answer
<1>4. ASSUME NEW t \in Stage, MoveStage(t) \/ Reopen PROVE DataOK' /\ LocalsOK'
  <2>1. CandidateOK'
    BY <1>0, <1>4 DEF MoveStage, Reopen, CandidateOK, Outcome
  <2> QED
    BY <1>0, <1>4, <2>1, KeptTypes DEF MoveStage, Reopen
<1>5. ASSUME ExpirePending \/ ExpireStarted \/ CleanupExpired PROVE DataOK' /\ LocalsOK'
  <2>1. StatusOK' /\ CronOK'
    BY <1>0, <1>5 DEF ExpirePending, ExpireStarted, CleanupExpired, CloseLinks, Overdue, StatusOK,
                      Status, CronOK, CronLabel
  <2> QED
    BY <1>0, <1>5, <2>1, KeptTypes DEF ExpirePending, ExpireStarted, CleanupExpired
<1>6. ASSUME SelectOpen \/ RejectExpired \/ CronDies PROVE DataOK' /\ LocalsOK'
  <2>1. CandidateOK' /\ CronOK'
    BY <1>0, <1>6 DEF SelectOpen, RejectExpired, CronDies, CandidateOK, Outcome, CronOK, CronLabel
  <2> QED
    BY <1>0, <1>6, <2>1, KeptTypes DEF SelectOpen, RejectExpired, CronDies
<1>7. ASSUME UNCHANGED vars PROVE DataOK' /\ LocalsOK'
  BY <1>0, <1>7, KeptTypes DEF vars
<1>8. ASSUME NEW r \in Request, Begin(r) \/ Continue(r) \/ Die(r) PROVE LocalsOK'
  BY <1>8, LocalsStep
<1> HIDE DEF DataOK
<1>9. DataOK' /\ LocalsOK'
  <2>1. Stage # {}
    BY DEF Stage
  <2> QED
    BY <2>1, <1>1, <1>2, <1>3, <1>4, <1>5, <1>6, <1>7, <1>8 DEF Next, CronStep
<1> QED
  BY <1>9 DEF DataOK, TypeOK, CandidateOK, StatusOK, InputsOK, WordsOK, ReportOK, LedgerOK, CronOK,
              LocalsOK

-----------------------------------------------------------------------------
(* What requests do to their own locals, and all steps to the data.        *)

Moves(q) == Begin(q) \/ Continue(q) \/ Die(q)

\* The locals of a request are changed by its own steps.
LEMMA LocalsAreOwn ==
  ASSUME TypeOK, [Next]_vars, NEW q \in Request, ~Moves(q)
  PROVE  pc'[q] = pc[q] /\ on'[q] = on[q] /\ seen'[q] = seen[q] /\ read'[q] = read[q]
<1> USE DEF TypeOK
<1>1. ASSUME NEW r \in Request, r # q, Begin(r)
      PROVE  pc'[q] = pc[q] /\ on'[q] = on[q] /\ seen'[q] = seen[q] /\ read'[q] = read[q]
  <2>1. pc'[q] = pc[q]
    BY <1>1 DEF Begin, IssueCheck, ChatRead, FinishRead, AgainRead, WithdrawRead, DecideRead
  <2>2. on'[q] = on[q]
    BY <1>1 DEF Begin, IssueCheck, ChatRead, FinishRead, AgainRead, WithdrawRead, DecideRead
  <2>3. seen'[q] = seen[q] /\ read'[q] = read[q]
    BY <1>1 DEF Begin, IssueCheck, ChatRead, FinishRead, AgainRead, WithdrawRead, DecideRead
  <2> QED
    BY <2>1, <2>2, <2>3
<1>4. ASSUME NEW r \in Request, r # q, Die(r)
      PROVE  pc'[q] = pc[q] /\ on'[q] = on[q] /\ seen'[q] = seen[q] /\ read'[q] = read[q]
  BY <1>4 DEF Die
<1>2. ASSUME NEW r \in Request, r # q, Continue(r)
      PROVE  pc'[q] = pc[q] /\ on'[q] = on[q] /\ seen'[q] = seen[q] /\ read'[q] = read[q]
  BY <1>2 DEF Continue, IssueInsert, IssueAdvance, IssueMailed, MailFails, ChatGate, ChatStart,
       ChatSave, FinishLook, FinishClaim, FinishPromote, FinishSilent, FinishEvaluate,
       FinishFails, FinishCharge, AgainSave, AgainCharge, AgainFails, WithdrawExpire,
       WithdrawLook, WithdrawDecide, DecideWrite, Cleanup
<1>3. ASSUME \/ \E s \in Session : Lapse(s) \/ GiveConsent(s) \/ Answer(s)
             \/ \E t \in Stage : MoveStage(t)
             \/ Reopen \/ CronStep \/ CronDies \/ UNCHANGED vars
      PROVE  pc' = pc /\ on' = on /\ seen' = seen /\ read' = read
  BY <1>3 DEF Lapse, GiveConsent, Answer, MoveStage, Reopen, CronStep, ExpirePending,
       ExpireStarted, SelectOpen, RejectExpired, CleanupExpired, CronDies, vars
<1> QED
  BY <1>1, <1>2, <1>3, <1>4 DEF Next, Moves

\* A request that begins, and the data it leaves alone.
LEMMA Begins ==
  ASSUME TypeOK, NEW q \in Request, Begin(q)
  PROVE  /\ pc'[q] \in {"insert", "gate", "look", "reevaluate", "expire", "decide"}
         /\ UNCHANGED <<candidate, rows, inputs, ledger, job, history>>
         /\ on'[q] \in Session
         /\ pc'[q] = "insert" => \E s \in Session : IssueCheck(q, s) /\ on'[q] = s
                                                   /\ read'[q] \in Stage
         /\ pc'[q] \in Bound => status[on'[q]] # "unissued"
         /\ pc'[q] \in Carrying => seen'[q] = messages[on'[q]]
         /\ pc'[q] \in Talking => HasRoom(on'[q]) /\ TestsTaken(on'[q])
<1> USE DEF TypeOK, Label, Bound, Carrying, Talking
<1>1. ASSUME NEW s \in Session, IssueCheck(q, s)
      PROVE  pc'[q] = "insert" /\ on'[q] = s /\ read'[q] \in Stage
  BY <1>1 DEF IssueCheck
<1>2. ASSUME NEW s \in Session, ChatRead(q, s)
      PROVE  /\ pc'[q] = "gate" /\ on'[q] = s /\ seen'[q] = messages[s] /\ status[s] # "unissued"
             /\ HasRoom(s) /\ TestsTaken(s)
  BY <1>2 DEF ChatRead, Live
<1>3. ASSUME NEW s \in Session, FinishRead(q, s) \/ AgainRead(q, s)
      PROVE  /\ pc'[q] \in {"look", "reevaluate"} /\ on'[q] = s /\ seen'[q] = messages[s]
             /\ status[s] # "unissued"
  BY <1>3 DEF FinishRead, AgainRead
<1>4. ASSUME NEW s \in Session, WithdrawRead(q, s)
      PROVE  pc'[q] = "expire" /\ on'[q] = s /\ status[s] # "unissued"
  BY <1>4 DEF WithdrawRead
<1>5. CASE DecideRead(q)
  BY <1>5, InterviewAssumption DEF DecideRead, Nobody
<1>6. UNCHANGED <<candidate, rows, inputs, ledger, job, history>>
  BY DEF Begin, IssueCheck, ChatRead, FinishRead, AgainRead, WithdrawRead, DecideRead
<1> QED
  BY <1>1, <1>2, <1>3, <1>4, <1>5, <1>6 DEF Begin

\* A request that goes on keeps its session and what it has read of it.
LEMMA GoesOn ==
  ASSUME TypeOK, NEW q \in Request, Continue(q) \/ Die(q)
  PROVE  /\ pc'[q] \notin {"insert", "gate", "look", "reevaluate", "expire"}
         /\ pc'[q] \in Carrying => pc[q] \in Carrying /\ on'[q] = on[q] /\ seen'[q] = seen[q]
         /\ pc'[q] \in Talking => pc[q] \in Talking
         /\ pc'[q] = "start" => consent[on[q]]
         /\ pc'[q] = "stream" => pc[q] = "start"
         /\ pc'[q] = "mailed" => pc[q] = "insert" /\ read'[q] = read[q]
         /\ pc'[q] \in Owning => pc[q] \in Owning \/ (FinishClaim(q) /\ ClaimAllowed(on[q]))
<1> USE DEF TypeOK, Label, Carrying, Talking, Owning
<1>1. CASE IssueInsert(q) \/ IssueAdvance(q)
  BY <1>1 DEF IssueInsert, IssueAdvance
<1>6. CASE IssueMailed(q) \/ MailFails(q)
  BY <1>6 DEF IssueMailed, MailFails
<1>2. CASE ChatGate(q) \/ ChatStart(q) \/ ChatSave(q)
  BY <1>2 DEF ChatGate, ChatStart, ChatSave
<1>3. CASE FinishLook(q) \/ FinishClaim(q) \/ FinishPromote(q) \/ FinishSilent(q)
           \/ FinishEvaluate(q) \/ FinishFails(q) \/ FinishCharge(q)
  BY <1>3 DEF FinishLook, FinishClaim, FinishPromote, FinishSilent, FinishEvaluate,
       FinishFails, FinishCharge
<1>4. CASE AgainSave(q) \/ AgainCharge(q) \/ AgainFails(q)
  BY <1>4 DEF AgainSave, AgainCharge, AgainFails
<1>5. CASE WithdrawExpire(q) \/ WithdrawLook(q) \/ WithdrawDecide(q)
  BY <1>5 DEF WithdrawExpire, WithdrawLook, WithdrawDecide
<1>7. CASE DecideWrite(q) \/ Cleanup(q) \/ Die(q)
  BY <1>7 DEF DecideWrite, Cleanup, Die
<1> QED
  BY <1>1, <1>2, <1>3, <1>4, <1>5, <1>6, <1>7 DEF Continue

\* Only a turn that is saved changes a conversation.
LEMMA WordsMove ==
  ASSUME [Next]_vars
  PROVE  UNCHANGED messages \/ \E r \in Request : ChatSave(r)
<1>1. ASSUME NEW r \in Request, Begin(r) \/ Die(r) PROVE UNCHANGED messages
  BY <1>1 DEF Begin, IssueCheck, ChatRead, FinishRead, AgainRead, WithdrawRead, DecideRead, Die
<1>2. ASSUME NEW r \in Request, Continue(r) PROVE UNCHANGED messages \/ ChatSave(r)
  BY <1>2 DEF Continue, IssueInsert, IssueAdvance, IssueMailed, MailFails, ChatGate, ChatStart,
       FinishLook, FinishClaim, FinishPromote, FinishSilent, FinishEvaluate,
       FinishFails, FinishCharge, AgainSave, AgainCharge, AgainFails, WithdrawExpire,
       WithdrawLook, WithdrawDecide, DecideWrite, Cleanup
<1>3. ASSUME \/ \E s \in Session : Lapse(s) \/ GiveConsent(s) \/ Answer(s)
             \/ \E t \in Stage : MoveStage(t)
             \/ Reopen \/ CronStep \/ CronDies \/ UNCHANGED vars
      PROVE  UNCHANGED messages
  BY <1>3 DEF Lapse, GiveConsent, Answer, MoveStage, Reopen, CronStep, ExpirePending,
       ExpireStarted, SelectOpen, RejectExpired, CleanupExpired, CronDies, vars
<1> QED
  BY <1>1, <1>2, <1>3 DEF Next

LEMMA WordsGrow ==
  ASSUME IInv, [Next]_vars, NEW s \in Session
  PROVE  messages'[s] \in Seq(Nat) /\ IsPrefix(messages[s], messages'[s])
<1>0. messages[s] \in Seq(Nat) /\ messages \in [Session -> Seq(Nat)]
  BY DEF IInv, TypeOK
<1>1. ASSUME NEW r \in Request, ChatSave(r), ~UNCHANGED messages
      PROVE  messages'[s] \in Seq(Nat) /\ IsPrefix(messages[s], messages'[s])
  <2>1. /\ on[r] \in Session /\ saves[on[r]] + 1 \in Nat
        /\ messages' = [messages EXCEPT ![on[r]] = Append(@, saves[on[r]] + 1)]
    BY <1>1, SavedTurn
  <2>2. CASE on[r] = s
    BY <1>0, <2>1, <2>2, PrefixAppended
  <2>3. CASE on[r] # s
    BY <1>0, <2>1, <2>3, PrefixOfItself
  <2> QED
    BY <2>2, <2>3
<1>2. CASE UNCHANGED messages
  BY <1>0, <1>2, PrefixOfItself
<1> QED
  BY <1>1, <1>2, WordsMove

\* Only an evaluation changes a report, to what it has read.
LEMMA ReportsMove ==
  ASSUME IInv, [Next]_vars, NEW s \in Session
  PROVE  \/ report'[s] = report[s]
         \/ \E r \in Request : /\ pc[r] \in {"evaluate", "reevaluate"} /\ on[r] = s
                               /\ report'[s] = seen[r] /\ UNCHANGED messages
<1>1. ASSUME NEW r \in Request, Begin(r) \/ Die(r) PROVE UNCHANGED report
  BY <1>1 DEF Begin, IssueCheck, ChatRead, FinishRead, AgainRead, WithdrawRead, DecideRead, Die
<1>2. ASSUME NEW r \in Request, Continue(r)
      PROVE  UNCHANGED report \/ FinishSilent(r) \/ FinishEvaluate(r) \/ AgainSave(r)
  BY <1>2 DEF Continue, IssueInsert, IssueAdvance, IssueMailed, MailFails, ChatGate, ChatStart,
       ChatSave, FinishLook, FinishClaim, FinishPromote, FinishFails, FinishCharge, AgainCharge,
       AgainFails, WithdrawExpire, WithdrawLook, WithdrawDecide, DecideWrite, Cleanup
<1>3. ASSUME NEW r \in Request, FinishSilent(r) \/ FinishEvaluate(r) \/ AgainSave(r)
      PROVE  \/ report'[s] = report[s]
             \/ /\ pc[r] \in {"evaluate", "reevaluate"} /\ on[r] = s
                /\ report'[s] = seen[r] /\ UNCHANGED messages
  BY <1>3 DEF FinishSilent, FinishEvaluate, AgainSave, SaveReport, IInv, TypeOK
<1>4. ASSUME \/ \E t \in Session : Lapse(t) \/ GiveConsent(t) \/ Answer(t)
             \/ \E t \in Stage : MoveStage(t)
             \/ Reopen \/ CronStep \/ CronDies \/ UNCHANGED vars
      PROVE  UNCHANGED report
  BY <1>4 DEF Lapse, GiveConsent, Answer, MoveStage, Reopen, CronStep, ExpirePending,
       ExpireStarted, SelectOpen, RejectExpired, CleanupExpired, CronDies, vars
<1> QED
  BY <1>1, <1>2, <1>3, <1>4 DEF Next

\* Consent and answers are not taken back.
LEMMA InputsStay ==
  ASSUME TypeOK, [Next]_vars, NEW s \in Session
  PROVE  (consent[s] => consent'[s]) /\ (answered[s] => answered'[s])
<1>1. ASSUME NEW r \in Request, Begin(r) \/ Die(r) PROVE UNCHANGED inputs
  BY <1>1 DEF Begin, IssueCheck, ChatRead, FinishRead, AgainRead, WithdrawRead, DecideRead, Die
<1>2. ASSUME NEW r \in Request, Continue(r) PROVE UNCHANGED inputs
  BY <1>2 DEF Continue, IssueInsert, IssueAdvance, IssueMailed, MailFails, ChatGate, ChatStart,
       ChatSave, FinishLook, FinishClaim, FinishPromote, FinishSilent, FinishEvaluate,
       FinishFails, FinishCharge, AgainSave, AgainCharge, AgainFails, WithdrawExpire,
       WithdrawLook, WithdrawDecide, DecideWrite, Cleanup
<1>3. ASSUME NEW t \in Session, Lapse(t) \/ GiveConsent(t) \/ Answer(t)
      PROVE  (consent[s] => consent'[s]) /\ (answered[s] => answered'[s])
  BY <1>3 DEF Lapse, GiveConsent, Answer, TypeOK
<1>4. ASSUME \/ \E t \in Stage : MoveStage(t)
             \/ Reopen \/ CronStep \/ CronDies \/ UNCHANGED vars
      PROVE  UNCHANGED inputs
  BY <1>4 DEF MoveStage, Reopen, CronStep, ExpirePending,
       ExpireStarted, SelectOpen, RejectExpired, CleanupExpired, CronDies, vars
<1> QED
  BY <1>1, <1>2, <1>3, <1>4 DEF Next

\* The steps that issue, complete and take back a session.
LEMMA StatusMoves ==
  ASSUME IInv, [Next]_vars, NEW s \in Session
  PROVE  \/ status'[s] = status[s] /\ revived'[s] = revived[s]
         \/ \E r \in Request : IssueInsert(r) /\ on[r] = s
         \/ \E r \in Request : FinishClaim(r) /\ on[r] = s
         \/ /\ status[s] # "unissued" /\ status'[s] # "unissued" /\ status'[s] # "completed"
            /\ revived'[s] = IF status[s] = "completed" THEN revived[s] + 1 ELSE revived[s]
<1>0. status \in [Session -> Status] /\ revived \in [Session -> Nat]
  BY DEF IInv, TypeOK
<1>1. ASSUME NEW r \in Request, Begin(r) \/ Die(r) PROVE UNCHANGED <<status, revived>>
  BY <1>1 DEF Begin, IssueCheck, ChatRead, FinishRead, AgainRead, WithdrawRead, DecideRead, Die
<1>2. ASSUME NEW r \in Request, Continue(r)
      PROVE  \/ UNCHANGED <<status, revived>> \/ IssueInsert(r) \/ FinishClaim(r)
             \/ ChatStart(r) \/ WithdrawExpire(r) \/ Cleanup(r)
  BY <1>2 DEF Continue, IssueAdvance, IssueMailed, MailFails, ChatGate, ChatSave, FinishLook,
       FinishPromote, FinishSilent, FinishEvaluate, FinishFails, FinishCharge, AgainSave,
       AgainCharge, AgainFails, WithdrawLook, WithdrawDecide, DecideWrite
<1>3. ASSUME NEW r \in Request, IssueInsert(r) \/ FinishClaim(r), on[r] # s
      PROVE  status'[s] = status[s] /\ revived'[s] = revived[s]
  BY <1>0, <1>3 DEF IssueInsert, FinishClaim
<1>4. ASSUME NEW r \in Request, ChatStart(r) \/ WithdrawExpire(r)
      PROVE  \/ status'[s] = status[s] /\ revived'[s] = revived[s]
             \/ /\ status[s] # "unissued" /\ status'[s] # "unissued" /\ status'[s] # "completed"
                /\ revived'[s] = IF status[s] = "completed" THEN revived[s] + 1 ELSE revived[s]
  <2>1. status[on[r]] # "unissued"
    BY <1>4 DEF ChatStart, WithdrawExpire, IInv, Links, Bound, Carrying, Talking
  <2> QED
    BY <1>0, <1>4, <2>1 DEF ChatStart, WithdrawExpire, TakesBack
<1>5. ASSUME \/ CloseLinks /\ UNCHANGED revived
             \/ ExpirePending \/ ExpireStarted
      PROVE  \/ status'[s] = status[s] /\ revived'[s] = revived[s]
             \/ /\ status[s] # "unissued" /\ status'[s] # "unissued" /\ status'[s] # "completed"
                /\ revived'[s] = IF status[s] = "completed" THEN revived[s] + 1 ELSE revived[s]
  BY <1>0, <1>5 DEF CloseLinks, Live, ExpirePending, ExpireStarted, Overdue
<1>6. ASSUME \/ \E t \in Session : Lapse(t) \/ GiveConsent(t) \/ Answer(t)
             \/ \E t \in Stage : MoveStage(t)
             \/ Reopen \/ SelectOpen \/ RejectExpired \/ CronDies \/ UNCHANGED vars
      PROVE  UNCHANGED <<status, revived>>
  BY <1>6 DEF Lapse, GiveConsent, Answer, MoveStage, Reopen, SelectOpen, RejectExpired, CronDies,
       vars
<1>7. CleanupExpired => CloseLinks /\ UNCHANGED revived
  BY DEF CleanupExpired
<1>8. ASSUME NEW r \in Request, Cleanup(r) PROVE CloseLinks /\ UNCHANGED revived
  BY <1>8 DEF Cleanup
<1> QED
  BY <1>1, <1>2, <1>3, <1>4, <1>5, <1>6, <1>7, <1>8 DEF Next, CronStep

\* A link that is issued stays issued, and it is issued once.
LEMMA IssuedStays ==
  ASSUME IInv, [Next]_vars, NEW s \in Session
  PROVE  /\ status[s] # "unissued" => status'[s] # "unissued"
         /\ status[s] = "unissued" /\ status'[s] # "unissued"
               => \E r \in Request : IssueInsert(r) /\ on[r] = s
<1>1. ASSUME NEW r \in Request, IssueInsert(r), on[r] = s PROVE status'[s] = "pending"
  BY <1>1 DEF IssueInsert, IInv, TypeOK
<1>2. ASSUME NEW r \in Request, FinishClaim(r), on[r] = s
      PROVE  status[s] # "unissued" /\ status'[s] # "unissued"
  BY <1>2 DEF FinishClaim, IInv, TypeOK, Links, Bound, Carrying
<1> QED
  BY <1>1, <1>2, StatusMoves

-----------------------------------------------------------------------------
(* The parts of the invariant.                                             *)

LEMMA LinksStep ==
  ASSUME IInv, [Next]_vars
  PROVE  Links'
<1>0. TypeOK
  BY DEF IInv
<1>1. ASSUME NEW q \in Request, pc'[q] \in {"insert", "mailed"} PROVE read'[q] \in Stage
  <2>1. CASE ~Moves(q)
    BY <1>0, <1>1, <2>1, LocalsAreOwn DEF IInv, Links
  <2>2. CASE Begin(q)
    BY <1>0, <1>1, <2>2, Begins
  <2>3. CASE Continue(q) \/ Die(q)
    BY <1>0, <1>1, <2>3, GoesOn DEF IInv, Links
  <2> QED
    BY <2>1, <2>2, <2>3 DEF Moves
<1>2. ASSUME NEW q \in Request, pc'[q] \in Bound PROVE status'[on'[q]] # "unissued"
  <2>0. on[q] \in Session
    BY <1>0 DEF TypeOK
  <2>1. CASE ~Moves(q)
    BY <1>0, <1>2, <2>0, <2>1, LocalsAreOwn, IssuedStays DEF IInv, Links
  <2>2. CASE Begin(q)
    BY <1>0, <1>2, <2>2, Begins
  <2>3. CASE Continue(q) \/ Die(q)
    <3>1. pc[q] \in Bound /\ on'[q] = on[q]
      BY <1>0, <1>2, <2>3, GoesOn DEF Bound, Carrying, Talking
    <3> QED
      BY <2>0, <3>1, IssuedStays DEF IInv, Links
  <2> QED
    BY <2>1, <2>2, <2>3 DEF Moves
<1>3. ASSUME NEW q \in Request, pc'[q] = "insert"
      PROVE  \/ pc[q] = "insert" /\ on'[q] = on[q] /\ ~Moves(q)
             \/ \E s \in Session : IssueCheck(q, s) /\ on'[q] = s
  <2>1. CASE ~Moves(q)
    BY <1>0, <1>3, <2>1, LocalsAreOwn
  <2>2. CASE Begin(q)
    BY <1>0, <1>3, <2>2, Begins
  <2>3. CASE Continue(q) \/ Die(q)
    BY <1>0, <1>3, <2>3, GoesOn
  <2> QED
    BY <2>1, <2>2, <2>3 DEF Moves
<1>4. ASSUME NEW q \in Request, NEW s \in Session, IssueCheck(q, s)
      PROVE  /\ status'[s] = "unissued"
             /\ \A p \in Request : pc[p] = "insert" => on[p] # s
             /\ \A p \in Request : p # q => pc'[p] = pc[p]
  BY <1>0, <1>4 DEF IssueCheck, TypeOK
<1>5. ASSUME NEW q \in Request, pc'[q] = "insert" PROVE status'[on'[q]] = "unissued"
  <2>1. CASE pc[q] = "insert" /\ on'[q] = on[q] /\ ~Moves(q)
    <3>1. status[on[q]] = "unissued" /\ on[q] \in Session
      BY <1>0, <2>1 DEF IInv, Links, TypeOK
    <3>2. ASSUME NEW r \in Request, IssueInsert(r), on[r] = on[q] PROVE FALSE
      BY <2>1, <3>2 DEF IInv, Links, IssueInsert, Moves, Continue
    <3> QED
      BY <2>1, <3>1, <3>2, IssuedStays
  <2>2. CASE \E s \in Session : IssueCheck(q, s) /\ on'[q] = s
    BY <1>4, <2>2
  <2> QED
    BY <1>3, <1>5, <2>1, <2>2
<1>6. ASSUME NEW q \in Request, NEW p \in Request, pc'[q] = "insert", pc'[p] = "insert",
             on'[p] = on'[q]
      PROVE  p = q
  <2>1. CASE (pc[q] = "insert" /\ on'[q] = on[q]) /\ (pc[p] = "insert" /\ on'[p] = on[p])
    BY <1>6, <2>1 DEF IInv, Links
  <2>2. CASE \E s \in Session : IssueCheck(q, s) /\ on'[q] = s
    <3>1. p # q => pc[p] = "insert" /\ on'[p] = on[p]
      BY <1>3, <1>4, <1>6, <2>2, "idle" # "insert" DEF IssueCheck
    <3> QED
      BY <1>4, <1>6, <2>2, <3>1
  <2>3. CASE \E s \in Session : IssueCheck(p, s) /\ on'[p] = s
    <3>1. p # q => pc[q] = "insert" /\ on'[q] = on[q]
      BY <1>3, <1>4, <1>6, <2>3, "idle" # "insert" DEF IssueCheck
    <3> QED
      BY <1>4, <1>6, <2>3, <3>1
  <2> QED
    BY <1>3, <1>6, <2>1, <2>2, <2>3
<1> QED
  BY <1>1, <1>2, <1>5, <1>6 DEF Links

LEMMA ReadingsStep ==
  ASSUME IInv, [Next]_vars
  PROVE  Readings'
<1>0. TypeOK /\ TypeOK'
  BY TypeStep DEF IInv
<1> SUFFICES ASSUME NEW q \in Request
             PROVE  /\ pc'[q] \in Carrying => IsPrefix(seen'[q], messages'[on'[q]])
                    /\ pc'[q] \in Talking => Len(seen'[q]) < MaxTurns
  BY DEF Readings
<1>1. on[q] \in Session /\ seen[q] \in Seq(Nat) /\ messages[on[q]] \in Seq(Nat)
  BY <1>0 DEF TypeOK
<1>2. IsPrefix(seen[q], messages[on[q]]) => IsPrefix(seen[q], messages'[on[q]])
  BY <1>1, WordsGrow, PrefixExtends
<1>3. CASE ~Moves(q)
  BY <1>0, <1>2, <1>3, LocalsAreOwn DEF IInv, Readings
<1>4. CASE Begin(q)
  <2>1. UNCHANGED messages /\ on'[q] \in Session /\ messages[on'[q]] \in Seq(Nat)
    BY <1>0, <1>4, Begins DEF TypeOK
  <2>2. pc'[q] \in Carrying => IsPrefix(seen'[q], messages'[on'[q]])
    BY <1>0, <1>4, <2>1, Begins, PrefixOfItself
  <2>3. pc'[q] \in Talking => Len(seen'[q]) < MaxTurns
    BY <1>0, <1>4, <2>1, Begins DEF HasRoom, Carrying
  <2> QED
    BY <2>2, <2>3
<1>5. CASE Continue(q) \/ Die(q)
  <2>1. pc'[q] \in Carrying => pc[q] \in Carrying /\ on'[q] = on[q] /\ seen'[q] = seen[q]
    BY <1>0, <1>5, GoesOn
  <2>2. pc'[q] \in Talking => pc[q] \in Talking
    BY <1>0, <1>5, GoesOn
  <2> QED
    BY <1>2, <2>1, <2>2 DEF IInv, Readings, Carrying
<1> QED
  BY <1>3, <1>4, <1>5 DEF Moves

LEMMA GatesStep ==
  ASSUME IInv, [Next]_vars
  PROVE  Gates'
<1>0. TypeOK
  BY DEF IInv
<1>1. ASSUME NEW s \in Session, messages'[s] # <<>>
      PROVE  consent'[s] /\ (Tested => answered'[s])
  <2>1. CASE messages[s] # <<>>
    BY <1>0, <2>1, InputsStay DEF IInv, Gates
  <2>2. CASE messages[s] = <<>>
    <3>1. PICK r \in Request : ChatSave(r)
      BY <1>1, <2>2, WordsMove
    <3>2. on[r] = s /\ seen[r] = <<>> /\ pc[r] = "stream"
      BY <1>0, <1>1, <2>2, <3>1, SavedTurn DEF TypeOK
    <3>3. consent[s] /\ (Tested => answered[s])
      BY <3>2 DEF IInv, Gates, Talking
    <3> QED
      BY <1>0, <3>3, InputsStay
  <2> QED
    BY <2>1, <2>2
<1>2. ASSUME NEW q \in Request
      PROVE  /\ pc'[q] \in {"start", "stream"} => consent'[on'[q]]
             /\ pc'[q] \in Talking => (Tested /\ seen'[q] = <<>> => answered'[on'[q]])
  <2>0. on[q] \in Session
    BY <1>0 DEF TypeOK
  <2>1. CASE ~Moves(q)
    BY <1>0, <2>0, <2>1, LocalsAreOwn, InputsStay DEF IInv, Gates
  <2>2. CASE Begin(q)
    BY <1>0, <2>2, Begins DEF TestsTaken, Carrying
  <2>3. CASE Continue(q) \/ Die(q)
    <3>1. pc'[q] \in Talking => pc[q] \in Talking /\ on'[q] = on[q] /\ seen'[q] = seen[q]
      BY <1>0, <2>3, GoesOn DEF Carrying
    <3>2. pc'[q] \in {"start", "stream"} => consent[on[q]] /\ on'[q] = on[q]
      BY <1>0, <2>3, <3>1, GoesOn DEF Talking, IInv, Gates
    <3> QED
      BY <1>0, <2>0, <3>1, <3>2, InputsStay DEF IInv, Gates
  <2> QED
    BY <2>1, <2>2, <2>3 DEF Moves
<1> QED
  BY <1>1, <1>2 DEF Gates

LEMMA ReportsStep ==
  ASSUME IInv, [Next]_vars
  PROVE  Reports'
<1> SUFFICES ASSUME NEW s \in Session PROVE IsPrefix(report'[s], messages'[s])
  BY DEF Reports
<1>1. report[s] \in Seq(Nat) /\ messages[s] \in Seq(Nat) /\ messages'[s] \in Seq(Nat)
      /\ IsPrefix(messages[s], messages'[s])
  BY WordsGrow DEF IInv, TypeOK
<1>2. CASE report'[s] = report[s]
  BY <1>1, <1>2, PrefixExtends DEF IInv, Reports
<1>3. ASSUME NEW r \in Request, pc[r] \in {"evaluate", "reevaluate"}, on[r] = s,
             report'[s] = seen[r], UNCHANGED messages
      PROVE  IsPrefix(report'[s], messages'[s])
  BY <1>3 DEF IInv, Readings, Carrying
<1> QED
  BY <1>2, <1>3, ReportsMove

LEMMA IInvInit == Init => IInv
<1> SUFFICES ASSUME Init PROVE IInv
  OBVIOUS
<1>0. <<>> \in Seq(Nat) /\ Nobody \in Session /\ Len(<<>>) = 0
  BY InterviewAssumption DEF Nobody
<1>1. TypeOK
  <2>1. /\ "screened" \in Stage /\ "none" \in Outcome /\ "unissued" \in Status /\ "idle" \in Label
        /\ "idle" \in CronLabel /\ 0 <= MaxTurns
    BY InterviewAssumption DEF Stage, Outcome, Status, Label, CronLabel
  <2> QED
    BY <1>0, <2>1 DEF Init, TypeOK
<1>2. Links /\ Readings /\ Gates
  BY DEF Init, Links, Readings, Gates, Bound, Carrying, Talking
<1>3. Reports
  BY <1>0, PrefixOfItself DEF Init, Reports
<1> QED
  BY <1>1, <1>2, <1>3 DEF IInv

LEMMA IInvStep == IInv /\ [Next]_vars => IInv'
BY TypeStep, LinksStep, ReadingsStep, GatesStep, ReportsStep DEF IInv

\* What requests know of links, conversations and consent, in every reachable
\* state.
THEOREM InductiveInvariant == Spec => []IInv
BY IInvInit, IInvStep, PTL DEF Spec

\* Every variable keeps its type, and no conversation is longer than its limit,
\* however many turns are answered at once.
THEOREM TypeCorrect == Spec => []TypeOK
<1>1. IInv => TypeOK
  BY DEF IInv
<1> QED
  BY <1>1, InductiveInvariant, PTL

\* Whatever is sent, retried or evaluated at once, no turn that was saved is ever
\* lost or changed.
THEOREM TurnsAreKept == Spec => ConversationGrows
<1>1. IInv /\ [Next]_vars => [\A s \in Session : IsPrefix(messages[s], messages'[s])]_vars
  BY WordsGrow
<1> QED
  BY <1>1, InductiveInvariant, PTL DEF Spec, ConversationGrows

\* An evaluation is about what was said in its interview, by an applicant who had
\* consented and, where there are tests, taken them.
THEOREM ReportsAreHeard == Spec => []ReportOfConversation
<1>1. IInv => ReportOfConversation
  <2> SUFFICES ASSUME IInv, NEW s \in Session, report[s] # <<>>
               PROVE  /\ IsPrefix(report[s], messages[s])
                      /\ consent[s] /\ (Tested => answered[s])
    BY DEF ReportOfConversation
  <2>1. report[s] \in Seq(Nat) /\ IsPrefix(report[s], messages[s])
    BY DEF IInv, TypeOK, Reports
  <2>2. messages[s] # <<>>
    BY <2>1, PrefixOfItself
  <2> QED
    BY <2>1, <2>2 DEF IInv, Gates
<1> QED
  BY <1>1, InductiveInvariant, PTL

-----------------------------------------------------------------------------
(* The charge of a completion.                                             *)

LEMMA OwnersCount ==
  ASSUME NEW S \in SUBSET Request
  PROVE  IsFiniteSet(S) /\ Cardinality(S) \in Nat
BY InterviewAssumption, FS_Subset, FS_CardinalityType

\* Only the owner of an evaluation charges for it.
LEMMA ChargesMove ==
  ASSUME TypeOK, [Next]_vars
  PROVE  UNCHANGED automatic \/ \E r \in Request : FinishCharge(r)
<1>1. ASSUME NEW r \in Request, Begin(r) \/ Die(r) PROVE UNCHANGED automatic
  BY <1>1 DEF Begin, IssueCheck, ChatRead, FinishRead, AgainRead, WithdrawRead, DecideRead, Die
<1>2. ASSUME NEW r \in Request, Continue(r) PROVE UNCHANGED automatic \/ FinishCharge(r)
  BY <1>2 DEF Continue, IssueInsert, IssueAdvance, IssueMailed, MailFails, ChatGate, ChatStart,
       ChatSave, FinishLook, FinishClaim, FinishPromote, FinishSilent, FinishEvaluate,
       FinishFails, AgainSave, AgainCharge, AgainFails, WithdrawExpire, WithdrawLook,
       WithdrawDecide, DecideWrite, Cleanup
<1>3. ASSUME \/ \E s \in Session : Lapse(s) \/ GiveConsent(s) \/ Answer(s)
             \/ \E t \in Stage : MoveStage(t)
             \/ Reopen \/ CronStep \/ CronDies \/ UNCHANGED vars
      PROVE  UNCHANGED automatic
  BY <1>3 DEF Lapse, GiveConsent, Answer, MoveStage, Reopen, CronStep, ExpirePending,
       ExpireStarted, SelectOpen, RejectExpired, CleanupExpired, CronDies, vars
<1> QED
  BY <1>1, <1>2, <1>3 DEF Next

\* Owners are made by the claim of a session that is open.
LEMMA OwnersMove ==
  ASSUME TypeOK, [Next]_vars, NEW s \in Session, NEW q \in Request, q \in Owners(s)'
  PROVE  q \in Owners(s) \/ (FinishClaim(q) /\ on[q] = s /\ status[s] # "completed")
<1>1. pc'[q] \in Owning /\ on'[q] = s
  BY DEF Owners
<1>2. CASE ~Moves(q)
  BY <1>1, <1>2, LocalsAreOwn DEF Owners
<1>3. CASE Begin(q)
  BY <1>1, <1>3, Begins DEF Owning
<1>4. CASE Continue(q) \/ Die(q)
  BY <1>1, <1>4, GoesOn DEF Owners, Owning, Carrying, ClaimAllowed
<1> QED
  BY <1>2, <1>3, <1>4 DEF Moves

LEMMA CompletionsStep ==
  ASSUME IInv, Completions, [Next]_vars
  PROVE  Completions'
<1> SUFFICES ASSUME NEW s \in Session
             PROVE  automatic'[s] + Cardinality(Owners(s)') + Open(s)' <= 1 + revived'[s]
  BY DEF Completions
<1>0. TypeOK /\ TypeOK'
  BY TypeStep DEF IInv
<1>1. /\ automatic[s] \in Nat /\ automatic'[s] \in Nat
      /\ revived[s] \in Nat /\ revived'[s] \in Nat /\ Open(s) \in {0, 1} /\ Open(s)' \in {0, 1}
  BY <1>0 DEF TypeOK, Open
<1>2. Owners(s) \in SUBSET Request /\ Owners(s)' \in SUBSET Request
  BY DEF Owners
<1>3. /\ IsFiniteSet(Owners(s)) /\ Cardinality(Owners(s)) \in Nat
      /\ IsFiniteSet(Owners(s)') /\ Cardinality(Owners(s)') \in Nat
  BY <1>2, OwnersCount
<1>4. automatic[s] + Cardinality(Owners(s)) + Open(s) <= 1 + revived[s]
  BY DEF Completions
<1>5. CASE \E r \in Request : FinishClaim(r) /\ on[r] = s /\ status[s] # "completed"
  <2>1. PICK r \in Request : FinishClaim(r) /\ on[r] = s /\ status[s] # "completed"
    BY <1>5
  <2>2. Open(s) = 1 /\ Open(s)' = 0 /\ UNCHANGED <<automatic, revived>>
    BY <1>0, <2>1 DEF FinishClaim, ClaimAllowed, Open, TypeOK
  <2>3. Owners(s)' \subseteq Owners(s) \cup {r}
    <3>1. ASSUME NEW q \in Request, FinishClaim(q), on[q] = s PROVE q = r
      BY <1>0, <2>1, <3>1 DEF FinishClaim, TypeOK, ClaimAllowed
    <3> QED
      BY <1>0, <1>2, <3>1, OwnersMove
  <2>4. Cardinality(Owners(s)') <= Cardinality(Owners(s)) + 1
    <3>1. IsFiniteSet(Owners(s) \cup {r})
          /\ Cardinality(Owners(s) \cup {r}) <= Cardinality(Owners(s)) + 1
      <4> DEFINE S == Owners(s)
      <4>1. IsFiniteSet(S) /\ Cardinality(S) \in Nat
        BY <1>3
      <4> HIDE DEF S
      <4>3. Cardinality(S \cup {r}) = IF r \in S THEN Cardinality(S) ELSE Cardinality(S) + 1
        BY <4>1, FS_AddElement
      <4>2. IsFiniteSet(S \cup {r}) /\ Cardinality(S \cup {r}) <= Cardinality(S) + 1
        BY <4>1, <4>3, FS_AddElement
      <4> QED
        BY <4>2 DEF S
    <3> QED
      BY <1>3, <2>3, <3>1, FS_Subset, FS_CardinalityType
  <2> QED
    BY <1>1, <1>3, <1>4, <2>2, <2>4
<1>6. CASE ~\E r \in Request : FinishClaim(r) /\ on[r] = s /\ status[s] # "completed"
  <2>1. Owners(s)' \subseteq Owners(s)
    BY <1>0, <1>2, <1>6, OwnersMove
  <2>2. Cardinality(Owners(s)') <= Cardinality(Owners(s))
    BY <1>3, <2>1, FS_Subset
  <2>3. Open(s)' - Open(s) <= revived'[s] - revived[s]
    <3>1. CASE status'[s] = status[s] /\ revived'[s] = revived[s]
      BY <1>1, <3>1 DEF Open
    <3>2. ASSUME NEW r \in Request, IssueInsert(r), on[r] = s
          PROVE  Open(s)' - Open(s) <= revived'[s] - revived[s]
      BY <1>1, <3>2 DEF IssueInsert, Open, IInv, Links
    <3>3. ASSUME NEW r \in Request, FinishClaim(r), on[r] = s
          PROVE  Open(s)' - Open(s) <= revived'[s] - revived[s]
      BY <1>1, <1>6, <3>3 DEF FinishClaim, ClaimAllowed, Open
    <3>4. CASE /\ status'[s] # "completed"
               /\ revived'[s] = IF status[s] = "completed" THEN revived[s] + 1 ELSE revived[s]
      BY <1>1, <3>4 DEF Open
    <3> QED
      BY <3>1, <3>2, <3>3, <3>4, StatusMoves
  <2>4. CASE automatic'[s] = automatic[s]
    BY <1>1, <1>3, <1>4, <2>2, <2>3, <2>4
  <2>5. CASE automatic'[s] # automatic[s]
    <3>1. PICK r \in Request : FinishCharge(r)
      BY <1>0, <2>5, ChargesMove
    <3>2. on[r] = s /\ r \in Owners(s) /\ automatic'[s] = automatic[s] + 1
      BY <1>0, <2>5, <3>1 DEF FinishCharge, TypeOK, Owners, Owning
    <3>3. r \notin Owners(s)'
      BY <1>0, <3>1 DEF FinishCharge, TypeOK, Owners, Owning
    <3>4. /\ IsFiniteSet(Owners(s) \ {r})
          /\ Cardinality(Owners(s) \ {r}) = Cardinality(Owners(s)) - 1
      BY <1>3, <3>2, FS_RemoveElement
    <3>5. Cardinality(Owners(s)') <= Cardinality(Owners(s)) - 1
      BY <2>1, <3>3, <3>4, FS_Subset
    <3> QED
      BY <1>1, <1>3, <1>4, <2>3, <3>2, <3>5
  <2> QED
    BY <2>4, <2>5
<1> QED
  BY <1>5, <1>6

LEMMA CompletionsInit == Init => Completions
<1> SUFFICES ASSUME Init, NEW s \in Session
             PROVE  automatic[s] + Cardinality(Owners(s)) + Open(s) <= 1 + revived[s]
  BY DEF Completions
<1>1. Owners(s) = {}
  BY DEF Init, Owners, Owning
<1> QED
  BY <1>1, FS_EmptySet DEF Init, Open

\* However many requests complete an interview, it is charged once for every time
\* it was open: once, and once more whenever a request that had read the session
\* before took the completed one back.
THEOREM CompletionIsChargedOnce == Spec => []AutomaticOnce
<1>1. IInv /\ Completions => AutomaticOnce
  <2> SUFFICES ASSUME IInv, Completions, NEW s \in Session
               PROVE  automatic[s] <= 1 + revived[s]
    BY DEF AutomaticOnce
  <2>1. Owners(s) \in SUBSET Request
    BY DEF Owners
  <2>2. Cardinality(Owners(s)) \in Nat
    BY <2>1, OwnersCount
  <2>3. automatic[s] \in Nat /\ revived[s] \in Nat /\ Open(s) \in {0, 1}
    BY DEF IInv, TypeOK, Open
  <2>4. automatic[s] + Cardinality(Owners(s)) + Open(s) <= 1 + revived[s]
    BY DEF Completions
  <2> QED
    BY <2>2, <2>3, <2>4
<1>2. IInv /\ Completions /\ [Next]_vars => Completions'
  BY CompletionsStep
<1> QED
  BY <1>1, <1>2, CompletionsInit, InductiveInvariant, PTL DEF Spec
=============================================================================
