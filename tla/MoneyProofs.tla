---------------------------- MODULE MoneyProofs ----------------------------
(***************************************************************************)
(* Safety of TokenLedger for every value of its constants: the keys of the *)
(* ledger are unique, its balances chain, a refund gives back a charge and *)
(* at most one call is told that it wrote a row.  And of PaymentOrders,    *)
(* whose grants are rows of that ledger, for any number of pages, crons,   *)
(* operators and administrators, killed anywhere.                          *)
(***************************************************************************)
EXTENDS TokenLedger, PaymentOrders, FiniteSetTheorems, TLAPS

USE DEF rows, signals, request, locals

-----------------------------------------------------------------------------
(* What a step does to the rows. *)

\* The number of earlier charges is a number.
LEMMA RoundIsNat ==
  ASSUME TypeOK, NEW r PROVE Cardinality(ChargesOf(r)) \in Nat
<1>1. Len(ledger) \in Nat
  BY DEF TypeOK
<1>2. IsFiniteSet(1..Len(ledger))
  BY <1>1, FS_Interval
<1>3. ChargesOf(r) \subseteq 1..Len(ledger)
  BY DEF ChargesOf
<1> QED
  BY <1>2, <1>3, FS_Subset, FS_CardinalityType

\* A commit appends one row, whose balance is the new wallet.
LEMMA CommitAppends ==
  ASSUME TypeOK, NEW w \in Call, Commit(w)
  PROVE  /\ Row(w) \in LedgerRow
         /\ ledger' \in Seq(LedgerRow) /\ wallet' \in Int
         /\ Len(ledger') = Len(ledger) + 1
         /\ \A i \in 1..Len(ledger) : ledger'[i] = ledger[i]
         /\ ledger'[Len(ledger) + 1] = Row(w)
         /\ wallet' = Row(w).after
<1>1. Reason(w) \in {"feature", "refund", "grant", "adjust"}
  BY DEF TypeOK, Reason, Operation
<1>2. wallet + amount[w] \in Int /\ amount[w] \in Int
  BY DEF TypeOK
<1>3. Row(w) \in LedgerRow
  BY <1>1, <1>2 DEF TypeOK, Row, LedgerRow
<1>4. ledger \in Seq(LedgerRow) /\ ledger' = Append(ledger, Row(w))
  BY DEF TypeOK, Commit
<1>5. wallet' = Row(w).after /\ wallet' \in Int
  BY <1>2 DEF Commit, Row
<1> HIDE DEF Row, LedgerRow
<1> QED
  BY <1>3, <1>4, <1>5

\* A step leaves the rows alone or commits one row whose key was free.
LEMMA RowsStep ==
  ASSUME [Next]_vars
  PROVE  \/ UNCHANGED <<ledger, wallet>>
         \/ \E w \in Call : at[w] = "write" /\ ~Taken(w) /\ Commit(w)
BY DEF Next, vars, CallStep, Begin, CountCharges, FindExisting, FindCharge, FindRefund,
       ReadWallet, OpenWallet, Write, WriteRefused, WriteThrows

-----------------------------------------------------------------------------
(* Types. *)

\* A collision keeps the fields it writes typed.
LEMMA AlreadyTypes ==
  ASSUME TypeOK, NEW w \in Call, Already(w)
  PROVE  /\ at' \in [Call -> Step] /\ result' \in [Call -> Result]
         /\ tries' \in [Call -> Nat]
<1> USE DEF TypeOK, Goto, Return, Step, Result
<1>1. CASE op[w] = "repeat" /\ TriesLeft(w)
  <2>1. at' = [at EXCEPT ![w] = "count"] /\ result' = result
    BY <1>1 DEF Already
  <2>2. tries' = [tries EXCEPT ![w] = tries[w] + 1]
    BY <1>1 DEF Already
  <2> QED
    BY <2>1, <2>2
<1>2. CASE ~(op[w] = "repeat" /\ TriesLeft(w))
  <2>1. at' = [at EXCEPT ![w] = "end"] /\ result' = [result EXCEPT ![w] = "already"]
    BY <1>2 DEF Already
  <2>2. tries' = tries
    <3>1. tries' = [tries EXCEPT ![w] = tries[w]]
      BY <1>2 DEF Already
    <3> QED
      BY <3>1
  <2> QED
    BY <2>1, <2>2
<1> QED
  BY <1>1, <1>2

LEMMA TypeStep ==
  ASSUME TypeOK, [Next]_vars PROVE TypeOK'
<1> USE LedgerAssumption DEF TypeOK, Goto, Return, Step, Result, Operation
<1>1. ASSUME NEW w \in Call, NEW o \in Operations, NEW r \in Ref, Begin(w, o, r) PROVE TypeOK'
  <2>1. at' \in [Call -> Step]
    BY <1>1 DEF Begin, First
  <2>2. amount' \in [Call -> Int]
    BY <1>1 DEF Begin
  <2> QED
    BY <1>1, <2>1, <2>2 DEF Begin
<1>2. ASSUME NEW w \in Call, CountCharges(w) PROVE TypeOK'
  BY <1>2, RoundIsNat DEF CountCharges
<1>3. ASSUME NEW w \in Call, FindExisting(w) PROVE TypeOK'
  <2>1. amount' \in [Call -> Int]
    BY <1>3 DEF FindExisting
  <2>2. /\ at' \in [Call -> Step] /\ result' \in [Call -> Result]
        /\ tries' \in [Call -> Nat]
    BY <1>3, AlreadyTypes DEF FindExisting
  <2> QED
    BY <1>3, <2>1, <2>2 DEF FindExisting
<1>4. ASSUME NEW w \in Call, FindCharge(w) PROVE TypeOK'
  <2>1. amount' \in [Call -> Int]
    <3>1. ASSUME NEW i \in 1..Len(ledger) PROVE -ledger[i].delta \in Int
      <4>1. ledger[i] \in LedgerRow
        OBVIOUS
      <4> QED
        BY <4>1 DEF LedgerRow
    <3> QED
      BY <1>4, <3>1 DEF FindCharge
  <2> QED
    BY <1>4, <2>1 DEF FindCharge
<1>5. ASSUME NEW w \in Call, FindRefund(w) PROVE TypeOK'
  BY <1>5 DEF FindRefund
<1>6. ASSUME NEW w \in Call, ReadWallet(w) PROVE TypeOK'
  BY <1>6 DEF ReadWallet, AfterWallet
<1>7. ASSUME NEW w \in Call, OpenWallet(w) PROVE TypeOK'
  BY <1>7 DEF OpenWallet, AfterWallet
<1>8. ASSUME NEW w \in Call, Write(w) PROVE TypeOK'
  <2>1. ledger' \in Seq(LedgerRow) /\ wallet' \in Int
    BY <1>8, CommitAppends DEF Write
  <2>2. drops' \in Nat /\ notices' \in Nat /\ opened' \in BOOLEAN
    BY <1>8 DEF Write, Commit
  <2> QED
    BY <1>8, <2>1, <2>2 DEF Write
<1>9. ASSUME NEW w \in Call, WriteRefused(w) PROVE TypeOK'
  BY <1>9, AlreadyTypes DEF WriteRefused
<1>10. ASSUME NEW w \in Call, WriteThrows(w) PROVE TypeOK'
  <2>1. ledger' \in Seq(LedgerRow) /\ wallet' \in Int
    BY <1>10, CommitAppends DEF WriteThrows
  <2>2. drops' \in Nat /\ notices' \in Nat /\ opened' \in BOOLEAN
    BY <1>10 DEF WriteThrows, Commit
  <2> QED
    BY <1>10, <2>1, <2>2 DEF WriteThrows
<1>11. CASE UNCHANGED vars
  BY <1>11 DEF vars
<1> QED
  BY <1>1, <1>2, <1>3, <1>4, <1>5, <1>6, <1>7, <1>8, <1>9, <1>10, <1>11
     DEF Next, CallStep

\* TypeOK: every variable keeps its type.
THEOREM TypeCorrect == Spec => []TypeOK
<1>1. Init => TypeOK
  <2> SUFFICES ASSUME Init PROVE TypeOK
    OBVIOUS
  <2>1. ledger \in Seq(LedgerRow)
    BY DEF Init
  <2>2. /\ at \in [Call -> Step] /\ op \in [Call -> Operation]
        /\ result \in [Call -> Result] /\ ref \in [Call -> Ref \cup {NoRef}]
    BY DEF Init, Step, Operation, Result
  <2>3. /\ round \in [Call -> Nat] /\ amount \in [Call -> Int]
        /\ prev \in [Call -> Int] /\ tries \in [Call -> Nat]
    BY DEF Init
  <2>4. wallet \in Int /\ notices \in Nat /\ drops \in Nat
    BY DEF Init
  <2>5. opened \in BOOLEAN
    BY Zenon DEF Init
  <2> QED
    BY <2>1, <2>2, <2>3, <2>4, <2>5 DEF TypeOK
<1> QED
  BY <1>1, TypeStep, PTL DEF Spec

-----------------------------------------------------------------------------
(* The rows. *)

\* Both properties of the rows are kept by one commit.
LEMMA UniqueStep ==
  ASSUME TypeOK, UniqueKeys, [Next]_vars PROVE UniqueKeys'
<1>1. CASE UNCHANGED <<ledger, wallet>>
  BY <1>1 DEF UniqueKeys
<1>2. ASSUME NEW w \in Call, ~Taken(w), Commit(w) PROVE UniqueKeys'
  <2> SUFFICES ASSUME NEW i \in 1..Len(ledger'), NEW j \in 1..Len(ledger'), i # j,
                      ledger'[i].reason # "adjust", ledger'[i].reason = ledger'[j].reason
               PROVE  <<ledger'[i].ref, ledger'[i].round>> # <<ledger'[j].ref, ledger'[j].round>>
    BY DEF UniqueKeys
  <2>1. Len(ledger) \in Nat
    BY DEF TypeOK
  <2>2. /\ Len(ledger') = Len(ledger) + 1
        /\ \A k \in 1..Len(ledger) : ledger'[k] = ledger[k]
        /\ ledger'[Len(ledger) + 1] = Row(w)
    BY <1>2, CommitAppends
  <2>3. Row(w).reason = Reason(w) /\ Row(w).ref = ref[w] /\ Row(w).round = round[w]
    BY DEF Row
  <2>4. ASSUME NEW k \in 1..Len(ledger), Row(w).reason # "adjust", ledger[k].reason = Row(w).reason
        PROVE  <<ledger[k].ref, ledger[k].round>> # <<ref[w], round[w]>>
    <3>1. op[w] # "adjust"
      BY <2>3, <2>4 DEF Reason
    <3>2. ~Has(Reason(w), ref[w], round[w])
      BY <1>2, <3>1 DEF Taken
    <3> QED
      BY <2>3, <2>4, <3>2 DEF Has
  <2>5. CASE i \in 1..Len(ledger) /\ j \in 1..Len(ledger)
    BY <2>2, <2>5 DEF UniqueKeys
  <2>6. CASE i = Len(ledger) + 1
    <3>1. j \in 1..Len(ledger)
      BY <2>1, <2>2, <2>6
    <3> QED
      BY <2>2, <2>3, <2>4, <2>6, <3>1
  <2>7. CASE j = Len(ledger) + 1
    <3>1. i \in 1..Len(ledger)
      BY <2>1, <2>2, <2>7
    <3> QED
      BY <2>2, <2>3, <2>4, <2>7, <3>1
  <2> QED
    BY <2>1, <2>2, <2>5, <2>6, <2>7
<1> QED
  BY <1>1, <1>2, RowsStep

LEMMA ChainStep ==
  ASSUME TypeOK, BalanceChain, [Next]_vars PROVE BalanceChain'
<1>1. CASE UNCHANGED <<ledger, wallet>>
  BY <1>1 DEF BalanceChain
<1>2. ASSUME NEW w \in Call, Commit(w) PROVE BalanceChain'
  <2> DEFINE n == Len(ledger)
  <2>1. n \in Nat /\ (ledger = <<>> <=> n = 0)
    BY DEF TypeOK
  <2>2. /\ Len(ledger') = n + 1
        /\ \A k \in 1..n : ledger'[k] = ledger[k]
        /\ ledger'[n + 1] = Row(w) /\ wallet' = Row(w).after
        /\ ledger' \in Seq(LedgerRow)
    BY <1>2, CommitAppends
  <2>3. Row(w).after = Row(w).delta + wallet
    BY DEF Row, TypeOK
  <2>4. ASSUME NEW i \in 1..(n + 1)
        PROVE  ledger'[i].after = ledger'[i].delta + (IF i = 1 THEN 0 ELSE ledger'[i-1].after)
    <3>1. CASE i \in 1..n
      <4>1. i # 1 => i - 1 \in 1..n
        BY <3>1
      <4> QED
        BY <2>2, <3>1, <4>1 DEF BalanceChain
    <3>2. CASE i = n + 1
      <4>1. CASE n = 0
        BY <2>1, <2>2, <2>3, <3>2, <4>1 DEF BalanceChain
      <4>2. CASE n # 0
        <5>1. n \in 1..n /\ i # 1 /\ i - 1 = n
          BY <2>1, <3>2, <4>2
        <5>2. wallet = ledger[n].after
          BY <2>1, <4>2 DEF BalanceChain
        <5> QED
          BY <2>2, <2>3, <3>2, <5>1, <5>2
      <4> QED
        BY <4>1, <4>2
    <3> QED
      BY <2>1, <3>1, <3>2
  <2>5. wallet' = (IF ledger' = <<>> THEN 0 ELSE ledger'[Len(ledger')].after)
    BY <2>1, <2>2
  <2> QED
    BY <2>2, <2>4, <2>5 DEF BalanceChain
<1> QED
  BY <1>1, <1>2, RowsStep

\* UniqueKeys: however many calls race, a key is written once.
THEOREM KeysAreUnique == Spec => []UniqueKeys
<1>1. Init => UniqueKeys
  BY DEF Init, UniqueKeys
<1> QED
  BY <1>1, UniqueStep, TypeCorrect, PTL DEF Spec

\* BalanceChain: the balances of the rows form a chain that ends in the wallet.
THEOREM BalancesChain == Spec => []BalanceChain
<1>1. Init => BalanceChain
  BY DEF Init, BalanceChain
<1> QED
  BY <1>1, ChainStep, TypeCorrect, PTL DEF Spec
-----------------------------------------------------------------------------
(* What the calls know of the rows. *)

\* A label tells the operation, and what has been returned so far.
Phases ==
    \A w \in Call :
        /\ at[w] \in {"idle", "count", "find", "charge", "once", "write"} => result[w] = "none"
        /\ at[w] \in {"wallet", "open"} => result[w] \in {"none", "nothing"}
        /\ at[w] \in {"count", "find"} => op[w] \notin {"adjust", "refund"}
        /\ at[w] \in {"charge", "once"} => op[w] = "refund"

Keys == {<<ledger[i].reason, ledger[i].ref, ledger[i].round>> : i \in 1..Len(ledger)}

FirstCharges ==
    {i \in 1..Len(ledger) : ledger[i].reason = "feature" /\ ledger[i].round = 0}
Refundable == {<<ledger[i].ref, -ledger[i].delta>> : i \in FirstCharges}

\* A refund on its way holds the amount of a charge of its reference.
RefundBacked ==
    \A w \in Call :
        op[w] = "refund" /\ at[w] \in {"once", "wallet", "open", "write"} /\ result[w] = "none"
            => <<ref[w], amount[w]>> \in Refundable

\* Who was told that the thing is done finds its row.
ToldHasRow ==
    \A w \in Call :
        \/ result[w] = "already"
        \/ result[w] = "applied" /\ op[w] # "adjust"
        => <<Reason(w), ref[w], round[w]>> \in Keys

\* No two calls were told that they wrote the same row.
ToldOnce ==
    \A v, w \in Call :
        /\ v # w /\ op[v] # "adjust" /\ Reason(v) = Reason(w)
        /\ result[v] = "applied" /\ result[w] = "applied"
        => <<ref[v], round[v]>> # <<ref[w], round[w]>>

Knowledge == Phases /\ RefundBacked /\ ToldHasRow /\ ToldOnce

\* Rows stay.
LEMMA RowsStay ==
  ASSUME TypeOK, [Next]_vars
  PROVE  /\ Keys \subseteq Keys' /\ Refundable \subseteq Refundable'
         /\ Len(ledger) \in Nat /\ Len(ledger') \in Nat /\ Len(ledger) <= Len(ledger')
         /\ \A i \in 1..Len(ledger) : ledger'[i] = ledger[i]
<1>1. /\ Len(ledger) \in Nat /\ Len(ledger') \in Nat /\ Len(ledger) <= Len(ledger')
      /\ \A i \in 1..Len(ledger) : ledger'[i] = ledger[i]
  <2>1. Len(ledger) \in Nat
    BY DEF TypeOK
  <2>2. CASE UNCHANGED ledger
    BY <2>1, <2>2
  <2>3. ASSUME NEW w \in Call, Commit(w)
        PROVE  Len(ledger') = Len(ledger) + 1 /\ \A i \in 1..Len(ledger) : ledger'[i] = ledger[i]
    BY <2>3, CommitAppends
  <2> QED
    BY <2>1, <2>2, <2>3, RowsStep
<1>2. Keys \subseteq Keys'
  BY <1>1 DEF Keys
<1>3. FirstCharges \subseteq FirstCharges'
  BY <1>1 DEF FirstCharges
<1>4. \A i \in FirstCharges : i \in 1..Len(ledger) /\ ledger'[i] = ledger[i]
  BY <1>1 DEF FirstCharges
<1>5. Refundable \subseteq Refundable'
  BY <1>3, <1>4 DEF Refundable
<1> QED
  BY <1>1, <1>2, <1>5

LEMMA PhasesStep ==
  ASSUME TypeOK, Phases, [Next]_vars PROVE Phases'
<1> USE LedgerAssumption DEF TypeOK, Phases, Goto, Return
<1>1. ASSUME NEW w \in Call, NEW o \in Operations, NEW r \in Ref, Begin(w, o, r) PROVE Phases'
  <2>1. /\ o \in {"feature", "repeat", "refund", "grant", "adjust"}
        /\ First(o) = "find" => o \in {"feature", "grant"}
        /\ First(o) = "count" => o = "repeat"
        /\ First(o) = "charge" => o = "refund"
        /\ First(o) \in {"find", "count", "charge", "wallet"}
    BY DEF First, Operation
  <2> QED
    BY <1>1, <2>1 DEF Begin
<1>2. ASSUME NEW w \in Call, CountCharges(w) PROVE Phases'
  BY <1>2 DEF CountCharges
<1>3. ASSUME NEW w \in Call, FindExisting(w) PROVE Phases'
  <2>1. CASE Taken(w)
    BY <1>3, <2>1 DEF FindExisting, Already
  <2>2. CASE ~Taken(w)
    BY <1>3, <2>2 DEF FindExisting
  <2> QED
    BY <2>1, <2>2
<1>4. ASSUME NEW w \in Call, FindCharge(w) PROVE Phases'
  BY <1>4 DEF FindCharge
<1>5. ASSUME NEW w \in Call, FindRefund(w) PROVE Phases'
  BY <1>5 DEF FindRefund
<1>6. ASSUME NEW w \in Call, ReadWallet(w) PROVE Phases'
  BY <1>6 DEF ReadWallet, AfterWallet
<1>7. ASSUME NEW w \in Call, OpenWallet(w) PROVE Phases'
  BY <1>7 DEF OpenWallet, AfterWallet
<1>8. ASSUME NEW w \in Call, Write(w) PROVE Phases'
  BY <1>8 DEF Write
<1>9. ASSUME NEW w \in Call, WriteRefused(w) PROVE Phases'
  BY <1>9 DEF WriteRefused, Already, Taken, Reason
<1>10. ASSUME NEW w \in Call, WriteThrows(w) PROVE Phases'
  BY <1>10 DEF WriteThrows
<1>11. CASE UNCHANGED vars
  BY <1>11 DEF vars
<1> QED
  BY <1>1, <1>2, <1>3, <1>4, <1>5, <1>6, <1>7, <1>8, <1>9, <1>10, <1>11
     DEF Next, CallStep

LEMMA BackedStep ==
  ASSUME TypeOK, Phases, RefundBacked, [Next]_vars PROVE RefundBacked'
<1> USE DEF TypeOK, Phases, RefundBacked, Goto, Return
<1>0. Refundable \subseteq Refundable'
  BY RowsStay
<1>1. ASSUME NEW w \in Call, NEW o \in Operations, NEW r \in Ref, Begin(w, o, r)
      PROVE RefundBacked'
  <2>1. at'[w] \notin {"once", "open", "write"} /\ (at'[w] = "wallet" => op'[w] = "adjust")
    BY <1>1, LedgerAssumption DEF Begin, First, Operation
  <2> QED
    BY <1>0, <1>1, <2>1 DEF Begin
<1>2. ASSUME NEW w \in Call, CountCharges(w) PROVE RefundBacked'
  BY <1>0, <1>2 DEF CountCharges
<1>3. ASSUME NEW w \in Call, FindExisting(w) PROVE RefundBacked'
  <2>1. CASE Taken(w)
    BY <1>0, <1>3, <2>1 DEF FindExisting, Already
  <2>2. CASE ~Taken(w)
    BY <1>0, <1>3, <2>2 DEF FindExisting
  <2> QED
    BY <2>1, <2>2
<1>4. ASSUME NEW w \in Call, FindCharge(w) PROVE RefundBacked'
  <2>1. ASSUME NEW i \in 1..Len(ledger), ledger[i].reason = "feature", ledger[i].ref = ref[w],
               ledger[i].round = 0
        PROVE  <<ref[w], -ledger[i].delta>> \in Refundable
    BY <2>1 DEF Refundable, FirstCharges
  <2> QED
    BY <1>0, <1>4, <2>1, ZenonT(60) DEF FindCharge
<1>5. ASSUME NEW w \in Call, FindRefund(w) PROVE RefundBacked'
  BY <1>0, <1>5 DEF FindRefund
<1>6. ASSUME NEW w \in Call, ReadWallet(w) PROVE RefundBacked'
  BY <1>0, <1>6 DEF ReadWallet, AfterWallet
<1>7. ASSUME NEW w \in Call, OpenWallet(w) PROVE RefundBacked'
  BY <1>0, <1>7 DEF OpenWallet, AfterWallet
<1>8. ASSUME NEW w \in Call, Write(w) PROVE RefundBacked'
  BY <1>0, <1>8 DEF Write
<1>9. ASSUME NEW w \in Call, WriteRefused(w) PROVE RefundBacked'
  BY <1>0, <1>9 DEF WriteRefused, Already
<1>10. ASSUME NEW w \in Call, WriteThrows(w) PROVE RefundBacked'
  BY <1>0, <1>10 DEF WriteThrows
<1>11. CASE UNCHANGED vars
  BY <1>0, <1>11 DEF vars
<1> QED
  BY <1>1, <1>2, <1>3, <1>4, <1>5, <1>6, <1>7, <1>8, <1>9, <1>10, <1>11
     DEF Next, CallStep
\* An unwritten key is not among the keys.
LEMMA TakenIsKey ==
  ASSUME NEW w \in Call, op[w] # "adjust"
  PROVE  Taken(w) <=> <<Reason(w), ref[w], round[w]>> \in Keys
BY DEF Taken, Has, Keys

\* A commit adds the key of its call.
LEMMA CommitAddsKey ==
  ASSUME TypeOK, NEW w \in Call, Commit(w)
  PROVE  <<Reason(w), ref[w], round[w]>> \in Keys'
<1>1. /\ Len(ledger) \in Nat /\ Len(ledger') = Len(ledger) + 1
      /\ ledger'[Len(ledger) + 1] = Row(w)
  BY CommitAppends DEF TypeOK
<1>2. Row(w).reason = Reason(w) /\ Row(w).ref = ref[w] /\ Row(w).round = round[w]
  BY DEF Row
<1>3. Len(ledger) + 1 \in 1..Len(ledger')
  BY <1>1
<1> QED
  BY <1>1, <1>2, <1>3 DEF Keys

\* The request of a call is the same after the step.
SameRequest(w) == op'[w] = op[w] /\ ref'[w] = ref[w] /\ round'[w] = round[w]

\* A step after which a call is told "already" only of a key that exists, and
\* none is newly told "applied", keeps what was told.
LEMMA QuietStep ==
  ASSUME ToldHasRow, ToldOnce, Keys \subseteq Keys',
         \A v \in Call :
            \/ result'[v] \notin {"applied", "already"}
            \/ result'[v] = result[v] /\ SameRequest(v)
            \/ /\ result'[v] = "already" /\ SameRequest(v)
               /\ <<Reason(v), ref[v], round[v]>> \in Keys
  PROVE  ToldHasRow' /\ ToldOnce'
<1>1. ToldHasRow'
  <2> SUFFICES ASSUME NEW v \in Call,
                      \/ result'[v] = "already"
                      \/ result'[v] = "applied" /\ op'[v] # "adjust"
               PROVE  <<Reason(v), ref[v], round[v]>>' \in Keys'
    BY DEF ToldHasRow
  <2>1. SameRequest(v)
    OBVIOUS
  <2>2. <<Reason(v), ref[v], round[v]>> \in Keys
    BY <2>1 DEF ToldHasRow, SameRequest
  <2>3. <<Reason(v), ref[v], round[v]>>' = <<Reason(v), ref[v], round[v]>>
    BY <2>1 DEF SameRequest, Reason
  <2> QED
    BY <2>2, <2>3
<1>2. ToldOnce'
  <2> SUFFICES ASSUME NEW u \in Call, NEW v \in Call, u # v, op'[u] # "adjust",
                      Reason(u)' = Reason(v)', result'[u] = "applied", result'[v] = "applied"
               PROVE  <<ref'[u], round'[u]>> # <<ref'[v], round'[v]>>
    BY DEF ToldOnce
  <2>1. /\ SameRequest(u) /\ result[u] = "applied"
        /\ SameRequest(v) /\ result[v] = "applied"
    OBVIOUS
  <2>2. Reason(u) = Reason(v) /\ op[u] # "adjust"
    BY <2>1 DEF SameRequest, Reason
  <2> QED
    BY <2>1, <2>2 DEF ToldOnce, SameRequest
<1> QED
  BY <1>1, <1>2

LEMMA ToldStep ==
  ASSUME TypeOK, Phases, ToldHasRow, ToldOnce, [Next]_vars
  PROVE  ToldHasRow' /\ ToldOnce'
<1> USE DEF Goto, Return, SameRequest
<1>0. Keys \subseteq Keys'
  BY RowsStay
<1>1. ASSUME NEW w \in Call, NEW o \in Operations, NEW r \in Ref, Begin(w, o, r)
      PROVE ToldHasRow' /\ ToldOnce'
  <2>1. result[w] = "none"
    BY <1>1 DEF Begin, Phases
  <2>2. ASSUME NEW v \in Call, v # w PROVE result'[v] = result[v] /\ SameRequest(v)
    BY <1>1, <2>2 DEF Begin, TypeOK
  <2>3. result'[w] = "none"
    BY <1>1, <2>1 DEF Begin
  <2> QED
    BY <1>0, <2>2, <2>3, QuietStep
<1>2. ASSUME NEW w \in Call, CountCharges(w) PROVE ToldHasRow' /\ ToldOnce'
  BY <1>0, <1>2, QuietStep DEF CountCharges, TypeOK, Phases
<1>3. ASSUME NEW w \in Call, FindExisting(w) PROVE ToldHasRow' /\ ToldOnce'
  <2>1. CASE Taken(w)
    <3>1. <<Reason(w), ref[w], round[w]>> \in Keys
      BY <2>1, TakenIsKey DEF Taken
    <3> QED
      BY <1>0, <1>3, <2>1, <3>1, QuietStep DEF FindExisting, Already, TypeOK
  <2>2. CASE ~Taken(w)
    BY <1>0, <1>3, <2>2, QuietStep DEF FindExisting
  <2> QED
    BY <2>1, <2>2
<1>4. ASSUME NEW w \in Call, FindCharge(w) PROVE ToldHasRow' /\ ToldOnce'
  BY <1>0, <1>4, QuietStep DEF FindCharge, TypeOK
<1>5. ASSUME NEW w \in Call, FindRefund(w) PROVE ToldHasRow' /\ ToldOnce'
  <2>1. CASE Taken(w)
    <3>1. <<Reason(w), ref[w], round[w]>> \in Keys
      BY <2>1, TakenIsKey DEF Taken
    <3> QED
      BY <1>0, <1>5, <2>1, <3>1, QuietStep DEF FindRefund, TypeOK
  <2>2. CASE ~Taken(w)
    BY <1>0, <1>5, <2>2, QuietStep DEF FindRefund
  <2> QED
    BY <2>1, <2>2
<1>6. ASSUME NEW w \in Call, ReadWallet(w) PROVE ToldHasRow' /\ ToldOnce'
  BY <1>0, <1>6, QuietStep DEF ReadWallet
<1>7. ASSUME NEW w \in Call, OpenWallet(w) PROVE ToldHasRow' /\ ToldOnce'
  BY <1>0, <1>7, QuietStep DEF OpenWallet, TypeOK
<1>8. ASSUME NEW w \in Call, Write(w) PROVE ToldHasRow' /\ ToldOnce'
  <2>1. <<Reason(w), ref[w], round[w]>> \in Keys'
    BY <1>8, CommitAddsKey DEF Write
  <2>2. op[w] # "adjust" => <<Reason(w), ref[w], round[w]>> \notin Keys
    BY <1>8, TakenIsKey DEF Write
  <2>3. /\ result' = [result EXCEPT ![w] = "applied"]
        /\ op' = op /\ ref' = ref /\ round' = round
    BY <1>8 DEF Write
  <2>4. ToldHasRow'
    BY <1>0, <2>1, <2>3 DEF ToldHasRow, TypeOK, Reason
  <2>5. ToldOnce'
    <3> SUFFICES ASSUME NEW u \in Call, NEW v \in Call, u # v, op[u] # "adjust",
                        Reason(u) = Reason(v), result'[u] = "applied", result'[v] = "applied"
                 PROVE  <<ref[u], round[u]>> # <<ref[v], round[v]>>
      BY <2>3 DEF ToldOnce, Reason
    <3>0. op[v] # "adjust"
      BY DEF Reason
    <3>1. CASE u # w /\ v # w
      BY <2>3, <3>1 DEF ToldOnce
    <3>2. CASE u = w
      <4>1. <<Reason(v), ref[v], round[v]>> \in Keys
        BY <2>3, <3>0, <3>2 DEF ToldHasRow
      <4> QED
        BY <2>2, <3>2, <4>1
    <3>3. CASE v = w
      <4>1. <<Reason(u), ref[u], round[u]>> \in Keys
        BY <2>3, <3>3 DEF ToldHasRow
      <4> QED
        BY <2>2, <3>0, <3>3, <4>1
    <3> QED
      BY <3>1, <3>2, <3>3
  <2> QED
    BY <2>4, <2>5
<1>9. ASSUME NEW w \in Call, WriteRefused(w) PROVE ToldHasRow' /\ ToldOnce'
  <2>1. <<Reason(w), ref[w], round[w]>> \in Keys
    BY <1>9, TakenIsKey DEF WriteRefused, Taken
  <2> QED
    BY <1>0, <1>9, <2>1, QuietStep DEF WriteRefused, Already, TypeOK
<1>10. ASSUME NEW w \in Call, WriteThrows(w) PROVE ToldHasRow' /\ ToldOnce'
  BY <1>0, <1>10, QuietStep DEF WriteThrows, TypeOK
<1>11. CASE UNCHANGED vars
  BY <1>0, <1>11, QuietStep DEF vars
<1> QED
  BY <1>1, <1>2, <1>3, <1>4, <1>5, <1>6, <1>7, <1>8, <1>9, <1>10, <1>11
     DEF Next, CallStep

LEMMA RefundsStep ==
  ASSUME TypeOK, Phases, RefundBacked, RefundsAreCharges, [Next]_vars
  PROVE  RefundsAreCharges'
<1>1. CASE UNCHANGED <<ledger, wallet>>
  BY <1>1 DEF RefundsAreCharges
<1>2. ASSUME NEW w \in Call, at[w] = "write", Commit(w) PROVE RefundsAreCharges'
  <2> DEFINE n == Len(ledger)
  <2>1. n \in Nat
    BY DEF TypeOK
  <2>2. /\ Len(ledger') = n + 1
        /\ \A k \in 1..n : ledger'[k] = ledger[k]
        /\ ledger'[n + 1] = Row(w)
    BY <1>2, CommitAppends
  <2>3. /\ Row(w).reason = Reason(w) /\ Row(w).ref = ref[w] /\ Row(w).delta = amount[w]
        /\ amount[w] \in Int
    BY DEF Row, TypeOK
  <2>4. ASSUME Row(w).reason = "refund"
        PROVE  \E i \in 1..n : /\ ledger[i].reason = "feature" /\ ledger[i].round = 0
                              /\ ledger[i].ref = Row(w).ref /\ -ledger[i].delta = Row(w).delta
    <3>1. op[w] = "refund" /\ result[w] = "none"
      BY <1>2, <2>3, <2>4 DEF Reason, Phases
    <3>2. <<ref[w], amount[w]>> \in Refundable
      BY <1>2, <3>1 DEF RefundBacked
    <3>3. PICK i \in FirstCharges : <<ref[w], amount[w]>> = <<ledger[i].ref, -ledger[i].delta>>
      BY <3>2 DEF Refundable
    <3> QED
      BY <2>3, <3>3 DEF FirstCharges
  <2>5. ASSUME NEW i \in 1..n PROVE ledger[i].delta \in Int
    <3>1. ledger[i] \in LedgerRow
      BY DEF TypeOK
    <3> QED
      BY <3>1 DEF LedgerRow
  <2> SUFFICES ASSUME NEW j \in 1..Len(ledger'), ledger'[j].reason = "refund"
               PROVE  \E i \in 1..(j - 1) :
                        /\ ledger'[i].reason = "feature" /\ ledger'[i].round = 0
                        /\ ledger'[i].ref = ledger'[j].ref
                        /\ ledger'[i].delta = -ledger'[j].delta
    BY DEF RefundsAreCharges
  <2>6. CASE j \in 1..n
    BY <2>1, <2>2, <2>6, SMTT(30) DEF RefundsAreCharges
  <2>7. CASE j = n + 1
    BY <2>1, <2>2, <2>3, <2>4, <2>5, <2>7
  <2> QED
    BY <2>1, <2>2, <2>6, <2>7
<1> QED
  BY <1>1, <1>2, RowsStep

\* The inductive invariant.
IInv == TypeOK /\ Phases /\ RefundBacked /\ ToldHasRow /\ ToldOnce /\ RefundsAreCharges

THEOREM InductiveInvariant == Spec => []IInv
<1>1. Init => Phases /\ RefundBacked /\ ToldHasRow /\ ToldOnce /\ RefundsAreCharges
  BY DEF Init, Phases, RefundBacked, ToldHasRow, ToldOnce, RefundsAreCharges
<1>2. TypeOK /\ IInv /\ [Next]_vars => IInv'
  BY TypeStep, PhasesStep, BackedStep, ToldStep, RefundsStep DEF IInv
<1>3. Init /\ TypeOK => IInv
  BY <1>1 DEF IInv
<1> QED
  BY <1>2, <1>3, TypeCorrect, PTL DEF Spec

\* RefundsAreCharges: a refund gives back what the first charge of its
\* reference took.
THEOREM RefundsGiveBack == Spec => []RefundsAreCharges
<1>1. IInv => RefundsAreCharges
  BY DEF IInv
<1> QED
  BY <1>1, InductiveInvariant, PTL

\* OneIsApplied: of the calls that race for a key one is told that it wrote it.
THEOREM OneCallApplies == Spec => []OneIsApplied
<1>1. IInv => OneIsApplied
  BY DEF IInv, ToldOnce, ToldHasRow, OneIsApplied, Keys, Has
<1> QED
  BY <1>1, InductiveInvariant, PTL

-----------------------------------------------------------------------------
(* The order.                                                              *)

Spent == money \in {"taken", "returned"}

\* What the status of the order says of the money, and the reverse.
StatusAndMoney ==
    /\ status = "none" =>
         money = "none" /\ ~confirmed /\ \A p \in Process : pc[p] = "idle"
    /\ status = "pending" => ~confirmed
    /\ status = "paid" => Spent /\ (provider = "transfer" => confirmed)
    /\ status = "cancelled" /\ (provider = "toss" \/ confirmed) => Spent
    /\ status = "failed" => \/ money = "aborted" \/ disputed
                            \/ /\ provider = "toss" /\ money = "none"
                               /\ age \in {"days", "over"}
    /\ money = "returned" => status \in {"paid", "cancelled"}
    /\ granted => Spent
    /\ money \in {"authorised", "aborted"} => provider = "toss"

\* What a handler knows at each label.
KnownAt(p) ==
    /\ pc[p] \in {"record", "lookup", "abandon", "settle", "refund", "restore"} =>
         provider = "toss"
    /\ pc[p] = "deposit" => provider = "transfer"
    /\ pc[p] \in {"record", "settle", "grant", "deposit"} => Spent
    /\ pc[p] = "refuse" => money \in {"aborted", "returned"} \/ disputed
    /\ pc[p] = "abandon" => \/ money = "none" /\ age \in {"days", "over"}
                            \/ money \in {"aborted", "returned"}
    /\ pc[p] \in {"refund", "restore"} =>
         Spent /\ status \in {"paid", "cancelled"}
    /\ pc[p] = "claim" =>
         \/ seen[p] = "paid" /\ owes[p]
         \/ seen[p] = "pending" /\ provider = "transfer" /\ ~owes[p]

HandlerKnowledge == \A p \in Process : KnownAt(p)

OrderInv == OrderTypeOK /\ StatusAndMoney /\ HandlerKnowledge

\* A step keeps the columns of the two kinds of order apart.
LEMMA ColumnsStep == OrderInv /\ [OrderNext]_orderVars => Columns'
<1> SUFFICES ASSUME OrderInv, [OrderNext]_orderVars PROVE Columns'
  OBVIOUS
<1> USE DEF OrderInv, OrderTypeOK, Columns, OrderTypes, HandlerTypes, Label, Status
<1>1. CASE World
  BY <1>1 DEF World, Create, Authorise, Expire, Transfer, Mature, Later, orderRow,
              entries, known, history, StatusAndMoney
<1>2. ASSUME NEW p \in Process, BeginHandler(p) PROVE Columns'
  BY <1>2 DEF BeginHandler, BeginConfirm, BeginReconcile, BeginDeposit, BeginCancel,
              Enter, Forget, orderRow, entries, known, history
<1>3. ASSUME NEW p \in Process, Confirm(p) PROVE Columns'
  BY <1>3 DEF Confirm, ApproveOk, ApproveRefused, ApproveUnclear, Unclear,
              ApproveWaits, Record, Refuse, FailIfPending, Enter, Forget, orderRow, entries, known,
              history, HandlerKnowledge, KnownAt
<1>4. ASSUME NEW p \in Process, Shared(p) \/ Reconcile(p) PROVE Columns'
  BY <1>4 DEF Shared, Reread, GrantTokens, Reconcile, LookupAnswers, Abandon,
              Settle, FailIfPending, Enter, Forget, orderRow, entries, known, HandlerKnowledge,
              history, KnownAt
<1>5. ASSUME NEW p \in Process, Deposit(p) \/ Cancel(p) PROVE Columns'
  BY <1>5 DEF Deposit, Cancel, Claim, RefundOk, RefundFails, Restore, Reverse,
              Enter, Forget, orderRow, entries, known, HandlerKnowledge, KnownAt,
              history
<1>6. ASSUME NEW p \in Process, LookupFails(p) \/ Kill(p) PROVE Columns'
  BY <1>6 DEF LookupFails, Kill, Undone, Enter, Forget, orderRow, entries, known,
              history
<1>7. CASE UNCHANGED orderVars
  BY <1>7 DEF orderVars, orderRow, entries, known, history
<1> QED
  BY <1>1, <1>2, <1>3, <1>4, <1>5, <1>6, <1>7 DEF OrderNext, Proceed

\* A step keeps the types of the order.
LEMMA OrderStep == OrderInv /\ [OrderNext]_orderVars => OrderTypes'
<1> SUFFICES ASSUME OrderTypes, [OrderNext]_orderVars PROVE OrderTypes'
  BY DEF OrderInv, OrderTypeOK
<1> USE DEF OrderTypes, Status
<1>1. CASE World
  BY <1>1 DEF World, Create, Authorise, Expire, Transfer, Mature, Later, orderRow,
              entries
<1>2. ASSUME NEW p \in Process, BeginHandler(p) PROVE OrderTypes'
  BY <1>2 DEF BeginHandler, BeginConfirm, BeginReconcile, BeginDeposit, BeginCancel,
              orderRow, entries
<1>3. ASSUME NEW p \in Process, Confirm(p) PROVE OrderTypes'
  BY <1>3 DEF Confirm, ApproveOk, ApproveRefused, ApproveUnclear, ApproveWaits, Record,
              Refuse, FailIfPending, orderRow, entries
<1>4. ASSUME NEW p \in Process, Shared(p) PROVE OrderTypes'
  BY <1>4 DEF Shared, Reread, GrantTokens, orderRow, entries
<1>5. ASSUME NEW p \in Process, Reconcile(p) PROVE OrderTypes'
  BY <1>5 DEF Reconcile, LookupAnswers, Abandon, Settle, FailIfPending, orderRow,
              entries
<1>6. ASSUME NEW p \in Process, Deposit(p) PROVE OrderTypes'
  BY <1>6 DEF Deposit, orderRow, entries
<1>7. ASSUME NEW p \in Process, Cancel(p) PROVE OrderTypes'
  BY <1>7 DEF Cancel, Claim, RefundOk, RefundFails, Restore, Reverse, orderRow,
              entries
<1>8. ASSUME NEW p \in Process, LookupFails(p) \/ Kill(p) PROVE OrderTypes'
  BY <1>8 DEF LookupFails, Kill, orderRow, entries
<1>9. CASE UNCHANGED orderVars
  BY <1>9 DEF orderVars, orderRow, entries
<1> QED
  BY <1>1, <1>2, <1>3, <1>4, <1>5, <1>6, <1>7, <1>8, <1>9 DEF OrderNext, Proceed

\* A step keeps the types of the handlers.
LEMMA HandlerStep == OrderInv /\ [OrderNext]_orderVars => HandlerTypes'
<1> SUFFICES ASSUME OrderInv, [OrderNext]_orderVars PROVE HandlerTypes'
  OBVIOUS
<1> USE DEF OrderInv, OrderTypeOK, Columns, OrderTypes, HandlerTypes, Label, Status
<1>1. CASE World
  BY <1>1 DEF World, Create, Authorise, Expire, Transfer, Mature, Later, orderRow,
              entries, known, history, StatusAndMoney
<1>2. ASSUME NEW p \in Process, BeginHandler(p) PROVE HandlerTypes'
  <2>1. CASE BeginConfirm(p)
    BY <2>1 DEF BeginConfirm, Enter, Forget, orderRow, entries, known, history
  <2>2. CASE BeginReconcile(p)
    BY <2>2 DEF BeginReconcile, Enter, Forget, orderRow, entries, known, history
  <2>3. CASE BeginDeposit(p)
    BY <2>3 DEF BeginDeposit, Enter, Forget, orderRow, entries, known, history
  <2>4. CASE BeginCancel(p)
    BY <2>4 DEF BeginCancel, Enter, Forget, orderRow, entries, known, history
  <2> QED
    BY <1>2, <2>1, <2>2, <2>3, <2>4 DEF BeginHandler
<1>3. ASSUME NEW p \in Process, Confirm(p) PROVE HandlerTypes'
  BY <1>3 DEF Confirm, ApproveOk, ApproveRefused, ApproveUnclear, Unclear,
              ApproveWaits, Record, Refuse, FailIfPending, Enter, Forget, orderRow, entries, known,
              history, HandlerKnowledge, KnownAt
<1>4. ASSUME NEW p \in Process, Shared(p) \/ Reconcile(p) PROVE HandlerTypes'
  BY <1>4 DEF Shared, Reread, GrantTokens, Reconcile, LookupAnswers, Abandon,
              Settle, FailIfPending, Enter, Forget, orderRow, entries, known, HandlerKnowledge,
              history, KnownAt
<1>5. ASSUME NEW p \in Process, Deposit(p) \/ Cancel(p) PROVE HandlerTypes'
  BY <1>5 DEF Deposit, Cancel, Claim, RefundOk, RefundFails, Restore, Reverse,
              Enter, Forget, orderRow, entries, known, HandlerKnowledge, KnownAt,
              history
<1>6. ASSUME NEW p \in Process, LookupFails(p) \/ Kill(p) PROVE HandlerTypes'
  BY <1>6 DEF LookupFails, Kill, Undone, Enter, Forget, orderRow, entries, known,
              history
<1>7. CASE UNCHANGED orderVars
  BY <1>7 DEF orderVars, orderRow, entries, known, history
<1> QED
  BY <1>1, <1>2, <1>3, <1>4, <1>5, <1>6, <1>7 DEF OrderNext, Proceed

\* Status and money agree after every step: what the handlers know suffices.
LEMMA StatusStep == OrderInv /\ [OrderNext]_orderVars => StatusAndMoney'
<1> SUFFICES ASSUME OrderInv, [OrderNext]_orderVars PROVE StatusAndMoney'
  OBVIOUS
<1> USE DEF OrderInv, OrderTypeOK, Columns, OrderTypes, HandlerTypes, Label, Status,
            StatusAndMoney, Spent
<1>1. CASE World
  <2>1. ASSUME NEW how \in {"toss", "transfer"}, Create(how) PROVE StatusAndMoney'
    BY <2>1 DEF Create, entries, known, history
  <2>2. CASE Authorise \/ Expire \/ Transfer
    BY <2>2 DEF Authorise, Expire, Transfer, orderRow, entries, known, history
  <2>3. CASE Mature \/ Later
    BY <2>3 DEF Mature, Later, orderRow, entries, known, history
  <2> QED
    BY <1>1, <2>1, <2>2, <2>3 DEF World
<1>2. ASSUME NEW p \in Process, BeginHandler(p) PROVE StatusAndMoney'
  BY <1>2 DEF BeginHandler, BeginConfirm, BeginReconcile, BeginDeposit, BeginCancel,
              Cancellable, Reconcilable, Enter, Forget, orderRow, entries, known,
              history
<1>3. ASSUME NEW p \in Process, Confirm(p) PROVE StatusAndMoney'
  BY <1>3 DEF Confirm, ApproveOk, ApproveRefused, ApproveUnclear, Unclear,
              ApproveWaits, Record, Refuse, FailIfPending, Enter, Forget, orderRow, entries, known,
              history, HandlerKnowledge, KnownAt
<1>4. ASSUME NEW p \in Process, Shared(p) \/ Reconcile(p)
      PROVE StatusAndMoney'
  BY <1>4 DEF Shared, Reread, GrantTokens, Reconcile, LookupAnswers, Abandon,
              Settle, FailIfPending, Enter, Forget, orderRow, entries, known, HandlerKnowledge,
              history, KnownAt
<1>5. ASSUME NEW p \in Process, Deposit(p) \/ Cancel(p) PROVE StatusAndMoney'
  BY <1>5 DEF Deposit, Cancel, Claim, ClaimHolds, RefundOk, RefundFails,
              Restore, Reverse, Enter, Forget, orderRow, entries, known, HandlerKnowledge, KnownAt,
              history
<1>6. ASSUME NEW p \in Process, LookupFails(p) \/ Kill(p)
      PROVE StatusAndMoney'
  BY <1>6 DEF LookupFails, Kill, Enter, Forget, orderRow, entries, known, history
<1>7. CASE UNCHANGED orderVars
  BY <1>7 DEF orderVars, orderRow, entries, known, history
<1> QED
  BY <1>1, <1>2, <1>3, <1>4, <1>5, <1>6, <1>7 DEF OrderNext, Proceed

\* What a handler knows stays true while the others run.
LEMMA KnowledgeStep == OrderInv /\ [OrderNext]_orderVars => HandlerKnowledge'
<1> SUFFICES ASSUME OrderInv, [OrderNext]_orderVars, NEW q \in Process PROVE KnownAt(q)'
  BY DEF HandlerKnowledge
<1> KnownAt(q)
  BY DEF OrderInv, HandlerKnowledge
<1> USE DEF OrderInv, OrderTypeOK, Columns, OrderTypes, HandlerTypes, Label, Status,
            StatusAndMoney, Spent, KnownAt
<1>1. CASE World
  BY <1>1 DEF World, Create, Authorise, Expire, Transfer, Mature, Later, orderRow,
              entries, known, history
<1>2. ASSUME NEW p \in Process, BeginHandler(p) PROVE KnownAt(q)'
  BY <1>2, ZenonT(60) DEF BeginHandler, BeginConfirm, BeginReconcile, BeginDeposit,
              BeginCancel,
              Cancellable, Reconcilable, Enter, Forget, orderRow, entries, known,
              history
<1>3. ASSUME NEW p \in Process, Confirm(p) PROVE KnownAt(q)'
  <2>1. CASE ApproveOk(p)
    BY <2>1 DEF ApproveOk, Enter, orderRow, entries, known, history
  <2>2. CASE ApproveRefused(p)
    BY <2>2 DEF ApproveRefused, Enter, orderRow, entries, known
  <2>3. CASE ApproveUnclear(p) \/ ApproveWaits(p)
    BY <2>3 DEF ApproveUnclear, Unclear, ApproveWaits, Enter, orderRow, entries,
                known, history
  <2>4. CASE Record(p) \/ Refuse(p)
    BY <2>4 DEF Record, Refuse, FailIfPending, Enter, orderRow, entries, known,
                history
  <2> QED
    BY <1>3, <2>1, <2>2, <2>3, <2>4 DEF Confirm
<1>4. ASSUME NEW p \in Process, Shared(p) \/ Reconcile(p) PROVE KnownAt(q)'
  BY <1>4 DEF Shared, Reread, GrantTokens, Reconcile, LookupAnswers, Abandoned,
              Abandon, Settle, FailIfPending, Enter, Forget, orderRow, entries, known,
              history
<1>5. ASSUME NEW p \in Process, Deposit(p) \/ Cancel(p) PROVE KnownAt(q)'
  BY <1>5 DEF Deposit, Cancel, Claim, ClaimHolds, RefundOk, RefundFails,
              Restore, Reverse, Enter, Forget, orderRow, entries, known, HandlerKnowledge,
              history
<1>6. ASSUME NEW p \in Process, LookupFails(p) \/ Kill(p) PROVE KnownAt(q)'
  BY <1>6 DEF LookupFails, Kill, Enter, Forget, orderRow, entries, known, history
<1>7. CASE UNCHANGED orderVars
  BY <1>7 DEF orderVars, orderRow, entries, known, history
<1> QED
  BY <1>1, <1>2, <1>3, <1>4, <1>5, <1>6, <1>7 DEF OrderNext, Proceed

\* The inductive invariant of the payment orders.
THEOREM OrderInvariant == OrderSpec => []OrderInv
<1>1. OrderInit => OrderInv
  BY DEF OrderInit, OrderInv, OrderTypeOK, Columns, OrderTypes, HandlerTypes, Label, Status,
         StatusAndMoney, HandlerKnowledge, KnownAt, Spent
<1>2. OrderInv /\ [OrderNext]_orderVars => OrderInv'
  BY ColumnsStep, OrderStep, HandlerStep, StatusStep, KnowledgeStep
     DEF OrderInv, OrderTypeOK
<1> QED
  BY <1>1, <1>2, PTL DEF OrderSpec

\* Every variable keeps its type, and only a transfer that was paid has a
\* confirmation: none that failed, whatever page and operators interleaved.
THEOREM OrderTypesCorrect == OrderSpec => []OrderTypeOK
<1>1. OrderInv => OrderTypeOK
  BY DEF OrderInv
<1> QED
  BY <1>1, OrderInvariant, PTL

\* Tokens are granted only for money that was taken.
THEOREM GrantsArePaidFor == OrderSpec => []GrantIsPaidFor
<1>1. OrderInv => GrantIsPaidFor
  BY DEF OrderInv, StatusAndMoney, GrantIsPaidFor, Spent
<1> QED
  BY <1>1, OrderInvariant, PTL

\* An order marked failed has taken no money, unless a request for it was refused
\* that its payment outlived.
THEOREM FailedOrdersTookNothing == OrderSpec => []FailedTookNoMoney
<1>1. OrderInv => FailedTookNoMoney
  BY DEF OrderInv, StatusAndMoney, FailedTookNoMoney
<1> QED
  BY <1>1, OrderInvariant, PTL

-----------------------------------------------------------------------------
(* The balance of the books: who still owes a grant or a reversal.         *)

WasPaid == \/ status = "paid"
           \/ status = "cancelled" /\ (provider = "toss" \/ confirmed)

ReversalsOfPaid ==
    /\ reversed => WasPaid
    /\ \A p \in Process : pc[p] = "reverse" => WasPaid

Granting   == \E p \in Process : pc[p] = "grant"
Cancelling == \E p \in Process : pc[p] \in {"refund", "restore", "reverse"}
Refunding  == \E p \in Process : pc[p] \in {"refund", "restore"}

\* A paid order has its tokens or a handler about to grant them; a cancelled
\* one is reversed and refunded or has a handler on its way to that.
GrantOwed == "grant" \notin killed /\ WasPaid => granted \/ Granting

ReversalOwed ==
    "cancel" \notin killed /\ status = "cancelled"
      /\ (provider = "toss" \/ confirmed) => reversed \/ Cancelling

RefundOwed ==
    "cancel" \notin killed /\ status = "cancelled" /\ provider = "toss" =>
        money = "returned" \/ Refunding

Debts == ReversalsOfPaid /\ GrantOwed /\ ReversalOwed /\ RefundOwed

\* A reversal is made only of an order that was paid.
LEMMA ReversalsStep == OrderInv /\ Debts /\ [OrderNext]_orderVars => ReversalsOfPaid'
<1> SUFFICES ASSUME OrderInv, Debts, [OrderNext]_orderVars PROVE ReversalsOfPaid'
  OBVIOUS
<1> USE DEF OrderInv, OrderTypeOK, Columns, OrderTypes, HandlerTypes, Debts, Label,
            StatusAndMoney, ReversalsOfPaid, WasPaid
<1>1. CASE World
  BY <1>1 DEF World, Create, Authorise, Expire, Transfer, Mature, Later, orderRow,
              entries, known, history
<1>2. ASSUME NEW p \in Process, BeginHandler(p) PROVE ReversalsOfPaid'
  BY <1>2 DEF BeginHandler, BeginConfirm, BeginReconcile, BeginDeposit, BeginCancel,
              Cancellable, Enter, Forget, orderRow, entries, known, history
<1>3. ASSUME NEW p \in Process, Confirm(p) PROVE ReversalsOfPaid'
  BY <1>3 DEF Confirm, ApproveOk, ApproveRefused, ApproveUnclear, Unclear,
              ApproveWaits, Record, Refuse, FailIfPending, Enter, Forget, orderRow, entries, known,
              history, HandlerKnowledge, KnownAt
<1>4. ASSUME NEW p \in Process, Shared(p) \/ Reconcile(p) PROVE ReversalsOfPaid'
  BY <1>4 DEF Shared, Reread, GrantTokens, Reconcile, LookupAnswers, Abandon,
              Settle, FailIfPending, Enter, Forget, orderRow, entries, known,
              history
<1>5. ASSUME NEW p \in Process, Deposit(p) PROVE ReversalsOfPaid'
  BY <1>5 DEF Deposit, Enter, Forget, orderRow, entries, known, history
<1>6. ASSUME NEW p \in Process, Cancel(p) PROVE ReversalsOfPaid'
  <2> KnownAt(p)
    BY DEF HandlerKnowledge
  <2>1. CASE Claim(p)
    BY <2>1 DEF Claim, ClaimHolds, Enter, Forget, orderRow, entries, known, KnownAt,
                history
  <2>2. CASE RefundOk(p) \/ RefundFails(p)
    BY <2>2 DEF RefundOk, RefundFails, Enter, Forget, orderRow, entries, known, KnownAt,
                history
  <2>3. CASE Restore(p) \/ Reverse(p)
    BY <2>3 DEF Restore, Reverse, Enter, Forget, orderRow, entries, known, KnownAt,
                history
  <2> QED
    BY <1>6, <2>1, <2>2, <2>3 DEF Cancel
<1>7. ASSUME NEW p \in Process, LookupFails(p) \/ Kill(p) PROVE ReversalsOfPaid'
  BY <1>7 DEF LookupFails, Kill, Undone, Enter, Forget, orderRow, entries, known,
              history
<1>8. CASE UNCHANGED orderVars
  BY <1>8 DEF orderVars, orderRow, entries, known, history
<1> QED
  BY <1>1, <1>2, <1>3, <1>4, <1>5, <1>6, <1>7, <1>8 DEF OrderNext, Proceed

\* A paid order never loses the handler that owes it the tokens.
LEMMA GrantOwedStep == OrderInv /\ Debts /\ [OrderNext]_orderVars => GrantOwed'
<1> SUFFICES ASSUME OrderInv, Debts, [OrderNext]_orderVars PROVE GrantOwed'
  OBVIOUS
<1> USE DEF OrderInv, OrderTypeOK, Columns, OrderTypes, HandlerTypes, Debts, Label,
            StatusAndMoney, GrantOwed, WasPaid, Granting
<1>1. CASE World
  BY <1>1 DEF World, Create, Authorise, Expire, Transfer, Mature, Later, orderRow,
              entries, known, history
<1>2. ASSUME NEW p \in Process, BeginHandler(p) PROVE GrantOwed'
  BY <1>2 DEF BeginHandler, BeginConfirm, BeginReconcile, BeginDeposit, BeginCancel,
              Cancellable, Enter, Forget, orderRow, entries, known, history
<1>3. ASSUME NEW p \in Process, Confirm(p) PROVE GrantOwed'
  BY <1>3 DEF Confirm, ApproveOk, ApproveRefused, ApproveUnclear, Unclear,
              ApproveWaits, Record, Refuse, FailIfPending, Enter, Forget, orderRow, entries, known,
              history, HandlerKnowledge, KnownAt
<1>4. ASSUME NEW p \in Process, Shared(p) \/ Reconcile(p) PROVE GrantOwed'
  BY <1>4 DEF Shared, Reread, GrantTokens, Reconcile, LookupAnswers, Abandon,
              Settle, FailIfPending, Enter, Forget, orderRow, entries, known,
              history
<1>5. ASSUME NEW p \in Process, Deposit(p) PROVE GrantOwed'
  BY <1>5 DEF Deposit, Enter, Forget, orderRow, entries, known, history
<1>6. ASSUME NEW p \in Process, Cancel(p) PROVE GrantOwed'
  <2> KnownAt(p)
    BY DEF HandlerKnowledge
  <2>1. CASE Claim(p)
    BY <2>1 DEF Claim, ClaimHolds, Enter, Forget, orderRow, entries, known, KnownAt,
                history
  <2>2. CASE RefundOk(p) \/ RefundFails(p)
    BY <2>2 DEF RefundOk, RefundFails, Enter, Forget, orderRow, entries, known, KnownAt,
                history
  <2>3. CASE Restore(p) \/ Reverse(p)
    BY <2>3 DEF Restore, Reverse, Enter, Forget, orderRow, entries, known, KnownAt,
                history
  <2> QED
    BY <1>6, <2>1, <2>2, <2>3 DEF Cancel
<1>7. ASSUME NEW p \in Process, LookupFails(p) \/ Kill(p) PROVE GrantOwed'
  BY <1>7 DEF LookupFails, Kill, Undone, Enter, Forget, orderRow, entries, known,
              history
<1>8. CASE UNCHANGED orderVars
  BY <1>8 DEF orderVars, orderRow, entries, known, history
<1> QED
  BY <1>1, <1>2, <1>3, <1>4, <1>5, <1>6, <1>7, <1>8 DEF OrderNext, Proceed

\* A cancelled order never loses the handler that owes the reversal.
LEMMA ReversalOwedStep == OrderInv /\ Debts /\ [OrderNext]_orderVars => ReversalOwed'
<1> SUFFICES ASSUME OrderInv, Debts, [OrderNext]_orderVars PROVE ReversalOwed'
  OBVIOUS
<1> USE DEF OrderInv, OrderTypeOK, Columns, OrderTypes, HandlerTypes, Debts, Label,
            StatusAndMoney, ReversalOwed, Cancelling
<1>1. CASE World
  BY <1>1 DEF World, Create, Authorise, Expire, Transfer, Mature, Later, orderRow,
              entries, known, history
<1>2. ASSUME NEW p \in Process, BeginHandler(p) PROVE ReversalOwed'
  BY <1>2 DEF BeginHandler, BeginConfirm, BeginReconcile, BeginDeposit, BeginCancel,
              Cancellable, Enter, Forget, orderRow, entries, known, history
<1>3. ASSUME NEW p \in Process, Confirm(p) PROVE ReversalOwed'
  BY <1>3 DEF Confirm, ApproveOk, ApproveRefused, ApproveUnclear, Unclear,
              ApproveWaits, Record, Refuse, FailIfPending, Enter, Forget, orderRow, entries, known,
              history, HandlerKnowledge, KnownAt
<1>4. ASSUME NEW p \in Process, Shared(p) \/ Reconcile(p) PROVE ReversalOwed'
  BY <1>4 DEF Shared, Reread, GrantTokens, Reconcile, LookupAnswers, Abandon,
              Settle, FailIfPending, Enter, Forget, orderRow, entries, known,
              history
<1>5. ASSUME NEW p \in Process, Deposit(p) PROVE ReversalOwed'
  BY <1>5 DEF Deposit, Enter, Forget, orderRow, entries, known, history
<1>6. ASSUME NEW p \in Process, Cancel(p) PROVE ReversalOwed'
  <2> KnownAt(p)
    BY DEF HandlerKnowledge
  <2>1. CASE Claim(p)
    BY <2>1 DEF Claim, ClaimHolds, Enter, Forget, orderRow, entries, known, KnownAt,
                history
  <2>2. CASE RefundOk(p) \/ RefundFails(p)
    BY <2>2 DEF RefundOk, RefundFails, Enter, Forget, orderRow, entries, known, KnownAt,
                history
  <2>3. CASE Restore(p) \/ Reverse(p)
    BY <2>3 DEF Restore, Reverse, Enter, Forget, orderRow, entries, known, KnownAt,
                history
  <2> QED
    BY <1>6, <2>1, <2>2, <2>3 DEF Cancel
<1>7. ASSUME NEW p \in Process, LookupFails(p) \/ Kill(p) PROVE ReversalOwed'
  BY <1>7 DEF LookupFails, Kill, Undone, Enter, Forget, orderRow, entries, known,
              history
<1>8. CASE UNCHANGED orderVars
  BY <1>8 DEF orderVars, orderRow, entries, known, history
<1> QED
  BY <1>1, <1>2, <1>3, <1>4, <1>5, <1>6, <1>7, <1>8 DEF OrderNext, Proceed

\* A cancelled card payment never loses the handler that owes the refund.
LEMMA RefundOwedStep == OrderInv /\ Debts /\ [OrderNext]_orderVars => RefundOwed'
<1> SUFFICES ASSUME OrderInv, Debts, [OrderNext]_orderVars PROVE RefundOwed'
  OBVIOUS
<1> USE DEF OrderInv, OrderTypeOK, Columns, OrderTypes, HandlerTypes, Debts, Label,
            StatusAndMoney, RefundOwed, Refunding
<1>1. CASE World
  BY <1>1 DEF World, Create, Authorise, Expire, Transfer, Mature, Later, orderRow,
              entries, known, history
<1>2. ASSUME NEW p \in Process, BeginHandler(p) PROVE RefundOwed'
  BY <1>2 DEF BeginHandler, BeginConfirm, BeginReconcile, BeginDeposit, BeginCancel,
              Cancellable, Enter, Forget, orderRow, entries, known, history
<1>3. ASSUME NEW p \in Process, Confirm(p) PROVE RefundOwed'
  BY <1>3 DEF Confirm, ApproveOk, ApproveRefused, ApproveUnclear, Unclear,
              ApproveWaits, Record, Refuse, FailIfPending, Enter, Forget, orderRow, entries, known,
              history, HandlerKnowledge, KnownAt
<1>4. ASSUME NEW p \in Process, Shared(p) \/ Reconcile(p) PROVE RefundOwed'
  BY <1>4 DEF Shared, Reread, GrantTokens, Reconcile, LookupAnswers, Abandon,
              Settle, FailIfPending, Enter, Forget, orderRow, entries, known,
              history
<1>5. ASSUME NEW p \in Process, Deposit(p) PROVE RefundOwed'
  BY <1>5 DEF Deposit, Enter, Forget, orderRow, entries, known, history
<1>6. ASSUME NEW p \in Process, Cancel(p) PROVE RefundOwed'
  <2> KnownAt(p)
    BY DEF HandlerKnowledge
  <2>1. CASE Claim(p)
    BY <2>1 DEF Claim, ClaimHolds, Enter, Forget, orderRow, entries, known, KnownAt,
                history
  <2>2. CASE RefundOk(p) \/ RefundFails(p)
    BY <2>2 DEF RefundOk, RefundFails, Enter, Forget, orderRow, entries, known, KnownAt,
                history
  <2>3. CASE Restore(p) \/ Reverse(p)
    BY <2>3 DEF Restore, Reverse, Enter, Forget, orderRow, entries, known, KnownAt,
                history
  <2> QED
    BY <1>6, <2>1, <2>2, <2>3 DEF Cancel
<1>7. ASSUME NEW p \in Process, LookupFails(p) \/ Kill(p) PROVE RefundOwed'
  BY <1>7 DEF LookupFails, Kill, Undone, Enter, Forget, orderRow, entries, known,
              history
<1>8. CASE UNCHANGED orderVars
  BY <1>8 DEF orderVars, orderRow, entries, known, history
<1> QED
  BY <1>1, <1>2, <1>3, <1>4, <1>5, <1>6, <1>7, <1>8 DEF OrderNext, Proceed

\* When all handlers have returned the books balance: nothing is left owed.
THEOREM BooksAreBalanced == OrderSpec => []BooksBalance
<1>1. OrderInit => Debts
  BY DEF OrderInit, Debts, ReversalsOfPaid, GrantOwed, ReversalOwed, RefundOwed,
         WasPaid
<1>2. OrderInv /\ Debts /\ [OrderNext]_orderVars => Debts'
  BY ReversalsStep, GrantOwedStep, ReversalOwedStep, RefundOwedStep DEF Debts
<1>3. Debts => BooksBalance
  BY DEF Debts, ReversalsOfPaid, GrantOwed, ReversalOwed, RefundOwed, WasPaid,
         Granting, Cancelling, Refunding, BooksBalance, AtRest
<1> QED
  BY <1>1, <1>2, <1>3, OrderInvariant, PTL DEF OrderSpec
=============================================================================
