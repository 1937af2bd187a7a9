---------------------------- MODULE TokenLedger ----------------------------
(***************************************************************************)
(* The token wallet of one organisation and its ledger (lib/tokens.ts):    *)
(* charging a feature once, charging every success, refunding, granting    *)
(* and adjusting, by requests that run at the same time.  Wallets of       *)
(* different organisations share no row, so one wallet shows every race.   *)
(*                                                                         *)
(* Each request is a Call that performs one operation; every await between *)
(* two statements is a label.  The transaction that writes a ledger row    *)
(* and moves the wallet is one action, it commits or rolls back whole.     *)
(***************************************************************************)
EXTENDS Integers, Sequences, FiniteSets

CONSTANTS
    Call,       \* requests that touch the wallet
    Ref,        \* ids of the things paid for (a job, an interview, an order)
    Operations, \* the operations a call may perform, a subset of Operation
    Price,      \* token prices an administrator sets (0 is allowed)
    Credit,     \* amounts of grants and adjustments
    MaxTries,   \* rounds that chargeRepeatable tries: 5 in the code
    Faults,     \* may a transaction fail, or commit and lose its reply?
    NoRef

Operation == {"feature", "repeat", "refund", "grant", "adjust"}
Result == {"none", "applied", "already", "nothing", "threw"}
Step == {"idle", "count", "find", "charge", "once", "wallet", "open", "write", "end"}

ASSUME LedgerAssumption ==
    /\ Operations \subseteq Operation
    /\ Price \subseteq Nat /\ Credit \subseteq Int
    /\ MaxTries \in Nat \ {0}
    /\ Faults \in BOOLEAN
    /\ NoRef \notin Ref

VARIABLES
    ledger,   \* token_ledger: the rows in the order of their ids
    opened,   \* is there a row in token_wallets?
    wallet,   \* its balance
    notices,  \* low_balance notices sent
    drops,    \* history: times a charge took the balance from above 0 to 0 or less
    at,       \* of each call: its label,
    op, ref,  \*   operation and reference,
    round,    \*   number of the charge (ref_type, ref_type_re1, ...),
    amount,   \*   the delta it is about to write,
    prev,     \*   the balance read before writing (prevBalance),
    tries,    \*   rounds tried,
    result    \*   what it returned

rows     == <<ledger, opened, wallet>>
signals  == <<notices, drops>>
request  == <<op, ref>>
locals   == <<round, amount, prev, tries>>
vars == <<rows, signals, at, request, locals, result>>

Init ==
    /\ ledger = <<>> /\ opened = FALSE /\ wallet = 0
    /\ notices = 0 /\ drops = 0
    /\ at = [w \in Call |-> "idle"]
    /\ op = [w \in Call |-> "adjust"]
    /\ ref = [w \in Call |-> NoRef]
    /\ round = [w \in Call |-> 0] /\ amount = [w \in Call |-> 0]
    /\ prev = [w \in Call |-> 0] /\ tries = [w \in Call |-> 0]
    /\ result = [w \in Call |-> "none"]

-----------------------------------------------------------------------------
(* The ledger. *)

\* The reason column: chargeRepeatable writes the same rows as chargeFeature.
Reason(w) == IF op[w] = "repeat" THEN "feature" ELSE op[w]

Has(why, r, n) ==
    \E i \in 1..Len(ledger) :
        ledger[i].reason = why /\ ledger[i].ref = r /\ ledger[i].round = n

\* token_ledger_idem_uq on (org, reason, ref_type, ref_id); a manual adjustment
\* has no ref_type and is outside the partial index.
Taken(w) == op[w] # "adjust" /\ Has(Reason(w), ref[w], round[w])

\* Charges of a reference: the rows with a negative delta.
ChargesOf(r) ==
    {i \in 1..Len(ledger) :
        ledger[i].reason = "feature" /\ ledger[i].ref = r /\ ledger[i].delta < 0}

Goto(w, l) == at' = [at EXCEPT ![w] = l]
Return(w, x) == Goto(w, "end") /\ result' = [result EXCEPT ![w] = x]

-----------------------------------------------------------------------------
(* The operations up to their transaction.                                 *)

First(o) == CASE o \in {"feature", "grant"} -> "find"
              [] o = "repeat" -> "count"
              [] o = "refund" -> "charge"
              [] o = "adjust" -> "wallet"

Begin(w, o, r) ==
    /\ at[w] = "idle"
    /\ Goto(w, First(o))
    /\ op' = [op EXCEPT ![w] = o]
    /\ ref' = [ref EXCEPT ![w] = IF o = "adjust" THEN NoRef ELSE r]
    /\ \E d \in Credit : /\ o = "grant" => d > 0
                        /\ amount' = [amount EXCEPT ![w] =
                             IF o \in {"grant", "adjust"} THEN d ELSE 0]
    /\ UNCHANGED <<rows, signals, round, prev, tries, result>>

\* chargeRepeatable: the number of earlier charges names the next one.
CountCharges(w) ==
    /\ at[w] = "count"
    /\ round' = [round EXCEPT ![w] = Cardinality(ChargesOf(ref[w]))]
    /\ Goto(w, "find")
    /\ UNCHANGED <<rows, signals, request, amount, prev, tries, result>>

TriesLeft(w) == tries[w] + 1 < MaxTries

\* Mutant: collisions are not counted.
AlreadyUncounted(w) ==
    /\ IF op[w] = "repeat" /\ TriesLeft(w)
       THEN Goto(w, "count") /\ UNCHANGED result
       ELSE Return(w, "already")
    /\ UNCHANGED tries

\* A collision: chargeRepeatable counts again, everything else returns.
Already(w) ==
    /\ IF op[w] = "repeat" /\ TriesLeft(w)
       THEN Goto(w, "count") /\ UNCHANGED result
       ELSE Return(w, "already")
    /\ tries' = [tries EXCEPT ![w] = IF op[w] = "repeat" /\ TriesLeft(w)
                                     THEN @ + 1 ELSE @]

\* The SELECT for an existing row, then the price, which is cached per instance
\* and may be an earlier one.
FindExisting(w) ==
    /\ at[w] = "find"
    /\ IF Taken(w)
       THEN Already(w) /\ UNCHANGED amount
       ELSE /\ Goto(w, "wallet")
            /\ IF Reason(w) = "feature"
               THEN \E p \in Price : amount' = [amount EXCEPT ![w] = -p]
               ELSE UNCHANGED amount
            /\ UNCHANGED <<tries, result>>
    /\ UNCHANGED <<rows, signals, request, round, prev>>

\* Mutant: the charge is looked up by ref_id alone, whatever its round.
FindAnyCharge(w) ==
    /\ at[w] = "charge"
    /\ \E i \in ChargesOf(ref[w]) : amount' = [amount EXCEPT ![w] = -ledger[i].delta]
    /\ Goto(w, "once")
    /\ UNCHANGED <<rows, signals, request, round, prev, tries, result>>

\* refundFeature reads the charge (without one it returns the balance), ...
FindCharge(w) ==
    /\ at[w] = "charge"
    /\ \/ /\ ~Has("feature", ref[w], 0)
          /\ Goto(w, "wallet") /\ UNCHANGED amount
          /\ result' = [result EXCEPT ![w] = "nothing"]
       \/ \E i \in 1..Len(ledger) :
            /\ ledger[i].reason = "feature" /\ ledger[i].ref = ref[w]
            /\ ledger[i].round = 0
            /\ amount' = [amount EXCEPT ![w] = -ledger[i].delta]
            /\ Goto(w, "once") /\ UNCHANGED result
    /\ UNCHANGED <<rows, signals, request, round, prev, tries>>

\* ... then looks for an earlier refund.
FindRefund(w) ==
    /\ at[w] = "once"
    /\ IF Taken(w) THEN Return(w, "already")
                   ELSE Goto(w, "wallet") /\ UNCHANGED result
    /\ UNCHANGED <<rows, signals, request, locals>>

-----------------------------------------------------------------------------
(* ensureWallet: a SELECT, and an INSERT if there was no row.              *)

AfterWallet(w) == IF result[w] = "nothing" THEN "end" ELSE "write"

ReadWallet(w) ==
    /\ at[w] = "wallet"
    /\ Goto(w, IF opened THEN AfterWallet(w) ELSE "open")
    /\ prev' = [prev EXCEPT ![w] = wallet]
    /\ UNCHANGED <<rows, signals, request, round, amount, tries, result>>

\* The INSERT throws if another call opened the wallet in between.
OpenWallet(w) ==
    /\ at[w] = "open"
    /\ opened' = TRUE
    /\ IF opened THEN Return(w, "threw") ELSE Goto(w, AfterWallet(w)) /\ UNCHANGED result
    /\ UNCHANGED <<ledger, wallet, signals, request, locals>>

-----------------------------------------------------------------------------
(* writeLedgerIdempotent and writeLedger: one transaction.                 *)

\* Mutant: the balance of the row is computed from the earlier read.
StaleRow(w) ==
    [reason |-> Reason(w), ref |-> ref[w], round |-> round[w],
     delta |-> amount[w], after |-> prev[w] + amount[w]]

Row(w) ==
    [reason |-> Reason(w), ref |-> ref[w], round |-> round[w],
     delta |-> amount[w], after |-> wallet + amount[w]]

Commit(w) ==
    /\ ledger' = Append(ledger, Row(w))
    /\ wallet' = wallet + amount[w]
    /\ drops' = IF Reason(w) = "feature" /\ wallet > 0 /\ wallet + amount[w] <= 0
                THEN drops + 1 ELSE drops
    /\ UNCHANGED opened

\* The notice compares the new balance with the one read before.
NoticeDue(w) ==
    Reason(w) = "feature" /\ prev[w] > 0 /\ wallet + amount[w] <= 0

Write(w) ==
    /\ at[w] = "write" /\ ~Taken(w)
    /\ Commit(w)
    /\ notices' = IF NoticeDue(w) THEN notices + 1 ELSE notices
    /\ Return(w, "applied")
    /\ UNCHANGED <<request, locals>>

\* The unique index refuses the row: the transaction rolls back.
WriteRefused(w) ==
    /\ at[w] = "write" /\ Taken(w)
    /\ Already(w)
    /\ UNCHANGED <<rows, signals, request, round, amount, prev>>

\* The busy retries are exhausted, or the reply of a commit is lost.
WriteThrows(w) ==
    /\ Faults /\ at[w] = "write"
    /\ \/ UNCHANGED <<rows, signals>>
       \/ ~Taken(w) /\ Commit(w) /\ UNCHANGED notices
    /\ Return(w, "threw")
    /\ UNCHANGED <<request, locals>>

-----------------------------------------------------------------------------
CallStep(w) ==
    \/ CountCharges(w) \/ FindExisting(w) \/ FindCharge(w) \/ FindRefund(w)
    \/ ReadWallet(w) \/ OpenWallet(w) \/ Write(w) \/ WriteRefused(w)

Next ==
    \E w \in Call : \/ \E o \in Operations, r \in Ref : Begin(w, o, r)
                    \/ CallStep(w) \/ WriteThrows(w)

Spec == Init /\ [][Next]_vars
\* A request that runs is not suspended for ever.
FairSpec == Spec /\ \A w \in Call : WF_vars(CallStep(w))

-----------------------------------------------------------------------------
(* Properties. *)

LedgerRow ==
    [reason : {"feature", "refund", "grant", "adjust"}, ref : Ref \cup {NoRef},
     round : Nat, delta : Int, after : Int]

\* Every variable keeps its type; a keyed call has a reference.
TypeOK ==
    /\ ledger \in Seq(LedgerRow) /\ opened \in BOOLEAN /\ wallet \in Int
    /\ notices \in Nat /\ drops \in Nat
    /\ at \in [Call -> Step]
    /\ op \in [Call -> Operation] /\ ref \in [Call -> Ref \cup {NoRef}]
    /\ round \in [Call -> Nat] /\ amount \in [Call -> Int]
    /\ prev \in [Call -> Int] /\ tries \in [Call -> Nat]
    /\ result \in [Call -> Result]

\* Whatever calls race, a thing is charged, refunded or granted once per key.
UniqueKeys ==
    \A i, j \in 1..Len(ledger) :
        /\ i # j /\ ledger[i].reason # "adjust"
        /\ ledger[i].reason = ledger[j].reason
        => <<ledger[i].ref, ledger[i].round>> # <<ledger[j].ref, ledger[j].round>>

\* Every row carries the balance left by the rows up to it, and the wallet is
\* the balance of the last row: no movement is lost, doubled or unrecorded.
BalanceChain ==
    /\ \A i \in 1..Len(ledger) :
         ledger[i].after = ledger[i].delta + (IF i = 1 THEN 0 ELSE ledger[i-1].after)
    /\ wallet = (IF ledger = <<>> THEN 0 ELSE ledger[Len(ledger)].after)

\* A refund gives back what the same key was charged, although the price may
\* have changed since.
RefundsAreCharges ==
    \A j \in 1..Len(ledger) :
        ledger[j].reason = "refund" =>
            \E i \in 1..(j - 1) :
                /\ ledger[i].reason = "feature" /\ ledger[i].round = 0
                /\ ledger[i].ref = ledger[j].ref /\ ledger[i].delta = -ledger[j].delta

\* Of the calls that charge or grant the same thing, at most one is told that
\* it did, and only calls that find a row are told that it was done before.
OneIsApplied ==
    /\ \A v, w \in Call :
         /\ v # w /\ op[v] # "adjust" /\ Reason(v) = Reason(w)
         /\ result[v] = "applied" /\ result[w] = "applied"
         => <<ref[v], round[v]>> # <<ref[w], round[w]>>
    /\ \A w \in Call : result[w] = "already" => Has(Reason(w), ref[w], round[w])

\* Every success is charged ("one success, one charge" in chargeRepeatable): no
\* call is out of rounds and told that the charge was there already.
EverySuccessCharged == \A w \in Call : op[w] = "repeat" => result[w] # "already"

\* Every call returns, chargeRepeatable included: its collisions are counted, and
\* when its rounds are over it returns "already charged" (tokens.ts:476).
CallsReturn == \A w \in Call : (at[w] # "idle") ~> (at[w] = "end")

\* "One notice at the moment the balance falls to zero or below": no drop is
\* announced twice.
OneNoticePerDrop == notices <= drops
=============================================================================
