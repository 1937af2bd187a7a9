--------------------------- MODULE PaymentOrders ---------------------------
(***************************************************************************)
(* One row of payment_orders from checkout to refund: the success page     *)
(* that approves a card payment (POST /api/orgs/tokens/confirm), the cron  *)
(* that asks the provider about forgotten orders (reconcilePendingPayments),*)
(* the operator who confirms a bank transfer, and the administrators who   *)
(* cancel.  Orders share no state but the ledger, whose keys contain the   *)
(* order (TokenLedger, UniqueKeys), so one order shows every behaviour and *)
(* the ledger is two flags: granted and reversed.                          *)
(*                                                                         *)
(* Each await is a label of pc.  The payment provider is outside src/: it  *)
(* is modelled by the answers that lib/toss.ts and its callers handle.     *)
(***************************************************************************)
EXTENDS FiniteSets

CONSTANTS
    Client,    \* requests of the success page; a reload is another call
    Cron,      \* invocations of the reconciliation
    Operator,  \* people who press "deposit confirmed"
    Admin,     \* people who cancel
    DiesAt     \* labels of pc at which a handler may be killed

Process == Client \cup Cron \cup Operator \cup Admin

Label == {"idle", "approve", "record", "refuse", "reread", "grant", "lookup",
          "abandon", "settle", "deposit", "claim", "refund", "restore",
          "reverse"}

ASSUME PaymentAssumption ==
    /\ DiesAt \subseteq Label \ {"idle"}
    /\ (Client \cup Operator \cup Admin) \cap Cron = {}

VARIABLES
    provider,   \* payment_orders.provider: "toss" or "transfer"
    status,     \* payment_orders.status; "none" before the checkout
    confirmed,  \* payment_orders.confirmed_at is set (transfers)
    age,        \* of the order: under 15 minutes, 24 hours, 72 hours, over
    money,      \* of the customer, as the provider or the bank knows it
    granted,    \* the ledger has the charge row of the order
    reversed,   \* the ledger has the payment_cancel row of the order
    pc, seen, owes,  \* of each process: label, status read, tokens to take back
    killed,     \* history: may the tokens, or a refund, have been left undone
    disputed    \* history: was a request refused that the payment outlived?

orderRow     == <<provider, status, confirmed>>
entries  == <<granted, reversed>>
known  == <<seen, owes>>
history == <<killed, disputed>>
orderVars == <<orderRow, age, money, entries, pc, known, history>>

Enter(p, l) == pc' = [pc EXCEPT ![p] = l]

\* What the handler had read is of no more use.
Forget(p) == /\ seen' = [seen EXCEPT ![p] = "none"]
             /\ owes' = [owes EXCEPT ![p] = FALSE]

OrderInit ==
    /\ provider = "toss" /\ status = "none" /\ confirmed = FALSE
    /\ age = "new" /\ money = "none"
    /\ granted = FALSE /\ reversed = FALSE
    /\ pc = [p \in Process |-> "idle"]
    /\ seen = [p \in Process |-> "none"]
    /\ owes = [p \in Process |-> FALSE]
    /\ killed = {} /\ disputed = FALSE

-----------------------------------------------------------------------------
(* The customer, the clock and the provider.                               *)

\* Checkout and createTransferOrder insert a pending order.
Create(how) ==
    /\ status = "none"
    /\ status' = "pending" /\ provider' = how
    /\ UNCHANGED <<confirmed, age, money, entries, pc, known, history>>

\* The payment window authorises a card, before the window expires: no order
\* older than a day is still open in one.
Authorise ==
    /\ status # "none" /\ provider = "toss" /\ money = "none"
    /\ age \in {"new", "hours"}
    /\ money' = "authorised"
    /\ UNCHANGED <<orderRow, age, entries, pc, known, history>>

\* An authorisation that nobody approves ends (ABORTED, EXPIRED).
Expire ==
    /\ money = "authorised"
    /\ money' = "aborted"
    /\ UNCHANGED <<orderRow, age, entries, pc, known, history>>

\* The customer pays into the bank account, at any age of the order.
Transfer ==
    /\ status # "none" /\ provider = "transfer" /\ money = "none"
    /\ money' = "taken"
    /\ UNCHANGED <<orderRow, age, entries, pc, known, history>>

Mature ==
    /\ status # "none" /\ age = "new"
    /\ age' = "hours"
    /\ UNCHANGED <<orderRow, money, entries, pc, known, history>>

\* An authorisation lives for minutes only, and in the 57 hours left to a
\* forgotten payment the cron succeeds once.
Later ==
    /\ \/ age = "hours" /\ money # "authorised" /\ age' = "days"
       \/ age = "days" /\ ~(status = "pending" /\ money = "taken")
          /\ age' = "over"
    /\ UNCHANGED <<orderRow, money, entries, pc, known, history>>

-----------------------------------------------------------------------------
(* POST /api/orgs/tokens/confirm                                           *)

\* A request names the order and some payment key.  Neither the provider of the
\* order nor whose key it is is looked at: the order may be a transfer, and the
\* payment with that key another one or none.
BeginConfirm(p) ==
    /\ p \in Client /\ pc[p] = "idle"
    /\ status \in {"pending", "paid"}
    /\ Enter(p, IF status = "paid" THEN "grant" ELSE "approve")
    /\ UNCHANGED <<orderRow, age, money, entries, known, history>>

\* confirmTossPayment: the payment is DONE.
ApproveOk(p) ==
    /\ pc[p] = "approve" /\ money = "authorised"
    /\ money' = "taken"
    /\ Enter(p, "record")
    /\ UNCHANGED <<orderRow, age, entries, known, history>>

\* Every other error is a refusal: a declined card, which may end the
\* authorisation, an ended one, or a key that is not the order's, whatever has
\* become of the order's own payment.
ApproveRefused(p) ==
    /\ pc[p] = "approve"
    /\ money' \in {money} \cup {m \in {"aborted"} : money = "authorised"}
    /\ disputed' = (disputed \/ money' \in {"none", "authorised", "taken"})
    /\ Enter(p, "refuse")
    /\ UNCHANGED <<orderRow, age, entries, known, killed>>

\* Mutant: an unclear answer counts as a refusal.
RefusedIfUnclear == "refuse"
\* Mutant: an unclear answer counts as an approval.
ApprovedIfUnclear == "record"

\* NETWORK, ALREADY_PROCESSED_PAYMENT and UNKNOWN leave the order as it is.
Unclear == "reread"

\* The answer is lost, with or without effect, or the payment was approved
\* before.
ApproveUnclear(p) ==
    /\ pc[p] = "approve"
    /\ money' \in IF money = "authorised" THEN {"authorised", "taken"}
                                          ELSE {money}
    /\ Enter(p, Unclear)
    /\ UNCHANGED <<orderRow, age, entries, known, history>>

\* The answer is another state than DONE: the page says so and returns.
ApproveWaits(p) ==
    /\ pc[p] = "approve" /\ money = "authorised"
    /\ Enter(p, "idle")
    /\ UNCHANGED <<orderRow, age, money, entries, known, history>>

\* The UPDATE after the approval is not conditional.
Record(p) ==
    /\ pc[p] = "record"
    /\ status' = "paid"
    /\ Enter(p, "grant")
    /\ UNCHANGED <<provider, confirmed, age, money, entries, known, history>>

\* UPDATE ... SET status = 'failed' WHERE status = 'pending'.
FailIfPending(p) ==
    /\ status' = IF status = "pending" THEN "failed" ELSE status
    /\ Enter(p, "idle")
    /\ UNCHANGED <<provider, confirmed, age, money, entries, known, history>>

Refuse(p) == pc[p] = "refuse" /\ FailIfPending(p)

\* Another request may have settled the order in the meantime.
Reread(p) ==
    /\ pc[p] = "reread"
    /\ Enter(p, IF status = "paid" THEN "grant" ELSE "idle")
    /\ UNCHANGED <<orderRow, age, money, entries, known, history>>

\* applyChargePayment: once per order.
GrantTokens(p) ==
    /\ pc[p] = "grant"
    /\ granted' = TRUE
    /\ Enter(p, "idle")
    /\ UNCHANGED <<orderRow, age, money, reversed, known, history>>

-----------------------------------------------------------------------------
(* reconcilePendingPayments, every 15 minutes.                             *)

\* Mutant: the comparison with the minimal age is turned round.
ReconcilableYoung == status = "pending" /\ provider = "toss" /\ age = "new"

\* The rows it selects.
Reconcilable ==
    status = "pending" /\ provider = "toss" /\ age \in {"hours", "days"}

BeginReconcile(p) ==
    /\ p \in Cron /\ pc[p] = "idle" /\ Reconcilable
    /\ Enter(p, "lookup")
    /\ UNCHANGED <<orderRow, age, money, entries, known, history>>

\* No trace of a payment after a day, or the payment has ended.
Abandoned ==
    \/ money = "none" /\ age \in {"days", "over"}
    \/ money \in {"aborted", "returned"}

\* getTossPaymentByOrderId answers.
LookupAnswers(p) ==
    /\ pc[p] = "lookup"
    /\ Enter(p, IF money = "taken" THEN "settle"
               ELSE IF Abandoned THEN "abandon" ELSE "idle")
    /\ UNCHANGED <<orderRow, age, money, entries, known, history>>

\* The lookup fails, or what was paid is not the amount of the order, which is
\* reported: the order is left to the next round.
LookupFails(p) ==
    /\ pc[p] = "lookup"
    /\ Enter(p, "idle")
    /\ UNCHANGED <<orderRow, age, money, entries, known, history>>

\* markFailed.
Abandon(p) == pc[p] = "abandon" /\ FailIfPending(p)

\* UPDATE ... SET status = 'paid' WHERE status = 'pending'; the grant follows
\* whether or not it changed the row.
Settle(p) ==
    /\ pc[p] = "settle"
    /\ status' = IF status = "pending" THEN "paid" ELSE status
    /\ Enter(p, "grant")
    /\ UNCHANGED <<provider, confirmed, age, money, entries, known, history>>

-----------------------------------------------------------------------------
(* confirmTransferDeposit, after the operator saw the deposit.             *)

BeginDeposit(p) ==
    /\ p \in Operator /\ pc[p] = "idle"
    /\ provider = "transfer" /\ money = "taken"
    /\ status \in {"pending", "paid"}
    /\ Enter(p, IF status = "paid" THEN "grant" ELSE "deposit")
    /\ UNCHANGED <<orderRow, age, money, entries, known, history>>

\* pending -> paid, or a look at what the order has become.
Deposit(p) ==
    /\ pc[p] = "deposit"
    /\ IF status = "pending"
       THEN status' = "paid" /\ confirmed' = TRUE /\ Enter(p, "grant")
       ELSE Enter(p, "reread") /\ UNCHANGED <<status, confirmed>>
    /\ UNCHANGED <<provider, age, money, entries, known, history>>

-----------------------------------------------------------------------------
(* POST /api/admin/payments/[id]/cancel                                    *)

\* Which orders an administrator may cancel; a cancelled one is cancelled
\* again, which takes back the tokens of a call that was interrupted.
Cancellable ==
    \/ provider = "toss" /\ status = "paid"
    \/ provider = "transfer" /\ status \in {"pending", "paid"}

BeginCancel(p) ==
    /\ p \in Admin /\ pc[p] = "idle"
    /\ \/ /\ Cancellable /\ Enter(p, "claim")
          /\ seen' = [seen EXCEPT ![p] = status]
          /\ owes' = [owes EXCEPT ![p] = provider = "toss" \/ confirmed]
       \/ /\ status = "cancelled" /\ (provider = "toss" \/ confirmed)
          /\ Enter(p, "reverse") /\ UNCHANGED known
    /\ UNCHANGED <<orderRow, age, money, entries, history>>

\* Mutant: the claim is not conditional.
ClaimAnyway(p) == TRUE

\* WHERE status = the status read.
ClaimHolds(p) == status = seen[p]

Claim(p) ==
    /\ pc[p] = "claim"
    /\ IF ClaimHolds(p)
       THEN /\ status' = "cancelled"
            /\ Enter(p, IF provider = "toss" THEN "refund"
                       ELSE IF owes[p] THEN "reverse" ELSE "idle")
       ELSE Enter(p, "idle") /\ UNCHANGED status
    /\ Forget(p)
    /\ UNCHANGED <<provider, confirmed, age, money, entries, history>>

\* cancelTossPayment succeeds, or the payment was cancelled before.
RefundOk(p) ==
    /\ pc[p] = "refund"
    /\ money' = "returned"
    /\ Enter(p, "reverse")
    /\ UNCHANGED <<orderRow, age, entries, known, history>>

\* It fails, or its answer is lost.
RefundFails(p) ==
    /\ pc[p] = "refund"
    /\ money' \in {money, "returned"}
    /\ Enter(p, "restore")
    /\ UNCHANGED <<orderRow, age, entries, known, history>>

\* Back to paid, so that it can be tried again; not conditional.
Restore(p) ==
    /\ pc[p] = "restore"
    /\ status' = "paid"
    /\ Enter(p, "idle")
    /\ UNCHANGED <<provider, confirmed, age, money, entries, known, history>>

\* reverseChargePayment: once per order.
Reverse(p) ==
    /\ pc[p] = "reverse"
    /\ reversed' = TRUE
    /\ Enter(p, "idle")
    /\ UNCHANGED <<orderRow, age, money, granted, known, history>>

-----------------------------------------------------------------------------
\* What no other handler does when this label is the last: the grant, or the
\* end of a cancellation.
Undone(l) ==
    {work \in {"grant", "cancel"} :
        IF work = "grant" THEN l = "grant"
                          ELSE l \in {"refund", "restore", "reverse"}}

\* A handler is killed or one of its statements fails: the rest of it is lost.
Kill(p) ==
    /\ pc[p] \in DiesAt
    /\ killed' = killed \cup Undone(pc[p])
    /\ Enter(p, "idle") /\ Forget(p)
    /\ UNCHANGED <<orderRow, age, money, entries, disputed>>

World == \/ \E how \in {"toss", "transfer"} : Create(how)
         \/ Authorise \/ Expire \/ Transfer \/ Mature \/ Later

Confirm(p) == \/ ApproveOk(p) \/ ApproveRefused(p) \/ ApproveUnclear(p)
              \/ ApproveWaits(p) \/ Record(p) \/ Refuse(p)

Shared(p) == Reread(p) \/ GrantTokens(p)

Reconcile(p) == LookupAnswers(p) \/ Abandon(p) \/ Settle(p)

Cancel(p) == \/ Claim(p) \/ RefundOk(p) \/ RefundFails(p) \/ Restore(p)
             \/ Reverse(p)

BeginHandler(p) == \/ BeginConfirm(p) \/ BeginReconcile(p) \/ BeginDeposit(p)
            \/ BeginCancel(p)

\* A handler that was not killed goes on.
Proceed(p) == Confirm(p) \/ Shared(p) \/ Reconcile(p) \/ Deposit(p) \/ Cancel(p)

OrderNext ==
    \/ World
    \/ \E p \in Process : BeginHandler(p) \/ Proceed(p) \/ LookupFails(p) \/ Kill(p)

OrderSpec == OrderInit /\ [][OrderNext]_orderVars

\* The cron is started again and again, time passes, and now and then the
\* provider answers its lookup and it is not killed before it settles.
Fairness ==
    /\ WF_orderVars(Mature)
    /\ \A p \in Process : WF_orderVars(Proceed(p))
    /\ \A p \in Cron : /\ WF_orderVars(BeginReconcile(p))
                       /\ SF_orderVars(LookupAnswers(p)) /\ SF_orderVars(Settle(p))

OrderFairSpec == OrderSpec /\ Fairness

-----------------------------------------------------------------------------
(* Properties.                                                             *)

\* Only a transfer that was paid, and perhaps cancelled since, has a
\* confirmation.
Columns == confirmed => provider = "transfer" /\ status \in {"paid", "cancelled"}

Status == {"none", "pending", "paid", "failed", "cancelled"}

OrderTypes ==
    /\ provider \in {"toss", "transfer"}
    /\ status \in Status
    /\ confirmed \in BOOLEAN
    /\ age \in {"new", "hours", "days", "over"}
    /\ money \in {"none", "authorised", "aborted", "taken", "returned"}
    /\ granted \in BOOLEAN /\ reversed \in BOOLEAN

HandlerTypes ==
    /\ pc \in [Process -> Label]
    /\ seen \in [Process -> Status]
    /\ owes \in [Process -> BOOLEAN]
    /\ killed \in SUBSET {"grant", "cancel"}
    /\ disputed \in BOOLEAN

\* Types, and which columns each kind of order may use.
OrderTypeOK == Columns /\ OrderTypes /\ HandlerTypes

\* Tokens are granted only for money that was taken: no failed approval, lost
\* answer or early lookup leads to a grant.
GrantIsPaidFor == granted => money \in {"taken", "returned"}

AtRest == \A p \in Process : pc[p] = "idle"

\* An order marked failed has taken no money, although the page and the cron
\* decide on answers that are lost or that others have overtaken: nobody looks
\* at a failed order again, the payment would be lost.  Excepted is an order for
\* which a request was refused that its payment outlived.
FailedTookNoMoney ==
    status = "failed" /\ ~disputed => money \notin {"taken", "returned"}

\* ... without the exception: false of the code (a transfer that is posted to the
\* success page is refused and fails, and its deposit is not accepted any more).
NoPaymentIsLost == AtRest /\ status = "failed" => money # "taken"

\* When every handler has returned and none was killed at the end of its work,
\* tokens were taken back only where they had been granted, and a cancelled
\* order that had been paid has its tokens taken back and, on a card, its money
\* returned: whatever pages, cron and administrators interleaved.
BooksBalance ==
    AtRest /\ killed = {} =>
        /\ reversed => granted
        /\ status = "cancelled" /\ (provider = "toss" \/ confirmed)
              => reversed /\ (provider = "toss" => money = "returned")

\* A card payment that was taken is granted, with no help of the customer,
\* unless the handler that had marked the order paid is killed before it grants
\* (the cron looks at pending orders only), or a request that the payment
\* outlived was refused and the order marked failed.
TakenIsGranted ==
    (provider = "toss" /\ money = "taken") ~>
        \/ granted \/ "grant" \in killed
        \/ disputed /\ status = "failed"

\* The comments of the cancel route say that tokens are taken back once the
\* refund is certain, and that a failed refund takes none back.  False of the
\* code: a second administrator, or the retry after a kill, finds the order
\* cancelled and takes them back without a refund.
ReversedIsRefunded == provider = "toss" /\ reversed => money = "returned"
=============================================================================
