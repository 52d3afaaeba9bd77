-------------------------------- MODULE Dues --------------------------------
(***************************************************************************)
(* What a worker owes the platform and what it owes him: the dues of his   *)
(* account (debtLedgerService.ts), what the settlement and the refund of   *)
(* his jobs take from them and put back (paymentLifecycleService.ts), the  *)
(* online payment of dues (debtPaymentService.ts), and the double-entry    *)
(* ledger that records all of it a second time (ledgerService.ts), so that *)
(* the two can be compared (expectedWorkerBalances).                       *)
(*                                                                         *)
(* One worker.  A step is one transaction, or one call to the provider.    *)
(* Amounts are centavos.  How a payment comes to be captured or refunded   *)
(* is in Payment, how a payout is sent in Payout.                          *)
(***************************************************************************)
EXTENDS Integers, FiniteSets, FiniteSetsExt

CONSTANTS
    Jobs,           \* payments of the worker's jobs
    Others,         \* in the ledger: what belongs to none of them
    Share,          \* of an online job: the worker's part
    Cut,            \* of a cash job: commission and tax
    Charges,        \* amounts of penalties, fees and adjustments
    OddPayments,    \* what may be paid for dues instead of the amount asked for
    HoldLimit,      \* workerDebtHoldLimit, 0 for none
    MinPayment,     \* XENDIT_MIN_INVOICE_PESOS
    Rows,           \* DebtPayment rows
    MaxCharges,     \* bound on penalties, fees and adjustments
    MaxFaults,      \* bound on calls to the provider that fail, or take too long
    MaxCrashes      \* bound on handlers that die halfway

ASSUME JobsAssumption == IsFiniteSet(Jobs)

ASSUME AmountsAssumption ==
    /\ Others \notin Jobs
    /\ Share \in [Jobs -> Nat \ {0}]
    /\ Cut \in [Jobs -> Nat]
    /\ Charges \subseteq Nat \ {0}
    /\ OddPayments \subseteq Nat
    /\ HoldLimit \in Nat
    /\ MinPayment \in Nat \ {0}

ASSUME LimitsAssumption == MaxCharges \in Nat /\ MaxFaults \in Nat /\ MaxCrashes \in Nat

VARIABLES
    account,        \* commissionOwed, compensationCredit, debtHoldAt of the WorkerProfile
    payment,        \* Payment and Payout of each job
    at,             \* where the refund of a job is
    row,            \* DebtPayment rows
    remote,         \* their invoices at the provider
    quoted,         \* the balance a dues checkout has read
    books,          \* the ledger: what it says is owed to the worker, by job
    posted,         \* its idempotency keys, by job
    moved,          \* history: how each job changed credit - owed
    charges,
    faults,
    crashes

ledger == <<books, posted>>
checkout == <<row, remote, quoted>>
bounds == <<charges, faults, crashes>>
vars == <<account, payment, at, checkout, ledger, moved, bounds>>

\* "manual-loss" is the posting of a refund by hand that takes nothing from the
\* worker: its key is that of "manual-refund".
Keys == {"capture", "payout", "refund", "manual-refund", "manual-loss", "cash", "cash-refund"}
Entries == Jobs \cup {Others}

Account == [owed : Nat, credit : Nat, held : BOOLEAN]
PaymentRow == [status : {"NONE", "COMPLETED", "REFUNDED"}, method : {"NONE", "ONLINE", "PLATFORM", "CASH"},
               settled : BOOLEAN, reversed : BOOLEAN, recovered : Nat, compensationPaid : Nat,
               payout : {"NONE", "OPEN", "PAID", "CANCELLED"}, amount : Nat, posting : BOOLEAN,
               refund : {"NONE", "PENDING", "SUCCEEDED", "FAILED"}]
RefundSteps == {"none", "ask", "undo", "post", "write", "manualUndo", "manualWrite", "manualPost",
                "lossWrite", "lossPost"}
\* making: the request that is creating the invoice is still at it.
DuesRow == [status : {"NONE", "PENDING", "PAID", "EXPIRED", "FAILED"}, invoice : BOOLEAN,
            amount : Nat, making : {"no", "mint", "store"}]

(* Type invariant; in particular what is owed is never negative, and never  *)
(* more credit is used than there is.                                       *)
TypeOK ==
    /\ account \in Account
    /\ payment \in [Jobs -> PaymentRow]
    /\ at \in [Jobs -> RefundSteps]
    /\ row \in [Rows -> DuesRow]
    /\ remote \in [Rows -> {"NONE", "PENDING", "PAID", "EXPIRED"}]
    /\ quoted \in Nat
    /\ books \in [Entries -> Int]
    /\ posted \in [Jobs -> SUBSET Keys]
    /\ moved \in [Entries -> Int]
    /\ charges \in 0 .. MaxCharges
    /\ faults \in 0 .. MaxFaults
    /\ crashes \in 0 .. MaxCrashes

Unpaid == [status |-> "NONE", method |-> "NONE", settled |-> FALSE, reversed |-> FALSE,
           recovered |-> 0, compensationPaid |-> 0, payout |-> "NONE", amount |-> 0,
           posting |-> FALSE, refund |-> "NONE"]

Init ==
    /\ account = [owed |-> 0, credit |-> 0, held |-> FALSE]
    /\ payment = [j \in Jobs |-> Unpaid]
    /\ at = [j \in Jobs |-> "none"]
    /\ row = [d \in Rows |-> [status |-> "NONE", invoice |-> FALSE, amount |-> 0, making |-> "no"]]
    /\ remote = [d \in Rows |-> "NONE"]
    /\ quoted = 0
    /\ books = [e \in Entries |-> 0]
    /\ posted = [j \in Jobs |-> {}]
    /\ moved = [e \in Entries |-> 0]
    /\ charges = 0 /\ faults = 0 /\ crashes = 0

-----------------------------------------------------------------------------
(* The account: accrueDebtTx, creditDebtTx. *)

Least(m, n) == IF m <= n THEN m ELSE n

\* Mutant: the credit is left as it was.
AccruedUncovered(x, n) ==
    LET owed == x.owed + n IN
    [owed |-> owed, credit |-> x.credit,
     held |-> x.held \/ (HoldLimit > 0 /\ owed >= HoldLimit)]

\* Credit covers the debt first; what is added may put the worker on hold.
Accrued(x, n) ==
    LET owed == x.owed + (n - Least(x.credit, n)) IN
    [owed |-> owed, credit |-> x.credit - Least(x.credit, n),
     held |-> x.held \/ (HoldLimit > 0 /\ owed >= HoldLimit)]

\* Mutant: the balance goes below zero.
CreditedWhole(x, n) == [x EXCEPT !.owed = x.owed - n]

\* What is beyond the balance becomes credit.
Credited(x, n) ==
    [x EXCEPT !.owed = x.owed - Least(x.owed, n), !.credit = x.credit + (n - Least(x.owed, n))]

Net(x) == x.credit - x.owed

\* The account changes on behalf of a job, or of something else.
Change(e, x) ==
    /\ account' = x
    /\ moved' = [moved EXCEPT ![e] = @ + (Net(x) - Net(account))]

-----------------------------------------------------------------------------
(* The ledger: postLedger, of which only the worker's balance is kept. *)

\* A key is posted once.
Post(j, key, n) ==
    IF key \in posted[j]
    THEN UNCHANGED ledger
    ELSE /\ posted' = [posted EXCEPT ![j] = @ \cup {key}]
         /\ books' = [books EXCEPT ![j] = @ + n]

\* Penalties, fees and adjustments have a key of their own each.
PostOther(n) == books' = [books EXCEPT ![Others] = @ + n] /\ UNCHANGED posted

-----------------------------------------------------------------------------
(* Jobs are paid for. *)

\* finalizePaidBooking and settlePlatformFundedPayment.
Capture(j) ==
    /\ payment[j].status = "NONE"
    /\ \E m \in {"ONLINE", "PLATFORM"} :
          payment' = [payment EXCEPT ![j].status = "COMPLETED", ![j].method = m]
    /\ Post(j, "capture", Share[j])
    /\ UNCHANGED <<account, at, checkout, moved, bounds>>

\* settleCashBooking: the platform's part is accrued as dues.
SettleCash(j) ==
    /\ payment[j].status = "NONE"
    /\ payment' = [payment EXCEPT ![j].status = "COMPLETED", ![j].method = "CASH", ![j].settled = TRUE]
    /\ IF Cut[j] > 0
       THEN Change(j, Accrued(account, Cut[j])) /\ Post(j, "cash", 0 - Cut[j])
       ELSE UNCHANGED <<account, moved, ledger>>
    /\ UNCHANGED <<at, checkout, bounds>>

\* Mutant: the credit that is paid out stays on the account.
SettleKeepsCredit(j) ==
    LET recovered == Least(account.owed, Share[j])
        amount == (Share[j] - recovered) + account.credit IN
    /\ payment[j].status = "COMPLETED" /\ ~payment[j].settled
    /\ payment' = [payment EXCEPT ![j].settled = TRUE, ![j].recovered = recovered,
                                  ![j].compensationPaid = account.credit, ![j].amount = amount,
                                  ![j].payout = IF amount > 0 THEN "OPEN" ELSE "NONE"]
    /\ Change(j, [account EXCEPT !.owed = @ - recovered])
    /\ UNCHANGED <<at, checkout, ledger, bounds>>

\* settleWorkerEarnings: dues are recovered from the share, credit rides along.
\* Without a payout account the whole of it is undone, and tried again.
Settle(j) ==
    LET recovered == Least(account.owed, Share[j])
        amount == (Share[j] - recovered) + account.credit IN
    /\ payment[j].status = "COMPLETED" /\ ~payment[j].settled
    /\ payment' = [payment EXCEPT ![j].settled = TRUE, ![j].recovered = recovered,
                                  ![j].compensationPaid = account.credit, ![j].amount = amount,
                                  ![j].payout = IF amount > 0 THEN "OPEN" ELSE "NONE"]
    /\ Change(j, [account EXCEPT !.owed = @ - recovered, !.credit = 0])
    /\ UNCHANGED <<at, checkout, ledger, bounds>>

\* applyXenditPayoutStatus: the row first, then the posting.
PayoutSent(j) ==
    /\ payment[j].payout = "OPEN"
    /\ payment' = [payment EXCEPT ![j].payout = "PAID", ![j].posting = TRUE]
    /\ UNCHANGED <<account, at, checkout, ledger, moved, bounds>>

\* Or the provider has cancelled it, of its own accord.
PayoutCancelled(j) ==
    /\ payment[j].payout = "OPEN"
    /\ payment' = [payment EXCEPT ![j].payout = "CANCELLED"]
    /\ UNCHANGED <<account, at, checkout, ledger, moved, bounds>>

PostPayout(j) ==
    /\ payment[j].posting
    /\ payment' = [payment EXCEPT ![j].posting = FALSE]
    /\ Post(j, "payout", 0 - payment[j].amount)
    /\ UNCHANGED <<account, at, checkout, moved, bounds>>

\* The provider sent a payout that was cancelled.
PaidAfterCancel(j) ==
    /\ payment[j].payout = "CANCELLED"
    /\ Post(j, "payout", 0 - payment[j].amount)
    /\ UNCHANGED <<account, payment, at, checkout, moved, bounds>>

-----------------------------------------------------------------------------
(* Jobs are refunded: refundOrVoidPayment, reconcilePendingRefund. *)

\* stopWorkerPayout: it settles the payment itself before settleWorkerEarnings
\* does, or cancels the payout; one that is out stops the refund instead.
Stopped(p) == [p EXCEPT !.settled = TRUE, !.payout = IF @ = "OPEN" THEN "CANCELLED" ELSE @]

\* Mutant: whether the payout is out already is not asked.
RefundStopAlways(j) ==
    /\ at[j] = "none"
    /\ payment[j].status = "COMPLETED" /\ payment[j].method # "CASH"
    /\ payment' = [payment EXCEPT ![j] = Stopped(@)]
    /\ at' = [at EXCEPT ![j] = "ask"]
    /\ UNCHANGED <<account, checkout, ledger, moved, bounds>>

RefundStop(j) ==
    /\ at[j] = "none"
    /\ payment[j].status = "COMPLETED" /\ payment[j].method # "CASH" /\ payment[j].payout # "PAID"
    /\ payment' = [payment EXCEPT ![j] = Stopped(@)]
    /\ at' = [at EXCEPT ![j] = "ask"]
    /\ UNCHANGED <<account, checkout, ledger, moved, bounds>>

\* requestXenditRefund.  What the platform paid for was never paid by invoice:
\* the provider refuses, or there is no invoice to ask about.
RefundAsk(j) ==
    /\ at[j] = "ask"
    /\ \/ /\ payment[j].method = "PLATFORM"
          /\ \E next \in {"none", "undo"} : at' = [at EXCEPT ![j] = next]
          /\ UNCHANGED payment
       \/ /\ payment[j].method = "ONLINE"
          /\ \E s \in IF payment[j].refund = "SUCCEEDED" THEN {"SUCCEEDED"}
                      ELSE {"PENDING", "SUCCEEDED", "FAILED"} :
                /\ payment' = [payment EXCEPT ![j].refund = s]
                /\ at' = [at EXCEPT ![j] = CASE s = "SUCCEEDED" -> "undo"
                                             [] s = "PENDING" -> "write"
                                             [] OTHER -> "none"]
    /\ UNCHANGED <<account, checkout, ledger, moved, bounds>>

\* undoWorkerSettlement, claimed by settlementReversedAt.
UndoSettlement(j) ==
    IF payment[j].reversed THEN UNCHANGED <<account, payment, moved>>
    ELSE /\ payment' = [payment EXCEPT ![j].reversed = TRUE]
         /\ Change(j, Credited(Accrued(account, payment[j].recovered), payment[j].compensationPaid))

RefundUndo(j) ==
    /\ at[j] = "undo"
    /\ UndoSettlement(j)
    /\ at' = [at EXCEPT ![j] = IF payment[j].refund = "SUCCEEDED" THEN "post" ELSE "write"]
    /\ UNCHANGED <<checkout, ledger, bounds>>

\* Mutant: what is posted is what the worker would have been sent.
RefundPostAmount(j) ==
    /\ at[j] = "post"
    /\ Post(j, "refund", 0 - payment[j].amount)
    /\ at' = [at EXCEPT ![j] = "write"]
    /\ UNCHANGED <<account, payment, checkout, moved, bounds>>

RefundPost(j) ==
    /\ at[j] = "post"
    /\ Post(j, "refund", 0 - Share[j])
    /\ at' = [at EXCEPT ![j] = "write"]
    /\ UNCHANGED <<account, payment, checkout, moved, bounds>>

RefundWrite(j) ==
    /\ at[j] = "write"
    /\ payment' = [payment EXCEPT ![j].status = "REFUNDED"]
    /\ at' = [at EXCEPT ![j] = "none"]
    /\ UNCHANGED <<account, checkout, ledger, moved, bounds>>

\* The sweep hears how a pending refund ended.
RefundSucceeded(j) ==
    /\ at[j] = "none" /\ payment[j].status = "REFUNDED" /\ payment[j].refund = "PENDING"
    /\ payment' = [payment EXCEPT ![j].refund = "SUCCEEDED"]
    /\ at' = [at EXCEPT ![j] = "undo"]
    /\ UNCHANGED <<account, checkout, ledger, moved, bounds>>

RefundFailed(j) ==
    /\ at[j] = "none" /\ payment[j].status = "REFUNDED" /\ payment[j].refund = "PENDING"
    /\ payment' = [payment EXCEPT ![j].status = "COMPLETED", ![j].refund = "FAILED"]
    /\ UNCHANGED <<account, at, checkout, ledger, moved, bounds>>

\* A cash job: the claim, the reversal and the posting in one transaction.
RefundCash(j) ==
    /\ payment[j].status = "COMPLETED" /\ payment[j].method = "CASH"
    /\ payment' = [payment EXCEPT ![j].status = "REFUNDED"]
    /\ IF Cut[j] > 0
       THEN Change(j, Credited(account, Cut[j])) /\ Post(j, "cash-refund", Cut[j])
       ELSE UNCHANGED <<account, moved, ledger>>
    /\ UNCHANGED <<at, checkout, bounds>>

-----------------------------------------------------------------------------
(* markRefundedManually. *)

\* A payout that is out, or on its way and not to be stopped, is no reason not
\* to go on.
ManualStop(j) ==
    /\ at[j] = "none" /\ payment[j].status = "COMPLETED"
    /\ \/ /\ payment[j].method = "CASH"
          /\ at' = [at EXCEPT ![j] = "manualWrite"]
          /\ UNCHANGED payment
       \/ /\ payment[j].method # "CASH" /\ payment[j].payout # "PAID"
          /\ at' = [at EXCEPT ![j] = "manualUndo"]
          /\ payment' = [payment EXCEPT ![j] = Stopped(@)]
       \/ /\ payment[j].method # "CASH" /\ payment[j].payout \in {"OPEN", "PAID"}
          /\ at' = [at EXCEPT ![j] = "lossWrite"]
          /\ UNCHANGED payment
    /\ UNCHANGED <<account, checkout, ledger, moved, bounds>>

\* The request may be decided by someone else in the meantime.
ManualUndo(j) ==
    /\ at[j] = "manualUndo"
    /\ UndoSettlement(j)
    /\ \E next \in {"none", "manualWrite"} : at' = [at EXCEPT ![j] = next]
    /\ UNCHANGED <<checkout, ledger, bounds>>

ManualWrite(j) ==
    /\ at[j] \in {"manualWrite", "lossWrite"}
    /\ payment' = [payment EXCEPT ![j].status = "REFUNDED"]
    /\ at' = [at EXCEPT ![j] = CASE at[j] = "lossWrite" -> "lossPost"
                                 [] payment[j].method = "CASH" -> "none"
                                 [] OTHER -> "manualPost"]
    /\ UNCHANGED <<account, checkout, ledger, moved, bounds>>

\* postManualRefund, under one key whatever it posts.
PostManual(j, key, n) ==
    IF posted[j] \cap {"manual-refund", "manual-loss"} # {} THEN UNCHANGED ledger ELSE Post(j, key, n)

\* The worker's part is a loss if he was found to have it already, or to get it.
ManualPost(j) ==
    /\ \/ at[j] = "manualPost" /\ PostManual(j, "manual-refund", 0 - Share[j])
       \/ at[j] = "lossPost" /\ PostManual(j, "manual-loss", 0)
    /\ at' = [at EXCEPT ![j] = "none"]
    /\ UNCHANGED <<account, payment, checkout, moved, bounds>>

-----------------------------------------------------------------------------
(* Penalties, compensations, adjustments, holds. *)

Charged == charges < MaxCharges /\ charges' = charges + 1

\* Mutant: only what the credit does not cover is posted.
PenaltyUncovered(n) ==
    /\ Charged
    /\ Change(Others, Accrued(account, n))
    /\ PostOther(0 - (n - Least(account.credit, n)))
    /\ UNCHANGED <<payment, at, checkout, faults, crashes>>

\* chargePenaltyTx, and adminAdjustDebt that adds to the dues.
Penalty(n) ==
    /\ Charged
    /\ Change(Others, Accrued(account, n))
    /\ PostOther(0 - n)
    /\ UNCHANGED <<payment, at, checkout, faults, crashes>>

\* applyClientFaultCompensationTx.
Compensation(n) ==
    /\ Charged
    /\ Change(Others, Credited(account, n))
    /\ PostOther(n)
    /\ UNCHANGED <<payment, at, checkout, faults, crashes>>

\* adminAdjustDebt: no more than what is owed can be waived.
Waive(n) ==
    /\ Charged
    /\ n <= account.owed
    /\ Change(Others, Credited(account, n))
    /\ PostOther(n)
    /\ UNCHANGED <<payment, at, checkout, faults, crashes>>

\* releaseDebtHold, by an admin.
ReleaseHold ==
    /\ account.held
    /\ account' = [account EXCEPT !.held = FALSE]
    /\ UNCHANGED <<payment, at, checkout, ledger, moved, bounds>>

-----------------------------------------------------------------------------
(* The worker pays his dues online. *)

\* createDebtPaymentInvoice reads the balance first.
Quote ==
    /\ account.owed > 0
    /\ quoted' = account.owed
    /\ UNCHANGED <<account, payment, at, row, remote, ledger, moved, bounds>>

\* resolveAmount: at least half of it, or what the provider asks at least.
Half(n) == (n + 1) \div 2
Largest(m, n) == IF m >= n THEN m ELSE n
Payable(n) == Least(n, Largest(Half(n), MinPayment)) .. n

\* One PENDING row for each worker (DebtPayment_one_pending_per_worker).
CreateRow(d) ==
    /\ quoted > 0
    /\ \A e \in Rows : row[e].status # "PENDING"
    /\ row[d].status = "NONE"
    /\ \E n \in Payable(quoted) :
          row' = [row EXCEPT ![d] = [status |-> "PENDING", invoice |-> FALSE, amount |-> n, making |-> "mint"]]
    /\ UNCHANGED <<account, payment, at, remote, quoted, ledger, moved, bounds>>

\* createInvoice; when it fails the row is given up, whatever it has become,
\* and whether or not there is an invoice.
MintInvoice(d) ==
    /\ row[d].making = "mint"
    /\ \/ /\ remote' = [remote EXCEPT ![d] = "PENDING"]
          /\ row' = [row EXCEPT ![d].making = "store"]
          /\ UNCHANGED faults
       \/ /\ faults < MaxFaults /\ faults' = faults + 1
          /\ remote' = remote \/ remote' = [remote EXCEPT ![d] = "PENDING"]
          /\ row' = [row EXCEPT ![d].making = "no", ![d].status = "FAILED"]
    /\ UNCHANGED <<account, payment, at, quoted, ledger, moved, charges, crashes>>

StoreInvoice(d) ==
    /\ row[d].making = "store"
    /\ row' = [row EXCEPT ![d].making = "no", ![d].invoice = TRUE]
    /\ UNCHANGED <<account, payment, at, remote, quoted, ledger, moved, bounds>>

\* Mutant: a row left without an invoice id is given up.
RecoverNever(d) ==
    /\ row[d].status = "PENDING" /\ ~row[d].invoice /\ row[d].making = "no"
    /\ row' = [row EXCEPT ![d].status = "FAILED"]
    /\ UNCHANGED <<account, payment, at, remote, quoted, faults, ledger, moved, charges, crashes>>

\* recoverUnfinishedDebtPayment, five minutes after: nobody is at it any more,
\* unless a call to the provider takes longer than that.
RecoverRow(d) ==
    /\ row[d].status = "PENDING" /\ ~row[d].invoice
    /\ \/ row[d].making = "no" /\ UNCHANGED faults
       \/ row[d].making # "no" /\ faults < MaxFaults /\ faults' = faults + 1
    /\ row' = IF remote[d] # "NONE" THEN [row EXCEPT ![d].invoice = TRUE]
                                    ELSE [row EXCEPT ![d].status = "FAILED"]
    /\ UNCHANGED <<account, payment, at, remote, quoted, ledger, moved, charges, crashes>>

PayDues(d) ==
    /\ remote[d] = "PENDING"
    /\ remote' = [remote EXCEPT ![d] = "PAID"]
    /\ UNCHANGED <<account, payment, at, row, quoted, ledger, moved, bounds>>

DuesInvoiceExpires(d) ==
    /\ remote[d] = "PENDING"
    /\ remote' = [remote EXCEPT ![d] = "EXPIRED"]
    /\ UNCHANGED <<account, payment, at, row, quoted, ledger, moved, bounds>>

\* applyDebtPaymentTx: paid in full, the worker is off hold.
PaidDown(x, n) ==
    LET y == Credited(x, n) IN [y EXCEPT !.held = y.held /\ y.owed > 0]

\* finalizeDebtPayment, from the webhook, the sweep or the next checkout: the
\* claim, the credit and the posting in one transaction.  What is credited is
\* what the provider says was paid, or else what was asked for.
FinalizeDues(d) ==
    /\ row[d].status = "PENDING" /\ row[d].invoice /\ remote[d] = "PAID"
    /\ row' = [row EXCEPT ![d].status = "PAID"]
    /\ \E paid \in {row[d].amount} \cup OddPayments :
          Change(Others, PaidDown(account, paid)) /\ PostOther(paid)
    /\ UNCHANGED <<payment, at, remote, quoted, bounds>>

\* failDebtPayment, likewise.
FailDues(d) ==
    /\ row[d].status = "PENDING" /\ row[d].invoice /\ remote[d] = "EXPIRED"
    /\ row' = [row EXCEPT ![d].status = "EXPIRED"]
    /\ UNCHANGED <<account, payment, at, remote, quoted, ledger, moved, bounds>>

-----------------------------------------------------------------------------
(* The specification. *)

\* A handler dies between two steps.
Crash ==
    /\ crashes < MaxCrashes
    /\ crashes' = crashes + 1
    /\ \/ \E j \in Jobs : /\ at[j] # "none" /\ at' = [at EXCEPT ![j] = "none"]
                          /\ UNCHANGED <<payment, row>>
       \/ \E j \in Jobs : /\ payment[j].posting /\ payment' = [payment EXCEPT ![j].posting = FALSE]
                          /\ UNCHANGED <<at, row>>
       \/ \E d \in Rows : /\ row[d].making # "no" /\ row' = [row EXCEPT ![d].making = "no"]
                          /\ UNCHANGED <<at, payment>>
    /\ UNCHANGED <<account, remote, quoted, ledger, moved, charges, faults>>

JobStep(j) ==
    \/ Capture(j) \/ SettleCash(j) \/ Settle(j) \/ PayoutSent(j) \/ PayoutCancelled(j)
    \/ PostPayout(j) \/ PaidAfterCancel(j)
    \/ RefundStop(j) \/ RefundAsk(j) \/ RefundUndo(j) \/ RefundPost(j) \/ RefundWrite(j)
    \/ RefundSucceeded(j) \/ RefundFailed(j) \/ RefundCash(j)
    \/ ManualStop(j) \/ ManualUndo(j) \/ ManualWrite(j) \/ ManualPost(j)

ChargeStep(n) == Penalty(n) \/ Compensation(n) \/ Waive(n)

RowStep(d) ==
    \/ CreateRow(d) \/ MintInvoice(d) \/ StoreInvoice(d) \/ RecoverRow(d)
    \/ PayDues(d) \/ DuesInvoiceExpires(d) \/ FinalizeDues(d) \/ FailDues(d)

Next ==
    \/ \E j \in Jobs : JobStep(j)
    \/ \E n \in Charges : ChargeStep(n)
    \/ \E d \in Rows : RowStep(d)
    \/ ReleaseHold \/ Quote \/ Crash

Spec == Init /\ [][Next]_vars

\* The sweep asks about every PENDING row again and again.
FairSpec == Spec /\ \A d \in Rows : WF_vars(RecoverRow(d)) /\ WF_vars(FinalizeDues(d))

-----------------------------------------------------------------------------
(* The worker is never owed credit while he owes dues: each settlement,     *)
(* refund, penalty, compensation and payment nets the two (accrueDebtTx,    *)
(* creditDebtTx), in whatever order they come.                              *)
NeverBoth == account.owed = 0 \/ account.credit = 0

Effect(j) ==
    CASE payment[j].method = "CASH" -> IF "cash-refund" \in posted[j] THEN 0 ELSE 0 - Cut[j]
      [] payment[j].method # "CASH" /\ payment[j].reversed -> 0
      [] OTHER -> payment[j].recovered - payment[j].compensationPaid

(* A settlement that is undone leaves no trace on the account: what was     *)
(* recovered is owed again, what was paid out is his again, once, however   *)
(* often the refund is tried (undoWorkerSettlement, reverseDebtTx).         *)
UndoneInFull == \A j \in Jobs : moved[j] = Effect(j)

\* expectedWorkerBalances: what the records say is owed to the worker for a job.
Due(j) ==
    LET p == payment[j]
        Live == p.status = "COMPLETED" /\ p.method # "CASH" IN
    IF p.payout = "OPEN" \/ (p.payout = "CANCELLED" /\ p.status = "COMPLETED" /\ ~p.reversed)
    THEN p.amount
    ELSE IF Live /\ ~p.settled THEN Share[j] ELSE 0

\* The postings a refund or a payout still has to make, or never will.  A payout
\* cancelled when a refund by hand has counted on it leaves the worker a balance
\* for good.
Refunded(j) == payment[j].reversed \/ (payment[j].status = "REFUNDED" /\ payment[j].method # "CASH")
RefundPostings(j) == posted[j] \cap {"refund", "manual-refund"}
ClaimedUnsettled(j) ==
    payment[j].settled /\ payment[j].payout = "NONE" /\ payment[j].recovered = 0 /\ payment[j].method # "CASH"
Late(j) ==
    \/ payment[j].payout = "PAID" /\ "payout" \notin posted[j]
    \/ payment[j].payout = "CANCELLED" /\ "payout" \in posted[j]
    \/ /\ Refunded(j) \/ ClaimedUnsettled(j)
       /\ payment[j].payout \in {"NONE", "CANCELLED"} /\ RefundPostings(j) = {}
    \/ RefundPostings(j) = {"refund", "manual-refund"}
    \/ RefundPostings(j) # {} /\ ~Refunded(j)

(* "Each worker's balance matches their dues, credit and unpaid payouts":   *)
(* the two books of the same money agree (buildReconciliation), whatever is *)
(* netted against whatever, but for jobs whose refund or payout is halfway. *)
WorkersAgree ==
    (\A j \in Jobs : ~Late(j)) =>
        MapThenSumSet(LAMBDA e : books[e], Entries)
            = Net(account) + MapThenSumSet(Due, Jobs)

(* And why: job by job, and for all that belongs to none.                   *)
EntriesAgree ==
    /\ books[Others] = moved[Others]
    /\ \A j \in Jobs : ~Late(j) => books[j] = moved[j] + Due(j)

\* What settles, stops, undoes and posts rely on, for a job.
Earned(j) == payment[j].method \in {"ONLINE", "PLATFORM"}
PayoutStopped(j) == payment[j].settled /\ payment[j].payout \in {"NONE", "CANCELLED"}

\* How a settlement adds up, or that there is none.
SettlementInv(j) ==
    LET p == payment[j]
        Nothing == p.recovered = 0 /\ p.compensationPaid = 0 /\ p.amount = 0 /\ p.payout = "NONE" IN
    /\ ~p.settled => Nothing
    /\ p.settled /\ Earned(j) => Nothing \/ p.amount = (Share[j] - p.recovered) + p.compensationPaid
    /\ p.payout = "NONE" => p.amount = 0
    /\ p.posting => p.payout = "PAID"
    /\ p.method = "CASH" => p.settled /\ Nothing

\* How far a refund may have come.
RefundInv(j) ==
    LET p == payment[j] IN
    /\ p.status = "NONE" <=> p.method = "NONE"
    /\ p.status = "NONE" => ~p.settled /\ at[j] = "none"
    /\ p.method = "CASH" => ~p.reversed /\ at[j] \in {"none", "manualWrite"}
    /\ p.reversed => PayoutStopped(j)
    /\ p.refund # "NONE" => p.method = "ONLINE" /\ PayoutStopped(j)
    /\ p.status = "REFUNDED" /\ Earned(j) => p.settled
    /\ at[j] \in {"ask", "undo", "post", "write", "manualUndo"} => Earned(j) /\ PayoutStopped(j)
    /\ at[j] = "post" => p.reversed
    /\ at[j] \in {"manualWrite", "manualPost"} => p.method = "CASH" \/ p.reversed
    /\ at[j] = "manualPost" => Earned(j)
    /\ at[j] \in {"lossWrite", "lossPost"} => Earned(j) /\ p.settled /\ p.payout # "NONE"

If(b, n) == IF b THEN n ELSE 0

\* What has been posted, and what it comes to.
BooksInv(j) ==
    LET p == payment[j] IN
    /\ p.status = "NONE" => posted[j] = {}
    /\ p.method = "CASH" => /\ posted[j] \subseteq {"cash", "cash-refund"}
                            /\ p.status = "COMPLETED" => "cash-refund" \notin posted[j]
    /\ Earned(j) => "capture" \in posted[j] /\ posted[j] \subseteq Keys \ {"cash", "cash-refund"}
    /\ "payout" \in posted[j] => p.payout \in {"PAID", "CANCELLED"}
    /\ "refund" \in posted[j] => p.reversed
    /\ "manual-refund" \in posted[j] => p.reversed
    /\ "manual-loss" \in posted[j] => p.settled /\ p.payout # "NONE"
    /\ books[j] = CASE p.method = "NONE" -> 0
                     [] p.method = "CASH" -> Effect(j)
                     [] OTHER -> ((Share[j] - If("payout" \in posted[j], p.amount))
                                      - If("refund" \in posted[j], Share[j]))
                                      - If("manual-refund" \in posted[j], Share[j])

(* The invariant behind the agreement of the two books and the undoing of   *)
(* settlements: a refund that has begun finds the settlement claimed, and   *)
(* no payout on its way unless it takes nothing from the worker             *)
(* (stopWorkerPayout, markRefundedManually), a settlement adds up, and the  *)
(* postings are those of what happened.                                     *)
DuesInv ==
    /\ books[Others] = moved[Others]
    /\ \A j \in Jobs : SettlementInv(j) /\ RefundInv(j) /\ BooksInv(j)

(* While the provider answers, dues that are paid are credited, even when   *)
(* the process died before it knew of the invoice.                          *)
PaidIsCredited ==
    \A d \in Rows : (remote[d] = "PAID" /\ faults = 0) ~> (row[d].status = "PAID" \/ faults > 0)

(* "A refund still in progress can show a temporary difference"             *)
(* (buildReconciliation): once no refund and no payout is, there is none.   *)
DifferencesAreTemporary ==
    (\A j \in Jobs : at[j] = "none" /\ ~payment[j].posting /\ payment[j].refund # "PENDING") =>
        MapThenSumSet(LAMBDA e : books[e], Entries)
            = Net(account) + MapThenSumSet(Due, Jobs)

(* Whatever dues and credit are netted: the earnings of each job are        *)
(* claimed once, a payout PAID or CANCELLED stays so, a job is refunded by  *)
(* the provider, or its settlement undone, only while none is open or paid, *)
(* and a refund by hand is posted as a loss only where there is a payout    *)
(* (refundOrVoidPayment, undoWorkerSettlement, markRefundedManually).       *)
OfWorker == INSTANCE Earnings WITH
    Payments <- Jobs,
    claimed <- [j \in Jobs |-> payment[j].settled],
    payout <- [j \in Jobs |-> payment[j].payout],
    returned <- [j \in Jobs |->
                    CASE payment[j].reversed \/ payment[j].refund \in {"PENDING", "SUCCEEDED"} -> "BACK"
                      [] "manual-loss" \in posted[j] -> "LOSS"
                      [] OTHER -> "NO"]

FollowsEarnings == OfWorker!Spec
=============================================================================
