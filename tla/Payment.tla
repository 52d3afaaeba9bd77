------------------------------ MODULE Payment -------------------------------
(***************************************************************************)
(* The online payment of one booking, from the worker's invoice on: the    *)
(* checkout that mints an invoice at the payment provider (Xendit), what   *)
(* the provider's webhooks and the reconciling sweep make of it, the voids *)
(* and platform-funded settlements that compete with it, and the refund of *)
(* what was captured (paymentLifecycleService.ts, refundRequestService.ts, *)
(* paymentController.ts).                                                  *)
(*                                                                         *)
(* A step is one statement or transaction of the database, or one call to  *)
(* the provider.  An invoice is named by the order in which the provider   *)
(* made it; a refund by its place in the chain of idempotency keys         *)
(* refund-<payment>, refund-<payment>-after-<refund>, ...                  *)
(***************************************************************************)
EXTENDS Naturals

CONSTANTS
    Calls,          \* requests, webhooks and sweeps that can be in flight
    MaxInvoices,    \* bound on the invoices minted
    MaxRefunds,     \* bound on the chain of refunds
    MaxRequests,    \* bound on RefundRequest rows
    MaxFaults,      \* bound on calls to the provider that fail or time out
    MaxCrashes      \* bound on handlers that die halfway

ASSUME BoundsAssumption ==
    /\ MaxInvoices \in Nat \ {0}
    /\ MaxRefunds \in Nat \ {0}
    /\ MaxRequests \in Nat \ {0}
    /\ MaxFaults \in Nat
    /\ MaxCrashes \in Nat

VARIABLES
    booking,        \* Booking.status, once the invoice of the job is sent
    payment,        \* the Payment row
    payout,         \* its Payout row, in outline
    invoice,        \* the provider's invoices
    refund,         \* the provider's refunds
    request,        \* RefundRequest rows
    flagged,        \* a payment was put in the audit log for manual review
    call,           \* what is in flight
    faults,
    crashes

rows == <<booking, payment, payout, request, flagged>>
remote == <<invoice, refund>>
vars == <<booking, payment, payout, invoice, refund, request, flagged, call, faults, crashes>>

Invoices == 1 .. MaxInvoices
Refunds == 1 .. MaxRefunds
Requests == 1 .. MaxRequests
NoId == 0

BookingStatuses == {"PENDING_COMPLETION", "AWAITING_PAYMENT", "DISPUTED", "COMPLETED", "CANCELLED"}
COMPLETABLE_STATUSES == {"PENDING_COMPLETION", "AWAITING_PAYMENT", "DISPUTED"}
PayableStatuses == {"PENDING_COMPLETION", "AWAITING_PAYMENT"}
PaymentStatuses == {"NONE", "PENDING", "COMPLETED", "FAILED", "REFUNDED"}
\* PAID and SETTLED are PAID; SHORT is one of them with too small a paid_amount.
InvoiceStatuses == {"NONE", "PENDING", "PAID", "SHORT", "EXPIRED"}
Received == {"PAID", "SHORT"}
\* FAILED and CANCELLED are FAILED.
RefundStatuses == {"NONE", "PENDING", "SUCCEEDED", "FAILED"}
LiveRefund == {"PENDING", "SUCCEEDED"}
RequestStatuses == {"NONE", "PENDING", "APPROVED", "FAILED", "REJECTED", "REFUNDED_MANUALLY"}
Undecided == {"PENDING", "FAILED"}

Steps == {"idle", "read", "resume", "recheck", "prepare", "mint", "store", "bill",
          "finalize", "settle", "fail", "reconcile", "void", "expire", "failVoid", "fund",
          "ask", "file", "refundOrVoid", "stop", "refund", "storeRefund", "undo", "refunded",
          "failRequest", "remoteRefund", "refundDone", "reopen", "failApproved",
          "manualStop", "manualUndo", "manualClaim", "manualWrite"}

PaymentRow == [status : PaymentStatuses, invoice : Invoices \cup {NoId},
               settled : BOOLEAN, reversed : BOOLEAN, platformFunded : BOOLEAN,
               refund : Refunds \cup {NoId}, refundStatus : RefundStatuses, refundedAt : BOOLEAN]
\* for: who waits for the result; found: there was a Payment row (a checkout),
\* a COMPLETED one (a manual refund).
CallRecord == [at : Steps, for : {"none", "checkout", "request", "sweep"}, found : BOOLEAN,
               invoice : Invoices \cup {NoId}, refund : Refunds \cup {NoId},
               status : RefundStatuses, request : Requests \cup {NoId}]

\* What a call has in hand at the step it has come to.
InHand(k) ==
    /\ k.at \in {"resume", "recheck", "store", "finalize", "reconcile", "expire", "refund"} =>
         k.invoice # NoId
    /\ k.at \in {"storeRefund", "remoteRefund", "refundDone", "reopen"} => k.refund # NoId
    /\ k.at \in {"failRequest", "manualStop", "manualUndo", "manualClaim"} \/ k.for = "request" =>
         k.request # NoId

(* Type invariant: rows, remote objects and calls have the fields of their  *)
(* kind, and no call asks the provider about an invoice or refund that its  *)
(* row did not name.                                                        *)
TypeOK ==
    /\ booking \in BookingStatuses
    /\ payment \in PaymentRow
    /\ payout \in {"NONE", "OPEN", "PAID", "CANCELLED"}
    /\ invoice \in [Invoices -> InvoiceStatuses]
    /\ refund \in [Refunds -> RefundStatuses]
    /\ request \in [Requests -> RequestStatuses]
    /\ flagged \in BOOLEAN
    /\ call \in [Calls -> CallRecord]
    /\ \A c \in Calls : InHand(call[c])
    /\ faults \in 0 .. MaxFaults
    /\ crashes \in 0 .. MaxCrashes

Idle == [at |-> "idle", for |-> "none", found |-> FALSE, invoice |-> NoId,
         refund |-> NoId, status |-> "NONE", request |-> NoId]

Init ==
    /\ booking = "PENDING_COMPLETION"
    /\ payment = [status |-> "NONE", invoice |-> NoId, settled |-> FALSE, reversed |-> FALSE,
                  platformFunded |-> FALSE, refund |-> NoId, refundStatus |-> "NONE",
                  refundedAt |-> FALSE]
    /\ payout = "NONE"
    /\ invoice = [i \in Invoices |-> "NONE"]
    /\ refund = [r \in Refunds |-> "NONE"]
    /\ request = [q \in Requests |-> "NONE"]
    /\ flagged = FALSE
    /\ call = [c \in Calls |-> Idle]
    /\ faults = 0
    /\ crashes = 0

-----------------------------------------------------------------------------
(* Helpers. *)

At(c, at) == call[c].at = at
Begin(c, at) == At(c, "idle") /\ call' = [call EXCEPT ![c].at = at]
Continue(c, at) == call' = [call EXCEPT ![c].at = at]
Return(c) == call' = [call EXCEPT ![c] = Idle]
\* Nothing in hand is needed any more.
Turn(c, at) == call' = [call EXCEPT ![c] = [Idle EXCEPT !.at = at]]
Found(c, at) == call' = [call EXCEPT ![c].at = at, ![c].found = payment.status # "NONE",
                                     ![c].invoice = payment.invoice]

\* A call to the provider fails, or only its answer is lost.
Fault == faults < MaxFaults /\ faults' = faults + 1
NoFault == UNCHANGED faults

\* An exception: a checkout that was looking at its old invoice mints a new one,
\* an approved refund request fails, anything else is the caller's error.
Throw(c) ==
    CASE call[c].for = "checkout" -> Continue(c, "prepare")
      [] call[c].for = "request" -> Continue(c, "failRequest")
      [] OTHER -> Return(c)

Flag == flagged' = TRUE

-----------------------------------------------------------------------------
(* The client, and the provider. *)

PayInvoice(i) ==
    /\ invoice[i] = "PENDING"
    /\ \E s \in Received : invoice' = [invoice EXCEPT ![i] = s]
    /\ UNCHANGED <<rows, refund, call, faults, crashes>>

InvoiceExpires(i) ==
    /\ invoice[i] = "PENDING"
    /\ invoice' = [invoice EXCEPT ![i] = "EXPIRED"]
    /\ UNCHANGED <<rows, refund, call, faults, crashes>>

RefundEnds(r) ==
    /\ refund[r] = "PENDING"
    /\ \E s \in {"SUCCEEDED", "FAILED"} : refund' = [refund EXCEPT ![r] = s]
    /\ UNCHANGED <<rows, invoice, call, faults, crashes>>

\* What Payout.tla tells in full: it is reported as sent, or as cancelled.
PayoutReported ==
    /\ payout = "OPEN"
    /\ payout' \in {"PAID", "CANCELLED"}
    /\ UNCHANGED <<booking, payment, remote, request, flagged, call, faults, crashes>>

-----------------------------------------------------------------------------
(* The booking moves on around its payment. *)

\* reportInvoice, up to the void of the invoice.
ReportInvoice(c) ==
    /\ booking \in PayableStatuses
    /\ payment.status # "COMPLETED"
    /\ booking' = "DISPUTED"
    /\ Begin(c, "void")
    /\ UNCHANGED <<payment, payout, request, flagged, remote, faults, crashes>>

\* resolveDispute that keeps or adjusts the invoice, or the worker completing
\* again from the dispute: it is raised again.
InvoiceKept(c) ==
    /\ booking = "DISPUTED"
    /\ booking' = "PENDING_COMPLETION"
    /\ Begin(c, "read")
    /\ UNCHANGED <<payment, payout, request, flagged, remote, faults, crashes>>

\* A cancellation, or a dispute resolved by one (a COMPLETED booking stays so).
CancelBooking(c) ==
    /\ booking # "CANCELLED"
    /\ booking' = IF booking = "COMPLETED" THEN booking ELSE "CANCELLED"
    /\ Begin(c, "ask")
    /\ UNCHANGED <<payment, payout, request, flagged, remote, faults, crashes>>

-----------------------------------------------------------------------------
(* createCompletionInvoice. *)

\* completeBooking, confirmCompletion, createXenditCheckout, resolveNonPaymentDispute.
Checkout(c) ==
    /\ booking \in PayableStatuses
    /\ Begin(c, "read")
    /\ UNCHANGED <<rows, remote, faults, crashes>>

CheckoutRead(c) ==
    /\ At(c, "read")
    /\ CASE payment.status = "COMPLETED" -> Return(c)
         [] payment.status = "PENDING" /\ payment.invoice # NoId -> Found(c, "resume")
         [] payment.status = "FAILED" /\ payment.invoice # NoId -> Found(c, "recheck")
         [] OTHER -> Found(c, "prepare")
    /\ UNCHANGED <<rows, remote, faults, crashes>>

\* A PENDING invoice is used again, a paid one finalized; an error mints anew.
CheckoutResume(c) ==
    LET i == call[c].invoice IN
    /\ At(c, "resume")
    /\ \/ Fault /\ Continue(c, "prepare")
       \/ /\ NoFault
          /\ CASE invoice[i] \in Received ->
                    call' = [call EXCEPT ![c].at = "finalize", ![c].for = "checkout"]
               [] invoice[i] = "PENDING" -> Return(c)
               [] OTHER -> Continue(c, "prepare")
    /\ UNCHANGED <<rows, remote, crashes>>

\* A voided invoice that was paid all the same is for an admin to look at.
CheckoutRecheck(c) ==
    /\ At(c, "recheck")
    /\ \/ Fault /\ Return(c) /\ UNCHANGED flagged
       \/ /\ NoFault
          /\ IF invoice[call[c].invoice] \in Received
             THEN Flag /\ Return(c)
             ELSE Continue(c, "prepare") /\ UNCHANGED flagged
    /\ UNCHANGED <<booking, payment, payout, request, remote, crashes>>

\* The row is written whatever it has become since; creating a second one
\* fails on the unique bookingId.
CheckoutPrepare(c) ==
    /\ At(c, "prepare")
    /\ IF ~call[c].found /\ payment.status # "NONE"
       THEN Return(c) /\ UNCHANGED payment
       ELSE /\ payment' = [payment EXCEPT !.status = "PENDING", !.invoice = NoId]
            /\ Turn(c, "mint")
    /\ UNCHANGED <<booking, payout, request, flagged, remote, faults, crashes>>

\* The next invoice, if the bound allows one.
NextInvoice == {i \in Invoices : invoice[i] = "NONE" /\ \A j \in 1 .. i - 1 : invoice[j] # "NONE"}

\* createInvoice knows no idempotency key.  Past the bound it fails.
CheckoutMint(c) ==
    /\ At(c, "mint")
    /\ \/ \E i \in NextInvoice :
             /\ NoFault
             /\ invoice' = [invoice EXCEPT ![i] = "PENDING"]
             /\ call' = [call EXCEPT ![c].at = "store", ![c].invoice = i]
       \/ /\ Fault /\ Return(c)
          /\ \/ UNCHANGED invoice
             \/ \E i \in NextInvoice : invoice' = [invoice EXCEPT ![i] = "PENDING"]
       \/ NextInvoice = {} /\ NoFault /\ Return(c) /\ UNCHANGED invoice
    /\ UNCHANGED <<rows, refund, crashes>>

CheckoutStore(c) ==
    /\ At(c, "store")
    /\ payment' = [payment EXCEPT !.invoice = call[c].invoice]
    /\ Turn(c, "bill")
    /\ UNCHANGED <<booking, payout, request, flagged, remote, faults, crashes>>

CheckoutBill(c) ==
    /\ At(c, "bill")
    /\ booking' = IF booking \in PayableStatuses THEN "AWAITING_PAYMENT" ELSE booking
    /\ Return(c)
    /\ UNCHANGED <<payment, payout, request, flagged, remote, faults, crashes>>

-----------------------------------------------------------------------------
(* finalizePaidBooking and settleWorkerEarnings. *)

\* Mutant: the amount paid is not compared with the total.
FinalizeShort(c) ==
    /\ At(c, "finalize")
    /\ IF payment.status # "COMPLETED" /\ booking \in COMPLETABLE_STATUSES
       THEN /\ payment' = [payment EXCEPT !.status = "COMPLETED"]
            /\ booking' = "COMPLETED"
       ELSE UNCHANGED <<booking, payment>>
    /\ Turn(c, "settle")
    /\ UNCHANGED <<payout, request, flagged, remote, faults, crashes>>

\* The claim and the booking in one transaction.  A payment too small is for an
\* admin; so is one for a booking that no longer waits, which throws.
Finalize(c) ==
    /\ At(c, "finalize")
    /\ CASE payment.status = "COMPLETED" ->
              Turn(c, "settle") /\ UNCHANGED <<booking, payment, flagged>>
         [] payment.status # "COMPLETED" /\ invoice[call[c].invoice] = "SHORT" ->
              Flag /\ Return(c) /\ UNCHANGED <<booking, payment>>
         [] payment.status # "COMPLETED" /\ invoice[call[c].invoice] # "SHORT"
                /\ booking \in COMPLETABLE_STATUSES ->
              /\ payment' = [payment EXCEPT !.status = "COMPLETED"]
              /\ booking' = "COMPLETED"
              /\ Turn(c, "settle")
              /\ UNCHANGED flagged
         [] OTHER -> Flag /\ Throw(c) /\ UNCHANGED <<booking, payment>>
    /\ UNCHANGED <<payout, request, remote, faults, crashes>>

\* The claim and the payout in one transaction, undone while the worker has no
\* payout account.  Dues may eat the whole amount: no payout.
SettleWorkerEarnings ==
    /\ payment.status = "COMPLETED" /\ ~payment.settled
    /\ payment' = [payment EXCEPT !.settled = TRUE]
    /\ payout' \in {"NONE", "OPEN"}

Settle(c) ==
    /\ At(c, "settle")
    /\ SettleWorkerEarnings \/ UNCHANGED <<payment, payout>>
    /\ Return(c)
    /\ UNCHANGED <<booking, request, flagged, remote, faults, crashes>>

\* The sweep over payments COMPLETED and not settled.
SelfHeal(c) ==
    /\ payment.status = "COMPLETED" /\ ~payment.settled
    /\ Begin(c, "settle")
    /\ UNCHANGED <<rows, remote, faults, crashes>>

-----------------------------------------------------------------------------
(* The webhook of an invoice, and the sweep for those that got lost. *)

\* handleInvoicePaid, which asks the provider as well.  An invoice no row
\* names is not heard.
InvoicePaid(c, i) ==
    /\ invoice[i] \in Received
    /\ payment.invoice = i
    /\ \/ /\ payment.status = "FAILED"
          /\ Flag
          /\ At(c, "idle") /\ UNCHANGED call
       \/ /\ payment.status = "PENDING"
          /\ At(c, "idle") /\ Found(c, "finalize")
          /\ UNCHANGED flagged
    /\ UNCHANGED <<booking, payment, payout, request, remote, faults, crashes>>

\* Mutant: a late report counts against a payment that is no longer PENDING.
InvoiceFailedLate(c, i) ==
    /\ invoice[i] = "EXPIRED"
    /\ payment.invoice = i
    /\ Begin(c, "fail")
    /\ UNCHANGED <<rows, remote, faults, crashes>>

\* handleInvoiceFailed, up to its write.
InvoiceFailed(c, i) ==
    /\ invoice[i] = "EXPIRED"
    /\ payment.status = "PENDING" /\ payment.invoice = i
    /\ Begin(c, "fail")
    /\ UNCHANGED <<rows, remote, faults, crashes>>

\* The payment is FAILED, whatever it has become since.
Fail(c) ==
    /\ At(c, "fail")
    /\ payment' = [payment EXCEPT !.status = "FAILED"]
    /\ Return(c)
    /\ UNCHANGED <<booking, payout, request, flagged, remote, faults, crashes>>

\* reconcilePendingPayment.
Reconcile(c) ==
    /\ payment.status = "PENDING" /\ payment.invoice # NoId
    /\ At(c, "idle") /\ Found(c, "reconcile")
    /\ UNCHANGED <<rows, remote, faults, crashes>>

\* Mutant: a paid invoice is left to its webhook.
ReconcileExpired(c) ==
    /\ At(c, "reconcile")
    /\ IF invoice[call[c].invoice] = "EXPIRED" THEN Turn(c, "fail") ELSE Return(c)
    /\ UNCHANGED <<rows, remote, faults, crashes>>

ReconcileRemote(c) ==
    /\ At(c, "reconcile")
    /\ \/ Fault /\ Return(c)
       \/ /\ NoFault
          /\ CASE invoice[call[c].invoice] \in Received -> Continue(c, "finalize")
               [] invoice[call[c].invoice] = "EXPIRED" -> Turn(c, "fail")
               [] OTHER -> Return(c)
    /\ UNCHANGED <<rows, remote, crashes>>

-----------------------------------------------------------------------------
(* voidUnpaidPayment, and the settlement the platform pays for. *)

VoidRead(c) ==
    /\ At(c, "void")
    /\ CASE payment.status # "PENDING" -> Return(c)
         [] payment.status = "PENDING" /\ payment.invoice = NoId -> Turn(c, "failVoid")
         [] OTHER -> Found(c, "expire")
    /\ UNCHANGED <<rows, remote, faults, crashes>>

\* An invoice is expired before the payment is given up, unless it was paid;
\* a provider that does not answer leaves it payable, or its payment unseen.
VoidExpire(c) ==
    LET i == call[c].invoice IN
    /\ At(c, "expire")
    /\ \/ /\ NoFault
          /\ IF invoice[i] \in Received
             THEN Return(c) /\ UNCHANGED invoice
             ELSE Turn(c, "failVoid") /\ invoice' = [invoice EXCEPT ![i] = "EXPIRED"]
       \/ Fault /\ Turn(c, "failVoid") /\ UNCHANGED invoice
    /\ UNCHANGED <<rows, refund, crashes>>

VoidFail(c) ==
    /\ At(c, "failVoid")
    /\ payment' = [payment EXCEPT !.status = "FAILED", !.refundedAt = TRUE]
    /\ Return(c)
    /\ UNCHANGED <<booking, payout, request, flagged, remote, faults, crashes>>

\* settlePlatformFundedPayment, from resolveNonPaymentDispute.
PayFromPlatform(c) ==
    /\ booking = "AWAITING_PAYMENT"
    /\ payment.status # "NONE"
    /\ Begin(c, IF payment.status = "COMPLETED" THEN "settle" ELSE "fund")
    /\ UNCHANGED <<rows, remote, faults, crashes>>

Fund(c) ==
    /\ At(c, "fund")
    /\ IF booking \in {"AWAITING_PAYMENT", "DISPUTED"}
       THEN /\ booking' = "COMPLETED"
            /\ payment' = [payment EXCEPT !.status = "COMPLETED", !.platformFunded = TRUE]
            /\ Turn(c, "settle")
       ELSE Return(c) /\ UNCHANGED <<booking, payment>>
    /\ UNCHANGED <<payout, request, flagged, remote, faults, crashes>>

-----------------------------------------------------------------------------
(* A refund is asked for, and decided by an admin. *)

\* requestRefund: what was never paid is voided at once.
RequestRefund(c) ==
    /\ At(c, "ask")
    /\ CASE payment.status = "PENDING" -> Turn(c, "void")
         [] payment.status = "COMPLETED" -> Continue(c, "file")
         [] OTHER -> Return(c)
    /\ UNCHANGED <<rows, remote, faults, crashes>>

\* Under the lock on the payment row: one open request at a time.
FileRequest(c) ==
    /\ At(c, "file")
    /\ IF \/ \E q \in Requests : request[q] \in Undecided
          \/ \A q \in Requests : request[q] # "NONE"
       THEN UNCHANGED request
       ELSE \E q \in Requests : request[q] = "NONE" /\ request' = [request EXCEPT ![q] = "PENDING"]
    /\ Return(c)
    /\ UNCHANGED <<booking, payment, payout, flagged, remote, faults, crashes>>

\* approveRefundRequest: the claim, and then the refund.
ApproveRequest(c, q) ==
    /\ At(c, "idle")
    /\ request[q] \in Undecided
    /\ request' = [request EXCEPT ![q] = "APPROVED"]
    /\ call' = [call EXCEPT ![c].at = "refundOrVoid", ![c].for = "request", ![c].request = q]
    /\ UNCHANGED <<booking, payment, payout, flagged, remote, faults, crashes>>

FailRequest(c) ==
    /\ At(c, "failRequest")
    /\ request' = [request EXCEPT ![call[c].request] = "FAILED"]
    /\ Return(c)
    /\ UNCHANGED <<booking, payment, payout, flagged, remote, faults, crashes>>

RejectRequest(q) ==
    /\ request[q] \in Undecided
    /\ request' = [request EXCEPT ![q] = "REJECTED"]
    /\ UNCHANGED <<booking, payment, payout, flagged, remote, call, faults, crashes>>

\* refundPayment, by the client: a PENDING payment is voided.  (A COMPLETED one
\* becomes a dispute.)
ClientVoids(c) ==
    /\ payment.status = "PENDING"
    /\ Begin(c, "refundOrVoid")
    /\ UNCHANGED <<rows, remote, faults, crashes>>

-----------------------------------------------------------------------------
(* refundOrVoidPayment of an online payment. *)

RefundRead(c) ==
    /\ At(c, "refundOrVoid")
    /\ CASE payment.status = "PENDING" -> Turn(c, "void")
         [] payment.status = "COMPLETED" ->
              call' = [call EXCEPT ![c].at = "stop", ![c].invoice = payment.invoice,
                                   ![c].refund = payment.refund]
         [] OTHER -> Return(c)
    /\ UNCHANGED <<rows, remote, faults, crashes>>

\* stopWorkerPayout, in outline: it settles the payment itself before anyone
\* else does, or cancels the payout, or fails since it is out or on its way.
StopWorkerPayout ==
    \/ /\ ~payment.settled
       /\ payment' = [payment EXCEPT !.settled = TRUE]
       /\ UNCHANGED payout
    \/ /\ payment.settled /\ payout # "PAID"
       /\ payout' = IF payout = "OPEN" THEN "CANCELLED" ELSE payout
       /\ UNCHANGED payment
PayoutNotStopped == payment.settled /\ payout \in {"OPEN", "PAID"}

\* Mutant: a payout that cannot be stopped does not hold the refund up.
RefundAnyway(c) ==
    /\ At(c, "stop")
    /\ Continue(c, IF call[c].invoice = NoId THEN "undo" ELSE "refund")
    /\ StopWorkerPayout \/ (PayoutNotStopped /\ UNCHANGED <<payment, payout>>)
    /\ UNCHANGED <<booking, request, flagged, remote, faults, crashes>>

RefundStop(c) ==
    /\ At(c, "stop")
    /\ \/ /\ StopWorkerPayout
          /\ Continue(c, IF call[c].invoice = NoId THEN "undo" ELSE "refund")
       \/ /\ PayoutNotStopped
          /\ Throw(c)
          /\ UNCHANGED <<payment, payout>>
    /\ UNCHANGED <<booking, request, flagged, remote, faults, crashes>>

\* Mutant: the idempotency key does not name the refund that came before.
RequestAnewEachTime(c) ==
    /\ At(c, "refund")
    /\ \E r \in {k \in Refunds : refund[k] = "NONE"}, s \in {"PENDING", "SUCCEEDED"} :
          /\ refund' = [refund EXCEPT ![r] = s]
          /\ call' = [call EXCEPT ![c].at = "storeRefund", ![c].refund = r, ![c].status = s]
    /\ UNCHANGED <<rows, invoice, faults, crashes>>

ReusesPrior(c) == call[c].refund # NoId /\ refund[call[c].refund] \in LiveRefund

\* The provider makes one refund for each key, of an invoice that was paid.
\* Past the bound it refuses.
CanRefund(c) ==
    IF ReusesPrior(c) \/ call[c].refund = MaxRefunds THEN FALSE
    ELSE refund[call[c].refund + 1] # "NONE" \/ invoice[call[c].invoice] \in Received

CreateRefund(c) ==
    LET r == call[c].refund + 1 IN
    /\ CanRefund(c)
    /\ IF refund[r] # "NONE" THEN UNCHANGED refund
       ELSE \E s \in RefundStatuses \ {"NONE"} : refund' = [refund EXCEPT ![r] = s]

\* requestXenditRefund: a prior refund is looked up and used again while it
\* lives; else another is made under a key that names it.
RequestXenditRefund(c) ==
    /\ At(c, "refund")
    /\ \/ /\ NoFault /\ ReusesPrior(c)
          /\ call' = [call EXCEPT ![c].at = "storeRefund", ![c].status = refund[call[c].refund]]
          /\ UNCHANGED refund
       \/ /\ NoFault /\ CreateRefund(c)
          /\ call' = [call EXCEPT ![c].at = "storeRefund", ![c].refund = @ + 1,
                                  ![c].status = refund'[call[c].refund + 1]]
       \/ /\ NoFault /\ ~ReusesPrior(c) /\ ~CanRefund(c)
          /\ Throw(c) /\ UNCHANGED refund
       \/ /\ Fault /\ Throw(c)
          /\ CreateRefund(c) \/ UNCHANGED refund
    /\ UNCHANGED <<rows, invoice, crashes>>

RefundStore(c) ==
    /\ At(c, "storeRefund")
    /\ payment' = [payment EXCEPT !.refund = call[c].refund, !.refundStatus = call[c].status]
    /\ CASE call[c].status = "SUCCEEDED" -> Continue(c, "undo")
         [] call[c].status = "PENDING" -> Continue(c, "refunded")
         [] OTHER -> Throw(c)
    /\ UNCHANGED <<booking, payout, request, flagged, remote, faults, crashes>>

\* undoWorkerSettlement, claimed by settlementReversedAt; then postRefundSent.
Undo(c) ==
    /\ At(c, "undo")
    /\ payment' = [payment EXCEPT !.reversed = TRUE]
    /\ IF call[c].for = "sweep" THEN Return(c) ELSE Continue(c, "refunded")
    /\ UNCHANGED <<booking, payout, request, flagged, remote, faults, crashes>>

\* Whatever the row has become since.
Refunded(c) ==
    /\ At(c, "refunded")
    /\ payment' = [payment EXCEPT !.status = "REFUNDED", !.refundedAt = TRUE,
          !.refund = IF call[c].status = "NONE" THEN @ ELSE call[c].refund,
          !.refundStatus = IF call[c].status = "NONE" THEN @ ELSE call[c].status]
    /\ Return(c)
    /\ UNCHANGED <<booking, payout, request, flagged, remote, faults, crashes>>

-----------------------------------------------------------------------------
(* reconcilePendingRefund, from the sweep. *)

ReconcileRefund(c) ==
    /\ payment.refundStatus = "PENDING" /\ payment.refund # NoId /\ payment.refundedAt
    /\ At(c, "idle")
    /\ call' = [call EXCEPT ![c].at = "remoteRefund", ![c].for = "sweep", ![c].refund = payment.refund]
    /\ UNCHANGED <<rows, remote, faults, crashes>>

\* Mutant: the sweep only looks for refunds that succeeded.
RefundRemoteSucceeded(c) ==
    /\ At(c, "remoteRefund")
    /\ IF refund[call[c].refund] = "SUCCEEDED" THEN Continue(c, "refundDone") ELSE Return(c)
    /\ UNCHANGED <<rows, remote, faults, crashes>>

RefundRemote(c) ==
    /\ At(c, "remoteRefund")
    /\ \/ Fault /\ Return(c)
       \/ /\ NoFault
          /\ CASE refund[call[c].refund] = "SUCCEEDED" -> Continue(c, "refundDone")
               [] refund[call[c].refund] = "FAILED" -> Continue(c, "reopen")
               [] OTHER -> Return(c)
    /\ UNCHANGED <<rows, remote, crashes>>

RefundDone(c) ==
    /\ At(c, "refundDone")
    /\ payment' = [payment EXCEPT !.refundStatus = "SUCCEEDED"]
    /\ Continue(c, "undo")
    /\ UNCHANGED <<booking, payout, request, flagged, remote, faults, crashes>>

\* The client has not been refunded after all.
Reopen(c) ==
    /\ At(c, "reopen")
    /\ payment' = [payment EXCEPT !.status = "COMPLETED", !.refundStatus = "FAILED",
                                  !.refundedAt = FALSE]
    /\ Continue(c, "failApproved")
    /\ UNCHANGED <<booking, payout, request, flagged, remote, faults, crashes>>

FailApproved(c) ==
    /\ At(c, "failApproved")
    /\ request' = [q \in Requests |-> IF request[q] = "APPROVED" THEN "FAILED" ELSE request[q]]
    /\ Return(c)
    /\ UNCHANGED <<booking, payment, payout, flagged, remote, faults, crashes>>

-----------------------------------------------------------------------------
(* markRefundedManually. *)

MarkRefundedManually(c, q) ==
    /\ At(c, "idle")
    /\ request[q] \in Undecided
    /\ call' = [call EXCEPT ![c].at = IF payment.status = "COMPLETED" THEN "manualStop" ELSE "manualClaim",
                            ![c].found = payment.status = "COMPLETED", ![c].request = q]
    /\ UNCHANGED <<rows, remote, faults, crashes>>

\* A payout that is out already (PayoutAlreadySentError), or that the provider
\* will not cancel, does not matter here; one not known there yet does.
ManualStop(c) ==
    /\ At(c, "manualStop")
    /\ \/ StopWorkerPayout /\ Continue(c, "manualUndo")
       \/ /\ PayoutNotStopped
          /\ Continue(c, "manualClaim") \/ (payout = "OPEN" /\ Return(c))
          /\ UNCHANGED <<payment, payout>>
    /\ UNCHANGED <<booking, request, flagged, remote, faults, crashes>>

ManualUndo(c) ==
    /\ At(c, "manualUndo")
    /\ payment' = [payment EXCEPT !.reversed = TRUE]
    /\ Continue(c, "manualClaim")
    /\ UNCHANGED <<booking, payout, request, flagged, remote, faults, crashes>>

ManualClaim(c) ==
    /\ At(c, "manualClaim")
    /\ IF request[call[c].request] \in Undecided
       THEN /\ request' = [request EXCEPT ![call[c].request] = "REFUNDED_MANUALLY"]
            /\ IF call[c].found THEN Turn(c, "manualWrite") ELSE Return(c)
       ELSE Return(c) /\ UNCHANGED request
    /\ UNCHANGED <<booking, payment, payout, flagged, remote, faults, crashes>>

ManualWrite(c) ==
    /\ At(c, "manualWrite")
    /\ payment' = [payment EXCEPT !.status = "REFUNDED", !.refundedAt = TRUE]
    /\ Return(c)
    /\ UNCHANGED <<booking, payout, request, flagged, remote, faults, crashes>>

-----------------------------------------------------------------------------
(* The specification. *)

\* The process dies, or a statement fails, between two steps.
Crash(c) ==
    /\ crashes < MaxCrashes
    /\ crashes' = crashes + 1
    /\ ~At(c, "idle")
    /\ Return(c)
    /\ UNCHANGED <<rows, remote, faults>>

People(c) ==
    \/ Checkout(c) \/ ReportInvoice(c) \/ InvoiceKept(c) \/ CancelBooking(c) \/ ClientVoids(c)
    \/ PayFromPlatform(c)
    \/ \E q \in Requests : ApproveRequest(c, q) \/ MarkRefundedManually(c, q)

Webhooks(c) == \E i \in Invoices : InvoicePaid(c, i) \/ InvoiceFailed(c, i)
Sweeps(c) == SelfHeal(c) \/ Reconcile(c) \/ ReconcileRefund(c)

Continued(c) ==
    \/ CheckoutRead(c) \/ CheckoutResume(c) \/ CheckoutRecheck(c) \/ CheckoutPrepare(c)
    \/ CheckoutMint(c) \/ CheckoutStore(c) \/ CheckoutBill(c)
    \/ Finalize(c) \/ Settle(c) \/ Fail(c) \/ ReconcileRemote(c)
    \/ VoidRead(c) \/ VoidExpire(c) \/ VoidFail(c) \/ Fund(c)
    \/ RequestRefund(c) \/ FileRequest(c) \/ FailRequest(c)
    \/ RefundRead(c) \/ RefundStop(c) \/ RequestXenditRefund(c) \/ RefundStore(c)
    \/ Undo(c) \/ Refunded(c)
    \/ RefundRemote(c) \/ RefundDone(c) \/ Reopen(c) \/ FailApproved(c)
    \/ ManualStop(c) \/ ManualUndo(c) \/ ManualClaim(c) \/ ManualWrite(c)

Provider ==
    \/ \E i \in Invoices : PayInvoice(i) \/ InvoiceExpires(i)
    \/ \E r \in Refunds : RefundEnds(r)
    \/ PayoutReported

Next ==
    \/ \E c \in Calls : People(c) \/ Webhooks(c) \/ Sweeps(c) \/ Continued(c) \/ Crash(c)
    \/ \E q \in Requests : RejectRequest(q)
    \/ Provider

Spec == Init /\ [][Next]_vars

\* A handler that runs goes on, unless its process dies; the sweep of the queue's
\* repeated job finds its turn.  People, webhooks and the provider need not act.
Fairness ==
    /\ \A c \in Calls : WF_vars(Continued(c))
    /\ SF_vars(\E c \in Calls : Reconcile(c))
    /\ SF_vars(\E c \in Calls : ReconcileRefund(c))

FairSpec == Spec /\ Fairness

-----------------------------------------------------------------------------
(* At most one refund of a payment is alive at the provider: a retry        *)
(* (requestXenditRefund) makes another one only after the last one failed.  *)
OneRefund ==
    \A r, s \in Refunds : refund[r] \in LiveRefund /\ refund[s] \in LiveRefund => r = s

PayoutStopped == payment.settled /\ payout \in {"NONE", "CANCELLED"}

(* The money never goes both ways: once a refund is asked of the provider   *)
(* (requestXenditRefund), or the worker's settlement undone                 *)
(* (undoWorkerSettlement), he has no payout, and none comes about later.    *)
RefundedNotPaidOut ==
    payment.reversed \/ (\E r \in Refunds : refund[r] # "NONE") => PayoutStopped

MoneyIn == payment.platformFunded \/ \E i \in Invoices : invoice[i] = "PAID"

(* A booking is COMPLETED, its payment counts as captured and the worker    *)
(* gets a payout only over money: an invoice paid in full, or the           *)
(* platform's (finalizePaidBooking, settlePlatformFundedPayment).           *)
CompletedIsPaid ==
    booking = "COMPLETED" \/ payment.status = "COMPLETED" \/ payout # "NONE" => MoneyIn

\* What a handler relies on from its earlier steps, and nobody can take away.
Relies(k) ==
    /\ k.refund # NoId => refund[k.refund] # "NONE"
    /\ k.at = "finalize" => invoice[k.invoice] \in Received
    /\ k.at \in {"refund", "undo", "manualUndo"} => PayoutStopped
    /\ k.at \in {"stop", "refund"} => MoneyIn

\* A refund is made when all those before it in the chain have failed.
Chained == \A r, s \in Refunds : r < s /\ refund[s] # "NONE" => refund[r] = "FAILED"

(* Why the three above hold: refunds form a chain, the row names one of it, *)
(* and what the handlers rely on stays true.                                *)
PaymentInv ==
    /\ Chained
    /\ payment.refund # NoId => refund[payment.refund] # "NONE"
    /\ payout # "NONE" => payment.settled
    /\ RefundedNotPaidOut
    /\ booking = "COMPLETED" \/ payment.status = "COMPLETED" \/ payout # "NONE"
          \/ (\E r \in Refunds : refund[r] # "NONE") => MoneyIn
    /\ \A c \in Calls : Relies(call[c])

(* The inductive invariant: rows, invoices, refunds and calls keep their    *)
(* types besides, whatever requests, webhooks and sweeps do to them.        *)
Consistent == TypeOK /\ PaymentInv

(* While requests, webhooks and sweeps do not overlap, a captured payment   *)
(* is never made PENDING or FAILED again: the reads at the start of each    *)
(* handler see to that, for the writes at its end are unguarded.            *)
CapturedStays ==
    [][payment.status = "COMPLETED" => payment'.status \in {"COMPLETED", "REFUNDED"}]_vars

(* While the provider answers, the sweep hears of a paid invoice without a  *)
(* webhook: the payment is captured or put up for review.                   *)
PaidIsHeard ==
    \A i \in Invoices :
        (payment.status = "PENDING" /\ payment.invoice = i /\ invoice[i] \in Received) ~>
            (payment.status \in {"COMPLETED", "REFUNDED"} \/ flagged)

(* The sweep hears how a refund ended: a payment REFUNDED over a refund     *)
(* that failed is reopened, so that it can be refunded again.               *)
FailedRefundReopens ==
    (payment.status = "REFUNDED" /\ payment.refundStatus = "PENDING"
        /\ refund[payment.refund] = "FAILED") ~> payment.status = "COMPLETED"

(* "Refunds of money that was actually paid never happen automatically:     *)
(* every one waits here for an admin" (schema.prisma, RefundRequest).       *)
RefundIsApproved ==
    (\E r \in Refunds : refund[r] # "NONE") => \E q \in Requests : request[q] \notin {"NONE", "PENDING"}

(* Whatever requests, webhooks and sweeps come together: the worker's       *)
(* earnings are claimed once, a payout PAID or CANCELLED stays so, and no   *)
(* refund is asked of the provider, or the settlement undone, but while     *)
(* none is open or paid (refundOrVoidPayment, markRefundedManually).        *)
OfWorker == INSTANCE Earnings WITH
    Payments <- {"payment"},
    claimed <- [p \in {"payment"} |-> payment.settled],
    payout <- [p \in {"payment"} |-> payout],
    returned <- [p \in {"payment"} |->
                    IF payment.reversed \/ \E r \in Refunds : refund[r] \in LiveRefund
                    THEN "BACK" ELSE "NO"]

FollowsEarnings == OfWorker!Spec
=============================================================================
