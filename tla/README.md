# HomeEase in TLA+

HomeEase matches clients with household workers. Its backend (`src/backend`, Express
over PostgreSQL through Prisma, with BullMQ queues on Redis) is a set of request
handlers and periodic sweeps that read and write the same rows. This directory holds
models of the parts where most goes on at once: the booking, its online payment and
refund, the worker's payout, his dues with the ledger that records them, and the checks of
his identity. TLC configurations check them, and TLAPS proofs go with each.

## The system

| Component | State | Operations | Hard because | Correct when |
|---|---|---|---|---|
| Booking lifecycle (`bookingStateMachine.ts`, `bookingStatusWrite.ts`) | `Booking.status` | guarded write `updateBookingIfStatus` | most handlers read, await, then write | every write is a move of the transition table |
| Booking endpoints (`bookingController.ts`) | the booking, its visits and check-in, `WorkerProfile.activeJobCount` | create, accept, decline, reschedule, arrive, start, visits, complete | acceptances and reschedules of one worker race; the unique index that once caught it was dropped | no double booking; a job moves by agreement only; the job count is right |
| Cancelling (`bookingCancellationService.ts`, `cancellationCompensationService.ts`, four controllers) | `Cancellation`, dues entries | by client, worker, admin, by agreement, as a no-show, by expiry, by resolving a dispute | seven ways to end one row, several at once | one record for each ending, one charge at most |
| Disputes (`bookingProblemService.ts`, `adminDisputeController.ts`) | `Dispute` | report, join, open, dismiss, resolve | two admins, and an admin against a sweep | a disputed booking can be moved on |
| Sweeps (`bookingWorker.ts`, `pendingExpirySweep.ts`, `internalCron.ts`) | timestamps of the rows above | expire, escalate, settle, end no-shows | lists are read once and worked through; items fail singly | nothing is left lying |
| Payments (`paymentLifecycleService.ts`, `paymentController.ts`, `refundRequestService.ts`) | `Payment`, `RefundRequest` | checkout, webhook, reconciliation, void, refund by request or by hand | the provider's answers are lost, late and repeated; unguarded status writes | completed only over money, refunded once by the app and never beside a payout; what was paid is heard of |
| Payouts (`payoutWorker.ts`, `payoutStatusService.ts`) | `Payout`, queue jobs | claim, send, retry, provider's answer | crash between claim and answer; paid after cancel | no payout is sent twice |
| Dues (`debtLedgerService.ts`, `debtPaymentService.ts`) | `commissionOwed`, credit, hold, `DebtLedgerEntry`, `DebtPayment` | commission, penalty, recovery, undoing, dues checkout | credits beyond the balance; refunds that stop halfway and start again; a checkout that dies | dues and credit are netted, undone jobs leave no trace, what is paid is credited |
| Ledger (`ledgerService.ts`, reconciliation) | postings | post by key, reconcile | postings repeated, late or lost | the worker's balance agrees with the rows |
| Onboarding (`verificationController.ts`, `adminVerificationController.ts`, `userController.ts`, the expiry sweep) | `VerificationRequest`, `KycDocument`, `kycStatus` | upload, submit, approve, reject, judge one document, expire | decisions and submissions cross without a guard | the worker's status has a request behind it; nothing incomplete is decided; lapses are noticed |
| Accounts, catalog, matching, messages, web and mobile clients | rows of their own | | not shared with the above | not modelled; see below and `PROJECT.json` |

Components interact through rows only: handlers call services in the same process, the
sweeps and the queue worker find their work by querying. What makes a behaviour hard is
nearly always a row that was read, awaited over and then written.

## Modules

- `BookingLifecycle.tla`: the abstract specification. A status per booking, and the
  moves of `VALID_TRANSITIONS`. The two `QUOTE_*` statuses are left out, since nothing
  enters them.
- `Booking.tla`: the detailed specification. Every handler, sweep and payment path that
  writes a booking's row, a dispute, a cancellation or `activeJobCount`. It implements
  `BookingLifecycle` (`FollowsLifecycle`).
- `MCBooking.tla` with the `.cfg` files: small instances for TLC.
- `BookingProofs.tla`: theorems about `Booking` for every value of its constants: types
  and the commitments of workers. `BookingLifeProofs.tla` extends it with how a booking
  lives and ends, and with the refinement; `BookingCountProofs.tla` extends that with the
  count of a worker's jobs.
- `Payout.tla`: one payout for each online payment, from the settlement of the earnings
  to the transfer, with the queue's job, the provider and the refund. `MCPayout.tla`
  instantiates it, `PayoutProofs.tla` proves theorems about it.
- `Payment.tla`: the online payment of one booking, from the worker's invoice to its
  refund, with the invoices and refunds at the provider. `MCPayment.tla`,
  `PaymentProofs.tla`.
- `Dues.tla`: the dues of one worker through his jobs' settlements, payouts and refunds,
  penalties and adjustments, the online payment of dues, and the ledger. `MCDues.tla`,
  `DuesProofs.tla`.
- `Verification.tla`: the identity checks of one worker. `MCVerification.tla`,
  `VerificationProofs.tla`.
- `Earnings.tla`: an abstract specification of what is promised about the earnings of a
  payment. They are claimed once, the payout made with the claim is sent or cancelled for
  good, and the client's money goes back at the worker's expense only while they are claimed
  and no payout is open or sent. What an admin refunds by hand though a payout could not be
  stopped goes back as the platform's loss (`Lose`). `Payout`, `Payment` and `Dues` each
  implement it (`FollowsEarnings`).
- `Sums.tla`: lemmas on finite sums, for the proofs about `Dues`.

A refund runs through four of them, and each has the side of it that its properties are
about: `Booking` the booking and its disputes, `Payment` the provider, the requests and
their retries, `Payout` the transfer it has to stop, `Dues` the amounts it puts back. What
one of them keeps in outline is a row of another: `Payment` has the booking's status and
the payout's, `Dues` the status of payment, payout and refund, and each changes these in
the steps, and under the guards, of the module that has them whole. `Earnings` is what the
last three must agree on. What counts as money given back is what each of them can see:

| | `claimed` | `payout` | `returned` |
|---|---|---|---|
| `Payout` | `settled` | `OPEN` while PENDING, PROCESSING or FAILED | `refunded`, which is `BACK` or `LOSS` |
| `Payment` | `settled` | as it is | `BACK`: a refund at Xendit that has not failed, or the settlement undone |
| `Dues` | `settled` | as it is | `BACK`: a refund that has not failed, or the settlement undone; `LOSS`: a refund by hand posted as one |

`BACK` and `LOSS` are the two ways `postManualRefund` books a refund made by hand: against
the worker's balance, or as `REFUND_LOSS` when `markRefundedManually` met
`PayoutAlreadySentError`, which it takes for a payout the worker has. A refund by the app is
always `BACK`, as that error ends it. The guard of `Lose` is weak, and so is what the code
promises: there is a payout, but it may be PAID, still on its way, or even cancelled since.

`Restore` is a refund the provider fails days later. It does not bring the payout back: as
`reconcilePendingRefund` leaves them, the earnings stay claimed and the payout CANCELLED. A
cash job, in `Dues`, is claimed when it is settled and never has a payout; its refund sends
no money and is not a `Return`.

### How `Booking` corresponds to the code

A step is one database transaction, or one statement outside any. `call` holds the
handlers that have read and not yet written, with the row they saw (`seen`) wherever the
code still consults it; the rest of a handler's name is in `op`. A handler whose guarded
write repeats all that its read had checked is one step, because the read can only make
it answer 409 sooner. A guarded write that finds no row is `Conflict`.

| Action | Code |
|---|---|
| `CreateBooking` | `createBooking` |
| `AcceptBooking`, `AcceptLock`, `AcceptCommit` | `acceptBooking`: the read, `FOR UPDATE` on the worker with the clash check, the guarded write |
| `DeclineBooking`, `ExpirePendingBooking` | `declineBooking`; `expirePendingBooking`, from the delayed job and the cron sweep |
| `RequestReschedule`, `WithdrawRescheduleRequest`, `DeclineRescheduleRequest` | the endpoints of these names |
| `AcceptReschedule`, `MoveLock`, `MoveCommit` | `respondToRescheduleRequest`, accepting |
| `AutoDecline`, `AutoDeclineCommit` | `remindAndAutoDeclineRescheduleRequests` |
| `ArriveBooking`/`ArriveCommit`, `ReportClientNotHere`, `StartBooking` | the endpoints of these names |
| `ScheduleVisit`/`VisitCommit`, `CancelVisit` | the endpoints of these names |
| `WorkerNoShow`, `CancelAsWorkerNoShow` | `cancelWorkerNoShows` and the `WORKER_NOT_HERE` report; both call `cancelAsWorkerNoShow` |
| `ReportBookingProblem`, `RequestCancel` | `reportBookingProblem` |
| `EscalateCancelRequest`, `AgreeToCancel`/`AgreeCommit` | `respondToCancelRequest`, `nudgeStuckBookings` |
| `ClientCancel`, `WorkerCancel`/`WorkerCancelCommit` | `cancelBooking` for either role |
| `ReviewCancellation`/`ReviewCommit`, `CancelBookingAdmin` | `reviewCancellation`, `cancelBookingAdmin` |
| `CompleteBooking`/`CompleteCommit` | `completeBooking`, from IN_PROGRESS, or from DISPUTED as `VALID_TRANSITIONS` also allows; the call's `op` tells which of the two it read |
| `ConfirmCompletion`, `CreateCompletionInvoice` | `confirmCompletion`, `createXenditCheckout`, `createCompletionInvoice` |
| `FinalizePaidBooking` | `finalizePaidBooking`, from webhook or reconciliation |
| `MarkCashReceived`, `AutoSettleCash`/`AutoSettleCommit` | `markCashReceived`; the cash part of `remindAndAutoSettleCompletions` |
| `ReportCashNotPaid`, `ReportInvoice` | the endpoints of these names |
| `OverduePayment`/`EscalateOverduePayment` | `escalateOverduePayment` |
| `RefundPayment`/`OpenRefundDispute` | `refundPayment` of a paid booking |
| `GetDisputeById`/`MarkUnderReview` | `getDisputeById` |
| `DismissDispute`/`CloseDispute`, `ResolveWithInvoice`, `ResolveByCancelling` | `resolveDispute` |
| `ResolveNonPayment`, `SettlePlatformFundedPayment` | `resolveNonPaymentDispute` |
| `Fail` | an exception, a lost connection, a restart: the call ends, its locks go |
| `Tick` | time passes |

Abstractions:

- A start is one number for `scheduledDate` with `scheduledTime` (or the slot's). The
  clash check compares both, so equality of starts is what it asks.
- The clock counts ticks. The no-show grace and the check-in window are given in ticks.
  Delays of 48 or 72 hours are not counted: a sweep may find its row overdue at any
  time. The clock stops at `MaxTime`.
- Reschedule requests are told apart by a serial number in place of
  `rescheduleRequestedAt`.
- The amounts of penalty and compensation are taken to be positive (both are settings;
  at 0 the entry is not posted), and appear as numbers of entries.
- `worker` is set when the booking is made, as `createBooking` does.
- `resends` is a history variable: how often the worker has completed a booking again from
  a dispute. No action but `CompleteCommit` looks at it, for the bound `MaxResends`.
- Resolutions of disputes differ in the code by name (`RESOLVED_DISMISSED`,
  `RESOLVED_PAID` ...); here they are all `RESOLVED`, since nothing reads the difference.
- Row locks a transaction takes by its own updates are not modelled. A deadlock of two
  such transactions is broken by PostgreSQL, which fails one: `Fail`.

### How `Payout` corresponds to the code

A step is one statement, one request to Xendit or one change of the queue's job.
`payout` is the row (`attempted` stands for `attempts > 0`, status `NONE` for no row),
`payment` the fields of the payment it depends on (`settled`: `workerSettledAt` is set;
`refunded`: status `REFUNDED`, with the worker's part taken back from him, `BACK`, or posted
as a `LOSS`; `pending`: the provider has yet to carry the refund out), `job` the BullMQ job,
`sender` the run of `processSendPayout` on it, `call` everything else between two statements,
and `disbursement` what Xendit has. A disbursement is named by the generation its idempotency
key was made with.

| Action | Code |
|---|---|
| `SettleWorkerEarnings` | `settleWorkerEarnings`; the job may fail to be queued |
| `SendRead`, `SendClaim`, `SendLookup`, `SendCreate`, `SendRecord`, `SendApply`, `SendPost` | `processSendPayout` in order |
| `SendError`, `SendThrow` | its `catch`; the queue's next attempt or its last |
| `Crash` | the process dies; BullMQ finds the job stalled and runs it again or gives it up |
| `RequeuePayout` | the sweep over PENDING payouts |
| `ListStale`, `ReconcilePayout` | the sweep over PROCESSING payouts with a disbursement |
| `ListOrphaned`, `RecoverLookup`, `RecoverPayout` | and over those without |
| `RetryPayout`, `RetryQueue` | `retryPayout`, its write and its job |
| `PayoutWebhook`, `PostPayoutSent` | `handleXenditPayoutWebhook`; the posting to the ledger |
| `RefundPayment`, `StopRead` ... `StopRecheck`, `RefundCommit` | `refundOrVoidPayment` with `stopWorkerPayout`, statement by statement |
| `MarkRefundedManually`, `StopRead` ... `StopRecheck`, `RefundCommit` or `LossCommit` | `markRefundedManually` with `stopWorkerPayout`; where that raises `PayoutAlreadySentError` (`AlreadySent`) the refund is recorded as a loss |
| `ReconcilePendingRefund` | `reconcilePendingRefund` of a refund the provider did not carry out |
| `Disburse` | Xendit carries a disbursement out, fails it, or returns it afterwards |
| `Fail` | a request, webhook or sweep ends at any of its statements |

Abstractions:

- The statuses of a disbursement are five: `LIVE` for ACCEPTED and REQUESTED, `SUCCEEDED`
  also for COMPLETED, `FAILED`, `REVERSED`, `CANCELLED`.
- Xendit makes one disbursement for each idempotency key, and its list by reference shows
  what it has made. A request may fail before or after it is carried out. A webhook may
  report any status a disbursement has had, at any time, any number of times, or never.
- One run of the sender for each payout: the job's id is the payout's, so the queue has
  one job and runs it once at a time. A process whose event loop is held up past the
  queue's lock is taken for dead (`Crash`) and not modelled as going on.
- The sweeps look at rows left PROCESSING for an hour (`RECONCILE_AFTER_HOURS`). No run
  of the sender, a lookup and a request, takes that long, so `LeftProcessing` asks that
  the run which claimed the row has ended.
- A settlement whose worker has no payout method rolls back and is tried again: no step.
  A worker can only choose GCASH or MAYA (`middleware/validation.ts:304`), and both have
  a channel at Xendit, so the branch for an unsupported one is left out.
- What a settlement withholds for dues and what a refund puts back (`recoverDebtTx`,
  `undoWorkerSettlement`) belong to the dues module; here dues may eat the whole amount,
  and then there is no payout. Notices and audit entries are left out.
- Asking for a refund and writing the payment REFUNDED are one step here (`RefundCommit`);
  `Payment` has them apart. Which request an admin's refund by hand decides is there, too.

### How `Payment` corresponds to the code

A step is one statement or transaction, or one request to Xendit. `call` is what a
handler has read and where it goes on; a call of `MaxFaults` to the provider may fail
before or after it was carried out.

| Action | Code |
|---|---|
| `Checkout`, `CheckoutRead` ... `CheckoutBill` | `createXenditCheckout` and its other callers; `createCompletionInvoice`, statement by statement: an invoice that is still open is resumed, one paid is finalized, else a new one is made |
| `Finalize`, `Settle`, `SelfHeal` | `finalizePaidBooking`, `settleWorkerEarnings`, and the sweep that settles what was not |
| `InvoicePaid`, `InvoiceFailed`, `Fail` | the invoice webhook |
| `Reconcile`, `ReconcileRemote` | `reconcilePendingPayment` from the sweep |
| `VoidRead`, `VoidExpire`, `VoidFail` | `voidUnpaidPayment` |
| `PayFromPlatform`, `Fund` | `resolveNonPaymentDispute`, `settlePlatformFundedPayment` |
| `RequestRefund`, `FileRequest`, `ApproveRequest`, `FailRequest`, `RejectRequest` | `refundRequestService.ts` |
| `ClientVoids` | `refundPayment` of an unpaid payment |
| `RefundRead`, `RefundStop`, `RequestXenditRefund`, `RefundStore`, `Undo`, `Refunded` | `refundOrVoidPayment` with `stopWorkerPayout`, `requestXenditRefund` and `undoWorkerSettlement` |
| `ReconcileRefund`, `RefundRemote`, `RefundDone`, `Reopen`, `FailApproved` | `reconcilePendingRefund` from the sweep |
| `MarkRefundedManually`, `ManualStop` ... `ManualWrite` | `markRefundedManually` |
| `ReportInvoice`, `InvoiceKept`, `CancelBooking` | what disputes and cancellations do to a booking with an invoice |
| `PayInvoice`, `InvoiceExpires`, `RefundEnds`, `PayoutReported` | the client, Xendit, the payout |
| `Crash` | the process dies, and with it one call |

A payment is for one amount; an invoice's `paid_amount` is that (`PAID`) or less (`SHORT`).
A refund is named by its place in the chain of idempotency keys, which is how the code
makes a retry either find the last refund or make another one. A payout is `OPEN` until it
is reported as sent or cancelled (`PayoutReported`): how is in `Payout`.

### How `Dues` corresponds to the code

A step is one transaction, or one request to Xendit; the row lock of `lockDuesTx` makes the
reading and the writing of an account one step.

| Action | Code |
|---|---|
| `Accrued`, `Credited`, `PaidDown` | `accrueDebtTx`, `creditDebtTx`, `applyDebtPaymentTx` |
| `Post` | `postLedger`: a key that is there is not posted again |
| `Capture`, `Settle`, `SettleCash` | `finalizePaidBooking` or `settlePlatformFundedPayment`; `settleWorkerEarnings` with `recoverDebtTx`; `settleCashBooking` |
| `PayoutSent`, `PayoutCancelled`, `PostPayout`, `PaidAfterCancel` | `applyXenditPayoutStatus` and its posting |
| `RefundStop`, `RefundAsk`, `RefundUndo`, `RefundPost`, `RefundWrite` | `refundOrVoidPayment` of an online payment, in order |
| `RefundCash` | the same of a cash job, one transaction |
| `RefundSucceeded`, `RefundFailed` | `reconcilePendingRefund` |
| `ManualStop`, `ManualUndo`, `ManualWrite`, `ManualPost` | `markRefundedManually`; a payout that cannot be stopped leads past `ManualUndo` to a posting that takes nothing from the worker |
| `Penalty`, `Compensation`, `Waive`, `ReleaseHold` | penalties and compensations of cancellations; the admin's adjustments |
| `Quote`, `CreateRow`, `MintInvoice`, `StoreInvoice` | `createDebtPaymentInvoice` |
| `RecoverRow`, `FinalizeDues`, `FailDues` | `recoverUnfinishedDebtPayment`, `finalizeDebtPayment`, `failDebtPayment`, from webhook, sweep or the next checkout |
| `PayDues`, `DuesInvoiceExpires`, `Crash` | the worker, Xendit, the process |

Amounts are whole centavos: the code rounds to the centavo at each step, and the model does
not have its floating-point sums in between. Of the ledger only the account of the worker is
kept, whose balance `expectedWorkerBalances` computes a second time from the rows. The
platform's accounts, the opening entries and the fees are left out, as is the client's own
balance. `moved` is a history variable: by how much each job changed the account. A dues
invoice credits what was paid, which is the amount asked for or one of `OddPayments`.

### How `Verification` corresponds to the code

| Action | Code |
|---|---|
| `UploadVerificationDocuments`, `UploadWrite` | `uploadVerificationDocuments` |
| `SubmitKYCDocument`, `SubmitOpen`, `SubmitDocument` | `submitKYCDocument` |
| `AcceptContract`, `AcceptFlip` | `acceptContract` of the service agreement; its two reads, of profile and request, are one step, and the write asks for neither |
| `ApproveVerification`, `ApproveWrite`, `RejectVerification` | the admin's decisions on a request; approving reads the documents outside its transaction |
| `ApproveDocument`, `RejectDocument` | and on one document |
| `FlagExpired`, `FlagWrite` | `flagExpiredKycDocuments` |
| `Die` | a handler ends between two statements |

The review by AI is left out: it only writes columns that an admin reads. So are the
worker's age, birth date and years of experience, which can refuse more but allow no more,
and clients, who have no `kycStatus`.

## What TLC checks

| Run | Instance | Shows |
|---|---|---|
| `one_booking` | 1 booking, 2 calls in flight, 2 disputes, 1 start, 2 ticks, 1 invoice sent again | `TypeOK`; `CancelledOnRecord`, `ChargedAsJudged`: every cancellation is recorded and charged once; `NoInvoiceOverCancelRequest`, `EscalatedNotAgreed`: requests to cancel against the invoice and the sweep; `JobCountBounded`; `FollowsLifecycle`: the refinement |
| `two_jobs` | 2 bookings of 1 worker, 2 calls, 2 starts, 1 request each | `NoDoubleBooking` and the invariant behind it, `CommitmentInv` |
| `reschedule_requests` | 1 booking, 2 calls, 3 starts, 2 requests | `MovesByAgreement`: two requests are needed for an answer to meet the wrong one |
| `sweeps` | 1 booking, 1 call, 2 disputes, 3 ticks, fairness | `PendingEnds`, `CancelRequestAnswered`, `NoShowEnds`, `InvoiceChased` |
| `payout` | 1 payout, 2 calls, 1 retry, 2 attempts, 1 crash | `OneTransfer`, `RefundedIsCancelled`, `PaidHasArrived`, `PaidNotSentAgain`, and the inductive invariant behind them, `Inv`, which is `TypeOK` and `PayoutInv`; `FollowsEarnings`: the refinement |
| `payout_ends` | the same with 1 call, fairness | `PayoutEnds` |
| `payment` | 2 calls, 1 invoice, 2 refunds, 1 refund request, 1 fault | `OneRefund`, `RefundedNotPaidOut`, `CompletedIsPaid`, and the inductive invariant behind them, `Consistent`, which is `TypeOK` and `PaymentInv`; `FollowsEarnings`: the refinement |
| `payment_heard` | 1 call, 2 invoices, 2 refunds, 1 request, 1 crash, fairness | `PaidIsHeard`, `FailedRefundReopens`, and `CapturedStays` while handlers do not overlap |
| `dues` | 1 job, 1 dues payment, 1 amount paid besides the one asked for, 2 charges, 1 fault, 1 crash, a hold limit, fairness | `NeverBoth`, `UndoneInFull`, `WorkersAgree`, `EntriesAgree`, `PaidIsCredited`, `TypeOK`; `FollowsEarnings`: the refinement |
| `verification` | 2 requests, 1 document of 2 kinds, 2 calls, 1 sweep, time 1, fairness | `StatusHasRequest`, `NothingIncomplete`, `LapseIsFlagged`, `TypeOK` |

Two calls in flight are enough for any race the code guards against: each guard compares
one handler's copy with one other write, and the steps that need no copy are always
possible besides. `two_jobs` and `reschedule_requests` are cut off by the constraint
`Commitments` before the invoice, and leave out cash, cancel requests, visits and client
no-shows, which the start of a job does not depend on; so does `Disputes = {}` there.
Dispute rows and calls are symmetric; bookings are in `two_jobs`. Symmetry is not used in
`sweeps` and `payout_ends`. Payouts share nothing, so one is enough; a retry gives two
disbursements, two attempts give a last one and one before, and one crash can fall into
either. With two calls a webhook, a sweep or an admin's retry meets a refund, or two
refunds meet, one by hand. In `payment` a second
refund takes one that failed, and the fault is a request that times out whether or not it
was carried out; the second invoice that a checkout makes after the first expired is in
`payment_heard`. In `dues` the charges are larger than the job's share less what it
recovers, so balance and credit change over; jobs meet only in the account, which the
charges move as well as another job would. In `verification` two requests are enough for
one to be decided while the other is open. In `one_booking` one invoice sent again is enough
to lower the job count below zero. Deadlock is not checked: a booking that has ended is the
normal end, and a behaviour in which nobody does anything more is allowed.

### Fairness

`FairSpec` assumes of the calls only that one in flight goes on or fails. The sweeps run
every quarter of an hour from the queue and from the cron route; each queries again for
what is left and catches the failure of one row, so a row that keeps qualifying keeps
being tried. Expiry and the escalation of a cancel request are weakly fair. The sweeps
with two halves are strongly fair in both: calls are few in the model, so a slot may be
taken when the sweep comes round, and a single attempt may fail, but not every attempt
for ever. Nothing is assumed of clients, workers, admins or the payment provider.

In `Payout`, `FairSpec` assumes that the queue runs its jobs (`SenderStep`), that a call in
flight goes on or fails, that the provider brings every disbursement to an end, and of the
sweeps the same as above: weak fairness of the one in one step, strong fairness of the
steps of the other two. Not assumed is that a webhook ever comes, that an attempt
succeeds, or that an admin retries.

In `Payment`, a handler under way goes on (weak fairness of `Continued`) unless its process
dies, and the two sweeps are strongly fair, since their turn may find the one call of the
model taken. In `Dues`, the sweep over PENDING dues payments asks about every one, so
`RecoverRow` and `FinalizeDues` are weakly fair; `PaidIsCredited` is excused once a request
to the provider has failed, because the code then gives an invoice up (below). In
`Verification` the sweep is weakly fair. Nothing is assumed of webhooks, of people or of
the provider.

In `sweeps`, `MaxRequests = 0`, as a job moved again and again is not a no-show; the escape
`~NoShowDeadlinePassed` states the same for the general case. The model has few dispute
rows, so a property that ends in a dispute is excused (`NoDisputeLeft`) when they are used
up. A cash booking whose invoice an admin upheld is left to the two parties by design
(`kept`).

### What the code does not keep

Two runs show a line of the repository contradicted; `PROJECT.json` quotes it.

| Run | Property | Trace |
|---|---|---|
| `cancelled_sent` | `CancelledNeverSent` | an attempt fails at Xendit, an admin retries, the new run claims the payout, and the webhook about the first disbursement comes again: the row is FAILED, a refund cancels it and goes on, and the run asks for its disbursement |
| `refund_unasked` | `RefundIsApproved` | the client cancels an unpaid payment and its invoice is paid between the two reads: the money is refunded without an admin |

`CancelledNeverSent` is what `RefundedIsCancelled` cannot say: the row is CANCELLED, as
it should be, and the money goes out all the same. When the transfer arrives the code
notices (`PAYOUT_PAID_AFTER_CANCEL`) and leaves it to an admin to recover it.

Further properties are stated in the modules and do not hold. To see a trace, name the
property in a `.cfg` like the module's own; one booking, one dispute and one or two calls
are enough for the first five, and two starts for the last of them.

| Module | Property | Trace |
|---|---|---|
| `Booking` | `JobCountExact` | accept, complete, report the invoice, and an admin cancels, or the worker completes again: the count goes to -1 |
| `Booking` | `DisputedHasOpenDispute` | an admin dismisses while a report is joining the dispute: the booking is DISPUTED with no dispute open |
| `Booking` | `ResolvedStaysResolved` | a dispute resolved while its page is being opened is UNDER_REVIEW again |
| `Booking` | `KeptCashNotAutoSettled` | the sweep settles a booking disputed and upheld since the sweep read it |
| `Booking` | `NoShowOnlyPastDeadline` | a job moved since the sweep read it is cancelled before its new start |
| `Payment` | `CapturedStays`, two calls | a void or a failure read before the payment came in writes FAILED over it |
| `Dues` | `DifferencesAreTemporary` | a refund claims the settlement and its request to Xendit then fails: nothing gives the settlement back, and the books differ until someone tries again |

Reachable as well, as reading the traces shows: two sweeps or requests open two disputes
where each found none; the sweep over reschedule requests declines one made since it read
the row; two checkouts of one payment mint two invoices, of which the row names one; a
refund recorded by hand after a request to the provider timed out can come on top of the
provider's; one recorded by hand though the payout could not be stopped stands beside a
payout that is PAID or in flight (`refundRequests.test.ts` asks for it), and is posted as a
loss, so that the two books of the worker's balance differ for good if the payout is
cancelled after all; a crash after a refund is written SUCCEEDED and before the settlement
is undone is not made good by any sweep; a dues invoice is given up (FAILED) when storing
its id fails, though the worker can still pay it; an approval leaves a document that was
uploaded during it PENDING; submitting again can put a decided request back to SUBMITTED;
after a renewal, the expired document of the first request goes on asking for new ones.

## What is proved

`BookingProofs` proves, for any sets of bookings, workers, disputes, calls and starts and
any bounds, from `ConstantsAssumption` alone:

- `TypeCorrect`: `Spec => []TypeOK`.
- `NeverDoubleBooked`: `Spec => []NoDoubleBooking`.
- `CommitmentsHold`: `Spec => []CommitmentInv`, the inductive invariant both rest on.

`NoDoubleBooking` is not inductive: nothing in it says that the start a call is about to
write is still free. `CommitmentInv` adds that a call about to commit a worker holds his
row (`LockIsHeld`), that the start it is about to write is that of no other live job of
his (`TargetIsFree`), and that what it read is still true where it matters
(`SeenIsCurrent`: a booking keeps its worker, and its start while PENDING). Typing needs
`DisputesPlaced` and `SeenCancellable`, which say what calls about disputes and
cancellations hold.

The argument has two halves. All steps but seven are `Quiet`: they keep workers and
starts, add no job, and begin or advance no committing call; one lemma
(`QuietKeepsCommitments`) does for all of these. The seven, `CreateBooking`, the two
reads, the two locks and the two writes of accepting and moving, are proved in
`CreateCommits`, `BeginCommits`, `LockCommits` and `CommitCommits`. The point is in the
last two: whoever else holds a lock holds that of another worker, so what one call
writes cannot take the start another has found free.

`BookingLifeProofs` goes on from there, with `NoneAssumption` besides (`None` is no
cancellation row). Its base is a classification of all steps (`StepLives`): a step writes
the row of one booking at most, and there it leaves the life of the booking as it is or
moves it on without counting a job (`Uncounted`), accepts it (`IsAccepted`), completes it
(`IsCompleted`), ends it with a Cancellation row and its charge (`EndsOnRecord`), or judges
a cancellation (`IsJudged`). It proves

- `AlwaysOnRecord`: `Spec => []CancelledOnRecord`, `AlwaysChargedAsJudged`:
  `Spec => []ChargedAsJudged`, `NeverInvoicedOverRequest`:
  `Spec => []NoInvoiceOverCancelRequest`, `NeverAgreedWhenEscalated`:
  `Spec => []EscalatedNotAgreed`, from the invariant `LivesHold`;
- `AlwaysMovesByAgreement`: `Spec => MovesByAgreement`, an action property;
- `ImplementsLifecycle`: `Spec => FollowsLifecycle`, the refinement: initial states map to
  initial states, and each of the kinds of step to a move of the table or a stutter.

The properties are not inductive. `LifeInv` adds that a booking not cancelled has been
charged nothing, without which a cancellation could be the second charge; that the work is
done from the invoice on and not before (`WorkInTime`), so that a call that saw the booking
undone has the job still counted; and of the row a call has seen (`SeenInTime`) that the
work was not done, if it will cancel with the worker's part in it, and that a reschedule
request with the serial number it saw is the one it saw, if it will move the job.

`BookingCountProofs` proves `AlwaysCounted`: `Spec => []JobCountBounded`. Each kind of step
does one of four things to a worker (`StepCounts`): it keeps his jobs, adds one and counts
it, ends one and counts it off, or counts one off that had been done and adds to his
`Miscounts`: those cancelled by an admin after the work, and the invoices sent again from a
dispute. `Bookings` may be infinite: the bookings made are finitely many in every state, and
so are the miscounts, which is part of the invariant.

`PayoutProofs` proves, for any set of payouts and calls and any bounds on retries,
attempts and crashes, again from `ConstantsAssumption` alone:

- `SentOnce`: `Spec => []OneTransfer`. A run asks for a disbursement only at `create`,
  and is there only when none lives (`NoneWhenAsked`): it has looked, or it is a first
  attempt and there was nothing to look for (`NoneBeforeAttempt`). Nothing else makes one,
  and the run is the only one of its payout, so what it found stays so until it asks.
- `RefundFindsUnpaid`: `Spec => []RefundedIsCancelled`. A payout is made only in the
  transaction that claims the earnings (`MadeWhenSettled`), so a refund that makes the
  claim finds none; one that does not takes the money back from the worker only from a
  CANCELLED row (`RefundGoesOn`), and CANCELLED is final. A refund by hand that found the
  payout sent, or not to be stopped, is recorded as a loss, and has found one.
- `PaidArrived`: `Spec => []PaidHasArrived`, from `HeardIsTrue`: whatever a run or a call
  carries from the provider to the row was so when it was heard.
- `PaidForGood`: `Spec => PaidNotSentAgain`, an action property.
- `PayoutSafe`: `Spec => []Inv`, the invariant itself; `PayoutTypeCorrect`: `Spec => []TypeOK`
  and `PayoutConsistent`: `Spec => []PayoutInv` are its two halves.
- `ImplementsEarnings`: `Spec => FollowsEarnings` (below).

Most steps are again `Quiet`: they keep rows, transfers, runs and refunds as `RowsKept`,
`DisbursementsKept`, `AskersKept` and the other predicates describe, and one lemma does for all. The
steps by which a transfer is asked for (`SendRead` to `SendCreate`, `SendError`) and those
by which a refund gets its way have lemmas of their own.

`PaymentProofs`, for any calls and any bounds, from `BoundsAssumption`:

- `PaymentConsistent`: `Spec => []Consistent`, the invariant itself, with `PaymentTyped`:
  `Spec => []TypeOK`, and from it
- `RefundedOnce`: `Spec => []OneRefund`. A refund is made only when all before it in the
  chain have failed (`Chained`): a retry that finds the last one alive reuses it, and the
  provider makes no second one for a key.
- `NoRefundBesidePayout`: `Spec => []RefundedNotPaidOut`. Whoever is about to ask for a
  refund has claimed the settlement and found the payout stopped (`Relies`), and neither
  can be taken back.
- `CompletionIsPaidFor`: `Spec => []CompletedIsPaid`.
- `ImplementsEarnings`: `Spec => FollowsEarnings` (below).

The proof splits the invariant into the world (rows and provider) and what
each call relies on. `Kept` says what no step may take away; a step is then one call going
on, with a lemma for each way to go on, while the others stay sound (`StaysSound`,
`CallMoves`).

`DuesProofs`, for any jobs, amounts and bounds, from `AmountsAssumption`,
`LimitsAssumption` and `JobsAssumption` (the jobs are finitely many):

- `DuesTyped`: `Spec => []TypeOK`: no balance or credit is ever negative.
- `AlwaysNetted`: `Spec => []NeverBoth`; `UndoneWithoutTrace`: `Spec => []UndoneInFull`.
- `DuesConsistent`: `Spec => []DuesInv`, how settlement, refund and postings of a job fit.
  No payout is on its way for a refund that has undone the settlement or will; one by hand
  that takes nothing from the worker may stand beside a payout in any state.
- `BooksAgree`: `Spec => []EntriesAgree`, job by job.
- `BalanceAgrees`: `Spec => []WorkersAgree`, the balance as a sum over the jobs. The
  account nets to the sum of all that was ever `moved` (`NetIsMoved`), since a step moves
  both by the same amount; and entry by entry the ledger has what was moved and is due.
- `ImplementsEarnings`: `Spec => FollowsEarnings` (below).

`JobKept` does for all jobs but the one a step is about; each step of a job has its lemma.

The sums are folds of the community modules, which choose an order of the set. `Sums`
proves of them what `BalanceAgrees` uses: the sum exists and is an integer, any element may
be taken out first, sums are added summand by summand, and a sum grows by what one summand
grows. No induction theorem that takes an operator can be used, so each is proved from the
smallest set for which it would fail.

The three refinements of `Earnings` have one argument. In outline a step changes nothing,
or the claim, the payout and the refund of one payment, and for that payment it is one
abstract step: `EarningsClaimed`, `PayoutEnded`, `MoneyReturned` or `MoneyRestored` in
`PaymentProofs`, and where there are many payments a lemma (`ChangedAt`) that the others
are left alone. That the guard of `Return` holds is not read off the step: a
refund is asked for several statements after the payout was found stopped. It is what the
inductive invariant says of a call that has got so far, `RefundGoesOn` in `Payout` and
`Relies` in `Payment`, and that PAID and CANCELLED are final is what makes it last.

`VerificationProofs`, for any kinds of documents, any calls and sweeps and any bounds, from
`KindsAssumption` and `NumbersAssumption`: `VerificationTyped`, `StatusIsRequested`
(`StatusHasRequest`) and `NothingIncompleteDecided` (`NothingIncomplete`). The invariant
adds that a call about to submit or approve has a request that exists and was complete when
read, and that requests and documents are never taken away, so that it still is.

Of what the passing runs check, every invariant, action property and refinement is proved
but `CapturedStays`: TLC checks it with one call, and with two it is false (above).
Otherwise only model-checked is liveness, which is out of the prover's reach: `PendingEnds`,
`CancelRequestAnswered`, `NoShowEnds`, `InvoiceChased`, `PayoutEnds`, `PaidIsHeard`,
`FailedRefundReopens`, `PaidIsCredited` and `LapseIsFlagged`. The two violations are TLC's
as well.

## Not modelled

- The AI review of documents: its result advises an admin and no transition reads it. A
  job that ends before the handler that queued it writes PENDING leaves it PENDING.
- The ledger's opening and the fees: opening a ledger while jobs are settled can count one
  twice or not at all, which the code says of itself (`schema.prisma`, `LedgerState`).
- The client's outstanding balance, read and written back without a lock
  (`cancellationCompensationService.ts:41`).
- Accounts and sessions: rows of their own. Account deletion asks for open bookings and
  dues and then deletes; what is begun in between is not seen.
- Services and certifications of a worker, catalog, pricing, matching and search:
  calculations over rows with little state, in floating-point amounts and distances.
- Messages, notifications, uploads, reports, and the web and mobile clients: they show and
  pass on what the handlers modelled here decide.

## What would come next

The client's balance and the opening of the ledger in `Dues`; services and certifications
beside `Verification`.
