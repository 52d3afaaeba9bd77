------------------------------- MODULE Payout -------------------------------
(***************************************************************************)
(* A worker's earnings for one online payment, sent to his e-wallet by a   *)
(* disbursement at the payment provider (Xendit): payoutWorker.ts sends,   *)
(* payoutStatusService.ts takes in what the provider reports, the sweep of *)
(* bookingWorker.ts mends what was interrupted, an admin may retry, and a  *)
(* refund of the payment stops the payout (paymentLifecycleService.ts).    *)
(*                                                                         *)
(* A step is one statement to the database, one call to the provider, or   *)
(* one change of the queue's job.  A disbursement is named by the payout   *)
(* and the generation its idempotency key is made of: the provider makes   *)
(* one for each key.                                                       *)
(***************************************************************************)
EXTENDS Naturals

CONSTANTS
    Payouts,        \* payouts; each stands for its payment as well
    Calls,          \* requests, webhooks and sweeps that can be in flight
    MaxRetries,     \* bound on Payout.retryGeneration
    MaxAttempts,    \* attempts the queue makes of a job (5 in the code)
    MaxCrashes,     \* bound on the deaths of a process in the midst of a job
    NoId            \* xenditDisbursementId IS NULL

Generations == 0 .. MaxRetries

ASSUME ConstantsAssumption ==
    /\ MaxRetries \in Nat
    /\ MaxAttempts \in Nat \ {0}
    /\ MaxCrashes \in Nat
    /\ NoId \notin Generations

VARIABLES
    payment,        \* workerSettledAt is set; what is recorded of its refund
    payout,         \* the Payout row; status "NONE" before there is one
    disbursement,   \* the provider's disbursements, by generation of their key
    job,            \* the queue's job send-payout-<id>
    sender,         \* the run of processSendPayout on that job
    call,           \* everything else in flight
    posted,         \* the ledger has the posting payout:<id>
    crashes

vars == <<payment, payout, disbursement, job, sender, call, posted, crashes>>

PayoutStatuses == {"NONE", "PENDING", "PROCESSING", "PAID", "FAILED", "CANCELLED"}

\* ACCEPTED and REQUESTED are LIVE, SUCCEEDED and COMPLETED are SUCCEEDED.
RemoteStatuses == {"LIVE", "SUCCEEDED", "FAILED", "REVERSED", "CANCELLED"}

\* Mutant: a disbursement accepted counts as one that arrived.
SuccessStatusesAccepted == {"SUCCEEDED", "LIVE"}

SUCCESS_STATUSES == {"SUCCEEDED"}
FAILURE_STATUSES == {"FAILED", "REVERSED"}
LIVE_PAYOUT_STATUSES == {"LIVE", "SUCCEEDED"}

SendSteps == {"idle", "claim", "lookup", "create", "record", "apply", "post", "throw"}
CallSteps == {"idle", "queue", "stop", "cancel", "inFlight", "remote", "stopApply",
              "stopPost", "recheck", "refund", "loss", "reconcile", "recover", "adopt", "post"}

Ids == Generations \cup {NoId}
Answers == RemoteStatuses \cup {"none"}
\* refunded: the payment is REFUNDED and the worker's part taken back from him,
\* or a loss (REFUND_LOSS) since he had it already; pending: the provider has
\* not carried the refund out yet.
PaymentRow == [settled : BOOLEAN, refunded : {"NO", "BACK", "LOSS"}, pending : BOOLEAN]
PayoutRow == [status : PayoutStatuses, disbursement : Ids,
              attempted : BOOLEAN, retryGeneration : Generations]
JobRecord == [state : {"none", "waiting", "active", "failed"}, attemptsMade : 0 .. MaxAttempts - 1]
SenderRecord == [at : SendSteps, earlierAttempt : BOOLEAN, retryGeneration : Generations,
                 disbursement : Ids, status : Answers]
\* manual: an admin records a refund made outside the app.
CallRecord == [at : CallSteps, payout : Payouts, disbursement : Ids, status : Answers,
               manual : BOOLEAN]

(* Type invariant: rows, jobs, runs and calls have the fields of their kind, *)
(* and a job is never tried more than MaxAttempts times.                     *)
TypeOK ==
    /\ payment \in [Payouts -> PaymentRow]
    /\ payout \in [Payouts -> PayoutRow]
    /\ disbursement \in [Payouts -> [Generations -> Answers]]
    /\ job \in [Payouts -> JobRecord]
    /\ sender \in [Payouts -> SenderRecord]
    /\ call \in [Calls -> CallRecord]
    /\ posted \in [Payouts -> BOOLEAN]
    /\ crashes \in 0 .. MaxCrashes

NoJob == [state |-> "none", attemptsMade |-> 0]
NoSender == [at |-> "idle", earlierAttempt |-> FALSE, retryGeneration |-> 0,
             disbursement |-> NoId, status |-> "none"]
Idle(p) == [at |-> "idle", payout |-> p, disbursement |-> NoId, status |-> "none",
            manual |-> FALSE]

Init ==
    /\ payment = [p \in Payouts |-> [settled |-> FALSE, refunded |-> "NO", pending |-> FALSE]]
    /\ payout = [p \in Payouts |-> [status |-> "NONE", disbursement |-> NoId,
                                    attempted |-> FALSE, retryGeneration |-> 0]]
    /\ disbursement = [p \in Payouts |-> [g \in Generations |-> "none"]]
    /\ job = [p \in Payouts |-> NoJob]
    /\ sender = [p \in Payouts |-> NoSender]
    /\ call \in [Calls -> {Idle(p) : p \in Payouts}]
    /\ posted = [p \in Payouts |-> FALSE]
    /\ crashes = 0

-----------------------------------------------------------------------------
(* Helpers. *)

PayoutIs(p, statuses) == payout[p].status \in statuses
Begin(c, p, at) == call' = [call EXCEPT ![c] = [Idle(p) EXCEPT !.at = at]]
Continue(c, at) == call' = [call EXCEPT ![c].at = at]
CallFinds(c, at, id, status) ==
    call' = [call EXCEPT ![c].at = at, ![c].disbursement = id, ![c].status = status]
Return(c) == call' = [call EXCEPT ![c] = Idle(call[c].payout)]
\* What the provider said is not needed any more.
Turn(c, at) == call' = [call EXCEPT ![c] = [Idle(@.payout) EXCEPT !.at = at, !.manual = call[c].manual]]
SetPayoutStatus(p, status) == payout' = [payout EXCEPT ![p].status = status]

\* schedulePayout: a job that ended is removed first; adding one whose id is
\* still there does nothing.
SchedulePayout(p) ==
    job' = IF job[p].state \in {"waiting", "active"} THEN job
           ELSE [job EXCEPT ![p] = [state |-> "waiting", attemptsMade |-> 0]]

\* payoutIdempotencyKey: one key for each generation.
PayoutIdempotencyKey(generation) == generation

\* findLivePayoutByReference.
LiveDisbursements(p) == {g \in Generations : disbursement[p][g] \in LIVE_PAYOUT_STATUSES}

\* Mutant: a payout cancelled for a refund may still become PAID.
AppliesToCancelled(status) ==
    CASE status \in SUCCESS_STATUSES -> {"PENDING", "PROCESSING", "FAILED", "CANCELLED"}
      [] status \in FAILURE_STATUSES -> {"PENDING", "PROCESSING"}
      [] status = "CANCELLED" -> {"PENDING", "PROCESSING", "FAILED"}
      [] OTHER -> {}

\* Mutant: a late failure report takes back what was paid.
AppliesToPaid(status) ==
    CASE status \in SUCCESS_STATUSES -> {"PENDING", "PROCESSING", "FAILED"}
      [] status \in FAILURE_STATUSES -> {"PENDING", "PROCESSING", "PAID"}
      [] status = "CANCELLED" -> {"PENDING", "PROCESSING", "FAILED"}
      [] OTHER -> {}

\* The statuses a report moves the row from, and the one it moves it to.
AppliesTo(status) ==
    CASE status \in SUCCESS_STATUSES -> {"PENDING", "PROCESSING", "FAILED"}
      [] status \in FAILURE_STATUSES -> {"PENDING", "PROCESSING"}
      [] status = "CANCELLED" -> {"PENDING", "PROCESSING", "FAILED"}
      [] OTHER -> {}
StatusAfter(status) ==
    CASE status \in SUCCESS_STATUSES -> "PAID"
      [] status \in FAILURE_STATUSES -> "FAILED"
      [] OTHER -> "CANCELLED"

\* applyXenditPayoutStatus, up to the ledger posting.  seen is the disbursement
\* of the copy of the row it is given, id the one the report names.
ApplyXenditPayoutStatus(p, status, id, seen) ==
    payout' = IF PayoutIs(p, AppliesTo(status))
              THEN [payout EXCEPT ![p].status = StatusAfter(status), ![p].disbursement = id]
              ELSE IF status = "LIVE" /\ id # seen
              THEN [payout EXCEPT ![p].disbursement = id]
              ELSE payout

\* It goes on to postPayoutSent, for a payout now PAID or one CANCELLED before.
PostsAfter(p, status) ==
    status \in SUCCESS_STATUSES /\ PayoutIs(p, AppliesTo(status) \cup {"CANCELLED"})

-----------------------------------------------------------------------------
(* The payout comes to be, is queued again, is retried. *)

\* settleWorkerEarnings: the claim and the payout in one transaction, then the
\* job, which may not come about.  Dues may eat the whole amount: no payout.
SettleWorkerEarnings(p) ==
    /\ ~payment[p].settled
    /\ payment[p].refunded = "NO"
    /\ payment' = [payment EXCEPT ![p].settled = TRUE]
    /\ \/ UNCHANGED <<payout, job>>
       \/ /\ SetPayoutStatus(p, "PENDING")
          /\ SchedulePayout(p) \/ UNCHANGED job
    /\ UNCHANGED <<disbursement, sender, call, posted, crashes>>

\* The sweep over PENDING payouts.
RequeuePayout(p) ==
    /\ PayoutIs(p, {"PENDING"})
    /\ SchedulePayout(p)
    /\ UNCHANGED <<payment, payout, disbursement, sender, call, posted, crashes>>

\* retryPayout, to the guarded write.
RetryPayout(c, p) ==
    /\ call[c].at = "idle"
    /\ PayoutIs(p, {"FAILED"})
    /\ payout[p].retryGeneration < MaxRetries
    /\ payout' = [payout EXCEPT ![p].status = "PENDING", ![p].retryGeneration = @ + 1]
    /\ Begin(c, p, "queue")
    /\ UNCHANGED <<payment, disbursement, job, sender, posted, crashes>>

\* retryPayout: the job; without one the payout is FAILED again.
RetryQueue(c) ==
    LET p == call[c].payout IN
    /\ call[c].at = "queue"
    /\ \/ SchedulePayout(p) /\ UNCHANGED payout
       \/ /\ SchedulePayout(p) \/ UNCHANGED job
          /\ IF PayoutIs(p, {"PENDING"}) THEN SetPayoutStatus(p, "FAILED") ELSE UNCHANGED payout
    /\ Return(c)
    /\ UNCHANGED <<payment, disbursement, sender, posted, crashes>>

-----------------------------------------------------------------------------
(* processSendPayout, one statement at a time. *)

SenderTo(p, at) == sender' = [sender EXCEPT ![p].at = at]
SenderFinds(p, id, status) ==
    sender' = [sender EXCEPT ![p].at = "record", ![p].disbursement = id, ![p].status = status]

\* What the provider said is not needed any more.
SenderTurns(p, at) == sender' = [sender EXCEPT ![p] = [NoSender EXCEPT !.at = at]]

\* The run returns, and a completed job is removed.
Complete(p) ==
    /\ sender' = [sender EXCEPT ![p] = NoSender]
    /\ job' = [job EXCEPT ![p] = NoJob]

\* Mutant: only an admin's retry counts as a repeated attempt.
RetriedBefore(p) == payout[p].retryGeneration > 0

EarlierAttempt(p) == payout[p].attempted \/ payout[p].retryGeneration > 0

\* The row is read.
SendRead(p) ==
    /\ job[p].state = "waiting"
    /\ IF PayoutIs(p, {"PENDING"})
       THEN /\ job' = [job EXCEPT ![p].state = "active"]
            /\ sender' = [sender EXCEPT ![p] =
                  [NoSender EXCEPT !.at = "claim", !.earlierAttempt = EarlierAttempt(p),
                                   !.retryGeneration = payout[p].retryGeneration]]
       ELSE Complete(p)
    /\ UNCHANGED <<payment, payout, disbursement, call, posted, crashes>>

\* Mutant: no lookup before a repeated attempt.
SendClaimBlindly(p) ==
    /\ sender[p].at = "claim"
    /\ IF PayoutIs(p, {"PENDING"})
       THEN /\ payout' = [payout EXCEPT ![p].status = "PROCESSING", ![p].attempted = TRUE]
            /\ SenderTo(p, "create")
            /\ UNCHANGED job
       ELSE Complete(p) /\ UNCHANGED payout
    /\ UNCHANGED <<payment, disbursement, call, posted, crashes>>

\* PENDING -> PROCESSING, by this run or by none.
SendClaim(p) ==
    /\ sender[p].at = "claim"
    /\ IF PayoutIs(p, {"PENDING"})
       THEN /\ payout' = [payout EXCEPT ![p].status = "PROCESSING", ![p].attempted = TRUE]
            /\ SenderTo(p, IF sender[p].earlierAttempt THEN "lookup" ELSE "create")
            /\ UNCHANGED job
       ELSE Complete(p) /\ UNCHANGED payout
    /\ UNCHANGED <<payment, disbursement, call, posted, crashes>>

\* An earlier attempt may have got through.
SendLookup(p) ==
    /\ sender[p].at = "lookup"
    /\ \/ LiveDisbursements(p) = {} /\ SenderTo(p, "create")
       \/ \E g \in LiveDisbursements(p) :
             SenderFinds(p, g, disbursement[p][g])
    /\ UNCHANGED <<payment, payout, disbursement, job, call, posted, crashes>>

\* What the provider does with a request: it makes a disbursement, or finds
\* the one it made for the same key.
CreatePayout(p, g) ==
    \/ disbursement[p][g] # "none" /\ UNCHANGED disbursement
    \/ /\ disbursement[p][g] = "none"
       /\ \E s \in {"LIVE", "SUCCEEDED", "FAILED"} :
             disbursement' = [disbursement EXCEPT ![p][g] = s]

\* The disbursement is asked for, and the answer comes.
SendCreate(p) ==
    LET g == PayoutIdempotencyKey(sender[p].retryGeneration) IN
    /\ sender[p].at = "create"
    /\ CreatePayout(p, g)
    /\ SenderFinds(p, g, disbursement'[p][g])
    /\ UNCHANGED <<payment, payout, job, call, posted, crashes>>

SendRecord(p) ==
    /\ sender[p].at = "record"
    /\ payout' = [payout EXCEPT ![p].disbursement = sender[p].disbursement]
    /\ SenderTo(p, "apply")
    /\ UNCHANGED <<payment, disbursement, job, call, posted, crashes>>

SendApply(p) ==
    LET id == sender[p].disbursement
        status == sender[p].status IN
    /\ sender[p].at = "apply"
    /\ ApplyXenditPayoutStatus(p, status, id, id)
    /\ IF PostsAfter(p, status) THEN SenderTurns(p, "post") /\ UNCHANGED job ELSE Complete(p)
    /\ UNCHANGED <<payment, disbursement, call, posted, crashes>>

\* postPayoutSent, keyed by the payout.
SendPost(p) ==
    /\ sender[p].at = "post"
    /\ posted' = [posted EXCEPT ![p] = TRUE]
    /\ Complete(p)
    /\ UNCHANGED <<payment, payout, disbursement, call, crashes>>

IsFinalAttempt(p) == job[p].attemptsMade + 1 >= MaxAttempts

\* A statement or a request fails, or only its answer is lost: a disbursement
\* may have been made.  The row is handed on to the next attempt, or FAILED.
SendError(p) ==
    /\ sender[p].at \in {"lookup", "create", "record", "apply", "post"}
    /\ \/ UNCHANGED disbursement
       \/ /\ sender[p].at = "create"
          /\ CreatePayout(p, PayoutIdempotencyKey(sender[p].retryGeneration))
    /\ IF PayoutIs(p, {"PROCESSING"})
       THEN SetPayoutStatus(p, IF IsFinalAttempt(p) THEN "FAILED" ELSE "PENDING")
       ELSE UNCHANGED payout
    /\ SenderTurns(p, "throw")
    /\ UNCHANGED <<payment, job, call, posted, crashes>>

\* The error reaches the queue, after the notices of a last attempt.
SendThrow(p) ==
    /\ sender[p].at = "throw"
    /\ sender' = [sender EXCEPT ![p] = NoSender]
    /\ job' = [job EXCEPT ![p] = IF IsFinalAttempt(p) THEN [@ EXCEPT !.state = "failed"]
                                 ELSE [state |-> "waiting", attemptsMade |-> @.attemptsMade + 1]]
    /\ UNCHANGED <<payment, payout, disbursement, call, posted, crashes>>

\* The process dies.  The queue finds the job stalled: it runs again, or has
\* stalled too often and fails.
Crash(p) ==
    /\ crashes < MaxCrashes
    /\ crashes' = crashes + 1
    /\ sender[p].at # "idle"
    /\ sender' = [sender EXCEPT ![p] = NoSender]
    /\ \E state \in {"waiting", "failed"} : job' = [job EXCEPT ![p].state = state]
    /\ UNCHANGED <<payment, payout, disbursement, call, posted>>

-----------------------------------------------------------------------------
(* What the provider does and reports. *)

\* A disbursement arrives or fails, and one that arrived may be returned.
Disburse(p, g) ==
    /\ \/ /\ disbursement[p][g] = "LIVE"
          /\ \E s \in {"SUCCEEDED", "FAILED"} : disbursement' = [disbursement EXCEPT ![p][g] = s]
       \/ /\ disbursement[p][g] = "SUCCEEDED"
          /\ disbursement' = [disbursement EXCEPT ![p][g] = "REVERSED"]
    /\ UNCHANGED <<payment, payout, job, sender, call, posted, crashes>>

\* Webhooks come late, twice, out of order or never: any status the
\* disbursement has had may be reported.
Reported(status) ==
    (IF status = "none" THEN {} ELSE {"LIVE", status})
        \cup (IF status = "REVERSED" THEN {"SUCCEEDED"} ELSE {})

\* handleXenditPayoutWebhook, which finds the row by the disbursement's id or
\* by the reference, the payout's own id.
PayoutWebhook(c, p, g) ==
    /\ call[c].at = "idle"
    /\ \E status \in Reported(disbursement[p][g]) :
          /\ ApplyXenditPayoutStatus(p, status, g, payout[p].disbursement)
          /\ IF PostsAfter(p, status) THEN Begin(c, p, "post") ELSE UNCHANGED call
    /\ UNCHANGED <<payment, disbursement, job, sender, posted, crashes>>

\* postPayoutSent after a webhook or in the sweep.
PostPayoutSent(c) ==
    /\ call[c].at = "post"
    /\ posted' = [posted EXCEPT ![call[c].payout] = TRUE]
    /\ Return(c)
    /\ UNCHANGED <<payment, payout, disbursement, job, sender, crashes>>

-----------------------------------------------------------------------------
(* The sweep over payouts left PROCESSING for RECONCILE_AFTER_HOURS.  No run *)
(* of the sender takes an hour, so the one that claimed the row has ended.   *)

LeftProcessing(p) == PayoutIs(p, {"PROCESSING"}) /\ sender[p].at \in {"idle", "claim"}

ListStale(c, p) ==
    /\ call[c].at = "idle"
    /\ LeftProcessing(p)
    /\ payout[p].disbursement # NoId
    /\ call' = [call EXCEPT ![c] = [Idle(p) EXCEPT !.at = "reconcile",
                                                   !.disbursement = payout[p].disbursement]]
    /\ UNCHANGED <<payment, payout, disbursement, job, sender, posted, crashes>>

\* retrievePayout of the disbursement listed, and what it says.
ReconcilePayout(c) ==
    LET p == call[c].payout
        id == call[c].disbursement
        status == disbursement[p][id] IN
    /\ call[c].at = "reconcile"
    /\ ApplyXenditPayoutStatus(p, status, id, id)
    /\ IF PostsAfter(p, status) THEN Begin(c, p, "post") ELSE Return(c)
    /\ UNCHANGED <<payment, disbursement, job, sender, posted, crashes>>

\* Mutant: the sweep asks for a disbursement here as well.
ListOrphanedNamed(c, p) ==
    /\ call[c].at = "idle"
    /\ LeftProcessing(p)
    /\ payout[p].disbursement # NoId
    /\ Begin(c, p, "recover")
    /\ UNCHANGED <<payment, payout, disbursement, job, sender, posted, crashes>>

ListOrphaned(c, p) ==
    /\ call[c].at = "idle"
    /\ LeftProcessing(p)
    /\ payout[p].disbursement = NoId
    /\ Begin(c, p, "recover")
    /\ UNCHANGED <<payment, payout, disbursement, job, sender, posted, crashes>>

RecoverLookup(c) ==
    LET p == call[c].payout IN
    /\ call[c].at = "recover"
    /\ \/ LiveDisbursements(p) = {} /\ Continue(c, "adopt")
       \/ \E g \in LiveDisbursements(p) :
             CallFinds(c, "adopt", g, disbursement[p][g])
    /\ UNCHANGED <<payment, payout, disbursement, job, sender, posted, crashes>>

\* The disbursement found is adopted; without one the payout is sent again.
RecoverPayout(c) ==
    LET p == call[c].payout
        id == call[c].disbursement
        status == call[c].status IN
    /\ call[c].at = "adopt"
    /\ \/ /\ id = NoId
          /\ IF PayoutIs(p, {"PROCESSING"}) /\ payout[p].disbursement = NoId
             THEN SetPayoutStatus(p, "PENDING")
             ELSE UNCHANGED payout
          /\ Return(c)
       \/ /\ id # NoId
          /\ ApplyXenditPayoutStatus(p, status, id, NoId)
          /\ IF PostsAfter(p, status) THEN Begin(c, p, "post") ELSE Return(c)
    /\ UNCHANGED <<payment, disbursement, job, sender, posted, crashes>>

-----------------------------------------------------------------------------
(* refundOrVoidPayment and markRefundedManually of a paid online booking;   *)
(* stopWorkerPayout within.                                                 *)

\* The claim that keeps the earnings from being settled, if it comes first.
BeginRefund(c, p, manual) ==
    /\ call[c].at = "idle"
    /\ payment[p].refunded = "NO"
    /\ payment' = [payment EXCEPT ![p].settled = TRUE]
    /\ call' = [call EXCEPT ![c] = [Idle(p) EXCEPT !.at = IF payment[p].settled THEN "stop" ELSE "refund",
                                                   !.manual = manual]]
    /\ UNCHANGED <<payout, disbursement, job, sender, posted, crashes>>

RefundPayment(c, p) == BeginRefund(c, p, FALSE)
MarkRefundedManually(c, p) == BeginRefund(c, p, TRUE)

\* PayoutAlreadySentError ends a refund by the app.  One made by hand is
\* recorded all the same.
AlreadySent(c) == IF call[c].manual THEN Continue(c, "loss") ELSE Return(c)

StopRead(c) ==
    LET p == call[c].payout IN
    /\ call[c].at = "stop"
    /\ CASE PayoutIs(p, {"NONE", "CANCELLED"}) -> Continue(c, "refund")
         [] PayoutIs(p, {"PAID"}) -> AlreadySent(c)
         [] OTHER -> Continue(c, "cancel")
    /\ UNCHANGED <<payment, payout, disbursement, job, sender, posted, crashes>>

NotSent(p) == PayoutIs(p, {"PENDING", "FAILED"})

\* cancelIfNotSent.
StopCancel(c) ==
    LET p == call[c].payout IN
    /\ call[c].at = "cancel"
    /\ IF NotSent(p) THEN SetPayoutStatus(p, "CANCELLED") /\ Continue(c, "refund")
       ELSE Continue(c, "inFlight") /\ UNCHANGED payout
    /\ UNCHANGED <<payment, disbursement, job, sender, posted, crashes>>

\* PayoutInFlightError, which ends either, while the row has no disbursement.
StopInFlight(c) ==
    LET p == call[c].payout IN
    /\ call[c].at = "inFlight"
    /\ CASE PayoutIs(p, {"CANCELLED"}) -> Continue(c, "refund")
         [] PayoutIs(p, {"PROCESSING"}) /\ payout[p].disbursement # NoId ->
               CallFinds(c, "remote", payout[p].disbursement, "none")
         [] PayoutIs(p, {"PROCESSING"}) /\ payout[p].disbursement = NoId -> Return(c)
         [] OTHER -> AlreadySent(c)
    /\ UNCHANGED <<payment, payout, disbursement, job, sender, posted, crashes>>

\* cancelPayout, or retrievePayout where that is refused, or neither.
StopRemote(c) ==
    LET p == call[c].payout
        id == call[c].disbursement IN
    /\ call[c].at = "remote"
    /\ \/ UNCHANGED disbursement
       \/ /\ disbursement[p][id] = "LIVE"
          /\ disbursement' = [disbursement EXCEPT ![p][id] = "CANCELLED"]
    /\ \E answer \in {disbursement'[p][id], "none"} : CallFinds(c, "stopApply", id, answer)
    /\ UNCHANGED <<payment, payout, job, sender, posted, crashes>>

StopApply(c) ==
    LET p == call[c].payout
        id == call[c].disbursement
        status == call[c].status IN
    /\ call[c].at = "stopApply"
    /\ ApplyXenditPayoutStatus(p, status, id, id)
    /\ Turn(c, IF PostsAfter(p, status) THEN "stopPost" ELSE "recheck")
    /\ UNCHANGED <<payment, disbursement, job, sender, posted, crashes>>

StopPost(c) ==
    /\ call[c].at = "stopPost"
    /\ posted' = [posted EXCEPT ![call[c].payout] = TRUE]
    /\ Continue(c, "recheck")
    /\ UNCHANGED <<payment, payout, disbursement, job, sender, crashes>>

\* cancelIfNotSent once more and the last look.  A cancellation by another call
\* between the two is met by the next attempt to refund.
StopRecheck(c) ==
    LET p == call[c].payout IN
    /\ call[c].at = "recheck"
    /\ IF NotSent(p) THEN SetPayoutStatus(p, "CANCELLED") ELSE UNCHANGED payout
    /\ IF payout'[p].status = "CANCELLED" THEN Continue(c, "refund") ELSE AlreadySent(c)
    /\ UNCHANGED <<payment, disbursement, job, sender, posted, crashes>>

\* Mutant: a refund by hand that found the payout sent is posted like the others.
LossCommitBack(c) ==
    /\ call[c].at = "loss"
    /\ payment' = [payment EXCEPT ![call[c].payout].refunded = "BACK"]
    /\ Return(c)
    /\ UNCHANGED <<payout, disbursement, job, sender, posted, crashes>>

\* The payment is REFUNDED.  The provider, asked by the app, may not have
\* carried it out yet.
RefundCommit(c) ==
    LET p == call[c].payout IN
    /\ call[c].at = "refund"
    /\ \E pending \in IF call[c].manual THEN {payment[p].pending} ELSE BOOLEAN :
          payment' = [payment EXCEPT ![p].refunded = "BACK", ![p].pending = pending]
    /\ Return(c)
    /\ UNCHANGED <<payout, disbursement, job, sender, posted, crashes>>

\* The payment is REFUNDED, the payout being what it is by now.
LossCommit(c) ==
    /\ call[c].at = "loss"
    /\ payment' = [payment EXCEPT ![call[c].payout].refunded = "LOSS"]
    /\ Return(c)
    /\ UNCHANGED <<payout, disbursement, job, sender, posted, crashes>>

\* reconcilePendingRefund: the provider carried the refund out, or did not: then
\* the payment is COMPLETED again.
ReconcilePendingRefund(p) ==
    /\ payment[p].refunded # "NO" /\ payment[p].pending
    /\ \E refunded \in {payment[p].refunded, "NO"} :
          payment' = [payment EXCEPT ![p].refunded = refunded, ![p].pending = FALSE]
    /\ UNCHANGED <<payout, disbursement, job, sender, call, posted, crashes>>

-----------------------------------------------------------------------------

\* A call fails, at any of its statements.
Fail(c) ==
    /\ call[c].at # "idle"
    /\ Return(c)
    /\ UNCHANGED <<payment, payout, disbursement, job, sender, posted, crashes>>

SenderStep(p) ==
    \/ SendRead(p) \/ SendClaim(p) \/ SendLookup(p) \/ SendCreate(p) \/ SendRecord(p)
    \/ SendApply(p) \/ SendPost(p) \/ SendError(p) \/ SendThrow(p)

CallStep(c) ==
    \/ RetryQueue(c) \/ PostPayoutSent(c) \/ ReconcilePayout(c) \/ RecoverLookup(c)
    \/ RecoverPayout(c) \/ StopRead(c) \/ StopCancel(c) \/ StopInFlight(c) \/ StopRemote(c)
    \/ StopApply(c) \/ StopPost(c) \/ StopRecheck(c) \/ RefundCommit(c)
    \/ LossCommit(c)

Next ==
    \/ \E p \in Payouts :
          \/ SettleWorkerEarnings(p) \/ RequeuePayout(p) \/ SenderStep(p) \/ Crash(p)
          \/ ReconcilePendingRefund(p)
          \/ \E g \in Generations : Disburse(p, g)
    \/ \E c \in Calls :
          \/ CallStep(c) \/ Fail(c)
          \/ \E p \in Payouts :
                \/ RetryPayout(c, p) \/ ListStale(c, p) \/ ListOrphaned(c, p)
                \/ RefundPayment(c, p) \/ MarkRefundedManually(c, p)
                \/ \E g \in Generations : PayoutWebhook(c, p, g)

Spec == Init /\ [][Next]_vars

\* The queue runs its jobs.  The sweep comes round again and again, and not
\* every attempt of it fails.  A call in flight goes on or fails.  The provider
\* brings every disbursement to an end.
Fairness ==
    /\ \A p \in Payouts :
          /\ WF_vars(SenderStep(p))
          /\ WF_vars(RequeuePayout(p))
          /\ \A g \in Generations : WF_vars(disbursement[p][g] = "LIVE" /\ Disburse(p, g))
          /\ SF_vars(\E c \in Calls : ListStale(c, p))
          /\ SF_vars(\E c \in Calls : ListOrphaned(c, p))
          /\ SF_vars(\E c \in Calls : call[c].payout = p /\ ReconcilePayout(c))
          /\ SF_vars(\E c \in Calls : call[c].payout = p /\ RecoverLookup(c))
          /\ SF_vars(\E c \in Calls : call[c].payout = p /\ RecoverPayout(c))
    /\ \A c \in Calls : WF_vars(CallStep(c) \/ Fail(c))

FairSpec == Spec /\ Fairness

-----------------------------------------------------------------------------
(* Properties. *)

(* A worker is sent his earnings once: of the disbursements made for a       *)
(* payout, over retries, lost answers and crashes, at most one is under way  *)
(* or has arrived and stayed.                                                *)
OneTransfer ==
    \A p \in Payouts, g, h \in Generations :
        g \in LiveDisbursements(p) /\ h \in LiveDisbursements(p) => g = h

(* The worker's part is not taken back from him with a payout still his: a   *)
(* payment whose refund is recorded against his earnings has no payout, or   *)
(* one CANCELLED, whatever the provider, the sweep or an admin do afterwards *)
(* (stopWorkerPayout); one whose worker's part is recorded as a loss has one *)
(* (workerAlreadyPaid in markRefundedManually).                              *)
RefundedIsCancelled ==
    \A p \in Payouts :
        /\ payment[p].refunded = "BACK" => payment[p].settled /\ PayoutIs(p, {"NONE", "CANCELLED"})
        /\ payment[p].refunded = "LOSS" => payment[p].settled /\ ~PayoutIs(p, {"NONE"})

Arrived(p) == \E g \in Generations : disbursement[p][g] \in {"SUCCEEDED", "REVERSED"}

(* A payout is recorded as PAID, or its sending posted to the ledger, only   *)
(* if the money did arrive.                                                  *)
PaidHasArrived ==
    \A p \in Payouts :
        PayoutIs(p, {"PAID"}) \/ posted[p] => Arrived(p)

(* A late failure report, a retry or the sweep never reopens what was paid:  *)
(* a PAID row stays so, and while the money is not returned no other         *)
(* transfer is asked for.                                                    *)
PaidNotSentAgain ==
    [][\A p \in Payouts : PayoutIs(p, {"PAID"}) =>
          /\ payout'[p].status = "PAID"
          /\ LiveDisbursements(p) # {} =>
                \A g \in Generations : disbursement[p][g] = "none" => disbursement'[p][g] = "none"]_vars

(* No payout is left lying: one that waits or is being sent comes to an end, *)
(* over crashes, failing statements and lost webhooks.                       *)
PayoutEnds ==
    \A p \in Payouts :
        PayoutIs(p, {"PENDING", "PROCESSING"}) ~> PayoutIs(p, {"PAID", "FAILED", "CANCELLED"})

(* Why there is one transfer: a run goes to ask for one only when none        *)
(* lives, and no other run of the same job can come between.                 *)
NoneBeforeAttempt ==
    \A p \in Payouts, g \in Generations :
        /\ ~payout[p].attempted => disbursement[p][g] = "none"
        /\ sender[p].at = "claim" /\ ~sender[p].earlierAttempt => disbursement[p][g] = "none"
NoneWhenAsked ==
    \A p \in Payouts :
        /\ sender[p].at \in {"lookup", "create"} => payout[p].attempted
        /\ sender[p].at = "create" => LiveDisbursements(p) = {}

(* Why a refund finds no payout paid: a payout is made only with the claim   *)
(* of the earnings, a call that goes on to the refund has that claim or has  *)
(* found the payout CANCELLED, and one that tries to stop a payout, or found *)
(* it sent, has found one.                                                   *)
MadeWhenSettled == \A p \in Payouts : ~payment[p].settled => PayoutIs(p, {"NONE"})
StopSteps == {"cancel", "inFlight", "remote", "stopApply", "stopPost", "recheck", "loss"}
RefundSteps == StopSteps \cup {"stop", "refund"}
RefundGoesOn ==
    \A c \in Calls :
        LET p == call[c].payout IN
        /\ call[c].at \in RefundSteps => payment[p].settled
        /\ call[c].at = "refund" => PayoutIs(p, {"NONE", "CANCELLED"})
        /\ call[c].at \in StopSteps => ~PayoutIs(p, {"NONE"})

(* Why what is PAID has arrived: what was heard from the provider was so, of  *)
(* a disbursement it made.                                                   *)
HeardIsTrue ==
    /\ \A p \in Payouts :
          sender[p].at \in {"record", "apply"} => sender[p].disbursement \in Generations
    /\ \A c \in Calls :
          call[c].at \in {"reconcile", "remote", "stopApply"} => call[c].disbursement \in Generations
    /\ \A p \in Payouts :
          sender[p].status = "SUCCEEDED" \/ sender[p].at = "post" => Arrived(p)
    /\ \A c \in Calls :
          call[c].status = "SUCCEEDED" \/ call[c].at \in {"post", "stopPost"} => Arrived(call[c].payout)

PayoutInv ==
    /\ OneTransfer /\ NoneBeforeAttempt /\ NoneWhenAsked
    /\ RefundedIsCancelled /\ MadeWhenSettled /\ RefundGoesOn
    /\ PaidHasArrived /\ HeardIsTrue

(* The inductive invariant: rows, runs of the sender and calls keep their    *)
(* types, and what the sending and the refund rely on stays true from one    *)
(* of their statements to the next (processSendPayout, stopWorkerPayout).    *)
Inv == TypeOK /\ PayoutInv

(* A payout cancelled because its payment was refunded is never sent: no     *)
(* disbursement is made for it from then on.                                 *)
CancelledNeverSent ==
    [][\A p \in Payouts, g \in Generations :
          PayoutIs(p, {"CANCELLED"}) /\ disbursement[p][g] = "none" => disbursement'[p][g] = "none"]_vars

(* Whatever the provider, the queue, the sweep and the admins do: the        *)
(* earnings are claimed once, a payout PAID or CANCELLED stays so, and the   *)
(* refund of the client is recorded against them only when none is open or   *)
(* paid, else as a loss (settleWorkerEarnings, applyXenditPayoutStatus,      *)
(* stopWorkerPayout, markRefundedManually).                                  *)
OfWorker == INSTANCE Earnings WITH
    Payments <- Payouts,
    claimed <- [p \in Payouts |-> payment[p].settled],
    payout <- [p \in Payouts |->
                  IF PayoutIs(p, {"PENDING", "PROCESSING", "FAILED"}) THEN "OPEN" ELSE payout[p].status],
    returned <- [p \in Payouts |-> payment[p].refunded]

FollowsEarnings == OfWorker!Spec
=============================================================================
