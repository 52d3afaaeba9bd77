------------------------------ MODULE Booking -------------------------------
(***************************************************************************)
(* The booking row of the backend and everything that writes it: the       *)
(* endpoints of the client, the worker and the admin, the sweeps of        *)
(* bookingWorker.ts and the status writes of the payment code.  With it go *)
(* the rows written in the same transactions: disputes, the cancellation,  *)
(* the penalty and compensation entries and the worker's activeJobCount.   *)
(*                                                                         *)
(* One step is one database transaction or one statement outside any.  A   *)
(* handler that reads the booking, lets others run, and then writes is two *)
(* steps: the read leaves a call in flight holding the row it saw, and the *)
(* write consults that copy exactly where the code does.  A handler whose  *)
(* guarded write repeats everything the read had checked is one step: the  *)
(* read can only make it answer 409 earlier.  Accepting a job and agreeing *)
(* to a new start time take the worker's row lock, look for a clash and    *)
(* then write, each a step of its own.                                     *)
(*                                                                         *)
(* Payments appear only as the status they write; the rows behind them     *)
(* (payment, invoice, refund, payout) belong to other modules.             *)
(***************************************************************************)
EXTENDS Integers, FiniteSets

CONSTANTS
  Bookings,     \* the bookings that may be made
  Workers,      \* the workers they may be made with
  Disputes,     \* ids for dispute rows: a bound on how many are opened
  Calls,        \* slots for calls in flight: a bound on concurrency
  Starts,       \* start times a job may be booked for
  MaxTime,      \* bound on the clock, in ticks
  Grace,        \* noShowGraceMinutes, in ticks
  Early,        \* how long before the start a check-in is in the window
  MaxRequests,  \* bound on reschedule requests per booking
  MaxResends,   \* bound on invoices sent again from a dispute, per booking
  None

ASSUME ConstantsAssumption ==
  /\ Starts \subseteq Nat
  /\ MaxTime \in Nat
  /\ Grace \in Nat
  /\ Early \in Nat
  /\ MaxRequests \in Nat
  /\ MaxResends \in Nat
  /\ None \notin Bookings \cup Workers \cup Calls \cup Nat

VARIABLES
  booking,       \* the Booking rows
  dispute,       \* the Dispute rows
  cancellation,  \* the Cancellation row of a booking, or None
  charge,        \* dues entries made for a booking's cancellation
  activeJobs,    \* WorkerProfile.activeJobCount
  lock,          \* the call holding a WorkerProfile row FOR UPDATE, or None
  call,          \* the calls in flight
  now            \* the clock

vars == <<booking, dispute, cancellation, charge, activeJobs, lock, call, now>>

-----------------------------------------------------------------------------
(* Rows.                                                                   *)

Times == 0 .. MaxTime

JobStatuses == {"ACCEPTED", "IN_PROGRESS"}
BilledStatuses == {"PENDING_COMPLETION", "AWAITING_PAYMENT"}
Terminal == {"COMPLETED", "REJECTED", "CANCELLED"}
Statuses == {"PENDING", "DISPUTED"} \cup JobStatuses \cup BilledStatuses \cup Terminal

Row == [
  status    : Statuses \cup {"NONE"},
  worker    : Workers \cup {None},
  start     : Starts \cup {None},     \* scheduledDate and scheduledTime
  cash      : BOOLEAN,                \* paymentMethodType is CASH
  arrived   : BOOLEAN,                \* workerArrivedAt is set
  inWindow  : BOOLEAN,                \* not ArrivalVerification.isOutsideBookedWindow
  notHere   : Times \cup {None},      \* clientNotHereAt
  asked     : BOOLEAN,                \* cancelRequestedAt is set
  escalated : BOOLEAN,                \* cancelRequestEscalatedAt is set
  completed : BOOLEAN,                \* workerCompletedAt is set
  resends   : 0 .. MaxResends,        \* history: invoices sent from a dispute
  kept      : BOOLEAN,                \* disputeResolvedAt is set
  request   : 0 .. MaxRequests,       \* rescheduleRequestedAt, as a serial number
  newStart  : Starts \cup {None},     \* requestedScheduledDate and Time
  pending   : BOOLEAN,                \* the request has no rescheduleRequestRespondedAt
  visit     : BOOLEAN                 \* a BookingVisit is SCHEDULED
]

NoRow == [
  status |-> "NONE", worker |-> None, start |-> None, cash |-> FALSE,
  arrived |-> FALSE, inWindow |-> FALSE, notHere |-> None, asked |-> FALSE,
  escalated |-> FALSE, completed |-> FALSE, resends |-> 0, kept |-> FALSE,
  request |-> 0, newStart |-> None, pending |-> FALSE, visit |-> FALSE
]

DisputeRow == [
  booking : Bookings \cup {None},
  status  : {"FREE", "OPEN", "UNDER_REVIEW", "RESOLVED"},
  overdue : BOOLEAN                   \* the reason starts with 'Payment overdue'
]

NoDispute == [booking |-> None, status |-> "FREE", overdue |-> FALSE]

CancellationRow == [
  reason : {"CLIENT", "WORKER", "ADMIN", "AGREED", "WORKER_NO_SHOW", "NO_RESPONSE"},
  review : {"NOT_APPLICABLE", "PENDING_REVIEW", "APPROVED", "REJECTED"}
]

ASSUME NoneAssumption == None \notin CancellationRow

\* The PENALTY and CANCELLATION_COMPENSATION entries booked for a booking.
ChargeRow == [penalties : Nat, compensations : Nat]

Ops == {"accept", "acceptLocked", "arrive", "move", "moveLocked", "autoDecline",
        "complete", "resend", "invoice", "invoiceForWorker", "autoSettle", "overdue",
        "agreeCancel", "workerCancel", "noShow", "openReview", "closeDispute",
        "platformPay", "refund", "review", "visit"}

\* A call in flight: the booking row it read, and the dispute it is about.
CallRecord == [op : Ops, b : Bookings, d : Disputes \cup {None}, seen : Row]

Idle == [op |-> "idle"]

TypeOK ==
  /\ booking \in [Bookings -> Row]
  /\ dispute \in [Disputes -> DisputeRow]
  /\ cancellation \in [Bookings -> CancellationRow \cup {None}]
  /\ charge \in [Bookings -> ChargeRow]
  /\ activeJobs \in [Workers -> Int]
  /\ lock \in [Workers -> Calls \cup {None}]
  /\ call \in [Calls -> CallRecord \cup {Idle}]
  /\ now \in Times

Init ==
  /\ booking = [b \in Bookings |-> NoRow]
  /\ dispute = [d \in Disputes |-> NoDispute]
  /\ cancellation = [b \in Bookings |-> None]
  /\ charge = [b \in Bookings |-> [penalties |-> 0, compensations |-> 0]]
  /\ activeJobs = [w \in Workers |-> 0]
  /\ lock = [w \in Workers |-> None]
  /\ call = [p \in Calls |-> Idle]
  /\ now = 0

-----------------------------------------------------------------------------
(* Calls, and the pieces the handlers share.                               *)

\* The calls that use the row they read once more, in the write or in what
\* they then tell people; the others only needed it to decide to go on.
ConsultingOps == {"accept", "move", "arrive", "agreeCancel", "workerCancel"}

\* The handler op reads the booking and goes on to its first await.
Begin(p, op, b, d) ==
  /\ call[p] = Idle
  /\ call' = [call EXCEPT ![p] =
                [op |-> op, b |-> b, d |-> d,
                 seen |-> IF op \in ConsultingOps THEN booking[b] ELSE NoRow]]

InFlight(p, op) == call[p].op = op

Continue(p, op) == call' = [call EXCEPT ![p].op = op]

Return(p) == call' = [call EXCEPT ![p] = Idle]

Unlock(p) == lock' = [w \in Workers |-> IF lock[w] = p THEN None ELSE lock[w]]

\* updateBookingIfStatus finds no row: the transaction rolls back, 409.
Conflict(p) ==
  /\ Return(p)
  /\ UNCHANGED <<booking, dispute, cancellation, charge, activeJobs, now>>

\* One write of a booking's row.
UpdateBooking(b, row) == booking' = [booking EXCEPT ![b] = row]

SetStatus(b, status) == UpdateBooking(b, [booking[b] EXCEPT !.status = status])

OpenDisputes(b) ==
  {d \in Disputes : dispute[d].booking = b /\ dispute[d].status \in {"OPEN", "UNDER_REVIEW"}}

CreateDispute(b, overdue) ==
  \E d \in Disputes :
    /\ dispute[d].status = "FREE"
    /\ dispute' = [dispute EXCEPT ![d] =
                     [booking |-> b, status |-> "OPEN", overdue |-> overdue]]

\* An open dispute is joined: only its text grows.
OpenOrJoinDisputeTx(b) ==
  IF OpenDisputes(b) # {} THEN UNCHANGED dispute ELSE CreateDispute(b, FALSE)

CloseDisputes(ds) ==
  dispute' = [d \in Disputes |->
                IF d \in ds THEN [dispute[d] EXCEPT !.status = "RESOLVED"] ELSE dispute[d]]

JobEnds(b) == activeJobs' = [activeJobs EXCEPT ![booking[b].worker] = @ - 1]

\* Cancellation.bookingId is unique: a second row would fail the transaction.
CreateCancellation(b, reason, review) ==
  /\ cancellation[b] = None
  /\ cancellation' = [cancellation EXCEPT ![b] = [reason |-> reason, review |-> review]]

\* Mutant: whether a worker had taken the job is not asked.
JobCountedUntilDone(seen) == ~seen.completed

\* Whether the worker's activeJobCount still includes the job.
JobCounted(seen) == ~seen.completed /\ seen.status \in JobStatuses \cup {"DISPUTED"}

\* The caller's copy of the booking decides whether the job still counted.
FinalizeCancellationTx(b, seen, reason, review) ==
  /\ booking[b].status = seen.status
  /\ UpdateBooking(b, [booking[b] EXCEPT !.status = "CANCELLED", !.visit = FALSE])
  /\ IF JobCounted(seen) THEN JobEnds(b) ELSE UNCHANGED activeJobs
  /\ CloseDisputes(OpenDisputes(b))
  /\ CreateCancellation(b, reason, review)

ChargePenaltyTx(b) == charge' = [charge EXCEPT ![b].penalties = @ + 1]

\* Mutant: the entry is posted to the wrong side.
DebitCompensationTx(b) == charge' = [charge EXCEPT ![b].compensations = @ - 1]

CreditCompensationTx(b) == charge' = [charge EXCEPT ![b].compensations = @ + 1]

\* Mutant: a job already under way is not looked at.
StartTimeClashAccepted(b, w, start) ==
  \E c \in Bookings \ {b} :
    booking[c].worker = w /\ booking[c].start = start /\ booking[c].status = "ACCEPTED"

\* Another live job of the worker starts at the same time.
StartTimeClash(b, w, start) ==
  \E c \in Bookings \ {b} :
    booking[c].worker = w /\ booking[c].start = start /\ booking[c].status \in JobStatuses

NoShowDeadlinePassed(start) == now >= start + Grace

-----------------------------------------------------------------------------
(* The clock, and a call that ends without writing: an exception, a lost   *)
(* database connection, a restart of the server.                           *)

Tick ==
  /\ now < MaxTime
  /\ now' = now + 1
  /\ UNCHANGED <<booking, dispute, cancellation, charge, activeJobs, lock, call>>

Fail(p) ==
  /\ call[p] # Idle
  /\ Return(p)
  /\ Unlock(p)
  /\ UNCHANGED <<booking, dispute, cancellation, charge, activeJobs, now>>

-----------------------------------------------------------------------------
(* Booking a job, and the worker's answer.                                 *)

CreateBooking(b, w, start, cash) ==
  /\ booking[b].status = "NONE"
  /\ start > now
  /\ UpdateBooking(b, [booking[b] EXCEPT !.status = "PENDING", !.worker = w,
                                         !.start = start, !.cash = cash])
  /\ UNCHANGED <<dispute, cancellation, charge, activeJobs, lock, call, now>>

AcceptBooking(p, b) ==
  /\ booking[b].status = "PENDING"
  /\ Begin(p, "accept", b, None)
  /\ UNCHANGED <<booking, dispute, cancellation, charge, activeJobs, lock, now>>

AcceptLock(p) ==
  /\ InFlight(p, "accept")
  /\ LET c == call[p] IN
       /\ lock[c.seen.worker] = None
       /\ IF StartTimeClash(c.b, c.seen.worker, c.seen.start)
            THEN Return(p) /\ UNCHANGED lock
            ELSE /\ Continue(p, "acceptLocked")
                 /\ lock' = [lock EXCEPT ![c.seen.worker] = p]
  /\ UNCHANGED <<booking, dispute, cancellation, charge, activeJobs, now>>

AcceptCommit(p) ==
  /\ InFlight(p, "acceptLocked")
  /\ Unlock(p)
  /\ LET b == call[p].b IN
       \/ /\ booking[b].status = "PENDING"
          /\ SetStatus(b, "ACCEPTED")
          /\ activeJobs' = [activeJobs EXCEPT ![call[p].seen.worker] = @ + 1]
          /\ Return(p)
          /\ UNCHANGED <<dispute, cancellation, charge, now>>
       \/ booking[b].status # "PENDING" /\ Conflict(p)

DeclineBooking(b) ==
  /\ booking[b].status = "PENDING"
  /\ SetStatus(b, "REJECTED")
  /\ UNCHANGED <<dispute, cancellation, charge, activeJobs, lock, call, now>>

\* Mutant: the sweep looks at upcoming bookings only.
ExpireUpcomingBooking(b) ==
  /\ booking[b].status = "PENDING" /\ booking[b].start > now
  /\ SetStatus(b, "CANCELLED")
  /\ CreateCancellation(b, "NO_RESPONSE", "NOT_APPLICABLE")
  /\ UNCHANGED <<dispute, charge, activeJobs, lock, call, now>>

\* The pending-expiry job, or its cron twin.
ExpirePendingBooking(b) ==
  /\ booking[b].status = "PENDING"
  /\ SetStatus(b, "CANCELLED")
  /\ CreateCancellation(b, "NO_RESPONSE", "NOT_APPLICABLE")
  /\ UNCHANGED <<dispute, charge, activeJobs, lock, call, now>>

-----------------------------------------------------------------------------
(* Moving an accepted job to another start time.                           *)

RequestReschedule(b, start) ==
  /\ booking[b].status = "ACCEPTED" /\ ~booking[b].arrived /\ ~booking[b].pending
  /\ start > now /\ start # booking[b].start
  /\ booking[b].request < MaxRequests
  /\ UpdateBooking(b, [booking[b] EXCEPT !.request = @ + 1, !.newStart = start,
                                         !.pending = TRUE])
  /\ UNCHANGED <<dispute, cancellation, charge, activeJobs, lock, call, now>>

\* Withdrawn by the side that asked, or declined by the other.
CloseRequest(b) ==
  /\ booking[b].pending
  /\ UpdateBooking(b, [booking[b] EXCEPT !.pending = FALSE])
  /\ UNCHANGED <<dispute, cancellation, charge, activeJobs, lock, call, now>>

WithdrawRescheduleRequest(b) == CloseRequest(b)
DeclineRescheduleRequest(b) == CloseRequest(b)

AcceptReschedule(p, b) ==
  /\ booking[b].pending /\ booking[b].status = "ACCEPTED" /\ ~booking[b].arrived
  /\ booking[b].newStart > now
  /\ Begin(p, "move", b, None)
  /\ UNCHANGED <<booking, dispute, cancellation, charge, activeJobs, lock, now>>

MoveLock(p) ==
  /\ InFlight(p, "move")
  /\ LET c == call[p] IN
       /\ lock[c.seen.worker] = None
       /\ IF StartTimeClash(c.b, c.seen.worker, c.seen.newStart)
            THEN Return(p) /\ UNCHANGED lock
            ELSE /\ Continue(p, "moveLocked")
                 /\ lock' = [lock EXCEPT ![c.seen.worker] = p]
  /\ UNCHANGED <<booking, dispute, cancellation, charge, activeJobs, now>>

\* Mutant: any pending request may be answered.
StillPending(b, seen) == booking[b].pending

\* Only the request the responder saw may be answered.
StillOpen(b, seen) == booking[b].pending /\ booking[b].request = seen.request

MoveCommit(p) ==
  /\ InFlight(p, "moveLocked")
  /\ Unlock(p)
  /\ LET b == call[p].b
         seen == call[p].seen
         ok == booking[b].status = "ACCEPTED" /\ ~booking[b].arrived /\ StillOpen(b, seen)
     IN \/ /\ ok
           /\ UpdateBooking(b, [booking[b] EXCEPT !.start = seen.newStart,
                                                  !.pending = FALSE])
           /\ Return(p)
           /\ UNCHANGED <<dispute, cancellation, charge, activeJobs, now>>
        \/ ~ok /\ Conflict(p)

\* The sweep over requests unanswered for 48 hours.
AutoDecline(p, b) ==
  /\ booking[b].pending
  /\ Begin(p, "autoDecline", b, None)
  /\ UNCHANGED <<booking, dispute, cancellation, charge, activeJobs, lock, now>>

AutoDeclineCommit(p) ==
  /\ InFlight(p, "autoDecline")
  /\ UpdateBooking(call[p].b, [booking[call[p].b] EXCEPT !.pending = FALSE])
  /\ Return(p)
  /\ UNCHANGED <<dispute, cancellation, charge, activeJobs, lock, now>>

-----------------------------------------------------------------------------
(* On the day: check-in, start, follow-up visits, no-shows.                *)

ArriveBooking(p, b) ==
  /\ booking[b].status = "ACCEPTED" /\ ~booking[b].arrived
  /\ Begin(p, "arrive", b, None)
  /\ UNCHANGED <<booking, dispute, cancellation, charge, activeJobs, lock, now>>

\* The write is guarded only by the unique ArrivalVerification row.
ArriveCommit(p) ==
  /\ InFlight(p, "arrive")
  /\ LET b == call[p].b
         start == call[p].seen.start
     IN IF booking[b].arrived THEN UNCHANGED booking
        ELSE UpdateBooking(b, [booking[b] EXCEPT !.arrived = TRUE,
                                 !.inWindow = now \in (start - Early) .. (start + Grace)])
  /\ Return(p)
  /\ UNCHANGED <<dispute, cancellation, charge, activeJobs, lock, now>>

ReportClientNotHere(b) ==
  /\ booking[b].status = "ACCEPTED" /\ booking[b].arrived /\ booking[b].notHere = None
  /\ UpdateBooking(b, [booking[b] EXCEPT !.notHere = now])
  /\ UNCHANGED <<dispute, cancellation, charge, activeJobs, lock, call, now>>

StartBooking(b) ==
  /\ booking[b].status = "ACCEPTED" /\ booking[b].arrived
  /\ SetStatus(b, "IN_PROGRESS")
  /\ UNCHANGED <<dispute, cancellation, charge, activeJobs, lock, call, now>>

ScheduleVisit(p, b) ==
  /\ booking[b].status = "IN_PROGRESS"
  /\ Begin(p, "visit", b, None)
  /\ UNCHANGED <<booking, dispute, cancellation, charge, activeJobs, lock, now>>

VisitCommit(p) ==
  /\ InFlight(p, "visit")
  /\ UpdateBooking(call[p].b, [booking[call[p].b] EXCEPT !.visit = TRUE])
  /\ Return(p)
  /\ UNCHANGED <<dispute, cancellation, charge, activeJobs, lock, now>>

CancelVisit(b) ==
  /\ booking[b].visit
  /\ UpdateBooking(b, [booking[b] EXCEPT !.visit = FALSE])
  /\ UNCHANGED <<dispute, cancellation, charge, activeJobs, lock, call, now>>

\* Mutant: the sweep finds a no-show only in the run right after its deadline.
WorkerNoShowOnce(p, b) ==
  /\ booking[b].status = "ACCEPTED" /\ ~booking[b].arrived
  /\ now = booking[b].start + Grace
  /\ Begin(p, "noShow", b, None)
  /\ UNCHANGED <<booking, dispute, cancellation, charge, activeJobs, lock, now>>

\* The no-show sweep, or the client's WORKER_NOT_HERE report: both read the
\* booking, find its start long past and call cancelAsWorkerNoShow.
WorkerNoShow(p, b) ==
  /\ booking[b].status = "ACCEPTED" /\ ~booking[b].arrived
  /\ NoShowDeadlinePassed(booking[b].start)
  /\ Begin(p, "noShow", b, None)
  /\ UNCHANGED <<booking, dispute, cancellation, charge, activeJobs, lock, now>>

CancelAsWorkerNoShow(p) ==
  /\ InFlight(p, "noShow")
  /\ UNCHANGED <<lock, now>>
  /\ LET b == call[p].b
         ok == booking[b].status = "ACCEPTED" /\ ~booking[b].arrived
     IN \/ /\ ok
           /\ UpdateBooking(b, [booking[b] EXCEPT !.status = "CANCELLED",
                                                  !.visit = FALSE])
           /\ JobEnds(b)
           /\ CloseDisputes(OpenDisputes(b))
           /\ CreateCancellation(b, "WORKER_NO_SHOW", "NOT_APPLICABLE")
           /\ ChargePenaltyTx(b)
           /\ Return(p)
        \/ ~ok /\ Conflict(p)

-----------------------------------------------------------------------------
(* The client's problem reports and cancel request.                        *)

ReportBookingProblem(b) ==
  /\ booking[b].status \in JobStatuses
  /\ OpenDisputes(b) = {} /\ CreateDispute(b, FALSE)
  /\ UNCHANGED <<booking, cancellation, charge, activeJobs, lock, call, now>>

RequestCancel(b) ==
  /\ booking[b].status \in JobStatuses /\ ~booking[b].asked
  /\ UpdateBooking(b, [booking[b] EXCEPT !.asked = TRUE])
  /\ UNCHANGED <<dispute, cancellation, charge, activeJobs, lock, call, now>>

Unanswered(row) == row.asked /\ ~row.escalated

\* Mutant: a booking that already has an open dispute is passed over.
EscalateUndisputedRequest(b) ==
  /\ booking[b].status \in JobStatuses /\ Unanswered(booking[b])
  /\ OpenDisputes(b) = {}
  /\ UpdateBooking(b, [booking[b] EXCEPT !.escalated = TRUE])
  /\ CreateDispute(b, FALSE)
  /\ UNCHANGED <<cancellation, charge, activeJobs, lock, call, now>>

\* The worker declines, or the sweep finds the request unanswered in time.
EscalateCancelRequest(b) ==
  /\ booking[b].status \in JobStatuses /\ Unanswered(booking[b])
  /\ UpdateBooking(b, [booking[b] EXCEPT !.escalated = TRUE])
  /\ OpenOrJoinDisputeTx(b)
  /\ UNCHANGED <<cancellation, charge, activeJobs, lock, call, now>>

AgreeToCancel(p, b) ==
  /\ booking[b].status \in JobStatuses /\ Unanswered(booking[b])
  /\ Begin(p, "agreeCancel", b, None)
  /\ UNCHANGED <<booking, dispute, cancellation, charge, activeJobs, lock, now>>

\* Mutant: under the lock, only the status is looked at again.
StillInStatus(b, seen) == booking[b].status = seen.status

\* Read again under the booking's row lock.
StillUnanswered(b, seen) == ~booking[b].escalated /\ booking[b].status = seen.status

AgreeCommit(p) ==
  /\ InFlight(p, "agreeCancel")
  /\ UNCHANGED <<lock, now>>
  /\ LET b == call[p].b
         seen == call[p].seen
     IN \/ /\ StillUnanswered(b, seen)
           /\ FinalizeCancellationTx(b, seen, "AGREED", "NOT_APPLICABLE")
           /\ Return(p)
           /\ UNCHANGED charge
        \/ ~StillUnanswered(b, seen) /\ Conflict(p)

-----------------------------------------------------------------------------
(* Cancelling.                                                             *)

\* A client may cancel only what no worker has accepted yet.
ClientCancel(b) ==
  /\ booking[b].status = "PENDING"
  /\ FinalizeCancellationTx(b, booking[b], "CLIENT", "NOT_APPLICABLE")
  /\ UNCHANGED <<charge, lock, call, now>>

WorkerCancel(p, b) ==
  /\ booking[b].status \in {"PENDING"} \cup JobStatuses
  /\ Begin(p, "workerCancel", b, None)
  /\ UNCHANGED <<booking, dispute, cancellation, charge, activeJobs, lock, now>>

\* The worker waited at the door for a client who never came.
ClientNoShowConfirmed(seen) ==
  /\ seen.arrived /\ seen.inWindow /\ seen.status = "ACCEPTED"
  /\ seen.notHere # None
  /\ now >= seen.notHere + Grace /\ now >= seen.start + Grace

\* fault is what the worker says once he has arrived.
WorkerCancelCommit(p, fault) ==
  /\ InFlight(p, "workerCancel")
  /\ UNCHANGED <<lock, now>>
  /\ LET b == call[p].b
         seen == call[p].seen
         waited == fault = "CLIENT" /\ ClientNoShowConfirmed(seen)
     IN \/ /\ seen.arrived <=> fault # "NONE"
           /\ FinalizeCancellationTx(b, seen, "WORKER",
                CASE waited -> "APPROVED"
                  [] fault = "CLIENT" /\ ~waited -> "PENDING_REVIEW"
                  [] OTHER -> "NOT_APPLICABLE")
           /\ CASE waited           -> CreditCompensationTx(b)
                [] fault = "WORKER" -> ChargePenaltyTx(b)
                [] OTHER            -> UNCHANGED charge
           /\ Return(p)
        \/ booking[b].status # seen.status /\ Conflict(p)

Verdict(b) == IF cancellation[b] = None THEN "NONE" ELSE cancellation[b].review

\* The admin checks the proof of a cancellation blamed on the client.
ReviewCancellation(p, b) ==
  /\ Verdict(b) = "PENDING_REVIEW"
  /\ Begin(p, "review", b, None)
  /\ UNCHANGED <<booking, dispute, cancellation, charge, activeJobs, lock, now>>

\* Mutant: the review is recorded whatever it was before.
RecordReview(b, outcome) == cancellation' = [cancellation EXCEPT ![b].review = outcome]

ClaimReview(b, outcome) ==
  /\ Verdict(b) = "PENDING_REVIEW"
  /\ cancellation' = [cancellation EXCEPT ![b].review = outcome]

ReviewCommit(p, outcome) ==
  /\ InFlight(p, "review")
  /\ UNCHANGED <<lock, now>>
  /\ LET b == call[p].b IN
       \/ /\ ClaimReview(b, outcome)
          /\ IF outcome = "APPROVED" THEN CreditCompensationTx(b) ELSE ChargePenaltyTx(b)
          /\ Return(p)
          /\ UNCHANGED <<booking, dispute, activeJobs>>
       \/ Verdict(b) # "PENDING_REVIEW" /\ Conflict(p)

\* The admin's own cancel: activeJobCount goes down for a DISPUTED booking too.
CancelBookingAdmin(b) ==
  /\ booking[b].status \notin Terminal \cup {"NONE"}
  /\ UpdateBooking(b, [booking[b] EXCEPT !.status = "CANCELLED", !.visit = FALSE])
  /\ IF booking[b].status \in JobStatuses \cup {"DISPUTED"}
       THEN JobEnds(b) ELSE UNCHANGED activeJobs
  /\ CloseDisputes(OpenDisputes(b))
  /\ CreateCancellation(b, "ADMIN", "NOT_APPLICABLE")
  /\ UNCHANGED <<charge, lock, call, now>>

-----------------------------------------------------------------------------
(* The invoice: sending it, paying it, disputing it.                       *)

\* The transition table lets a job be completed from its start, and again from
\* a dispute over the invoice that its completion sent.
CompletableStatuses == {"IN_PROGRESS", "DISPUTED"}

MayComplete(b) ==
  booking[b].status \in CompletableStatuses /\ ~Unanswered(booking[b])

\* The call is told apart by the status it read, which its write asks for.
CompletingOp == [s \in CompletableStatuses |->
                   IF s = "IN_PROGRESS" THEN "complete" ELSE "resend"]

CompleteBooking(p, b) ==
  /\ MayComplete(b)
  /\ Begin(p, CompletingOp[booking[b].status], b, None)
  /\ UNCHANGED <<booking, dispute, cancellation, charge, activeJobs, lock, now>>

\* Mutant: the write asks for the status alone.
StillInStatusRead(b, seen) == booking[b].status = seen

\* Mutant: the write forgets the status that was read.
StillUnasked(b, seen) == ~Unanswered(booking[b])

\* The condition the guarded write carries.
StillMayComplete(b, seen) == booking[b].status = seen /\ ~Unanswered(booking[b])

\* The count goes down on every completion, the first and any after it.
CompleteCommit(p) ==
  \E seen \in CompletableStatuses :
    /\ InFlight(p, CompletingOp[seen])
    /\ UNCHANGED <<lock, now>>
    /\ LET b == call[p].b
           resent == IF seen = "DISPUTED" THEN 1 ELSE 0
       IN \/ /\ StillMayComplete(b, seen)
             /\ booking[b].resends + resent <= MaxResends
             /\ UpdateBooking(b, [booking[b] EXCEPT !.status = "PENDING_COMPLETION",
                                                    !.completed = TRUE,
                                                    !.resends = @ + resent,
                                                    !.visit = FALSE])
             /\ JobEnds(b)
             /\ IF booking[b].cash THEN Return(p) ELSE Continue(p, "invoice")
             /\ UNCHANGED <<dispute, cancellation, charge>>
          \/ ~StillMayComplete(b, seen) /\ Conflict(p)

\* confirmCompletion and createXenditCheckout: the client opens the checkout.
ConfirmCompletion(p, b) ==
  /\ ~booking[b].cash /\ booking[b].status \in BilledStatuses
  /\ Begin(p, "invoice", b, None)
  /\ UNCHANGED <<booking, dispute, cancellation, charge, activeJobs, lock, now>>

\* createCompletionInvoice ends with a status write; an admin who resolved a
\* dispute for the worker then closes it.
CreateCompletionInvoice(p) ==
  /\ InFlight(p, "invoice") \/ InFlight(p, "invoiceForWorker")
  /\ UNCHANGED <<lock, now>>
  /\ LET b == call[p].b IN
       \/ /\ booking[b].status \in BilledStatuses
          /\ SetStatus(b, "AWAITING_PAYMENT")
          /\ IF InFlight(p, "invoice") THEN Return(p) ELSE Continue(p, "closeDispute")
          /\ UNCHANGED <<dispute, cancellation, charge, activeJobs>>
       \/ booking[b].status \notin BilledStatuses /\ Conflict(p)

\* finalizePaidBooking: the invoice was paid, whenever that is learnt.
FinalizePaidBooking(b) ==
  /\ ~booking[b].cash /\ booking[b].status \in BilledStatuses \cup {"DISPUTED"}
  /\ SetStatus(b, "COMPLETED")
  /\ CloseDisputes({d \in OpenDisputes(b) : dispute[d].overdue})
  /\ UNCHANGED <<cancellation, charge, activeJobs, lock, call, now>>

\* Mutant: the settlement writes whatever the status has become.
SettleWhateverStatus(b) == SetStatus(b, "COMPLETED")

SettleCashBooking(b) ==
  /\ booking[b].status = "PENDING_COMPLETION"
  /\ SetStatus(b, "COMPLETED")

MarkCashReceived(b) ==
  /\ booking[b].cash
  /\ SettleCashBooking(b)
  /\ UNCHANGED <<dispute, cancellation, charge, activeJobs, lock, call, now>>

\* The sweep over cash invoices 72 hours old; it settles them one by one.
AutoSettleCash(p, b) ==
  /\ booking[b].cash /\ booking[b].status = "PENDING_COMPLETION"
  /\ ~booking[b].kept /\ OpenDisputes(b) = {}
  /\ Begin(p, "autoSettle", b, None)
  /\ UNCHANGED <<booking, dispute, cancellation, charge, activeJobs, lock, now>>

AutoSettleCommit(p) ==
  /\ InFlight(p, "autoSettle")
  /\ LET b == call[p].b IN
       \/ SettleCashBooking(b)
       \/ booking[b].status # "PENDING_COMPLETION" /\ UNCHANGED booking
  /\ Return(p)
  /\ UNCHANGED <<dispute, cancellation, charge, activeJobs, lock, now>>

ReportCashNotPaid(b) ==
  /\ booking[b].cash /\ booking[b].status = "PENDING_COMPLETION"
  /\ SetStatus(b, "DISPUTED")
  /\ OpenOrJoinDisputeTx(b)
  /\ UNCHANGED <<cancellation, charge, activeJobs, lock, call, now>>

ReportInvoice(b) ==
  /\ booking[b].status \in BilledStatuses
  /\ SetStatus(b, "DISPUTED")
  /\ OpenOrJoinDisputeTx(b)
  /\ UNCHANGED <<cancellation, charge, activeJobs, lock, call, now>>

\* Mutant: an invoice that could not be raised is not chased.
OverdueInvoice(p, b) ==
  /\ ~booking[b].cash /\ booking[b].status = "AWAITING_PAYMENT"
  /\ OpenDisputes(b) = {}
  /\ Begin(p, "overdue", b, None)
  /\ UNCHANGED <<booking, dispute, cancellation, charge, activeJobs, lock, now>>

\* The sweep over online invoices unpaid for 72 hours: it looks for an open
\* dispute and then creates one, with no lock and no second look.
OverduePayment(p, b) ==
  /\ ~booking[b].cash /\ booking[b].status \in BilledStatuses
  /\ OpenDisputes(b) = {}
  /\ Begin(p, "overdue", b, None)
  /\ UNCHANGED <<booking, dispute, cancellation, charge, activeJobs, lock, now>>

EscalateOverduePayment(p) ==
  /\ InFlight(p, "overdue")
  /\ CreateDispute(call[p].b, TRUE)
  /\ Return(p)
  /\ UNCHANGED <<booking, cancellation, charge, activeJobs, lock, now>>

\* refundPayment: the client of a paid booking wants the money back.  A dispute
\* is looked for and then created here too.
RefundPayment(p, b) ==
  /\ booking[b].status = "COMPLETED" /\ OpenDisputes(b) = {}
  /\ Begin(p, "refund", b, None)
  /\ UNCHANGED <<booking, dispute, cancellation, charge, activeJobs, lock, now>>

OpenRefundDispute(p) ==
  /\ InFlight(p, "refund")
  /\ CreateDispute(call[p].b, FALSE)
  /\ Return(p)
  /\ UNCHANGED <<booking, cancellation, charge, activeJobs, lock, now>>

-----------------------------------------------------------------------------
(* The admin's side of a dispute.                                          *)

IsOpen(d) == dispute[d].status \in {"OPEN", "UNDER_REVIEW"}

\* Opening the dispute's page marks it, by a write that does not look again.
GetDisputeById(p, d) ==
  /\ dispute[d].status = "OPEN"
  /\ Begin(p, "openReview", dispute[d].booking, d)
  /\ UNCHANGED <<booking, dispute, cancellation, charge, activeJobs, lock, now>>

MarkUnderReview(p) ==
  /\ InFlight(p, "openReview")
  /\ dispute' = [dispute EXCEPT ![call[p].d].status = "UNDER_REVIEW"]
  /\ Return(p)
  /\ UNCHANGED <<booking, cancellation, charge, activeJobs, lock, now>>

\* resolveDispute DISMISS: refused for a DISPUTED booking, as it was read.
DismissDispute(p, d) ==
  /\ IsOpen(d) /\ booking[dispute[d].booking].status # "DISPUTED"
  /\ Begin(p, "closeDispute", dispute[d].booking, d)
  /\ UNCHANGED <<booking, dispute, cancellation, charge, activeJobs, lock, now>>

CloseDispute(p) ==
  /\ InFlight(p, "closeDispute")
  /\ dispute' = [dispute EXCEPT ![call[p].d].status = "RESOLVED"]
  /\ Return(p)
  /\ UNCHANGED <<booking, cancellation, charge, activeJobs, lock, now>>

\* KEEP_INVOICE and REMOVE_INVOICE_EXTRAS: the invoice is raised again.
ResolveWithInvoice(p, d) ==
  LET b == dispute[d].booking IN
    /\ IsOpen(d) /\ booking[b].status = "DISPUTED" /\ booking[b].completed
    /\ UpdateBooking(b, [booking[b] EXCEPT !.status = "PENDING_COMPLETION",
                                           !.kept = TRUE])
    /\ CloseDisputes({d})
    /\ IF booking[b].cash THEN UNCHANGED call ELSE Begin(p, "invoice", b, None)
    /\ UNCHANGED <<cancellation, charge, activeJobs, lock, now>>

\* CANCEL_BOOKING: a completed booking keeps its status and is only refunded.
ResolveByCancelling(d) ==
  LET b == dispute[d].booking IN
    /\ IsOpen(d)
    /\ \/ /\ booking[b].status \in JobStatuses \cup BilledStatuses \cup {"DISPUTED"}
          /\ UpdateBooking(b, [booking[b] EXCEPT !.status = "CANCELLED",
                                                 !.visit = FALSE, !.kept = TRUE])
          /\ IF booking[b].completed THEN UNCHANGED activeJobs ELSE JobEnds(b)
          /\ CreateCancellation(b, "ADMIN", "NOT_APPLICABLE")
       \/ /\ booking[b].status = "COMPLETED"
          /\ UpdateBooking(b, [booking[b] EXCEPT !.kept = TRUE])
          /\ UNCHANGED <<activeJobs, cancellation>>
    /\ CloseDisputes({d})
    /\ UNCHANGED <<charge, lock, call, now>>

\* RESOLVE_FOR_WORKER and PAY_WORKER_FROM_PLATFORM.
ResolveNonPayment(p, d, op) ==
  /\ IsOpen(d) /\ booking[dispute[d].booking].status = "AWAITING_PAYMENT"
  /\ Begin(p, op, dispute[d].booking, d)
  /\ UNCHANGED <<booking, dispute, cancellation, charge, activeJobs, lock, now>>

\* A booking paid for meanwhile has nothing left to settle but its dispute.
SettlePlatformFundedPayment(p) ==
  /\ InFlight(p, "platformPay")
  /\ UNCHANGED <<lock, now>>
  /\ LET b == call[p].b
         payable == booking[b].status \in {"AWAITING_PAYMENT", "DISPUTED"}
     IN \/ /\ payable \/ booking[b].status = "COMPLETED"
           /\ IF payable THEN SetStatus(b, "COMPLETED") ELSE UNCHANGED booking
           /\ Continue(p, "closeDispute")
           /\ UNCHANGED <<dispute, cancellation, charge, activeJobs>>
        \/ ~payable /\ booking[b].status # "COMPLETED" /\ Conflict(p)

-----------------------------------------------------------------------------
(* The specification.                                                      *)

ClientStep(p, b) ==
  \/ \E w \in Workers, s \in Starts, cash \in BOOLEAN : CreateBooking(b, w, s, cash)
  \/ ReportBookingProblem(b) \/ RequestCancel(b) \/ ClientCancel(b)
  \/ ConfirmCompletion(p, b) \/ FinalizePaidBooking(b) \/ ReportInvoice(b)
  \/ RefundPayment(p, b)

WorkerStep(p, b) ==
  \/ AcceptBooking(p, b) \/ DeclineBooking(b) \/ WorkerCancel(p, b)
  \/ ArriveBooking(p, b) \/ ReportClientNotHere(b) \/ StartBooking(b)
  \/ ScheduleVisit(p, b) \/ CancelVisit(b)
  \/ EscalateCancelRequest(b) \/ AgreeToCancel(p, b)
  \/ CompleteBooking(p, b) \/ MarkCashReceived(b) \/ ReportCashNotPaid(b)

RescheduleStep(p, b) ==
  \/ \E s \in Starts : RequestReschedule(b, s)
  \/ WithdrawRescheduleRequest(b) \/ DeclineRescheduleRequest(b)
  \/ AcceptReschedule(p, b)

SweepStep(p, b) ==
  \/ ExpirePendingBooking(b) \/ AutoDecline(p, b) \/ WorkerNoShow(p, b)
  \/ AutoSettleCash(p, b) \/ OverduePayment(p, b)

AdminStep(p) ==
  \/ \E b \in Bookings : CancelBookingAdmin(b) \/ ReviewCancellation(p, b)
  \/ \E d \in Disputes :
       \/ GetDisputeById(p, d) \/ DismissDispute(p, d)
       \/ ResolveWithInvoice(p, d) \/ ResolveByCancelling(d)
       \/ \E op \in {"invoiceForWorker", "platformPay"} : ResolveNonPayment(p, d, op)

CallStep(p) ==
  \/ AcceptLock(p) \/ AcceptCommit(p) \/ MoveLock(p) \/ MoveCommit(p)
  \/ AutoDeclineCommit(p) \/ ArriveCommit(p) \/ VisitCommit(p)
  \/ CancelAsWorkerNoShow(p) \/ AgreeCommit(p) \/ CompleteCommit(p)
  \/ \E fault \in {"NONE", "CLIENT", "WORKER"} : WorkerCancelCommit(p, fault)
  \/ \E outcome \in {"APPROVED", "REJECTED"} : ReviewCommit(p, outcome)
  \/ CreateCompletionInvoice(p) \/ AutoSettleCommit(p) \/ EscalateOverduePayment(p)
  \/ OpenRefundDispute(p)
  \/ MarkUnderReview(p) \/ CloseDispute(p) \/ SettlePlatformFundedPayment(p)
  \/ Fail(p)

Next ==
  \/ Tick
  \/ \E p \in Calls :
       \/ CallStep(p)
       \/ AdminStep(p)
       \/ \E b \in Bookings :
            ClientStep(p, b) \/ WorkerStep(p, b) \/ RescheduleStep(p, b) \/ SweepStep(p, b)

Spec == Init /\ [][Next]_vars

\* The sweeps run every quarter of an hour, of themselves and from the cron
\* route, and a row whose handling fails is found again by the next run.  A
\* call that has begun goes on or fails.  Users and admins may do nothing.
FairSpec ==
  /\ Spec
  /\ \A p \in Calls : WF_vars(CallStep(p))
  /\ \A b \in Bookings :
       /\ WF_vars(ExpirePendingBooking(b))
       /\ WF_vars(EscalateCancelRequest(b))
       /\ SF_vars(\E p \in Calls : WorkerNoShow(p, b))
       /\ SF_vars(\E p \in Calls : OverduePayment(p, b))
       /\ SF_vars(\E p \in Calls : AutoSettleCash(p, b))
  /\ \A p \in Calls :
       /\ SF_vars(CancelAsWorkerNoShow(p))
       /\ SF_vars(EscalateOverduePayment(p))
       /\ SF_vars(AutoSettleCommit(p))

-----------------------------------------------------------------------------
(* What must hold.                                                         *)

\* A worker is never committed to two jobs that start at the same time.  The
\* partial index that once refused it was dropped; what is left is the clash
\* check that acceptBooking and respondToRescheduleRequest make under the
\* worker's row lock.
NoDoubleBooking ==
  \A b, c \in Bookings :
    /\ b # c
    /\ booking[b].status \in JobStatuses /\ booking[c].status \in JobStatuses
    /\ booking[b].worker = booking[c].worker
    => booking[b].start # booking[c].start

\* Why it holds.  A worker's row is locked by the call that is about to commit
\* him to a start, and while it is, that start stays free of his other jobs.
\* The start was read before the lock was taken: for a PENDING booking it is
\* still the booking's, and a booking never changes hands.
LockedOps == {"acceptLocked", "moveLocked"}
CommittingOps == {"accept", "move"} \cup LockedOps

TargetStart(c) == IF c.op \in {"move", "moveLocked"} THEN c.seen.newStart ELSE c.seen.start

SeenIsCurrent ==
  \A p \in Calls :
    LET c == call[p] IN
      c.op \in CommittingOps =>
        /\ booking[c.b].status # "NONE"
        /\ c.seen.worker \in Workers /\ c.seen.worker = booking[c.b].worker
        /\ c.op \in {"accept", "acceptLocked"} /\ booking[c.b].status = "PENDING"
             => booking[c.b].start = c.seen.start

LockIsHeld ==
  \A p \in Calls : call[p].op \in LockedOps => lock[call[p].seen.worker] = p

TargetIsFree ==
  \A p \in Calls :
    LET c == call[p] IN
      c.op \in LockedOps =>
        \A b \in Bookings \ {c.b} :
          booking[b].worker = c.seen.worker /\ booking[b].status \in JobStatuses
            => booking[b].start # TargetStart(c)

HasWorker == \A b \in Bookings : booking[b].status # "NONE" => booking[b].worker \in Workers

\* A dispute row in use is a booking's, and a call about a dispute has one.
DisputeOps == {"openReview", "closeDispute", "invoiceForWorker", "platformPay"}

DisputesPlaced ==
  /\ \A d \in Disputes : dispute[d].status # "FREE" => dispute[d].booking \in Bookings
  /\ \A p \in Calls :
       call[p].op \in DisputeOps =>
         call[p].d \in Disputes /\ dispute[call[p].d].status # "FREE"

\* A call about to cancel for the worker, or with his consent, saw a booking
\* that may be cancelled so.
CancellingOps == {"agreeCancel", "workerCancel"}

SeenCancellable ==
  \A p \in Calls :
    call[p].op \in CancellingOps => call[p].seen.status \in {"PENDING"} \cup JobStatuses

CommitmentInv ==
  /\ TypeOK /\ DisputesPlaced /\ SeenCancellable
  /\ HasWorker /\ SeenIsCurrent /\ LockIsHeld /\ TargetIsFree
  /\ NoDoubleBooking

JobsOf(w) == {b \in Bookings : booking[b].worker = w /\ booking[b].status \in JobStatuses}

\* Bookings an admin cancelled after the worker had finished them.
CancelledAfterWork(w) ==
  {b \in Bookings :
     /\ booking[b].worker = w /\ booking[b].status = "CANCELLED" /\ booking[b].completed
     /\ cancellation[b].reason = "ADMIN"}

\* What lowered a worker's count once more than his jobs warrant: an admin's
\* cancellation after the work, and each invoice sent again from a dispute.
Miscounts(w) ==
  (CancelledAfterWork(w) \X {0}) \cup
  {m \in Bookings \X (1 .. MaxResends) :
     booking[m[1]].worker = w /\ m[2] <= booking[m[1]].resends}

\* activeJobCount, raised and lowered by seven different handlers, never
\* overstates the jobs a worker has, which would keep work from him, and falls
\* short by no more than was counted down twice: for the bookings an admin
\* cancelled after the work, and for the invoices sent again from a dispute.
JobCountBounded ==
  \A w \in Workers :
    /\ activeJobs[w] <= Cardinality(JobsOf(w))
    /\ activeJobs[w] >= Cardinality(JobsOf(w)) - Cardinality(Miscounts(w))

\* What completeBooking's comment promises: "The worker's side of the job is
\* done", so nothing that happens to the booking afterwards touches the count.
JobCountExact == \A w \in Workers : activeJobs[w] = Cardinality(JobsOf(w))

\* However many handlers and sweeps race to end a booking, exactly the
\* CANCELLED ones have a Cancellation row to say who ended them and why.
CancelledOnRecord ==
  \A b \in Bookings : booking[b].status = "CANCELLED" <=> cancellation[b] # None

\* A cancellation costs the worker or pays him once at most: a compensation
\* exactly when his proof was accepted, a penalty when it was rejected, and
\* nothing while an admin has still to look, though two admins may.
ChargedAsJudged ==
  \A b \in Bookings :
    /\ charge[b].penalties + charge[b].compensations <= 1
    /\ charge[b].compensations = 1 <=> Verdict(b) = "APPROVED"
    /\ Verdict(b) = "REJECTED" => charge[b].penalties = 1
    /\ Verdict(b) = "PENDING_REVIEW" => charge[b].penalties = 0

\* The worker cannot send his invoice over the client's unanswered request to
\* cancel, even one that arrives while he is sending it.
NoInvoiceOverCancelRequest ==
  \A b \in Bookings : booking[b].completed => ~Unanswered(booking[b])

\* Once a cancel request has gone to the admin, the worker's late "agreed"
\* does not end the booking behind the dispute's back.
EscalatedNotAgreed ==
  \A b \in Bookings :
    cancellation[b] # None /\ cancellation[b].reason = "AGREED" => ~booking[b].escalated

\* A booking's start only ever moves to the time the request now pending asks
\* for, while the job waits to begin: not to that of a request since withdrawn
\* and replaced, nor after the worker has checked in.
Moved(b) ==
  booking[b].status # "NONE" /\ booking'[b].start # booking[b].start

MovesByAgreement ==
  [][\A b \in Bookings : Moved(b) =>
       /\ booking[b].pending /\ booking'[b].start = booking[b].newStart
       /\ booking[b].status = "ACCEPTED" /\ ~booking[b].arrived]_vars

\* Every status write of every handler, sweep and payment path is a move the
\* transition table allows, whatever it read before it.
Lifecycle == INSTANCE BookingLifecycle WITH status <- [b \in Bookings |-> booking[b].status]

FollowsLifecycle == Lifecycle!Spec

NoDisputeLeft == \A d \in Disputes : dispute[d].status # "FREE"

\* Whatever users do, a request for a worker is answered or expires.
PendingEnds ==
  \A b \in Bookings : booking[b].status = "PENDING" ~> booking[b].status # "PENDING"

\* A cancel request the worker leaves unanswered reaches an admin, unless the
\* booking is cancelled first: its job cannot be completed over it.
CancelRequestAnswered ==
  \A b \in Bookings :
    (Unanswered(booking[b]) /\ booking[b].status \in JobStatuses)
      ~> (booking[b].escalated \/ booking[b].status = "CANCELLED" \/ NoDisputeLeft)

\* A worker who has not checked in by the deadline does so late, moves the
\* job or loses it: the booking does not stay as it is.
NoShowEnds ==
  \A b \in Bookings :
    (booking[b].status = "ACCEPTED" /\ ~booking[b].arrived /\ NoShowDeadlinePassed(booking[b].start))
      ~> (\/ booking[b].status # "ACCEPTED" \/ booking[b].arrived
          \/ ~NoShowDeadlinePassed(booking[b].start))

\* An unpaid invoice never lies forgotten: a cash one is settled or disputed
\* unless an admin upheld it, an online one is paid or comes to an admin.
InvoiceChased ==
  \A b \in Bookings :
    booking[b].status \in BilledStatuses
      ~> (\/ booking[b].status \notin BilledStatuses
          \/ booking[b].cash /\ booking[b].kept
          \/ OpenDisputes(b) # {} \/ NoDisputeLeft)

-----------------------------------------------------------------------------
(* What the repository says of the booking, and the code does not keep.    *)

\* "Booking is still DISPUTED - keep or adjust the invoice, or cancel it,
\* instead of dismissing": a DISPUTED booking has an open dispute, the only
\* way an admin has to move it on.
DisputedHasOpenDispute ==
  \A b \in Bookings : booking[b].status = "DISPUTED" => OpenDisputes(b) # {}

\* "Only one admin can resolve a given dispute": what is resolved is not open
\* for another to resolve again.
ResolvedStaysResolved ==
  [][\A d \in Disputes : dispute[d].status = "RESOLVED" => dispute'[d] = dispute[d]]_vars

\* "A cash booking that has already been through a dispute is never
\* auto-settled."
KeptCashNotAutoSettled ==
  [][\A p \in Calls :
       LET b == call[p].b IN
         InFlight(p, "autoSettle") /\ booking[b].kept => booking'[b].status = booking[b].status]_vars

\* "The new start time resets the no-show clock": a worker is cancelled as a
\* no-show only past the deadline of the start the booking has.
NoShowOnlyPastDeadline ==
  [][\A b \in Bookings :
       Verdict(b) = "NONE" /\ cancellation'[b] # None =>
         (cancellation'[b].reason = "WORKER_NO_SHOW" => NoShowDeadlinePassed(booking[b].start))]_vars
=============================================================================
