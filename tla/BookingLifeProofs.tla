------------------------- MODULE BookingLifeProofs --------------------------
(***************************************************************************)
(* How a booking lives and ends, for every set of bookings, workers and    *)
(* calls.  A step writes the row of one booking at most, and there it does *)
(* one of a few things: the kinds of step below, each with what it does to *)
(* the records of the booking and to the worker's job count.  LifeStep is  *)
(* proved of every action; what follows from it are the records of a       *)
(* cancellation, the moves to another start and the refinement of the      *)
(* transition table (and, in BookingCountProofs, the job count).           *)
(***************************************************************************)
EXTENDS BookingProofs

-----------------------------------------------------------------------------
(* What a step may do to the life of a booking.                            *)

SameStatus(new, old) == new.status = old.status

SameJob(new, old) == new.worker = old.worker /\ new.start = old.start

SameRequest(new, old) == new.request = old.request /\ new.newStart = old.newStart

SameWork(new, old) ==
  /\ new.asked = old.asked /\ new.escalated = old.escalated
  /\ new.completed = old.completed /\ new.resends = old.resends

RecordKept(b) == cancellation'[b] = cancellation[b] /\ charge'[b] = charge[b]

Undisturbed(b) == booking'[b] = booking[b] /\ RecordKept(b)

IsJob(row) == row.status \in JobStatuses

\* The booking stays as it is in all that matters here.
Stays(new, old) ==
  SameStatus(new, old) /\ SameJob(new, old) /\ SameRequest(new, old) /\ SameWork(new, old)

\* The booking is made, or moves on to a status that is a job as before or
\* is none as before.
MovesOn(new, old) ==
  /\ new.status \in Lifecycle!ValidTransitions(old.status) \ {"CANCELLED"}
  /\ IsJob(new) <=> IsJob(old)
  /\ SameJob(new, old) \/ old.status = "NONE"
  /\ SameRequest(new, old) /\ SameWork(new, old)

\* A request to cancel the job is made or goes to the admin.
ConcernsCancel(new, old) ==
  /\ IsJob(old) /\ SameStatus(new, old)
  /\ SameJob(new, old) /\ SameRequest(new, old)
  /\ new.completed = old.completed /\ new.resends = old.resends

\* A move to another start is asked for.
AsksToMove(new, old) ==
  /\ SameStatus(new, old) /\ SameJob(new, old) /\ SameWork(new, old)
  /\ new.request = old.request + 1

\* The job moves to the start a call has seen asked for, in the request that
\* is still open.
Moves(b) ==
  /\ SameStatus(booking'[b], booking[b]) /\ SameWork(booking'[b], booking[b])
  /\ SameRequest(booking'[b], booking[b]) /\ booking'[b].worker = booking[b].worker
  /\ booking[b].status = "ACCEPTED" /\ ~booking[b].arrived /\ booking[b].pending
  /\ \E p \in Calls :
       /\ call[p].op = "moveLocked" /\ call[p].b = b
       /\ call[p].seen.request = booking[b].request
       /\ booking'[b].start = call[p].seen.newStart

\* The kinds of step that count no job.
Uncounted(b) ==
  /\ \/ Stays(booking'[b], booking[b])
     \/ MovesOn(booking'[b], booking[b])
     \/ ConcernsCancel(booking'[b], booking[b])
     \/ AsksToMove(booking'[b], booking[b])
     \/ Moves(b)
  /\ RecordKept(b) /\ UNCHANGED activeJobs

\* The worker takes the job.
IsAccepted(b) ==
  /\ booking[b].status = "PENDING" /\ booking'[b].status = "ACCEPTED"
  /\ SameJob(booking'[b], booking[b]) /\ SameRequest(booking'[b], booking[b])
  /\ SameWork(booking'[b], booking[b])
  /\ RecordKept(b)
  /\ activeJobs' = [activeJobs EXCEPT ![booking[b].worker] = @ + 1]

\* The worker is done with it, or sends its invoice again from a dispute.
IsCompleted(b) ==
  /\ \/ booking[b].status = "IN_PROGRESS" /\ booking'[b].resends = booking[b].resends
     \/ /\ booking[b].status = "DISPUTED" /\ booking[b].resends < MaxResends
        /\ booking'[b].resends = booking[b].resends + 1
  /\ ~Unanswered(booking[b])
  /\ booking'[b].status = "PENDING_COMPLETION" /\ booking'[b].completed
  /\ booking'[b].asked = booking[b].asked /\ booking'[b].escalated = booking[b].escalated
  /\ SameJob(booking'[b], booking[b]) /\ SameRequest(booking'[b], booking[b])
  /\ RecordKept(b) /\ JobEnds(b)

\* The dues entry that goes with a cancellation reviewed so.
ChargedFor(b, review) ==
  \/ review = "APPROVED" /\ CreditCompensationTx(b)
  \/ review = "REJECTED" /\ ChargePenaltyTx(b)
  \/ review = "NOT_APPLICABLE" /\ (ChargePenaltyTx(b) \/ UNCHANGED charge)
  \/ review = "PENDING_REVIEW" /\ UNCHANGED charge

Reasons == {"CLIENT", "WORKER", "ADMIN", "AGREED", "WORKER_NO_SHOW", "NO_RESPONSE"}

\* A job that ends counts no more; an admin's cancel of a disputed booking is
\* counted too.
CountedFor(b, reason) ==
  \/ IsJob(booking[b]) /\ JobEnds(b)
  \/ ~IsJob(booking[b]) /\ UNCHANGED activeJobs
  \/ booking[b].status = "DISPUTED" /\ reason = "ADMIN" /\ JobEnds(b)

\* The row a cancellation writes.
Cancelled(new, old) ==
  /\ new.status = "CANCELLED"
  /\ SameJob(new, old) /\ SameRequest(new, old) /\ SameWork(new, old)

\* The booking is cancelled, put on record, charged for and counted.
EndsOnRecord(b) ==
  /\ booking[b].status \notin Terminal \cup {"NONE"}
  /\ Cancelled(booking'[b], booking[b])
  /\ \E reason \in Reasons, review \in {"NOT_APPLICABLE", "PENDING_REVIEW", "APPROVED"} :
       /\ CreateCancellation(b, reason, review)
       /\ ChargedFor(b, review)
       /\ CountedFor(b, reason)
       /\ reason = "AGREED" => ~booking[b].escalated

\* An admin judges the proof of a cancellation.
IsJudged(b) ==
  /\ booking'[b] = booking[b] /\ UNCHANGED activeJobs
  /\ \E outcome \in {"APPROVED", "REJECTED"} :
       ClaimReview(b, outcome) /\ ChargedFor(b, outcome)

LifeStepOf(b) ==
  /\ Uncounted(b) \/ IsAccepted(b) \/ IsCompleted(b) \/ EndsOnRecord(b) \/ IsJudged(b)
  /\ \A c \in Bookings \ {b} : Undisturbed(c)

LifeStep ==
  \/ UNCHANGED activeJobs /\ \A b \in Bookings : Undisturbed(b)
  \/ \E b \in Bookings : LifeStepOf(b)

-----------------------------------------------------------------------------
(* The invariant.                                                          *)

\* The work of a booking is done from its invoice on, and not before, and only
\* the invoice of work that is done is sent again.
WorkInTime(row) ==
  /\ row.resends # 0 => row.completed
  /\ row.status \in {"NONE", "PENDING", "REJECTED"} \cup JobStatuses => ~row.completed
  /\ row.status \in {"DISPUTED", "COMPLETED"} \cup BilledStatuses => row.completed

\* The records of a booking.  A booking not cancelled has been charged nothing:
\* without this a cancellation could be the second to charge it.
EndsWell(b) ==
  /\ booking[b].status = "CANCELLED" <=> cancellation[b] # None
  /\ cancellation[b] = None => charge[b].penalties = 0 /\ charge[b].compensations = 0
  /\ charge[b].penalties + charge[b].compensations <= 1
  /\ charge[b].compensations = 1 <=> Verdict(b) = "APPROVED"
  /\ Verdict(b) = "REJECTED" => charge[b].penalties = 1
  /\ Verdict(b) = "PENDING_REVIEW" => charge[b].penalties = 0
  /\ booking[b].completed => ~Unanswered(booking[b])
  /\ cancellation[b] # None /\ cancellation[b].reason = "AGREED" => ~booking[b].escalated

\* What a call has seen of a booking it is about to cancel or to move: the job
\* was not done, and a request with the number it saw is the request it saw.
MovingOps == {"move", "moveLocked"}

SeenInTime(c, rows) ==
  /\ c.op \in CancellingOps => ~c.seen.completed
  /\ c.op \in MovingOps =>
       /\ c.seen.request <= rows[c.b].request
       /\ c.seen.request = rows[c.b].request => c.seen.newStart = rows[c.b].newStart

LifeInv ==
  /\ \A b \in Bookings : WorkInTime(booking[b]) /\ EndsWell(b)
  /\ \A p \in Calls : SeenInTime(call[p], booking)

Sound == Typed /\ SeenIsCurrent /\ LifeInv

-----------------------------------------------------------------------------
(* Writes of rows.                                                         *)

\* The transition table, status by status.
LEMMA Transitions ==
  /\ Lifecycle!ValidTransitions("NONE") = {"PENDING"}
  /\ Lifecycle!ValidTransitions("PENDING") = {"ACCEPTED", "REJECTED", "CANCELLED"}
  /\ Lifecycle!ValidTransitions("ACCEPTED") = {"IN_PROGRESS", "CANCELLED"}
  /\ Lifecycle!ValidTransitions("IN_PROGRESS") = {"PENDING_COMPLETION", "CANCELLED"}
  /\ Lifecycle!ValidTransitions("PENDING_COMPLETION") =
       {"AWAITING_PAYMENT", "COMPLETED", "DISPUTED", "CANCELLED"}
  /\ Lifecycle!ValidTransitions("AWAITING_PAYMENT") = {"COMPLETED", "DISPUTED", "CANCELLED"}
  /\ Lifecycle!ValidTransitions("DISPUTED") =
       {"PENDING_COMPLETION", "AWAITING_PAYMENT", "COMPLETED", "CANCELLED"}
  /\ \A s \in Terminal : Lifecycle!ValidTransitions(s) = {}
BY DEF Lifecycle!ValidTransitions, Terminal

\* A row is a record with these fields.
LEMMA RowFields ==
  ASSUME Typed, NEW b \in Bookings
  PROVE  /\ booking[b] \in Row
         /\ booking[b].status \in Statuses \cup {"NONE"}
         /\ booking[b].completed \in BOOLEAN
BY DEF Typed, TypeOK, Row

\* One row is written, the others stay.
LEMMA RowWritten ==
  ASSUME Typed, NEW b \in Bookings, NEW r, UpdateBooking(b, r)
  PROVE  booking'[b] = r /\ \A c \in Bookings \ {b} : booking'[c] = booking[c]
BY DEF Typed, TypeOK, UpdateBooking

\* Rows and records left alone.
LEMMA NothingDone ==
  ASSUME UNCHANGED <<booking, cancellation, charge, activeJobs>>
  PROVE  LifeStep
BY DEF LifeStep, Undisturbed, RecordKept

\* A row is written by a step that counts no job.
LEMMA RowUncounted ==
  ASSUME Typed, NEW b \in Bookings, NEW r, UpdateBooking(b, r),
         \/ Stays(r, booking[b]) \/ MovesOn(r, booking[b])
         \/ ConcernsCancel(r, booking[b]) \/ AsksToMove(r, booking[b]),
         UNCHANGED <<cancellation, charge, activeJobs>>
  PROVE  LifeStep
<1>1. booking'[b] = r /\ \A c \in Bookings \ {b} : booking'[c] = booking[c]
  BY RowWritten
<1>2. \A c \in Bookings : RecordKept(c)
  BY DEF RecordKept
<1>3. Uncounted(b)
  BY <1>1, <1>2 DEF Uncounted
<1> QED
  BY <1>1, <1>2, <1>3 DEF LifeStep, LifeStepOf, Undisturbed

\* A status alone is written, which is a job as before or is none as before.
LEMMA StatusUncounted ==
  ASSUME Typed, NEW b \in Bookings, NEW s, SetStatus(b, s),
         \/ s = booking[b].status
         \/ /\ s \in Lifecycle!ValidTransitions(booking[b].status) \ {"CANCELLED"}
            /\ s \in JobStatuses <=> IsJob(booking[b]),
         UNCHANGED <<cancellation, charge, activeJobs>>
  PROVE  LifeStep
<1> DEFINE r == [booking[b] EXCEPT !.status = s]
<1>1. /\ r.status = s
      /\ SameJob(r, booking[b]) /\ SameRequest(r, booking[b]) /\ SameWork(r, booking[b])
  BY RowFields DEF Row, SameJob, SameRequest, SameWork
<1>2. UpdateBooking(b, r)
  BY DEF SetStatus
<1> HIDE DEF r
<1>3. Stays(r, booking[b]) \/ MovesOn(r, booking[b])
  BY <1>1 DEF Stays, SameStatus, MovesOn, IsJob
<1> QED
  BY <1>2, <1>3, RowUncounted

\* A dues entry is made for one booking.
LEMMA ChargedElsewhere ==
  ASSUME Typed, NEW b \in Bookings, NEW review, ChargedFor(b, review)
  PROVE  \A c \in Bookings \ {b} : charge'[c] = charge[c]
BY DEF Typed, TypeOK, ChargedFor, ChargePenaltyTx, CreditCompensationTx

\* A booking is cancelled, in the transaction that puts it on record.
LEMMA RowCancelled ==
  ASSUME Typed, NEW b \in Bookings, NEW r, UpdateBooking(b, r), Cancelled(r, booking[b]),
         booking[b].status \notin Terminal \cup {"NONE"},
         NEW reason \in Reasons, NEW review \in {"NOT_APPLICABLE", "PENDING_REVIEW", "APPROVED"},
         CreateCancellation(b, reason, review), ChargedFor(b, review), CountedFor(b, reason),
         reason = "AGREED" => ~booking[b].escalated
  PROVE  LifeStep
<1>1. booking'[b] = r /\ \A c \in Bookings \ {b} : booking'[c] = booking[c]
  BY RowWritten
<1>2. \A c \in Bookings \ {b} : charge'[c] = charge[c]
  BY ChargedElsewhere
<1>3. \A c \in Bookings \ {b} : RecordKept(c)
  BY <1>2 DEF RecordKept, CreateCancellation, Typed, TypeOK
<1>4. EndsOnRecord(b)
  BY <1>1 DEF EndsOnRecord
<1> QED
  BY <1>1, <1>3, <1>4 DEF LifeStep, LifeStepOf, Undisturbed

\* The row a cancellation writes.
LEMMA CancelledRow ==
  ASSUME Typed, NEW b \in Bookings,
         NEW r, \/ r = [booking[b] EXCEPT !.status = "CANCELLED"]
                \/ r = [booking[b] EXCEPT !.status = "CANCELLED", !.visit = FALSE]
                \/ r = [booking[b] EXCEPT !.status = "CANCELLED", !.visit = FALSE, !.kept = TRUE]
  PROVE  Cancelled(r, booking[b])
<1>1. CASE r = [booking[b] EXCEPT !.status = "CANCELLED"]
  BY <1>1, RowFields DEF Row, Cancelled, SameJob, SameRequest, SameWork
<1>2. CASE r = [booking[b] EXCEPT !.status = "CANCELLED", !.visit = FALSE]
  BY <1>2, RowFields DEF Row, Cancelled, SameJob, SameRequest, SameWork
<1>3. CASE r = [booking[b] EXCEPT !.status = "CANCELLED", !.visit = FALSE, !.kept = TRUE]
  BY <1>3, RowFields DEF Row, Cancelled, SameJob, SameRequest, SameWork
<1> QED
  BY <1>1, <1>2, <1>3

\* finalizeCancellationTx ends a booking on record.  What its caller has seen of
\* the booking, before the work was done, tells whether the job still counts.
LEMMA FinalizeEnds ==
  ASSUME Typed, NEW b \in Bookings, NEW seen,
         NEW reason \in Reasons, NEW review \in {"NOT_APPLICABLE", "PENDING_REVIEW", "APPROVED"},
         FinalizeCancellationTx(b, seen, reason, review), ChargedFor(b, review),
         seen.status \in {"PENDING"} \cup JobStatuses, ~seen.completed,
         reason = "AGREED" => ~booking[b].escalated
  PROVE  LifeStep
<1> DEFINE r == [booking[b] EXCEPT !.status = "CANCELLED", !.visit = FALSE]
<1>1. /\ UpdateBooking(b, r) /\ CreateCancellation(b, reason, review)
      /\ booking[b].status = seen.status
      /\ IF JobCounted(seen) THEN JobEnds(b) ELSE UNCHANGED activeJobs
  BY DEF FinalizeCancellationTx
<1>2. Cancelled(r, booking[b])
  BY CancelledRow
<1> HIDE DEF r
<1>3. CountedFor(b, reason)
  BY <1>1 DEF CountedFor, IsJob, JobCounted
<1>4. booking[b].status \notin Terminal \cup {"NONE"}
  BY <1>1 DEF JobStatuses, Terminal
<1> QED
  BY <1>1, <1>2, <1>3, <1>4, RowCancelled

\* A row whose flags are written stays as it is.
LEMMA FlagsStay ==
  ASSUME Typed, NEW b \in Bookings, NEW v,
         NEW r, \/ r = [booking[b] EXCEPT !.notHere = v]
                \/ r = [booking[b] EXCEPT !.visit = v]
                \/ r = [booking[b] EXCEPT !.pending = v]
                \/ r = [booking[b] EXCEPT !.kept = v]
                \/ r = [booking[b] EXCEPT !.arrived = TRUE, !.inWindow = v]
  PROVE  Stays(r, booking[b])
<1>1. CASE r = [booking[b] EXCEPT !.notHere = v]
  BY <1>1, RowFields DEF Row, Stays, SameStatus, SameJob, SameRequest, SameWork
<1>2. CASE r = [booking[b] EXCEPT !.visit = v]
  BY <1>2, RowFields DEF Row, Stays, SameStatus, SameJob, SameRequest, SameWork
<1>3. CASE r = [booking[b] EXCEPT !.pending = v]
  BY <1>3, RowFields DEF Row, Stays, SameStatus, SameJob, SameRequest, SameWork
<1>4. CASE r = [booking[b] EXCEPT !.kept = v]
  BY <1>4, RowFields DEF Row, Stays, SameStatus, SameJob, SameRequest, SameWork
<1>5. CASE r = [booking[b] EXCEPT !.arrived = TRUE, !.inWindow = v]
  BY <1>5, RowFields DEF Row, Stays, SameStatus, SameJob, SameRequest, SameWork
<1> QED
  BY <1>1, <1>2, <1>3, <1>4, <1>5

\* A flag alone is written.
LEMMA FlagWritten ==
  ASSUME Typed, NEW b \in Bookings, NEW v, UNCHANGED <<cancellation, charge, activeJobs>>,
         \/ UpdateBooking(b, [booking[b] EXCEPT !.notHere = v])
         \/ UpdateBooking(b, [booking[b] EXCEPT !.visit = v])
         \/ UpdateBooking(b, [booking[b] EXCEPT !.pending = v])
         \/ UpdateBooking(b, [booking[b] EXCEPT !.kept = v])
         \/ UpdateBooking(b, [booking[b] EXCEPT !.arrived = TRUE, !.inWindow = v])
  PROVE  LifeStep
<1>1. PICK r : /\ UpdateBooking(b, r)
               /\ \/ r = [booking[b] EXCEPT !.notHere = v]
                  \/ r = [booking[b] EXCEPT !.visit = v]
                  \/ r = [booking[b] EXCEPT !.pending = v]
                  \/ r = [booking[b] EXCEPT !.kept = v]
                  \/ r = [booking[b] EXCEPT !.arrived = TRUE, !.inWindow = v]
  OBVIOUS
<1>2. Stays(r, booking[b])
  BY <1>1, FlagsStay
<1> QED
  BY <1>1, <1>2, RowUncounted

-----------------------------------------------------------------------------
(* The steps, actor by actor.                                              *)

\* What a client does.
LEMMA ClientLives ==
  ASSUME Sound, NEW p \in Calls, NEW b \in Bookings, ClientStep(p, b)
  PROVE  LifeStep
<1> USE DEF Sound
<1>1. ASSUME NEW w \in Workers, NEW s \in Starts, NEW cash \in BOOLEAN,
             CreateBooking(b, w, s, cash)
      PROVE  LifeStep
  <2> DEFINE r == [booking[b] EXCEPT !.status = "PENDING", !.worker = w, !.start = s,
                                     !.cash = cash]
  <2>1. r.status = "PENDING" /\ SameRequest(r, booking[b]) /\ SameWork(r, booking[b])
    BY RowFields DEF Row, SameRequest, SameWork
  <2>2. /\ UpdateBooking(b, r) /\ booking[b].status = "NONE"
        /\ UNCHANGED <<cancellation, charge, activeJobs>>
    BY <1>1 DEF CreateBooking
  <2> HIDE DEF r
  <2>3. MovesOn(r, booking[b])
    BY <2>1, <2>2, Transitions DEF MovesOn, IsJob, JobStatuses
  <2> QED
    BY <2>2, <2>3, RowUncounted
<1>2. CASE RequestCancel(b)
  <2> DEFINE r == [booking[b] EXCEPT !.asked = TRUE]
  <2>1. /\ SameStatus(r, booking[b]) /\ SameJob(r, booking[b]) /\ SameRequest(r, booking[b])
        /\ r.completed = booking[b].completed /\ r.resends = booking[b].resends
    BY RowFields DEF Row, SameStatus, SameJob, SameRequest
  <2>2. /\ UpdateBooking(b, r) /\ IsJob(booking[b])
        /\ UNCHANGED <<cancellation, charge, activeJobs>>
    BY <1>2 DEF RequestCancel, IsJob
  <2> HIDE DEF r
  <2> QED
    BY <2>1, <2>2, RowUncounted DEF ConcernsCancel
<1>3. CASE ClientCancel(b)
  <2>1. /\ FinalizeCancellationTx(b, booking[b], "CLIENT", "NOT_APPLICABLE")
        /\ booking[b].status = "PENDING" /\ ChargedFor(b, "NOT_APPLICABLE")
    BY <1>3 DEF ClientCancel, ChargedFor
  <2>2. ~booking[b].completed
    BY <2>1 DEF LifeInv, WorkInTime
  <2> QED
    BY <2>1, <2>2, FinalizeEnds DEF Reasons
<1>4. CASE FinalizePaidBooking(b)
  <2>1. /\ booking[b].status \in {"PENDING_COMPLETION", "AWAITING_PAYMENT", "DISPUTED"}
        /\ SetStatus(b, "COMPLETED") /\ UNCHANGED <<cancellation, charge, activeJobs>>
    BY <1>4 DEF FinalizePaidBooking, BilledStatuses
  <2> QED
    BY <2>1, Transitions, StatusUncounted DEF IsJob, JobStatuses
<1>5. CASE ReportInvoice(b)
  <2>1. /\ booking[b].status \in {"PENDING_COMPLETION", "AWAITING_PAYMENT"}
        /\ SetStatus(b, "DISPUTED") /\ UNCHANGED <<cancellation, charge, activeJobs>>
    BY <1>5 DEF ReportInvoice, BilledStatuses
  <2> QED
    BY <2>1, Transitions, StatusUncounted DEF IsJob, JobStatuses
<1>6. CASE ReportBookingProblem(b) \/ ConfirmCompletion(p, b) \/ RefundPayment(p, b)
  BY <1>6, NothingDone DEF ReportBookingProblem, ConfirmCompletion, RefundPayment
<1> QED
  BY <1>1, <1>2, <1>3, <1>4, <1>5, <1>6 DEF ClientStep

\* What a worker does.
LEMMA WorkerLives ==
  ASSUME Sound, NEW p \in Calls, NEW b \in Bookings, WorkerStep(p, b)
  PROVE  LifeStep
<1> USE DEF Sound
<1>1. CASE DeclineBooking(b)
  BY <1>1, Transitions, StatusUncounted DEF DeclineBooking, IsJob, JobStatuses
<1>2. CASE ReportClientNotHere(b)
  BY <1>2, FlagWritten DEF ReportClientNotHere
<1>3. CASE StartBooking(b)
  BY <1>3, Transitions, StatusUncounted DEF StartBooking, IsJob, JobStatuses
<1>4. CASE CancelVisit(b)
  BY <1>4, FlagWritten DEF CancelVisit
<1>5. CASE EscalateCancelRequest(b)
  <2> DEFINE r == [booking[b] EXCEPT !.escalated = TRUE]
  <2>1. /\ SameStatus(r, booking[b]) /\ SameJob(r, booking[b]) /\ SameRequest(r, booking[b])
        /\ r.completed = booking[b].completed /\ r.resends = booking[b].resends
    BY RowFields DEF Row, SameStatus, SameJob, SameRequest
  <2>2. /\ UpdateBooking(b, r) /\ IsJob(booking[b])
        /\ UNCHANGED <<cancellation, charge, activeJobs>>
    BY <1>5 DEF EscalateCancelRequest, IsJob
  <2> HIDE DEF r
  <2> QED
    BY <2>1, <2>2, RowUncounted DEF ConcernsCancel
<1>6. CASE MarkCashReceived(b)
  BY <1>6, Transitions, StatusUncounted DEF MarkCashReceived, SettleCashBooking, IsJob, JobStatuses
<1>7. CASE ReportCashNotPaid(b)
  BY <1>7, Transitions, StatusUncounted DEF ReportCashNotPaid, IsJob, JobStatuses
<1>8. CASE \/ AcceptBooking(p, b) \/ WorkerCancel(p, b) \/ ArriveBooking(p, b)
           \/ ScheduleVisit(p, b) \/ AgreeToCancel(p, b) \/ CompleteBooking(p, b)
  BY <1>8, NothingDone
     DEF AcceptBooking, WorkerCancel, ArriveBooking, ScheduleVisit, AgreeToCancel, CompleteBooking
<1> QED
  BY <1>1, <1>2, <1>3, <1>4, <1>5, <1>6, <1>7, <1>8 DEF WorkerStep

\* Requests to move a job.
LEMMA RescheduleLives ==
  ASSUME Sound, NEW p \in Calls, NEW b \in Bookings, RescheduleStep(p, b)
  PROVE  LifeStep
<1> USE DEF Sound
<1>1. ASSUME NEW s \in Starts, RequestReschedule(b, s)
      PROVE  LifeStep
  <2> DEFINE n == booking[b].request + 1
             r == [booking[b] EXCEPT !.request = n, !.newStart = s, !.pending = TRUE]
  <2>1. UpdateBooking(b, r) /\ UNCHANGED <<cancellation, charge, activeJobs>>
    BY <1>1 DEF RequestReschedule
  <2> HIDE DEF n
  <2>2. /\ SameStatus(r, booking[b]) /\ SameJob(r, booking[b]) /\ SameWork(r, booking[b])
        /\ r.request = n
    BY RowFields DEF Row, SameStatus, SameJob, SameWork
  <2> HIDE DEF r
  <2>3. AsksToMove(r, booking[b])
    BY <2>2 DEF AsksToMove, n
  <2> QED
    BY <2>1, <2>3, RowUncounted
<1>2. CASE CloseRequest(b)
  BY <1>2, FlagWritten DEF CloseRequest
<1>3. CASE AcceptReschedule(p, b)
  BY <1>3, NothingDone DEF AcceptReschedule
<1> QED
  BY <1>1, <1>2, <1>3 DEF RescheduleStep, WithdrawRescheduleRequest, DeclineRescheduleRequest

\* The sweeps: only the expiry of a request writes a booking at once.
LEMMA SweepLives ==
  ASSUME Sound, NEW p \in Calls, NEW b \in Bookings, SweepStep(p, b)
  PROVE  LifeStep
<1> USE DEF Sound
<1>1. CASE ExpirePendingBooking(b)
  <2> DEFINE r == [booking[b] EXCEPT !.status = "CANCELLED"]
  <2>1. Cancelled(r, booking[b])
    BY CancelledRow
  <2>2. /\ UpdateBooking(b, r) /\ booking[b].status = "PENDING"
        /\ CreateCancellation(b, "NO_RESPONSE", "NOT_APPLICABLE")
        /\ ChargedFor(b, "NOT_APPLICABLE")
    BY <1>1 DEF ExpirePendingBooking, SetStatus, ChargedFor
  <2> HIDE DEF r
  <2>3. CountedFor(b, "NO_RESPONSE")
    BY <1>1, <2>2 DEF ExpirePendingBooking, CountedFor, IsJob, JobStatuses
  <2> QED
    BY <2>1, <2>2, <2>3, RowCancelled DEF Terminal, Reasons
<1>2. CASE \/ AutoDecline(p, b) \/ WorkerNoShow(p, b)
           \/ AutoSettleCash(p, b) \/ OverduePayment(p, b)
  BY <1>2, NothingDone DEF AutoDecline, WorkerNoShow, AutoSettleCash, OverduePayment
<1> QED
  BY <1>1, <1>2 DEF SweepStep

\* What an admin does.
LEMMA AdminLives ==
  ASSUME Sound, NEW p \in Calls, AdminStep(p)
  PROVE  LifeStep
<1> USE DEF Sound
<1>1. ASSUME NEW b \in Bookings, CancelBookingAdmin(b)
      PROVE  LifeStep
  <2> DEFINE r == [booking[b] EXCEPT !.status = "CANCELLED", !.visit = FALSE]
  <2>1. Cancelled(r, booking[b])
    BY CancelledRow
  <2>2. /\ UpdateBooking(b, r) /\ booking[b].status \notin Terminal \cup {"NONE"}
        /\ CreateCancellation(b, "ADMIN", "NOT_APPLICABLE")
        /\ ChargedFor(b, "NOT_APPLICABLE")
    BY <1>1 DEF CancelBookingAdmin, ChargedFor
  <2> HIDE DEF r
  <2>3. CountedFor(b, "ADMIN")
    BY <1>1 DEF CancelBookingAdmin, CountedFor, IsJob
  <2> QED
    BY <2>1, <2>2, <2>3, RowCancelled DEF Reasons
<1>2. ASSUME NEW d \in Disputes, ResolveWithInvoice(p, d)
      PROVE  LifeStep
  <2> DEFINE b == dispute[d].booking
             r == [booking[b] EXCEPT !.status = "PENDING_COMPLETION", !.kept = TRUE]
  <2>1. b \in Bookings
    BY <1>2 DEF ResolveWithInvoice, IsOpen, Typed, DisputesPlaced
  <2>2. /\ UpdateBooking(b, r) /\ booking[b].status = "DISPUTED"
        /\ UNCHANGED <<cancellation, charge, activeJobs>>
    BY <1>2 DEF ResolveWithInvoice
  <2> HIDE DEF b
  <2>3. /\ r.status = "PENDING_COMPLETION"
        /\ SameJob(r, booking[b]) /\ SameRequest(r, booking[b]) /\ SameWork(r, booking[b])
    BY <2>1, RowFields DEF Row, SameJob, SameRequest, SameWork
  <2> HIDE DEF r
  <2>4. MovesOn(r, booking[b])
    BY <2>2, <2>3, Transitions DEF MovesOn, IsJob, JobStatuses
  <2> QED
    BY <2>1, <2>2, <2>4, RowUncounted
<1>3. ASSUME NEW d \in Disputes, ResolveByCancelling(d)
      PROVE  LifeStep
  <2> DEFINE b == dispute[d].booking
             r == [booking[b] EXCEPT !.status = "CANCELLED", !.visit = FALSE, !.kept = TRUE]
             k == [booking[b] EXCEPT !.kept = TRUE]
  <2>1. b \in Bookings
    BY <1>3 DEF ResolveByCancelling, IsOpen, Typed, DisputesPlaced
  <2>2. CASE UpdateBooking(b, k) /\ UNCHANGED <<cancellation, activeJobs>>
    BY <1>3, <2>1, <2>2, FlagWritten DEF ResolveByCancelling
  <2>3. CASE ~(UpdateBooking(b, k) /\ UNCHANGED <<cancellation, activeJobs>>)
    <3>1. /\ booking[b].status \in JobStatuses \cup BilledStatuses \cup {"DISPUTED"}
          /\ UpdateBooking(b, r)
          /\ IF booking[b].completed THEN UNCHANGED activeJobs ELSE JobEnds(b)
          /\ CreateCancellation(b, "ADMIN", "NOT_APPLICABLE")
          /\ UNCHANGED charge
      BY <1>3, <2>3 DEF ResolveByCancelling
    <3> HIDE DEF b, k
    <3>2. Cancelled(r, booking[b])
      BY <2>1, CancelledRow
    <3> HIDE DEF r
    <3>3. ChargedFor(b, "NOT_APPLICABLE")
      BY <3>1 DEF ChargedFor
    <3>4. booking[b].completed <=> ~IsJob(booking[b])
      BY <2>1, <3>1 DEF LifeInv, WorkInTime, IsJob
    <3>5. CountedFor(b, "ADMIN")
      BY <3>1, <3>4 DEF CountedFor
    <3>6. booking[b].status \notin Terminal \cup {"NONE"}
      BY <3>1, StatusNames
    <3> QED
      BY <2>1, <3>1, <3>2, <3>3, <3>5, <3>6, RowCancelled DEF Reasons
  <2> QED
    BY <2>2, <2>3
<1>4. ASSUME NEW b \in Bookings, ReviewCancellation(p, b)
      PROVE  LifeStep
  BY <1>4, NothingDone DEF ReviewCancellation
<1>5. ASSUME NEW d \in Disputes,
             \/ GetDisputeById(p, d) \/ DismissDispute(p, d)
             \/ \E op \in {"invoiceForWorker", "platformPay"} : ResolveNonPayment(p, d, op)
      PROVE  LifeStep
  BY <1>5, NothingDone DEF GetDisputeById, DismissDispute, ResolveNonPayment
<1> QED
  BY <1>1, <1>2, <1>3, <1>4, <1>5 DEF AdminStep

\* A guarded write that finds no row changes nothing.
LEMMA ConflictLives ==
  ASSUME NEW p \in Calls, Conflict(p)
  PROVE  LifeStep
BY NothingDone DEF Conflict

\* A worker takes the job he has seen, if it is still to be had.
LEMMA AcceptLives ==
  ASSUME Sound, NEW p \in Calls, AcceptCommit(p)
  PROVE  LifeStep
<1> DEFINE b == call[p].b
           r == [booking[b] EXCEPT !.status = "ACCEPTED"]
<1>1. call[p].op = "acceptLocked" /\ b \in Bookings
  BY CallInFlight DEF Sound, Typed, AcceptCommit, InFlight
<1>2. CASE Conflict(p)
  BY <1>2, ConflictLives
<1>3. CASE ~Conflict(p)
  <2>1. /\ booking[b].status = "PENDING" /\ UpdateBooking(b, r)
        /\ activeJobs' = [activeJobs EXCEPT ![call[p].seen.worker] = @ + 1]
        /\ UNCHANGED <<cancellation, charge>>
    BY <1>3 DEF AcceptCommit, SetStatus
  <2>2. call[p].seen.worker = booking[b].worker
    BY <1>1 DEF Sound, SeenIsCurrent, CommittingOps, LockedOps
  <2> HIDE DEF b
  <2>3. /\ r.status = "ACCEPTED"
        /\ SameJob(r, booking[b]) /\ SameRequest(r, booking[b]) /\ SameWork(r, booking[b])
    BY <1>1, RowFields DEF Sound, Row, SameJob, SameRequest, SameWork
  <2> HIDE DEF r
  <2>4. booking'[b] = r /\ \A c \in Bookings \ {b} : booking'[c] = booking[c]
    BY <1>1, <2>1, RowWritten DEF Sound
  <2>5. \A c \in Bookings : RecordKept(c)
    BY <2>1 DEF RecordKept
  <2>6. IsAccepted(b)
    BY <1>1, <2>1, <2>2, <2>3, <2>4, <2>5 DEF IsAccepted
  <2> QED
    BY <1>1, <2>4, <2>5, <2>6 DEF LifeStep, LifeStepOf, Undisturbed
<1> QED
  BY <1>2, <1>3

\* A job is moved to the start its request asks for.
LEMMA MoveLives ==
  ASSUME Sound, NEW p \in Calls, MoveCommit(p)
  PROVE  LifeStep
<1> DEFINE b == call[p].b
           s == call[p].seen.newStart
           r == [booking[b] EXCEPT !.start = s, !.pending = FALSE]
<1>1. call[p].op = "moveLocked" /\ b \in Bookings
  BY CallInFlight DEF Sound, Typed, MoveCommit, InFlight
<1>2. CASE Conflict(p)
  BY <1>2, ConflictLives
<1>3. CASE ~Conflict(p)
  <2>1. /\ booking[b].status = "ACCEPTED" /\ ~booking[b].arrived
        /\ booking[b].pending /\ booking[b].request = call[p].seen.request
        /\ UpdateBooking(b, r)
        /\ UNCHANGED <<cancellation, charge, activeJobs>>
    BY <1>3 DEF MoveCommit, StillOpen
  <2>2. /\ SameStatus(r, booking[b]) /\ SameRequest(r, booking[b]) /\ SameWork(r, booking[b])
        /\ r.worker = booking[b].worker /\ r.start = s
    BY <1>1, RowFields DEF Sound, Row, SameStatus, SameRequest, SameWork
  <2> HIDE DEF r
  <2>3. booking'[b] = r /\ \A c \in Bookings \ {b} : booking'[c] = booking[c]
    BY <1>1, <2>1, RowWritten DEF Sound
  <2>4. \A c \in Bookings : RecordKept(c)
    BY <2>1 DEF RecordKept
  <2>5. Uncounted(b)
    BY <1>1, <2>1, <2>2, <2>3, <2>4 DEF Uncounted, Moves
  <2> QED
    BY <1>1, <2>3, <2>4, <2>5 DEF LifeStep, LifeStepOf, Undisturbed
<1> QED
  BY <1>2, <1>3

\* The worker's side of a job is done, for the first time or again.
LEMMA CompleteLives ==
  ASSUME Sound, NEW p \in Calls, CompleteCommit(p)
  PROVE  LifeStep
<1> DEFINE b == call[p].b
<1>1. b \in Bookings
  BY CallInFlight, CompletingOps DEF Sound, Typed, CompleteCommit, InFlight
<1>2. CASE Conflict(p)
  BY <1>2, ConflictLives
<1>3. CASE ~Conflict(p)
  <2>1. PICK n \in {0, 1} : CompletesBy(p, b, n)
    BY <1>3, Completes
  <2> DEFINE r == CompletedRow(booking[b], n)
  <2>2. /\ r.status = "PENDING_COMPLETION" /\ r.completed /\ r.resends = booking[b].resends + n
        /\ r.asked = booking[b].asked /\ r.escalated = booking[b].escalated
        /\ SameJob(r, booking[b]) /\ SameRequest(r, booking[b])
    BY <1>1, <2>1, RowFields, CompletionRow DEF Sound, CompletesBy, SameJob, SameRequest
  <2> HIDE DEF r, b
  <2>3. /\ UpdateBooking(b, r) /\ JobEnds(b) /\ ~Unanswered(booking[b])
        /\ booking[b].status = IF n = 0 THEN "IN_PROGRESS" ELSE "DISPUTED"
        /\ booking[b].resends + n <= MaxResends
        /\ UNCHANGED <<cancellation, charge>>
    BY <2>1 DEF CompletesBy, r
  <2>4. booking'[b] = r /\ \A c \in Bookings \ {b} : booking'[c] = booking[c]
    BY <1>1, <2>3, RowWritten DEF Sound
  <2>5. \A c \in Bookings : RecordKept(c)
    BY <2>3 DEF RecordKept
  <2>6. booking[b].resends \in Nat /\ MaxResends \in Nat
    BY <1>1, RowFields, ConstantsAssumption DEF Sound, Row
  <2>7. IsCompleted(b)
    BY <1>1, <2>2, <2>3, <2>4, <2>5, <2>6 DEF IsCompleted
  <2> QED
    BY <1>1, <2>4, <2>5, <2>7 DEF LifeStep, LifeStepOf, Undisturbed
<1> QED
  BY <1>2, <1>3

\* The other calls that write a booking without ending it.
LEMMA CallUncounted ==
  ASSUME Sound, NEW p \in Calls,
         \/ AutoDeclineCommit(p) \/ ArriveCommit(p) \/ VisitCommit(p)
         \/ CreateCompletionInvoice(p) \/ AutoSettleCommit(p) \/ SettlePlatformFundedPayment(p)
  PROVE  LifeStep
<1> USE DEF Sound
<1> DEFINE b == call[p].b
<1>1. b \in Bookings
  BY CallInFlight
     DEF Typed, InFlight, AutoDeclineCommit, ArriveCommit, VisitCommit, CreateCompletionInvoice,
         AutoSettleCommit, SettlePlatformFundedPayment
<1>2. CASE Conflict(p)
  BY <1>2, ConflictLives
<1>3. CASE AutoDeclineCommit(p)
  BY <1>1, <1>3, FlagWritten DEF AutoDeclineCommit
<1>4. CASE ArriveCommit(p)
  <2> DEFINE start == call[p].seen.start
             window == now \in (start - Early) .. (start + Grace)
  <2>1. \/ UpdateBooking(b, [booking[b] EXCEPT !.arrived = TRUE, !.inWindow = window])
        \/ UNCHANGED booking
    BY <1>4 DEF ArriveCommit
  <2>2. UNCHANGED <<cancellation, charge, activeJobs>>
    BY <1>4 DEF ArriveCommit
  <2> HIDE DEF window, b
  <2> QED
    BY <1>1, <2>1, <2>2, FlagWritten, NothingDone
<1>5. CASE VisitCommit(p)
  BY <1>1, <1>5, FlagWritten DEF VisitCommit
<1>6. CASE CreateCompletionInvoice(p) /\ ~Conflict(p)
  <2>1. /\ booking[b].status \in {"PENDING_COMPLETION", "AWAITING_PAYMENT"}
        /\ SetStatus(b, "AWAITING_PAYMENT") /\ UNCHANGED <<cancellation, charge, activeJobs>>
    BY <1>6 DEF CreateCompletionInvoice, BilledStatuses
  <2> QED
    BY <1>1, <2>1, Transitions, StatusUncounted DEF IsJob, JobStatuses
<1>7. CASE AutoSettleCommit(p)
  <2>1. \/ booking[b].status = "PENDING_COMPLETION" /\ SetStatus(b, "COMPLETED")
        \/ UNCHANGED booking
    BY <1>7 DEF AutoSettleCommit, SettleCashBooking
  <2>2. UNCHANGED <<cancellation, charge, activeJobs>>
    BY <1>7 DEF AutoSettleCommit
  <2> QED
    BY <1>1, <2>1, <2>2, Transitions, StatusUncounted, NothingDone DEF IsJob, JobStatuses
<1>8. CASE SettlePlatformFundedPayment(p) /\ ~Conflict(p)
  <2>1. /\ \/ /\ booking[b].status \in {"AWAITING_PAYMENT", "DISPUTED"}
              /\ SetStatus(b, "COMPLETED")
           \/ UNCHANGED booking
        /\ UNCHANGED <<cancellation, charge, activeJobs>>
    BY <1>8 DEF SettlePlatformFundedPayment
  <2> QED
    BY <1>1, <2>1, Transitions, StatusUncounted, NothingDone DEF IsJob, JobStatuses
<1> QED
  BY <1>2, <1>3, <1>4, <1>5, <1>6, <1>7, <1>8

\* The calls that end a booking, or judge how it ended.
LEMMA CallEnds ==
  ASSUME Sound, NEW p \in Calls,
         \/ CancelAsWorkerNoShow(p) \/ AgreeCommit(p)
         \/ \E fault \in {"NONE", "CLIENT", "WORKER"} : WorkerCancelCommit(p, fault)
         \/ \E outcome \in {"APPROVED", "REJECTED"} : ReviewCommit(p, outcome)
  PROVE  LifeStep
<1> USE DEF Sound
<1> DEFINE b == call[p].b
           seen == call[p].seen
<1>1. b \in Bookings
  BY CallInFlight
     DEF Typed, InFlight, CancelAsWorkerNoShow, AgreeCommit, WorkerCancelCommit, ReviewCommit
<1>2. CASE Conflict(p)
  BY <1>2, ConflictLives
<1>3. ASSUME call[p].op \in CancellingOps
      PROVE  seen.status \in {"PENDING"} \cup JobStatuses /\ ~seen.completed
  BY <1>3 DEF Typed, SeenCancellable, LifeInv, SeenInTime
<1>4. CASE CancelAsWorkerNoShow(p) /\ ~Conflict(p)
  <2> DEFINE r == [booking[b] EXCEPT !.status = "CANCELLED", !.visit = FALSE]
  <2>1. Cancelled(r, booking[b])
    BY <1>1, CancelledRow
  <2>2. /\ UpdateBooking(b, r) /\ booking[b].status = "ACCEPTED" /\ JobEnds(b)
        /\ CreateCancellation(b, "WORKER_NO_SHOW", "NOT_APPLICABLE")
        /\ ChargedFor(b, "NOT_APPLICABLE")
    BY <1>4 DEF CancelAsWorkerNoShow, ChargedFor
  <2> HIDE DEF r, b
  <2>3. CountedFor(b, "WORKER_NO_SHOW")
    BY <2>2 DEF CountedFor, IsJob, JobStatuses
  <2> QED
    BY <1>1, <2>1, <2>2, <2>3, RowCancelled DEF Terminal, Reasons
<1>5. CASE AgreeCommit(p) /\ ~Conflict(p)
  <2>1. /\ ~booking[b].escalated /\ call[p].op \in CancellingOps
        /\ FinalizeCancellationTx(b, seen, "AGREED", "NOT_APPLICABLE")
        /\ ChargedFor(b, "NOT_APPLICABLE")
    BY <1>5 DEF AgreeCommit, StillUnanswered, ChargedFor, InFlight, CancellingOps
  <2>2. seen.status \in {"PENDING"} \cup JobStatuses /\ ~seen.completed
    BY <1>3, <2>1
  <2> HIDE DEF b, seen
  <2> QED
    BY <1>1, <2>1, <2>2, FinalizeEnds DEF Reasons
<1>6. ASSUME NEW fault \in {"NONE", "CLIENT", "WORKER"}, WorkerCancelCommit(p, fault), ~Conflict(p)
      PROVE  LifeStep
  <2> DEFINE waited == fault = "CLIENT" /\ ClientNoShowConfirmed(seen)
             review == CASE waited -> "APPROVED"
                         [] fault = "CLIENT" /\ ~waited -> "PENDING_REVIEW"
                         [] OTHER -> "NOT_APPLICABLE"
  <2>1. /\ FinalizeCancellationTx(b, seen, "WORKER", review)
        /\ CASE waited           -> CreditCompensationTx(b)
             [] fault = "WORKER" -> ChargePenaltyTx(b)
             [] OTHER            -> UNCHANGED charge
    BY <1>6 DEF WorkerCancelCommit
  <2>2. waited \in BOOLEAN /\ (waited => fault = "CLIENT")
    BY DEF ClientNoShowConfirmed
  <2> HIDE DEF waited
  <2>3. /\ review \in {"NOT_APPLICABLE", "PENDING_REVIEW", "APPROVED"}
        /\ ChargedFor(b, review)
    <3>1. CASE waited
      BY <2>1, <2>2, <3>1 DEF ChargedFor
    <3>2. CASE ~waited /\ fault = "CLIENT"
      BY <2>1, <2>2, <3>2 DEF ChargedFor
    <3>3. CASE fault = "WORKER"
      BY <2>1, <2>2, <3>3 DEF ChargedFor
    <3>4. CASE fault = "NONE"
      BY <2>1, <2>2, <3>4 DEF ChargedFor
    <3> QED
      BY <3>1, <3>2, <3>3, <3>4
  <2> HIDE DEF review
  <2>4. call[p].op \in CancellingOps
    BY <1>6 DEF WorkerCancelCommit, InFlight, CancellingOps
  <2>5. seen.status \in {"PENDING"} \cup JobStatuses /\ ~seen.completed
    BY <1>3, <2>4
  <2> HIDE DEF b, seen
  <2> QED
    BY <1>1, <2>1, <2>3, <2>5, FinalizeEnds DEF Reasons
<1>7. ASSUME NEW outcome \in {"APPROVED", "REJECTED"}, ReviewCommit(p, outcome), ~Conflict(p)
      PROVE  LifeStep
  <2>1. /\ ClaimReview(b, outcome) /\ ChargedFor(b, outcome)
        /\ UNCHANGED <<booking, activeJobs>>
    BY <1>7 DEF ReviewCommit, ChargedFor
  <2> HIDE DEF b
  <2>2. \A c \in Bookings \ {b} : Undisturbed(c)
    BY <1>1, <2>1, ChargedElsewhere DEF Undisturbed, RecordKept, ClaimReview, Typed, TypeOK
  <2>3. IsJudged(b)
    BY <1>1, <2>1 DEF IsJudged
  <2> QED
    BY <1>1, <2>2, <2>3 DEF LifeStep, LifeStepOf
<1> QED
  BY <1>2, <1>4, <1>5, <1>6, <1>7

\* Every step is a step of a life.
LEMMA StepLives ==
  ASSUME Sound, [Next]_vars
  PROVE  LifeStep
<1>1. CASE UNCHANGED vars \/ Tick
  BY <1>1, NothingDone DEF vars, Tick
<1>2. ASSUME NEW p \in Calls, CallStep(p)
      PROVE  LifeStep
  <2>1. CASE \/ AcceptLock(p) \/ MoveLock(p) \/ EscalateOverduePayment(p)
             \/ OpenRefundDispute(p) \/ MarkUnderReview(p) \/ CloseDispute(p) \/ Fail(p)
    BY <2>1, NothingDone
       DEF AcceptLock, MoveLock, EscalateOverduePayment, OpenRefundDispute, MarkUnderReview,
           CloseDispute, Fail
  <2> QED
    BY <1>2, <2>1, AcceptLives, MoveLives, CompleteLives, CallUncounted, CallEnds DEF CallStep
<1>3. ASSUME NEW p \in Calls, AdminStep(p)
      PROVE  LifeStep
  BY <1>3, AdminLives
<1>4. ASSUME NEW p \in Calls, NEW b \in Bookings,
             ClientStep(p, b) \/ WorkerStep(p, b) \/ RescheduleStep(p, b) \/ SweepStep(p, b)
      PROVE  LifeStep
  BY <1>4, ClientLives, WorkerLives, RescheduleLives, SweepLives
<1> QED
  BY <1>1, <1>2, <1>3, <1>4 DEF Next

-----------------------------------------------------------------------------
(* What a step may do to the calls in flight.                              *)

\* A call that will cancel begins on a booking that may be cancelled, and one
\* that will move a job while nothing is written.
Begins(p) ==
  \E op, b, d :
    /\ Begin(p, op, b, d)
    /\ op \in CancellingOps =>
         b \in Bookings /\ booking[b].status \in {"PENDING"} \cup JobStatuses
    /\ op \in MovingOps => op = "move" /\ b \in Bookings /\ UNCHANGED booking

GoesOn(p) ==
  \E op :
    /\ Continue(p, op)
    /\ op \notin CancellingOps
    /\ op \in MovingOps => call[p].op \in MovingOps

CallWritten(p) == Begins(p) \/ GoesOn(p) \/ Return(p) \/ UNCHANGED call

\* The ops that cancel for a worker or move a job.
LEMMA SeeingOps ==
  /\ CancellingOps = {"agreeCancel", "workerCancel"}
  /\ MovingOps = {"move", "moveLocked"}
BY DEF CancellingOps, MovingOps

\* What a client or a sweep begins is a call that writes no booking yet.
LEMMA ClientCalls ==
  ASSUME NEW p \in Calls, NEW b \in Bookings, ClientStep(p, b) \/ SweepStep(p, b)
  PROVE  CallWritten(p)
<1>1. CASE ConfirmCompletion(p, b)
  BY <1>1, SeeingOps DEF ConfirmCompletion, CallWritten, Begins
<1>2. CASE RefundPayment(p, b)
  BY <1>2, SeeingOps DEF RefundPayment, CallWritten, Begins
<1>3. CASE AutoDecline(p, b)
  BY <1>3, SeeingOps DEF AutoDecline, CallWritten, Begins
<1>4. CASE WorkerNoShow(p, b)
  BY <1>4, SeeingOps DEF WorkerNoShow, CallWritten, Begins
<1>5. CASE AutoSettleCash(p, b)
  BY <1>5, SeeingOps DEF AutoSettleCash, CallWritten, Begins
<1>6. CASE OverduePayment(p, b)
  BY <1>6, SeeingOps DEF OverduePayment, CallWritten, Begins
<1>7. CASE \/ \E w \in Workers, s \in Starts, cash \in BOOLEAN : CreateBooking(b, w, s, cash)
           \/ ReportBookingProblem(b) \/ RequestCancel(b) \/ ClientCancel(b)
           \/ FinalizePaidBooking(b) \/ ReportInvoice(b) \/ ExpirePendingBooking(b)
  BY <1>7
     DEF CreateBooking, ReportBookingProblem, RequestCancel, ClientCancel, FinalizePaidBooking,
         ReportInvoice, ExpirePendingBooking, CallWritten
<1> QED
  BY <1>1, <1>2, <1>3, <1>4, <1>5, <1>6, <1>7 DEF ClientStep, SweepStep

\* The same of what a worker begins, and of both sides' moves.
LEMMA WorkerCalls ==
  ASSUME NEW p \in Calls, NEW b \in Bookings, WorkerStep(p, b) \/ RescheduleStep(p, b)
  PROVE  CallWritten(p)
<1>1. CASE AcceptBooking(p, b)
  BY <1>1, SeeingOps DEF AcceptBooking, CallWritten, Begins
<1>2. CASE WorkerCancel(p, b)
  BY <1>2, SeeingOps DEF WorkerCancel, CallWritten, Begins
<1>3. CASE ArriveBooking(p, b)
  BY <1>3, SeeingOps DEF ArriveBooking, CallWritten, Begins
<1>4. CASE ScheduleVisit(p, b)
  BY <1>4, SeeingOps DEF ScheduleVisit, CallWritten, Begins
<1>5. CASE AgreeToCancel(p, b)
  BY <1>5, SeeingOps DEF AgreeToCancel, CallWritten, Begins
<1>6. CASE CompleteBooking(p, b)
  BY <1>6, SeeingOps, CompletingOps DEF CompleteBooking, MayComplete, CallWritten, Begins
<1>7. CASE AcceptReschedule(p, b)
  BY <1>7, SeeingOps DEF AcceptReschedule, CallWritten, Begins
<1>8. CASE \/ DeclineBooking(b) \/ ReportClientNotHere(b) \/ StartBooking(b) \/ CancelVisit(b)
           \/ EscalateCancelRequest(b) \/ MarkCashReceived(b) \/ ReportCashNotPaid(b)
           \/ CloseRequest(b) \/ \E s \in Starts : RequestReschedule(b, s)
  BY <1>8
     DEF DeclineBooking, ReportClientNotHere, StartBooking, CancelVisit, EscalateCancelRequest,
         MarkCashReceived, ReportCashNotPaid, CloseRequest, RequestReschedule, CallWritten
<1> QED
  BY <1>1, <1>2, <1>3, <1>4, <1>5, <1>6, <1>7, <1>8
     DEF WorkerStep, RescheduleStep, WithdrawRescheduleRequest, DeclineRescheduleRequest

\* The same of what an admin begins.
LEMMA AdminCalls ==
  ASSUME NEW p \in Calls, AdminStep(p)
  PROVE  CallWritten(p)
<1>1. ASSUME NEW b \in Bookings, CancelBookingAdmin(b) \/ ReviewCancellation(p, b)
      PROVE  CallWritten(p)
  BY <1>1, SeeingOps DEF CancelBookingAdmin, ReviewCancellation, CallWritten, Begins
<1>2. ASSUME NEW d \in Disputes, GetDisputeById(p, d)
      PROVE  CallWritten(p)
  BY <1>2, SeeingOps DEF GetDisputeById, CallWritten, Begins
<1>3. ASSUME NEW d \in Disputes, DismissDispute(p, d)
      PROVE  CallWritten(p)
  BY <1>3, SeeingOps DEF DismissDispute, CallWritten, Begins
<1>4. ASSUME NEW d \in Disputes, ResolveWithInvoice(p, d) \/ ResolveByCancelling(d)
      PROVE  CallWritten(p)
  BY <1>4, SeeingOps DEF ResolveWithInvoice, ResolveByCancelling, CallWritten, Begins
<1>5. ASSUME NEW d \in Disputes, NEW op \in {"invoiceForWorker", "platformPay"},
             ResolveNonPayment(p, d, op)
      PROVE  CallWritten(p)
  BY <1>5, SeeingOps DEF ResolveNonPayment, CallWritten, Begins
<1> QED
  BY <1>1, <1>2, <1>3, <1>4, <1>5 DEF AdminStep

\* A call that goes on touches itself alone.
LEMMA CallCalls ==
  ASSUME NEW p \in Calls, CallStep(p)
  PROVE  CallWritten(p)
<1>1. CASE Return(p) \/ Conflict(p) \/ UNCHANGED call
  BY <1>1 DEF CallWritten, Conflict
<1>2. CASE ~(Return(p) \/ Conflict(p) \/ UNCHANGED call)
  <2>1. CASE AcceptLock(p)
    BY <1>2, <2>1, SeeingOps DEF AcceptLock, CallWritten, GoesOn
  <2>2. CASE MoveLock(p)
    BY <1>2, <2>2, SeeingOps DEF MoveLock, InFlight, CallWritten, GoesOn
  <2>3. CASE CompleteCommit(p)
    BY <1>2, <2>3, SeeingOps DEF CompleteCommit, CallWritten, GoesOn
  <2>4. CASE CreateCompletionInvoice(p)
    BY <1>2, <2>4, SeeingOps DEF CreateCompletionInvoice, CallWritten, GoesOn
  <2>5. CASE SettlePlatformFundedPayment(p)
    BY <1>2, <2>5, SeeingOps DEF SettlePlatformFundedPayment, CallWritten, GoesOn
  <2>6. CASE \/ AcceptCommit(p) \/ MoveCommit(p) \/ AutoDeclineCommit(p) \/ ArriveCommit(p)
             \/ VisitCommit(p) \/ CancelAsWorkerNoShow(p) \/ AgreeCommit(p)
             \/ \E fault \in {"NONE", "CLIENT", "WORKER"} : WorkerCancelCommit(p, fault)
             \/ \E outcome \in {"APPROVED", "REJECTED"} : ReviewCommit(p, outcome)
             \/ AutoSettleCommit(p) \/ EscalateOverduePayment(p) \/ OpenRefundDispute(p)
             \/ MarkUnderReview(p) \/ CloseDispute(p) \/ Fail(p)
    BY <1>2, <2>6
       DEF AcceptCommit, MoveCommit, AutoDeclineCommit, ArriveCommit, VisitCommit,
           CancelAsWorkerNoShow, AgreeCommit, WorkerCancelCommit, ReviewCommit, AutoSettleCommit,
           EscalateOverduePayment, OpenRefundDispute, MarkUnderReview, CloseDispute, Fail
  <2> QED
    BY <2>1, <2>2, <2>3, <2>4, <2>5, <2>6 DEF CallStep
<1> QED
  BY <1>1, <1>2

\* Every step writes one call at most.
LEMMA StepCalls ==
  ASSUME [Next]_vars
  PROVE  UNCHANGED call \/ \E p \in Calls : CallWritten(p)
<1>1. CASE UNCHANGED vars \/ Tick
  BY <1>1 DEF vars, Tick
<1> QED
  BY <1>1, ClientCalls, WorkerCalls, AdminCalls, CallCalls DEF Next

-----------------------------------------------------------------------------
(* The invariant is kept.                                                  *)

\* The rows of one booking have their types.
LEMMA RowsTyped ==
  ASSUME TypeOK, NEW b \in Bookings
  PROVE  /\ cancellation[b] \in CancellationRow \cup {None}
         /\ charge[b].penalties \in Nat /\ charge[b].compensations \in Nat
         /\ booking[b].status \in Statuses \cup {"NONE"}
         /\ booking[b].completed \in BOOLEAN
         /\ booking[b].request \in Nat
BY ConstantsAssumption DEF TypeOK, ChargeRow, Row

\* What a dues entry does to the charges of its booking.
LEMMA ChargeWritten ==
  ASSUME TypeOK, NEW b \in Bookings
  PROVE  /\ ChargePenaltyTx(b) =>
              /\ charge'[b].penalties = charge[b].penalties + 1
              /\ charge'[b].compensations = charge[b].compensations
         /\ CreditCompensationTx(b) =>
              /\ charge'[b].penalties = charge[b].penalties
              /\ charge'[b].compensations = charge[b].compensations + 1
BY DEF TypeOK, ChargeRow, ChargePenaltyTx, CreditCompensationTx

\* A booking that is not cancelled by the step keeps its records, and so does
\* one already cancelled.
LEMMA KeptEndsWell ==
  ASSUME NEW b \in Bookings, EndsWell(b), RecordKept(b),
         booking'[b].status = "CANCELLED" <=> booking[b].status = "CANCELLED",
         booking'[b].completed => ~Unanswered(booking'[b]),
         cancellation[b] # None => booking'[b].escalated = booking[b].escalated
  PROVE  EndsWell(b)'
BY DEF EndsWell, RecordKept, Verdict

\* A booking whose row stays, moves on or is moved to another start.
LEMMA UncountedEndsWell ==
  ASSUME TypeOK, NEW b \in Bookings, WorkInTime(booking[b]), EndsWell(b), Uncounted(b)
  PROVE  WorkInTime(booking'[b]) /\ EndsWell(b)'
<1> DEFINE new == booking'[b]
           old == booking[b]
<1>1. RecordKept(b) /\ old.status \in Statuses \cup {"NONE"} /\ old.completed \in BOOLEAN
  BY RowsTyped DEF Uncounted
<1>2. /\ old.completed => ~Unanswered(old)
      /\ old.status = "CANCELLED" <=> cancellation[b] # None
  BY DEF EndsWell
<1> HIDE DEF new, old
<1>3. CASE SameStatus(new, old) /\ SameWork(new, old)
  BY <1>1, <1>2, <1>3, KeptEndsWell DEF SameStatus, SameWork, WorkInTime, Unanswered, new, old
<1>4. CASE MovesOn(new, old)
  <2>1. /\ new.status # "CANCELLED" /\ old.status \notin Terminal
        /\ SameWork(new, old)
    BY <1>4, Transitions DEF MovesOn
  <2>2. WorkInTime(new)
    BY <1>1, <1>4, <2>1, Transitions, StatusNames DEF MovesOn, WorkInTime, IsJob, SameWork, old
  <2> QED
    BY <1>1, <1>2, <2>1, <2>2, KeptEndsWell DEF SameWork, Unanswered, Terminal, new, old
<1>5. CASE ConcernsCancel(new, old)
  <2>1. /\ old.status \in JobStatuses /\ new.status = old.status
        /\ new.completed = old.completed /\ ~old.completed /\ new.resends = 0
    BY <1>5 DEF ConcernsCancel, IsJob, SameStatus, WorkInTime, old
  <2> QED
    BY <1>1, <1>2, <2>1, KeptEndsWell DEF WorkInTime, JobStatuses, new, old
<1> QED
  BY <1>3, <1>4, <1>5 DEF Uncounted, Stays, AsksToMove, Moves, new, old

\* A job taken, and a job done.
LEMMA JobEndsWell ==
  ASSUME TypeOK, NEW b \in Bookings, WorkInTime(booking[b]), EndsWell(b),
         IsAccepted(b) \/ IsCompleted(b)
  PROVE  WorkInTime(booking'[b]) /\ EndsWell(b)'
<1>1. RecordKept(b)
  BY DEF IsAccepted, IsCompleted
<1>2. CASE IsAccepted(b)
  <2>1. WorkInTime(booking'[b]) /\ ~booking'[b].completed
    BY <1>2 DEF IsAccepted, WorkInTime, SameWork, JobStatuses, BilledStatuses
  <2> QED
    BY <1>1, <1>2, <2>1, KeptEndsWell DEF IsAccepted, SameWork
<1>3. CASE IsCompleted(b)
  <2>1. WorkInTime(booking'[b]) /\ ~Unanswered(booking'[b])
    BY <1>3 DEF IsCompleted, Unanswered, WorkInTime, JobStatuses
  <2> QED
    BY <1>1, <1>3, <2>1, KeptEndsWell DEF IsCompleted
<1> QED
  BY <1>2, <1>3

\* A booking put on record for the first time is charged for the first time.
LEMMA EndedEndsWell ==
  ASSUME TypeOK, NEW b \in Bookings, WorkInTime(booking[b]), EndsWell(b), EndsOnRecord(b)
  PROVE  WorkInTime(booking'[b]) /\ EndsWell(b)'
<1>1. PICK reason \in Reasons, review \in {"NOT_APPLICABLE", "PENDING_REVIEW", "APPROVED"} :
        /\ CreateCancellation(b, reason, review)
        /\ ChargedFor(b, review)
        /\ reason = "AGREED" => ~booking[b].escalated
  BY DEF EndsOnRecord
<1>2. /\ cancellation[b] = None
      /\ cancellation'[b] = [reason |-> reason, review |-> review]
      /\ charge[b].penalties = 0 /\ charge[b].compensations = 0
  BY <1>1 DEF CreateCancellation, TypeOK, EndsWell
<1>3. cancellation'[b].reason = reason /\ cancellation'[b].review = review
  BY <1>2
<1>4. cancellation'[b] # None
  <2>1. [reason |-> reason, review |-> review] \in CancellationRow
    BY DEF CancellationRow, Reasons
  <2> QED
    BY <1>2, <2>1, NoneAssumption
<1>5. /\ review = "APPROVED" => charge'[b].penalties = 0 /\ charge'[b].compensations = 1
      /\ review = "PENDING_REVIEW" => charge'[b].penalties = 0 /\ charge'[b].compensations = 0
      /\ review = "NOT_APPLICABLE" =>
           charge'[b].penalties \in {0, 1} /\ charge'[b].compensations = 0
  BY <1>1, <1>2, ChargeWritten DEF ChargedFor
<1>6. Verdict(b)' = review
  BY <1>3, <1>4 DEF Verdict
<1>7. /\ booking'[b].status = "CANCELLED"
      /\ booking'[b].escalated = booking[b].escalated
      /\ booking'[b].completed => ~Unanswered(booking'[b])
      /\ booking'[b].resends # 0 => booking'[b].completed
  BY DEF EndsOnRecord, Cancelled, SameWork, Unanswered, EndsWell, WorkInTime
<1>8. WorkInTime(booking'[b])
  BY <1>7 DEF WorkInTime, JobStatuses, BilledStatuses
<1> QED
  BY <1>1, <1>3, <1>4, <1>5, <1>6, <1>7, <1>8 DEF EndsWell

\* A proof is judged once: what it is judged to be is what it costs.
LEMMA JudgedEndsWell ==
  ASSUME TypeOK, NEW b \in Bookings, EndsWell(b), IsJudged(b)
  PROVE  EndsWell(b)'
<1>1. PICK outcome \in {"APPROVED", "REJECTED"} : ClaimReview(b, outcome) /\ ChargedFor(b, outcome)
  BY DEF IsJudged
<1>2. Verdict(b) = "PENDING_REVIEW"
  BY <1>1 DEF ClaimReview
<1>3. cancellation[b] # None /\ cancellation[b] \in CancellationRow
  BY <1>2, RowsTyped DEF Verdict
<1> DEFINE row == [cancellation[b] EXCEPT !.review = outcome]
<1>4. row \in CancellationRow /\ row.review = outcome /\ row.reason = cancellation[b].reason
  BY <1>3 DEF CancellationRow
<1>5. cancellation'[b] = row
  BY <1>1 DEF ClaimReview, TypeOK
<1> HIDE DEF row
<1>6. cancellation'[b] # None /\ Verdict(b)' = outcome
  BY <1>4, <1>5, NoneAssumption DEF Verdict
<1>7. charge[b].penalties = 0 /\ charge[b].compensations = 0
  BY <1>2, RowsTyped DEF EndsWell
<1>8. \/ outcome = "APPROVED" /\ charge'[b].penalties = 0 /\ charge'[b].compensations = 1
      \/ outcome = "REJECTED" /\ charge'[b].penalties = 1 /\ charge'[b].compensations = 0
  BY <1>1, <1>7, ChargeWritten DEF ChargedFor
<1>9. booking'[b] = booking[b]
  BY DEF IsJudged
<1> QED
  BY <1>3, <1>4, <1>5, <1>6, <1>8, <1>9 DEF EndsWell

\* What a step does to the requests to move a booking: none is rewritten.
LEMMA RequestsKept ==
  ASSUME TypeOK, LifeStep, NEW b \in Bookings
  PROVE  \/ SameRequest(booking'[b], booking[b])
         \/ booking'[b].request = booking[b].request + 1
<1>1. ASSUME NEW c \in Bookings, LifeStepOf(c)
      PROVE  \/ SameRequest(booking'[b], booking[b])
             \/ booking'[b].request = booking[b].request + 1
  <2>1. CASE b # c
    BY <1>1, <2>1 DEF LifeStepOf, Undisturbed, SameRequest
  <2>2. CASE b = c /\ Uncounted(b)
    BY <2>2 DEF Uncounted, Stays, MovesOn, ConcernsCancel, AsksToMove, Moves
  <2>3. CASE b = c /\ ~Uncounted(b)
    BY <1>1, <2>3
       DEF LifeStepOf, IsAccepted, IsCompleted, EndsOnRecord, Cancelled, IsJudged, SameRequest
  <2> QED
    BY <2>1, <2>2, <2>3
<1> QED
  BY <1>1 DEF LifeStep, Undisturbed, SameRequest

\* What calls have seen stays in time.
LEMMA SeenStays ==
  ASSUME Sound, Typed', LifeStep, [Next]_vars, NEW p \in Calls
  PROVE  SeenInTime(call'[p], booking')
<1> DEFINE c == call[p]
           n == call'[p]
<1>1. TypeOK /\ SeenInTime(c, booking)
  BY DEF Sound, Typed, LifeInv
<1>2. CASE n.op \notin CancellingOps \cup MovingOps
  BY <1>2 DEF SeenInTime
<1>3. ASSUME n.b = c.b, n.seen = c.seen,
             n.op \in CancellingOps => c.op \in CancellingOps,
             n.op \in MovingOps => c.op \in MovingOps
      PROVE  SeenInTime(n, booking')
  <2>1. CASE n.op \notin MovingOps
    BY <1>1, <1>3, <2>1 DEF SeenInTime
  <2>2. CASE n.op \in MovingOps
    <3>1. c.b \in Bookings /\ c.seen \in Row
      BY <1>1, <1>3, <2>2, CallInFlight, SeeingOps
    <3>2. /\ c.seen.request \in Nat
          /\ booking[c.b].request \in Nat /\ booking'[c.b].request \in Nat
      BY <1>1, <3>1, ConstantsAssumption DEF Typed, TypeOK, Row
    <3>3. \/ SameRequest(booking'[c.b], booking[c.b])
          \/ booking'[c.b].request = booking[c.b].request + 1
      BY <1>1, <3>1, RequestsKept
    <3>4. n.op \notin CancellingOps
      BY <2>2, SeeingOps
    <3> QED
      BY <1>1, <1>3, <2>2, <3>2, <3>3, <3>4 DEF SeenInTime, SameRequest
  <2> QED
    BY <2>1, <2>2
<1>4. CASE call'[p] = call[p]
  BY <1>3, <1>4
<1>5. ASSUME NEW q \in Calls, CallWritten(q)
      PROVE  SeenInTime(n, booking')
  <2>1. CASE q # p \/ UNCHANGED call
    BY <1>1, <1>4, <1>5, <2>1 DEF CallWritten, Begins, Begin, GoesOn, Continue, Return, TypeOK
  <2>2. CASE Return(p)
    BY <1>1, <1>2, <2>2, SeeingOps DEF Return, Idle, TypeOK
  <2>3. CASE GoesOn(p)
    BY <1>1, <1>3, <2>3 DEF GoesOn, Continue, TypeOK
  <2>4. CASE Begins(p)
    <3>1. PICK op, b, d :
            /\ Begin(p, op, b, d)
            /\ op \in CancellingOps =>
                 b \in Bookings /\ booking[b].status \in {"PENDING"} \cup JobStatuses
            /\ op \in MovingOps => op = "move" /\ b \in Bookings /\ UNCHANGED booking
      BY <2>4 DEF Begins
    <3>2. n = [op |-> op, b |-> b, d |-> d,
               seen |-> IF op \in ConsultingOps THEN booking[b] ELSE NoRow]
      BY <1>1, <3>1 DEF Begin, TypeOK
    <3>3. n.op = op /\ n.b = b /\ (op \in ConsultingOps => n.seen = booking[b])
      BY <3>2
    <3> HIDE DEF n
    <3>4. CASE op \in CancellingOps
      <4>1. n.seen = booking[b] /\ ~booking[b].completed
        BY <3>1, <3>3, <3>4 DEF CancellingOps, ConsultingOps, Sound, LifeInv, WorkInTime
      <4> QED
        BY <3>3, <3>4, <4>1, SeeingOps DEF SeenInTime
    <3>5. CASE op \in MovingOps
      <4>1. n.seen = booking'[b] /\ booking'[b].request \in Nat
        BY <1>1, <3>1, <3>3, <3>5, RowsTyped DEF ConsultingOps
      <4> QED
        BY <3>3, <3>5, <4>1, SeeingOps DEF SeenInTime
    <3> QED
      BY <3>3, <3>4, <3>5 DEF SeenInTime
  <2> QED
    BY <1>5, <2>1, <2>2, <2>3, <2>4 DEF CallWritten
<1> QED
  BY <1>4, <1>5, StepCalls

\* The invariant holds at first.
LEMMA InitLives == Init => LifeInv
<1> SUFFICES ASSUME Init PROVE LifeInv
  OBVIOUS
<1>1. ASSUME NEW b \in Bookings
      PROVE  WorkInTime(booking[b]) /\ EndsWell(b)
  <2>1. /\ booking[b].status = "NONE" /\ booking[b].completed = FALSE
        /\ booking[b].resends = 0 /\ cancellation[b] = None
        /\ charge[b].penalties = 0 /\ charge[b].compensations = 0
    BY <1>1 DEF Init, NoRow
  <2> QED
    BY <2>1 DEF WorkInTime, EndsWell, Verdict, BilledStatuses
<1>2. \A p \in Calls : call[p].op \notin CancellingOps \cup MovingOps
  BY SeeingOps DEF Init, Idle
<1> QED
  BY <1>1, <1>2 DEF LifeInv, SeenInTime

\* Every step keeps it.
LEMMA StepEndsWell ==
  ASSUME CommitmentInv, LifeInv, [Next]_vars
  PROVE  LifeInv'
<1>1. Sound /\ TypeOK
  BY DEF CommitmentInv, Sound, Typed
<1>2. Typed'
  BY StepCommits DEF CommitmentInv, Typed
<1>3. LifeStep
  BY <1>1, StepLives
<1>4. ASSUME NEW c \in Bookings
      PROVE  WorkInTime(booking'[c]) /\ EndsWell(c)'
  <2>1. WorkInTime(booking[c]) /\ EndsWell(c)
    BY DEF LifeInv
  <2>2. CASE Undisturbed(c)
    BY <2>1, <2>2 DEF Undisturbed, RecordKept, EndsWell, Verdict
  <2>3. CASE Uncounted(c)
    BY <1>1, <2>1, <2>3, UncountedEndsWell
  <2>4. CASE IsAccepted(c) \/ IsCompleted(c)
    BY <1>1, <2>1, <2>4, JobEndsWell
  <2>5. CASE EndsOnRecord(c)
    BY <1>1, <2>1, <2>5, EndedEndsWell
  <2>6. CASE IsJudged(c)
    BY <1>1, <2>1, <2>6, JudgedEndsWell DEF IsJudged
  <2> QED
    BY <1>3, <2>2, <2>3, <2>4, <2>5, <2>6 DEF LifeStep, LifeStepOf
<1>5. ASSUME NEW p \in Calls
      PROVE  SeenInTime(call'[p], booking')
  BY <1>1, <1>2, <1>3, SeenStays
<1> QED
  BY <1>4, <1>5 DEF LifeInv

\* What a call relies on stays true until it writes, and what is written fits
\* the records: the invariant from which the theorems below follow.
THEOREM LivesHold == Spec => [](CommitmentInv /\ LifeInv)
BY CommitmentsHold, InitLives, StepEndsWell, PTL DEF Spec

-----------------------------------------------------------------------------
(* What follows.                                                           *)

\* Exactly the CANCELLED bookings have a Cancellation row, whoever raced to
\* end them.
THEOREM AlwaysOnRecord == Spec => []CancelledOnRecord
<1>1. LifeInv => CancelledOnRecord
  BY DEF LifeInv, EndsWell, CancelledOnRecord
<1> QED
  BY <1>1, LivesHold, PTL

\* A cancellation costs the worker or pays him once at most, and as it was
\* judged, though several admins review it at once.
THEOREM AlwaysChargedAsJudged == Spec => []ChargedAsJudged
<1>1. LifeInv => ChargedAsJudged
  BY DEF LifeInv, EndsWell, ChargedAsJudged
<1> QED
  BY <1>1, LivesHold, PTL

\* No job is completed over a client's unanswered request to cancel it, though
\* the request may come between the worker's read and his write.
THEOREM NeverInvoicedOverRequest == Spec => []NoInvoiceOverCancelRequest
<1>1. LifeInv => NoInvoiceOverCancelRequest
  BY DEF LifeInv, EndsWell, NoInvoiceOverCancelRequest
<1> QED
  BY <1>1, LivesHold, PTL

\* No booking whose cancel request has gone to an admin is cancelled by the
\* worker's consent.
THEOREM NeverAgreedWhenEscalated == Spec => []EscalatedNotAgreed
<1>1. LifeInv => EscalatedNotAgreed
  BY DEF LifeInv, EndsWell, EscalatedNotAgreed
<1> QED
  BY <1>1, LivesHold, PTL

\* A start that changes was asked for: the call that writes it answers the
\* request that is open, not one it has seen before.
LEMMA StepMovesByAgreement ==
  ASSUME Sound, [Next]_vars, NEW b \in Bookings, Moved(b)
  PROVE  /\ booking[b].pending /\ booking'[b].start = booking[b].newStart
         /\ booking[b].status = "ACCEPTED" /\ ~booking[b].arrived
<1>1. LifeStep
  BY StepLives
<1>2. booking[b].status # "NONE" /\ booking'[b].start # booking[b].start
  BY DEF Moved
<1>3. ~Undisturbed(b)
  BY <1>2 DEF Undisturbed
<1>4. LifeStepOf(b)
  BY <1>1, <1>3 DEF LifeStep, LifeStepOf
<1>5. ~(IsAccepted(b) \/ IsCompleted(b) \/ EndsOnRecord(b) \/ IsJudged(b))
  BY <1>2 DEF IsAccepted, IsCompleted, EndsOnRecord, Cancelled, IsJudged, SameJob
<1>6. Moves(b)
  BY <1>2, <1>4, <1>5
     DEF LifeStepOf, Uncounted, Stays, MovesOn, ConcernsCancel, AsksToMove, SameJob
<1>7. PICK p \in Calls :
        /\ call[p].op = "moveLocked" /\ call[p].b = b
        /\ call[p].seen.request = booking[b].request
        /\ booking'[b].start = call[p].seen.newStart
  BY <1>6 DEF Moves
<1>8. call[p].seen.newStart = booking[b].newStart
  BY <1>7, SeeingOps DEF Sound, LifeInv, SeenInTime
<1> QED
  BY <1>6, <1>7, <1>8 DEF Moves

\* A booking's start moves only to what the request now open asks for, before
\* the worker has checked in, whatever was withdrawn and asked for anew while
\* the answer was on its way.
THEOREM AlwaysMovesByAgreement == Spec => MovesByAgreement
<1>1. CommitmentInv /\ LifeInv => Sound
  BY DEF CommitmentInv, Sound, Typed
<1>2. ASSUME Sound, [Next]_vars
      PROVE  [\A b \in Bookings : Moved(b) =>
                /\ booking[b].pending /\ booking'[b].start = booking[b].newStart
                /\ booking[b].status = "ACCEPTED" /\ ~booking[b].arrived]_vars
  BY <1>2, StepMovesByAgreement
<1> QED
  BY <1>1, <1>2, LivesHold, PTL DEF Spec, MovesByAgreement

\* The bookings before a step and after it, as the lifecycle sees them.
LEMMA StepImplements ==
  ASSUME Sound, [Next]_vars
  PROVE  [Lifecycle!Next]_([b \in Bookings |-> booking[b].status])
<1> DEFINE status == [b \in Bookings |-> booking[b].status]
<1>1. LifeStep
  BY StepLives
<1>2. CASE \A b \in Bookings : booking'[b].status = booking[b].status
  BY <1>2
<1>3. ASSUME NEW b \in Bookings,
             booking'[b].status \in Lifecycle!ValidTransitions(booking[b].status),
             \A c \in Bookings \ {b} : booking'[c].status = booking[c].status
      PROVE  Lifecycle!Next
  <2>1. booking'[b].status \in Lifecycle!Statuses
    BY <1>3, RowFields, Transitions, StatusNames
       DEF Sound, Lifecycle!Statuses, Lifecycle!Terminal
  <2>2. PICK to \in Lifecycle!Statuses : to = booking'[b].status
    BY <2>1
  <2>3. status' = [status EXCEPT ![b] = to]
    BY <1>3, <2>2
  <2>4. Lifecycle!Move(b, to)
    BY <1>3, <2>2, <2>3 DEF Lifecycle!Move
  <2> QED
    BY <2>4 DEF Lifecycle!Next
<1>4. ASSUME NEW b \in Bookings, LifeStepOf(b)
      PROVE  \/ booking'[b].status = booking[b].status
             \/ booking'[b].status \in Lifecycle!ValidTransitions(booking[b].status)
  <2>1. CASE Uncounted(b)
    BY <2>1 DEF Uncounted, Stays, MovesOn, ConcernsCancel, AsksToMove, Moves, SameStatus
  <2>2. CASE IsAccepted(b) \/ IsCompleted(b)
    BY <2>2, Transitions DEF IsAccepted, IsCompleted
  <2>3. CASE EndsOnRecord(b)
    BY <2>3, RowFields, Transitions, StatusNames DEF EndsOnRecord, Cancelled, Sound
  <2>4. CASE IsJudged(b)
    BY <2>4 DEF IsJudged
  <2> QED
    BY <1>4, <2>1, <2>2, <2>3, <2>4 DEF LifeStepOf
<1>5. ASSUME NEW b \in Bookings, LifeStepOf(b)
      PROVE  [Lifecycle!Next]_status
  <2>1. \A c \in Bookings \ {b} : booking'[c].status = booking[c].status
    BY <1>5 DEF LifeStepOf, Undisturbed
  <2>2. CASE booking'[b].status = booking[b].status
    BY <1>2, <2>1, <2>2
  <2>3. CASE booking'[b].status # booking[b].status
    BY <1>3, <1>4, <1>5, <2>1, <2>3
  <2> QED
    BY <2>2, <2>3
<1> QED
  BY <1>1, <1>2, <1>5 DEF LifeStep, Undisturbed

\* Every status write of every handler, sweep and payment path, whatever it
\* read before, is a move of bookingStateMachine.ts's table.
THEOREM ImplementsLifecycle == Spec => FollowsLifecycle
<1>1. Init => Lifecycle!Init
  BY DEF Init, NoRow, Lifecycle!Init
<1>2. CommitmentInv /\ LifeInv => Sound
  BY DEF CommitmentInv, Sound, Typed
<1> QED
  BY <1>1, <1>2, StepImplements, LivesHold, PTL DEF Spec, FollowsLifecycle, Lifecycle!Spec
=============================================================================
