--------------------------- MODULE BookingProofs ----------------------------
(***************************************************************************)
(* What holds of Booking for every set of bookings, workers, calls and     *)
(* start times.  The steps fall in two groups: the few that commit a       *)
(* worker to a start time, proved one by one, and all the others, of which *)
(* it is enough to know that they leave the commitments alone.             *)
(***************************************************************************)
EXTENDS Booking, TLAPS

-----------------------------------------------------------------------------
(* Writes of rows.                                                         *)

\* A call that is not idle holds a row it read, of a booking.
LEMMA CallInFlight ==
  ASSUME TypeOK, NEW p \in Calls, call[p].op # "idle"
  PROVE  /\ call[p] \in CallRecord
         /\ call[p].b \in Bookings
         /\ call[p].seen \in Row
BY DEF TypeOK, CallRecord, Idle

\* The bookings stay with their workers and start times, and no job is added.
SameCommitments ==
  \A b \in Bookings :
    /\ booking'[b].worker = booking[b].worker
    /\ booking'[b].start = booking[b].start
    /\ booking'[b].status = "NONE" <=> booking[b].status = "NONE"
    /\ booking'[b].status = "PENDING" => booking[b].status = "PENDING"
    /\ booking'[b].status \in JobStatuses => booking[b].status \in JobStatuses

\* No call begins or goes on to commit a worker, and none loses its lock.
SameCommitters ==
  \A p \in Calls :
    call'[p].op \in CommittingOps =>
      /\ call'[p] = call[p]
      /\ \A w \in Workers : lock[w] = p => lock'[w] = p

\* Dispute rows keep their bookings, and calls the disputes they are about.
DisputesKept ==
  /\ dispute' \in [Disputes -> DisputeRow]
  /\ \A d \in Disputes :
       /\ dispute[d].status # "FREE" => dispute'[d].status # "FREE"
       /\ dispute'[d].status # "FREE" => dispute'[d].booking \in Bookings

BookingsKept == booking' \in [Bookings -> Row] /\ SameCommitments

CallsKept ==
  /\ lock' \in [Workers -> Calls \cup {None}]
  /\ call' \in [Calls -> CallRecord \cup {Idle}]
  /\ \A p \in Calls :
       call'[p].op \in DisputeOps =>
         call'[p].d \in Disputes /\ dispute[call'[p].d].status # "FREE"
  /\ SeenCancellable'
  /\ SameCommitters

Typed == TypeOK /\ DisputesPlaced /\ SeenCancellable

Quiet == Typed' /\ SameCommitments /\ SameCommitters

\* A step that keeps bookings, disputes and calls, and types the rest, is quiet.
LEMMA KeptIsQuiet ==
  ASSUME BookingsKept, DisputesKept, CallsKept,
         cancellation' \in [Bookings -> CancellationRow \cup {None}],
         charge' \in [Bookings -> ChargeRow],
         activeJobs' \in [Workers -> Int],
         now' \in Times
  PROVE  Quiet
BY DEF BookingsKept, DisputesKept, CallsKept, Quiet, Typed, TypeOK, DisputesPlaced

\* A row's fields other than worker and start are assigned.
LEMMA UpdateQuiet ==
  ASSUME TypeOK, NEW b \in Bookings, NEW r \in Row, UpdateBooking(b, r),
         r.worker = booking[b].worker, r.start = booking[b].start,
         r.status = booking[b].status
  PROVE  BookingsKept
BY DEF TypeOK, UpdateBooking, BookingsKept, SameCommitments

\* A row of an existing booking moves on to a status that adds no job.
LEMMA UpdateMovesOn ==
  ASSUME TypeOK, NEW b \in Bookings, NEW r \in Row, UpdateBooking(b, r),
         r.worker = booking[b].worker, r.start = booking[b].start,
         r.status \notin {"NONE", "PENDING"},
         booking[b].status # "NONE",
         r.status \in JobStatuses => booking[b].status \in JobStatuses
  PROVE  BookingsKept
BY DEF TypeOK, UpdateBooking, BookingsKept, SameCommitments

\* A status that makes no job of a booking that is none keeps bookings.
LEMMA SetStatusMovesOn ==
  ASSUME TypeOK, NEW b \in Bookings, NEW s \in Statuses \ {"PENDING"}, SetStatus(b, s),
         booking[b].status # "NONE",
         s \in JobStatuses => booking[b].status \in JobStatuses
  PROVE  BookingsKept
<1> DEFINE r == [booking[b] EXCEPT !.status = s]
<1>1. booking[b] \in Row
  BY DEF TypeOK
<1>2. r \in Row /\ r.worker = booking[b].worker /\ r.start = booking[b].start /\ r.status = s
  BY <1>1 DEF Row
<1>3. s \notin {"NONE", "PENDING"}
  BY DEF Statuses, JobStatuses, BilledStatuses, Terminal
<1>4. UpdateBooking(b, r)
  BY DEF SetStatus
<1> HIDE DEF r
<1> QED
  BY <1>2, <1>3, <1>4, UpdateMovesOn

\* A cancelled row also drops its visit.
LEMMA CancelMovesOn ==
  ASSUME TypeOK, NEW b \in Bookings, booking[b].status # "NONE",
         UpdateBooking(b, [booking[b] EXCEPT !.status = "CANCELLED", !.visit = FALSE])
  PROVE  BookingsKept
<1> DEFINE r == [booking[b] EXCEPT !.status = "CANCELLED", !.visit = FALSE]
<1>1. booking[b] \in Row
  BY DEF TypeOK
<1>2. /\ r \in Row /\ r.worker = booking[b].worker /\ r.start = booking[b].start
      /\ r.status = "CANCELLED"
  BY <1>1 DEF Row, Statuses, Terminal
<1>3. UpdateBooking(b, r)
  OBVIOUS
<1> HIDE DEF r
<1> QED
  BY <1>2, <1>3, UpdateMovesOn DEF JobStatuses

\* Nothing about bookings is written.
LEMMA SameBookings ==
  ASSUME TypeOK, UNCHANGED booking
  PROVE  BookingsKept
BY DEF TypeOK, BookingsKept, SameCommitments

\* Nothing about calls is written.
LEMMA SameCalls ==
  ASSUME Typed, UNCHANGED <<lock, call>>
  PROVE  CallsKept
BY DEF Typed, TypeOK, DisputesPlaced, SeenCancellable, SameCommitters, CallsKept

\* The row of a booking not made yet has the type of a row.
LEMMA NoRowIsRow == NoRow \in Row
BY ConstantsAssumption DEF NoRow, Row

\* A call that begins with a copy of the row is typed.
LEMMA BeginTyped ==
  ASSUME TypeOK, NEW p \in Calls, NEW op \in Ops, NEW b \in Bookings,
         NEW d \in Disputes \cup {None}, Begin(p, op, b, d)
  PROVE  /\ call' \in [Calls -> CallRecord \cup {Idle}]
         /\ call'[p] \in CallRecord
         /\ call'[p].op = op /\ call'[p].b = b /\ call'[p].d = d
         /\ op \in ConsultingOps => call'[p].seen = booking[b]
         /\ \A q \in Calls \ {p} : call'[q] = call[q]
<1>1. booking[b] \in Row /\ NoRow \in Row
  BY NoRowIsRow DEF TypeOK
<1> QED
  BY <1>1 DEF Begin, TypeOK, CallRecord

\* A call begins that will commit nobody.
LEMMA BeginQuiet ==
  ASSUME Typed, NEW p \in Calls, NEW op \in Ops \ CommittingOps, NEW b \in Bookings,
         NEW d \in Disputes \cup {None}, Begin(p, op, b, d), UNCHANGED lock,
         op \in DisputeOps => d \in Disputes /\ dispute[d].status # "FREE",
         op \in CancellingOps => booking[b].status \in {"PENDING"} \cup JobStatuses
  PROVE  CallsKept
<1>1. TypeOK
  BY DEF Typed
<1>2. /\ call' \in [Calls -> CallRecord \cup {Idle}]
      /\ call'[p].op = op /\ call'[p].d = d
      /\ op \in ConsultingOps => call'[p].seen = booking[b]
      /\ \A q \in Calls \ {p} : call'[q] = call[q]
  BY <1>1, BeginTyped
<1>3. CancellingOps \subseteq ConsultingOps
  BY DEF CancellingOps, ConsultingOps
<1>4. SeenCancellable'
  BY <1>2, <1>3 DEF Typed, SeenCancellable
<1> QED
  BY <1>1, <1>2, <1>4 DEF Typed, TypeOK, DisputesPlaced, SameCommitters, CallsKept

\* A call that goes on to a step that commits nobody is kept.
LEMMA ContinueQuiet ==
  ASSUME Typed, NEW p \in Calls, NEW op \in Ops \ CommittingOps,
         call[p].op # "idle", Continue(p, op), UNCHANGED lock,
         op \in DisputeOps => call[p].op \in DisputeOps,
         op \notin CancellingOps
  PROVE  CallsKept
<1> DEFINE c == [call[p] EXCEPT !.op = op]
<1>1. TypeOK /\ call[p] \in CallRecord
  BY CallInFlight DEF Typed
<1>2. c \in CallRecord /\ c.op = op /\ c.d = call[p].d
  BY <1>1 DEF CallRecord
<1>3. call' = [call EXCEPT ![p] = c]
  BY DEF Continue
<1> HIDE DEF c
<1>4. call'[p] = c /\ \A q \in Calls \ {p} : call'[q] = call[q]
  BY <1>1, <1>3 DEF TypeOK
<1>5. SeenCancellable'
  BY <1>2, <1>4 DEF Typed, SeenCancellable
<1> QED
  BY <1>1, <1>2, <1>3, <1>4, <1>5 DEF Typed, TypeOK, DisputesPlaced, SameCommitters, CallsKept

\* A call that returns is kept.
LEMMA ReturnQuiet ==
  ASSUME Typed, NEW p \in Calls, Return(p), UNCHANGED lock \/ Unlock(p)
  PROVE  CallsKept
<1>1. call' = [call EXCEPT ![p] = Idle] /\ Idle.op = "idle"
  BY DEF Return, Idle
<1>2. "idle" \notin CommittingOps \cup DisputeOps \cup CancellingOps
  BY DEF CommittingOps, LockedOps, DisputeOps, CancellingOps
<1>3. call'[p].op = "idle" /\ \A q \in Calls \ {p} : call'[q] = call[q]
  BY <1>1 DEF Typed, TypeOK
<1>4. lock' \in [Workers -> Calls \cup {None}]
  BY DEF Typed, TypeOK, Unlock
<1>5. \A q \in Calls \ {p}, w \in Workers : lock[w] = q => lock'[w] = q
  BY DEF Typed, TypeOK, Unlock
<1>6. call' \in [Calls -> CallRecord \cup {Idle}]
  BY <1>1 DEF Typed, TypeOK
<1>7. SameCommitters
  BY <1>2, <1>3, <1>5 DEF SameCommitters
<1>8. SeenCancellable'
  BY <1>2, <1>3 DEF Typed, SeenCancellable
<1> QED
  BY <1>2, <1>3, <1>4, <1>6, <1>7, <1>8 DEF Typed, DisputesPlaced, CallsKept

\* Disputes left alone stay placed.
LEMMA SameDisputes ==
  ASSUME Typed, UNCHANGED dispute
  PROVE  DisputesKept
BY DEF Typed, TypeOK, DisputesPlaced, DisputesKept

\* A guarded write that finds no row changes nothing but its call.
LEMMA ConflictQuiet ==
  ASSUME Typed, NEW p \in Calls, Conflict(p), UNCHANGED lock \/ Unlock(p)
  PROVE  Quiet
<1>1. Return(p) /\ UNCHANGED <<booking, dispute>> /\ TypeOK
  BY DEF Conflict, Typed
<1>2. CallsKept /\ DisputesKept /\ BookingsKept
  BY <1>1, ReturnQuiet, SameBookings, SameDisputes
<1> QED
  BY <1>1, <1>2, KeptIsQuiet DEF Conflict, TypeOK

\* The other rows.
LEMMA CreateDisputeKept ==
  ASSUME Typed, NEW b \in Bookings, NEW overdue \in BOOLEAN, CreateDispute(b, overdue)
  PROVE  DisputesKept
<1>1. PICK d \in Disputes :
        dispute' = [dispute EXCEPT ![d] = [booking |-> b, status |-> "OPEN", overdue |-> overdue]]
  BY DEF CreateDispute
<1>2. [booking |-> b, status |-> "OPEN", overdue |-> overdue] \in DisputeRow
  BY DEF DisputeRow
<1> QED
  BY <1>1, <1>2 DEF Typed, TypeOK, DisputesPlaced, DisputesKept

\* A dispute opened or joined keeps disputes typed and placed.
LEMMA OpenOrJoinKept ==
  ASSUME Typed, NEW b \in Bookings, OpenOrJoinDisputeTx(b)
  PROVE  DisputesKept
BY CreateDisputeKept, SameDisputes DEF OpenOrJoinDisputeTx

\* A dispute given another status keeps its type and its booking.
LEMMA DisputeStatusTyped ==
  ASSUME NEW r \in DisputeRow, NEW s \in {"OPEN", "UNDER_REVIEW", "RESOLVED"}
  PROVE  /\ [r EXCEPT !.status = s] \in DisputeRow
         /\ [r EXCEPT !.status = s].status = s
         /\ [r EXCEPT !.status = s].booking = r.booking
BY DEF DisputeRow

\* Only disputes in use are closed.
LEMMA CloseDisputesKept ==
  ASSUME Typed, NEW ds, CloseDisputes(ds),
         \A d \in Disputes : d \in ds => dispute[d].status # "FREE"
  PROVE  DisputesKept
<1>1. \A d \in Disputes : dispute[d] \in DisputeRow
  BY DEF Typed, TypeOK
<1>2. dispute' = [d \in Disputes |->
                   IF d \in ds THEN [dispute[d] EXCEPT !.status = "RESOLVED"] ELSE dispute[d]]
  BY DEF CloseDisputes
<1> QED
  BY <1>1, <1>2, DisputeStatusTyped DEF Typed, DisputesPlaced, DisputesKept

\* The job count stays an integer.
LEMMA JobEndsTyped ==
  ASSUME TypeOK, NEW b \in Bookings, JobEnds(b) \/ UNCHANGED activeJobs
  PROVE  activeJobs' \in [Workers -> Int]
BY DEF TypeOK, JobEnds

\* A cancellation on record is typed.
LEMMA CreateCancellationTyped ==
  ASSUME TypeOK, NEW b \in Bookings,
         NEW reason \in {"CLIENT", "WORKER", "ADMIN", "AGREED", "WORKER_NO_SHOW", "NO_RESPONSE"},
         NEW review \in {"NOT_APPLICABLE", "PENDING_REVIEW", "APPROVED", "REJECTED"},
         CreateCancellation(b, reason, review)
  PROVE  cancellation' \in [Bookings -> CancellationRow \cup {None}]
BY DEF TypeOK, CreateCancellation, CancellationRow

\* An entry of the dues keeps the charges typed.
LEMMA ChargeTyped ==
  ASSUME TypeOK, NEW b \in Bookings,
         ChargePenaltyTx(b) \/ CreditCompensationTx(b) \/ UNCHANGED charge
  PROVE  charge' \in [Bookings -> ChargeRow]
<1>1. charge[b] \in ChargeRow
  BY DEF TypeOK
<1>2. /\ [charge[b] EXCEPT !.penalties = charge[b].penalties + 1] \in ChargeRow
      /\ [charge[b] EXCEPT !.compensations = charge[b].compensations + 1] \in ChargeRow
  BY <1>1 DEF ChargeRow
<1> QED
  BY <1>2 DEF TypeOK, ChargePenaltyTx, CreditCompensationTx

\* finalizeCancellationTx keeps all types, and workers and starts.
LEMMA FinalizeKept ==
  ASSUME Typed, NEW b \in Bookings, NEW seen,
         NEW reason \in {"CLIENT", "WORKER", "ADMIN", "AGREED", "WORKER_NO_SHOW", "NO_RESPONSE"},
         NEW review \in {"NOT_APPLICABLE", "PENDING_REVIEW", "APPROVED", "REJECTED"},
         booking[b].status # "NONE", FinalizeCancellationTx(b, seen, reason, review)
  PROVE  /\ BookingsKept /\ DisputesKept
         /\ cancellation' \in [Bookings -> CancellationRow \cup {None}]
         /\ activeJobs' \in [Workers -> Int]
<1>1. BookingsKept
  BY CancelMovesOn DEF FinalizeCancellationTx, Typed
<1>2. DisputesKept
  BY CloseDisputesKept DEF FinalizeCancellationTx, OpenDisputes
<1> QED
  BY <1>1, <1>2, CreateCancellationTyped, JobEndsTyped DEF FinalizeCancellationTx, Typed

-----------------------------------------------------------------------------
(* The steps that commit nobody.                                           *)

\* A handler reads a booking and goes on.
LEMMA BeginOnly ==
  ASSUME Typed, NEW p \in Calls, NEW op \in Ops \ CommittingOps, NEW b \in Bookings,
         NEW d \in Disputes \cup {None}, Begin(p, op, b, d),
         op \in DisputeOps => d \in Disputes /\ dispute[d].status # "FREE",
         op \in CancellingOps => booking[b].status \in {"PENDING"} \cup JobStatuses,
         UNCHANGED <<booking, dispute, cancellation, charge, activeJobs, lock, now>>
  PROVE  Quiet
<1>1. CallsKept
  BY BeginQuiet
<1>2. BookingsKept /\ DisputesKept
  BY SameBookings, SameDisputes DEF Typed
<1> QED
  BY <1>1, <1>2, KeptIsQuiet DEF Typed, TypeOK

\* A booking moves on and nothing else is written but disputes.
LEMMA StatusOnly ==
  ASSUME Typed, NEW b \in Bookings, NEW s \in Statuses \ {"PENDING"}, SetStatus(b, s),
         booking[b].status # "NONE",
         s \in JobStatuses => booking[b].status \in JobStatuses,
         DisputesKept, CallsKept, UNCHANGED <<cancellation, charge, activeJobs, now>>
  PROVE  Quiet
<1>1. BookingsKept
  BY SetStatusMovesOn DEF Typed
<1> QED
  BY <1>1, KeptIsQuiet DEF Typed, TypeOK

\* Fields of a booking's row are assigned, its status, worker and start not.
LEMMA FieldsOnly ==
  ASSUME Typed, NEW b \in Bookings, NEW r \in Row, UpdateBooking(b, r),
         r.worker = booking[b].worker, r.start = booking[b].start,
         r.status = booking[b].status,
         DisputesKept, CallsKept, UNCHANGED <<cancellation, charge, activeJobs, now>>
  PROVE  Quiet
<1>1. BookingsKept
  BY UpdateQuiet DEF Typed
<1> QED
  BY <1>1, KeptIsQuiet DEF Typed, TypeOK

\* A booking is a row, and the clock shows a time.
LEMMA RowTyped ==
  ASSUME Typed, NEW b \in Bookings
  PROVE  booking[b] \in Row /\ now \in Times
BY DEF Typed, TypeOK

\* A flag of the row set or cleared leaves a row, with its worker, start and status.
LEMMA RowEdited ==
  ASSUME NEW old \in Row, NEW v \in BOOLEAN,
         NEW r, \/ r = [old EXCEPT !.asked = v]
                \/ r = [old EXCEPT !.visit = v]
                \/ r = [old EXCEPT !.escalated = v]
                \/ r = [old EXCEPT !.pending = v]
  PROVE  /\ r \in Row
         /\ r.worker = old.worker /\ r.start = old.start /\ r.status = old.status
<1>1. CASE r = [old EXCEPT !.asked = v]
  BY <1>1 DEF Row
<1>2. CASE r = [old EXCEPT !.visit = v]
  BY <1>2 DEF Row
<1>3. CASE r = [old EXCEPT !.escalated = v]
  BY <1>3 DEF Row
<1>4. CASE r = [old EXCEPT !.pending = v]
  BY <1>4 DEF Row
<1> QED
  BY <1>1, <1>2, <1>3, <1>4

\* The same of the time at which the worker reports that the client is not there.
LEMMA RowTimed ==
  ASSUME NEW old \in Row, NEW t \in Times, NEW r, r = [old EXCEPT !.notHere = t]
  PROVE  /\ r \in Row
         /\ r.worker = old.worker /\ r.start = old.start /\ r.status = old.status
BY DEF Row

\* The statuses written below are statuses.
LEMMA StatusNames ==
  /\ Statuses = {"PENDING", "DISPUTED", "ACCEPTED", "IN_PROGRESS", "PENDING_COMPLETION",
                 "AWAITING_PAYMENT", "COMPLETED", "REJECTED", "CANCELLED"}
  /\ JobStatuses = {"ACCEPTED", "IN_PROGRESS"}
  /\ BilledStatuses = {"PENDING_COMPLETION", "AWAITING_PAYMENT"}
  /\ Terminal = {"COMPLETED", "REJECTED", "CANCELLED"}
BY DEF Statuses, JobStatuses, BilledStatuses, Terminal

\* The steps named below are steps of calls that commit nobody.
LEMMA QuietOps ==
  /\ \A op \in {"arrive", "autoDecline", "complete", "resend", "invoice", "autoSettle", "overdue",
                "noShow", "refund", "review", "visit"} :
       op \in Ops \ CommittingOps /\ op \notin DisputeOps \cup CancellingOps
  /\ \A op \in CancellingOps : op \in Ops \ CommittingOps /\ op \notin DisputeOps
  /\ \A op \in DisputeOps : op \in Ops \ CommittingOps /\ op \notin CancellingOps
BY DEF Ops, CommittingOps, LockedOps, DisputeOps, CancellingOps

\* The call that completes a booking, told apart by the status it read.
LEMMA CompletingOps ==
  /\ CompletableStatuses = {"IN_PROGRESS", "DISPUTED"}
  /\ CompletingOp["IN_PROGRESS"] = "complete" /\ CompletingOp["DISPUTED"] = "resend"
  /\ \A s \in CompletableStatuses : CompletingOp[s] \in {"complete", "resend"}
BY DEF CompletingOp, CompletableStatuses

\* The row a completion writes.
CompletedRow(old, n) ==
  [old EXCEPT !.status = "PENDING_COMPLETION", !.completed = TRUE,
              !.resends = @ + n, !.visit = FALSE]

LEMMA CompletionRow ==
  ASSUME NEW old \in Row, NEW n \in {0, 1}, old.resends + n <= MaxResends,
         NEW r, r = CompletedRow(old, n)
  PROVE  /\ r \in Row /\ r.worker = old.worker /\ r.start = old.start
         /\ r.status = "PENDING_COMPLETION" /\ r.completed /\ r.resends = old.resends + n
         /\ r.asked = old.asked /\ r.escalated = old.escalated
         /\ r.arrived = old.arrived /\ r.request = old.request
         /\ r.newStart = old.newStart /\ r.pending = old.pending
<1>1. old.resends + n \in 0 .. MaxResends
  BY ConstantsAssumption DEF Row
<1>2. "PENDING_COMPLETION" \in Statuses
  BY StatusNames
<1> QED
  BY <1>1, <1>2 DEF Row, CompletedRow

\* A completion that is not refused writes that row over the status it read,
\* and counts the job down; n is 1 for one that came from a dispute.
CompletesBy(p, b, n) ==
  /\ booking[b].status = IF n = 0 THEN "IN_PROGRESS" ELSE "DISPUTED"
  /\ ~Unanswered(booking[b])
  /\ booking[b].resends + n <= MaxResends
  /\ UpdateBooking(b, CompletedRow(booking[b], n))
  /\ JobEnds(b)
  /\ Return(p) \/ Continue(p, "invoice")
  /\ UNCHANGED <<dispute, cancellation, charge, lock, now>>

LEMMA Completes ==
  ASSUME NEW p \in Calls, CompleteCommit(p), ~Conflict(p)
  PROVE  \E n \in {0, 1} : CompletesBy(p, call[p].b, n)
<1> DEFINE b == call[p].b
<1>1. PICK seen \in CompletableStatuses : CompleteCommit(p)!(seen)
  BY DEF CompleteCommit
<1>2. CASE seen = "IN_PROGRESS"
  <2>1. CompletesBy(p, b, 0)
    BY <1>1, <1>2 DEF StillMayComplete, CompletesBy, CompletedRow
  <2> QED
    BY <2>1
<1>3. CASE seen = "DISPUTED"
  <2>1. CompletesBy(p, b, 1)
    BY <1>1, <1>3 DEF StillMayComplete, CompletesBy, CompletedRow
  <2> QED
    BY <2>1
<1> QED
  BY <1>2, <1>3, CompletingOps

\* What a client does is quiet, apart from booking.
LEMMA ClientQuiet ==
  ASSUME Typed, NEW p \in Calls, NEW b \in Bookings,
         \/ ReportBookingProblem(b) \/ RequestCancel(b) \/ ClientCancel(b)
         \/ ConfirmCompletion(p, b) \/ FinalizePaidBooking(b) \/ ReportInvoice(b)
         \/ RefundPayment(p, b)
  PROVE  Quiet
<1>1. CASE ReportBookingProblem(b)
  <2>1. BookingsKept /\ CallsKept
    BY <1>1, SameBookings, SameCalls DEF ReportBookingProblem, Typed
  <2>2. DisputesKept
    BY <1>1, CreateDisputeKept DEF ReportBookingProblem
  <2> QED
    BY <1>1, <2>1, <2>2, KeptIsQuiet DEF ReportBookingProblem, Typed, TypeOK
<1>2. CASE RequestCancel(b)
  <2> DEFINE r == [booking[b] EXCEPT !.asked = TRUE]
  <2>1. /\ r \in Row /\ r.worker = booking[b].worker /\ r.start = booking[b].start
        /\ r.status = booking[b].status
    BY RowTyped, RowEdited
  <2>2. UpdateBooking(b, r)
    BY <1>2 DEF RequestCancel
  <2> HIDE DEF r
  <2>3. CallsKept /\ DisputesKept
    BY <1>2, SameCalls, SameDisputes DEF RequestCancel
  <2> QED
    BY <1>2, <2>1, <2>2, <2>3, FieldsOnly DEF RequestCancel
<1>3. CASE ClientCancel(b)
  <2>1. FinalizeCancellationTx(b, booking[b], "CLIENT", "NOT_APPLICABLE")
    BY <1>3 DEF ClientCancel
  <2>2. /\ BookingsKept /\ DisputesKept
        /\ cancellation' \in [Bookings -> CancellationRow \cup {None}]
        /\ activeJobs' \in [Workers -> Int]
    BY <1>3, <2>1, FinalizeKept DEF ClientCancel
  <2> QED
    BY <1>3, <2>2, SameCalls, KeptIsQuiet DEF ClientCancel, Typed, TypeOK
<1>4. CASE ConfirmCompletion(p, b)
  BY <1>4, BeginOnly, QuietOps DEF ConfirmCompletion
<1>5. CASE FinalizePaidBooking(b)
  <2>1. CallsKept /\ DisputesKept
    BY <1>5, SameCalls, CloseDisputesKept DEF FinalizePaidBooking, OpenDisputes
  <2> QED
    BY <1>5, <2>1, StatusOnly, StatusNames DEF FinalizePaidBooking
<1>6. CASE ReportInvoice(b)
  <2>1. CallsKept /\ DisputesKept
    BY <1>6, SameCalls, OpenOrJoinKept DEF ReportInvoice
  <2> QED
    BY <1>6, <2>1, StatusOnly, StatusNames DEF ReportInvoice
<1>7. CASE RefundPayment(p, b)
  BY <1>7, BeginOnly, QuietOps DEF RefundPayment
<1> QED
  BY <1>1, <1>2, <1>3, <1>4, <1>5, <1>6, <1>7

\* What a worker does is quiet, apart from accepting.
LEMMA WorkerQuiet ==
  ASSUME Typed, NEW p \in Calls, NEW b \in Bookings,
         \/ DeclineBooking(b) \/ WorkerCancel(p, b) \/ ArriveBooking(p, b)
         \/ ReportClientNotHere(b) \/ StartBooking(b) \/ ScheduleVisit(p, b)
         \/ CancelVisit(b) \/ EscalateCancelRequest(b) \/ AgreeToCancel(p, b)
         \/ CompleteBooking(p, b) \/ MarkCashReceived(b) \/ ReportCashNotPaid(b)
  PROVE  Quiet
<1>1. CASE DeclineBooking(b)
  BY <1>1, StatusOnly, SameCalls, SameDisputes, StatusNames DEF DeclineBooking
<1>2. CASE WorkerCancel(p, b)
  BY <1>2, BeginOnly, QuietOps DEF WorkerCancel, CancellingOps
<1>3. CASE ArriveBooking(p, b)
  BY <1>3, BeginOnly, QuietOps DEF ArriveBooking
<1>4. CASE ReportClientNotHere(b)
  <2> DEFINE r == [booking[b] EXCEPT !.notHere = now]
  <2>1. /\ r \in Row /\ r.worker = booking[b].worker /\ r.start = booking[b].start
        /\ r.status = booking[b].status
    BY RowTyped, RowTimed
  <2>2. UpdateBooking(b, r)
    BY <1>4 DEF ReportClientNotHere
  <2> HIDE DEF r
  <2> QED
    BY <1>4, <2>1, <2>2, FieldsOnly, SameCalls, SameDisputes DEF ReportClientNotHere
<1>5. CASE StartBooking(b)
  BY <1>5, StatusOnly, SameCalls, SameDisputes, StatusNames DEF StartBooking
<1>6. CASE ScheduleVisit(p, b)
  BY <1>6, BeginOnly, QuietOps DEF ScheduleVisit
<1>7. CASE CancelVisit(b)
  <2> DEFINE r == [booking[b] EXCEPT !.visit = FALSE]
  <2>1. /\ r \in Row /\ r.worker = booking[b].worker /\ r.start = booking[b].start
        /\ r.status = booking[b].status
    BY RowTyped, RowEdited
  <2>2. UpdateBooking(b, r)
    BY <1>7 DEF CancelVisit
  <2> HIDE DEF r
  <2> QED
    BY <1>7, <2>1, <2>2, FieldsOnly, SameCalls, SameDisputes DEF CancelVisit
<1>8. CASE EscalateCancelRequest(b)
  <2> DEFINE r == [booking[b] EXCEPT !.escalated = TRUE]
  <2>1. /\ r \in Row /\ r.worker = booking[b].worker /\ r.start = booking[b].start
        /\ r.status = booking[b].status
    BY RowTyped, RowEdited
  <2>2. UpdateBooking(b, r)
    BY <1>8 DEF EscalateCancelRequest
  <2> HIDE DEF r
  <2> QED
    BY <1>8, <2>1, <2>2, FieldsOnly, SameCalls, OpenOrJoinKept DEF EscalateCancelRequest
<1>9. CASE AgreeToCancel(p, b)
  BY <1>9, BeginOnly, QuietOps DEF AgreeToCancel, CancellingOps
<1>10. CASE CompleteBooking(p, b)
  BY <1>10, BeginOnly, QuietOps, CompletingOps DEF CompleteBooking, MayComplete
<1>11. CASE MarkCashReceived(b)
  BY <1>11, StatusOnly, SameCalls, SameDisputes, StatusNames DEF MarkCashReceived, SettleCashBooking
<1>12. CASE ReportCashNotPaid(b)
  BY <1>12, StatusOnly, SameCalls, OpenOrJoinKept, StatusNames DEF ReportCashNotPaid
<1> QED
  BY <1>1, <1>2, <1>3, <1>4, <1>5, <1>6, <1>7, <1>8, <1>9, <1>10, <1>11, <1>12

\* Requests to move a job are quiet, apart from accepting one.
LEMMA RescheduleQuiet ==
  ASSUME Typed, NEW b \in Bookings,
         \/ \E s \in Starts : RequestReschedule(b, s)
         \/ WithdrawRescheduleRequest(b) \/ DeclineRescheduleRequest(b)
  PROVE  Quiet
<1>1. ASSUME NEW s \in Starts, RequestReschedule(b, s)
      PROVE  Quiet
  <2> DEFINE n == booking[b].request + 1
             r == [booking[b] EXCEPT !.request = n, !.newStart = s, !.pending = TRUE]
  <2>1. booking[b] \in Row /\ booking[b].request < MaxRequests
    BY <1>1 DEF RequestReschedule, Typed, TypeOK
  <2>2. n \in 0 .. MaxRequests
    BY <2>1, ConstantsAssumption DEF Row
  <2>3. UpdateBooking(b, r)
    BY <1>1 DEF RequestReschedule
  <2> HIDE DEF n
  <2>4. /\ r \in Row /\ r.worker = booking[b].worker /\ r.start = booking[b].start
        /\ r.status = booking[b].status
    BY <2>1, <2>2 DEF Row
  <2> HIDE DEF r
  <2> QED
    BY <1>1, <2>3, <2>4, FieldsOnly, SameCalls, SameDisputes DEF RequestReschedule
<1>2. ASSUME CloseRequest(b)
      PROVE  Quiet
  <2> DEFINE r == [booking[b] EXCEPT !.pending = FALSE]
  <2>1. /\ r \in Row /\ r.worker = booking[b].worker /\ r.start = booking[b].start
        /\ r.status = booking[b].status
    BY RowTyped, RowEdited
  <2>2. UpdateBooking(b, r)
    BY <1>2 DEF CloseRequest
  <2> HIDE DEF r
  <2> QED
    BY <1>2, <2>1, <2>2, FieldsOnly, SameCalls, SameDisputes DEF CloseRequest
<1> QED
  BY <1>1, <1>2 DEF WithdrawRescheduleRequest, DeclineRescheduleRequest

\* The sweeps are quiet.
LEMMA SweepQuiet ==
  ASSUME Typed, NEW p \in Calls, NEW b \in Bookings, SweepStep(p, b)
  PROVE  Quiet
<1>1. CASE ExpirePendingBooking(b)
  <2>1. BookingsKept
    BY <1>1, SetStatusMovesOn, StatusNames DEF ExpirePendingBooking, Typed
  <2>2. cancellation' \in [Bookings -> CancellationRow \cup {None}]
    BY <1>1, CreateCancellationTyped DEF ExpirePendingBooking, Typed
  <2> QED
    BY <1>1, <2>1, <2>2, SameCalls, SameDisputes, KeptIsQuiet DEF ExpirePendingBooking, Typed, TypeOK
<1>2. CASE AutoDecline(p, b)
  BY <1>2, BeginOnly, QuietOps DEF AutoDecline
<1>3. CASE WorkerNoShow(p, b)
  BY <1>3, BeginOnly, QuietOps DEF WorkerNoShow
<1>4. CASE AutoSettleCash(p, b)
  BY <1>4, BeginOnly, QuietOps DEF AutoSettleCash
<1>5. CASE OverduePayment(p, b)
  BY <1>5, BeginOnly, QuietOps DEF OverduePayment
<1> QED
  BY <1>1, <1>2, <1>3, <1>4, <1>5 DEF SweepStep

\* What an admin does at once is quiet.
LEMMA AdminQuiet ==
  ASSUME Typed, NEW p \in Calls, AdminStep(p)
  PROVE  Quiet
<1>1. ASSUME NEW b \in Bookings, CancelBookingAdmin(b)
      PROVE  Quiet
  <2>1. BookingsKept
    BY <1>1, CancelMovesOn DEF CancelBookingAdmin, Typed
  <2>2. DisputesKept
    BY <1>1, CloseDisputesKept DEF CancelBookingAdmin, OpenDisputes
  <2>3. cancellation' \in [Bookings -> CancellationRow \cup {None}]
    BY <1>1, CreateCancellationTyped DEF CancelBookingAdmin, Typed
  <2>4. activeJobs' \in [Workers -> Int]
    BY <1>1, JobEndsTyped DEF CancelBookingAdmin, Typed
  <2>5. charge' \in [Bookings -> ChargeRow] /\ now' \in Times
    BY <1>1 DEF CancelBookingAdmin, Typed, TypeOK
  <2>6. CallsKept
    BY <1>1, SameCalls DEF CancelBookingAdmin
  <2> QED
    BY <2>1, <2>2, <2>3, <2>4, <2>5, <2>6, KeptIsQuiet
<1>2. ASSUME NEW b \in Bookings, ReviewCancellation(p, b)
      PROVE  Quiet
  BY <1>2, BeginOnly, QuietOps DEF ReviewCancellation
<1>3. ASSUME NEW d \in Disputes, IsOpen(d)
      PROVE  dispute[d].status # "FREE" /\ dispute[d].booking \in Bookings
  BY <1>3 DEF IsOpen, Typed, DisputesPlaced
<1>4. ASSUME NEW d \in Disputes, GetDisputeById(p, d)
      PROVE  Quiet
  BY <1>3, <1>4, BeginOnly, QuietOps DEF GetDisputeById, IsOpen, DisputeOps
<1>5. ASSUME NEW d \in Disputes, DismissDispute(p, d)
      PROVE  Quiet
  BY <1>3, <1>5, BeginOnly, QuietOps DEF DismissDispute, DisputeOps
<1>6. ASSUME NEW d \in Disputes, ResolveWithInvoice(p, d)
      PROVE  Quiet
  <2> DEFINE b == dispute[d].booking
             r == [booking[b] EXCEPT !.status = "PENDING_COMPLETION", !.kept = TRUE]
  <2>1. b \in Bookings /\ dispute[d].status # "FREE"
    BY <1>3, <1>6 DEF ResolveWithInvoice
  <2>2. booking[b] \in Row
    BY <2>1 DEF Typed, TypeOK
  <2>3. /\ r \in Row /\ r.worker = booking[b].worker /\ r.start = booking[b].start
        /\ r.status = "PENDING_COMPLETION"
    BY <2>2 DEF Row, Statuses, BilledStatuses
  <2>4. UpdateBooking(b, r) /\ booking[b].status = "DISPUTED"
    BY <1>6 DEF ResolveWithInvoice
  <2> HIDE DEF r
  <2>5. BookingsKept
    BY <2>1, <2>3, <2>4, UpdateMovesOn, StatusNames DEF Typed
  <2>6. DisputesKept
    BY <1>6, <2>1, CloseDisputesKept DEF ResolveWithInvoice
  <2>7. CallsKept
    <3>1. CASE booking[b].cash
      BY <1>6, <3>1, SameCalls DEF ResolveWithInvoice
    <3>2. CASE ~booking[b].cash
      <4>1. Begin(p, "invoice", b, None) /\ UNCHANGED lock
        BY <1>6, <3>2 DEF ResolveWithInvoice
      <4> QED
        BY <2>1, <4>1, BeginQuiet, QuietOps
    <3> QED
      BY <3>1, <3>2
  <2> QED
    BY <1>6, <2>5, <2>6, <2>7, KeptIsQuiet DEF ResolveWithInvoice, Typed, TypeOK
<1>7. ASSUME NEW d \in Disputes, ResolveByCancelling(d)
      PROVE  Quiet
  <2> DEFINE b == dispute[d].booking
             r == [booking[b] EXCEPT !.status = "CANCELLED", !.visit = FALSE, !.kept = TRUE]
             k == [booking[b] EXCEPT !.kept = TRUE]
  <2>1. b \in Bookings /\ dispute[d].status # "FREE"
    BY <1>3, <1>7 DEF ResolveByCancelling
  <2>2. booking[b] \in Row
    BY <2>1 DEF Typed, TypeOK
  <2>3. /\ r \in Row /\ r.worker = booking[b].worker /\ r.start = booking[b].start
        /\ r.status = "CANCELLED"
    BY <2>2 DEF Row, Statuses, Terminal
  <2>4. /\ k \in Row /\ k.worker = booking[b].worker /\ k.start = booking[b].start
        /\ k.status = booking[b].status
    BY <2>2 DEF Row
  <2>5. DisputesKept /\ CallsKept
    BY <1>7, <2>1, CloseDisputesKept, SameCalls DEF ResolveByCancelling
  <2>6. charge' \in [Bookings -> ChargeRow] /\ now' \in Times
    BY <1>7 DEF ResolveByCancelling, Typed, TypeOK
  <2>7. \/ /\ UpdateBooking(b, r) /\ booking[b].status # "NONE"
           /\ JobEnds(b) \/ UNCHANGED activeJobs
           /\ CreateCancellation(b, "ADMIN", "NOT_APPLICABLE")
        \/ UpdateBooking(b, k) /\ UNCHANGED <<activeJobs, cancellation>>
    BY <1>7, StatusNames DEF ResolveByCancelling
  <2> HIDE DEF r, k
  <2>8. BookingsKept
    BY <2>1, <2>3, <2>4, <2>7, UpdateMovesOn, UpdateQuiet, StatusNames DEF Typed
  <2>9. cancellation' \in [Bookings -> CancellationRow \cup {None}]
    BY <2>1, <2>7, CreateCancellationTyped DEF Typed, TypeOK
  <2>10. activeJobs' \in [Workers -> Int]
    BY <2>1, <2>7, JobEndsTyped DEF Typed
  <2> QED
    BY <2>5, <2>6, <2>8, <2>9, <2>10, KeptIsQuiet
<1>8. ASSUME NEW d \in Disputes, NEW op \in {"invoiceForWorker", "platformPay"},
             ResolveNonPayment(p, d, op)
      PROVE  Quiet
  BY <1>3, <1>8, BeginOnly, QuietOps DEF ResolveNonPayment, DisputeOps
<1> QED
  BY <1>1, <1>2, <1>4, <1>5, <1>6, <1>7, <1>8 DEF AdminStep

\* Which booking a call in flight is about.
LEMMA CallAbout ==
  ASSUME Typed, NEW p \in Calls, NEW op \in Ops, InFlight(p, op)
  PROVE  /\ call[p].op = op /\ op # "idle"
         /\ call[p] \in CallRecord /\ call[p].b \in Bookings /\ call[p].seen \in Row
         /\ booking[call[p].b] \in Row
<1>1. call[p].op = op /\ op # "idle"
  BY DEF InFlight, Ops
<1> QED
  BY <1>1, CallInFlight DEF Typed, TypeOK

\* The write that ends a handler begun earlier, on the client's, the worker's
\* or a sweep's behalf.
CommitQuietly(p) ==
  \/ AutoDeclineCommit(p) \/ ArriveCommit(p) \/ VisitCommit(p)
  \/ CancelAsWorkerNoShow(p) \/ AgreeCommit(p) \/ CompleteCommit(p)
  \/ \E fault \in {"NONE", "CLIENT", "WORKER"} : WorkerCancelCommit(p, fault)
  \/ CreateCompletionInvoice(p) \/ AutoSettleCommit(p) \/ EscalateOverduePayment(p)
  \/ OpenRefundDispute(p)

\* The second halves of the calls are quiet, apart from accepting and moving.
LEMMA CommitQuiet ==
  ASSUME Typed, NEW p \in Calls, CommitQuietly(p)
  PROVE  Quiet
<1> DEFINE b == call[p].b
<1>1. CASE AutoDeclineCommit(p)
  <2> DEFINE r == [booking[b] EXCEPT !.pending = FALSE]
  <2>1. b \in Bookings /\ booking[b] \in Row
    BY <1>1, CallAbout DEF AutoDeclineCommit, Ops
  <2>2. /\ r \in Row /\ r.worker = booking[b].worker /\ r.start = booking[b].start
        /\ r.status = booking[b].status
    BY <2>1 DEF Row
  <2>3. UpdateBooking(b, r)
    BY <1>1 DEF AutoDeclineCommit
  <2> HIDE DEF r
  <2> QED
    BY <1>1, <2>1, <2>2, <2>3, FieldsOnly, ReturnQuiet, SameDisputes DEF AutoDeclineCommit
<1>2. CASE ArriveCommit(p)
  <2> DEFINE window == now \in (call[p].seen.start - Early) .. (call[p].seen.start + Grace)
             r == [booking[b] EXCEPT !.arrived = TRUE, !.inWindow = window]
  <2>1. b \in Bookings /\ booking[b] \in Row
    BY <1>2, CallAbout DEF ArriveCommit, Ops
  <2>2. window \in BOOLEAN
    OBVIOUS
  <2>3. UpdateBooking(b, r) \/ UNCHANGED booking
    BY <1>2 DEF ArriveCommit
  <2> HIDE DEF window
  <2>4. /\ r \in Row /\ r.worker = booking[b].worker /\ r.start = booking[b].start
        /\ r.status = booking[b].status
    BY <2>1, <2>2 DEF Row
  <2> HIDE DEF r
  <2>5. BookingsKept
    BY <2>1, <2>3, <2>4, UpdateQuiet, SameBookings DEF Typed
  <2>6. CallsKept /\ DisputesKept
    BY <1>2, ReturnQuiet, SameDisputes DEF ArriveCommit
  <2> QED
    BY <1>2, <2>5, <2>6, KeptIsQuiet DEF ArriveCommit, Typed, TypeOK
<1>3. CASE VisitCommit(p)
  <2> DEFINE r == [booking[b] EXCEPT !.visit = TRUE]
  <2>1. b \in Bookings /\ booking[b] \in Row
    BY <1>3, CallAbout DEF VisitCommit, Ops
  <2>2. /\ r \in Row /\ r.worker = booking[b].worker /\ r.start = booking[b].start
        /\ r.status = booking[b].status
    BY <2>1 DEF Row
  <2>3. UpdateBooking(b, r)
    BY <1>3 DEF VisitCommit
  <2> HIDE DEF r
  <2> QED
    BY <1>3, <2>1, <2>2, <2>3, FieldsOnly, ReturnQuiet, SameDisputes DEF VisitCommit
<1>4. CASE CancelAsWorkerNoShow(p)
  <2>1. b \in Bookings
    BY <1>4, CallAbout DEF CancelAsWorkerNoShow, Ops
  <2>2. CASE Conflict(p)
    BY <1>4, <2>2, ConflictQuiet DEF CancelAsWorkerNoShow
  <2>3. CASE ~Conflict(p)
    <3>1. BookingsKept
      BY <1>4, <2>1, <2>3, CancelMovesOn DEF CancelAsWorkerNoShow, Typed
    <3>2. DisputesKept
      BY <1>4, <2>3, CloseDisputesKept DEF CancelAsWorkerNoShow, OpenDisputes
    <3>3. CallsKept
      BY <1>4, <2>3, ReturnQuiet DEF CancelAsWorkerNoShow
    <3>4. cancellation' \in [Bookings -> CancellationRow \cup {None}]
      BY <1>4, <2>1, <2>3, CreateCancellationTyped DEF CancelAsWorkerNoShow, Typed
    <3>5. activeJobs' \in [Workers -> Int] /\ charge' \in [Bookings -> ChargeRow]
      BY <1>4, <2>1, <2>3, JobEndsTyped, ChargeTyped DEF CancelAsWorkerNoShow, Typed
    <3>6. now' \in Times
      BY <1>4 DEF CancelAsWorkerNoShow, Typed, TypeOK
    <3> QED
      BY <3>1, <3>2, <3>3, <3>4, <3>5, <3>6, KeptIsQuiet
  <2> QED
    BY <2>2, <2>3
<1>5. CASE AgreeCommit(p)
  <2>1. /\ b \in Bookings
        /\ call[p].seen.status # "NONE"
    BY <1>5, CallAbout, StatusNames DEF AgreeCommit, Ops, Typed, SeenCancellable, CancellingOps
  <2>2. CASE Conflict(p)
    BY <1>5, <2>2, ConflictQuiet DEF AgreeCommit
  <2>3. CASE ~Conflict(p)
    <3>1. /\ FinalizeCancellationTx(b, call[p].seen, "AGREED", "NOT_APPLICABLE")
          /\ Return(p) /\ UNCHANGED <<charge, lock, now>>
      BY <1>5, <2>3 DEF AgreeCommit
    <3>2. booking[b].status # "NONE"
      BY <2>1, <3>1 DEF FinalizeCancellationTx
    <3>3. /\ BookingsKept /\ DisputesKept
          /\ cancellation' \in [Bookings -> CancellationRow \cup {None}]
          /\ activeJobs' \in [Workers -> Int]
      BY <2>1, <3>1, <3>2, FinalizeKept
    <3> QED
      BY <3>1, <3>3, ReturnQuiet, KeptIsQuiet DEF Typed, TypeOK
  <2> QED
    BY <2>2, <2>3
<1>6. CASE CompleteCommit(p)
  <2>1. /\ b \in Bookings /\ booking[b] \in Row
        /\ call[p].op \in {"complete", "resend"} /\ call[p].op # "idle"
    BY <1>6, CallAbout, CompletingOps DEF CompleteCommit, Ops
  <2>2. CASE Conflict(p)
    BY <1>6, <2>2, ConflictQuiet DEF CompleteCommit
  <2>3. CASE ~Conflict(p)
    <3>1. PICK n \in {0, 1} : CompletesBy(p, b, n)
      BY <1>6, <2>3, Completes
    <3> DEFINE r == CompletedRow(booking[b], n)
    <3>2. /\ r \in Row /\ r.worker = booking[b].worker /\ r.start = booking[b].start
          /\ r.status = "PENDING_COMPLETION"
      BY <2>1, <3>1, CompletionRow DEF CompletesBy
    <3>3. UpdateBooking(b, r) /\ booking[b].status \in {"IN_PROGRESS", "DISPUTED"}
      BY <3>1 DEF CompletesBy
    <3> HIDE DEF r
    <3>4. BookingsKept
      BY <2>1, <3>2, <3>3, UpdateMovesOn, StatusNames DEF Typed
    <3>5. CallsKept
      BY <2>1, <3>1, ReturnQuiet, ContinueQuiet, QuietOps DEF CompletesBy
    <3>6. activeJobs' \in [Workers -> Int] /\ DisputesKept
      BY <2>1, <3>1, JobEndsTyped, SameDisputes DEF CompletesBy, Typed
    <3> QED
      BY <3>1, <3>4, <3>5, <3>6, KeptIsQuiet DEF CompletesBy, Typed, TypeOK
  <2> QED
    BY <2>2, <2>3
<1>7. ASSUME NEW fault \in {"NONE", "CLIENT", "WORKER"}, WorkerCancelCommit(p, fault)
      PROVE  Quiet
  <2>1. /\ b \in Bookings
        /\ call[p].seen.status # "NONE"
    BY <1>7, CallAbout, StatusNames DEF WorkerCancelCommit, Ops, Typed, SeenCancellable, CancellingOps
  <2>2. CASE Conflict(p)
    BY <1>7, <2>2, ConflictQuiet DEF WorkerCancelCommit
  <2>3. CASE ~Conflict(p)
    <3>1. PICK review \in {"NOT_APPLICABLE", "PENDING_REVIEW", "APPROVED"} :
            FinalizeCancellationTx(b, call[p].seen, "WORKER", review)
      BY <1>7, <2>3 DEF WorkerCancelCommit
    <3>2. booking[b].status # "NONE"
      BY <2>1, <3>1 DEF FinalizeCancellationTx
    <3>3. /\ BookingsKept /\ DisputesKept
          /\ cancellation' \in [Bookings -> CancellationRow \cup {None}]
          /\ activeJobs' \in [Workers -> Int]
      BY <2>1, <3>1, <3>2, FinalizeKept
    <3>4. CreditCompensationTx(b) \/ ChargePenaltyTx(b) \/ UNCHANGED charge
      BY <1>7, <2>3 DEF WorkerCancelCommit
    <3>5. charge' \in [Bookings -> ChargeRow]
      BY <2>1, <3>4, ChargeTyped DEF Typed
    <3>6. Return(p) /\ UNCHANGED <<lock, now>>
      BY <1>7, <2>3 DEF WorkerCancelCommit
    <3> QED
      BY <3>3, <3>5, <3>6, ReturnQuiet, KeptIsQuiet DEF Typed, TypeOK
  <2> QED
    BY <2>2, <2>3
<1>8. CASE CreateCompletionInvoice(p)
  <2>1. b \in Bookings /\ call[p].op \in {"invoice", "invoiceForWorker"} /\ call[p].op # "idle"
    BY <1>8, CallAbout DEF CreateCompletionInvoice, Ops
  <2>2. CASE Conflict(p)
    BY <1>8, <2>2, ConflictQuiet DEF CreateCompletionInvoice
  <2>3. CASE ~Conflict(p)
    <3>1. CallsKept
      <4>1. Return(p) \/ (Continue(p, "closeDispute") /\ call[p].op \in DisputeOps)
        BY <1>8, <2>1, <2>3 DEF CreateCompletionInvoice, InFlight, DisputeOps
      <4>2. "closeDispute" \in DisputeOps
        BY DEF DisputeOps
      <4> QED
        BY <1>8, <2>1, <4>1, <4>2, ReturnQuiet, ContinueQuiet, QuietOps DEF CreateCompletionInvoice
    <3> QED
      BY <1>8, <2>1, <2>3, <3>1, StatusOnly, SameDisputes, StatusNames DEF CreateCompletionInvoice
  <2> QED
    BY <2>2, <2>3
<1>9. CASE AutoSettleCommit(p)
  <2>1. b \in Bookings
    BY <1>9, CallAbout DEF AutoSettleCommit, Ops
  <2>2. BookingsKept
    BY <1>9, <2>1, SetStatusMovesOn, SameBookings, StatusNames DEF AutoSettleCommit, SettleCashBooking, Typed
  <2>3. CallsKept /\ DisputesKept
    BY <1>9, ReturnQuiet, SameDisputes DEF AutoSettleCommit
  <2> QED
    BY <1>9, <2>2, <2>3, KeptIsQuiet DEF AutoSettleCommit, Typed, TypeOK
<1>10. CASE EscalateOverduePayment(p)
  <2>1. b \in Bookings
    BY <1>10, CallAbout DEF EscalateOverduePayment, Ops
  <2>2. BookingsKept /\ CallsKept /\ DisputesKept
    BY <1>10, <2>1, SameBookings, ReturnQuiet, CreateDisputeKept DEF EscalateOverduePayment, Typed
  <2> QED
    BY <1>10, <2>2, KeptIsQuiet DEF EscalateOverduePayment, Typed, TypeOK
<1>11. CASE OpenRefundDispute(p)
  <2>1. b \in Bookings
    BY <1>11, CallAbout DEF OpenRefundDispute, Ops
  <2>2. BookingsKept /\ CallsKept /\ DisputesKept
    BY <1>11, <2>1, SameBookings, ReturnQuiet, CreateDisputeKept DEF OpenRefundDispute, Typed
  <2> QED
    BY <1>11, <2>2, KeptIsQuiet DEF OpenRefundDispute, Typed, TypeOK
<1> QED
  BY <1>1, <1>2, <1>3, <1>4, <1>5, <1>6, <1>7, <1>8, <1>9, <1>10, <1>11 DEF CommitQuietly


\* The end of a call about a dispute or a review, a call that is lost, and
\* the clock.
EndQuietly(p) ==
  \/ \E outcome \in {"APPROVED", "REJECTED"} : ReviewCommit(p, outcome)
  \/ MarkUnderReview(p) \/ CloseDispute(p) \/ SettlePlatformFundedPayment(p)
  \/ Fail(p)

\* The dispute a call is about is written.
LEMMA DisputeWritten ==
  ASSUME Typed, NEW p \in Calls, call[p].op \in DisputeOps,
         NEW s \in {"UNDER_REVIEW", "RESOLVED"},
         dispute' = [dispute EXCEPT ![call[p].d].status = s]
  PROVE  DisputesKept
<1> DEFINE d == call[p].d
           r == [dispute[d] EXCEPT !.status = s]
<1>1. d \in Disputes /\ dispute[d].status # "FREE" /\ dispute \in [Disputes -> DisputeRow]
  BY DEF Typed, TypeOK, DisputesPlaced
<1>2. r \in DisputeRow /\ r.status = s /\ r.booking = dispute[d].booking
  BY <1>1 DEF DisputeRow
<1>3. dispute' = [dispute EXCEPT ![d] = r]
  OBVIOUS
<1> HIDE DEF r, d
<1>4. dispute' \in [Disputes -> DisputeRow]
  BY <1>1, <1>2, <1>3
<1>5. \A e \in Disputes : dispute'[e] = IF e = d THEN r ELSE dispute[e]
  BY <1>1, <1>3
<1> QED
  BY <1>1, <1>2, <1>4, <1>5 DEF Typed, DisputesPlaced, DisputesKept

\* The second halves that end a booking are quiet.
LEMMA EndQuiet ==
  ASSUME Typed, NEW p \in Calls, EndQuietly(p)
  PROVE  Quiet
<1> DEFINE b == call[p].b
<1>1. ASSUME NEW outcome \in {"APPROVED", "REJECTED"}, ReviewCommit(p, outcome)
      PROVE  Quiet
  <2>1. b \in Bookings
    BY <1>1, CallAbout DEF ReviewCommit, Ops
  <2>2. CASE Conflict(p)
    BY <1>1, <2>2, ConflictQuiet DEF ReviewCommit
  <2>3. CASE ~Conflict(p)
    <3>1. /\ ClaimReview(b, outcome)
          /\ ChargePenaltyTx(b) \/ CreditCompensationTx(b)
          /\ Return(p) /\ UNCHANGED <<booking, dispute, activeJobs, lock, now>>
      BY <1>1, <2>3 DEF ReviewCommit
    <3>2. cancellation[b] \in CancellationRow
      BY <2>1, <3>1 DEF ClaimReview, Verdict, Typed, TypeOK
    <3>3. [cancellation[b] EXCEPT !.review = outcome] \in CancellationRow
      BY <3>2 DEF CancellationRow
    <3>4. cancellation' \in [Bookings -> CancellationRow \cup {None}]
      BY <2>1, <3>1, <3>3 DEF ClaimReview, Typed, TypeOK
    <3>5. charge' \in [Bookings -> ChargeRow]
      BY <2>1, <3>1, ChargeTyped DEF Typed
    <3>6. BookingsKept /\ CallsKept /\ DisputesKept
      BY <3>1, SameBookings, ReturnQuiet, SameDisputes DEF Typed
    <3> QED
      BY <3>1, <3>4, <3>5, <3>6, KeptIsQuiet DEF Typed, TypeOK
  <2> QED
    BY <2>2, <2>3
<1>2. CASE MarkUnderReview(p)
  <2>1. DisputesKept
    BY <1>2, DisputeWritten DEF MarkUnderReview, InFlight, DisputeOps
  <2>2. BookingsKept /\ CallsKept
    BY <1>2, SameBookings, ReturnQuiet DEF MarkUnderReview, Typed
  <2> QED
    BY <1>2, <2>1, <2>2, KeptIsQuiet DEF MarkUnderReview, Typed, TypeOK
<1>3. CASE CloseDispute(p)
  <2>1. DisputesKept
    BY <1>3, DisputeWritten DEF CloseDispute, InFlight, DisputeOps
  <2>2. BookingsKept /\ CallsKept
    BY <1>3, SameBookings, ReturnQuiet DEF CloseDispute, Typed
  <2> QED
    BY <1>3, <2>1, <2>2, KeptIsQuiet DEF CloseDispute, Typed, TypeOK
<1>4. CASE SettlePlatformFundedPayment(p)
  <2>1. b \in Bookings /\ call[p].op = "platformPay" /\ call[p].op # "idle"
    BY <1>4, CallAbout DEF SettlePlatformFundedPayment, Ops
  <2>2. CASE Conflict(p)
    BY <1>4, <2>2, ConflictQuiet DEF SettlePlatformFundedPayment
  <2>3. CASE ~Conflict(p)
    <3>1. BookingsKept
      BY <1>4, <2>1, <2>3, SetStatusMovesOn, SameBookings, StatusNames
         DEF SettlePlatformFundedPayment, Typed
    <3>2. CallsKept
      BY <1>4, <2>1, <2>3, ContinueQuiet, QuietOps DEF SettlePlatformFundedPayment, DisputeOps
    <3>3. DisputesKept
      BY <1>4, <2>3, SameDisputes DEF SettlePlatformFundedPayment
    <3> QED
      BY <1>4, <2>3, <3>1, <3>2, <3>3, KeptIsQuiet DEF SettlePlatformFundedPayment, Typed, TypeOK
  <2> QED
    BY <2>2, <2>3
<1>5. CASE Fail(p)
  <2>1. BookingsKept /\ CallsKept /\ DisputesKept
    BY <1>5, SameBookings, ReturnQuiet, SameDisputes DEF Fail, Typed
  <2> QED
    BY <1>5, <2>1, KeptIsQuiet DEF Fail, Typed, TypeOK
<1> QED
  BY <1>1, <1>2, <1>3, <1>4, <1>5 DEF EndQuietly

\* Time passes quietly.
LEMMA TickQuiet ==
  ASSUME Typed, Tick
  PROVE  Quiet
<1>1. now' \in Times
  BY ConstantsAssumption DEF Tick, Typed, TypeOK, Times
<1>2. BookingsKept /\ CallsKept /\ DisputesKept
  BY SameBookings, SameCalls, SameDisputes DEF Tick, Typed
<1> QED
  BY <1>1, <1>2, KeptIsQuiet DEF Tick, Typed, TypeOK

-----------------------------------------------------------------------------
(* The commitments survive a step that commits nobody.                     *)

\* A quiet step keeps the invariant.
LEMMA QuietKeepsCommitments ==
  ASSUME CommitmentInv, Quiet
  PROVE  CommitmentInv'
<1> USE DEF Quiet
<1>1. TypeOK /\ TypeOK' /\ DisputesPlaced' /\ SeenCancellable'
  BY DEF CommitmentInv, Typed
<1>2. \A p \in Calls : call'[p].op \in CommittingOps => call'[p] = call[p]
  BY DEF SameCommitters
<1>3. LockedOps \subseteq CommittingOps /\ {"accept", "acceptLocked"} \subseteq CommittingOps
      /\ "idle" \notin CommittingOps
  BY DEF CommittingOps, LockedOps
<1>4. \A p \in Calls : call'[p].op \in CommittingOps => call[p].b \in Bookings /\ call[p].op # "idle"
  BY <1>1, <1>2, <1>3, CallInFlight
<1>5. HasWorker'
  BY DEF CommitmentInv, HasWorker, SameCommitments
<1>6. SeenIsCurrent'
  <2> SUFFICES ASSUME NEW p \in Calls, call'[p].op \in CommittingOps
               PROVE  LET c == call[p] IN
                        /\ booking'[c.b].status # "NONE"
                        /\ c.seen.worker \in Workers /\ c.seen.worker = booking'[c.b].worker
                        /\ c.op \in {"accept", "acceptLocked"} /\ booking'[c.b].status = "PENDING"
                             => booking'[c.b].start = c.seen.start
    BY <1>2 DEF SeenIsCurrent
  <2>1. call'[p] = call[p] /\ call[p].b \in Bookings
    BY <1>2, <1>4
  <2> QED
    BY <2>1 DEF CommitmentInv, SeenIsCurrent, SameCommitments
<1>7. LockIsHeld'
  <2> SUFFICES ASSUME NEW p \in Calls, call'[p].op \in LockedOps
               PROVE  lock'[call'[p].seen.worker] = p
    BY DEF LockIsHeld
  <2>1. call'[p] = call[p] /\ lock[call[p].seen.worker] = p /\ call[p].seen.worker \in Workers
    BY <1>2, <1>3 DEF CommitmentInv, LockIsHeld, SeenIsCurrent
  <2> QED
    BY <1>3, <2>1 DEF SameCommitters
<1>8. TargetIsFree'
  <2> SUFFICES ASSUME NEW p \in Calls, call'[p].op \in LockedOps,
                      NEW b \in Bookings \ {call'[p].b},
                      booking'[b].worker = call'[p].seen.worker,
                      booking'[b].status \in JobStatuses
               PROVE  booking'[b].start # TargetStart(call'[p])
    BY DEF TargetIsFree, TargetStart
  <2>1. call'[p] = call[p]
    BY <1>2, <1>3
  <2> QED
    BY <2>1 DEF CommitmentInv, TargetIsFree, SameCommitments
<1>9. NoDoubleBooking'
  BY DEF CommitmentInv, NoDoubleBooking, SameCommitments
<1> QED
  BY <1>1, <1>5, <1>6, <1>7, <1>8, <1>9 DEF CommitmentInv


-----------------------------------------------------------------------------
(* The steps that commit a worker, one by one.                             *)

\* The steps of a committing call, by name.
LEMMA CommittingNames ==
  /\ LockedOps \subseteq CommittingOps /\ CommittingOps \subseteq Ops
  /\ {"accept", "acceptLocked"} \subseteq CommittingOps
  /\ \A op \in CommittingOps : op # "idle" /\ op \notin DisputeOps \cup CancellingOps
  /\ {"accept", "move"} \cap LockedOps = {}
BY DEF Ops, CommittingOps, LockedOps, DisputeOps, CancellingOps

\* A call about to commit a worker, as the invariant describes it.
LEMMA Committer ==
  ASSUME CommitmentInv, NEW p \in Calls, call[p].op \in CommittingOps
  PROVE  /\ call[p] \in CallRecord /\ call[p].b \in Bookings /\ call[p].seen \in Row
         /\ booking[call[p].b] \in Row /\ booking[call[p].b].status # "NONE"
         /\ call[p].seen.worker \in Workers
         /\ call[p].seen.worker = booking[call[p].b].worker
<1>1. call[p].op # "idle" /\ TypeOK
  BY CommittingNames DEF CommitmentInv
<1> QED
  BY <1>1, CallInFlight DEF CommitmentInv, SeenIsCurrent, TypeOK

\* A new booking: PENDING, with a worker, and known to no call.
LEMMA CreateCommits ==
  ASSUME CommitmentInv, NEW b \in Bookings, NEW w \in Workers, NEW start \in Starts,
         NEW cash \in BOOLEAN, CreateBooking(b, w, start, cash)
  PROVE  CommitmentInv'
<1> DEFINE r == [booking[b] EXCEPT !.status = "PENDING", !.worker = w,
                                   !.start = start, !.cash = cash]
<1>0. /\ booking' = [booking EXCEPT ![b] = r] /\ booking[b].status = "NONE"
      /\ UNCHANGED <<dispute, cancellation, charge, activeJobs, lock, call, now>>
      /\ booking[b] \in Row
  BY DEF CreateBooking, UpdateBooking, CommitmentInv, TypeOK
<1>1. r \in Row /\ r.status = "PENDING" /\ r.worker = w
  BY <1>0 DEF Row, Statuses
<1> HIDE DEF r
<1>2. \A c \in Bookings : booking'[c] = IF c = b THEN r ELSE booking[c]
  BY <1>0, <1>1 DEF CommitmentInv, TypeOK
<1>3. TypeOK' /\ DisputesPlaced' /\ SeenCancellable'
  BY <1>0, <1>1 DEF CommitmentInv, TypeOK, DisputesPlaced, SeenCancellable
<1>4. \A p \in Calls : call[p].op \in CommittingOps => call[p].b \in Bookings \ {b}
  BY <1>0, Committer
<1>5. HasWorker'
  BY <1>0, <1>1, <1>2 DEF CommitmentInv, HasWorker
<1>6. SeenIsCurrent'
  BY <1>0, <1>1, <1>2, <1>4 DEF CommitmentInv, SeenIsCurrent
<1>7. LockIsHeld'
  BY <1>0, <1>1 DEF CommitmentInv, LockIsHeld
<1>8. TargetIsFree'
  BY <1>0, <1>1, <1>2, StatusNames DEF CommitmentInv, TargetIsFree, TargetStart
<1>9. NoDoubleBooking'
  BY <1>0, <1>1, <1>2, StatusNames DEF CommitmentInv, NoDoubleBooking
<1> QED
  BY <1>3, <1>5, <1>6, <1>7, <1>8, <1>9 DEF CommitmentInv

\* A call begins that may commit the booking's worker: it reads its row now.
LEMMA BeginCommits ==
  ASSUME CommitmentInv, NEW p \in Calls, NEW op \in {"accept", "move"}, NEW b \in Bookings,
         booking[b].status # "NONE", Begin(p, op, b, None),
         UNCHANGED <<booking, dispute, cancellation, charge, activeJobs, lock, now>>
  PROVE  CommitmentInv'
<1>1. /\ TypeOK /\ op \in CommittingOps /\ op \in Ops /\ op \in ConsultingOps
      /\ op \notin LockedOps \cup DisputeOps \cup CancellingOps
  BY CommittingNames DEF CommitmentInv, CommittingOps, Ops, ConsultingOps
<1>2. /\ call' \in [Calls -> CallRecord \cup {Idle}]
      /\ call'[p].op = op /\ call'[p].b = b /\ call'[p].seen = booking[b]
      /\ \A q \in Calls \ {p} : call'[q] = call[q]
  BY <1>1, BeginTyped
<1>3. TypeOK' /\ DisputesPlaced' /\ SeenCancellable'
  BY <1>1, <1>2 DEF CommitmentInv, TypeOK, DisputesPlaced, SeenCancellable
<1>4. SeenIsCurrent'
  BY <1>1, <1>2 DEF CommitmentInv, SeenIsCurrent, HasWorker
<1>5. LockIsHeld' /\ TargetIsFree'
  BY <1>1, <1>2 DEF CommitmentInv, LockIsHeld, TargetIsFree, TargetStart
<1>6. HasWorker' /\ NoDoubleBooking'
  BY DEF CommitmentInv, HasWorker, NoDoubleBooking
<1> QED
  BY <1>3, <1>4, <1>5, <1>6 DEF CommitmentInv

\* The worker's row is locked, and no other job of his starts at that time.
LEMMA LockCommits ==
  ASSUME CommitmentInv, NEW p \in Calls, call[p].op \in {"accept", "move"},
         NEW to \in LockedOps, Continue(p, to),
         call[p].op = "accept" <=> to = "acceptLocked",
         lock[call[p].seen.worker] = None,
         lock' = [lock EXCEPT ![call[p].seen.worker] = p],
         ~StartTimeClash(call[p].b, call[p].seen.worker, TargetStart(call[p])),
         UNCHANGED <<booking, dispute, cancellation, charge, activeJobs, now>>
  PROVE  CommitmentInv'
<1> DEFINE c == call[p]
           r == [c EXCEPT !.op = to]
           w == c.seen.worker
<1>1. c.op \in CommittingOps /\ to \in CommittingOps /\ to \in Ops
  BY CommittingNames DEF CommittingOps
<1>2. c \in CallRecord /\ w \in Workers /\ c.seen \in Row /\ c.b \in Bookings
  BY <1>1, Committer
<1>3. r \in CallRecord /\ r.op = to /\ r.b = c.b /\ r.seen = c.seen
  BY <1>1, <1>2 DEF CallRecord
<1>4. TargetStart(r) = TargetStart(c)
  BY <1>3 DEF TargetStart, LockedOps
<1>5. call' = [call EXCEPT ![p] = r]
  BY DEF Continue
<1> HIDE DEF r, c
<1>6. call'[p] = r /\ (\A q \in Calls \ {p} : call'[q] = call[q])
      /\ call' \in [Calls -> CallRecord \cup {Idle}]
  BY <1>3, <1>5 DEF CommitmentInv, TypeOK
<1>7. TypeOK' /\ DisputesPlaced' /\ SeenCancellable'
  BY <1>1, <1>3, <1>6, CommittingNames DEF CommitmentInv, TypeOK, DisputesPlaced, SeenCancellable
<1>8. SeenIsCurrent'
  <2> SUFFICES ASSUME NEW q \in Calls, call'[q].op \in CommittingOps
               PROVE  LET k == call'[q] IN
                        /\ booking[k.b].status # "NONE"
                        /\ k.seen.worker \in Workers /\ k.seen.worker = booking[k.b].worker
                        /\ k.op \in {"accept", "acceptLocked"} /\ booking[k.b].status = "PENDING"
                             => booking[k.b].start = k.seen.start
    BY DEF SeenIsCurrent
  <2>1. CASE q = p
    BY <1>1, <1>3, <1>6, <2>1 DEF CommitmentInv, SeenIsCurrent, LockedOps, c
  <2>2. CASE q # p
    BY <1>6, <2>2 DEF CommitmentInv, SeenIsCurrent
  <2> QED
    BY <2>1, <2>2
<1>9. LockIsHeld'
  <2> SUFFICES ASSUME NEW q \in Calls, call'[q].op \in LockedOps
               PROVE  lock'[call'[q].seen.worker] = q
    BY DEF LockIsHeld
  <2>1. CASE q = p
    BY <1>2, <1>3, <1>6, <2>1 DEF CommitmentInv, TypeOK, c
  <2>2. CASE q # p
    <3>1. call'[q] = call[q] /\ lock[call[q].seen.worker] = q /\ call[q].seen.worker \in Workers
      BY <1>6, <2>2, Committer, CommittingNames DEF CommitmentInv, LockIsHeld
    <3>2. call[q].seen.worker # w
      BY <3>1, ConstantsAssumption DEF c
    <3> QED
      BY <1>2, <3>1, <3>2 DEF CommitmentInv, TypeOK, c
  <2> QED
    BY <2>1, <2>2
<1>10. TargetIsFree'
  <2> SUFFICES ASSUME NEW q \in Calls, call'[q].op \in LockedOps,
                      NEW b \in Bookings \ {call'[q].b},
                      booking[b].worker = call'[q].seen.worker,
                      booking[b].status \in JobStatuses
               PROVE  booking[b].start # TargetStart(call'[q])
    BY DEF TargetIsFree, TargetStart
  <2>1. CASE q = p
    BY <1>3, <1>4, <1>6, <2>1 DEF StartTimeClash, c
  <2>2. CASE q # p
    BY <1>6, <2>2 DEF CommitmentInv, TargetIsFree
  <2> QED
    BY <2>1, <2>2
<1>11. HasWorker' /\ NoDoubleBooking'
  BY DEF CommitmentInv, HasWorker, NoDoubleBooking
<1> QED
  BY <1>7, <1>8, <1>9, <1>10, <1>11 DEF CommitmentInv

\* The call writes the start it had found free, and lets the worker go.
LEMMA CommitCommits ==
  ASSUME CommitmentInv, NEW p \in Calls, call[p].op \in LockedOps,
         NEW r \in Row, UpdateBooking(call[p].b, r),
         r.worker = booking[call[p].b].worker, r.status \in JobStatuses,
         r.start = TargetStart(call[p]),
         Return(p), Unlock(p), activeJobs' \in [Workers -> Int],
         UNCHANGED <<dispute, cancellation, charge, now>>
  PROVE  CommitmentInv'
<1> DEFINE b == call[p].b
           w == call[p].seen.worker
<1>1. Typed /\ call[p].op \in CommittingOps
  BY CommittingNames DEF CommitmentInv, Typed
<1>2. b \in Bookings /\ w \in Workers /\ r.worker = w /\ lock[w] = p
  BY <1>1, Committer DEF CommitmentInv, LockIsHeld
<1>3. \A c \in Bookings : booking'[c] = IF c = b THEN r ELSE booking[c]
  BY <1>2 DEF UpdateBooking, CommitmentInv, TypeOK
<1>4. CallsKept
  BY <1>1, ReturnQuiet
<1>5. TypeOK' /\ DisputesPlaced' /\ SeenCancellable'
  BY <1>1, <1>2, <1>4 DEF CallsKept, Typed, TypeOK, DisputesPlaced, UpdateBooking
<1>6. \A q \in Calls : call'[q].op \in CommittingOps =>
         /\ call'[q] = call[q] /\ q # p
         /\ \A v \in Workers : lock[v] = q => lock'[v] = q
  <2>1. call'[p].op = "idle"
    BY <1>1 DEF Return, Idle, Typed, TypeOK
  <2> QED
    BY <1>4, <2>1, CommittingNames DEF CallsKept, SameCommitters
<1>7. HasWorker'
  BY <1>2, <1>3 DEF CommitmentInv, HasWorker
<1>8. SeenIsCurrent'
  <2> SUFFICES ASSUME NEW q \in Calls, call[q].op \in CommittingOps, call'[q] = call[q]
               PROVE  LET c == call[q] IN
                        /\ booking'[c.b].status # "NONE"
                        /\ c.seen.worker \in Workers /\ c.seen.worker = booking'[c.b].worker
                        /\ c.op \in {"accept", "acceptLocked"} /\ booking'[c.b].status = "PENDING"
                             => booking'[c.b].start = c.seen.start
    BY <1>6 DEF SeenIsCurrent
  <2>1. call[q].b \in Bookings
    BY Committer
  <2> QED
    BY <1>2, <1>3, <2>1, StatusNames DEF CommitmentInv, SeenIsCurrent
<1>9. LockIsHeld'
  <2> SUFFICES ASSUME NEW q \in Calls, call'[q].op \in LockedOps
               PROVE  lock'[call'[q].seen.worker] = q
    BY DEF LockIsHeld
  <2>1. call'[q] = call[q] /\ call'[q].op \in CommittingOps
    BY <1>6, CommittingNames
  <2>2. call[q].seen.worker \in Workers
    BY <2>1, Committer
  <2> QED
    BY <1>6, <2>1, <2>2 DEF CommitmentInv, LockIsHeld
<1>10. TargetIsFree'
  <2> SUFFICES ASSUME NEW q \in Calls, call'[q].op \in LockedOps,
                      NEW c \in Bookings \ {call'[q].b},
                      booking'[c].worker = call'[q].seen.worker,
                      booking'[c].status \in JobStatuses
               PROVE  booking'[c].start # TargetStart(call'[q])
    BY DEF TargetIsFree, TargetStart
  <2>1. call'[q] = call[q] /\ q # p
    BY <1>6, CommittingNames
  <2>2. call[q].seen.worker # w
    BY <1>2, <2>1 DEF CommitmentInv, LockIsHeld
  <2>3. c # b
    BY <1>2, <1>3, <2>1, <2>2
  <2> QED
    BY <1>3, <2>1, <2>3 DEF CommitmentInv, TargetIsFree
<1>11. NoDoubleBooking'
  <2>1. \A c \in Bookings \ {b} :
          booking[c].worker = w /\ booking[c].status \in JobStatuses => booking[c].start # r.start
    BY DEF CommitmentInv, TargetIsFree
  <2> QED
    BY <1>2, <1>3, <2>1 DEF CommitmentInv, NoDoubleBooking
<1> QED
  BY <1>5, <1>7, <1>8, <1>9, <1>10, <1>11 DEF CommitmentInv

-----------------------------------------------------------------------------
(* The theorems.                                                           *)

\* Every call step is one of those considered above.
LEMMA CallCommits ==
  ASSUME CommitmentInv, NEW p \in Calls, CallStep(p)
  PROVE  CommitmentInv'
<1>1. Typed
  BY DEF CommitmentInv, Typed
<1>2. CASE CommitQuietly(p) \/ EndQuietly(p)
  BY <1>1, <1>2, CommitQuiet, EndQuiet, QuietKeepsCommitments
<1>3. CASE Conflict(p) /\ (UNCHANGED lock \/ Unlock(p))
  BY <1>1, <1>3, ConflictQuiet, QuietKeepsCommitments
<1>4. ASSUME NEW op, InFlight(p, op), op \in CommittingOps
      PROVE  /\ call[p].op = op /\ call[p].b \in Bookings
             /\ call[p].seen \in Row /\ call[p].seen.worker \in Workers
             /\ booking[call[p].b] \in Row
  BY <1>4, Committer DEF InFlight
<1>5. CASE AcceptLock(p)
  <2>1. call[p].op = "accept" /\ TargetStart(call[p]) = call[p].seen.start
    BY <1>5 DEF AcceptLock, InFlight, TargetStart
  <2>2. CASE StartTimeClash(call[p].b, call[p].seen.worker, call[p].seen.start)
    BY <1>5, <2>2, <1>3 DEF AcceptLock, Conflict
  <2>3. CASE ~StartTimeClash(call[p].b, call[p].seen.worker, call[p].seen.start)
    BY <1>5, <2>1, <2>3, LockCommits DEF AcceptLock, LockedOps
  <2> QED
    BY <2>2, <2>3
<1>6. CASE MoveLock(p)
  <2>1. call[p].op = "move" /\ TargetStart(call[p]) = call[p].seen.newStart
    BY <1>6 DEF MoveLock, InFlight, TargetStart
  <2>2. CASE StartTimeClash(call[p].b, call[p].seen.worker, call[p].seen.newStart)
    BY <1>6, <2>2, <1>3 DEF MoveLock, Conflict
  <2>3. CASE ~StartTimeClash(call[p].b, call[p].seen.worker, call[p].seen.newStart)
    BY <1>6, <2>1, <2>3, LockCommits DEF MoveLock, LockedOps
  <2> QED
    BY <2>2, <2>3
<1>7. CASE AcceptCommit(p)
  <2> DEFINE b == call[p].b
             r == [booking[b] EXCEPT !.status = "ACCEPTED"]
  <2>1. /\ call[p].op = "acceptLocked" /\ call[p].op \in CommittingOps
        /\ b \in Bookings /\ call[p].seen.worker \in Workers /\ booking[b] \in Row
    BY <1>4, <1>7 DEF AcceptCommit, CommittingOps, LockedOps
  <2>2. CASE Conflict(p)
    BY <1>3, <1>7, <2>2 DEF AcceptCommit
  <2>3. CASE ~Conflict(p)
    <3>1. /\ booking[b].status = "PENDING" /\ UpdateBooking(b, r)
          /\ activeJobs' = [activeJobs EXCEPT ![call[p].seen.worker] = @ + 1]
          /\ Return(p) /\ Unlock(p) /\ UNCHANGED <<dispute, cancellation, charge, now>>
      BY <1>7, <2>3 DEF AcceptCommit, SetStatus
    <3>2. /\ r \in Row /\ r.worker = booking[b].worker /\ r.start = booking[b].start
          /\ r.status = "ACCEPTED"
      BY <2>1 DEF Row, Statuses, JobStatuses
    <3>3. booking[b].start = TargetStart(call[p])
      BY <2>1, <3>1 DEF CommitmentInv, SeenIsCurrent, TargetStart
    <3>4. activeJobs' \in [Workers -> Int]
      BY <2>1, <3>1 DEF CommitmentInv, TypeOK
    <3> HIDE DEF r
    <3> QED
      BY <2>1, <3>1, <3>2, <3>3, <3>4, CommitCommits DEF LockedOps, JobStatuses
  <2> QED
    BY <2>2, <2>3
<1>8. CASE MoveCommit(p)
  <2> DEFINE b == call[p].b
             r == [booking[b] EXCEPT !.start = call[p].seen.newStart, !.pending = FALSE]
  <2>1. /\ call[p].op = "moveLocked"
        /\ b \in Bookings /\ booking[b] \in Row /\ call[p].seen \in Row
    BY <1>4, <1>8 DEF MoveCommit, CommittingOps, LockedOps
  <2>2. CASE Conflict(p)
    BY <1>3, <1>8, <2>2 DEF MoveCommit
  <2>3. CASE ~Conflict(p)
    <3>1. /\ booking[b].status = "ACCEPTED" /\ UpdateBooking(b, r)
          /\ Return(p) /\ Unlock(p)
          /\ UNCHANGED <<dispute, cancellation, charge, activeJobs, now>>
      BY <1>8, <2>3 DEF MoveCommit
    <3>2. /\ r \in Row /\ r.worker = booking[b].worker /\ r.status = booking[b].status
          /\ r.start = call[p].seen.newStart
      BY <2>1 DEF Row
    <3>3. r.start = TargetStart(call[p])
      BY <2>1, <3>2 DEF TargetStart
    <3>4. activeJobs' \in [Workers -> Int]
      BY <3>1 DEF CommitmentInv, TypeOK
    <3> HIDE DEF r
    <3> QED
      BY <2>1, <3>1, <3>2, <3>3, <3>4, CommitCommits DEF LockedOps, JobStatuses
  <2> QED
    BY <2>2, <2>3
<1> QED
  BY <1>2, <1>5, <1>6, <1>7, <1>8 DEF CallStep, CommitQuietly, EndQuietly

\* The invariant holds at first.
LEMMA InitCommits == Init => CommitmentInv
<1> SUFFICES ASSUME Init PROVE CommitmentInv
  OBVIOUS
<1>1. TypeOK
  BY NoRowIsRow, ConstantsAssumption
     DEF Init, TypeOK, DisputeRow, NoDispute, ChargeRow, Times
<1>2. /\ \A p \in Calls : call[p].op = "idle"
      /\ \A b \in Bookings : booking[b].status = "NONE"
      /\ \A d \in Disputes : dispute[d].status = "FREE"
  BY DEF Init, Idle, NoRow, NoDispute
<1>3. DisputesPlaced /\ SeenCancellable
  BY <1>2 DEF DisputesPlaced, DisputeOps, SeenCancellable, CancellingOps
<1>4. SeenIsCurrent /\ LockIsHeld /\ TargetIsFree
  BY <1>2, CommittingNames DEF SeenIsCurrent, LockIsHeld, TargetIsFree
<1>5. HasWorker /\ NoDoubleBooking
  BY <1>2 DEF HasWorker, NoDoubleBooking, JobStatuses
<1> QED
  BY <1>1, <1>3, <1>4, <1>5 DEF CommitmentInv

\* Every step keeps the invariant.
LEMMA StepCommits ==
  ASSUME CommitmentInv, [Next]_vars
  PROVE  CommitmentInv'
<1>1. Typed
  BY DEF CommitmentInv, Typed
<1>2. CASE UNCHANGED vars
  <2>1. BookingsKept /\ CallsKept /\ DisputesKept
    BY <1>1, <1>2, SameBookings, SameCalls, SameDisputes DEF vars, Typed
  <2> QED
    BY <1>1, <1>2, <2>1, KeptIsQuiet, QuietKeepsCommitments DEF vars, Typed, TypeOK
<1>3. CASE Tick
  BY <1>1, <1>3, TickQuiet, QuietKeepsCommitments
<1>4. ASSUME NEW p \in Calls, CallStep(p)
      PROVE  CommitmentInv'
  BY <1>4, CallCommits
<1>5. ASSUME NEW p \in Calls, AdminStep(p)
      PROVE  CommitmentInv'
  BY <1>1, <1>5, AdminQuiet, QuietKeepsCommitments
<1>6. ASSUME NEW p \in Calls, NEW b \in Bookings, ClientStep(p, b)
      PROVE  CommitmentInv'
  <2>1. ASSUME NEW w \in Workers, NEW s \in Starts, NEW cash \in BOOLEAN,
               CreateBooking(b, w, s, cash)
        PROVE  CommitmentInv'
    BY <2>1, CreateCommits
  <2> QED
    BY <1>1, <1>6, <2>1, ClientQuiet, QuietKeepsCommitments DEF ClientStep
<1>7. ASSUME NEW p \in Calls, NEW b \in Bookings, WorkerStep(p, b)
      PROVE  CommitmentInv'
  <2>1. CASE AcceptBooking(p, b)
    BY <2>1, BeginCommits DEF AcceptBooking
  <2> QED
    BY <1>1, <1>7, <2>1, WorkerQuiet, QuietKeepsCommitments DEF WorkerStep
<1>8. ASSUME NEW p \in Calls, NEW b \in Bookings, RescheduleStep(p, b)
      PROVE  CommitmentInv'
  <2>1. CASE AcceptReschedule(p, b)
    BY <2>1, BeginCommits DEF AcceptReschedule
  <2> QED
    BY <1>1, <1>8, <2>1, RescheduleQuiet, QuietKeepsCommitments DEF RescheduleStep
<1>9. ASSUME NEW p \in Calls, NEW b \in Bookings, SweepStep(p, b)
      PROVE  CommitmentInv'
  BY <1>1, <1>9, SweepQuiet, QuietKeepsCommitments
<1> QED
  BY <1>2, <1>3, <1>4, <1>5, <1>6, <1>7, <1>8, <1>9 DEF Next

\* The clash check under the worker's row lock does its work: whoever holds
\* the lock, what he found free stays free until he has written.
THEOREM CommitmentsHold == Spec => []CommitmentInv
BY InitCommits, StepCommits, PTL DEF Spec

\* No sequence of calls, sweeps and admin actions writes a value a row cannot
\* hold.
THEOREM TypeCorrect == Spec => []TypeOK
<1>1. CommitmentInv => TypeOK
  BY DEF CommitmentInv
<1> QED
  BY <1>1, CommitmentsHold, PTL

\* No worker is ever committed to two jobs with the same start, for any number
\* of bookings, workers, start times and calls in flight.
THEOREM NeverDoubleBooked == Spec => []NoDoubleBooking
<1>1. CommitmentInv => NoDoubleBooking
  BY DEF CommitmentInv
<1> QED
  BY <1>1, CommitmentsHold, PTL
=============================================================================
