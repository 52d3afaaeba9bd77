------------------------- MODULE BookingCountProofs -------------------------
(***************************************************************************)
(* The count of a worker's jobs, for every set of bookings, workers and    *)
(* calls.  Each kind of step of BookingLifeProofs counts a worker's job up *)
(* or down together with the booking becoming his job or ceasing to be it, *)
(* but for an admin's cancel of a disputed booking and an invoice sent     *)
(* again from one.  The bookings made are finitely many in every state,    *)
(* however many may be made, and so are these miscounts.                   *)
(***************************************************************************)
EXTENDS BookingLifeProofs, FiniteSetTheorems

-----------------------------------------------------------------------------
(* What a step does to the jobs of one worker.                             *)

BookingsMade == {b \in Bookings : booking[b].status # "NONE"}

CountInv == IsFiniteSet(BookingsMade) /\ JobCountBounded

\* The worker has the jobs he had, and as many are counted.
KeepsJobs(w) ==
  /\ JobsOf(w)' = JobsOf(w)
  /\ Miscounts(w) \subseteq Miscounts(w)'
  /\ activeJobs'[w] = activeJobs[w]

\* He takes one more, which is counted.
GainsJob(b, w) ==
  /\ b \notin JobsOf(w) /\ JobsOf(w)' = JobsOf(w) \cup {b}
  /\ Miscounts(w) \subseteq Miscounts(w)'
  /\ activeJobs'[w] = activeJobs[w] + 1

\* One of his ends, and is counted no more.
LosesJob(b, w) ==
  /\ b \in JobsOf(w) /\ JobsOf(w)' = JobsOf(w) \ {b}
  /\ Miscounts(w) \subseteq Miscounts(w)'
  /\ activeJobs'[w] = activeJobs[w] - 1

\* A booking he has finished is cancelled or invoiced again, and counted as if
\* it had been a job: m is the miscount this makes.
LosesCount(m, w) ==
  /\ JobsOf(w)' = JobsOf(w)
  /\ m \in Miscounts(w)' \ Miscounts(w)
  /\ Miscounts(w) \subseteq Miscounts(w)'
  /\ activeJobs'[w] = activeJobs[w] - 1

\* Two sets that differ in one element at most.
LEMMA DifferInOne ==
  ASSUME NEW U, NEW S \in SUBSET U, NEW T \in SUBSET U, NEW b \in U,
         \A c \in U \ {b} : c \in T <=> c \in S
  PROVE  /\ (b \in T <=> b \in S) => T = S
         /\ b \in T => T = S \cup {b}
         /\ b \notin T => T = S \ {b}
OBVIOUS

\* The jobs change by the one booking written.
LEMMA OneBooking ==
  ASSUME NEW b \in Bookings, NEW w \in Workers, \A c \in Bookings \ {b} : Undisturbed(c)
  PROVE  /\ (b \in JobsOf(w)' <=> b \in JobsOf(w)) => JobsOf(w)' = JobsOf(w)
         /\ b \in JobsOf(w)' => JobsOf(w)' = JobsOf(w) \cup {b}
         /\ b \notin JobsOf(w)' => JobsOf(w)' = JobsOf(w) \ {b}
<1>1. \A c \in Bookings \ {b} : c \in JobsOf(w)' <=> c \in JobsOf(w)
  BY DEF Undisturbed, JobsOf
<1>2. JobsOf(w) \in SUBSET Bookings /\ JobsOf(w)' \in SUBSET Bookings
  BY DEF JobsOf
<1> DEFINE T == JobsOf(w)'
<1>3. /\ T \in SUBSET Bookings
      /\ \A c \in Bookings \ {b} : c \in T <=> c \in JobsOf(w)
  BY <1>1, <1>2
<1> HIDE DEF T
<1>4. /\ (b \in T <=> b \in JobsOf(w)) => T = JobsOf(w)
      /\ b \in T => T = JobsOf(w) \cup {b}
      /\ b \notin T => T = JobsOf(w) \ {b}
  BY <1>2, <1>3, DifferInOne
<1> QED
  BY <1>4 DEF T

\* What is miscounted, by the booking it comes from.
Resent(row, w, n) == n \in 1 .. MaxResends /\ row.worker = w /\ n <= row.resends

LEMMA MiscountsAre ==
  ASSUME NEW w \in Workers
  PROVE  /\ Miscounts(w) \subseteq Bookings \X Nat /\ Miscounts(w)' \subseteq Bookings \X Nat
         /\ \A c \in Bookings, n \in Nat :
              /\ <<c, n>> \in Miscounts(w) <=>
                   (n = 0 /\ c \in CancelledAfterWork(w)) \/ Resent(booking[c], w, n)
              /\ <<c, n>> \in Miscounts(w)' <=>
                   (n = 0 /\ c \in CancelledAfterWork(w)') \/ Resent(booking'[c], w, n)
BY ConstantsAssumption DEF Miscounts, CancelledAfterWork, Resent

\* They only grow, if the one booking written is still cancelled after the work
\* if it was, and keeps its worker and the invoices sent again, if any.
LEMMA MiscountsGrow ==
  ASSUME NEW b \in Bookings, NEW w \in Workers, \A c \in Bookings \ {b} : Undisturbed(c),
         b \in CancelledAfterWork(w) => b \in CancelledAfterWork(w)',
         \A n \in Nat : Resent(booking[b], w, n) => Resent(booking'[b], w, n)
  PROVE  Miscounts(w) \subseteq Miscounts(w)'
<1>1. ASSUME NEW c \in Bookings, NEW n \in Nat, <<c, n>> \in Miscounts(w)
      PROVE  <<c, n>> \in Miscounts(w)'
  <2>1. c \in CancelledAfterWork(w) => c \in CancelledAfterWork(w)'
    BY DEF CancelledAfterWork, Undisturbed, RecordKept
  <2>2. Resent(booking[c], w, n) => Resent(booking'[c], w, n)
    BY DEF Undisturbed
  <2> QED
    BY <1>1, <2>1, <2>2, MiscountsAre
<1> QED
  BY <1>1, MiscountsAre

\* So they do when the row written keeps its worker and those invoices.
LEMMA MiscountsKept ==
  ASSUME NEW b \in Bookings, NEW w \in Workers, \A c \in Bookings \ {b} : Undisturbed(c),
         b \in CancelledAfterWork(w) => b \in CancelledAfterWork(w)',
         booking'[b].worker = booking[b].worker, booking'[b].resends = booking[b].resends
  PROVE  Miscounts(w) \subseteq Miscounts(w)'
BY MiscountsGrow DEF Resent

\* A count that goes up or down is the booking's worker's.
LEMMA WorkerCounted ==
  ASSUME Typed, NEW b \in Bookings, booking[b].worker \in Workers, NEW w \in Workers, NEW n \in {1, -1},
         activeJobs' = [activeJobs EXCEPT ![booking[b].worker] = @ + n]
  PROVE  /\ booking[b].worker = w => activeJobs'[w] = activeJobs[w] + n
         /\ booking[b].worker # w => activeJobs'[w] = activeJobs[w]
BY DEF Typed, TypeOK

\* The same, of a job that ends.
LEMMA WorkerUncounted ==
  ASSUME Typed, NEW b \in Bookings, booking[b].worker \in Workers, NEW w \in Workers, JobEnds(b)
  PROVE  /\ booking[b].worker = w => activeJobs'[w] = activeJobs[w] - 1
         /\ booking[b].worker # w => activeJobs'[w] = activeJobs[w]
BY DEF Typed, TypeOK, JobEnds

\* Membership of one booking in the two sets.
LEMMA Members ==
  ASSUME NEW b \in Bookings, NEW w \in Workers
  PROVE  /\ b \in JobsOf(w) <=> booking[b].worker = w /\ IsJob(booking[b])
         /\ b \in JobsOf(w)' <=> booking'[b].worker = w /\ IsJob(booking'[b])
         /\ b \in CancelledAfterWork(w) <=>
              /\ booking[b].worker = w /\ booking[b].status = "CANCELLED"
              /\ booking[b].completed /\ cancellation[b].reason = "ADMIN"
         /\ b \in CancelledAfterWork(w)' <=>
              /\ booking'[b].worker = w /\ booking'[b].status = "CANCELLED"
              /\ booking'[b].completed /\ cancellation'[b].reason = "ADMIN"
BY DEF JobsOf, CancelledAfterWork, IsJob

\* Steps that count no job leave every worker his jobs.
LEMMA UncountedKeeps ==
  ASSUME Typed, LifeInv, NEW b \in Bookings, LifeStepOf(b), Uncounted(b), NEW w \in Workers
  PROVE  KeepsJobs(w)
<1>1. /\ \A c \in Bookings \ {b} : Undisturbed(c)
      /\ activeJobs'[w] = activeJobs[w] /\ RecordKept(b)
  BY DEF LifeStepOf, Uncounted
<1>2. CASE /\ booking'[b].status = booking[b].status /\ booking'[b].worker = booking[b].worker
           /\ booking'[b].completed = booking[b].completed
           /\ booking'[b].resends = booking[b].resends
  <2>1. /\ b \in JobsOf(w)' <=> b \in JobsOf(w)
        /\ b \in CancelledAfterWork(w)' <=> b \in CancelledAfterWork(w)
    BY <1>1, <1>2, Members DEF IsJob, RecordKept
  <2> QED
    BY <1>1, <1>2, <2>1, OneBooking, MiscountsKept DEF KeepsJobs
<1>3. CASE MovesOn(booking'[b], booking[b])
  <2>1. booking[b].status # "CANCELLED"
    BY <1>3, Transitions DEF MovesOn, Terminal
  <2>2. ~IsJob(booking[b]) \/ booking'[b].worker = booking[b].worker
    BY <1>3 DEF MovesOn, SameJob, IsJob, JobStatuses
  <2>3. /\ b \in JobsOf(w)' <=> b \in JobsOf(w)
        /\ b \notin CancelledAfterWork(w)
    BY <1>3, <2>1, <2>2, Members DEF MovesOn
  <2>4. booking'[b].worker = booking[b].worker \/ booking[b].resends = 0
    BY <1>3 DEF MovesOn, SameJob, LifeInv, WorkInTime
  <2>5. Miscounts(w) \subseteq Miscounts(w)'
    <3>1. CASE booking'[b].worker = booking[b].worker
      BY <1>1, <1>3, <2>3, <3>1, MiscountsKept DEF MovesOn, SameWork
    <3>2. CASE booking[b].resends = 0
      BY <1>1, <2>3, <3>2, MiscountsGrow DEF Resent
    <3> QED
      BY <2>4, <3>1, <3>2
  <2> QED
    BY <1>1, <2>3, <2>5, OneBooking DEF KeepsJobs
<1> QED
  BY <1>2, <1>3
     DEF Uncounted, Stays, ConcernsCancel, AsksToMove, Moves, SameStatus, SameJob, SameWork

\* An accepted booking is one job more for its worker, and none for another.
LEMMA AcceptedGains ==
  ASSUME Typed, NEW b \in Bookings, booking[b].worker \in Workers,
         LifeStepOf(b), IsAccepted(b), NEW w \in Workers
  PROVE  KeepsJobs(w) \/ GainsJob(b, w)
<1>1. \A c \in Bookings \ {b} : Undisturbed(c)
  BY DEF LifeStepOf
<1>2. /\ ~IsJob(booking[b]) /\ IsJob(booking'[b]) /\ booking[b].status # "CANCELLED"
      /\ booking'[b].worker = booking[b].worker
  BY DEF IsAccepted, IsJob, JobStatuses, SameJob
<1>3. b \notin JobsOf(w) /\ b \notin CancelledAfterWork(w)
  BY <1>2, Members
<1>4. /\ booking[b].worker = w => activeJobs'[w] = activeJobs[w] + 1
      /\ booking[b].worker # w => activeJobs'[w] = activeJobs[w]
  BY WorkerCounted DEF IsAccepted
<1>7. Miscounts(w) \subseteq Miscounts(w)'
  BY <1>1, <1>2, <1>3, MiscountsKept DEF IsAccepted, SameWork
<1>5. CASE booking[b].worker = w
  <2>1. b \in JobsOf(w)'
    BY <1>2, <1>5, Members
  <2> QED
    BY <1>1, <1>3, <1>4, <1>5, <1>7, <2>1, OneBooking DEF GainsJob
<1>6. CASE booking[b].worker # w
  <2>1. b \notin JobsOf(w)'
    BY <1>2, <1>6, Members
  <2> QED
    BY <1>1, <1>3, <1>4, <1>6, <1>7, <2>1, OneBooking DEF KeepsJobs
<1> QED
  BY <1>5, <1>6

\* A job that is counted no more, done or cancelled, is one less for its worker.
LEMMA EndedLoses ==
  ASSUME Typed, NEW b \in Bookings, booking[b].worker \in Workers,
         LifeStepOf(b), JobEnds(b), IsJob(booking[b]),
         ~IsJob(booking'[b]), booking'[b].worker = booking[b].worker,
         booking'[b].resends = booking[b].resends, NEW w \in Workers
  PROVE  KeepsJobs(w) \/ LosesJob(b, w)
<1>1. \A c \in Bookings \ {b} : Undisturbed(c)
  BY DEF LifeStepOf
<1>2. b \notin JobsOf(w)' /\ b \notin CancelledAfterWork(w)
  BY Members DEF IsJob, JobStatuses
<1>3. /\ booking[b].worker = w => activeJobs'[w] = activeJobs[w] - 1
      /\ booking[b].worker # w => activeJobs'[w] = activeJobs[w]
  BY WorkerUncounted
<1>6. Miscounts(w) \subseteq Miscounts(w)'
  BY <1>1, <1>2, MiscountsKept
<1>4. CASE booking[b].worker = w
  <2>1. b \in JobsOf(w)
    BY <1>4, Members
  <2> QED
    BY <1>1, <1>2, <1>3, <1>4, <1>6, <2>1, OneBooking DEF LosesJob
<1>5. CASE booking[b].worker # w
  <2>1. b \notin JobsOf(w)
    BY <1>5, Members
  <2> QED
    BY <1>1, <1>2, <1>3, <1>5, <1>6, <2>1, OneBooking DEF KeepsJobs
<1> QED
  BY <1>4, <1>5

\* An invoice sent again from a dispute is one job less for a worker who has it
\* no more.
LEMMA ResentCounts ==
  ASSUME Typed, NEW b \in Bookings, booking[b].worker \in Workers, LifeStepOf(b),
         IsCompleted(b), booking[b].status = "DISPUTED", NEW w \in Workers
  PROVE  KeepsJobs(w) \/ LosesCount(<<b, booking[b].resends + 1>>, w)
<1> DEFINE n == booking[b].resends + 1
<1>1. \A c \in Bookings \ {b} : Undisturbed(c)
  BY DEF LifeStepOf
<1>2. /\ booking'[b].worker = booking[b].worker /\ booking'[b].resends = n
      /\ booking[b].resends < MaxResends /\ JobEnds(b)
  BY DEF IsCompleted, SameJob
<1>3. booking[b].resends \in Nat /\ n \in 1 .. MaxResends /\ n \in Nat
  BY <1>2, ConstantsAssumption DEF Typed, TypeOK, Row
<1>4. b \notin JobsOf(w) /\ b \notin JobsOf(w)' /\ b \notin CancelledAfterWork(w)
  BY Members DEF IsCompleted, IsJob, JobStatuses
<1>5. JobsOf(w)' = JobsOf(w)
  BY <1>1, <1>4, OneBooking
<1>6. Miscounts(w) \subseteq Miscounts(w)'
  <2>1. \A k \in Nat : Resent(booking[b], w, k) => Resent(booking'[b], w, k)
    BY <1>2, <1>3 DEF Resent
  <2> QED
    BY <1>1, <1>4, <2>1, MiscountsGrow
<1>7. /\ booking[b].worker = w => activeJobs'[w] = activeJobs[w] - 1
      /\ booking[b].worker # w => activeJobs'[w] = activeJobs[w]
  BY <1>2, WorkerUncounted
<1>8. CASE booking[b].worker = w
  <2>1. Resent(booking'[b], w, n) /\ ~Resent(booking[b], w, n) /\ n # 0
    BY <1>2, <1>3, <1>8 DEF Resent
  <2> HIDE DEF n
  <2>2. <<b, n>> \in Miscounts(w)' \ Miscounts(w)
    BY <1>3, <2>1, MiscountsAre
  <2> QED
    BY <1>5, <1>6, <1>7, <1>8, <2>2 DEF LosesCount, n
<1>9. CASE booking[b].worker # w
  BY <1>5, <1>6, <1>7, <1>9 DEF KeepsJobs
<1> QED
  BY <1>8, <1>9

\* A cancellation counts a job that ends once; an admin's cancel of a disputed
\* booking, which is done and no job, counts it again.
LEMMA CancelCounts ==
  ASSUME Typed, LifeInv, NEW b \in Bookings, booking[b].worker \in Workers,
         LifeStepOf(b), EndsOnRecord(b), NEW w \in Workers
  PROVE  KeepsJobs(w) \/ LosesJob(b, w) \/ LosesCount(<<b, 0>>, w)
<1>1. \A c \in Bookings \ {b} : Undisturbed(c)
  BY DEF LifeStepOf
<1>2. /\ booking'[b].status = "CANCELLED" /\ booking[b].status # "CANCELLED"
      /\ booking'[b].worker = booking[b].worker /\ booking'[b].completed = booking[b].completed
      /\ booking'[b].resends = booking[b].resends
  BY DEF EndsOnRecord, Cancelled, SameJob, SameWork, Terminal
<1>3. b \notin JobsOf(w)' /\ b \notin CancelledAfterWork(w)
  BY <1>2, Members DEF IsJob, JobStatuses
<1>4. PICK reason \in Reasons, review \in {"NOT_APPLICABLE", "PENDING_REVIEW", "APPROVED"} :
        CreateCancellation(b, reason, review) /\ CountedFor(b, reason)
  BY DEF EndsOnRecord
<1>8. Miscounts(w) \subseteq Miscounts(w)'
  BY <1>1, <1>2, <1>3, MiscountsKept
<1>5. CASE IsJob(booking[b]) /\ JobEnds(b)
  BY <1>2, <1>5, EndedLoses DEF IsJob, JobStatuses
<1>6. CASE ~IsJob(booking[b]) /\ UNCHANGED activeJobs
  <2>1. b \notin JobsOf(w)
    BY <1>6, Members
  <2> QED
    BY <1>1, <1>3, <1>6, <1>8, <2>1, OneBooking DEF KeepsJobs
<1>7. CASE booking[b].status = "DISPUTED" /\ reason = "ADMIN" /\ JobEnds(b)
  <2>1. b \notin JobsOf(w)
    BY <1>7, Members DEF IsJob, JobStatuses
  <2>2. booking[b].completed
    BY <1>7 DEF LifeInv, WorkInTime
  <2>3. cancellation'[b].reason = "ADMIN"
    BY <1>4, <1>7 DEF CreateCancellation, Typed, TypeOK
  <2>4. /\ booking[b].worker = w => activeJobs'[w] = activeJobs[w] - 1
        /\ booking[b].worker # w => activeJobs'[w] = activeJobs[w]
    BY <1>7, WorkerUncounted
  <2>5. CASE booking[b].worker = w
    <3>1. b \in CancelledAfterWork(w)'
      BY <1>2, <2>2, <2>3, <2>5, Members
    <3>2. ~Resent(booking[b], w, 0)
      BY DEF Resent
    <3>3. <<b, 0>> \in Miscounts(w)' \ Miscounts(w)
      BY <1>3, <3>1, <3>2, MiscountsAre
    <3> QED
      BY <1>1, <1>3, <1>8, <2>1, <2>4, <2>5, <3>3, OneBooking DEF LosesCount
  <2>6. CASE booking[b].worker # w
    BY <1>1, <1>3, <1>8, <2>1, <2>4, <2>6, OneBooking DEF KeepsJobs
  <2> QED
    BY <2>5, <2>6
<1> QED
  BY <1>4, <1>5, <1>6, <1>7 DEF CountedFor

\* A judgement counts nothing.
LEMMA JudgedKeeps ==
  ASSUME Typed, LifeInv, NEW b \in Bookings, LifeStepOf(b), IsJudged(b), NEW w \in Workers
  PROVE  KeepsJobs(w)
<1>1. \A c \in Bookings \ {b} : Undisturbed(c)
  BY DEF LifeStepOf
<1>2. booking'[b] = booking[b] /\ activeJobs' = activeJobs
  BY DEF IsJudged
<1>3. PICK outcome \in {"APPROVED", "REJECTED"} : ClaimReview(b, outcome)
  BY DEF IsJudged
<1>4. cancellation[b] \in CancellationRow
  BY <1>3 DEF ClaimReview, Verdict, Typed, TypeOK
<1>5. cancellation'[b].reason = cancellation[b].reason
  BY <1>3, <1>4 DEF ClaimReview, CancellationRow, Typed, TypeOK
<1>6. /\ b \in JobsOf(w)' <=> b \in JobsOf(w)
      /\ b \in CancelledAfterWork(w)' <=> b \in CancelledAfterWork(w)
  BY <1>2, <1>5, Members
<1> QED
  BY <1>1, <1>2, <1>6, OneBooking, MiscountsKept DEF KeepsJobs

\* A step does one of the four to the jobs of a worker.
LEMMA StepCounts ==
  ASSUME CommitmentInv, LifeInv, NEW b \in Bookings, LifeStepOf(b), NEW w \in Workers
  PROVE  \/ KeepsJobs(w) \/ GainsJob(b, w) \/ LosesJob(b, w)
         \/ \E m : LosesCount(m, w)
<1>1. Typed /\ HasWorker
  BY DEF CommitmentInv, Typed
<1>2. CASE Uncounted(b)
  BY <1>1, <1>2, UncountedKeeps
<1>3. CASE IsAccepted(b)
  <2>1. booking[b].worker \in Workers
    BY <1>1, <1>3 DEF HasWorker, IsAccepted
  <2> QED
    BY <1>1, <1>3, <2>1, AcceptedGains
<1>4. CASE IsCompleted(b)
  <2>1. booking[b].worker \in Workers
    BY <1>1, <1>4 DEF HasWorker, IsCompleted
  <2>2. CASE booking[b].status = "DISPUTED"
    BY <1>1, <1>4, <2>1, <2>2, ResentCounts
  <2>3. CASE booking[b].status # "DISPUTED"
    <3>1. /\ IsJob(booking[b]) /\ ~IsJob(booking'[b]) /\ JobEnds(b)
          /\ booking'[b].worker = booking[b].worker
          /\ booking'[b].resends = booking[b].resends
      BY <1>4, <2>3 DEF IsCompleted, IsJob, JobStatuses, SameJob
    <3> QED
      BY <1>1, <2>1, <3>1, EndedLoses
  <2> QED
    BY <2>2, <2>3
<1>5. CASE EndsOnRecord(b)
  <2>1. booking[b].worker \in Workers
    BY <1>1, <1>5 DEF HasWorker, EndsOnRecord
  <2> QED
    BY <1>1, <1>5, <2>1, CancelCounts
<1>6. CASE IsJudged(b)
  BY <1>1, <1>6, JudgedKeeps
<1> QED
  BY <1>2, <1>3, <1>4, <1>5, <1>6 DEF LifeStepOf

-----------------------------------------------------------------------------
(* Counting.                                                               *)

\* Miscounts are written in a finite table.
LEMMA FiniteTable ==
  ASSUME NEW S, IsFiniteSet(S)
  PROVE  IsFiniteSet(S \X (0 .. MaxResends))
<1> DEFINE T == 0 .. MaxResends
<1>1. MaxResends \in Int /\ 0 \in Int
  BY ConstantsAssumption
<1>2. IsFiniteSet(T)
  BY <1>1, FS_Interval
<1> HIDE DEF T
<1>3. IsFiniteSet(S \X T)
  BY <1>2, FS_Product
<1> QED
  BY <1>3 DEF T

\* The jobs of a worker are bookings made, and so are those of his miscounts.
LEMMA CountedAreMade ==
  ASSUME LifeInv, IsFiniteSet(BookingsMade), NEW w \in Workers
  PROVE  /\ IsFiniteSet(JobsOf(w)) /\ Cardinality(JobsOf(w)) \in Nat
         /\ IsFiniteSet(Miscounts(w)) /\ Cardinality(Miscounts(w)) \in Nat
<1>1. JobsOf(w) \subseteq BookingsMade
  BY DEF JobsOf, BookingsMade, JobStatuses
<1>2. Miscounts(w) \subseteq BookingsMade \X (0 .. MaxResends)
  <2>1. CancelledAfterWork(w) \subseteq BookingsMade
    BY DEF CancelledAfterWork, BookingsMade
  <2>2. ASSUME NEW c \in Bookings, NEW n \in 1 .. MaxResends, n <= booking[c].resends
        PROVE  c \in BookingsMade
    BY <2>2 DEF BookingsMade, LifeInv, WorkInTime
  <2>3. ASSUME NEW c \in Bookings, NEW n \in Nat, <<c, n>> \in Miscounts(w)
        PROVE  <<c, n>> \in BookingsMade \X (0 .. MaxResends)
    BY <2>1, <2>2, <2>3, MiscountsAre, ConstantsAssumption DEF Resent
  <2> QED
    BY <2>3, MiscountsAre
<1>3. IsFiniteSet(BookingsMade \X (0 .. MaxResends))
  BY FiniteTable
<1> QED
  BY <1>1, <1>2, <1>3, FS_Subset, FS_CardinalityType

\* A step makes one booking at most.
LEMMA StepMakesOne ==
  ASSUME IsFiniteSet(BookingsMade), NEW b \in Bookings, \A c \in Bookings \ {b} : Undisturbed(c)
  PROVE  IsFiniteSet(BookingsMade')
<1>1. BookingsMade' \subseteq BookingsMade \cup {b}
  BY DEF BookingsMade, Undisturbed
<1>2. IsFiniteSet(BookingsMade \cup {b})
  BY FS_AddElement
<1> QED
  BY <1>1, <1>2, FS_Subset

\* What a step does to a worker's jobs keeps the bounds on their count.
LEMMA BoundsKept ==
  ASSUME NEW w \in Workers, NEW b, activeJobs[w] \in Int,
         IsFiniteSet(JobsOf(w)), Cardinality(JobsOf(w)) \in Nat,
         IsFiniteSet(Miscounts(w)), Cardinality(Miscounts(w)) \in Nat,
         IsFiniteSet(Miscounts(w)'), Cardinality(Miscounts(w)') \in Nat,
         activeJobs[w] <= Cardinality(JobsOf(w)),
         activeJobs[w] >= Cardinality(JobsOf(w)) - Cardinality(Miscounts(w)),
         KeepsJobs(w) \/ GainsJob(b, w) \/ LosesJob(b, w) \/ \E m : LosesCount(m, w)
  PROVE  /\ activeJobs'[w] <= Cardinality(JobsOf(w)')
         /\ activeJobs'[w] >= Cardinality(JobsOf(w)') - Cardinality(Miscounts(w)')
<1>1. Miscounts(w) \subseteq Miscounts(w)'
  BY DEF KeepsJobs, GainsJob, LosesJob, LosesCount
<1>2. Cardinality(Miscounts(w)) <= Cardinality(Miscounts(w)')
  BY <1>1, FS_Subset
<1>3. CASE KeepsJobs(w)
  BY <1>2, <1>3 DEF KeepsJobs
<1>4. CASE GainsJob(b, w)
  <2>1. Cardinality(JobsOf(w)') = Cardinality(JobsOf(w)) + 1
    BY <1>4, FS_AddElement DEF GainsJob
  <2> QED
    BY <1>2, <1>4, <2>1 DEF GainsJob
<1>5. CASE LosesJob(b, w)
  <2>1. Cardinality(JobsOf(w)') = Cardinality(JobsOf(w)) - 1
    BY <1>5, FS_RemoveElement DEF LosesJob
  <2> QED
    BY <1>2, <1>5, <2>1 DEF LosesJob
<1>6. ASSUME NEW m, LosesCount(m, w)
      PROVE  /\ activeJobs'[w] <= Cardinality(JobsOf(w)')
             /\ activeJobs'[w] >= Cardinality(JobsOf(w)') - Cardinality(Miscounts(w)')
  <2>1. Cardinality(Miscounts(w) \cup {m}) = Cardinality(Miscounts(w)) + 1
    BY <1>6, FS_AddElement DEF LosesCount
  <2>2. Cardinality(Miscounts(w) \cup {m}) <= Cardinality(Miscounts(w)')
    <3>1. Miscounts(w) \cup {m} \subseteq Miscounts(w)'
      BY <1>6 DEF LosesCount
    <3> QED
      BY <3>1, FS_Subset
  <2>3. activeJobs'[w] = activeJobs[w] - 1 /\ Cardinality(JobsOf(w)') = Cardinality(JobsOf(w))
    BY <1>6 DEF LosesCount
  <2> QED
    BY <2>1, <2>2, <2>3
<1> QED
  BY <1>3, <1>4, <1>5, <1>6

\* At first nothing is booked.
LEMMA InitCounts == Init => CountInv
<1> SUFFICES ASSUME Init PROVE CountInv
  OBVIOUS
<1>1. BookingsMade = {}
  BY DEF Init, NoRow, BookingsMade
<1>2. ASSUME NEW w \in Workers
      PROVE  JobsOf(w) = {} /\ Miscounts(w) = {} /\ activeJobs[w] = 0
  BY ConstantsAssumption DEF Init, NoRow, JobsOf, Miscounts, CancelledAfterWork, JobStatuses
<1>3. IsFiniteSet({}) /\ Cardinality({}) = 0
  BY FS_EmptySet
<1> QED
  BY <1>1, <1>2, <1>3 DEF CountInv, JobCountBounded

\* Every step keeps the bounds.
LEMMA StepKeepsCount ==
  ASSUME CommitmentInv, LifeInv, CountInv, [Next]_vars
  PROVE  CountInv'
<1>1. Sound
  BY DEF CommitmentInv, Sound, Typed
<1>2. LifeStep
  BY <1>1, StepLives
<1>5. LifeInv'
  BY StepEndsWell
<1>3. CASE UNCHANGED activeJobs /\ \A b \in Bookings : Undisturbed(b)
  <2>1. BookingsMade' = BookingsMade
    BY <1>3 DEF BookingsMade, Undisturbed
  <2>2. ASSUME NEW w \in Workers
        PROVE  /\ JobsOf(w)' = JobsOf(w) /\ Miscounts(w)' = Miscounts(w)
               /\ activeJobs'[w] = activeJobs[w]
    BY <1>3 DEF JobsOf, Miscounts, CancelledAfterWork, Undisturbed, RecordKept
  <2> QED
    BY <2>1, <2>2 DEF CountInv, JobCountBounded
<1>4. ASSUME NEW b \in Bookings, LifeStepOf(b)
      PROVE  CountInv'
  <2>1. IsFiniteSet(BookingsMade')
    BY <1>4, StepMakesOne DEF LifeStepOf, CountInv
  <2>2. ASSUME NEW w \in Workers
        PROVE  /\ activeJobs'[w] <= Cardinality(JobsOf(w)')
               /\ activeJobs'[w] >= Cardinality(JobsOf(w)') - Cardinality(Miscounts(w)')
    <3>1. /\ IsFiniteSet(JobsOf(w)) /\ Cardinality(JobsOf(w)) \in Nat
          /\ IsFiniteSet(Miscounts(w)) /\ Cardinality(Miscounts(w)) \in Nat
      BY CountedAreMade DEF CountInv
    <3>2. IsFiniteSet(Miscounts(w)') /\ Cardinality(Miscounts(w)') \in Nat
      <4>1. Miscounts(w)' \subseteq BookingsMade' \X (0 .. MaxResends)
        <5>1. CancelledAfterWork(w)' \subseteq BookingsMade'
          BY DEF CancelledAfterWork, BookingsMade
        <5>2. ASSUME NEW c \in Bookings, NEW n \in 1 .. MaxResends, n <= booking'[c].resends
              PROVE  c \in BookingsMade'
          BY <1>5, <5>2 DEF BookingsMade, LifeInv, WorkInTime
        <5>3. ASSUME NEW c \in Bookings, NEW n \in Nat, <<c, n>> \in Miscounts(w)'
              PROVE  <<c, n>> \in BookingsMade' \X (0 .. MaxResends)
          BY <5>1, <5>2, <5>3, MiscountsAre, ConstantsAssumption DEF Resent
        <5> QED
          BY <5>3, MiscountsAre
      <4>2. IsFiniteSet(BookingsMade' \X (0 .. MaxResends))
        BY <2>1, FiniteTable
      <4> QED
        BY <4>1, <4>2, FS_Subset, FS_CardinalityType
    <3>3. KeepsJobs(w) \/ GainsJob(b, w) \/ LosesJob(b, w) \/ \E m : LosesCount(m, w)
      BY <1>4, StepCounts
    <3>4. /\ activeJobs[w] \in Int
          /\ activeJobs[w] <= Cardinality(JobsOf(w))
          /\ activeJobs[w] >= Cardinality(JobsOf(w)) - Cardinality(Miscounts(w))
      BY <1>1 DEF Sound, Typed, TypeOK, CountInv, JobCountBounded
    <3> QED
      BY <3>1, <3>2, <3>3, <3>4, BoundsKept
  <2> QED
    BY <2>1, <2>2 DEF CountInv, JobCountBounded
<1> QED
  BY <1>2, <1>3, <1>4 DEF LifeStep

\* activeJobCount, which seven handlers raise and lower, never overstates the
\* jobs a worker has, and falls short of them only by the bookings an admin
\* cancelled after the work was done and by the invoices sent again from a
\* dispute, however many bookings, calls and disputes there are.
THEOREM AlwaysCounted == Spec => []JobCountBounded
<1>1. CommitmentInv /\ LifeInv /\ CountInv /\ [Next]_vars => CountInv'
  BY StepKeepsCount
<1>2. CountInv => JobCountBounded
  BY DEF CountInv
<1> QED
  BY <1>1, <1>2, InitCounts, LivesHold, PTL DEF Spec
=============================================================================
