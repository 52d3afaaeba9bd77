--------------------------- MODULE PaymentProofs ----------------------------
(***************************************************************************)
(* Theorems about Payment for every value of its constants: its types, one *)
(* refund at a time, no refund beside a payout, no completion without      *)
(* money, and that Payment implements Earnings.                            *)
(*                                                                         *)
(* Every step is one call going on while it changes the rows and the       *)
(* provider in a way that keeps what the others rely on: World is the      *)
(* invariant of rows and provider, Kept says what a step may not take      *)
(* away, and Sound is what a call relies on.                               *)
(***************************************************************************)
EXTENDS Payment, TLAPS

WorldTyped ==
    /\ booking \in BookingStatuses
    /\ payment \in PaymentRow
    /\ payout \in {"NONE", "OPEN", "PAID", "CANCELLED"}
    /\ invoice \in [Invoices -> InvoiceStatuses]
    /\ refund \in [Refunds -> RefundStatuses]
    /\ request \in [Requests -> RequestStatuses]
    /\ flagged \in BOOLEAN
    /\ faults \in 0 .. MaxFaults
    /\ crashes \in 0 .. MaxCrashes

RefundMade == \E r \in Refunds : refund[r] # "NONE"
Captured == booking = "COMPLETED" \/ payment.status = "COMPLETED" \/ payout # "NONE" \/ RefundMade

World ==
    /\ WorldTyped
    /\ Chained
    /\ payment.refund # NoId => refund[payment.refund] # "NONE"
    /\ payout # "NONE" => payment.settled
    /\ payment.reversed \/ RefundMade => PayoutStopped
    /\ Captured => MoneyIn

Kept ==
    /\ \A r \in Refunds : refund[r] # "NONE" => refund'[r] # "NONE"
    /\ \A i \in Invoices : invoice[i] \in Received => invoice'[i] \in Received
    /\ PayoutStopped => PayoutStopped'
    /\ MoneyIn => MoneyIn'

Sound(k) == k \in CallRecord /\ InHand(k) /\ Relies(k)
CallsSound == call \in [Calls -> CallRecord] /\ \A c \in Calls : Sound(call[c])
Inv == World /\ CallsSound

-----------------------------------------------------------------------------
(* The invariant is what the runs check. *)

(* The conjuncts of the two, regrouped by rows and calls.                   *)
LEMMA InvMeans == Inv <=> TypeOK /\ PaymentInv
BY DEF Inv, World, WorldTyped, CallsSound, Sound, TypeOK, PaymentInv, RefundMade, Captured,
       RefundedNotPaidOut

(* A chain has one living end.                                              *)
LEMMA InvIsOneRefund == Inv => OneRefund
<1> SUFFICES ASSUME Inv, NEW r \in Refunds, NEW s \in Refunds,
                    refund[r] \in LiveRefund, refund[s] \in LiveRefund
             PROVE  r = s
  BY DEF OneRefund
<1>1. r \in Nat /\ s \in Nat
  BY DEF Refunds
<1>2. ~(r < s) /\ ~(s < r)
  BY DEF Inv, World, Chained, LiveRefund
<1> QED BY <1>1, <1>2

-----------------------------------------------------------------------------
(* How a step changes the calls. *)

(* What a call relies on stays true in a step that keeps it.                 *)
LEMMA StaysSound ==
    ASSUME NEW k, Sound(k), Kept
    PROVE  Sound(k)'
<1>1. k.invoice \in Invoices \cup {NoId} /\ k.refund \in Refunds \cup {NoId}
  BY DEF Sound, CallRecord
<1>2. k.refund # NoId => refund'[k.refund] # "NONE"
  BY <1>1 DEF Sound, Relies, Kept
<1>3. k.at = "finalize" => invoice'[k.invoice] \in Received
  BY <1>1 DEF Sound, Relies, Kept, InHand
<1>4. k.at \in {"refund", "undo", "manualUndo"} => PayoutStopped'
  BY DEF Sound, Relies, Kept
<1>5. k.at \in {"stop", "refund"} => MoneyIn'
  BY DEF Sound, Relies, Kept
<1>6. k \in CallRecord /\ InHand(k)
  BY DEF Sound
<1> QED BY <1>2, <1>3, <1>4, <1>5, <1>6 DEF Sound, Relies, CallRecord, InHand

(* A call that comes to another step has in hand what it needs there.       *)
LEMMA CallMoves ==
    ASSUME CallsSound, Kept, NEW c \in Calls, NEW k, Sound(k)',
           call' = [call EXCEPT ![c] = k]
    PROVE  CallsSound'
<1>1. k \in CallRecord
  BY DEF Sound
<1>2. call' \in [Calls -> CallRecord]
  BY <1>1 DEF CallsSound
<1>3. ASSUME NEW d \in Calls PROVE Sound(call[d])'
  <2>1. CASE d = c
    <3>1. call'[d] = k
      BY <2>1 DEF CallsSound
    <3> QED BY <3>1 DEF Sound, Relies, InHand
  <2>2. CASE d # c
    <3>1. call'[d] = call[d]
      BY <2>2 DEF CallsSound
    <3>2. PICK m : m = call[d]
      OBVIOUS
    <3>3. Sound(m)
      BY <3>2 DEF CallsSound
    <3>4. Sound(m)'
      BY <3>3, StaysSound
    <3> QED BY <3>1, <3>2, <3>4 DEF Sound, Relies, InHand
  <2> QED BY <2>1, <2>2
<1> QED BY <1>2, <1>3 DEF CallsSound

(* Calls that stay where they are keep what they rely on.                   *)
LEMMA CallsStay ==
    ASSUME CallsSound, Kept, UNCHANGED call
    PROVE  CallsSound'
<1>1. ASSUME NEW d \in Calls PROVE Sound(call[d])'
  <2>1. PICK m : m = call[d]
    OBVIOUS
  <2>2. Sound(m)'
    BY <2>1, StaysSound DEF CallsSound
  <2> QED BY <2>1, <2>2 DEF Sound, Relies, InHand
<1> QED BY <1>1 DEF CallsSound

(* A call returns, throws, begins, goes on.                                  *)
LEMMA CallReturns ==
    ASSUME CallsSound, Kept, NEW c \in Calls, Return(c)
    PROVE  CallsSound'
<1>1. Idle \in CallRecord /\ InHand(Idle)
  BY DEF Idle, CallRecord, InHand, Steps, RefundStatuses
<1>2. PICK k : k = Idle
  OBVIOUS
<1>3. Sound(k)'
  BY <1>1, <1>2 DEF Sound, Relies, Idle, InHand
<1> QED BY <1>2, <1>3, CallMoves DEF Return

\* What a call may find at a step that needs nothing in hand.
FreeSteps == Steps \ {"resume", "recheck", "store", "finalize", "reconcile", "expire", "refund",
                      "storeRefund", "remoteRefund", "refundDone", "reopen", "failRequest",
                      "manualStop", "manualUndo", "manualClaim", "undo", "stop"}

(* A call that needs nothing any more.                                      *)
LEMMA CallTurns ==
    ASSUME CallsSound, Kept, NEW c \in Calls, NEW at \in FreeSteps, Turn(c, at)
    PROVE  CallsSound'
<1>1. PICK k : k = [Idle EXCEPT !.at = at]
  OBVIOUS
<1>2. k \in CallRecord /\ InHand(k) /\ k.refund = NoId /\ k.at = at
  BY <1>1 DEF Idle, CallRecord, InHand, FreeSteps, RefundStatuses
<1>3. Sound(k)'
  BY <1>2 DEF Sound, Relies, InHand, FreeSteps
<1> QED BY <1>1, <1>3, CallMoves DEF Turn

(* A call that goes on with what it has, in the rows as they are then.      *)
LEMMA CallContinues ==
    ASSUME CallsSound, Kept, NEW c \in Calls, NEW at \in Steps, Continue(c, at),
           at \in {"resume", "recheck", "store", "finalize", "reconcile", "expire", "refund"} =>
               call[c].invoice # NoId,
           at \in {"storeRefund", "remoteRefund", "refundDone", "reopen"} => call[c].refund # NoId,
           at \in {"failRequest", "manualStop", "manualUndo", "manualClaim"} => call[c].request # NoId,
           at = "finalize" => invoice'[call[c].invoice] \in Received,
           at \in {"refund", "undo", "manualUndo"} => PayoutStopped',
           at \in {"stop", "refund"} => MoneyIn'
    PROVE  CallsSound'
<1>1. PICK k : k = [call[c] EXCEPT !.at = at]
  OBVIOUS
<1>2. PICK m : m = call[c]
  OBVIOUS
<1>3. Sound(m) /\ m \in CallRecord
  BY <1>2 DEF CallsSound, Sound
<1>4. Sound(m)'
  BY <1>3, StaysSound
<1>5. /\ k \in CallRecord /\ k.at = at /\ k.invoice = m.invoice /\ k.refund = m.refund
      /\ k.request = m.request /\ k.for = m.for
  BY <1>1, <1>2, <1>3 DEF CallRecord
<1>6. Sound(k)'
  BY <1>2, <1>3, <1>4, <1>5 DEF Sound, Relies, InHand
<1>7. call' = [call EXCEPT ![c] = k]
  BY <1>1 DEF Continue
<1> QED BY <1>6, <1>7, CallMoves

\* A step that needs nothing in hand may keep what there is.
LEMMA CallGoesOn ==
    ASSUME CallsSound, Kept, NEW c \in Calls, NEW at \in FreeSteps, Continue(c, at)
    PROVE  CallsSound'
BY CallContinues DEF FreeSteps

(* A call that begins has nothing in hand.                                  *)
LEMMA CallBegins ==
    ASSUME CallsSound, Kept, NEW c \in Calls, NEW at \in FreeSteps, Begin(c, at)
    PROVE  CallsSound'
BY CallGoesOn DEF Begin, Continue

(* A call that throws goes back to what waits for it.                       *)
LEMMA CallThrows ==
    ASSUME CallsSound, Kept, NEW c \in Calls, Throw(c)
    PROVE  CallsSound'
<1>1. CASE call[c].for = "checkout"
  <2>1. Continue(c, "prepare")
    BY <1>1 DEF Throw
  <2>2. "prepare" \in FreeSteps
    BY DEF FreeSteps, Steps
  <2> QED BY <2>1, <2>2, CallGoesOn
<1>2. CASE call[c].for = "request"
  <2>1. Continue(c, "failRequest")
    BY <1>2 DEF Throw
  <2>2. call[c].request # NoId /\ "failRequest" \in Steps
    BY <1>2 DEF CallsSound, Sound, InHand, Steps
  <2> QED BY <2>1, <2>2, CallContinues
<1>3. CASE call[c].for \notin {"checkout", "request"}
  <2>1. Return(c)
    BY <1>3 DEF Throw
  <2> QED BY <2>1, CallReturns
<1> QED BY <1>1, <1>2, <1>3

\* A call reads the row, and has its invoice in hand.
LEMMA CallFinds ==
    ASSUME CallsSound, Kept, payment \in PaymentRow, NEW c \in Calls, NEW at \in Steps, Found(c, at),
           at \notin {"refund", "storeRefund", "remoteRefund", "refundDone", "reopen", "failRequest",
                      "manualStop", "manualUndo", "manualClaim", "undo", "stop"},
           at = "prepare" \/ payment.invoice # NoId,
           at = "finalize" => invoice'[payment.invoice] \in Received
    PROVE  CallsSound'
<1>1. PICK k : k = [call[c] EXCEPT !.at = at, !.found = payment.status # "NONE",
                                   !.invoice = payment.invoice]
  OBVIOUS
<1>2. PICK m : m = call[c]
  OBVIOUS
<1>3. Sound(m) /\ m \in CallRecord
  BY <1>2 DEF CallsSound, Sound
<1>4. Sound(m)'
  BY <1>3, StaysSound
<1>5. payment.invoice \in Invoices \cup {NoId}
  BY DEF PaymentRow
<1>6. /\ k \in CallRecord /\ k.at = at /\ k.invoice = payment.invoice /\ k.refund = m.refund
      /\ k.request = m.request /\ k.for = m.for
  BY <1>1, <1>2, <1>3, <1>5 DEF CallRecord
<1>7. Sound(k)'
  BY <1>2, <1>3, <1>4, <1>6 DEF Sound, Relies, InHand
<1>8. call' = [call EXCEPT ![c] = k]
  BY <1>1 DEF Found
<1> QED BY <1>7, <1>8, CallMoves

-----------------------------------------------------------------------------
(* How a step changes the rows and the provider. *)

(* Faults are bounded.                                                      *)
LEMMA FaultTyped ==
    ASSUME WorldTyped, Fault \/ NoFault
    PROVE  faults' \in 0 .. MaxFaults
BY BoundsAssumption DEF WorldTyped, Fault, NoFault

\* A step that only reads.
LEMMA WorldSame ==
    ASSUME World, UNCHANGED <<rows, remote>>, faults' \in 0 .. MaxFaults, crashes' \in 0 .. MaxCrashes
    PROVE  World' /\ Kept
<1>1. /\ booking' = booking /\ payment' = payment /\ payout' = payout /\ invoice' = invoice
      /\ refund' = refund /\ request' = request /\ flagged' = flagged
  BY DEF rows, remote
<1> QED BY <1>1 DEF World, WorldTyped, Chained, RefundMade, Captured, PayoutStopped, MoneyIn, Kept

\* A step that writes rows, and takes back neither a settlement nor the money.
LEMMA WorldWritten ==
    ASSUME World, UNCHANGED remote,
           booking' \in BookingStatuses, payment' \in PaymentRow,
           request' \in [Requests -> RequestStatuses], flagged' \in BOOLEAN,
           faults' \in 0 .. MaxFaults, crashes' \in 0 .. MaxCrashes,
           payout' \in {"NONE", "OPEN", "PAID", "CANCELLED"},
           payment.platformFunded => payment'.platformFunded,
           payment'.refund # NoId => refund[payment'.refund] # "NONE",
           payout' # "NONE" => payment'.settled,
           PayoutStopped => PayoutStopped',
           payment'.reversed => payment.reversed \/ PayoutStopped',
           booking' = "COMPLETED" \/ payment'.status = "COMPLETED" \/ payout' # "NONE" =>
               Captured \/ MoneyIn'
    PROVE  World' /\ Kept
<1>1. invoice' = invoice /\ refund' = refund
  BY DEF remote
<1>2. MoneyIn => MoneyIn'
  BY <1>1 DEF MoneyIn
<1>3. Kept
  BY <1>1, <1>2 DEF Kept
<1>4. RefundMade' = RefundMade /\ (Chained => Chained')
  BY <1>1 DEF RefundMade, Chained
<1>5. Captured' => MoneyIn'
  BY <1>2, <1>4 DEF Captured, World
<1>6. payment'.reversed \/ RefundMade' => PayoutStopped'
  BY <1>4 DEF World
<1>7. WorldTyped'
  BY <1>1 DEF World, WorldTyped
<1> QED BY <1>1, <1>3, <1>4, <1>5, <1>6, <1>7 DEF World

\* A step that writes the payment row alone.
LEMMA PaymentWritten ==
    ASSUME World, UNCHANGED <<booking, payout, request, flagged, remote, faults, crashes>>,
           payment' \in PaymentRow,
           payment'.platformFunded = payment.platformFunded,
           payment'.settled = payment.settled,
           payment'.refund # NoId => refund[payment'.refund] # "NONE",
           payment'.reversed => payment.reversed \/ PayoutStopped,
           payment'.status = "COMPLETED" => Captured
    PROVE  World' /\ Kept
<1>1. UNCHANGED remote /\ booking' = booking /\ payout' = payout /\ request' = request
      /\ flagged' = flagged /\ faults' = faults /\ crashes' = crashes
  OBVIOUS
<1>2. PayoutStopped' = PayoutStopped
  BY <1>1 DEF PayoutStopped
<1>3. booking' = "COMPLETED" \/ payment'.status = "COMPLETED" \/ payout' # "NONE" => Captured
  BY <1>1 DEF Captured
<1>4. /\ booking' \in BookingStatuses /\ request' \in [Requests -> RequestStatuses]
      /\ flagged' \in BOOLEAN /\ faults' \in 0 .. MaxFaults /\ crashes' \in 0 .. MaxCrashes
      /\ payout' \in {"NONE", "OPEN", "PAID", "CANCELLED"}
      /\ (payout' # "NONE" => payment'.settled)
  BY <1>1 DEF World, WorldTyped
<1> QED BY <1>1, <1>2, <1>3, <1>4, WorldWritten

\* A step that writes requests and flags, or moves the booking to a status
\* that is not COMPLETED.
LEMMA OthersWritten ==
    ASSUME World, UNCHANGED <<payment, payout, remote, faults, crashes>>,
           booking' \in BookingStatuses, booking' = "COMPLETED" => booking = "COMPLETED",
           request' \in [Requests -> RequestStatuses], flagged' \in BOOLEAN
    PROVE  World' /\ Kept
<1>1. /\ UNCHANGED remote /\ payment' = payment /\ payout' = payout /\ faults' = faults
      /\ crashes' = crashes
  OBVIOUS
<1>2. PayoutStopped' = PayoutStopped
  BY <1>1 DEF PayoutStopped
<1>3. booking' = "COMPLETED" \/ payment'.status = "COMPLETED" \/ payout' # "NONE" => Captured
  BY <1>1 DEF Captured
<1>4. /\ payment' \in PaymentRow /\ faults' \in 0 .. MaxFaults /\ crashes' \in 0 .. MaxCrashes
      /\ payout' \in {"NONE", "OPEN", "PAID", "CANCELLED"}
      /\ (payment'.refund # NoId => refund[payment'.refund] # "NONE")
      /\ (payout' # "NONE" => payment'.settled)
      /\ (payment'.reversed => payment.reversed \/ PayoutStopped')
  BY <1>1 DEF World, WorldTyped
<1> QED BY <1>1, <1>2, <1>3, <1>4, WorldWritten

\* An invoice is minted, paid, or no longer payable.
LEMMA InvoiceMoves ==
    ASSUME World, UNCHANGED <<rows, refund>>, faults' \in 0 .. MaxFaults, crashes' = crashes,
           invoice' \in [Invoices -> InvoiceStatuses],
           \A i \in Invoices : invoice[i] \in Received => invoice'[i] = invoice[i]
    PROVE  World' /\ Kept
<1>1. /\ booking' = booking /\ payment' = payment /\ payout' = payout
      /\ refund' = refund /\ request' = request /\ flagged' = flagged
  BY DEF rows
<1>2. MoneyIn => MoneyIn'
  BY <1>1 DEF MoneyIn, Received
<1>3. Kept
  BY <1>1, <1>2 DEF Kept, PayoutStopped
<1>4. Captured' = Captured /\ RefundMade' = RefundMade /\ PayoutStopped' = PayoutStopped
      /\ Chained' = Chained
  BY <1>1 DEF Captured, RefundMade, PayoutStopped, Chained
<1>5. WorldTyped'
  BY <1>1 DEF World, WorldTyped
<1> QED BY <1>1, <1>2, <1>3, <1>4, <1>5 DEF World

\* A refund is made after those before it failed, or ends.
LEMMA RefundMoves ==
    ASSUME World, UNCHANGED <<rows, invoice>>, faults' \in 0 .. MaxFaults, crashes' = crashes,
           NEW r \in Refunds, NEW s \in RefundStatuses \ {"NONE"},
           refund' = [refund EXCEPT ![r] = s],
           \/ refund[r] = "PENDING"
           \/ /\ refund[r] = "NONE" /\ PayoutStopped /\ MoneyIn
              /\ \A q \in Refunds : q < r => refund[q] = "FAILED"
    PROVE  World' /\ Kept
<1>1. /\ booking' = booking /\ payment' = payment /\ payout' = payout
      /\ invoice' = invoice /\ request' = request /\ flagged' = flagged
  BY DEF rows
<1>2. /\ refund \in [Refunds -> RefundStatuses] /\ refund' \in [Refunds -> RefundStatuses]
      /\ refund'[r] = s /\ \A q \in Refunds \ {r} : refund'[q] = refund[q]
  BY DEF World, WorldTyped
<1>3. \A q \in Refunds : q \in Nat
  BY DEF Refunds
<1>4. MoneyIn' = MoneyIn /\ PayoutStopped' = PayoutStopped
  BY <1>1 DEF MoneyIn, PayoutStopped
<1>5. Kept
  BY <1>1, <1>2, <1>4 DEF Kept
<1>6. Chained'
  <2> SUFFICES ASSUME NEW p \in Refunds, NEW q \in Refunds, p < q, refund'[q] # "NONE"
               PROVE  refund'[p] = "FAILED"
    BY DEF Chained
  <2>1. Chained
    BY DEF World
  <2>2. CASE q = r
    BY <1>2, <1>3, <2>1, <2>2 DEF Chained
  <2>3. CASE q # r
    <3>1. refund[p] = "FAILED"
      BY <1>2, <2>1, <2>3 DEF Chained
    <3> QED BY <1>2, <3>1
  <2> QED BY <2>2, <2>3
<1>7. RefundMade => PayoutStopped /\ MoneyIn
  BY DEF World, Captured
<1>8. PayoutStopped /\ MoneyIn
  BY <1>2, <1>7 DEF RefundMade
<1>9. WorldTyped'
  BY <1>1, <1>2 DEF World, WorldTyped
<1>10. /\ payment'.refund # NoId => refund'[payment'.refund] # "NONE"
       /\ payout' # "NONE" => payment'.settled
  BY <1>1, <1>2 DEF World, WorldTyped, PaymentRow
<1> QED BY <1>4, <1>5, <1>6, <1>8, <1>9, <1>10 DEF World

-----------------------------------------------------------------------------
(* One lemma for each kind of step. *)

(* Nothing is paid and nobody is at work.                                   *)
THEOREM InitInv == Init => Inv
<1> SUFFICES ASSUME Init PROVE Inv
  OBVIOUS
<1>1. Idle \in CallRecord /\ InHand(Idle) /\ Relies(Idle)
  BY DEF Idle, CallRecord, InHand, Relies, Steps, RefundStatuses
<1>2. CallsSound
  BY <1>1 DEF Init, CallsSound, Sound
<1>3. WorldTyped
  <2>1. payment \in PaymentRow
    BY DEF Init, PaymentRow, PaymentStatuses, RefundStatuses
  <2>2. faults \in 0 .. MaxFaults /\ crashes \in 0 .. MaxCrashes
    BY BoundsAssumption DEF Init
  <2>3. /\ invoice \in [Invoices -> InvoiceStatuses] /\ refund \in [Refunds -> RefundStatuses]
        /\ request \in [Requests -> RequestStatuses]
    BY DEF Init, InvoiceStatuses, RefundStatuses, RequestStatuses
  <2> QED BY <2>1, <2>2, <2>3 DEF Init, WorldTyped, BookingStatuses
<1>4. ~RefundMade /\ Chained /\ ~Captured /\ ~payment.reversed
      /\ payment.refund = NoId /\ payout = "NONE"
  BY DEF Init, RefundMade, Chained, Captured
<1> QED BY <1>2, <1>3, <1>4 DEF Inv, World

\* Money that came in, and what the provider does.
LEMMA ProviderStep ==
    ASSUME Inv, Provider
    PROVE  Inv'
<1>1. World /\ CallsSound
  BY DEF Inv
<1>2. faults \in 0 .. MaxFaults /\ crashes \in 0 .. MaxCrashes
  BY <1>1 DEF World, WorldTyped
<1>3. ASSUME Kept, UNCHANGED call PROVE CallsSound'
  BY <1>1, <1>3, CallsStay
<1>4. ASSUME NEW i \in Invoices, PayInvoice(i) \/ InvoiceExpires(i) PROVE Inv'
  <2>1. invoice \in [Invoices -> InvoiceStatuses] /\ invoice[i] = "PENDING"
    BY <1>1, <1>4 DEF World, WorldTyped, PayInvoice, InvoiceExpires
  <2>2. PICK s \in {"PAID", "SHORT", "EXPIRED"} : invoice' = [invoice EXCEPT ![i] = s]
    BY <1>4 DEF PayInvoice, InvoiceExpires, Received
  <2>3. UNCHANGED <<rows, refund>> /\ UNCHANGED call /\ faults' = faults /\ crashes' = crashes
    BY <1>4 DEF PayInvoice, InvoiceExpires
  <2>4. /\ invoice' \in [Invoices -> InvoiceStatuses]
        /\ \A j \in Invoices : invoice[j] \in Received => invoice'[j] = invoice[j]
    BY <2>1, <2>2 DEF InvoiceStatuses, Received
  <2>5. World' /\ Kept
    BY <1>1, <1>2, <2>3, <2>4, InvoiceMoves
  <2> QED BY <1>3, <2>3, <2>5 DEF Inv
<1>5. ASSUME NEW r \in Refunds, RefundEnds(r) PROVE Inv'
  <2>1. PICK s \in RefundStatuses \ {"NONE"} : refund' = [refund EXCEPT ![r] = s]
    BY <1>5 DEF RefundEnds, RefundStatuses
  <2>2. World' /\ Kept
    BY <1>1, <1>2, <1>5, <2>1, RefundMoves DEF RefundEnds
  <2> QED BY <1>3, <1>5, <2>2 DEF Inv, RefundEnds
<1>6. ASSUME PayoutReported PROVE Inv'
  <2>1. /\ UNCHANGED remote /\ UNCHANGED call /\ booking' = booking /\ payment' = payment
        /\ request' = request /\ flagged' = flagged /\ faults' = faults /\ crashes' = crashes
        /\ payout = "OPEN" /\ payout' \in {"PAID", "CANCELLED"}
    BY <1>6 DEF PayoutReported
  <2>2. /\ booking' \in BookingStatuses /\ payment' \in PaymentRow
        /\ request' \in [Requests -> RequestStatuses] /\ flagged' \in BOOLEAN
        /\ faults' \in 0 .. MaxFaults /\ crashes' \in 0 .. MaxCrashes
        /\ payout' \in {"NONE", "OPEN", "PAID", "CANCELLED"}
    BY <1>1, <2>1 DEF World, WorldTyped
  <2>3. ~PayoutStopped /\ Captured /\ payment.settled
    BY <1>1, <2>1 DEF PayoutStopped, Captured, World
  <2>4. /\ payment'.refund # NoId => refund[payment'.refund] # "NONE"
        /\ payment'.reversed => payment.reversed
    BY <1>1, <2>1 DEF World
  <2>5. World' /\ Kept
    BY <1>1, <2>1, <2>2, <2>3, <2>4, WorldWritten
  <2> QED BY <1>3, <2>1, <2>5 DEF Inv
<1> QED BY <1>4, <1>5, <1>6 DEF Provider

\* Handlers that begin, and steps that read the rows.
LEMMA ReadingStep ==
    ASSUME Inv, NEW c \in Calls,
           \/ Checkout(c) \/ SelfHeal(c) \/ Reconcile(c) \/ ClientVoids(c) \/ PayFromPlatform(c)
           \/ CheckoutRead(c) \/ VoidRead(c) \/ RequestRefund(c)
           \/ \E i \in Invoices : InvoiceFailed(c, i)
    PROVE  Inv'
<1>1. World /\ CallsSound /\ payment \in PaymentRow /\ faults \in 0 .. MaxFaults
      /\ crashes \in 0 .. MaxCrashes
  BY DEF Inv, World, WorldTyped
<1>2. UNCHANGED <<rows, remote, faults, crashes>>
  BY DEF Checkout, SelfHeal, Reconcile, ClientVoids, PayFromPlatform, CheckoutRead, VoidRead,
         RequestRefund, InvoiceFailed
<1>3. World' /\ Kept
  BY <1>1, <1>2, WorldSame
<1>4. {"read", "settle", "refundOrVoid", "fund", "prepare", "fail", "void", "failVoid", "file"}
         \subseteq FreeSteps
  BY DEF FreeSteps, Steps
<1>5. "resume" \in Steps /\ "recheck" \in Steps /\ "reconcile" \in Steps /\ "expire" \in Steps
      /\ "finalize" \in Steps /\ "prepare" \in Steps
  BY DEF Steps
<1>6. CASE Checkout(c) \/ SelfHeal(c) \/ ClientVoids(c) \/ PayFromPlatform(c)
  <2>1. \E at \in FreeSteps : Begin(c, at)
    BY <1>4, <1>6 DEF Checkout, SelfHeal, ClientVoids, PayFromPlatform
  <2> QED BY <1>1, <1>3, <2>1, CallBegins DEF Inv
<1>7. CASE Reconcile(c)
  BY <1>1, <1>3, <1>5, <1>7, CallFinds DEF Reconcile, Inv
<1>8. CASE CheckoutRead(c)
  BY <1>1, <1>3, <1>5, <1>8, CallFinds, CallReturns DEF CheckoutRead, Inv
<1>9. CASE VoidRead(c)
  BY <1>1, <1>3, <1>4, <1>5, <1>9, CallFinds, CallReturns, CallTurns DEF VoidRead, Inv
<1>10. CASE RequestRefund(c)
  BY <1>1, <1>3, <1>4, <1>10, CallReturns, CallTurns, CallGoesOn DEF RequestRefund, Inv
<1>11. CASE \E i \in Invoices : InvoiceFailed(c, i)
  <2>1. Begin(c, "fail")
    BY <1>11 DEF InvoiceFailed
  <2> QED BY <1>1, <1>3, <1>4, <2>1, CallBegins DEF Inv
<1> QED BY <1>6, <1>7, <1>8, <1>9, <1>10, <1>11

\* Handlers that raise or lower a flag, or write a request.
LEMMA OtherStep ==
    ASSUME Inv, NEW c \in Calls,
           \/ \E i \in Invoices : InvoicePaid(c, i)
           \/ ReportInvoice(c) \/ InvoiceKept(c) \/ CancelBooking(c) \/ CheckoutBill(c)
           \/ FileRequest(c) \/ FailRequest(c) \/ FailApproved(c) \/ ManualClaim(c)
    PROVE  Inv'
<1>1. /\ World /\ CallsSound /\ payment \in PaymentRow
      /\ booking \in BookingStatuses /\ request \in [Requests -> RequestStatuses] /\ flagged \in BOOLEAN
  BY DEF Inv, World, WorldTyped
<1>2. {"read", "void", "ask", "manualWrite"} \subseteq FreeSteps /\ "finalize" \in Steps
  BY DEF FreeSteps, Steps
<1>3. CASE \E i \in Invoices : InvoicePaid(c, i)
  <2>1. PICK i \in Invoices : InvoicePaid(c, i)
    BY <1>3
  <2>2. /\ booking' = booking /\ request' = request /\ flagged' \in BOOLEAN
        /\ UNCHANGED <<payment, payout, remote, faults, crashes>>
    BY <1>1, <2>1 DEF InvoicePaid, Flag
  <2>3. World' /\ Kept
    BY <1>1, <2>2, OthersWritten
  <2>4. payment.invoice = i /\ i # NoId /\ invoice'[i] \in Received
    BY <2>1 DEF InvoicePaid, remote, Invoices, NoId
  <2>5. CASE UNCHANGED call
    BY <1>1, <2>3, <2>5, CallsStay DEF Inv
  <2>6. CASE Found(c, "finalize")
    BY <1>1, <1>2, <2>3, <2>4, <2>6, CallFinds DEF Inv
  <2> QED BY <2>1, <2>5, <2>6 DEF InvoicePaid
<1>4. CASE ReportInvoice(c) \/ InvoiceKept(c) \/ CancelBooking(c) \/ CheckoutBill(c)
  <2>1. /\ UNCHANGED <<payment, payout, remote, faults, crashes>>
        /\ booking' \in BookingStatuses /\ (booking' = "COMPLETED" => booking = "COMPLETED")
        /\ request' = request /\ flagged' = flagged
    BY <1>1, <1>4 DEF ReportInvoice, InvoiceKept, CancelBooking, CheckoutBill, BookingStatuses
  <2>2. World' /\ Kept
    BY <1>1, <2>1, OthersWritten
  <2>3. Return(c) \/ \E at \in FreeSteps : Begin(c, at)
    BY <1>2, <1>4 DEF ReportInvoice, InvoiceKept, CancelBooking, CheckoutBill
  <2> QED BY <1>1, <2>2, <2>3, CallReturns, CallBegins DEF Inv
<1>5. CASE FileRequest(c) \/ FailRequest(c) \/ FailApproved(c) \/ ManualClaim(c)
  <2>1. request' \in [Requests -> RequestStatuses]
    BY <1>1, <1>5 DEF FileRequest, FailRequest, FailApproved, ManualClaim, RequestStatuses
  <2>2. /\ UNCHANGED <<payment, payout, remote, faults, crashes>>
        /\ booking' = booking /\ flagged' = flagged
    BY <1>5 DEF FileRequest, FailRequest, FailApproved, ManualClaim
  <2>3. World' /\ Kept
    BY <1>1, <2>1, <2>2, OthersWritten
  <2>4. Return(c) \/ Turn(c, "manualWrite")
    BY <1>5 DEF FileRequest, FailRequest, FailApproved, ManualClaim
  <2> QED BY <1>1, <1>2, <2>3, <2>4, CallReturns, CallTurns DEF Inv
<1> QED BY <1>3, <1>4, <1>5

(* An approved request is one the call has in hand.                         *)
LEMMA ApproveStep ==
    ASSUME Inv, NEW c \in Calls, NEW q \in Requests, ApproveRequest(c, q) \/ MarkRefundedManually(c, q)
    PROVE  Inv'
<1>1. /\ World /\ CallsSound /\ payment \in PaymentRow
      /\ booking \in BookingStatuses /\ request \in [Requests -> RequestStatuses] /\ flagged \in BOOLEAN
  BY DEF Inv, World, WorldTyped
<1>2. /\ request' \in [Requests -> RequestStatuses] /\ booking' = booking /\ flagged' = flagged
      /\ UNCHANGED <<payment, payout, remote, faults, crashes>>
  BY <1>1 DEF ApproveRequest, MarkRefundedManually, RequestStatuses, rows
<1>3. World' /\ Kept
  BY <1>1, <1>2, OthersWritten
<1>4. PICK m : m = call[c]
  OBVIOUS
<1>5. Sound(m) /\ Sound(m)' /\ m \in CallRecord
  BY <1>1, <1>3, <1>4, StaysSound DEF CallsSound, Sound
<1>6. q # NoId
  BY DEF Requests, NoId
<1>7. CASE ApproveRequest(c, q)
  <2>1. PICK k : k = [m EXCEPT !.at = "refundOrVoid", !.for = "request", !.request = q]
    OBVIOUS
  <2>2. /\ k \in CallRecord /\ k.at = "refundOrVoid" /\ k.invoice = m.invoice /\ k.refund = m.refund
        /\ k.request = q
    BY <1>5, <2>1 DEF CallRecord, Steps
  <2>3. Sound(k)'
    BY <1>5, <1>6, <2>2 DEF Sound, Relies, InHand
  <2> QED BY <1>1, <1>3, <1>4, <1>7, <2>1, <2>3, CallMoves DEF ApproveRequest, Inv
<1>8. CASE MarkRefundedManually(c, q)
  <2>1. PICK at \in {"manualStop", "manualClaim"}, f \in BOOLEAN :
            call' = [call EXCEPT ![c].at = at, ![c].found = f, ![c].request = q]
    BY <1>8 DEF MarkRefundedManually
  <2>2. PICK k : k = [m EXCEPT !.at = at, !.found = f, !.request = q]
    OBVIOUS
  <2>3. /\ k \in CallRecord /\ k.at = at /\ k.invoice = m.invoice /\ k.refund = m.refund
        /\ k.request = q
    BY <1>5, <2>2 DEF CallRecord, Steps
  <2>4. Sound(k)'
    BY <1>5, <1>6, <2>3 DEF Sound, Relies, InHand
  <2> QED BY <1>1, <1>3, <1>4, <2>1, <2>2, <2>4, CallMoves DEF Inv
<1> QED BY <1>7, <1>8

(* A rejection concerns no call.                                            *)
LEMMA RejectStep ==
    ASSUME Inv, NEW q \in Requests, RejectRequest(q)
    PROVE  Inv'
<1>1. /\ World /\ CallsSound /\ request \in [Requests -> RequestStatuses]
      /\ booking \in BookingStatuses /\ flagged \in BOOLEAN
  BY DEF Inv, World, WorldTyped
<1>2. /\ request' \in [Requests -> RequestStatuses] /\ booking' = booking /\ flagged' = flagged
      /\ UNCHANGED <<payment, payout, remote, faults, crashes>> /\ UNCHANGED call
  BY <1>1 DEF RejectRequest, RequestStatuses
<1>3. World' /\ Kept
  BY <1>1, <1>2, OthersWritten
<1> QED BY <1>1, <1>2, <1>3, CallsStay DEF Inv

\* Steps that ask the provider without changing it, and a handler that dies.
LEMMA AskingStep ==
    ASSUME Inv, NEW c \in Calls,
           CheckoutResume(c) \/ ReconcileRemote(c) \/ RefundRemote(c) \/ Crash(c)
    PROVE  Inv'
<1>1. /\ World /\ CallsSound /\ WorldTyped /\ faults \in 0 .. MaxFaults /\ crashes \in 0 .. MaxCrashes
      /\ Sound(call[c])
  BY DEF Inv, World, WorldTyped, CallsSound
<1>2. UNCHANGED <<rows, remote>> /\ faults' \in 0 .. MaxFaults /\ crashes' \in 0 .. MaxCrashes
  <2>1. CASE Crash(c)
    BY <1>1, <2>1, BoundsAssumption DEF Crash
  <2>2. CASE CheckoutResume(c) \/ ReconcileRemote(c) \/ RefundRemote(c)
    <3>1. /\ UNCHANGED <<rows, remote>> /\ crashes' = crashes /\ (Fault \/ NoFault)
      BY <2>2 DEF CheckoutResume, ReconcileRemote, RefundRemote
    <3> QED BY <1>1, <3>1, FaultTyped
  <2> QED BY <2>1, <2>2
<1>3. World' /\ Kept
  BY <1>1, <1>2, WorldSame
<1>4. invoice' = invoice /\ "prepare" \in FreeSteps /\ "fail" \in FreeSteps
      /\ "finalize" \in Steps /\ "refundDone" \in Steps /\ "reopen" \in Steps
  BY <1>2 DEF remote, FreeSteps, Steps
<1>5. CASE Crash(c)
  BY <1>1, <1>3, <1>5, CallReturns DEF Crash, Inv
<1>6. CASE ReconcileRemote(c)
  <2>1. call[c].at = "reconcile" /\ call[c].invoice # NoId
    BY <1>1, <1>6 DEF ReconcileRemote, At, Sound, InHand
  <2>2. CASE invoice[call[c].invoice] \in Received /\ Continue(c, "finalize")
    BY <1>1, <1>3, <1>4, <2>1, <2>2, CallContinues DEF Inv
  <2> QED BY <1>1, <1>3, <1>4, <1>6, <2>2, CallReturns, CallTurns DEF ReconcileRemote, Inv
<1>7. CASE RefundRemote(c)
  <2>1. call[c].refund # NoId
    BY <1>1, <1>7 DEF RefundRemote, At, Sound, InHand
  <2>2. ASSUME NEW at \in {"refundDone", "reopen"}, Continue(c, at) PROVE Inv'
    BY <1>1, <1>3, <1>4, <2>1, <2>2, CallContinues DEF Inv
  <2> QED BY <1>1, <1>3, <1>7, <2>2, CallReturns DEF RefundRemote, Inv
<1>8. CASE CheckoutResume(c)
  <2>1. call[c].invoice # NoId
    BY <1>1, <1>8 DEF CheckoutResume, At, Sound, InHand
  <2>2. CASE /\ invoice[call[c].invoice] \in Received
             /\ call' = [call EXCEPT ![c].at = "finalize", ![c].for = "checkout"]
    <3>1. PICK m : m = call[c]
      OBVIOUS
    <3>2. Sound(m) /\ Sound(m)' /\ m \in CallRecord /\ m.at = "resume"
      BY <1>1, <1>3, <1>8, <3>1, StaysSound DEF Sound, CheckoutResume, At
    <3>3. PICK k : k = [m EXCEPT !.at = "finalize", !.for = "checkout"]
      OBVIOUS
    <3>4. /\ k \in CallRecord /\ k.at = "finalize" /\ k.invoice = m.invoice /\ k.refund = m.refund
          /\ k.for = "checkout"
      BY <1>4, <3>2, <3>3 DEF CallRecord
    <3>5. Sound(k)'
      <4>1. k.invoice # NoId /\ invoice'[k.invoice] \in Received
        BY <1>4, <2>1, <2>2, <3>1, <3>4
      <4>2. (k.refund # NoId => refund'[k.refund] # "NONE") /\ k.at = "finalize" /\ k.for # "request"
        BY <3>2, <3>4 DEF Sound, Relies
      <4> QED BY <3>4, <4>1, <4>2 DEF Sound, Relies, InHand
    <3>6. call' = [call EXCEPT ![c] = k]
      BY <2>2, <3>1, <3>3
    <3> QED BY <1>1, <1>3, <3>5, <3>6, CallMoves DEF Inv
  <2> QED BY <1>1, <1>3, <1>4, <1>8, <2>2, CallReturns, CallGoesOn DEF CheckoutResume, Inv
<1> QED BY <1>5, <1>6, <1>7, <1>8

\* A refund is put in hand: that of the row.
LEMMA RefundReadStep ==
    ASSUME Inv, NEW c \in Calls, RefundRead(c) \/ ReconcileRefund(c)
    PROVE  Inv'
<1>1. /\ World /\ CallsSound /\ payment \in PaymentRow /\ faults \in 0 .. MaxFaults
      /\ crashes \in 0 .. MaxCrashes /\ (payment.refund # NoId => refund[payment.refund] # "NONE")
  BY DEF Inv, World, WorldTyped
<1>2. UNCHANGED <<rows, remote, faults, crashes>> /\ refund' = refund
  BY DEF RefundRead, ReconcileRefund, remote
<1>3. World' /\ Kept
  BY <1>1, <1>2, WorldSame
<1>4. PICK m : m = call[c]
  OBVIOUS
<1>5. Sound(m) /\ Sound(m)' /\ m \in CallRecord
  BY <1>1, <1>3, <1>4, StaysSound DEF CallsSound, Sound
<1>6. payment.invoice \in Invoices \cup {NoId} /\ payment.refund \in Refunds \cup {NoId}
  BY <1>1 DEF PaymentRow
<1>7. CASE ReconcileRefund(c)
  <2>1. PICK k : k = [m EXCEPT !.at = "remoteRefund", !.for = "sweep", !.refund = payment.refund]
    OBVIOUS
  <2>2. /\ k \in CallRecord /\ k.at = "remoteRefund" /\ k.refund = payment.refund /\ k.for = "sweep"
    BY <1>5, <1>6, <2>1 DEF CallRecord, Steps
  <2>3. Sound(k)'
    BY <1>1, <1>2, <1>7, <2>2 DEF Sound, Relies, InHand, ReconcileRefund
  <2>4. call' = [call EXCEPT ![c] = k]
    BY <1>4, <1>7, <2>1 DEF ReconcileRefund
  <2> QED BY <1>1, <1>3, <2>3, <2>4, CallMoves DEF Inv
<1>8. CASE RefundRead(c)
  <2>1. CASE payment.status = "COMPLETED"
    <3>1. PICK k : k = [m EXCEPT !.at = "stop", !.invoice = payment.invoice, !.refund = payment.refund]
      OBVIOUS
    <3>2. /\ k \in CallRecord /\ k.at = "stop" /\ k.refund = payment.refund /\ k.for = m.for
          /\ k.request = m.request
      BY <1>5, <1>6, <3>1 DEF CallRecord, Steps
    <3>3. MoneyIn'
      BY <1>1, <1>3, <2>1 DEF World, Captured, Kept
    <3>4. Sound(k)'
      BY <1>1, <1>2, <1>5, <3>2, <3>3 DEF Sound, Relies, InHand
    <3>5. call' = [call EXCEPT ![c] = k]
      BY <1>4, <1>8, <2>1, <3>1 DEF RefundRead
    <3> QED BY <1>1, <1>3, <3>4, <3>5, CallMoves DEF Inv
  <2>2. CASE payment.status # "COMPLETED"
    <3>1. "void" \in FreeSteps
      BY DEF FreeSteps, Steps
    <3> QED BY <1>1, <1>3, <1>8, <2>2, <3>1, CallReturns, CallTurns DEF RefundRead, Inv
  <2> QED BY <2>1, <2>2
<1> QED BY <1>7, <1>8

\* Steps that write the payment row alone.
LEMMA PaymentStep ==
    ASSUME Inv, NEW c \in Calls,
           \/ CheckoutPrepare(c) \/ CheckoutStore(c) \/ Fail(c) \/ VoidFail(c)
           \/ RefundStore(c) \/ Undo(c) \/ Refunded(c) \/ RefundDone(c) \/ Reopen(c)
           \/ ManualUndo(c) \/ ManualWrite(c)
    PROVE  Inv'
<1>1. /\ World /\ CallsSound /\ payment \in PaymentRow /\ Sound(call[c]) /\ call[c] \in CallRecord
      /\ (payment.refund # NoId => refund[payment.refund] # "NONE")
  BY DEF Inv, World, WorldTyped, CallsSound, Sound
<1>2. {"mint", "bill", "refunded", "failApproved", "prepare"} \subseteq FreeSteps
      /\ "undo" \in Steps /\ "manualClaim" \in Steps
  BY DEF FreeSteps, Steps
<1>3. UNCHANGED <<booking, payout, request, flagged, remote, faults, crashes>>
  BY DEF CheckoutPrepare, CheckoutStore, Fail, VoidFail, RefundStore, Undo, Refunded, RefundDone,
         Reopen, ManualUndo, ManualWrite
<1>4. PICK m : m = call[c]
  OBVIOUS
<1>5. m.invoice \in Invoices \cup {NoId} /\ m.refund \in Refunds \cup {NoId} /\ m.status \in RefundStatuses
  BY <1>1, <1>4 DEF CallRecord
<1>6. (m.refund # NoId => refund[m.refund] # "NONE") /\ (m.at \in {"undo", "manualUndo"} => PayoutStopped)
  BY <1>1, <1>4 DEF Sound, Relies
<1>7. /\ payment' \in PaymentRow /\ payment'.platformFunded = payment.platformFunded
      /\ payment'.settled = payment.settled
      /\ payment'.refund \in {payment.refund, m.refund}
  <2>1. CASE CheckoutPrepare(c)
    BY <1>1, <2>1 DEF CheckoutPrepare, PaymentRow, PaymentStatuses
  <2>2. CASE CheckoutStore(c)
    BY <1>1, <1>4, <1>5, <2>2 DEF CheckoutStore, PaymentRow
  <2>3. CASE Fail(c) \/ VoidFail(c)
    BY <1>1, <2>3 DEF Fail, VoidFail, PaymentRow, PaymentStatuses
  <2>4. CASE RefundStore(c)
    BY <1>1, <1>4, <1>5, <2>4 DEF RefundStore, PaymentRow
  <2>5. CASE Undo(c) \/ ManualUndo(c)
    BY <1>1, <2>5 DEF Undo, ManualUndo, PaymentRow
  <2>6. CASE Refunded(c)
    <3>1. PICK r \in {payment.refund, m.refund}, s \in RefundStatuses :
            payment' = [payment EXCEPT !.status = "REFUNDED", !.refundedAt = TRUE,
                                       !.refund = r, !.refundStatus = s]
      <4>1. CASE m.status = "NONE"
        <5>1. payment.refundStatus \in RefundStatuses
          BY <1>1 DEF PaymentRow
        <5>2. payment' = [payment EXCEPT !.status = "REFUNDED", !.refundedAt = TRUE,
                                         !.refund = payment.refund, !.refundStatus = payment.refundStatus]
          BY <1>4, <2>6, <4>1 DEF Refunded
        <5> QED BY <5>1, <5>2
      <4>2. CASE m.status # "NONE"
        BY <1>4, <1>5, <2>6, <4>2 DEF Refunded
      <4> QED BY <4>1, <4>2
    <3>2. r \in Refunds \cup {NoId}
      BY <1>1, <1>5 DEF PaymentRow
    <3> QED BY <1>1, <3>1, <3>2 DEF PaymentRow, PaymentStatuses
  <2>7. CASE RefundDone(c) \/ Reopen(c)
    BY <1>1, <2>7 DEF RefundDone, Reopen, PaymentRow, PaymentStatuses, RefundStatuses
  <2>8. CASE ManualWrite(c)
    BY <1>1, <2>8 DEF ManualWrite, PaymentRow, PaymentStatuses
  <2> QED BY <2>1, <2>2, <2>3, <2>4, <2>5, <2>6, <2>7, <2>8
<1>8. payment'.refund # NoId => refund[payment'.refund] # "NONE"
  BY <1>1, <1>6, <1>7
<1>9. payment'.reversed => payment.reversed \/ PayoutStopped
  <2>1. CASE Undo(c) \/ ManualUndo(c)
    BY <1>4, <1>6, <2>1 DEF Undo, ManualUndo, At
  <2>2. CASE ~(Undo(c) \/ ManualUndo(c))
    <3>1. payment'.reversed = payment.reversed
      BY <1>1, <2>2 DEF CheckoutPrepare, CheckoutStore, Fail, VoidFail, RefundStore, Refunded,
         RefundDone, Reopen, ManualWrite, PaymentRow
    <3> QED BY <3>1
  <2> QED BY <2>1, <2>2
<1>10. payment'.status = "COMPLETED" => Captured
  <2>1. CASE Reopen(c)
    <3>1. m.at = "reopen"
      BY <1>4, <2>1 DEF Reopen, At
    <3>2. m.refund # NoId
      BY <1>1, <1>4, <3>1 DEF Sound, InHand
    <3> QED BY <1>5, <1>6, <3>2 DEF Captured, RefundMade
  <2>2. CASE ~Reopen(c)
    <3>1. payment'.status \in {payment.status, "PENDING", "FAILED", "REFUNDED"}
      BY <1>1, <2>2 DEF CheckoutPrepare, CheckoutStore, Fail, VoidFail, RefundStore, Refunded, Undo,
         ManualUndo, RefundDone, ManualWrite, PaymentRow
    <3> QED BY <3>1 DEF Captured
  <2> QED BY <2>1, <2>2
<1>11. World' /\ Kept
  BY <1>1, <1>3, <1>7, <1>8, <1>9, <1>10, PaymentWritten
<1>12. CASE Return(c) \/ \E at \in FreeSteps : Turn(c, at) \/ Continue(c, at)
  BY <1>1, <1>11, <1>12, CallReturns, CallTurns, CallGoesOn DEF Inv
<1>13. CASE Throw(c)
  BY <1>1, <1>11, <1>13, CallThrows DEF Inv
<1>14. CASE RefundDone(c)
  <2>1. m.at = "refundDone"
    BY <1>4, <1>14 DEF RefundDone, At
  <2>2. m.refund # NoId
    BY <1>1, <1>4, <2>1 DEF Sound, InHand
  <2>3. PayoutStopped'
    BY <1>1, <1>5, <1>6, <1>11, <2>2 DEF World, Kept, RefundMade
  <2>4. Continue(c, "undo")
    BY <1>14 DEF RefundDone
  <2> QED BY <1>1, <1>2, <1>11, <2>3, <2>4, CallContinues DEF Inv
<1>15. CASE RefundStore(c) /\ Continue(c, "undo")
  <2>1. m.at = "storeRefund"
    BY <1>4, <1>15 DEF RefundStore, At
  <2>2. m.refund # NoId
    BY <1>1, <1>4, <2>1 DEF Sound, InHand
  <2>3. PayoutStopped'
    BY <1>1, <1>5, <1>6, <1>11, <2>2 DEF World, Kept, RefundMade
  <2> QED BY <1>1, <1>2, <1>11, <1>15, <2>3, CallContinues DEF Inv
<1>16. CASE ManualUndo(c)
  <2>1. call[c].at = "manualUndo" /\ Continue(c, "manualClaim")
    BY <1>16 DEF ManualUndo, At
  <2>2. call[c].request # NoId
    BY <1>1, <2>1 DEF Sound, InHand
  <2> QED BY <1>1, <1>2, <1>11, <2>1, <2>2, CallContinues DEF Inv
<1> QED BY <1>2, <1>12, <1>13, <1>14, <1>15, <1>16
      DEF CheckoutPrepare, CheckoutStore, Fail, VoidFail, RefundStore, Undo, Refunded, Reopen, ManualWrite

\* finalizePaidBooking, and what else completes a booking or stops a payout.
LEMMA SettlingStep ==
    ASSUME Inv, NEW c \in Calls,
           Finalize(c) \/ Settle(c) \/ Fund(c) \/ CheckoutRecheck(c)
    PROVE  Inv'
<1>1. /\ World /\ CallsSound /\ WorldTyped /\ payment \in PaymentRow /\ Sound(call[c])
      /\ booking \in BookingStatuses
      /\ (payment.refund # NoId => refund[payment.refund] # "NONE")
      /\ (payout # "NONE" => payment.settled)
  BY DEF Inv, World, WorldTyped, CallsSound
<1>2. "settle" \in FreeSteps /\ "prepare" \in FreeSteps
  BY DEF FreeSteps, Steps
<1>3. CASE CheckoutRecheck(c)
  <2>1. /\ UNCHANGED remote /\ booking' = booking /\ payment' = payment /\ payout' = payout
        /\ request' = request /\ crashes' = crashes /\ (Fault \/ NoFault) /\ flagged' \in BOOLEAN
    BY <1>1, <1>3 DEF CheckoutRecheck, Flag, WorldTyped
  <2>2. faults' \in 0 .. MaxFaults
    BY <1>1, <2>1, FaultTyped
  <2>3. PayoutStopped' = PayoutStopped
    BY <2>1 DEF PayoutStopped
  <2>4. booking' = "COMPLETED" \/ payment'.status = "COMPLETED" \/ payout' # "NONE" => Captured
    BY <2>1 DEF Captured
  <2>5. World' /\ Kept
    BY <1>1, <2>1, <2>2, <2>3, <2>4, WorldWritten DEF WorldTyped
  <2> QED BY <1>1, <1>2, <1>3, <2>5, CallReturns, CallGoesOn DEF CheckoutRecheck, Inv
<1>4. CASE Finalize(c)
  <2>1. /\ UNCHANGED remote /\ payout' = payout /\ request' = request /\ flagged' \in BOOLEAN
        /\ faults' = faults /\ crashes' = crashes
    BY <1>1, <1>4 DEF Finalize, Flag, WorldTyped
  <2>2. CASE UNCHANGED <<booking, payment>>
    <3>1. PayoutStopped' = PayoutStopped
      BY <2>1, <2>2 DEF PayoutStopped
    <3>2. booking' = "COMPLETED" \/ payment'.status = "COMPLETED" \/ payout' # "NONE" => Captured
      BY <2>1, <2>2 DEF Captured
    <3>3. World' /\ Kept
      BY <1>1, <2>1, <2>2, <3>1, <3>2, WorldWritten DEF WorldTyped
    <3>4. Turn(c, "settle") \/ Return(c) \/ Throw(c)
      BY <1>4, <2>2 DEF Finalize
    <3> QED BY <1>1, <1>2, <3>3, <3>4, CallReturns, CallTurns, CallThrows DEF Inv
  <2>3. CASE /\ payment.status # "COMPLETED" /\ invoice[call[c].invoice] # "SHORT"
             /\ payment' = [payment EXCEPT !.status = "COMPLETED"] /\ booking' = "COMPLETED"
             /\ Turn(c, "settle")
    <3>1. call[c].at = "finalize"
      BY <1>4 DEF Finalize, At
    <3>2. PICK i \in Invoices : i = call[c].invoice
      BY <1>1, <3>1 DEF Sound, CallRecord, InHand
    <3>3. invoice[i] = "PAID"
      BY <1>1, <2>3, <3>1, <3>2 DEF Sound, Relies, Received
    <3>4. MoneyIn'
      BY <2>1, <3>3 DEF MoneyIn, remote
    <3>5. /\ payment' \in PaymentRow /\ payment'.refund = payment.refund
          /\ payment'.settled = payment.settled /\ payment'.reversed = payment.reversed
          /\ payment'.platformFunded = payment.platformFunded
      BY <1>1, <2>3 DEF PaymentRow, PaymentStatuses
    <3>6. PayoutStopped' = PayoutStopped
      BY <2>1, <3>5 DEF PayoutStopped
    <3>7. World' /\ Kept
      BY <1>1, <2>1, <2>3, <3>4, <3>5, <3>6, WorldWritten DEF WorldTyped, BookingStatuses
    <3> QED BY <1>1, <1>2, <2>3, <3>7, CallTurns DEF Inv
  <2> QED BY <1>4, <2>2, <2>3 DEF Finalize
<1>5. CASE Settle(c)
  <2>1. /\ UNCHANGED remote /\ booking' = booking /\ request' = request /\ flagged' = flagged
        /\ faults' = faults /\ crashes' = crashes /\ Return(c)
    BY <1>5 DEF Settle
  <2>2. CASE UNCHANGED <<payment, payout>>
    <3>1. PayoutStopped' = PayoutStopped
      BY <2>2 DEF PayoutStopped
    <3>2. booking' = "COMPLETED" \/ payment'.status = "COMPLETED" \/ payout' # "NONE" => Captured
      BY <2>1, <2>2 DEF Captured
    <3>3. World' /\ Kept
      BY <1>1, <2>1, <2>2, <3>1, <3>2, WorldWritten DEF WorldTyped
    <3> QED BY <1>1, <2>1, <3>3, CallReturns DEF Inv
  <2>3. CASE SettleWorkerEarnings
    <3>1. /\ payment.status = "COMPLETED" /\ ~payment.settled
          /\ payment' = [payment EXCEPT !.settled = TRUE] /\ payout' \in {"NONE", "OPEN"}
      BY <2>3 DEF SettleWorkerEarnings
    <3>2. /\ payment' \in PaymentRow /\ payment'.refund = payment.refund /\ payment'.settled
          /\ payment'.reversed = payment.reversed /\ payment'.platformFunded = payment.platformFunded
      BY <1>1, <3>1 DEF PaymentRow
    <3>3. ~PayoutStopped /\ Captured
      BY <3>1 DEF PayoutStopped, Captured
    <3>4. World' /\ Kept
      BY <1>1, <2>1, <3>1, <3>2, <3>3, WorldWritten DEF WorldTyped
    <3> QED BY <1>1, <2>1, <3>4, CallReturns DEF Inv
  <2> QED BY <1>5, <2>2, <2>3 DEF Settle
<1>6. CASE Fund(c)
  <2>1. /\ UNCHANGED remote /\ payout' = payout /\ request' = request /\ flagged' = flagged
        /\ faults' = faults /\ crashes' = crashes
    BY <1>6 DEF Fund
  <2>2. CASE UNCHANGED <<booking, payment>> /\ Return(c)
    <3>1. PayoutStopped' = PayoutStopped
      BY <2>1, <2>2 DEF PayoutStopped
    <3>2. booking' = "COMPLETED" \/ payment'.status = "COMPLETED" \/ payout' # "NONE" => Captured
      BY <2>1, <2>2 DEF Captured
    <3>3. World' /\ Kept
      BY <1>1, <2>1, <2>2, <3>1, <3>2, WorldWritten DEF WorldTyped
    <3> QED BY <1>1, <2>2, <3>3, CallReturns DEF Inv
  <2>3. CASE /\ booking' = "COMPLETED" /\ Turn(c, "settle")
             /\ payment' = [payment EXCEPT !.status = "COMPLETED", !.platformFunded = TRUE]
    <3>1. /\ payment' \in PaymentRow /\ payment'.refund = payment.refund
          /\ payment'.settled = payment.settled /\ payment'.reversed = payment.reversed
          /\ payment'.platformFunded
      BY <1>1, <2>3 DEF PaymentRow, PaymentStatuses
    <3>2. MoneyIn' /\ PayoutStopped' = PayoutStopped
      BY <2>1, <3>1 DEF MoneyIn, PayoutStopped
    <3>3. World' /\ Kept
      BY <1>1, <2>1, <2>3, <3>1, <3>2, WorldWritten DEF WorldTyped, BookingStatuses
    <3> QED BY <1>1, <1>2, <2>3, <3>3, CallTurns DEF Inv
  <2> QED BY <1>6, <2>2, <2>3 DEF Fund
<1> QED BY <1>3, <1>4, <1>5, <1>6

\* stopWorkerPayout stops the worker's payout.
LEMMA StopStops ==
    ASSUME World, StopWorkerPayout
    PROVE  /\ payment' \in PaymentRow /\ payment'.refund = payment.refund /\ payment'.status = payment.status
           /\ payment'.reversed = payment.reversed /\ payment'.platformFunded = payment.platformFunded
           /\ payment'.settled /\ PayoutStopped' /\ payout' \in {"NONE", "CANCELLED"}
           /\ (payout' # "NONE" => payout # "NONE")
<1>1. payment \in PaymentRow /\ payout \in {"NONE", "OPEN", "PAID", "CANCELLED"}
      /\ (payout # "NONE" => payment.settled)
  BY DEF World, WorldTyped
<1>2. CASE ~payment.settled
  <2>1. payment' = [payment EXCEPT !.settled = TRUE] /\ payout' = "NONE"
    BY <1>1, <1>2 DEF StopWorkerPayout
  <2> QED BY <1>1, <2>1 DEF PaymentRow, PayoutStopped
<1>3. CASE payment.settled
  <2>1. payment' = payment /\ payout' \in {"NONE", "CANCELLED"} /\ (payout' # "NONE" => payout # "NONE")
    BY <1>1, <1>3 DEF StopWorkerPayout
  <2> QED BY <1>1, <1>3, <2>1 DEF PayoutStopped
<1> QED BY <1>2, <1>3

(* Money goes back only when the payout is stopped, and then none comes     *)
(* about.                                                                   *)
LEMMA StoppingStep ==
    ASSUME Inv, NEW c \in Calls, RefundStop(c) \/ ManualStop(c)
    PROVE  Inv'
<1>1. /\ World /\ CallsSound /\ WorldTyped /\ Sound(call[c]) /\ faults \in 0 .. MaxFaults
      /\ crashes \in 0 .. MaxCrashes
      /\ (payment.refund # NoId => refund[payment.refund] # "NONE")
  BY DEF Inv, World, WorldTyped, CallsSound
<1>2. UNCHANGED <<booking, request, flagged, remote, faults, crashes>>
  BY DEF RefundStop, ManualStop
<1>3. World' /\ Kept
  <2>1. CASE StopWorkerPayout
    <3>1. /\ UNCHANGED remote /\ booking' = booking /\ request' = request /\ flagged' = flagged
          /\ faults' = faults /\ crashes' = crashes
      BY <1>2
    <3>2. booking' = "COMPLETED" \/ payment'.status = "COMPLETED" \/ payout' # "NONE" => Captured
      BY <1>1, <2>1, <3>1, StopStops DEF Captured
    <3> QED BY <1>1, <2>1, <3>1, <3>2, StopStops, WorldWritten DEF WorldTyped
  <2>2. CASE ~StopWorkerPayout
    <3>1. UNCHANGED <<payment, payout>>
      BY <2>2 DEF RefundStop, ManualStop
    <3>2. UNCHANGED <<rows, remote>> /\ faults' \in 0 .. MaxFaults /\ crashes' \in 0 .. MaxCrashes
      BY <1>1, <1>2, <3>1 DEF rows
    <3> QED BY <1>1, <3>2, WorldSame
  <2> QED BY <2>1, <2>2
<1>4. CASE RefundStop(c)
  <2>1. CASE StopWorkerPayout
    <3>1. call[c].at = "stop" /\ Continue(c, IF call[c].invoice = NoId THEN "undo" ELSE "refund")
      BY <1>4, <2>1 DEF RefundStop, At, PayoutNotStopped, StopWorkerPayout
    <3>2. PayoutStopped' /\ MoneyIn'
      BY <1>1, <1>3, <2>1, <3>1, StopStops DEF Sound, Relies, Kept
    <3>3. "undo" \in Steps /\ "refund" \in Steps
      BY DEF Steps
    <3>4. CASE call[c].invoice = NoId
      <4>1. Continue(c, "undo")
        BY <3>1, <3>4
      <4> QED BY <1>1, <1>3, <3>2, <3>3, <4>1, CallContinues DEF Inv
    <3>5. CASE call[c].invoice # NoId
      <4>1. Continue(c, "refund")
        BY <3>1, <3>5
      <4> QED BY <1>1, <1>3, <3>2, <3>3, <3>5, <4>1, CallContinues DEF Inv
    <3> QED BY <3>4, <3>5
  <2>2. CASE ~StopWorkerPayout
    <3>1. Throw(c)
      BY <1>4, <2>2 DEF RefundStop
    <3> QED BY <1>1, <1>3, <3>1, CallThrows DEF Inv
  <2> QED BY <2>1, <2>2
<1>5. CASE ManualStop(c)
  <2>1. call[c].at = "manualStop" /\ "manualUndo" \in Steps /\ "manualClaim" \in Steps
    BY <1>5 DEF ManualStop, At, Steps
  <2>2. call[c].request # NoId
    BY <1>1, <2>1 DEF Sound, InHand
  <2>3. CASE StopWorkerPayout /\ Continue(c, "manualUndo")
    <3>1. PayoutStopped'
      BY <1>1, <2>3, StopStops
    <3> QED BY <1>1, <1>3, <2>1, <2>2, <2>3, <3>1, CallContinues DEF Inv
  <2>4. CASE Continue(c, "manualClaim")
    BY <1>1, <1>3, <2>1, <2>2, <2>4, CallContinues DEF Inv
  <2>5. CASE Return(c)
    BY <1>1, <1>3, <2>5, CallReturns DEF Inv
  <2> QED BY <1>5, <2>3, <2>4, <2>5 DEF ManualStop
<1> QED BY <1>4, <1>5

\* createRefund keeps the chain.
LEMMA CreateKeeps ==
    ASSUME World, NEW c \in Calls, Sound(call[c]), call[c].at = "refund", CreateRefund(c),
           UNCHANGED <<rows, invoice>>, faults' \in 0 .. MaxFaults, crashes' = crashes
    PROVE  /\ World' /\ Kept
           /\ call[c].refund + 1 \in Refunds
           /\ refund'[call[c].refund + 1] \in RefundStatuses \ {"NONE"}
<1> DEFINE p == call[c].refund
           r == call[c].refund + 1
<1>1. /\ p \in Refunds \cup {NoId} /\ MaxRefunds \in Nat \ {0}
      /\ refund \in [Refunds -> RefundStatuses] /\ crashes \in 0 .. MaxCrashes
  BY BoundsAssumption DEF Sound, CallRecord, World, WorldTyped
<1>2. r \in Refunds /\ p \in Nat
  BY <1>1 DEF CreateRefund, CanRefund, Refunds, NoId
<1>3. CASE refund[r] # "NONE"
  <2>1. refund' = refund /\ UNCHANGED <<rows, remote>>
    BY <1>3 DEF CreateRefund, remote
  <2>2. World' /\ Kept
    BY <1>1, <2>1, WorldSame
  <2> QED BY <1>1, <1>2, <1>3, <2>1, <2>2
<1>4. CASE refund[r] = "NONE"
  <2>1. PICK s \in RefundStatuses \ {"NONE"} : refund' = [refund EXCEPT ![r] = s]
    BY <1>4 DEF CreateRefund
  <2>2. PayoutStopped /\ MoneyIn
    BY DEF Sound, Relies
  <2>3. p # NoId => refund[p] = "FAILED"
    BY <1>1 DEF CreateRefund, CanRefund, ReusesPrior, Sound, Relies, LiveRefund, RefundStatuses
  <2>4. ASSUME NEW q \in Refunds, q < r PROVE refund[q] = "FAILED"
    <3>1. q \in Nat /\ q >= 1
      BY DEF Refunds
    <3>2. q = p \/ q < p
      BY <1>2, <2>4, <3>1
    <3>3. p # NoId /\ p \in Refunds
      BY <1>1, <1>2, <3>1, <3>2 DEF NoId
    <3> QED BY <2>3, <3>2, <3>3 DEF World, Chained
  <2>5. World' /\ Kept
    BY <1>2, <1>4, <2>1, <2>2, <2>4, RefundMoves
  <2> QED BY <1>1, <1>2, <2>1, <2>5
<1> QED BY <1>3, <1>4

(* The next refund of the chain is made when the last one has failed.       *)
LEMMA RequestStep ==
    ASSUME Inv, NEW c \in Calls, RequestXenditRefund(c)
    PROVE  Inv'
<1>1. /\ World /\ CallsSound /\ WorldTyped /\ Sound(call[c]) /\ call[c] \in CallRecord
      /\ refund \in [Refunds -> RefundStatuses]
  BY DEF Inv, World, WorldTyped, CallsSound, Sound
<1>2. /\ call[c].at = "refund" /\ UNCHANGED <<rows, invoice>> /\ crashes' = crashes
      /\ (Fault \/ NoFault)
  BY DEF RequestXenditRefund, At
<1>3. faults' \in 0 .. MaxFaults /\ crashes' \in 0 .. MaxCrashes
  BY <1>1, <1>2, FaultTyped DEF WorldTyped
<1>4. World' /\ Kept
  <2>1. CASE CreateRefund(c)
    BY <1>1, <1>2, <1>3, <2>1, CreateKeeps
  <2>2. CASE ~CreateRefund(c)
    <3>1. UNCHANGED <<rows, remote>>
      BY <1>2, <2>2 DEF RequestXenditRefund, remote
    <3> QED BY <1>1, <1>3, <3>1, WorldSame
  <2> QED BY <2>1, <2>2
<1>5. CASE Throw(c)
  BY <1>1, <1>4, <1>5, CallThrows DEF Inv
<1>6. PICK m : m = call[c]
  OBVIOUS
<1>7. Sound(m)' /\ m \in CallRecord /\ m.refund \in Refunds \cup {NoId}
  BY <1>1, <1>4, <1>6, StaysSound DEF CallRecord
<1>8. ASSUME NEW r \in Refunds, NEW s \in RefundStatuses, refund'[r] # "NONE",
             call' = [call EXCEPT ![c].at = "storeRefund", ![c].refund = r, ![c].status = s]
      PROVE  Inv'
  <2>1. PICK k : k = [m EXCEPT !.at = "storeRefund", !.refund = r, !.status = s]
    OBVIOUS
  <2>2. /\ k \in CallRecord /\ k.at = "storeRefund" /\ k.refund = r /\ k.for = m.for
        /\ k.request = m.request
    BY <1>7, <2>1 DEF CallRecord, Steps
  <2>3. r # NoId
    BY DEF Refunds, NoId
  <2>4. Sound(k)'
    BY <1>7, <1>8, <2>2, <2>3 DEF Sound, Relies, InHand
  <2>5. call' = [call EXCEPT ![c] = k]
    BY <1>6, <1>8, <2>1
  <2> QED BY <1>1, <1>4, <2>4, <2>5, CallMoves DEF Inv
<1>9. CASE /\ ReusesPrior(c) /\ UNCHANGED refund
           /\ call' = [call EXCEPT ![c].at = "storeRefund", ![c].status = refund[call[c].refund]]
  <2>1. m.refund \in Refunds /\ refund'[m.refund] # "NONE" /\ refund[m.refund] \in RefundStatuses
    BY <1>1, <1>6, <1>7, <1>9 DEF ReusesPrior, LiveRefund
  <2>2. PICK s \in RefundStatuses : s = refund[m.refund]
    BY <2>1
  <2>3. PICK r \in Refunds : r = m.refund
    BY <2>1
  <2>4. [m EXCEPT !.at = "storeRefund", !.status = s]
            = [m EXCEPT !.at = "storeRefund", !.refund = r, !.status = s]
    BY <1>7, <2>3 DEF CallRecord
  <2>5. call' = [call EXCEPT ![c] = [m EXCEPT !.at = "storeRefund", !.status = s]]
    BY <1>6, <1>9, <2>2
  <2>6. call' = [call EXCEPT ![c].at = "storeRefund", ![c].refund = r, ![c].status = s]
    BY <1>6, <2>4, <2>5
  <2> QED BY <1>8, <2>1, <2>3, <2>6
<1>10. CASE /\ CreateRefund(c)
            /\ call' = [call EXCEPT ![c].at = "storeRefund", ![c].refund = @ + 1,
                                    ![c].status = refund'[call[c].refund + 1]]
  <2>1. /\ m.refund + 1 \in Refunds /\ refund'[m.refund + 1] \in RefundStatuses \ {"NONE"}
    BY <1>1, <1>2, <1>3, <1>6, <1>10, CreateKeeps
  <2>2. PICK s \in RefundStatuses : s = refund'[m.refund + 1]
    BY <2>1
  <2>3. PICK r \in Refunds : r = m.refund + 1
    BY <2>1
  <2>4. call' = [call EXCEPT ![c].at = "storeRefund", ![c].refund = r, ![c].status = s]
    BY <1>6, <1>10, <2>2, <2>3
  <2> QED BY <1>8, <2>1, <2>3, <2>4
<1> QED BY <1>5, <1>9, <1>10 DEF RequestXenditRefund

(* What happens to an invoice leaves those paid as they are.                *)
LEMMA InvoiceStep ==
    ASSUME Inv, NEW c \in Calls, CheckoutMint(c) \/ VoidExpire(c)
    PROVE  Inv'
<1>1. /\ World /\ CallsSound /\ WorldTyped /\ Sound(call[c]) /\ call[c] \in CallRecord
      /\ invoice \in [Invoices -> InvoiceStatuses]
  BY DEF Inv, World, WorldTyped, CallsSound, Sound
<1>2. UNCHANGED <<rows, refund>> /\ crashes' = crashes /\ faults' \in 0 .. MaxFaults
  <2>1. UNCHANGED <<rows, refund>> /\ crashes' = crashes /\ (Fault \/ NoFault)
    BY DEF CheckoutMint, VoidExpire, NoFault
  <2> QED BY <1>1, <2>1, FaultTyped
<1>3. "failVoid" \in FreeSteps
  BY DEF FreeSteps, Steps
<1>4. CASE VoidExpire(c)
  <2>1. PICK i \in Invoices : i = call[c].invoice
    BY <1>1, <1>4 DEF VoidExpire, At, Sound, InHand, CallRecord
  <2>2. invoice' = invoice \/ (invoice[i] \notin Received /\ invoice' = [invoice EXCEPT ![i] = "EXPIRED"])
    BY <1>4, <2>1 DEF VoidExpire
  <2>3. /\ invoice' \in [Invoices -> InvoiceStatuses]
        /\ \A j \in Invoices : invoice[j] \in Received => invoice'[j] = invoice[j]
    BY <1>1, <2>2 DEF InvoiceStatuses
  <2>4. World' /\ Kept
    BY <1>1, <1>2, <2>3, InvoiceMoves
  <2>5. Return(c) \/ Turn(c, "failVoid")
    BY <1>4 DEF VoidExpire
  <2> QED BY <1>1, <1>3, <2>4, <2>5, CallReturns, CallTurns DEF Inv
<1>5. CASE CheckoutMint(c)
  <2>1. CASE UNCHANGED invoice /\ Return(c)
    <3>1. World' /\ Kept
      BY <1>1, <1>2, <2>1, InvoiceMoves
    <3> QED BY <1>1, <2>1, <3>1, CallReturns DEF Inv
  <2>2. ASSUME NEW i \in NextInvoice, invoice' = [invoice EXCEPT ![i] = "PENDING"],
               Return(c) \/ call' = [call EXCEPT ![c].at = "store", ![c].invoice = i]
        PROVE  Inv'
    <3>1. i \in Invoices /\ invoice[i] = "NONE"
      BY DEF NextInvoice
    <3>2. /\ invoice' \in [Invoices -> InvoiceStatuses]
          /\ \A j \in Invoices : invoice[j] \in Received => invoice'[j] = invoice[j]
      BY <1>1, <2>2, <3>1 DEF InvoiceStatuses, Received
    <3>3. World' /\ Kept
      BY <1>1, <1>2, <3>2, InvoiceMoves
    <3>4. CASE Return(c)
      BY <1>1, <3>3, <3>4, CallReturns DEF Inv
    <3>5. CASE call' = [call EXCEPT ![c].at = "store", ![c].invoice = i]
      <4>1. PICK m : m = call[c]
        OBVIOUS
      <4>2. Sound(m)' /\ m \in CallRecord
        BY <1>1, <3>3, <4>1, StaysSound
      <4>3. PICK k : k = [m EXCEPT !.at = "store", !.invoice = i]
        OBVIOUS
      <4>4. /\ k \in CallRecord /\ k.at = "store" /\ k.refund = m.refund /\ k.for = m.for
            /\ k.request = m.request /\ k.invoice = i
        BY <3>1, <4>2, <4>3 DEF CallRecord, Steps
      <4>5. i # NoId
        BY <3>1 DEF Invoices, NoId
      <4>6. Sound(k)'
        BY <4>2, <4>4, <4>5 DEF Sound, Relies, InHand
      <4>7. call' = [call EXCEPT ![c] = k]
        BY <3>5, <4>1, <4>3
      <4> QED BY <1>1, <3>3, <4>6, <4>7, CallMoves DEF Inv
    <3> QED BY <2>2, <3>4, <3>5
  <2> QED BY <1>5, <2>1, <2>2 DEF CheckoutMint
<1> QED BY <1>4, <1>5

-----------------------------------------------------------------------------
(* The theorems. *)

(* Every step keeps the invariant.                                          *)
THEOREM StepInv == Inv /\ [Next]_vars => Inv'
<1> SUFFICES ASSUME Inv, [Next]_vars PROVE Inv'
  OBVIOUS
<1>1. CASE UNCHANGED vars
  <2>1. World /\ CallsSound /\ faults \in 0 .. MaxFaults /\ crashes \in 0 .. MaxCrashes
    BY DEF Inv, World, WorldTyped
  <2>2. World' /\ Kept
    BY <1>1, <2>1, WorldSame DEF vars, rows, remote
  <2> QED BY <1>1, <2>1, <2>2, CallsStay DEF Inv, vars
<1>2. ASSUME NEW c \in Calls, People(c) PROVE Inv'
  BY <1>2, ReadingStep, OtherStep, ApproveStep DEF People
<1>3. ASSUME NEW c \in Calls, Webhooks(c) PROVE Inv'
  BY <1>3, ReadingStep, OtherStep DEF Webhooks
<1>4. ASSUME NEW c \in Calls, Sweeps(c) PROVE Inv'
  BY <1>4, ReadingStep, RefundReadStep DEF Sweeps
<1>5. ASSUME NEW c \in Calls, Continued(c) PROVE Inv'
  BY <1>5, ReadingStep, OtherStep, AskingStep, RefundReadStep, PaymentStep, SettlingStep,
     StoppingStep, RequestStep, InvoiceStep DEF Continued
<1>6. ASSUME NEW c \in Calls, Crash(c) PROVE Inv'
  BY <1>6, AskingStep
<1> QED BY <1>1, <1>2, <1>3, <1>4, <1>5, <1>6, ProviderStep, RejectStep DEF Next

(* What the rest goes back to, for any number of overlapping requests,      *)
(* webhooks and sweeps, failures of the provider and crashes: the rows, the *)
(* provider's objects and the handlers' hands keep their types, refunds     *)
(* form a chain of failed ones with a last one, the row names one of it,    *)
(* and what each handler took from its earlier steps still stands when it   *)
(* goes on.                                                                 *)
THEOREM PaymentConsistent == Spec => []Consistent
<1>1. Inv => Consistent
  BY InvMeans DEF Consistent
<1> QED BY <1>1, InitInv, StepInv, PTL DEF Spec

(* In particular every row and every handler's hand keeps its type.         *)
THEOREM PaymentTyped == Spec => []TypeOK
<1>1. Consistent => TypeOK
  BY DEF Consistent
<1> QED BY <1>1, PaymentConsistent, PTL

(* One payment is never refunded twice at the provider, however often the   *)
(* refund is tried (requestXenditRefund).                                   *)
THEOREM RefundedOnce == Spec => []OneRefund
BY InitInv, StepInv, InvIsOneRefund, PTL DEF Spec

(* A refund asked of the provider, or a settlement undone, means that the   *)
(* worker has no payout and never gets one (stopWorkerPayout).              *)
THEOREM NoRefundBesidePayout == Spec => []RefundedNotPaidOut
<1>1. Inv => RefundedNotPaidOut
  BY InvMeans DEF PaymentInv
<1> QED BY <1>1, InitInv, StepInv, PTL DEF Spec

(* No booking is completed, no payment captured and no payout made without  *)
(* money in full (finalizePaidBooking, settlePlatformFundedPayment).        *)
THEOREM CompletionIsPaidFor == Spec => []CompletedIsPaid
<1>1. Inv => CompletedIsPaid
  BY InvMeans DEF PaymentInv, CompletedIsPaid
<1> QED BY <1>1, InitInv, StepInv, PTL DEF Spec

-----------------------------------------------------------------------------
(* What the platform promises about the worker's earnings (Earnings). *)

Returned == payment.reversed \/ \E r \in Refunds : refund[r] \in LiveRefund

\* What a step may do to the earnings, the payout and the client's money.
EarningsSame ==
    payment'.settled = payment.settled /\ payout' = payout /\ Returned' = Returned
EarningsClaimed ==
    /\ ~payment.settled /\ payment'.settled = TRUE
    /\ payout' \in {"NONE", "OPEN"} /\ Returned' = Returned
PayoutEnded ==
    /\ payout = "OPEN" /\ payout' \in {"PAID", "CANCELLED"}
    /\ payment'.settled = payment.settled /\ Returned' = Returned
MoneyReturned ==
    /\ PayoutStopped /\ Returned' = TRUE
    /\ payment'.settled = payment.settled /\ payout' = payout
MoneyRestored ==
    /\ Returned' = FALSE
    /\ payment'.settled = payment.settled /\ payout' = payout

EarningsMoved ==
    EarningsSame \/ EarningsClaimed \/ PayoutEnded \/ MoneyReturned \/ MoneyRestored

(* Each of them is a step of the abstract specification, or none.           *)
LEMMA MovedImplements ==
    ASSUME EarningsMoved
    PROVE  [OfWorker!Next]_(OfWorker!vars)
<1>1. /\ EarningsSame => UNCHANGED OfWorker!vars
      /\ EarningsClaimed => OfWorker!Claim("payment")
      /\ PayoutEnded => OfWorker!Send("payment") \/ OfWorker!Stop("payment")
      /\ MoneyReturned => OfWorker!Return("payment")
      /\ MoneyRestored => OfWorker!Restore("payment")
  BY DEF EarningsSame, EarningsClaimed, PayoutEnded, MoneyReturned, MoneyRestored, Returned,
         PayoutStopped, OfWorker!vars, OfWorker!Claim, OfWorker!Send, OfWorker!Stop,
         OfWorker!Return, OfWorker!Restore
<1> QED BY <1>1 DEF EarningsMoved, OfWorker!Next

\* Neither the claim, the payout nor what is returned of the money.
Elsewhere ==
    /\ payment'.settled = payment.settled /\ payment'.reversed = payment.reversed
    /\ payout' = payout /\ refund' = refund

(* A step elsewhere changes nothing of them.                                *)
LEMMA ElsewhereSame ==
    ASSUME Elsewhere
    PROVE  EarningsMoved
BY DEF Elsewhere, EarningsMoved, EarningsSame, Returned

(* People, webhooks, sweeps and crashes begin or end a call.                *)
LEMMA BeginningsElsewhere ==
    ASSUME NEW c \in Calls, People(c) \/ Webhooks(c) \/ Sweeps(c) \/ Crash(c)
    PROVE  Elsewhere
<1>1. CASE People(c)
  BY <1>1 DEF People, Elsewhere, rows, remote, Checkout, ReportInvoice, InvoiceKept,
     CancelBooking, ClientVoids, PayFromPlatform, ApproveRequest, MarkRefundedManually
<1>2. CASE Webhooks(c)
  BY <1>2 DEF Webhooks, Elsewhere, rows, remote, InvoicePaid, InvoiceFailed
<1>3. CASE Sweeps(c)
  BY <1>3 DEF Sweeps, Elsewhere, rows, remote, SelfHeal, Reconcile, ReconcileRefund
<1>4. CASE Crash(c)
  BY <1>4 DEF Crash, Elsewhere, rows, remote
<1> QED BY <1>1, <1>2, <1>3, <1>4

(* So do the steps of a checkout, of a capture, of a void, of a request and *)
(* most of a refund.                                                        *)
LEMMA ContinuedElsewhere ==
    ASSUME Inv, NEW c \in Calls, Continued(c),
           ~Settle(c), ~RefundStop(c), ~ManualStop(c), ~RequestXenditRefund(c), ~Undo(c),
           ~ManualUndo(c)
    PROVE  Elsewhere
<1>1. payment \in PaymentRow
  BY DEF Inv, World, WorldTyped
<1>2. CASE \/ CheckoutRead(c) \/ CheckoutResume(c) \/ CheckoutRecheck(c) \/ CheckoutMint(c)
           \/ CheckoutBill(c) \/ ReconcileRemote(c) \/ VoidRead(c) \/ VoidExpire(c)
           \/ RequestRefund(c) \/ FileRequest(c) \/ FailRequest(c) \/ RefundRead(c)
           \/ RefundRemote(c) \/ FailApproved(c) \/ ManualClaim(c)
  BY <1>2 DEF Elsewhere, rows, remote, CheckoutRead, CheckoutResume, CheckoutRecheck,
     CheckoutMint, CheckoutBill, ReconcileRemote, VoidRead, VoidExpire, RequestRefund,
     FileRequest, FailRequest, RefundRead, RefundRemote, FailApproved, ManualClaim
<1>3. CASE \/ CheckoutPrepare(c) \/ CheckoutStore(c) \/ Finalize(c) \/ Fail(c) \/ VoidFail(c)
           \/ Fund(c)
  BY <1>1, <1>3 DEF PaymentRow, Elsewhere, remote, CheckoutPrepare, CheckoutStore, Finalize,
     Fail, VoidFail, Fund
<1>4. CASE RefundStore(c) \/ Refunded(c) \/ RefundDone(c) \/ Reopen(c) \/ ManualWrite(c)
  BY <1>1, <1>4 DEF PaymentRow, Elsewhere, remote, RefundStore, Refunded, RefundDone, Reopen,
     ManualWrite
<1> QED BY <1>2, <1>3, <1>4 DEF Continued

(* While the payout is stopped the money may come and go.                   *)
LEMMA StoppedMoves ==
    ASSUME PayoutStopped, payment'.settled = payment.settled, payout' = payout
    PROVE  EarningsMoved
<1>1. Returned \in BOOLEAN /\ Returned' \in BOOLEAN
  BY DEF Returned
<1>2. CASE Returned' = TRUE
  BY <1>2 DEF EarningsMoved, MoneyReturned
<1>3. CASE Returned' = FALSE
  BY <1>1, <1>3 DEF EarningsMoved, MoneyRestored, EarningsSame
<1> QED BY <1>1, <1>2, <1>3

(* The settlement, and stopWorkerPayout, which settles or cancels.          *)
LEMMA SettlingMoves ==
    ASSUME Inv, NEW c \in Calls, Settle(c) \/ RefundStop(c) \/ ManualStop(c)
    PROVE  EarningsMoved
<1>1. /\ payment \in PaymentRow /\ payout \in {"NONE", "OPEN", "PAID", "CANCELLED"}
      /\ (payout # "NONE" => payment.settled)
  BY DEF Inv, World, WorldTyped
<1>2. refund' = refund
  BY DEF Settle, RefundStop, ManualStop, remote
<1>3. CASE UNCHANGED <<payment, payout>>
  BY <1>2, <1>3, ElsewhereSame DEF Elsewhere
<1>4. CASE ~payment.settled /\ payment' = [payment EXCEPT !.settled = TRUE]
           /\ payout' \in {"NONE", "OPEN"}
  BY <1>1, <1>2, <1>4 DEF PaymentRow, EarningsMoved, EarningsClaimed, Returned
<1>5. CASE payout = "OPEN" /\ payout' = "CANCELLED" /\ UNCHANGED payment
  BY <1>2, <1>5 DEF EarningsMoved, PayoutEnded, Returned
<1>6. Settle(c) => UNCHANGED <<payment, payout>> \/ SettleWorkerEarnings
  BY DEF Settle
<1>7. RefundStop(c) \/ ManualStop(c) => UNCHANGED <<payment, payout>> \/ StopWorkerPayout
  BY DEF RefundStop, ManualStop
<1> QED BY <1>1, <1>3, <1>4, <1>5, <1>6, <1>7 DEF SettleWorkerEarnings, StopWorkerPayout

(* Handlers, the provider and the payout, all together.                     *)
LEMMA StepMovesEarnings ==
    ASSUME Inv, [Next]_vars
    PROVE  EarningsMoved
<1>1. CASE UNCHANGED vars
  BY <1>1, ElsewhereSame DEF vars, Elsewhere
<1>2. ASSUME NEW c \in Calls, People(c) \/ Webhooks(c) \/ Sweeps(c) \/ Crash(c)
      PROVE  EarningsMoved
  BY <1>2, BeginningsElsewhere, ElsewhereSame
<1>3. ASSUME NEW c \in Calls, Continued(c) PROVE EarningsMoved
  <2>1. CASE Settle(c) \/ RefundStop(c) \/ ManualStop(c)
    BY <2>1, SettlingMoves
  <2>2. CASE RequestXenditRefund(c) \/ Undo(c) \/ ManualUndo(c)
    <3>1. call[c].at \in {"refund", "undo", "manualUndo"} /\ payment \in PaymentRow
      BY <2>2 DEF RequestXenditRefund, Undo, ManualUndo, At, Inv, World, WorldTyped
    <3>2. PayoutStopped
      BY <3>1 DEF Inv, CallsSound, Sound, Relies
    <3>3. payment'.settled = payment.settled /\ payout' = payout
      BY <2>2, <3>1 DEF RequestXenditRefund, Undo, ManualUndo, PaymentRow, rows
    <3> QED BY <3>2, <3>3, StoppedMoves
  <2>3. CASE \/ Settle(c) \/ RefundStop(c) \/ ManualStop(c) \/ RequestXenditRefund(c)
             \/ Undo(c) \/ ManualUndo(c)
    BY <2>1, <2>2, <2>3
  <2> QED BY <1>3, <2>3, ContinuedElsewhere, ElsewhereSame
<1>4. ASSUME NEW q \in Requests, RejectRequest(q) PROVE EarningsMoved
  BY <1>4, ElsewhereSame DEF RejectRequest, Elsewhere, remote
<1>5. ASSUME NEW i \in Invoices, PayInvoice(i) \/ InvoiceExpires(i) PROVE EarningsMoved
  BY <1>5, ElsewhereSame DEF PayInvoice, InvoiceExpires, Elsewhere, rows
<1>6. ASSUME NEW r \in Refunds, RefundEnds(r) PROVE EarningsMoved
  <2>1. PayoutStopped
    BY <1>6 DEF RefundEnds, Inv, World, RefundMade
  <2> QED BY <1>6, <2>1, StoppedMoves DEF RefundEnds, rows
<1>7. CASE PayoutReported
  BY <1>7 DEF PayoutReported, remote, EarningsMoved, PayoutEnded, Returned
<1> QED BY <1>1, <1>2, <1>3, <1>4, <1>5, <1>6, <1>7 DEF Next, Provider

(* The payment implements Earnings: its refunds, sweeps and webhooks, in    *)
(* any number and order, claim the earnings once, leave a payout PAID or    *)
(* CANCELLED as it is, and give money back only while none is open or paid  *)
(* (settleWorkerEarnings, stopWorkerPayout, refundOrVoidPayment).           *)
THEOREM ImplementsEarnings == Spec => FollowsEarnings
<1>1. Init => OfWorker!Init
  <2> SUFFICES ASSUME Init PROVE OfWorker!Init
    OBVIOUS
  <2>1. Returned = FALSE /\ payment.settled = FALSE /\ payout = "NONE"
    BY DEF Init, Returned, LiveRefund
  <2> QED BY <2>1 DEF Returned, OfWorker!Init
<1>2. Inv /\ [Next]_vars => [OfWorker!Next]_(OfWorker!vars)
  BY StepMovesEarnings, MovedImplements
<1> QED BY <1>1, <1>2, InitInv, StepInv, PTL DEF Spec, FollowsEarnings, OfWorker!Spec

=============================================================================
