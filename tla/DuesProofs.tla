----------------------------- MODULE DuesProofs -----------------------------
(***************************************************************************)
(* What is proved about Dues, for any number of jobs and payments of dues, *)
(* any amounts and any bounds: types, that dues and credit are netted at   *)
(* all times, that an undone settlement leaves no trace, that the two      *)
(* books agree job by job and, by the lemmas of Sums, altogether, and that *)
(* Dues implements Earnings.                                               *)
(***************************************************************************)
EXTENDS Dues, Sums, TLAPS

Netted(x) == x.owed = 0 \/ x.credit = 0

JobInv(j) == SettlementInv(j) /\ RefundInv(j) /\ BooksInv(j) /\ moved[j] = Effect(j)

\* What the steps keep.
Inv == TypeOK /\ NeverBoth /\ UndoneInFull /\ DuesInv

\* A step of one job: the others, and what belongs to none, stay as they are.
Elsewhere(j) ==
    /\ \A k \in Jobs \ {j} : /\ payment'[k] = payment[k]
                             /\ at'[k] = at[k]
                             /\ posted'[k] = posted[k]
    /\ \A e \in Entries \ {j} : books'[e] = books[e] /\ moved'[e] = moved[e]

-----------------------------------------------------------------------------
(* The account. *)

(* The smaller of two numbers.                                              *)
LEMMA LeastFacts ==
    ASSUME NEW m \in Nat, NEW n \in Nat
    PROVE  Least(m, n) \in Nat /\ Least(m, n) <= m /\ Least(m, n) <= n
           /\ (Least(m, n) = m \/ Least(m, n) = n)
BY DEF Least

(* A charge takes the credit first and leaves the account netted.           *)
LEMMA AccruedFacts ==
    ASSUME NEW x \in Account, NEW n \in Nat
    PROVE  /\ Accrued(x, n) \in Account
           /\ Net(Accrued(x, n)) = Net(x) - n
           /\ Netted(x) => Netted(Accrued(x, n))
<1> DEFINE l == Least(x.credit, n)
<1>1. x.owed \in Nat /\ x.credit \in Nat /\ x.held \in BOOLEAN
  BY DEF Account
<1>2. l \in Nat /\ l <= x.credit /\ l <= n /\ (l = x.credit \/ l = n)
  BY <1>1, LeastFacts
<1> HIDE DEF l
<1>3. /\ Accrued(x, n).owed = x.owed + (n - l)
      /\ Accrued(x, n).credit = x.credit - l
  BY DEF Accrued, l
<1>4. Accrued(x, n) \in Account
  BY <1>1, <1>2 DEF Accrued, Account, l
<1> QED BY <1>1, <1>2, <1>3, <1>4 DEF Net, Netted

(* A credit takes off dues first, and what is left of it is kept.           *)
LEMMA CreditedFacts ==
    ASSUME NEW x \in Account, NEW n \in Nat
    PROVE  /\ Credited(x, n) \in Account
           /\ Net(Credited(x, n)) = Net(x) + n
           /\ Netted(x) => Netted(Credited(x, n))
<1> DEFINE l == Least(x.owed, n)
<1>1. x.owed \in Nat /\ x.credit \in Nat /\ x.held \in BOOLEAN
  BY DEF Account
<1>2. l \in Nat /\ l <= x.owed /\ l <= n /\ (l = x.owed \/ l = n)
  BY <1>1, LeastFacts
<1> HIDE DEF l
<1>3. Credited(x, n) = [x EXCEPT !.owed = x.owed - l, !.credit = x.credit + (n - l)]
  BY DEF Credited, l
<1> DEFINE u == x.owed - l
           v == x.credit + (n - l)
<1>5. u \in Nat /\ v \in Nat /\ u = x.owed - l /\ v = x.credit + (n - l)
  BY <1>1, <1>2
<1>6. Credited(x, n) = [x EXCEPT !.owed = u, !.credit = v]
  BY <1>3
<1> HIDE DEF u, v
<1>4. Credited(x, n) \in Account /\ Credited(x, n).owed = u /\ Credited(x, n).credit = v
  BY <1>5, <1>6 DEF Account
<1> QED BY <1>1, <1>2, <1>4, <1>5 DEF Net, Netted

(* What is paid beyond the dues of the moment becomes credit.               *)
LEMMA PaidDownFacts ==
    ASSUME NEW x \in Account, NEW n \in Nat
    PROVE  /\ PaidDown(x, n) \in Account
           /\ Net(PaidDown(x, n)) = Net(x) + n
           /\ Netted(x) => Netted(PaidDown(x, n))
<1> DEFINE y == Credited(x, n)
<1>1. y \in Account /\ Net(y) = Net(x) + n /\ (Netted(x) => Netted(y))
  BY CreditedFacts
<1>2. PaidDown(x, n) = [y EXCEPT !.held = y.held /\ y.owed > 0]
  BY DEF PaidDown
<1> HIDE DEF y
<1>3. /\ PaidDown(x, n) \in Account
      /\ PaidDown(x, n).owed = y.owed /\ PaidDown(x, n).credit = y.credit
  BY <1>1, <1>2 DEF Account
<1> QED BY <1>1, <1>3 DEF Net, Netted

-----------------------------------------------------------------------------
(* Frames. *)

(* A step about one job need only be looked at for that job.                *)
LEMMA JobKept ==
    ASSUME Inv, NEW j \in Jobs, TypeOK', NeverBoth', Elsewhere(j), JobInv(j)'
    PROVE  Inv'
<1>1. \A k \in Jobs \ {j} : /\ payment'[k] = payment[k] /\ at'[k] = at[k] /\ posted'[k] = posted[k]
                            /\ books'[k] = books[k] /\ moved'[k] = moved[k]
  BY DEF Elsewhere, Entries
<1>2. ASSUME NEW k \in Jobs \ {j} PROVE JobInv(k)'
  <2>1. JobInv(k)
    BY DEF Inv, UndoneInFull, DuesInv, JobInv
  <2>2. SettlementInv(k)'
    BY <1>1, <2>1 DEF JobInv, SettlementInv, Earned
  <2>3. RefundInv(k)'
    BY <1>1, <2>1 DEF JobInv, RefundInv, Earned, PayoutStopped
  <2>4. Effect(k)' = Effect(k)
    BY <1>1 DEF Effect
  <2>5. BooksInv(k)'
    BY <1>1, <2>1, <2>4 DEF JobInv, BooksInv, Earned, If
  <2> QED BY <1>1, <2>1, <2>2, <2>3, <2>4, <2>5 DEF JobInv
<1>3. \A k \in Jobs : JobInv(k)'
  BY <1>2
<1>4. books'[Others] = moved'[Others]
  BY AmountsAssumption DEF Inv, DuesInv, Elsewhere, Entries
<1> QED BY <1>3, <1>4 DEF Inv, UndoneInFull, DuesInv, JobInv

(* One payment row is written, the others stay.                             *)
LEMMA RowWritten ==
    ASSUME TypeOK, NEW j \in Jobs, NEW q \in PaymentRow, payment' = [payment EXCEPT ![j] = q]
    PROVE  /\ payment' \in [Jobs -> PaymentRow]
           /\ payment'[j] = q
           /\ \A k \in Jobs \ {j} : payment'[k] = payment[k]
BY DEF TypeOK

(* One refund moves to its next step.                                       *)
LEMMA WentTo ==
    ASSUME TypeOK, NEW j \in Jobs, NEW a \in RefundSteps, at' = [at EXCEPT ![j] = a]
    PROVE  /\ at' \in [Jobs -> RefundSteps]
           /\ at'[j] = a
           /\ \A k \in Jobs \ {j} : at'[k] = at[k]
BY DEF TypeOK

(* A posting counts once for its key.                                       *)
LEMMA PostFacts ==
    ASSUME TypeOK, NEW j \in Jobs, NEW key \in Keys, NEW n \in Int, Post(j, key, n)
    PROVE  /\ posted' \in [Jobs -> SUBSET Keys] /\ books' \in [Entries -> Int]
           /\ posted'[j] = posted[j] \cup {key}
           /\ books'[j] = IF key \in posted[j] THEN books[j] ELSE books[j] + n
           /\ \A k \in Jobs \ {j} : posted'[k] = posted[k]
           /\ \A e \in Entries \ {j} : books'[e] = books[e]
<1>1. j \in Entries /\ books \in [Entries -> Int] /\ posted \in [Jobs -> SUBSET Keys]
  BY DEF TypeOK, Entries
<1>2. CASE key \in posted[j]
  <2>1. posted' = posted /\ books' = books
    BY <1>2 DEF Post, ledger
  <2>2. posted[j] \cup {key} = posted[j]
    BY <1>2
  <2> QED BY <1>1, <1>2, <2>1, <2>2
<1>3. CASE key \notin posted[j]
  <2> DEFINE s == posted[j] \cup {key}
             b == books[j] + n
  <2>1. s \in SUBSET Keys /\ b \in Int
    BY <1>1
  <2>2. posted' = [posted EXCEPT ![j] = s] /\ books' = [books EXCEPT ![j] = b]
    BY <1>3 DEF Post
  <2>3. b = books[j] + n /\ s = posted[j] \cup {key}
    OBVIOUS
  <2> HIDE DEF s, b
  <2> QED BY <1>1, <1>3, <2>1, <2>2, <2>3
<1> QED BY <1>2, <1>3

(* A change of the account is booked under what it is for.                  *)
LEMMA ChangeFacts ==
    ASSUME TypeOK, NEW e \in Entries, NEW x \in Account, Netted(x), Change(e, x)
    PROVE  /\ account' \in Account /\ NeverBoth'
           /\ moved' \in [Entries -> Int]
           /\ moved'[e] = moved[e] + (Net(x) - Net(account))
           /\ \A f \in Entries \ {e} : moved'[f] = moved[f]
<1>1. account' = x /\ NeverBoth'
  BY DEF Change, Netted, NeverBoth
<1>2. account \in Account /\ moved \in [Entries -> Int]
  BY DEF TypeOK
<1>3. Net(x) \in Int /\ Net(account) \in Int
  BY <1>2 DEF Net, Account
<1>4. moved' = [moved EXCEPT ![e] = moved[e] + (Net(x) - Net(account))]
  BY DEF Change
<1> QED BY <1>1, <1>2, <1>3, <1>4

-----------------------------------------------------------------------------
(* Jobs are paid for. *)

(* What the invariant says of one job.                                      *)
LEMMA JobFacts ==
    ASSUME Inv, NEW j \in Jobs
    PROVE  /\ TypeOK /\ payment[j] \in PaymentRow /\ at[j] \in RefundSteps
           /\ posted[j] \in SUBSET Keys /\ books[j] \in Int /\ moved[j] \in Int
           /\ Share[j] \in Nat \ {0} /\ Cut[j] \in Nat
           /\ j \in Entries /\ j # Others
           /\ account \in Account /\ Netted(account)
           /\ JobInv(j)
BY AmountsAssumption DEF Inv, TypeOK, Entries, NeverBoth, Netted, UndoneInFull, DuesInv, JobInv

(* A payment is captured and posted, and the account stays as it is.        *)
LEMMA CaptureInv ==
    ASSUME Inv, NEW j \in Jobs, Capture(j)
    PROVE  Inv'
<1>1. PICK m \in {"ONLINE", "PLATFORM"} :
         payment' = [payment EXCEPT ![j].status = "COMPLETED", ![j].method = m]
  BY DEF Capture
<1> DEFINE p == payment[j]
           q == [p EXCEPT !.status = "COMPLETED", !.method = m]
<1>2. /\ TypeOK /\ p \in PaymentRow /\ at[j] \in RefundSteps
      /\ posted[j] \in SUBSET Keys /\ books[j] \in Int /\ Share[j] \in Nat \ {0}
      /\ JobInv(j) /\ p.status = "NONE"
  BY JobFacts DEF Capture
<1>3. /\ q \in PaymentRow /\ q.status = "COMPLETED" /\ q.method = m
      /\ q.settled = p.settled /\ q.reversed = p.reversed /\ q.recovered = p.recovered
      /\ q.compensationPaid = p.compensationPaid /\ q.payout = p.payout /\ q.amount = p.amount
      /\ q.posting = p.posting /\ q.refund = p.refund
  BY <1>2 DEF PaymentRow
<1>4. payment' = [payment EXCEPT ![j] = q]
  BY <1>1
<1> HIDE DEF q
<1>5. /\ payment' \in [Jobs -> PaymentRow] /\ payment'[j] = q
      /\ \A k \in Jobs \ {j} : payment'[k] = payment[k]
  BY <1>2, <1>3, <1>4, RowWritten
<1>6. /\ posted' \in [Jobs -> SUBSET Keys] /\ books' \in [Entries -> Int]
      /\ posted'[j] = posted[j] \cup {"capture"}
      /\ books'[j] = IF "capture" \in posted[j] THEN books[j] ELSE books[j] + Share[j]
      /\ \A k \in Jobs \ {j} : posted'[k] = posted[k]
      /\ \A e \in Entries \ {j} : books'[e] = books[e]
  BY <1>2, PostFacts DEF Capture, Keys
<1>7. UNCHANGED <<account, at, row, remote, quoted, moved, charges, faults, crashes>>
  BY DEF Capture, checkout, bounds
<1>8. TypeOK' /\ NeverBoth' /\ Elsewhere(j)
  BY <1>5, <1>6, <1>7 DEF Inv, TypeOK, NeverBoth, Elsewhere
<1>9. SettlementInv(j)'
  BY <1>2, <1>3, <1>5 DEF JobInv, SettlementInv, RefundInv, Earned
<1>10. RefundInv(j)'
  BY <1>2, <1>3, <1>5, <1>7 DEF JobInv, SettlementInv, RefundInv, Earned, PayoutStopped
<1>11. BooksInv(j)' /\ (moved[j] = Effect(j))'
  BY <1>2, <1>3, <1>5, <1>6, <1>7 DEF JobInv, SettlementInv, RefundInv, BooksInv, Effect, Earned, If, PaymentRow
<1> QED BY <1>8, <1>9, <1>10, <1>11, JobKept DEF JobInv
(* A payout that is out has yet to be posted.                               *)
LEMMA PayoutSentInv ==
    ASSUME Inv, NEW j \in Jobs, PayoutSent(j)
    PROVE  Inv'
<1> DEFINE p == payment[j]
           q == [p EXCEPT !.payout = "PAID", !.posting = TRUE]
<1>1. /\ TypeOK /\ p \in PaymentRow /\ at[j] \in RefundSteps
      /\ posted[j] \in SUBSET Keys /\ books[j] \in Int /\ Share[j] \in Nat \ {0} /\ Cut[j] \in Nat
      /\ JobInv(j) /\ p.payout = "OPEN"
  BY JobFacts DEF PayoutSent
<1>2. /\ q \in PaymentRow
      /\ q.status = p.status /\ q.method = p.method /\ q.settled = p.settled /\ q.reversed = p.reversed
      /\ q.recovered = p.recovered /\ q.compensationPaid = p.compensationPaid /\ q.payout = "PAID"
      /\ q.amount = p.amount /\ q.posting = TRUE /\ q.refund = p.refund
  BY <1>1 DEF PaymentRow
<1>3. payment' = [payment EXCEPT ![j] = q]
  BY DEF PayoutSent
<1> HIDE DEF q
<1>4. /\ payment' \in [Jobs -> PaymentRow] /\ payment'[j] = q
      /\ \A k \in Jobs \ {j} : payment'[k] = payment[k]
  BY <1>1, <1>2, <1>3, RowWritten
<1>7. UNCHANGED <<at, account, row, remote, quoted, posted, books, moved, charges, faults, crashes>>
  BY DEF PayoutSent, checkout, bounds, ledger
<1>8. TypeOK' /\ NeverBoth' /\ Elsewhere(j)
  BY <1>1, <1>2, <1>4, <1>7 DEF Inv, TypeOK, NeverBoth, Elsewhere
<1>9. SettlementInv(j)'
  BY <1>1, <1>2, <1>4, <1>7 DEF JobInv, SettlementInv, RefundInv, Earned, PaymentRow
<1>10. RefundInv(j)'
  BY <1>1, <1>2, <1>4, <1>7 DEF JobInv, SettlementInv, RefundInv, BooksInv, Earned, PayoutStopped, PaymentRow
<1>11. BooksInv(j)' /\ (moved[j] = Effect(j))'
  BY <1>1, <1>2, <1>4, <1>7 DEF JobInv, SettlementInv, RefundInv, BooksInv, Effect, Earned, PayoutStopped, If, PaymentRow
<1> QED BY <1>8, <1>9, <1>10, <1>11, JobKept DEF JobInv

(* A payout that the provider cancels is owed to the worker still.          *)
LEMMA PayoutCancelledInv ==
    ASSUME Inv, NEW j \in Jobs, PayoutCancelled(j)
    PROVE  Inv'
<1> DEFINE p == payment[j]
           q == [p EXCEPT !.payout = "CANCELLED"]
<1>1. /\ TypeOK /\ p \in PaymentRow /\ at[j] \in RefundSteps
      /\ posted[j] \in SUBSET Keys /\ books[j] \in Int /\ Share[j] \in Nat \ {0} /\ Cut[j] \in Nat
      /\ JobInv(j) /\ p.payout = "OPEN"
  BY JobFacts DEF PayoutCancelled
<1>2. /\ q \in PaymentRow
      /\ q.status = p.status /\ q.method = p.method /\ q.settled = p.settled /\ q.reversed = p.reversed
      /\ q.recovered = p.recovered /\ q.compensationPaid = p.compensationPaid /\ q.payout = "CANCELLED"
      /\ q.amount = p.amount /\ q.posting = p.posting /\ q.refund = p.refund
  BY <1>1 DEF PaymentRow
<1>3. payment' = [payment EXCEPT ![j] = q]
  BY DEF PayoutCancelled
<1> HIDE DEF q
<1>4. /\ payment' \in [Jobs -> PaymentRow] /\ payment'[j] = q
      /\ \A k \in Jobs \ {j} : payment'[k] = payment[k]
  BY <1>1, <1>2, <1>3, RowWritten
<1>7. UNCHANGED <<at, account, row, remote, quoted, posted, books, moved, charges, faults, crashes>>
  BY DEF PayoutCancelled, checkout, bounds, ledger
<1>8. TypeOK' /\ NeverBoth' /\ Elsewhere(j)
  BY <1>1, <1>2, <1>4, <1>7 DEF Inv, TypeOK, NeverBoth, Elsewhere
<1>9. SettlementInv(j)'
  BY <1>1, <1>2, <1>4, <1>7 DEF JobInv, SettlementInv, RefundInv, Earned, PaymentRow
<1>10. RefundInv(j)'
  BY <1>1, <1>2, <1>4, <1>7 DEF JobInv, SettlementInv, RefundInv, BooksInv, Earned, PayoutStopped, PaymentRow
<1>11. BooksInv(j)' /\ (moved[j] = Effect(j))'
  BY <1>1, <1>2, <1>4, <1>7 DEF JobInv, SettlementInv, RefundInv, BooksInv, Effect, Earned, PayoutStopped, If, PaymentRow
<1> QED BY <1>8, <1>9, <1>10, <1>11, JobKept DEF JobInv

(* The payout is posted under its own key, at most once.                    *)
LEMMA PostPayoutInv ==
    ASSUME Inv, NEW j \in Jobs, PostPayout(j)
    PROVE  Inv'
<1> DEFINE p == payment[j]
           q == [p EXCEPT !.posting = FALSE]
<1>1. /\ TypeOK /\ p \in PaymentRow /\ at[j] \in RefundSteps
      /\ posted[j] \in SUBSET Keys /\ books[j] \in Int /\ Share[j] \in Nat \ {0} /\ Cut[j] \in Nat
      /\ JobInv(j) /\ p.posting
  BY JobFacts DEF PostPayout
<1>2. /\ q \in PaymentRow
      /\ q.status = p.status /\ q.method = p.method /\ q.settled = p.settled /\ q.reversed = p.reversed
      /\ q.recovered = p.recovered /\ q.compensationPaid = p.compensationPaid /\ q.payout = p.payout
      /\ q.amount = p.amount /\ q.posting = FALSE /\ q.refund = p.refund
  BY <1>1 DEF PaymentRow
<1>3. payment' = [payment EXCEPT ![j] = q]
  BY DEF PostPayout
<1> HIDE DEF q
<1>4. /\ payment' \in [Jobs -> PaymentRow] /\ payment'[j] = q
      /\ \A k \in Jobs \ {j} : payment'[k] = payment[k]
  BY <1>1, <1>2, <1>3, RowWritten
<1>6. /\ posted' \in [Jobs -> SUBSET Keys] /\ books' \in [Entries -> Int]
      /\ posted'[j] = posted[j] \cup {"payout"}
      /\ books'[j] = IF "payout" \in posted[j] THEN books[j] ELSE books[j] + (0 - payment[j].amount)
      /\ \A k \in Jobs \ {j} : posted'[k] = posted[k]
      /\ \A e \in Entries \ {j} : books'[e] = books[e]
  <2>1. 0 - payment[j].amount \in Int /\ "payout" \in Keys /\ Post(j, "payout", 0 - payment[j].amount)
    BY <1>1 DEF PostPayout, Keys, PaymentRow
  <2> QED BY <1>1, <2>1, PostFacts
<1>7. UNCHANGED <<at, account, row, remote, quoted, moved, charges, faults, crashes>>
  BY DEF PostPayout, checkout, bounds, ledger
<1>8. TypeOK' /\ NeverBoth' /\ Elsewhere(j)
  BY <1>1, <1>2, <1>4, <1>6, <1>7 DEF Inv, TypeOK, NeverBoth, Elsewhere
<1>9. SettlementInv(j)'
  BY <1>1, <1>2, <1>4, <1>6, <1>7 DEF JobInv, SettlementInv, RefundInv, Earned, PaymentRow
<1>10. RefundInv(j)'
  BY <1>1, <1>2, <1>4, <1>6, <1>7 DEF JobInv, SettlementInv, RefundInv, BooksInv, Earned, PayoutStopped, PaymentRow
<1>11. BooksInv(j)' /\ (moved[j] = Effect(j))'
  BY <1>1, <1>2, <1>4, <1>6, <1>7 DEF JobInv, SettlementInv, RefundInv, BooksInv, Effect, Earned, PayoutStopped, If, PaymentRow
<1> QED BY <1>8, <1>9, <1>10, <1>11, JobKept DEF JobInv

(* A payout sent although it was cancelled is posted, and no balance        *)
(* changes.                                                                 *)
LEMMA PaidAfterCancelInv ==
    ASSUME Inv, NEW j \in Jobs, PaidAfterCancel(j)
    PROVE  Inv'
<1> DEFINE p == payment[j]
<1>1. /\ TypeOK /\ p \in PaymentRow /\ at[j] \in RefundSteps
      /\ posted[j] \in SUBSET Keys /\ books[j] \in Int /\ Share[j] \in Nat \ {0} /\ Cut[j] \in Nat
      /\ JobInv(j) /\ p.payout = "CANCELLED"
  BY JobFacts DEF PaidAfterCancel
<1>6. /\ posted' \in [Jobs -> SUBSET Keys] /\ books' \in [Entries -> Int]
      /\ posted'[j] = posted[j] \cup {"payout"}
      /\ books'[j] = IF "payout" \in posted[j] THEN books[j] ELSE books[j] + (0 - payment[j].amount)
      /\ \A k \in Jobs \ {j} : posted'[k] = posted[k]
      /\ \A e \in Entries \ {j} : books'[e] = books[e]
  <2>1. 0 - payment[j].amount \in Int /\ "payout" \in Keys /\ Post(j, "payout", 0 - payment[j].amount)
    BY <1>1 DEF PaidAfterCancel, Keys, PaymentRow
  <2> QED BY <1>1, <2>1, PostFacts
<1>7. UNCHANGED <<payment, at, account, row, remote, quoted, moved, charges, faults, crashes>>
  BY DEF PaidAfterCancel, checkout, bounds, ledger
<1>8. TypeOK' /\ NeverBoth' /\ Elsewhere(j)
  BY <1>1, <1>6, <1>7 DEF Inv, TypeOK, NeverBoth, Elsewhere
<1>9. SettlementInv(j)'
  BY <1>1, <1>6, <1>7 DEF JobInv, SettlementInv, RefundInv, Earned, PaymentRow
<1>10. RefundInv(j)'
  BY <1>1, <1>6, <1>7 DEF JobInv, SettlementInv, RefundInv, BooksInv, Earned, PayoutStopped, PaymentRow
<1>11. BooksInv(j)' /\ (moved[j] = Effect(j))'
  BY <1>1, <1>6, <1>7 DEF JobInv, SettlementInv, RefundInv, BooksInv, Effect, Earned, PayoutStopped, If, PaymentRow
<1> QED BY <1>8, <1>9, <1>10, <1>11, JobKept DEF JobInv

(* The refund is posted, once.                                              *)
LEMMA RefundPostInv ==
    ASSUME Inv, NEW j \in Jobs, RefundPost(j)
    PROVE  Inv'
<1> DEFINE p == payment[j]
<1>1. /\ TypeOK /\ p \in PaymentRow /\ at[j] \in RefundSteps
      /\ posted[j] \in SUBSET Keys /\ books[j] \in Int /\ Share[j] \in Nat \ {0} /\ Cut[j] \in Nat
      /\ JobInv(j) /\ at[j] = "post"
  BY JobFacts DEF RefundPost
<1>5. /\ at' \in [Jobs -> RefundSteps] /\ at'[j] = "write"
      /\ \A k \in Jobs \ {j} : at'[k] = at[k]
  BY <1>1, WentTo DEF RefundPost, RefundSteps
<1>6. /\ posted' \in [Jobs -> SUBSET Keys] /\ books' \in [Entries -> Int]
      /\ posted'[j] = posted[j] \cup {"refund"}
      /\ books'[j] = IF "refund" \in posted[j] THEN books[j] ELSE books[j] + (0 - Share[j])
      /\ \A k \in Jobs \ {j} : posted'[k] = posted[k]
      /\ \A e \in Entries \ {j} : books'[e] = books[e]
  <2>1. 0 - Share[j] \in Int /\ "refund" \in Keys /\ Post(j, "refund", 0 - Share[j])
    BY <1>1 DEF RefundPost, Keys, PaymentRow
  <2> QED BY <1>1, <2>1, PostFacts
<1>7. UNCHANGED <<payment, account, row, remote, quoted, moved, charges, faults, crashes>>
  BY DEF RefundPost, checkout, bounds, ledger
<1>8. TypeOK' /\ NeverBoth' /\ Elsewhere(j)
  BY <1>1, <1>5, <1>6, <1>7 DEF Inv, TypeOK, NeverBoth, Elsewhere
<1>9. SettlementInv(j)'
  BY <1>1, <1>5, <1>6, <1>7 DEF JobInv, SettlementInv, RefundInv, Earned, PaymentRow
<1>10. RefundInv(j)'
  BY <1>1, <1>5, <1>6, <1>7 DEF JobInv, SettlementInv, RefundInv, BooksInv, Earned, PayoutStopped, PaymentRow
<1>11. BooksInv(j)' /\ (moved[j] = Effect(j))'
  BY <1>1, <1>5, <1>6, <1>7 DEF JobInv, SettlementInv, RefundInv, BooksInv, Effect, Earned, PayoutStopped, If, PaymentRow
<1> QED BY <1>8, <1>9, <1>10, <1>11, JobKept DEF JobInv

(* The refund is written, whatever was posted of it.                        *)
LEMMA RefundWriteInv ==
    ASSUME Inv, NEW j \in Jobs, RefundWrite(j)
    PROVE  Inv'
<1> DEFINE p == payment[j]
           q == [p EXCEPT !.status = "REFUNDED"]
<1>1. /\ TypeOK /\ p \in PaymentRow /\ at[j] \in RefundSteps
      /\ posted[j] \in SUBSET Keys /\ books[j] \in Int /\ Share[j] \in Nat \ {0} /\ Cut[j] \in Nat
      /\ JobInv(j) /\ at[j] = "write"
  BY JobFacts DEF RefundWrite
<1>2. /\ q \in PaymentRow
      /\ q.status = "REFUNDED" /\ q.method = p.method /\ q.settled = p.settled /\ q.reversed = p.reversed
      /\ q.recovered = p.recovered /\ q.compensationPaid = p.compensationPaid /\ q.payout = p.payout
      /\ q.amount = p.amount /\ q.posting = p.posting /\ q.refund = p.refund
  BY <1>1 DEF PaymentRow
<1>3. payment' = [payment EXCEPT ![j] = q]
  BY DEF RefundWrite
<1> HIDE DEF q
<1>4. /\ payment' \in [Jobs -> PaymentRow] /\ payment'[j] = q
      /\ \A k \in Jobs \ {j} : payment'[k] = payment[k]
  BY <1>1, <1>2, <1>3, RowWritten
<1>5. /\ at' \in [Jobs -> RefundSteps] /\ at'[j] = "none"
      /\ \A k \in Jobs \ {j} : at'[k] = at[k]
  BY <1>1, WentTo DEF RefundWrite, RefundSteps
<1>7. UNCHANGED <<account, row, remote, quoted, posted, books, moved, charges, faults, crashes>>
  BY DEF RefundWrite, checkout, bounds, ledger
<1>8. TypeOK' /\ NeverBoth' /\ Elsewhere(j)
  BY <1>1, <1>2, <1>4, <1>5, <1>7 DEF Inv, TypeOK, NeverBoth, Elsewhere
<1>9. SettlementInv(j)'
  BY <1>1, <1>2, <1>4, <1>5, <1>7 DEF JobInv, SettlementInv, RefundInv, Earned, PaymentRow
<1>10. RefundInv(j)'
  BY <1>1, <1>2, <1>4, <1>5, <1>7 DEF JobInv, SettlementInv, RefundInv, BooksInv, Earned, PayoutStopped, PaymentRow
<1>11. BooksInv(j)' /\ (moved[j] = Effect(j))'
  BY <1>1, <1>2, <1>4, <1>5, <1>7 DEF JobInv, SettlementInv, RefundInv, BooksInv, Effect, Earned, PayoutStopped, If, PaymentRow
<1> QED BY <1>8, <1>9, <1>10, <1>11, JobKept DEF JobInv

(* A refund that succeeds at the provider has yet to be undone and posted.  *)
LEMMA RefundSucceededInv ==
    ASSUME Inv, NEW j \in Jobs, RefundSucceeded(j)
    PROVE  Inv'
<1> DEFINE p == payment[j]
           q == [p EXCEPT !.refund = "SUCCEEDED"]
<1>1. /\ TypeOK /\ p \in PaymentRow /\ at[j] \in RefundSteps
      /\ posted[j] \in SUBSET Keys /\ books[j] \in Int /\ Share[j] \in Nat \ {0} /\ Cut[j] \in Nat
      /\ JobInv(j) /\ at[j] = "none" /\ p.status = "REFUNDED" /\ p.refund = "PENDING"
  BY JobFacts DEF RefundSucceeded
<1>2. /\ q \in PaymentRow
      /\ q.status = p.status /\ q.method = p.method /\ q.settled = p.settled /\ q.reversed = p.reversed
      /\ q.recovered = p.recovered /\ q.compensationPaid = p.compensationPaid /\ q.payout = p.payout
      /\ q.amount = p.amount /\ q.posting = p.posting /\ q.refund = "SUCCEEDED"
  BY <1>1 DEF PaymentRow
<1>3. payment' = [payment EXCEPT ![j] = q]
  BY DEF RefundSucceeded
<1> HIDE DEF q
<1>4. /\ payment' \in [Jobs -> PaymentRow] /\ payment'[j] = q
      /\ \A k \in Jobs \ {j} : payment'[k] = payment[k]
  BY <1>1, <1>2, <1>3, RowWritten
<1>5. /\ at' \in [Jobs -> RefundSteps] /\ at'[j] = "undo"
      /\ \A k \in Jobs \ {j} : at'[k] = at[k]
  BY <1>1, WentTo DEF RefundSucceeded, RefundSteps
<1>7. UNCHANGED <<account, row, remote, quoted, posted, books, moved, charges, faults, crashes>>
  BY DEF RefundSucceeded, checkout, bounds, ledger
<1>8. TypeOK' /\ NeverBoth' /\ Elsewhere(j)
  BY <1>1, <1>2, <1>4, <1>5, <1>7 DEF Inv, TypeOK, NeverBoth, Elsewhere
<1>9. SettlementInv(j)'
  BY <1>1, <1>2, <1>4, <1>5, <1>7 DEF JobInv, SettlementInv, RefundInv, Earned, PaymentRow
<1>10. RefundInv(j)'
  BY <1>1, <1>2, <1>4, <1>5, <1>7 DEF JobInv, SettlementInv, RefundInv, BooksInv, Earned, PayoutStopped, PaymentRow
<1>11. BooksInv(j)' /\ (moved[j] = Effect(j))'
  BY <1>1, <1>2, <1>4, <1>5, <1>7 DEF JobInv, SettlementInv, RefundInv, BooksInv, Effect, Earned, PayoutStopped, If, PaymentRow
<1> QED BY <1>8, <1>9, <1>10, <1>11, JobKept DEF JobInv

(* A refund that fails at the provider leaves a payment that counts again.  *)
LEMMA RefundFailedInv ==
    ASSUME Inv, NEW j \in Jobs, RefundFailed(j)
    PROVE  Inv'
<1> DEFINE p == payment[j]
           q == [p EXCEPT !.status = "COMPLETED", !.refund = "FAILED"]
<1>1. /\ TypeOK /\ p \in PaymentRow /\ at[j] \in RefundSteps
      /\ posted[j] \in SUBSET Keys /\ books[j] \in Int /\ Share[j] \in Nat \ {0} /\ Cut[j] \in Nat
      /\ JobInv(j) /\ at[j] = "none" /\ p.status = "REFUNDED" /\ p.refund = "PENDING"
  BY JobFacts DEF RefundFailed
<1>2. /\ q \in PaymentRow
      /\ q.status = "COMPLETED" /\ q.method = p.method /\ q.settled = p.settled /\ q.reversed = p.reversed
      /\ q.recovered = p.recovered /\ q.compensationPaid = p.compensationPaid /\ q.payout = p.payout
      /\ q.amount = p.amount /\ q.posting = p.posting /\ q.refund = "FAILED"
  BY <1>1 DEF PaymentRow
<1>3. payment' = [payment EXCEPT ![j] = q]
  BY DEF RefundFailed
<1> HIDE DEF q
<1>4. /\ payment' \in [Jobs -> PaymentRow] /\ payment'[j] = q
      /\ \A k \in Jobs \ {j} : payment'[k] = payment[k]
  BY <1>1, <1>2, <1>3, RowWritten
<1>7. UNCHANGED <<at, account, row, remote, quoted, posted, books, moved, charges, faults, crashes>>
  BY DEF RefundFailed, checkout, bounds, ledger
<1>8. TypeOK' /\ NeverBoth' /\ Elsewhere(j)
  BY <1>1, <1>2, <1>4, <1>7 DEF Inv, TypeOK, NeverBoth, Elsewhere
<1>9. SettlementInv(j)'
  BY <1>1, <1>2, <1>4, <1>7 DEF JobInv, SettlementInv, RefundInv, Earned, PaymentRow
<1>10. RefundInv(j)'
  BY <1>1, <1>2, <1>4, <1>7 DEF JobInv, SettlementInv, RefundInv, BooksInv, Earned, PayoutStopped, PaymentRow
<1>11. BooksInv(j)' /\ (moved[j] = Effect(j))'
  BY <1>1, <1>2, <1>4, <1>7 DEF JobInv, SettlementInv, RefundInv, BooksInv, Effect, Earned, PayoutStopped, If, PaymentRow
<1> QED BY <1>8, <1>9, <1>10, <1>11, JobKept DEF JobInv

(* A refund by hand is written.                                             *)
LEMMA ManualWriteInv ==
    ASSUME Inv, NEW j \in Jobs, ManualWrite(j)
    PROVE  Inv'
<1> DEFINE p == payment[j]
           q == [p EXCEPT !.status = "REFUNDED"]
<1>1. /\ TypeOK /\ p \in PaymentRow /\ at[j] \in RefundSteps
      /\ posted[j] \in SUBSET Keys /\ books[j] \in Int /\ Share[j] \in Nat \ {0} /\ Cut[j] \in Nat
      /\ JobInv(j) /\ at[j] \in {"manualWrite", "lossWrite"}
  BY JobFacts DEF ManualWrite
<1>2. /\ q \in PaymentRow
      /\ q.status = "REFUNDED" /\ q.method = p.method /\ q.settled = p.settled /\ q.reversed = p.reversed
      /\ q.recovered = p.recovered /\ q.compensationPaid = p.compensationPaid /\ q.payout = p.payout
      /\ q.amount = p.amount /\ q.posting = p.posting /\ q.refund = p.refund
  BY <1>1 DEF PaymentRow
<1>3. payment' = [payment EXCEPT ![j] = q]
  BY DEF ManualWrite
<1> HIDE DEF q
<1>4. /\ payment' \in [Jobs -> PaymentRow] /\ payment'[j] = q
      /\ \A k \in Jobs \ {j} : payment'[k] = payment[k]
  BY <1>1, <1>2, <1>3, RowWritten
<1> DEFINE next == CASE at[j] = "lossWrite" -> "lossPost"
                     [] p.method = "CASH" -> "none"
                     [] OTHER -> "manualPost"
<1>a. /\ \/ next = "lossPost" /\ at[j] = "lossWrite"
         \/ next = "none" /\ p.method = "CASH"
         \/ next = "manualPost" /\ at[j] = "manualWrite" /\ p.method # "CASH"
      /\ at' = [at EXCEPT ![j] = next]
  BY <1>1 DEF ManualWrite
<1> HIDE DEF next
<1>5. /\ at' \in [Jobs -> RefundSteps] /\ at'[j] = next
      /\ \A k \in Jobs \ {j} : at'[k] = at[k]
  BY <1>1, <1>a, WentTo DEF RefundSteps
<1>7. UNCHANGED <<account, row, remote, quoted, posted, books, moved, charges, faults, crashes>>
  BY DEF ManualWrite, checkout, bounds, ledger
<1>8. TypeOK' /\ NeverBoth' /\ Elsewhere(j)
  BY <1>1, <1>2, <1>4, <1>5, <1>7 DEF Inv, TypeOK, NeverBoth, Elsewhere
<1>9. SettlementInv(j)'
  BY <1>1, <1>2, <1>4, <1>5, <1>7 DEF JobInv, SettlementInv, RefundInv, Earned, PaymentRow
<1>10. RefundInv(j)'
  BY <1>1, <1>a, <1>2, <1>4, <1>5, <1>7 DEF JobInv, SettlementInv, RefundInv, BooksInv, Earned, PayoutStopped, PaymentRow
<1>11. BooksInv(j)' /\ (moved[j] = Effect(j))'
  BY <1>1, <1>2, <1>4, <1>5, <1>7 DEF JobInv, SettlementInv, RefundInv, BooksInv, Effect, Earned, PayoutStopped, If, PaymentRow
<1> QED BY <1>8, <1>9, <1>10, <1>11, JobKept DEF JobInv

(* A refund by hand is posted, once.                                        *)
LEMMA ManualPostInv ==
    ASSUME Inv, NEW j \in Jobs, ManualPost(j)
    PROVE  Inv'
<1> DEFINE p == payment[j]
           Posted(key, n) == /\ posted'[j] = posted[j] \cup {key}
                             /\ books'[j] = books[j] + n
<1>1. /\ TypeOK /\ p \in PaymentRow /\ at[j] \in {"manualPost", "lossPost"}
      /\ posted[j] \in SUBSET Keys /\ books[j] \in Int /\ Share[j] \in Nat \ {0} /\ Cut[j] \in Nat
      /\ JobInv(j)
  BY JobFacts DEF ManualPost
<1>5. /\ at' \in [Jobs -> RefundSteps] /\ at'[j] = "none"
      /\ \A k \in Jobs \ {j} : at'[k] = at[k]
  BY <1>1, WentTo DEF ManualPost, RefundSteps
<1>6. /\ posted' \in [Jobs -> SUBSET Keys] /\ books' \in [Entries -> Int]
      /\ \A k \in Jobs \ {j} : posted'[k] = posted[k]
      /\ \A e \in Entries \ {j} : books'[e] = books[e]
      /\ \/ posted'[j] = posted[j] /\ books'[j] = books[j]
         \/ /\ at[j] = "manualPost" /\ "manual-refund" \notin posted[j]
            /\ Posted("manual-refund", 0 - Share[j])
         \/ at[j] = "lossPost" /\ Posted("manual-loss", 0)
  <2>1. CASE posted[j] \cap {"manual-refund", "manual-loss"} # {}
    <3>1. UNCHANGED ledger
      BY <2>1 DEF ManualPost, PostManual
    <3> QED BY <1>1, <3>1 DEF TypeOK, ledger
  <2>2. CASE posted[j] \cap {"manual-refund", "manual-loss"} = {}
    <3>1. "manual-refund" \notin posted[j] /\ "manual-loss" \notin posted[j]
      BY <2>2
    <3>2. CASE at[j] = "manualPost" /\ Post(j, "manual-refund", 0 - Share[j])
      <4>1. 0 - Share[j] \in Int /\ "manual-refund" \in Keys
        BY <1>1 DEF Keys
      <4> QED BY <1>1, <3>1, <3>2, <4>1, PostFacts
    <3>3. CASE at[j] = "lossPost" /\ Post(j, "manual-loss", 0)
      <4>1. 0 \in Int /\ "manual-loss" \in Keys
        BY DEF Keys
      <4> QED BY <1>1, <3>1, <3>3, <4>1, PostFacts
    <3> QED BY <2>2, <3>2, <3>3 DEF ManualPost, PostManual
  <2> QED BY <2>1, <2>2
<1>7. UNCHANGED <<payment, account, row, remote, quoted, moved, charges, faults, crashes>>
  BY DEF ManualPost, checkout, bounds
<1>8. TypeOK' /\ NeverBoth' /\ Elsewhere(j)
  BY <1>1, <1>5, <1>6, <1>7 DEF Inv, TypeOK, NeverBoth, Elsewhere
<1>9. SettlementInv(j)'
  BY <1>1, <1>5, <1>6, <1>7 DEF JobInv, SettlementInv, RefundInv, Earned, PaymentRow
<1>10. RefundInv(j)'
  BY <1>1, <1>5, <1>6, <1>7 DEF JobInv, SettlementInv, RefundInv, BooksInv, Earned, PayoutStopped, PaymentRow
<1>11. BooksInv(j)' /\ (moved[j] = Effect(j))'
  <2>1. Earned(j) /\ p.status # "NONE" /\ p.method # "NONE" /\ p.method # "CASH"
    BY <1>1 DEF JobInv, RefundInv, Earned
  <2>2. CASE posted'[j] = posted[j] /\ books'[j] = books[j]
    BY <1>1, <1>7, <2>2 DEF JobInv, BooksInv, Effect, Earned, If
  <2>3. CASE /\ at[j] = "manualPost" /\ "manual-refund" \notin posted[j]
             /\ Posted("manual-refund", 0 - Share[j])
    <3>1. p.reversed
      BY <1>1, <2>1, <2>3 DEF JobInv, RefundInv
    <3> DEFINE rest == (Share[j] - If("payout" \in posted[j], p.amount)) - If("refund" \in posted[j], Share[j])
    <3>2. rest \in Int
      BY <1>1 DEF If, PaymentRow
    <3>3. rest' = rest
      BY <1>1, <1>7, <2>3
    <3>4. books[j] = rest - If("manual-refund" \in posted[j], Share[j])
      BY <1>1, <2>1 DEF JobInv, BooksInv
    <3> HIDE DEF rest
    <3>5. books'[j] = rest - Share[j]
      BY <1>1, <2>3, <3>2, <3>4 DEF If
    <3>6. (books[j] = rest - If("manual-refund" \in posted[j], Share[j]))'
      BY <1>1, <2>3, <3>3, <3>5 DEF If
    <3>7. BooksInv(j)'
      BY <1>1, <1>7, <2>1, <2>3, <3>1, <3>6 DEF JobInv, BooksInv, Earned, Keys, rest
    <3> QED BY <1>1, <1>7, <2>1, <3>7 DEF JobInv, Effect
  <2>4. CASE at[j] = "lossPost" /\ Posted("manual-loss", 0)
    <3>1. p.settled /\ p.payout # "NONE"
      BY <1>1, <2>4 DEF JobInv, RefundInv
    <3> QED BY <1>1, <1>7, <2>1, <2>4, <3>1 DEF JobInv, BooksInv, Effect, Earned, If, Keys
  <2> QED BY <1>6, <2>2, <2>3, <2>4
<1> QED BY <1>8, <1>9, <1>10, <1>11, JobKept DEF JobInv

(* A refund claims the settlement, or stops the payout.                     *)
LEMMA RefundStopInv ==
    ASSUME Inv, NEW j \in Jobs, RefundStop(j)
    PROVE  Inv'
<1> DEFINE p == payment[j]
           q == [p EXCEPT !.settled = TRUE, !.payout = (IF p.payout = "OPEN" THEN "CANCELLED" ELSE p.payout)]
<1>1. /\ TypeOK /\ p \in PaymentRow /\ at[j] \in RefundSteps
      /\ posted[j] \in SUBSET Keys /\ books[j] \in Int /\ moved[j] \in Int
      /\ Share[j] \in Nat \ {0} /\ Cut[j] \in Nat /\ account \in Account /\ Netted(account)
      /\ JobInv(j) /\ at[j] = "none"
      /\ p.status = "COMPLETED" /\ p.method # "CASH" /\ p.payout # "PAID"
  BY JobFacts DEF RefundStop
<1>2. /\ q \in PaymentRow
      /\ q.status = p.status /\ q.method = p.method /\ q.settled = TRUE /\ q.reversed = p.reversed
      /\ q.recovered = p.recovered /\ q.compensationPaid = p.compensationPaid /\ q.payout = (IF p.payout = "OPEN" THEN "CANCELLED" ELSE p.payout)
      /\ q.amount = p.amount /\ q.posting = p.posting /\ q.refund = p.refund
  BY <1>1 DEF PaymentRow
<1>3. payment' = [payment EXCEPT ![j] = q]
  BY DEF RefundStop, Stopped
<1> HIDE DEF q
<1>4. /\ payment' \in [Jobs -> PaymentRow] /\ payment'[j] = q
      /\ \A k \in Jobs \ {j} : payment'[k] = payment[k]
  BY <1>1, <1>2, <1>3, RowWritten
<1>5. /\ at' \in [Jobs -> RefundSteps] /\ at'[j] = "ask"
      /\ \A k \in Jobs \ {j} : at'[k] = at[k]
  BY <1>1, WentTo DEF RefundStop, RefundSteps
<1>7. UNCHANGED <<account, row, remote, quoted, posted, books, moved, charges, faults, crashes>>
  BY DEF RefundStop, checkout, bounds, ledger
<1>8. TypeOK' /\ NeverBoth' /\ Elsewhere(j)
  BY <1>1, <1>2, <1>4, <1>5, <1>7 DEF Inv, TypeOK, NeverBoth, Elsewhere
<1>9. SettlementInv(j)'
  BY <1>1, <1>2, <1>4, <1>5, <1>7 DEF JobInv, SettlementInv, RefundInv, Earned, PaymentRow
<1>10. RefundInv(j)'
  BY <1>1, <1>2, <1>4, <1>5, <1>7 DEF JobInv, SettlementInv, RefundInv, BooksInv, Earned, PayoutStopped, PaymentRow
<1>11. BooksInv(j)' /\ (moved[j] = Effect(j))'
  BY <1>1, <1>2, <1>4, <1>5, <1>7 DEF JobInv, SettlementInv, RefundInv, BooksInv, Effect, Earned, PayoutStopped, If, PaymentRow
<1> QED BY <1>8, <1>9, <1>10, <1>11, JobKept DEF JobInv

(* The provider is asked when the payout is stopped.                        *)
LEMMA RefundAskInv ==
    ASSUME Inv, NEW j \in Jobs, RefundAsk(j)
    PROVE  Inv'
<1>0. PICK s \in {"NONE", "PENDING", "SUCCEEDED", "FAILED"}, next \in {"none", "undo", "write"} :
         /\ payment' = [payment EXCEPT ![j].refund = s] /\ at' = [at EXCEPT ![j] = next]
         /\ payment[j].method = "ONLINE" \/ s = payment[j].refund
  <2>1. payment \in [Jobs -> PaymentRow] /\ payment[j] \in PaymentRow
    BY JobFacts DEF TypeOK
  <2>2. CASE payment[j].method = "PLATFORM"
    <3>1. PICK next \in {"none", "undo"} : payment' = payment /\ at' = [at EXCEPT ![j] = next]
      BY <2>2 DEF RefundAsk
    <3>2. payment[j].refund \in {"NONE", "PENDING", "SUCCEEDED", "FAILED"}
      BY <2>1 DEF PaymentRow
    <3>3. [payment[j] EXCEPT !.refund = payment[j].refund] = payment[j]
      BY <2>1 DEF PaymentRow
    <3>4. payment = [payment EXCEPT ![j].refund = payment[j].refund]
      BY <2>1, <3>3
    <3> QED BY <3>1, <3>2, <3>4
  <2>3. CASE payment[j].method = "ONLINE"
    <3>1. PICK s \in {"PENDING", "SUCCEEDED", "FAILED"} :
             /\ payment' = [payment EXCEPT ![j].refund = s]
             /\ at' = [at EXCEPT ![j] = CASE s = "SUCCEEDED" -> "undo"
                                          [] s = "PENDING" -> "write"
                                          [] OTHER -> "none"]
      BY <2>3 DEF RefundAsk
    <3>2. PICK next \in {"none", "undo", "write"} :
             next = CASE s = "SUCCEEDED" -> "undo" [] s = "PENDING" -> "write" [] OTHER -> "none"
      OBVIOUS
    <3> QED BY <2>3, <3>1, <3>2
  <2> QED BY <2>2, <2>3 DEF RefundAsk
<1> DEFINE p == payment[j]
           q == [p EXCEPT !.refund = s]
<1>1. /\ TypeOK /\ p \in PaymentRow /\ at[j] \in RefundSteps
      /\ posted[j] \in SUBSET Keys /\ books[j] \in Int /\ moved[j] \in Int
      /\ Share[j] \in Nat \ {0} /\ Cut[j] \in Nat /\ account \in Account /\ Netted(account)
      /\ JobInv(j) /\ at[j] = "ask"
  BY JobFacts DEF RefundAsk
<1>2. /\ q \in PaymentRow
      /\ q.status = p.status /\ q.method = p.method /\ q.settled = p.settled /\ q.reversed = p.reversed
      /\ q.recovered = p.recovered /\ q.compensationPaid = p.compensationPaid /\ q.payout = p.payout
      /\ q.amount = p.amount /\ q.posting = p.posting /\ q.refund = s
  BY <1>1 DEF PaymentRow
<1>3. payment' = [payment EXCEPT ![j] = q]
  BY <1>0
<1> HIDE DEF q
<1>4. /\ payment' \in [Jobs -> PaymentRow] /\ payment'[j] = q
      /\ \A k \in Jobs \ {j} : payment'[k] = payment[k]
  BY <1>1, <1>2, <1>3, RowWritten
<1>5. /\ at' \in [Jobs -> RefundSteps] /\ at'[j] = next
      /\ \A k \in Jobs \ {j} : at'[k] = at[k]
  BY <1>0, <1>1, WentTo DEF RefundSteps
<1>7. UNCHANGED <<account, row, remote, quoted, posted, books, moved, charges, faults, crashes>>
  BY DEF RefundAsk, checkout, bounds, ledger
<1>8. TypeOK' /\ NeverBoth' /\ Elsewhere(j)
  BY <1>0, <1>1, <1>2, <1>4, <1>5, <1>7 DEF Inv, TypeOK, NeverBoth, Elsewhere
<1>9. SettlementInv(j)'
  BY <1>0, <1>1, <1>2, <1>4, <1>5, <1>7 DEF JobInv, SettlementInv, RefundInv, Earned, PaymentRow
<1>10. RefundInv(j)'
  BY <1>0, <1>1, <1>2, <1>4, <1>5, <1>7 DEF JobInv, SettlementInv, RefundInv, BooksInv, Earned, PayoutStopped, PaymentRow
<1>11. BooksInv(j)' /\ (moved[j] = Effect(j))'
  BY <1>0, <1>1, <1>2, <1>4, <1>5, <1>7 DEF JobInv, SettlementInv, RefundInv, BooksInv, Effect, Earned, PayoutStopped, If, PaymentRow
<1> QED BY <1>8, <1>9, <1>10, <1>11, JobKept DEF JobInv

(* undoWorkerSettlement gives back what the settlement took, once.          *)
LEMMA UndoFacts ==
    ASSUME Inv, NEW j \in Jobs, UndoSettlement(j)
    PROVE  /\ payment' \in [Jobs -> PaymentRow]
           /\ \A k \in Jobs \ {j} : payment'[k] = payment[k]
           /\ \E q \in PaymentRow :
                 /\ payment'[j] = q /\ q.reversed
                 /\ q.status = payment[j].status /\ q.method = payment[j].method /\ q.settled = payment[j].settled
                 /\ q.recovered = payment[j].recovered /\ q.compensationPaid = payment[j].compensationPaid
                 /\ q.payout = payment[j].payout /\ q.amount = payment[j].amount
                 /\ q.posting = payment[j].posting /\ q.refund = payment[j].refund
           /\ account' \in Account /\ NeverBoth'
           /\ moved' \in [Entries -> Int]
           /\ moved'[j] = IF payment[j].reversed THEN moved[j]
                          ELSE moved[j] + (payment[j].compensationPaid - payment[j].recovered)
           /\ \A e \in Entries \ {j} : moved'[e] = moved[e]
<1> DEFINE p == payment[j]
<1>1. /\ TypeOK /\ NeverBoth /\ p \in PaymentRow /\ account \in Account /\ Netted(account) /\ j \in Entries
      /\ moved \in [Entries -> Int] /\ moved[j] \in Int /\ payment \in [Jobs -> PaymentRow]
  BY JobFacts DEF Inv, TypeOK
<1>2. CASE p.reversed
  <2>1. payment' = payment /\ account' = account /\ moved' = moved
    BY <1>2 DEF UndoSettlement
  <2>2. NeverBoth'
    BY <1>1, <2>1 DEF NeverBoth
  <2> QED BY <1>1, <1>2, <2>1, <2>2
<1>3. CASE ~p.reversed
  <2> DEFINE q == [p EXCEPT !.reversed = TRUE]
             y == Accrued(account, p.recovered)
             x == Credited(y, p.compensationPaid)
  <2>1. p.recovered \in Nat /\ p.compensationPaid \in Nat
    BY <1>1 DEF PaymentRow
  <2>2. y \in Account /\ Net(y) = Net(account) - p.recovered /\ Netted(y)
    BY <1>1, <2>1, AccruedFacts
  <2>3. x \in Account /\ Net(x) = Net(y) + p.compensationPaid /\ Netted(x)
    BY <2>1, <2>2, CreditedFacts
  <2>4. payment' = [payment EXCEPT ![j] = q] /\ Change(j, x)
    BY <1>3 DEF UndoSettlement
  <2>5. /\ q \in PaymentRow /\ q.reversed
        /\ q.status = p.status /\ q.method = p.method /\ q.settled = p.settled
        /\ q.recovered = p.recovered /\ q.compensationPaid = p.compensationPaid
        /\ q.payout = p.payout /\ q.amount = p.amount /\ q.posting = p.posting /\ q.refund = p.refund
    BY <1>1 DEF PaymentRow
  <2> HIDE DEF q, x, y
  <2>6. /\ payment' \in [Jobs -> PaymentRow] /\ payment'[j] = q
        /\ \A k \in Jobs \ {j} : payment'[k] = payment[k]
    BY <1>1, <2>4, <2>5, RowWritten
  <2>7. /\ account' \in Account /\ NeverBoth' /\ moved' \in [Entries -> Int]
        /\ moved'[j] = moved[j] + (Net(x) - Net(account))
        /\ \A e \in Entries \ {j} : moved'[e] = moved[e]
    BY <1>1, <2>3, <2>4, ChangeFacts
  <2>8. Net(x) - Net(account) = p.compensationPaid - p.recovered
    <3>1. Net(account) \in Int
      BY <1>1 DEF Net, Account
    <3> QED BY <2>1, <2>2, <2>3, <3>1
  <2> QED BY <1>3, <2>5, <2>6, <2>7, <2>8
<1> QED BY <1>2, <1>3

(* The refund undoes the settlement.                                        *)
LEMMA RefundUndoInv ==
    ASSUME Inv, NEW j \in Jobs, RefundUndo(j)
    PROVE  Inv'
<1>0. PICK a \in {"post", "write"} : at' = [at EXCEPT ![j] = a]
  BY DEF RefundUndo
<1> DEFINE p == payment[j]
<1>1. /\ TypeOK /\ p \in PaymentRow /\ at[j] \in RefundSteps
      /\ posted[j] \in SUBSET Keys /\ books[j] \in Int /\ moved[j] \in Int
      /\ Share[j] \in Nat \ {0} /\ Cut[j] \in Nat /\ account \in Account /\ Netted(account)
      /\ JobInv(j) /\ at[j] = "undo"
  BY JobFacts DEF RefundUndo
<1>2. PICK q \in PaymentRow :
         /\ payment'[j] = q /\ q.reversed
         /\ q.status = p.status /\ q.method = p.method /\ q.settled = p.settled
         /\ q.recovered = p.recovered /\ q.compensationPaid = p.compensationPaid
         /\ q.payout = p.payout /\ q.amount = p.amount /\ q.posting = p.posting /\ q.refund = p.refund
  BY UndoFacts DEF RefundUndo
<1>3. /\ payment' \in [Jobs -> PaymentRow]
      /\ \A k \in Jobs \ {j} : payment'[k] = payment[k]
      /\ account' \in Account /\ NeverBoth' /\ moved' \in [Entries -> Int]
      /\ moved'[j] = IF p.reversed THEN moved[j] ELSE moved[j] + (p.compensationPaid - p.recovered)
      /\ \A e \in Entries \ {j} : moved'[e] = moved[e]
  BY UndoFacts DEF RefundUndo
<1>5. /\ at' \in [Jobs -> RefundSteps] /\ at'[j] = a
      /\ \A k \in Jobs \ {j} : at'[k] = at[k]
  BY <1>0, <1>1, WentTo DEF RefundSteps
<1>7. UNCHANGED <<row, remote, quoted, posted, books, charges, faults, crashes>>
  BY DEF RefundUndo, checkout, bounds, ledger
<1>8. TypeOK' /\ NeverBoth' /\ Elsewhere(j)
  BY <1>1, <1>2, <1>3, <1>5, <1>7 DEF Inv, TypeOK, NeverBoth, Elsewhere
<1>9. SettlementInv(j)'
  BY <1>1, <1>2, <1>3, <1>5, <1>7 DEF JobInv, SettlementInv, RefundInv, Earned, PaymentRow
<1>10. RefundInv(j)'
  BY <1>1, <1>2, <1>3, <1>5, <1>7 DEF JobInv, SettlementInv, RefundInv, BooksInv, Earned, PayoutStopped, PaymentRow
<1>11. p.method \in {"ONLINE", "PLATFORM"}
  BY <1>1 DEF JobInv, RefundInv, Earned
<1>12. p.recovered \in Nat /\ p.compensationPaid \in Nat
  BY <1>1 DEF PaymentRow
<1>13. moved'[j] = 0
  <2>1. CASE p.reversed
    BY <1>1, <1>3, <1>11, <2>1 DEF JobInv, Effect
  <2>2. CASE ~p.reversed
    <3>1. moved[j] = p.recovered - p.compensationPaid
      BY <1>1, <1>11, <2>2 DEF JobInv, Effect
    <3> QED BY <1>1, <1>3, <1>12, <2>2, <3>1
  <2> QED BY <2>1, <2>2
<1>14. Effect(j)' = 0
  BY <1>2, <1>11 DEF Effect
<1>15. BooksInv(j)'
  BY <1>1, <1>2, <1>7, <1>11 DEF JobInv, BooksInv, Earned, If
<1>16. BooksInv(j)' /\ (moved[j] = Effect(j))'
  BY <1>1, <1>2, <1>3, <1>7, <1>13, <1>14, <1>15 
<1> QED BY <1>8, <1>9, <1>10, <1>16, JobKept DEF JobInv

(* So does a refund by hand.                                                *)
LEMMA ManualUndoInv ==
    ASSUME Inv, NEW j \in Jobs, ManualUndo(j)
    PROVE  Inv'
<1>0. PICK a \in {"none", "manualWrite"} : at' = [at EXCEPT ![j] = a]
  BY DEF ManualUndo
<1> DEFINE p == payment[j]
<1>1. /\ TypeOK /\ p \in PaymentRow /\ at[j] \in RefundSteps
      /\ posted[j] \in SUBSET Keys /\ books[j] \in Int /\ moved[j] \in Int
      /\ Share[j] \in Nat \ {0} /\ Cut[j] \in Nat /\ account \in Account /\ Netted(account)
      /\ JobInv(j) /\ at[j] = "manualUndo"
  BY JobFacts DEF ManualUndo
<1>2. PICK q \in PaymentRow :
         /\ payment'[j] = q /\ q.reversed
         /\ q.status = p.status /\ q.method = p.method /\ q.settled = p.settled
         /\ q.recovered = p.recovered /\ q.compensationPaid = p.compensationPaid
         /\ q.payout = p.payout /\ q.amount = p.amount /\ q.posting = p.posting /\ q.refund = p.refund
  BY UndoFacts DEF ManualUndo
<1>3. /\ payment' \in [Jobs -> PaymentRow]
      /\ \A k \in Jobs \ {j} : payment'[k] = payment[k]
      /\ account' \in Account /\ NeverBoth' /\ moved' \in [Entries -> Int]
      /\ moved'[j] = IF p.reversed THEN moved[j] ELSE moved[j] + (p.compensationPaid - p.recovered)
      /\ \A e \in Entries \ {j} : moved'[e] = moved[e]
  BY UndoFacts DEF ManualUndo
<1>5. /\ at' \in [Jobs -> RefundSteps] /\ at'[j] = a
      /\ \A k \in Jobs \ {j} : at'[k] = at[k]
  BY <1>0, <1>1, WentTo DEF RefundSteps
<1>7. UNCHANGED <<row, remote, quoted, posted, books, charges, faults, crashes>>
  BY DEF ManualUndo, checkout, bounds, ledger
<1>8. TypeOK' /\ NeverBoth' /\ Elsewhere(j)
  BY <1>1, <1>2, <1>3, <1>5, <1>7 DEF Inv, TypeOK, NeverBoth, Elsewhere
<1>9. SettlementInv(j)'
  BY <1>1, <1>2, <1>3, <1>5, <1>7 DEF JobInv, SettlementInv, RefundInv, Earned, PaymentRow
<1>10. RefundInv(j)'
  BY <1>1, <1>2, <1>3, <1>5, <1>7 DEF JobInv, SettlementInv, RefundInv, BooksInv, Earned, PayoutStopped, PaymentRow
<1>11. p.method \in {"ONLINE", "PLATFORM"}
  BY <1>1 DEF JobInv, RefundInv, Earned
<1>12. p.recovered \in Nat /\ p.compensationPaid \in Nat
  BY <1>1 DEF PaymentRow
<1>13. moved'[j] = 0
  <2>1. CASE p.reversed
    BY <1>1, <1>3, <1>11, <2>1 DEF JobInv, Effect
  <2>2. CASE ~p.reversed
    <3>1. moved[j] = p.recovered - p.compensationPaid
      BY <1>1, <1>11, <2>2 DEF JobInv, Effect
    <3> QED BY <1>1, <1>3, <1>12, <2>2, <3>1
  <2> QED BY <2>1, <2>2
<1>14. Effect(j)' = 0
  BY <1>2, <1>11 DEF Effect
<1>15. BooksInv(j)'
  BY <1>1, <1>2, <1>7, <1>11 DEF JobInv, BooksInv, Earned, If
<1>16. BooksInv(j)' /\ (moved[j] = Effect(j))'
  BY <1>1, <1>2, <1>3, <1>7, <1>13, <1>14, <1>15 
<1> QED BY <1>8, <1>9, <1>10, <1>16, JobKept DEF JobInv

(* A job paid in cash makes the cut of the platform due.                    *)
LEMMA SettleCashInv ==
    ASSUME Inv, NEW j \in Jobs, SettleCash(j)
    PROVE  Inv'
<1> DEFINE p == payment[j]
           q == [p EXCEPT !.status = "COMPLETED", !.method = "CASH", !.settled = TRUE]
<1>1. /\ TypeOK /\ p \in PaymentRow /\ at[j] \in RefundSteps
      /\ posted[j] \in SUBSET Keys /\ books[j] \in Int /\ moved[j] \in Int
      /\ Share[j] \in Nat \ {0} /\ Cut[j] \in Nat /\ account \in Account /\ Netted(account)
      /\ JobInv(j) /\ p.status = "NONE"
  BY JobFacts DEF SettleCash
<1>2. /\ q \in PaymentRow
      /\ q.status = "COMPLETED" /\ q.method = "CASH" /\ q.settled = TRUE /\ q.reversed = p.reversed
      /\ q.recovered = p.recovered /\ q.compensationPaid = p.compensationPaid /\ q.payout = p.payout
      /\ q.amount = p.amount /\ q.posting = p.posting /\ q.refund = p.refund
  BY <1>1 DEF PaymentRow
<1>3. payment' = [payment EXCEPT ![j] = q]
  BY DEF SettleCash
<1> HIDE DEF q
<1>4. /\ payment' \in [Jobs -> PaymentRow] /\ payment'[j] = q
      /\ \A k \in Jobs \ {j} : payment'[k] = payment[k]
  BY <1>1, <1>2, <1>3, RowWritten
<1>5. UNCHANGED <<at, row, remote, quoted, charges, faults, crashes>>
  BY DEF SettleCash, checkout, bounds
<1>6. /\ posted' \in [Jobs -> SUBSET Keys] /\ books' \in [Entries -> Int] /\ moved' \in [Entries -> Int]
      /\ account' \in Account /\ NeverBoth'
      /\ moved'[j] = moved[j] - Cut[j]
      /\ posted'[j] = IF Cut[j] > 0 THEN posted[j] \cup {"cash"} ELSE posted[j]
      /\ "cash" \notin posted[j] => books'[j] = books[j] - Cut[j]
      /\ \A k \in Jobs \ {j} : posted'[k] = posted[k]
      /\ \A e \in Entries \ {j} : books'[e] = books[e] /\ moved'[e] = moved[e]
  <2>1. CASE Cut[j] > 0
    <3> DEFINE x == Accrued(account, Cut[j])
    <3>1. x \in Account /\ Net(x) = Net(account) - Cut[j] /\ Netted(x)
      BY <1>1, AccruedFacts
    <3>2. Change(j, x) /\ Post(j, "cash", 0 - Cut[j])
      BY <2>1 DEF SettleCash
    <3>3. j \in Entries /\ 0 - Cut[j] \in Int /\ "cash" \in Keys /\ Net(account) \in Int
      BY <1>1, JobFacts DEF Keys, Net, Account
    <3> HIDE DEF x
    <3>4. /\ account' \in Account /\ NeverBoth' /\ moved' \in [Entries -> Int]
          /\ moved'[j] = moved[j] + (Net(x) - Net(account))
          /\ \A e \in Entries \ {j} : moved'[e] = moved[e]
      BY <1>1, <3>1, <3>2, <3>3, ChangeFacts
    <3>5. /\ posted' \in [Jobs -> SUBSET Keys] /\ books' \in [Entries -> Int]
          /\ posted'[j] = posted[j] \cup {"cash"}
          /\ books'[j] = IF "cash" \in posted[j] THEN books[j] ELSE books[j] + (0 - Cut[j])
          /\ \A k \in Jobs \ {j} : posted'[k] = posted[k]
          /\ \A e \in Entries \ {j} : books'[e] = books[e]
      BY <1>1, <3>2, <3>3, PostFacts
    <3>6. moved'[j] = moved[j] - Cut[j]
      BY <1>1, <3>1, <3>3, <3>4
    <3> QED BY <1>1, <2>1, <3>4, <3>5, <3>6
  <2>2. CASE Cut[j] = 0
    <3>1. UNCHANGED <<account, moved, books, posted>>
      BY <2>2 DEF SettleCash, ledger
    <3>2. NeverBoth'
      BY <3>1 DEF Inv, NeverBoth
    <3> QED BY <1>1, <2>2, <3>1, <3>2 DEF TypeOK
  <2> QED BY <1>1, <2>1, <2>2
<1>8. TypeOK' /\ NeverBoth' /\ Elsewhere(j)
  BY <1>1, <1>2, <1>4, <1>5, <1>6 DEF Inv, TypeOK, NeverBoth, Elsewhere
<1>9. SettlementInv(j)'
  BY <1>1, <1>2, <1>4, <1>5, <1>6 DEF JobInv, SettlementInv, RefundInv, Earned, PaymentRow
<1>10. RefundInv(j)'
  BY <1>1, <1>2, <1>4, <1>5, <1>6 DEF JobInv, SettlementInv, RefundInv, BooksInv, Earned, PayoutStopped, PaymentRow
<1>11. BooksInv(j)' /\ (moved[j] = Effect(j))'
  <2>1. books[j] = 0 /\ moved[j] = 0 /\ posted[j] = {}
    BY <1>1 DEF JobInv, SettlementInv, RefundInv, BooksInv, Effect
  <2>2. Effect(j)' = 0 - Cut[j]
    BY <1>1, <1>2, <1>4, <1>6, <2>1 DEF Effect
  <2> QED BY <1>1, <1>2, <1>4, <1>6, <2>1, <2>2 DEF BooksInv, Earned
<1> QED BY <1>8, <1>9, <1>10, <1>11, JobKept DEF JobInv

(* A refund of cash takes back what the settlement made due.                *)
LEMMA RefundCashInv ==
    ASSUME Inv, NEW j \in Jobs, RefundCash(j)
    PROVE  Inv'
<1> DEFINE p == payment[j]
           q == [p EXCEPT !.status = "REFUNDED"]
<1>1. /\ TypeOK /\ p \in PaymentRow /\ at[j] \in RefundSteps
      /\ posted[j] \in SUBSET Keys /\ books[j] \in Int /\ moved[j] \in Int
      /\ Share[j] \in Nat \ {0} /\ Cut[j] \in Nat /\ account \in Account /\ Netted(account)
      /\ JobInv(j) /\ p.status = "COMPLETED" /\ p.method = "CASH"
  BY JobFacts DEF RefundCash
<1>2. /\ q \in PaymentRow
      /\ q.status = "REFUNDED" /\ q.method = p.method /\ q.settled = p.settled /\ q.reversed = p.reversed
      /\ q.recovered = p.recovered /\ q.compensationPaid = p.compensationPaid /\ q.payout = p.payout
      /\ q.amount = p.amount /\ q.posting = p.posting /\ q.refund = p.refund
  BY <1>1 DEF PaymentRow
<1>3. payment' = [payment EXCEPT ![j] = q]
  BY DEF RefundCash
<1> HIDE DEF q
<1>4. /\ payment' \in [Jobs -> PaymentRow] /\ payment'[j] = q
      /\ \A k \in Jobs \ {j} : payment'[k] = payment[k]
  BY <1>1, <1>2, <1>3, RowWritten
<1>5. UNCHANGED <<at, row, remote, quoted, charges, faults, crashes>>
  BY DEF RefundCash, checkout, bounds
<1>6. /\ posted' \in [Jobs -> SUBSET Keys] /\ books' \in [Entries -> Int] /\ moved' \in [Entries -> Int]
      /\ account' \in Account /\ NeverBoth'
      /\ moved'[j] = moved[j] + Cut[j]
      /\ posted'[j] = IF Cut[j] > 0 THEN posted[j] \cup {"cash-refund"} ELSE posted[j]
      /\ "cash-refund" \notin posted[j] => books'[j] = books[j] + Cut[j]
      /\ \A k \in Jobs \ {j} : posted'[k] = posted[k]
      /\ \A e \in Entries \ {j} : books'[e] = books[e] /\ moved'[e] = moved[e]
  <2>1. CASE Cut[j] > 0
    <3> DEFINE x == Credited(account, Cut[j])
    <3>1. x \in Account /\ Net(x) = Net(account) + Cut[j] /\ Netted(x)
      BY <1>1, CreditedFacts
    <3>2. Change(j, x) /\ Post(j, "cash-refund", Cut[j])
      BY <2>1 DEF RefundCash
    <3>3. j \in Entries /\ Cut[j] \in Int /\ "cash-refund" \in Keys /\ Net(account) \in Int
      BY <1>1, JobFacts DEF Keys, Net, Account
    <3> HIDE DEF x
    <3>4. /\ account' \in Account /\ NeverBoth' /\ moved' \in [Entries -> Int]
          /\ moved'[j] = moved[j] + (Net(x) - Net(account))
          /\ \A e \in Entries \ {j} : moved'[e] = moved[e]
      BY <1>1, <3>1, <3>2, <3>3, ChangeFacts
    <3>5. /\ posted' \in [Jobs -> SUBSET Keys] /\ books' \in [Entries -> Int]
          /\ posted'[j] = posted[j] \cup {"cash-refund"}
          /\ books'[j] = IF "cash-refund" \in posted[j] THEN books[j] ELSE books[j] + (Cut[j])
          /\ \A k \in Jobs \ {j} : posted'[k] = posted[k]
          /\ \A e \in Entries \ {j} : books'[e] = books[e]
      BY <1>1, <3>2, <3>3, PostFacts
    <3>6. moved'[j] = moved[j] + Cut[j]
      BY <1>1, <3>1, <3>3, <3>4
    <3> QED BY <1>1, <2>1, <3>4, <3>5, <3>6
  <2>2. CASE Cut[j] = 0
    <3>1. UNCHANGED <<account, moved, books, posted>>
      BY <2>2 DEF RefundCash, ledger
    <3>2. NeverBoth'
      BY <3>1 DEF Inv, NeverBoth
    <3> QED BY <1>1, <2>2, <3>1, <3>2 DEF TypeOK
  <2> QED BY <1>1, <2>1, <2>2
<1>8. TypeOK' /\ NeverBoth' /\ Elsewhere(j)
  BY <1>1, <1>2, <1>4, <1>5, <1>6 DEF Inv, TypeOK, NeverBoth, Elsewhere
<1>9. SettlementInv(j)'
  BY <1>1, <1>2, <1>4, <1>5, <1>6 DEF JobInv, SettlementInv, RefundInv, Earned, PaymentRow
<1>10. RefundInv(j)'
  BY <1>1, <1>2, <1>4, <1>5, <1>6 DEF JobInv, SettlementInv, RefundInv, BooksInv, Earned, PayoutStopped, PaymentRow
<1>11. BooksInv(j)' /\ (moved[j] = Effect(j))'
  <2>1. /\ "cash-refund" \notin posted[j] /\ posted[j] \subseteq {"cash", "cash-refund"}
        /\ books[j] = 0 - Cut[j] /\ moved[j] = 0 - Cut[j]
    BY <1>1 DEF JobInv, RefundInv, BooksInv, Effect
  <2>2. books'[j] = 0 /\ moved'[j] = 0
    BY <1>1, <1>6, <2>1
  <2>3. Effect(j)' = 0
    BY <1>1, <1>2, <1>4, <1>6, <2>1 DEF Effect
  <2>4. posted'[j] \subseteq {"cash", "cash-refund"}
    BY <1>6, <2>1
  <2>5. q.status = "REFUNDED" /\ q.method = "CASH"
    BY <1>1, <1>2
  <2> QED BY <1>4, <2>2, <2>3, <2>4, <2>5 DEF BooksInv, Earned
<1> QED BY <1>8, <1>9, <1>10, <1>11, JobKept DEF JobInv

(* A settlement takes dues out of the earnings, and pays the compensations  *)
(* out with them.                                                           *)
LEMMA SettleInv ==
    ASSUME Inv, NEW j \in Jobs, Settle(j)
    PROVE  Inv'
<1> DEFINE r == Least(account.owed, Share[j])
           c == account.credit
           a == (Share[j] - r) + c
           x == [account EXCEPT !.owed = @ - r, !.credit = 0]
           p == payment[j]
           q == [p EXCEPT !.settled = TRUE, !.recovered = r, !.compensationPaid = c, !.amount = a, !.payout = (IF a > 0 THEN "OPEN" ELSE "NONE")]
<1>1. /\ TypeOK /\ p \in PaymentRow /\ at[j] \in RefundSteps
      /\ posted[j] \in SUBSET Keys /\ books[j] \in Int /\ moved[j] \in Int
      /\ Share[j] \in Nat \ {0} /\ Cut[j] \in Nat /\ account \in Account /\ Netted(account)
      /\ JobInv(j) /\ p.status = "COMPLETED" /\ ~p.settled
  BY JobFacts DEF Settle
<1>0. /\ r \in Nat /\ r <= account.owed /\ r <= Share[j] /\ c \in Nat /\ a \in Nat /\ a = (Share[j] - r) + c
      /\ account.owed \in Nat /\ account.credit \in Nat
  <2>1. account.owed \in Nat /\ account.credit \in Nat
    BY <1>1 DEF Account
  <2>2. r \in Nat /\ r <= account.owed /\ r <= Share[j]
    BY <1>1, <2>1, LeastFacts
  <2>3. c = account.credit /\ a = (Share[j] - r) + c
    OBVIOUS
  <2> HIDE DEF r, c, a
  <2> QED BY <1>1, <2>1, <2>2, <2>3
<1>3. payment' = [payment EXCEPT ![j] = q] /\ Change(j, x)
  BY DEF Settle
<1>5. x \in Account /\ Netted(x) /\ Net(x) - Net(account) = r - c
  <2> DEFINE u == account.owed - r
  <2>1. u \in Nat /\ u = account.owed - r
    BY <1>0
  <2>2. x = [account EXCEPT !.owed = u, !.credit = 0]
    OBVIOUS
  <2>3. c = account.credit
    OBVIOUS
  <2> HIDE DEF u, x, r, c
  <2>4. x \in Account /\ x.owed = u /\ x.credit = 0
    BY <1>1, <2>1, <2>2 DEF Account
  <2> QED BY <1>0, <2>1, <2>3, <2>4 DEF Net, Netted
<1> HIDE DEF r, c, a, x
<1>2. /\ q \in PaymentRow
      /\ q.status = p.status /\ q.method = p.method /\ q.settled = TRUE /\ q.reversed = p.reversed
      /\ q.recovered = r /\ q.compensationPaid = c /\ q.payout = (IF a > 0 THEN "OPEN" ELSE "NONE")
      /\ q.amount = a /\ q.posting = p.posting /\ q.refund = p.refund
  BY <1>0, <1>1 DEF PaymentRow
<1> HIDE DEF q
<1>4. /\ payment' \in [Jobs -> PaymentRow] /\ payment'[j] = q
      /\ \A k \in Jobs \ {j} : payment'[k] = payment[k]
  BY <1>1, <1>2, <1>3, RowWritten
<1>6. /\ account' \in Account /\ NeverBoth' /\ moved' \in [Entries -> Int]
      /\ moved'[j] = moved[j] + (r - c)
      /\ \A e \in Entries \ {j} : moved'[e] = moved[e]
  BY <1>1, <1>3, <1>5, ChangeFacts, JobFacts
<1>7. UNCHANGED <<at, row, remote, quoted, posted, books, charges, faults, crashes>>
  BY DEF Settle, checkout, bounds, ledger
<1>8. TypeOK' /\ NeverBoth' /\ Elsewhere(j)
  BY <1>0, <1>1, <1>2, <1>4, <1>6, <1>7 DEF Inv, TypeOK, NeverBoth, Elsewhere
<1>9. SettlementInv(j)'
  BY <1>0, <1>1, <1>2, <1>4, <1>6, <1>7 DEF JobInv, SettlementInv, RefundInv, Earned, PaymentRow
<1>10. RefundInv(j)'
  BY <1>0, <1>1, <1>2, <1>4, <1>6, <1>7 DEF JobInv, SettlementInv, RefundInv, BooksInv, Earned, PayoutStopped, PaymentRow
<1>11. BooksInv(j)' /\ (moved[j] = Effect(j))'
  <2>1. p.method \in {"ONLINE", "PLATFORM"} /\ ~p.reversed
    BY <1>1 DEF JobInv, SettlementInv, RefundInv, PayoutStopped, PaymentRow
  <2>2. moved[j] = 0 /\ books[j] = Share[j]
        /\ "payout" \notin posted[j] /\ "refund" \notin posted[j] /\ "manual-refund" \notin posted[j]
    BY <1>1, <2>1 DEF JobInv, SettlementInv, BooksInv, Effect, If
  <2>3. BooksInv(j)'
    BY <1>1, <1>2, <1>4, <1>7, <2>1, <2>2 DEF JobInv, BooksInv, Earned, If
  <2>4. Effect(j)' = r - c
    BY <1>2, <1>4, <2>1 DEF Effect
  <2> QED BY <1>0, <1>6, <2>2, <2>3, <2>4
<1> QED BY <1>8, <1>9, <1>10, <1>11, JobKept DEF JobInv

(* A refund by hand stops the payout, or goes on without.                   *)
LEMMA ManualStopInv ==
    ASSUME Inv, NEW j \in Jobs, ManualStop(j)
    PROVE  Inv'
<1> DEFINE p == payment[j]
<1>1. /\ TypeOK /\ p \in PaymentRow /\ at[j] \in RefundSteps
      /\ posted[j] \in SUBSET Keys /\ books[j] \in Int /\ moved[j] \in Int
      /\ Share[j] \in Nat \ {0} /\ Cut[j] \in Nat /\ account \in Account /\ Netted(account)
      /\ JobInv(j) /\ at[j] = "none" /\ p.status = "COMPLETED"
  BY JobFacts DEF ManualStop
<1> DEFINE Goes(next) == at' = [at EXCEPT ![j] = next]
<1>2. CASE UNCHANGED payment /\ (\/ p.method = "CASH" /\ Goes("manualWrite")
                                 \/ p.method # "CASH" /\ p.payout \in {"OPEN", "PAID"} /\ Goes("lossWrite"))
  <2>1. PICK next \in {"manualWrite", "lossWrite"} :
           /\ at' = [at EXCEPT ![j] = next]
           /\ next = "manualWrite" => p.method = "CASH"
           /\ next = "lossWrite" => p.method # "CASH" /\ p.payout \in {"OPEN", "PAID"}
    BY <1>2
  <2>2. /\ at' \in [Jobs -> RefundSteps] /\ at'[j] = next
        /\ \A k \in Jobs \ {j} : at'[k] = at[k]
    BY <1>1, <2>1, WentTo DEF RefundSteps
  <2>3. UNCHANGED <<payment, account, row, remote, quoted, posted, books, moved, charges, faults, crashes>>
    BY <1>2 DEF ManualStop, checkout, bounds, ledger
  <2>4. TypeOK' /\ NeverBoth' /\ Elsewhere(j)
    BY <1>1, <2>2, <2>3 DEF Inv, TypeOK, NeverBoth, Elsewhere
  <2>5. SettlementInv(j)' /\ BooksInv(j)' /\ (moved[j] = Effect(j))'
    BY <1>1, <2>3 DEF JobInv, SettlementInv, BooksInv, Earned, Effect, If
  <2>6. RefundInv(j)'
    <3>1. p.payout \in {"OPEN", "PAID"} => p.settled /\ ~p.reversed /\ p.refund = "NONE"
      BY <1>1 DEF JobInv, SettlementInv, RefundInv, PayoutStopped
    <3>2. p.method # "CASH" => Earned(j)
      BY <1>1 DEF JobInv, RefundInv, Earned, PaymentRow
    <3> QED BY <1>1, <2>1, <2>2, <2>3, <3>1, <3>2 DEF JobInv, RefundInv, Earned, PayoutStopped
  <2> QED BY <2>4, <2>5, <2>6, JobKept DEF JobInv
<1>3. CASE p.method # "CASH" /\ p.payout # "PAID" /\ Goes("manualUndo")
           /\ payment' = [payment EXCEPT ![j] = Stopped(@)]
  <2> DEFINE q == [p EXCEPT !.settled = TRUE, !.payout = (IF p.payout = "OPEN" THEN "CANCELLED" ELSE p.payout)]
  <2>2. /\ q \in PaymentRow
        /\ q.status = p.status /\ q.method = p.method /\ q.settled = TRUE /\ q.reversed = p.reversed
        /\ q.recovered = p.recovered /\ q.compensationPaid = p.compensationPaid /\ q.payout = (IF p.payout = "OPEN" THEN "CANCELLED" ELSE p.payout)
        /\ q.amount = p.amount /\ q.posting = p.posting /\ q.refund = p.refund
    BY <1>1 DEF PaymentRow
  <2>3. payment' = [payment EXCEPT ![j] = q]
    BY <1>3 DEF Stopped
  <2> HIDE DEF q
  <2>4. /\ payment' \in [Jobs -> PaymentRow] /\ payment'[j] = q
        /\ \A k \in Jobs \ {j} : payment'[k] = payment[k]
    BY <1>1, <2>2, <2>3, RowWritten
  <2>5. /\ at' \in [Jobs -> RefundSteps] /\ at'[j] = "manualUndo"
        /\ \A k \in Jobs \ {j} : at'[k] = at[k]
    BY <1>3, <1>1, WentTo DEF RefundSteps
  <2>7. UNCHANGED <<account, row, remote, quoted, posted, books, moved, charges, faults, crashes>>
    BY <1>3 DEF ManualStop, checkout, bounds, ledger
  <2>8. TypeOK' /\ NeverBoth' /\ Elsewhere(j)
    BY <1>3, <1>1, <2>2, <2>4, <2>5, <2>7 DEF Inv, TypeOK, NeverBoth, Elsewhere
  <2>9. SettlementInv(j)'
    BY <1>3, <1>1, <2>2, <2>4, <2>5, <2>7 DEF JobInv, SettlementInv, RefundInv, Earned, PaymentRow
  <2>10. RefundInv(j)'
    BY <1>3, <1>1, <2>2, <2>4, <2>5, <2>7 DEF JobInv, SettlementInv, RefundInv, BooksInv, Earned, PayoutStopped, PaymentRow
  <2>11. BooksInv(j)' /\ (moved[j] = Effect(j))'
    BY <1>3, <1>1, <2>2, <2>4, <2>5, <2>7 DEF JobInv, SettlementInv, RefundInv, BooksInv, Effect, Earned, PayoutStopped, If, PaymentRow
  <2> QED BY <2>8, <2>9, <2>10, <2>11, JobKept DEF JobInv
<1> QED BY <1>2, <1>3 DEF ManualStop


-----------------------------------------------------------------------------
(* Penalties, compensations, adjustments, holds. *)

(* A step about no job need only keep the accounts netted and the other     *)
(* entries posted.                                                          *)
LEMMA AllKept ==
    ASSUME Inv, TypeOK', NeverBoth', UNCHANGED <<payment, at, posted>>,
           \A j \in Jobs : books'[j] = books[j] /\ moved'[j] = moved[j],
           books'[Others] = moved'[Others]
    PROVE  Inv'
<1>1. ASSUME NEW j \in Jobs PROVE JobInv(j)'
  <2>1. JobInv(j)
    BY JobFacts
  <2>2. Effect(j)' = Effect(j)
    BY DEF Effect
  <2>3. SettlementInv(j)' /\ RefundInv(j)'
    BY <2>1 DEF JobInv, SettlementInv, RefundInv, Earned, PayoutStopped
  <2>4. BooksInv(j)'
    BY <2>1, <2>2 DEF JobInv, BooksInv, Earned, If
  <2> QED BY <2>1, <2>2, <2>3, <2>4 DEF JobInv
<1> QED BY <1>1 DEF Inv, UndoneInFull, DuesInv, JobInv

(* A change booked under no job is posted with it.                          *)
LEMMA OtherFacts ==
    ASSUME Inv, NEW n \in Int, NEW x \in Account, Netted(x), Net(x) = Net(account) + n,
           Change(Others, x), PostOther(n)
    PROVE  /\ account' \in Account /\ NeverBoth' /\ posted' = posted
           /\ books' \in [Entries -> Int] /\ moved' \in [Entries -> Int]
           /\ \A j \in Jobs : books'[j] = books[j] /\ moved'[j] = moved[j]
           /\ books'[Others] = moved'[Others]
<1>1. /\ TypeOK /\ Others \in Entries /\ books[Others] = moved[Others]
      /\ books \in [Entries -> Int] /\ moved \in [Entries -> Int] /\ account \in Account
  BY DEF Inv, TypeOK, DuesInv, Entries
<1>2. \A j \in Jobs : j \in Entries \ {Others}
  BY AmountsAssumption DEF Entries
<1>3. /\ account' \in Account /\ NeverBoth' /\ moved' \in [Entries -> Int]
      /\ moved'[Others] = moved[Others] + (Net(x) - Net(account))
      /\ \A f \in Entries \ {Others} : moved'[f] = moved[f]
  BY <1>1, ChangeFacts
<1>4. Net(x) - Net(account) = n /\ moved[Others] \in Int
  BY <1>1 DEF Net, Account
<1>5. books' = [books EXCEPT ![Others] = books[Others] + n] /\ posted' = posted
  BY DEF PostOther
<1>6. /\ books' \in [Entries -> Int] /\ books'[Others] = books[Others] + n
      /\ \A f \in Entries \ {Others} : books'[f] = books[f]
  BY <1>1, <1>4, <1>5
<1> QED BY <1>1, <1>2, <1>3, <1>4, <1>5, <1>6

(* Penalties, compensations and adjustments are booked and posted in one    *)
(* transaction.                                                             *)
LEMMA ChargeInv ==
    ASSUME Inv, NEW n \in Charges, ChargeStep(n)
    PROVE  Inv'
<1>1. n \in Nat /\ TypeOK /\ account \in Account /\ Netted(account) /\ Net(account) \in Int
  BY AmountsAssumption DEF Inv, TypeOK, NeverBoth, Netted, Net, Account
<1>2. charges' \in 0 .. MaxCharges /\ UNCHANGED <<payment, at, row, remote, quoted, faults, crashes>>
  BY <1>1, LimitsAssumption DEF ChargeStep, Penalty, Compensation, Waive, Charged, checkout, TypeOK
<1>3. /\ account' \in Account /\ NeverBoth' /\ posted' = posted
      /\ books' \in [Entries -> Int] /\ moved' \in [Entries -> Int]
      /\ \A j \in Jobs : books'[j] = books[j] /\ moved'[j] = moved[j]
      /\ books'[Others] = moved'[Others]
  <2>1. CASE Penalty(n)
    <3> DEFINE x == Accrued(account, n)
    <3>1. x \in Account /\ Net(x) = Net(account) + (0 - n) /\ Netted(x) /\ 0 - n \in Int
      BY <1>1, AccruedFacts
    <3>2. Change(Others, x) /\ PostOther(0 - n)
      BY <2>1 DEF Penalty
    <3> HIDE DEF x
    <3> QED BY <3>1, <3>2, OtherFacts
  <2>2. CASE Compensation(n) \/ Waive(n)
    <3> DEFINE x == Credited(account, n)
    <3>1. x \in Account /\ Net(x) = Net(account) + n /\ Netted(x)
      BY <1>1, CreditedFacts
    <3>2. Change(Others, x) /\ PostOther(n)
      BY <2>2 DEF Compensation, Waive
    <3> HIDE DEF x
    <3> QED BY <1>1, <3>1, <3>2, OtherFacts
  <2> QED BY <2>1, <2>2 DEF ChargeStep
<1>4. TypeOK'
  BY <1>1, <1>2, <1>3 DEF TypeOK
<1> QED BY <1>2, <1>3, <1>4, AllKept

(* A hold changes no balance.                                               *)
LEMMA ReleaseHoldInv ==
    ASSUME Inv, ReleaseHold
    PROVE  Inv'
<1>1. account \in Account /\ NeverBoth /\ TypeOK
  BY DEF Inv, TypeOK
<1>2. account' \in Account /\ account'.owed = account.owed /\ account'.credit = account.credit
  BY <1>1 DEF ReleaseHold, Account
<1>3. UNCHANGED <<payment, at, row, remote, quoted, books, posted, moved, charges, faults, crashes>>
  BY DEF ReleaseHold, checkout, ledger, bounds
<1>4. TypeOK' /\ NeverBoth'
  BY <1>1, <1>2, <1>3 DEF TypeOK, NeverBoth
<1> QED BY <1>3, <1>4, AllKept DEF Inv, DuesInv

-----------------------------------------------------------------------------
(* The worker pays his dues online. *)

(* Nothing changes that the books are about.                                *)
LEMMA AccountKept ==
    ASSUME Inv, TypeOK', UNCHANGED <<account, payment, at, ledger, moved>>
    PROVE  Inv'
<1>1. NeverBoth'
  BY DEF Inv, NeverBoth
<1> QED BY <1>1, AllKept DEF Inv, DuesInv, ledger

(* One row of a dues payment is written.                                    *)
LEMMA DuesRowWritten ==
    ASSUME TypeOK, NEW d \in Rows, NEW r \in DuesRow, row' = [row EXCEPT ![d] = r]
    PROVE  row' \in [Rows -> DuesRow]
BY DEF TypeOK

\* The ways a row is changed.
LEMMA DuesRowFacts ==
    ASSUME TypeOK, NEW d \in Rows
    PROVE  /\ [row[d] EXCEPT !.making = "store"] \in DuesRow
           /\ [row[d] EXCEPT !.making = "no"] \in DuesRow
           /\ [row[d] EXCEPT !.making = "no", !.status = "FAILED"] \in DuesRow
           /\ [row[d] EXCEPT !.making = "no", !.invoice = TRUE] \in DuesRow
           /\ [row[d] EXCEPT !.invoice = TRUE] \in DuesRow
           /\ [row[d] EXCEPT !.status = "FAILED"] \in DuesRow
           /\ [row[d] EXCEPT !.status = "PAID"] \in DuesRow
           /\ [row[d] EXCEPT !.status = "EXPIRED"] \in DuesRow
           /\ row[d].amount \in Nat
<1>1. row[d] \in DuesRow
  BY DEF TypeOK
<1> QED BY <1>1 DEF DuesRow

(* An amount to pay is a number.                                            *)
LEMMA PayableFacts ==
    ASSUME NEW n \in Nat \ {0}, NEW k \in Payable(n)
    PROVE  k \in Nat
<1>1. Half(n) \in Nat
  BY DEF Half
<1>2. Largest(Half(n), MinPayment) \in Nat
  BY <1>1, AmountsAssumption DEF Largest
<1>3. Least(n, Largest(Half(n), MinPayment)) \in Nat
  BY <1>2, LeastFacts
<1> QED BY <1>3 DEF Payable

(* Quoting the dues writes no balance.                                      *)
LEMMA QuoteInv ==
    ASSUME Inv, Quote
    PROVE  Inv'
<1>1. TypeOK /\ account.owed \in Nat
  BY DEF Inv, TypeOK, Account
<1>2. TypeOK'
  BY <1>1 DEF TypeOK, Quote, ledger, bounds
<1> QED BY <1>2, AccountKept DEF Quote

(* Dues paid are credited and posted by the one call that claims the row.   *)
LEMMA FinalizeDuesInv ==
    ASSUME Inv, NEW d \in Rows, FinalizeDues(d)
    PROVE  Inv'
<1>0. PICK n \in {row[d].amount} \cup OddPayments : Change(Others, PaidDown(account, n)) /\ PostOther(n)
  BY DEF FinalizeDues
<1> DEFINE x == PaidDown(account, n)
           r == [row[d] EXCEPT !.status = "PAID"]
<1>1. TypeOK /\ account \in Account /\ Netted(account) /\ n \in Nat /\ r \in DuesRow
  BY DuesRowFacts, AmountsAssumption DEF Inv, TypeOK, NeverBoth, Netted
<1>2. x \in Account /\ Net(x) = Net(account) + n /\ Netted(x)
  BY <1>1, PaidDownFacts
<1>3. Change(Others, x) /\ PostOther(n) /\ row' = [row EXCEPT ![d] = r]
  BY <1>0 DEF FinalizeDues
<1>4. UNCHANGED <<payment, at, remote, quoted, charges, faults, crashes>>
  BY DEF FinalizeDues, bounds
<1> HIDE DEF x, r
<1>5. /\ account' \in Account /\ NeverBoth' /\ posted' = posted
      /\ books' \in [Entries -> Int] /\ moved' \in [Entries -> Int]
      /\ \A j \in Jobs : books'[j] = books[j] /\ moved'[j] = moved[j]
      /\ books'[Others] = moved'[Others]
  BY <1>1, <1>2, <1>3, OtherFacts
<1>6. row' \in [Rows -> DuesRow]
  BY <1>1, <1>3, DuesRowWritten
<1>7. TypeOK'
  BY <1>1, <1>4, <1>5, <1>6 DEF TypeOK
<1> QED BY <1>4, <1>5, <1>7, AllKept

(* Nothing else that happens to a payment of dues touches the account.      *)
LEMMA RowInv ==
    ASSUME Inv, NEW d \in Rows, RowStep(d)
    PROVE  Inv'
<1>1. TypeOK /\ remote \in [Rows -> {"NONE", "PENDING", "PAID", "EXPIRED"}] /\ quoted \in Nat
  BY DEF Inv, TypeOK
<1>2. CASE FinalizeDues(d)
  BY <1>2, FinalizeDuesInv
<1>3. CASE ~FinalizeDues(d)
  <2>1. UNCHANGED <<account, payment, at, ledger, moved, charges, crashes, quoted>>
    BY <1>3 DEF RowStep, CreateRow, MintInvoice, StoreInvoice, RecoverRow, PayDues, DuesInvoiceExpires,
                FailDues, bounds
  <2>2. row' \in [Rows -> DuesRow]
    <3>1. CASE CreateRow(d)
      <4>1. PICK n \in Payable(quoted) :
               row' = [row EXCEPT ![d] = [status |-> "PENDING", invoice |-> FALSE, amount |-> n, making |-> "mint"]]
        BY <3>1 DEF CreateRow
      <4>2. n \in Nat
        BY <1>1, <3>1, PayableFacts DEF CreateRow
      <4>3. [status |-> "PENDING", invoice |-> FALSE, amount |-> n, making |-> "mint"] \in DuesRow
        BY <4>2 DEF DuesRow
      <4> QED BY <1>1, <4>1, <4>3, DuesRowWritten
    <3>2. CASE MintInvoice(d)
      <4>1. \/ row' = [row EXCEPT ![d] = [row[d] EXCEPT !.making = "store"]]
            \/ row' = [row EXCEPT ![d] = [row[d] EXCEPT !.making = "no", !.status = "FAILED"]]
        BY <3>2 DEF MintInvoice
      <4> QED BY <1>1, <4>1, DuesRowFacts, DuesRowWritten
    <3>3. CASE StoreInvoice(d)
      <4>1. row' = [row EXCEPT ![d] = [row[d] EXCEPT !.making = "no", !.invoice = TRUE]]
        BY <3>3 DEF StoreInvoice
      <4> QED BY <1>1, <4>1, DuesRowFacts, DuesRowWritten
    <3>4. CASE RecoverRow(d)
      <4>1. \/ row' = [row EXCEPT ![d] = [row[d] EXCEPT !.invoice = TRUE]]
            \/ row' = [row EXCEPT ![d] = [row[d] EXCEPT !.status = "FAILED"]]
        BY <3>4 DEF RecoverRow
      <4> QED BY <1>1, <4>1, DuesRowFacts, DuesRowWritten
    <3>5. CASE FailDues(d)
      <4>1. row' = [row EXCEPT ![d] = [row[d] EXCEPT !.status = "EXPIRED"]]
        BY <3>5 DEF FailDues
      <4> QED BY <1>1, <4>1, DuesRowFacts, DuesRowWritten
    <3>6. CASE PayDues(d) \/ DuesInvoiceExpires(d)
      BY <1>1, <3>6 DEF PayDues, DuesInvoiceExpires, TypeOK
    <3> QED BY <1>3, <3>1, <3>2, <3>3, <3>4, <3>5, <3>6 DEF RowStep
  <2>3. remote' \in [Rows -> {"NONE", "PENDING", "PAID", "EXPIRED"}]
    BY <1>1, <1>3 DEF RowStep, CreateRow, MintInvoice, StoreInvoice, RecoverRow, PayDues, DuesInvoiceExpires, FailDues
  <2>4. faults' \in 0 .. MaxFaults
    <3>1. faults \in 0 .. MaxFaults
      BY <1>1 DEF TypeOK
    <3>2. faults' = faults \/ (faults < MaxFaults /\ faults' = faults + 1)
      BY <1>3 DEF RowStep, CreateRow, MintInvoice, StoreInvoice, RecoverRow, PayDues, DuesInvoiceExpires,
                  FailDues, bounds
    <3> QED BY <3>1, <3>2, LimitsAssumption
  <2>5. TypeOK'
    BY <1>1, <2>1, <2>2, <2>3, <2>4 DEF TypeOK, ledger
  <2> QED BY <2>1, <2>5, AccountKept
<1> QED BY <1>2, <1>3

-----------------------------------------------------------------------------
(* Every step. *)

(* A crash loses what a refund had still to do, and every step it did       *)
(* stays.                                                                   *)
LEMMA CrashInv ==
    ASSUME Inv, Crash
    PROVE  Inv'
<1>1. /\ TypeOK /\ crashes' \in 0 .. MaxCrashes
      /\ UNCHANGED <<account, remote, quoted, books, posted, moved, charges, faults>>
  BY LimitsAssumption DEF Inv, TypeOK, Crash, ledger
<1>2. ASSUME NEW j \in Jobs, at' = [at EXCEPT ![j] = "none"], UNCHANGED <<payment, row>>
      PROVE  Inv'
  <2>1. /\ at' \in [Jobs -> RefundSteps] /\ at'[j] = "none"
        /\ \A k \in Jobs \ {j} : at'[k] = at[k]
    BY <1>1, <1>2, WentTo DEF RefundSteps
  <2>2. TypeOK' /\ NeverBoth' /\ Elsewhere(j)
    BY <1>1, <1>2, <2>1 DEF Inv, TypeOK, NeverBoth, Elsewhere
  <2>3. JobInv(j)
    BY JobFacts
  <2>4. SettlementInv(j)' /\ RefundInv(j)'
    BY <1>1, <1>2, <2>1, <2>3 DEF JobInv, SettlementInv, RefundInv, Earned, PayoutStopped
  <2>5. BooksInv(j)' /\ (moved[j] = Effect(j))'
    BY <1>1, <1>2, <2>3 DEF JobInv, BooksInv, Effect, Earned, If
  <2> QED BY <2>2, <2>4, <2>5, JobKept DEF JobInv
<1>3. ASSUME NEW j \in Jobs, payment' = [payment EXCEPT ![j].posting = FALSE], UNCHANGED <<at, row>>
      PROVE  Inv'
  <2> DEFINE p == payment[j]
             q == [p EXCEPT !.posting = FALSE]
  <2>1. p \in PaymentRow /\ JobInv(j) /\ payment' = [payment EXCEPT ![j] = q]
    BY <1>3, JobFacts
  <2>2. /\ q \in PaymentRow /\ q.posting = FALSE
        /\ q.status = p.status /\ q.method = p.method /\ q.settled = p.settled /\ q.reversed = p.reversed
        /\ q.recovered = p.recovered /\ q.compensationPaid = p.compensationPaid
        /\ q.payout = p.payout /\ q.amount = p.amount /\ q.refund = p.refund
    BY <2>1 DEF PaymentRow
  <2> HIDE DEF q
  <2>3. /\ payment' \in [Jobs -> PaymentRow] /\ payment'[j] = q
        /\ \A k \in Jobs \ {j} : payment'[k] = payment[k]
    BY <1>1, <2>1, <2>2, RowWritten
  <2>4. TypeOK' /\ NeverBoth' /\ Elsewhere(j)
    BY <1>1, <1>3, <2>3 DEF Inv, TypeOK, NeverBoth, Elsewhere
  <2>5. SettlementInv(j)' /\ RefundInv(j)'
    BY <1>1, <1>3, <2>1, <2>2, <2>3 DEF JobInv, SettlementInv, RefundInv, Earned, PayoutStopped
  <2>6. BooksInv(j)' /\ (moved[j] = Effect(j))'
    BY <1>1, <2>1, <2>2, <2>3 DEF JobInv, BooksInv, Effect, Earned, If
  <2> QED BY <2>4, <2>5, <2>6, JobKept DEF JobInv
<1>4. ASSUME NEW d \in Rows, row' = [row EXCEPT ![d].making = "no"], UNCHANGED <<at, payment>>
      PROVE  Inv'
  <2>1. row' = [row EXCEPT ![d] = [row[d] EXCEPT !.making = "no"]]
    BY <1>4
  <2>2. row' \in [Rows -> DuesRow]
    BY <1>1, <2>1, DuesRowFacts, DuesRowWritten
  <2>3. TypeOK'
    BY <1>1, <1>4, <2>2 DEF TypeOK
  <2> QED BY <1>1, <1>4, <2>3, AccountKept DEF ledger
<1> QED BY <1>2, <1>3, <1>4 DEF Crash

(* At first nobody owes anything.                                           *)
LEMMA InitInv == Init => Inv
<1> SUFFICES ASSUME Init PROVE Inv
  OBVIOUS
<1>1. TypeOK
  BY AmountsAssumption, LimitsAssumption
  DEF Init, TypeOK, Account, PaymentRow, Unpaid, RefundSteps, DuesRow, Entries, Keys
<1>2. NeverBoth
  BY DEF Init, NeverBoth
<1>3. ASSUME NEW j \in Jobs PROVE JobInv(j)
  <2>1. payment[j] = Unpaid /\ at[j] = "none" /\ posted[j] = {} /\ books[j] = 0 /\ moved[j] = 0
    BY DEF Init, Entries
  <2> QED BY <2>1 DEF JobInv, SettlementInv, RefundInv, BooksInv, Effect, Earned, PayoutStopped, If, Unpaid
<1>4. books[Others] = moved[Others]
  BY DEF Init, Entries
<1> QED BY <1>1, <1>2, <1>3, <1>4 DEF Inv, UndoneInFull, DuesInv, JobInv

(* Every step keeps the invariant.                                          *)
LEMMA StepInv == Inv /\ [Next]_vars => Inv'
<1> SUFFICES ASSUME Inv, [Next]_vars PROVE Inv'
  OBVIOUS
<1>1. ASSUME NEW j \in Jobs, JobStep(j) PROVE Inv'
  BY <1>1, CaptureInv, SettleCashInv, SettleInv, PayoutSentInv, PayoutCancelledInv, PostPayoutInv, PaidAfterCancelInv,
     RefundStopInv, RefundAskInv, RefundUndoInv, RefundPostInv, RefundWriteInv,
     RefundSucceededInv, RefundFailedInv, RefundCashInv,
     ManualStopInv, ManualUndoInv, ManualWriteInv, ManualPostInv DEF JobStep
<1>2. CASE UNCHANGED vars
  <2>1. UNCHANGED <<account, payment, at, row, remote, quoted, ledger, moved, charges, faults, crashes>>
    BY <1>2 DEF vars, checkout, bounds
  <2>2. TypeOK'
    BY <2>1 DEF Inv, TypeOK, ledger
  <2> QED BY <2>1, <2>2, AccountKept
<1> QED BY <1>1, <1>2, ChargeInv, ReleaseHoldInv, QuoteInv, RowInv, CrashInv DEF Next

-----------------------------------------------------------------------------
(* Whatever the jobs, their refunds and the payments of dues: what is owed  *)
(* is never negative, and no more credit is used than there is              *)
(* (accrueDebtTx, creditDebtTx).                                            *)
THEOREM DuesTyped == Spec => []TypeOK
<1>1. Inv => TypeOK
  BY DEF Inv
<1> QED BY <1>1, InitInv, StepInv, PTL DEF Spec

(* Dues and credit are netted after every step.                             *)
THEOREM AlwaysNetted == Spec => []NeverBoth
<1>1. Inv => NeverBoth
  BY DEF Inv
<1> QED BY <1>1, InitInv, StepInv, PTL DEF Spec

(* A settlement that is undone, however often and in whatever order with    *)
(* other settlements and charges, leaves no trace on the account            *)
(* (undoWorkerSettlement).                                                  *)
THEOREM UndoneWithoutTrace == Spec => []UndoneInFull
<1>1. Inv => UndoneInFull
  BY DEF Inv
<1> QED BY <1>1, InitInv, StepInv, PTL DEF Spec

(* The invariant behind them: settlements add up, refunds find them claimed *)
(* and no payout on its way, those by hand perhaps a payout that takes      *)
(* nothing back from the worker, and postings are those of what happened.   *)
THEOREM DuesConsistent == Spec => []DuesInv
<1>1. Inv => DuesInv
  BY DEF Inv
<1> QED BY <1>1, InitInv, StepInv, PTL DEF Spec

(* The books of a job that is not halfway through a refund or payout agree. *)
LEMMA AgreementOfJob ==
    ASSUME Inv, NEW j \in Jobs, ~Late(j)
    PROVE  books[j] = moved[j] + Due(j)
<1> DEFINE p == payment[j]
<1>1. /\ p \in PaymentRow /\ posted[j] \in SUBSET Keys /\ moved[j] \in Int /\ moved[j] = Effect(j)
      /\ Share[j] \in Nat \ {0} /\ Cut[j] \in Nat
      /\ SettlementInv(j) /\ RefundInv(j) /\ BooksInv(j)
  BY JobFacts DEF JobInv
<1>2. /\ p.recovered \in Nat /\ p.compensationPaid \in Nat /\ p.amount \in Nat
      /\ p.method \in {"NONE", "ONLINE", "PLATFORM", "CASH"} /\ p.status \in {"NONE", "COMPLETED", "REFUNDED"}
      /\ p.payout \in {"NONE", "OPEN", "PAID", "CANCELLED"}
      /\ p.settled \in BOOLEAN /\ p.reversed \in BOOLEAN
  BY <1>1 DEF PaymentRow
<1>3. CASE p.method \in {"NONE", "CASH"}
  <2>1. CASE p.method = "NONE"
    <3>1. p.status = "NONE" /\ ~p.settled /\ p.payout = "NONE" /\ p.recovered = 0 /\ p.compensationPaid = 0
      BY <1>1, <2>1 DEF RefundInv, SettlementInv
    <3>2. ~p.reversed
      BY <1>1, <3>1 DEF RefundInv, PayoutStopped
    <3>3. books[j] = 0 /\ moved[j] = 0 /\ Due(j) = 0
      BY <1>1, <2>1, <3>1, <3>2 DEF BooksInv, Effect, Due
    <3> QED BY <3>3
  <2>2. CASE p.method = "CASH"
    <3>1. p.payout = "NONE" /\ p.settled
      BY <1>1, <2>2 DEF SettlementInv
    <3>2. books[j] = Effect(j) /\ Due(j) = 0
      BY <1>1, <2>2, <3>1 DEF BooksInv, Due
    <3> QED BY <1>1, <3>2
  <2> QED BY <1>3, <2>1, <2>2
<1>4. CASE p.method \in {"ONLINE", "PLATFORM"}
  <2>1. Earned(j) /\ p.status \in {"COMPLETED", "REFUNDED"}
    BY <1>1, <1>2, <1>4 DEF Earned, RefundInv
  <2>2. books[j] = ((Share[j] - If("payout" \in posted[j], p.amount)) - If("refund" \in posted[j], Share[j]))
                       - If("manual-refund" \in posted[j], Share[j])
    BY <1>1, <1>4 DEF BooksInv
  <2>3. moved[j] = IF p.reversed THEN 0 ELSE p.recovered - p.compensationPaid
    BY <1>1, <1>2, <1>4 DEF Effect
  <2>4. /\ p.payout = "PAID" => "payout" \in posted[j]
        /\ p.payout = "CANCELLED" => "payout" \notin posted[j]
        /\ (Refunded(j) \/ ClaimedUnsettled(j)) /\ p.payout \in {"NONE", "CANCELLED"} => RefundPostings(j) # {}
        /\ RefundPostings(j) # {"refund", "manual-refund"}
        /\ RefundPostings(j) # {} => Refunded(j)
    BY DEF Late
  <2>5. "payout" \in posted[j] => p.payout \in {"PAID", "CANCELLED"}
    BY <1>1 DEF BooksInv
  <2>6. CASE p.payout = "PAID"
    <3>1. p.settled /\ ~p.reversed /\ "refund" \notin posted[j] /\ "manual-refund" \notin posted[j]
      BY <1>1, <1>2, <2>6 DEF SettlementInv, RefundInv, BooksInv, PayoutStopped
    <3>2. p.amount = (Share[j] - p.recovered) + p.compensationPaid
      BY <1>1, <2>1, <2>6, <3>1 DEF SettlementInv
    <3>3. books[j] = Share[j] - p.amount
      BY <1>2, <2>2, <2>4, <2>6, <3>1, <1>1 DEF If
    <3>4. Due(j) = 0
      BY <2>6, <3>1 DEF Due
    <3> QED BY <1>1, <1>2, <2>3, <3>1, <3>2, <3>3, <3>4
  <2>7. CASE p.payout \in {"NONE", "CANCELLED"} /\ Refunded(j)
    <3>1. p.settled
      BY <1>1, <2>1, <2>7 DEF Refunded, RefundInv, PayoutStopped
    <3>2. "payout" \notin posted[j]
      BY <2>4, <2>5, <2>7
    <3>3. RefundPostings(j) \in {{"refund"}, {"manual-refund"}}
      BY <2>4, <2>7 DEF RefundPostings
    <3>4. ("refund" \in posted[j] /\ "manual-refund" \notin posted[j])
             \/ ("refund" \notin posted[j] /\ "manual-refund" \in posted[j])
      BY <3>3 DEF RefundPostings
    <3>5. p.reversed
      BY <1>1, <2>7, <3>4 DEF BooksInv
    <3>6. books[j] = 0
      BY <1>1, <2>2, <2>7, <3>2, <3>4 DEF If
    <3>7. Due(j) = 0
      BY <1>2, <2>7, <3>1, <3>5 DEF Due
    <3> QED BY <2>3, <3>5, <3>6, <3>7
  <2>9. CASE p.payout = "OPEN" /\ Refunded(j)
    <3>1. p.settled /\ ~p.reversed /\ "refund" \notin posted[j] /\ "manual-refund" \notin posted[j]
      BY <1>1, <1>2, <2>9 DEF SettlementInv, RefundInv, BooksInv, PayoutStopped
    <3>2. p.amount = (Share[j] - p.recovered) + p.compensationPaid
      BY <1>1, <2>1, <2>9, <3>1 DEF SettlementInv
    <3>3. books[j] = Share[j]
      BY <1>1, <2>2, <2>5, <2>9, <3>1 DEF If
    <3>4. Due(j) = p.amount
      BY <2>9 DEF Due
    <3> QED BY <1>1, <1>2, <2>3, <3>1, <3>2, <3>3, <3>4
  <2>8. CASE p.payout # "PAID" /\ ~Refunded(j)
    <3>1. ~p.reversed /\ p.status = "COMPLETED" /\ p.method # "CASH"
      BY <1>4, <2>1, <2>8 DEF Refunded
    <3>2. RefundPostings(j) = {} /\ ~ClaimedUnsettled(j)
      BY <2>4, <2>8 DEF ClaimedUnsettled
    <3>3. "refund" \notin posted[j] /\ "manual-refund" \notin posted[j] /\ "payout" \notin posted[j]
      BY <2>4, <2>5, <2>8, <3>2 DEF RefundPostings
    <3>4. books[j] = Share[j]
      BY <1>1, <2>2, <3>3 DEF If
    <3>5. /\ p.payout \in {"OPEN", "CANCELLED"} => Due(j) = p.amount
          /\ p.payout = "NONE" => Due(j) = IF p.settled THEN 0 ELSE Share[j]
      <4>1. p.payout = "OPEN" => Due(j) = p.amount
        BY <1>1, <1>2 DEF Due
      <4>2. p.payout = "CANCELLED" => Due(j) = p.amount
        BY <1>1, <1>2, <3>1 DEF Due
      <4>3. p.payout = "NONE" => Due(j) = IF p.settled THEN 0 ELSE Share[j]
        BY <3>1 DEF Due
      <4> QED BY <4>1, <4>2, <4>3
    <3>6. CASE ~p.settled
      <4>1. p.payout = "NONE" /\ p.recovered = 0 /\ p.compensationPaid = 0
        BY <1>1, <3>6 DEF SettlementInv
      <4> QED BY <1>1, <2>3, <3>1, <3>4, <3>5, <3>6, <4>1
    <3>7. CASE p.settled /\ p.payout = "NONE"
      <4>1. p.recovered # 0
        BY <3>1, <3>2, <3>7 DEF ClaimedUnsettled
      <4>2. p.amount = 0 /\ p.amount = (Share[j] - p.recovered) + p.compensationPaid
        BY <1>1, <2>1, <3>7, <4>1 DEF SettlementInv
      <4>3. Due(j) = 0
        BY <3>5, <3>7
      <4> QED BY <1>1, <1>2, <2>3, <3>1, <3>4, <4>2, <4>3
    <3>8. CASE p.settled /\ p.payout \in {"OPEN", "CANCELLED"}
      <4>1. p.amount = (Share[j] - p.recovered) + p.compensationPaid
        BY <1>1, <2>1, <3>8 DEF SettlementInv
      <4>2. Due(j) = p.amount
        BY <3>5, <3>8
      <4> QED BY <1>1, <1>2, <2>3, <3>1, <3>4, <4>1, <4>2
    <3> QED BY <1>2, <2>8, <3>6, <3>7, <3>8
  <2> QED BY <1>2, <2>6, <2>7, <2>8, <2>9
<1> QED BY <1>2, <1>3, <1>4

(* The ledger and the records agree job by job, whatever was netted against *)
(* whatever, but for the jobs whose refund or payout is halfway             *)
(* (postLedger, expectedWorkerBalances).                                    *)
THEOREM BooksAgree == Spec => []EntriesAgree
<1>1. Inv => EntriesAgree
  BY AgreementOfJob DEF Inv, DuesInv, EntriesAgree
<1> QED BY <1>1, InitInv, StepInv, PTL DEF Spec

-----------------------------------------------------------------------------
(* The sums over all jobs. *)

(* The jobs, and with them the entries of the ledger, are finitely many.    *)
LEMMA EntriesFinite ==
    /\ IsFiniteSet(Jobs) /\ IsFiniteSet(Entries)
    /\ Others \in Entries /\ Entries \ {Others} = Jobs
<1>1. IsFiniteSet(Entries)
  BY JobsAssumption, FS_AddElement DEF Entries
<1> QED BY <1>1, JobsAssumption, AmountsAssumption DEF Entries

\* What moved the account, for the jobs and for all else, adds up to it.
NetIsMoved == Net(account) = Total(moved, Entries)

\* A step books what it changes under one entry, or changes nothing.
Booked ==
    \/ \E e \in Entries : moved' = [moved EXCEPT ![e] = @ + (Net(account') - Net(account))]
    \/ moved' = moved /\ Net(account') = Net(account)

(* Every step books what it changes.                                        *)
LEMMA StepBooked == [Next]_vars => Booked
<1> SUFFICES ASSUME [Next]_vars PROVE Booked
  OBVIOUS
<1>1. ASSUME NEW e \in Entries, NEW x, Change(e, x) PROVE Booked
  BY <1>1 DEF Change, Booked
<1>2. ASSUME UNCHANGED <<account, moved>> PROVE Booked
  BY <1>2 DEF Booked
<1>3. ASSUME NEW j \in Jobs, JobStep(j) PROVE Booked
  <2>1. j \in Entries
    BY DEF Entries
  <2>2. CASE SettleCash(j)
    BY <1>1, <1>2, <2>1, <2>2 DEF SettleCash
  <2>3. CASE Settle(j)
    BY <1>1, <2>1, <2>3 DEF Settle
  <2>4. CASE RefundUndo(j) \/ ManualUndo(j)
    BY <1>1, <1>2, <2>1, <2>4 DEF RefundUndo, ManualUndo, UndoSettlement
  <2>5. CASE RefundCash(j)
    BY <1>1, <1>2, <2>1, <2>5 DEF RefundCash
  <2>6. CASE \/ Capture(j) \/ PayoutSent(j) \/ PayoutCancelled(j) \/ PostPayout(j) \/ PaidAfterCancel(j)
            \/ RefundStop(j) \/ RefundAsk(j) \/ RefundPost(j) \/ RefundWrite(j)
            \/ RefundSucceeded(j) \/ RefundFailed(j) \/ ManualStop(j) \/ ManualWrite(j) \/ ManualPost(j)
    BY <1>2, <2>6 DEF Capture, PayoutSent, PayoutCancelled, PostPayout, PaidAfterCancel, RefundStop, RefundAsk,
       RefundPost, RefundWrite, RefundSucceeded, RefundFailed, ManualStop, ManualWrite, ManualPost
  <2> QED BY <1>3, <2>2, <2>3, <2>4, <2>5, <2>6 DEF JobStep
<1>4. ASSUME NEW n \in Charges, ChargeStep(n) PROVE Booked
  BY <1>1, <1>4, EntriesFinite DEF ChargeStep, Penalty, Compensation, Waive
<1>5. ASSUME NEW d \in Rows, RowStep(d) PROVE Booked
  <2>1. CASE FinalizeDues(d)
    BY <1>1, <2>1, EntriesFinite DEF FinalizeDues
  <2>2. CASE \/ CreateRow(d) \/ MintInvoice(d) \/ StoreInvoice(d) \/ RecoverRow(d)
            \/ PayDues(d) \/ DuesInvoiceExpires(d) \/ FailDues(d)
    BY <1>2, <2>2 DEF CreateRow, MintInvoice, StoreInvoice, RecoverRow, PayDues,
       DuesInvoiceExpires, FailDues
  <2> QED BY <1>5, <2>1, <2>2 DEF RowStep
<1>6. CASE ReleaseHold
  BY <1>6 DEF ReleaseHold, Booked, Net
<1>7. CASE Quote \/ Crash \/ UNCHANGED vars
  BY <1>2, <1>7 DEF Quote, Crash, vars
<1> QED BY <1>3, <1>4, <1>5, <1>6, <1>7 DEF Next

(* So the account stays what its changes add up to.                         *)
LEMMA NetKept == Inv /\ Inv' /\ NetIsMoved /\ [Next]_vars => NetIsMoved'
<1> SUFFICES ASSUME Inv, Inv', NetIsMoved, [Next]_vars PROVE NetIsMoved'
  OBVIOUS
<1> DEFINE n == Net(account') - Net(account)
<1>1. /\ Net(account) \in Int /\ Net(account') \in Int /\ n \in Int
      /\ Net(account') = Net(account) + n
      /\ moved \in [Entries -> Int]
  BY DEF Inv, TypeOK, Account, Net
<1>2. SUFFICES Net(account') = Total(moved', Entries)
  BY DEF NetIsMoved
<1>3. Net(account) = Total(moved, Entries)
  BY DEF NetIsMoved
<1>4. CASE \E e \in Entries : moved' = [moved EXCEPT ![e] = @ + n]
  <2>1. PICK e \in Entries : moved' = [moved EXCEPT ![e] = @ + n]
    BY <1>4
  <2> HIDE DEF n
  <2>2. Total(moved', Entries) = Total(moved, Entries) + n
    BY <1>1, <2>1, EntriesFinite, TotalExcept
  <2> QED BY <1>1, <1>3, <2>2
<1>5. CASE moved' = moved /\ Net(account') = Net(account)
  BY <1>3, <1>5
<1> QED BY <1>4, <1>5, StepBooked DEF Booked

(* At first there is nothing.                                               *)
LEMMA NetInit == Init => NetIsMoved
<1> SUFFICES ASSUME Init PROVE NetIsMoved
  OBVIOUS
<1>1. Net(account) = 0 /\ \A e \in Entries : moved[e] = 0
  BY DEF Init, Net
<1> QED BY <1>1, EntriesFinite, TotalZero DEF NetIsMoved

(* What the records say is owed for a job is an amount.                     *)
LEMMA DueInt == ASSUME Inv, NEW j \in Jobs PROVE Due(j) \in Int
BY JobFacts DEF Due, PaymentRow

\* The same as a function, for the sum.
Owing == [j \in Jobs |-> Due(j)]

(* The sum of what is due is that of the function.                          *)
LEMMA DuesTotal == MapThenSumSet(Due, Jobs) = Total(Owing, Jobs)
<1> DEFINE IsSum(g) == g = [s \in SUBSET Jobs |-> IF s = {} THEN 0 ELSE Due(Chosen(s)) + g[s \ {Chosen(s)}]]
           c == CHOOSE g : IsSum(g)
<1>1. MapThenSumSet(Due, Jobs) = c[Jobs]
  BY DEF MapThenSumSet, MapThenFoldSet, Chosen
<1>2. ASSUME NEW g PROVE IsSum(g) <=> Adds(Owing, Jobs, g)
  <2>1. ASSUME NEW s \in SUBSET Jobs, s # {} PROVE Due(Chosen(s)) = Owing[Chosen(s)]
    BY <2>1 DEF Owing, Chosen
  <2> QED BY <2>1 DEF Adds
<1>3. \E g : Adds(Owing, Jobs, g)
  BY EntriesFinite, AdderExists
<1>4. IsSum(c)
  BY <1>2, <1>3
<1>5. Adds(Owing, Jobs, c)
  BY <1>2, <1>4
<1>6. Adds(Owing, Jobs, Adder(Owing, Jobs))
  BY <1>3, AdderAdds
<1>7. Jobs \in SUBSET Jobs
  OBVIOUS
<1> HIDE DEF c
<1>8. c[Jobs] = Adder(Owing, Jobs)[Jobs]
  BY <1>5, <1>6, <1>7, EntriesFinite, AddsAgree
<1> QED BY <1>1, <1>8, TotalIsFold

(* The books agree when every entry does.                                   *)
LEMMA AgreementOfAll ==
    ASSUME Inv, NetIsMoved, \A j \in Jobs : ~Late(j)
    PROVE  Total(books, Entries) = Net(account) + Total(Owing, Jobs)
<1>1. /\ books[Others] = moved[Others] /\ books[Others] \in Int
      /\ \A j \in Jobs : moved[j] \in Int /\ Owing[j] \in Int /\ books[j] = moved[j] + Owing[j]
      /\ \A e \in Entries : books[e] \in Int /\ moved[e] \in Int
  BY AgreementOfJob, DueInt, EntriesFinite DEF Inv, TypeOK, DuesInv, Owing, Entries
<1>2. Total(books, Jobs) = Total(moved, Jobs) + Total(Owing, Jobs)
  BY <1>1, EntriesFinite, TotalPlus
<1>3. Total(books, Entries) = books[Others] + Total(books, Jobs)
  BY <1>1, EntriesFinite, TotalRemove
<1>4. Total(moved, Entries) = moved[Others] + Total(moved, Jobs)
  BY <1>1, EntriesFinite, TotalRemove
<1>5. Total(moved, Jobs) \in Int /\ Total(Owing, Jobs) \in Int
  BY <1>1, EntriesFinite, TotalInt
<1> QED BY <1>1, <1>2, <1>3, <1>4, <1>5 DEF NetIsMoved

(* "Each worker's balance matches their dues, credit and unpaid payouts":   *)
(* what the ledger says is owed to the worker, added up over his jobs and   *)
(* all else, is what his account and the records of his jobs come to        *)
(* (expectedWorkerBalances, buildReconciliation), when no refund and no     *)
(* payout is halfway.                                                       *)
THEOREM BalanceAgrees == Spec => []WorkersAgree
<1>1. Inv /\ NetIsMoved => WorkersAgree
  BY AgreementOfAll, DuesTotal DEF WorkersAgree, Total
<1>2. Init => Inv /\ NetIsMoved
  BY InitInv, NetInit
<1>3. Inv /\ NetIsMoved /\ [Next]_vars => (Inv /\ NetIsMoved)'
  BY StepInv, NetKept
<1> QED BY <1>1, <1>2, <1>3, PTL DEF Spec

-----------------------------------------------------------------------------
(* What the platform promises about the worker's earnings (Earnings). *)

Back(p) == p.reversed \/ p.refund \in {"PENDING", "SUCCEEDED"}
Returned(p, s) == CASE Back(p) -> "BACK" [] "manual-loss" \in s -> "LOSS" [] OTHER -> "NO"

\* What may become of a payment row, as far as the earnings go: nothing, the
\* claim, the end of a payout, or money going back or forth while the payout
\* is stopped.
Moves(p, q) ==
    \/ q.settled = p.settled /\ q.payout = p.payout /\ Back(q) = Back(p)
    \/ /\ ~p.settled /\ q.settled = TRUE /\ p.payout = "NONE"
       /\ q.payout \in {"NONE", "OPEN"} /\ Back(q) = Back(p)
    \/ /\ p.payout = "OPEN" /\ q.payout \in {"PAID", "CANCELLED"}
       /\ q.settled = p.settled /\ Back(q) = Back(p)
    \/ /\ p.settled /\ p.payout \in {"NONE", "CANCELLED"}
       /\ q.settled = p.settled /\ q.payout = p.payout

\* No loss is posted.
SameLosses == \A k \in Jobs : "manual-loss" \in posted'[k] <=> "manual-loss" \in posted[k]

(* Any other posting is none.                                               *)
LEMMA PostIsNoLoss ==
    ASSUME TypeOK, NEW j \in Jobs, NEW key \in Keys \ {"manual-loss"}, NEW n \in Int, Post(j, key, n)
    PROVE  SameLosses
BY PostFacts DEF SameLosses

(* A function that changes in one place.                                    *)
LEMMA ChangedAt ==
    ASSUME NEW S, NEW T, NEW f \in [S -> T], NEW g \in [S -> T], NEW j \in S, NEW v \in T,
           g[j] = v, \A k \in S \ {j} : g[k] = f[k]
    PROVE  g = [f EXCEPT ![j] = v]
OBVIOUS

(* Each is a step of the abstract specification, or none.                   *)
LEMMA MovesImplement ==
    ASSUME Inv, NEW j \in Jobs, NEW q \in PaymentRow, payment' = [payment EXCEPT ![j] = q],
           Moves(payment[j], q), SameLosses
    PROVE  [OfWorker!Next]_(OfWorker!vars)
<1> DEFINE C == [k \in Jobs |-> payment[k].settled]
           P == [k \in Jobs |-> payment[k].payout]
           R == [k \in Jobs |-> Returned(payment[k], posted[k])]
           p == payment[j]
           r == Returned(q, posted[j])
<1>0. payment \in [Jobs -> PaymentRow] /\ payment' \in [Jobs -> PaymentRow]
  BY DEF Inv, TypeOK
<1>1. /\ p \in PaymentRow /\ payment'[j] = q /\ \A k \in Jobs \ {j} : payment'[k] = payment[k]
  BY RowWritten DEF Inv, TypeOK
<1>2. /\ C' = [C EXCEPT ![j] = q.settled]
      /\ P' = [P EXCEPT ![j] = q.payout]
      /\ R' = [R EXCEPT ![j] = r]
  <2>1. C' = [C EXCEPT ![j] = q.settled]
    <3>1. /\ C \in [Jobs -> BOOLEAN] /\ C' \in [Jobs -> BOOLEAN] /\ C'[j] = q.settled
          /\ q.settled \in BOOLEAN /\ \A k \in Jobs \ {j} : C'[k] = C[k]
      BY <1>0, <1>1 DEF PaymentRow
    <3> HIDE DEF C
    <3> QED BY <3>1, ChangedAt
  <2>2. P' = [P EXCEPT ![j] = q.payout]
    <3> DEFINE T == {"NONE", "OPEN", "PAID", "CANCELLED"}
    <3>1. /\ P \in [Jobs -> T] /\ P' \in [Jobs -> T] /\ P'[j] = q.payout
          /\ q.payout \in T /\ \A k \in Jobs \ {j} : P'[k] = P[k]
      BY <1>0, <1>1 DEF PaymentRow
    <3> HIDE DEF P, T
    <3> QED BY <3>1, ChangedAt
  <2>3. R' = [R EXCEPT ![j] = r]
    <3> DEFINE T == {"NO", "BACK", "LOSS"}
    <3>1. ASSUME NEW x, NEW s PROVE Returned(x, s) \in T
      BY DEF Returned
    <3>2. \A k \in Jobs : \A x : Returned(x, posted'[k]) = Returned(x, posted[k])
      BY DEF SameLosses, Returned
    <3>3. /\ R \in [Jobs -> T] /\ R' \in [Jobs -> T] /\ R'[j] = r
          /\ r \in T /\ \A k \in Jobs \ {j} : R'[k] = R[k]
      BY <1>1, <3>1, <3>2
    <3> HIDE DEF R, r, T
    <3> QED BY <3>3, ChangedAt
  <2> QED BY <2>1, <2>2, <2>3
<1>3. C[j] = p.settled /\ P[j] = p.payout /\ R[j] = Returned(p, posted[j])
  OBVIOUS
<1>4. /\ q.settled = p.settled => UNCHANGED C
      /\ q.payout = p.payout => UNCHANGED P
      /\ r = R[j] => UNCHANGED R
  <2>1. /\ [C EXCEPT ![j] = C[j]] = C
        /\ [P EXCEPT ![j] = P[j]] = P
        /\ [R EXCEPT ![j] = R[j]] = R
    OBVIOUS
  <2> HIDE DEF C, P, R, r
  <2> QED BY <1>2, <1>3, <2>1
<1>5. OfWorker!vars = <<C, P, R>> /\ OfWorker!vars' = <<C, P, R>>'
  BY DEF OfWorker!vars, Returned, Back
<1>6. /\ p.settled \in BOOLEAN /\ q.settled \in BOOLEAN
      /\ r \in {"NO", "BACK", "LOSS"} /\ Back(p) \in BOOLEAN /\ Back(q) \in BOOLEAN
  BY <1>1 DEF PaymentRow, Returned, Back
<1>a. Back(q) = Back(p) => r = R[j]
  BY <1>3 DEF Returned
<1>b. r = "LOSS" => p.settled /\ p.payout # "NONE"
  <2>1. BooksInv(j)
    BY JobFacts DEF JobInv
  <2> QED BY <2>1 DEF BooksInv, Returned
<1>7. /\ OfWorker!Claim(j) <=> /\ ~C[j] /\ C' = [C EXCEPT ![j] = TRUE]
                              /\ \E first \in {"NONE", "OPEN"} : P' = [P EXCEPT ![j] = first]
                              /\ UNCHANGED R
      /\ OfWorker!Send(j) <=> P[j] = "OPEN" /\ P' = [P EXCEPT ![j] = "PAID"] /\ UNCHANGED <<C, R>>
      /\ OfWorker!Stop(j) <=> P[j] = "OPEN" /\ P' = [P EXCEPT ![j] = "CANCELLED"] /\ UNCHANGED <<C, R>>
      /\ OfWorker!Return(j) <=> /\ C[j] /\ P[j] \in {"NONE", "CANCELLED"}
                               /\ R' = [R EXCEPT ![j] = "BACK"] /\ UNCHANGED <<C, P>>
      /\ OfWorker!Lose(j) <=> C[j] /\ P[j] # "NONE" /\ R' = [R EXCEPT ![j] = "LOSS"] /\ UNCHANGED <<C, P>>
      /\ OfWorker!Restore(j) <=> R' = [R EXCEPT ![j] = "NO"] /\ UNCHANGED <<C, P>>
  BY DEF Returned, Back, OfWorker!Claim, OfWorker!Send, OfWorker!Stop, OfWorker!Return, OfWorker!Lose,
     OfWorker!Restore
<1> HIDE DEF C, P, R, r
<1>8. \/ OfWorker!Claim(j) \/ OfWorker!Send(j) \/ OfWorker!Stop(j) \/ OfWorker!Return(j)
      \/ OfWorker!Lose(j) \/ OfWorker!Restore(j) \/ UNCHANGED <<C, P, R>>
  <2>1. CASE q.settled = p.settled /\ q.payout = p.payout /\ Back(q) = Back(p)
    BY <1>4, <1>a, <2>1
  <2>2. CASE /\ ~p.settled /\ q.settled = TRUE /\ p.payout = "NONE"
             /\ q.payout \in {"NONE", "OPEN"} /\ Back(q) = Back(p)
    BY <1>2, <1>3, <1>4, <1>7, <1>a, <2>2
  <2>3. CASE /\ p.payout = "OPEN" /\ q.payout \in {"PAID", "CANCELLED"}
             /\ q.settled = p.settled /\ Back(q) = Back(p)
    BY <1>2, <1>3, <1>4, <1>7, <1>a, <2>3
  <2>4. CASE /\ p.settled /\ p.payout \in {"NONE", "CANCELLED"}
             /\ q.settled = p.settled /\ q.payout = p.payout
    <3>1. UNCHANGED <<C, P>>
      BY <1>4, <2>4
    <3>2. CASE r = "BACK"
      BY <1>2, <1>3, <1>7, <2>4, <3>1, <3>2
    <3>3. CASE r = "LOSS"
      BY <1>2, <1>3, <1>7, <1>b, <2>4, <3>1, <3>3
    <3>4. CASE r = "NO"
      BY <1>2, <1>7, <3>1, <3>4
    <3> QED BY <1>6, <3>2, <3>3, <3>4
  <2> QED BY <2>1, <2>2, <2>3, <2>4 DEF Moves
<1> QED BY <1>5, <1>8 DEF OfWorker!Next

(* No payment row changes, and no loss is posted.                           *)
LEMMA SameImplements ==
    ASSUME Inv, UNCHANGED payment, SameLosses
    PROVE  [OfWorker!Next]_(OfWorker!vars)
<1>1. \A k \in Jobs : Returned(payment'[k], posted'[k]) = Returned(payment[k], posted[k])
  BY DEF SameLosses, Returned
<1>2. [k \in Jobs |-> Returned(payment[k], posted[k])]' = [k \in Jobs |-> Returned(payment[k], posted[k])]
  BY <1>1
<1> QED BY <1>2 DEF OfWorker!vars, Returned, Back

(* A refund by hand is posted: a loss is one where there is a payout.       *)
LEMMA ManualPostImplements ==
    ASSUME Inv, NEW j \in Jobs, ManualPost(j)
    PROVE  [OfWorker!Next]_(OfWorker!vars)
<1>1. TypeOK /\ JobInv(j) /\ payment[j] \in PaymentRow /\ payment' = payment /\ Share[j] \in Nat
  BY JobFacts DEF ManualPost
<1>2. CASE SameLosses
  BY <1>1, <1>2, SameImplements
<1>3. CASE ~SameLosses
  <2>1. at[j] = "lossPost" /\ Post(j, "manual-loss", 0)
    <3>1. ~ UNCHANGED ledger
      BY <1>3 DEF SameLosses, ledger
    <3>2. PICK key \in {"manual-refund", "manual-loss"}, n \in Int :
             /\ Post(j, key, n)
             /\ key = "manual-loss" => at[j] = "lossPost" /\ n = 0
      BY <1>1, <3>1 DEF ManualPost, PostManual
    <3>3. key \in Keys \ {"manual-loss"} => SameLosses
      BY <1>1, <3>2, PostIsNoLoss
    <3> QED BY <1>3, <3>2, <3>3 DEF Keys
  <2>2. /\ payment[j].settled /\ payment[j].payout # "NONE"
        /\ posted'[j] = posted[j] \cup {"manual-loss"}
        /\ \A k \in Jobs \ {j} : posted'[k] = posted[k]
    <3>1. "manual-loss" \in Keys /\ 0 \in Int
      BY DEF Keys
    <3> QED BY <1>1, <2>1, <3>1, PostFacts DEF JobInv, RefundInv
  <2> DEFINE C == [k \in Jobs |-> payment[k].settled]
             P == [k \in Jobs |-> payment[k].payout]
             R == [k \in Jobs |-> Returned(payment[k], posted[k])]
             r == Returned(payment[j], posted'[j])
  <2>3. UNCHANGED <<C, P>> /\ C[j] /\ P[j] # "NONE"
    BY <1>1, <2>2
  <2>4. R' = [R EXCEPT ![j] = r]
    <3> DEFINE T == {"NO", "BACK", "LOSS"}
    <3>1. ASSUME NEW x, NEW s PROVE Returned(x, s) \in T
      BY DEF Returned
    <3>2. /\ R \in [Jobs -> T] /\ R' \in [Jobs -> T] /\ R'[j] = r
          /\ r \in T /\ \A k \in Jobs \ {j} : R'[k] = R[k]
      BY <1>1, <2>2, <3>1
    <3> HIDE DEF R, r, T
    <3> QED BY <3>2, ChangedAt
  <2>5. r = "LOSS" \/ r = R[j]
    BY <2>2 DEF Returned
  <2>6. [R EXCEPT ![j] = R[j]] = R
    OBVIOUS
  <2>7. OfWorker!Lose(j) <=> C[j] /\ P[j] # "NONE" /\ R' = [R EXCEPT ![j] = "LOSS"] /\ UNCHANGED <<C, P>>
    BY DEF Returned, Back, OfWorker!Lose
  <2>8. OfWorker!vars = <<C, P, R>> /\ OfWorker!vars' = <<C, P, R>>'
    BY DEF OfWorker!vars, Returned, Back
  <2> HIDE DEF C, P, R, r
  <2>9. OfWorker!Lose(j) \/ UNCHANGED <<C, P, R>>
    BY <2>3, <2>4, <2>5, <2>6, <2>7
  <2> QED BY <2>8, <2>9 DEF OfWorker!Next
<1> QED BY <1>2, <1>3

(* A row is written with other fields than the claim, the payout and the    *)
(* refund: captures, postings and the last write of a refund.               *)
LEMMA StatusWriteImplements ==
    ASSUME Inv, NEW j \in Jobs,
           Capture(j) \/ PostPayout(j) \/ RefundWrite(j) \/ ManualWrite(j) \/ RefundCash(j)
    PROVE  [OfWorker!Next]_(OfWorker!vars)
<1>1. TypeOK /\ payment[j] \in PaymentRow /\ Share[j] \in Nat /\ Cut[j] \in Nat
  BY JobFacts
<1>0. SameLosses
  <2>1. CASE RefundWrite(j) \/ ManualWrite(j)
    BY <2>1 DEF RefundWrite, ManualWrite, ledger, SameLosses
  <2>2. CASE Capture(j)
    BY <1>1, <2>2, PostIsNoLoss DEF Capture, Keys
  <2>3. CASE PostPayout(j)
    <3>1. 0 - payment[j].amount \in Int
      BY <1>1 DEF PaymentRow
    <3> QED BY <1>1, <2>3, <3>1, PostIsNoLoss DEF PostPayout, Keys
  <2>4. CASE RefundCash(j)
    BY <1>1, <2>4, PostIsNoLoss DEF RefundCash, Keys, ledger, SameLosses
  <2> QED BY <2>1, <2>2, <2>3, <2>4
<1>2. ASSUME NEW q \in PaymentRow, payment' = [payment EXCEPT ![j] = q],
             q.settled = payment[j].settled, q.payout = payment[j].payout,
             q.reversed = payment[j].reversed, q.refund = payment[j].refund
      PROVE  [OfWorker!Next]_(OfWorker!vars)
  BY <1>0, <1>1, <1>2, MovesImplement DEF Moves, Back
<1>3. ASSUME Capture(j) PROVE [OfWorker!Next]_(OfWorker!vars)
  <2>1. PICK m \in {"ONLINE", "PLATFORM"} :
           payment' = [payment EXCEPT ![j] = [payment[j] EXCEPT !.status = "COMPLETED", !.method = m]]
    BY <1>3 DEF Capture
  <2>2. [payment[j] EXCEPT !.status = "COMPLETED", !.method = m] \in PaymentRow
    BY <1>1 DEF PaymentRow
  <2> QED BY <1>1, <1>2, <2>1, <2>2 DEF PaymentRow
<1>4. ASSUME PostPayout(j) PROVE [OfWorker!Next]_(OfWorker!vars)
  <2>1. payment' = [payment EXCEPT ![j] = [payment[j] EXCEPT !.posting = FALSE]]
    BY <1>4 DEF PostPayout
  <2>2. [payment[j] EXCEPT !.posting = FALSE] \in PaymentRow
    BY <1>1 DEF PaymentRow
  <2> QED BY <1>1, <1>2, <2>1, <2>2 DEF PaymentRow
<1>5. ASSUME RefundWrite(j) \/ ManualWrite(j) \/ RefundCash(j) PROVE [OfWorker!Next]_(OfWorker!vars)
  <2>1. payment' = [payment EXCEPT ![j] = [payment[j] EXCEPT !.status = "REFUNDED"]]
    BY <1>5 DEF RefundWrite, ManualWrite, RefundCash
  <2>2. [payment[j] EXCEPT !.status = "REFUNDED"] \in PaymentRow
    BY <1>1 DEF PaymentRow
  <2> QED BY <1>1, <1>2, <2>1, <2>2 DEF PaymentRow
<1> QED BY <1>3, <1>4, <1>5

(* The earnings are claimed by a settlement, and a payout sent or cancelled.*)
LEMMA SettleImplements ==
    ASSUME Inv, NEW j \in Jobs, SettleCash(j) \/ Settle(j) \/ PayoutSent(j) \/ PayoutCancelled(j)
    PROVE  [OfWorker!Next]_(OfWorker!vars)
<1> DEFINE p == payment[j]
<1>1. /\ TypeOK /\ p \in PaymentRow /\ JobInv(j)
      /\ Share[j] \in Nat /\ Cut[j] \in Nat /\ account \in Account
  BY JobFacts
<1>0. SameLosses
  <2>1. CASE SettleCash(j)
    <3>1. 0 - Cut[j] \in Int
      BY <1>1
    <3>2. Cut[j] > 0 => Post(j, "cash", 0 - Cut[j])
      BY <2>1 DEF SettleCash
    <3>3. ~(Cut[j] > 0) => UNCHANGED ledger
      BY <2>1 DEF SettleCash
    <3> QED BY <1>1, <3>1, <3>2, <3>3, PostIsNoLoss DEF Keys, ledger, SameLosses
  <2>2. CASE Settle(j) \/ PayoutSent(j) \/ PayoutCancelled(j)
    BY <2>2 DEF Settle, PayoutSent, PayoutCancelled, ledger, SameLosses
  <2> QED BY <2>1, <2>2
<1>2. CASE SettleCash(j)
  <2> DEFINE q == [p EXCEPT !.status = "COMPLETED", !.method = "CASH", !.settled = TRUE]
  <2>1. ~p.settled /\ p.payout = "NONE" /\ payment' = [payment EXCEPT ![j] = q]
    BY <1>1, <1>2 DEF SettleCash, JobInv, RefundInv, SettlementInv
  <2>2. /\ q \in PaymentRow /\ q.settled = TRUE /\ q.payout = p.payout
        /\ q.reversed = p.reversed /\ q.refund = p.refund
    BY <1>1 DEF PaymentRow
  <2> HIDE DEF q
  <2> QED BY <1>1, <2>1, <2>2, <1>0, MovesImplement DEF Moves, Back
<1>3. CASE Settle(j)
  <2> DEFINE recovered == Least(account.owed, Share[j])
             amount == (Share[j] - recovered) + account.credit
             q == [p EXCEPT !.settled = TRUE, !.recovered = recovered,
                            !.compensationPaid = account.credit, !.amount = amount,
                            !.payout = IF amount > 0 THEN "OPEN" ELSE "NONE"]
  <2>1. ~p.settled /\ p.payout = "NONE" /\ payment' = [payment EXCEPT ![j] = q]
    BY <1>1, <1>3 DEF Settle, JobInv, SettlementInv
  <2>2. recovered \in Nat /\ recovered <= Share[j] /\ account.credit \in Nat
    BY <1>1, LeastFacts DEF Account
  <2>3. amount \in Nat
    BY <1>1, <2>2
  <2> HIDE DEF recovered, amount
  <2>4. /\ q \in PaymentRow /\ q.settled = TRUE /\ q.payout \in {"NONE", "OPEN"}
        /\ q.reversed = p.reversed /\ q.refund = p.refund
    BY <1>1, <2>2, <2>3 DEF PaymentRow
  <2> HIDE DEF q
  <2> QED BY <1>1, <2>1, <2>4, <1>0, MovesImplement DEF Moves, Back
<1>4. CASE PayoutSent(j)
  <2> DEFINE q == [p EXCEPT !.payout = "PAID", !.posting = TRUE]
  <2>1. p.payout = "OPEN" /\ payment' = [payment EXCEPT ![j] = q]
    BY <1>4 DEF PayoutSent
  <2>2. /\ q \in PaymentRow /\ q.settled = p.settled /\ q.payout = "PAID"
        /\ q.reversed = p.reversed /\ q.refund = p.refund
    BY <1>1 DEF PaymentRow
  <2> HIDE DEF q
  <2> QED BY <1>1, <2>1, <2>2, <1>0, MovesImplement DEF Moves, Back
<1>5. CASE PayoutCancelled(j)
  <2> DEFINE q == [p EXCEPT !.payout = "CANCELLED"]
  <2>1. p.payout = "OPEN" /\ payment' = [payment EXCEPT ![j] = q]
    BY <1>5 DEF PayoutCancelled
  <2>2. /\ q \in PaymentRow /\ q.settled = p.settled /\ q.payout = "CANCELLED"
        /\ q.reversed = p.reversed /\ q.refund = p.refund
    BY <1>1 DEF PaymentRow
  <2> HIDE DEF q
  <2> QED BY <1>1, <2>1, <2>2, <1>0, MovesImplement DEF Moves, Back
<1> QED BY <1>2, <1>3, <1>4, <1>5

(* A refund claims the earnings or cancels the payout, by whichever way.    *)
LEMMA StopImplements ==
    ASSUME Inv, NEW j \in Jobs, RefundStop(j) \/ ManualStop(j)
    PROVE  [OfWorker!Next]_(OfWorker!vars)
<1> DEFINE p == payment[j]
           q == [p EXCEPT !.settled = TRUE, !.payout = IF p.payout = "OPEN" THEN "CANCELLED" ELSE p.payout]
<1>1. TypeOK /\ p \in PaymentRow /\ JobInv(j)
  BY JobFacts
<1>0. SameLosses
  BY DEF RefundStop, ManualStop, ledger, SameLosses
<1>2. CASE UNCHANGED payment
  BY <1>0, <1>2, SameImplements
<1>3. CASE payment' = [payment EXCEPT ![j] = Stopped(@)] /\ p.payout # "PAID"
  <2>1. payment' = [payment EXCEPT ![j] = q] /\ (~p.settled => p.payout = "NONE")
    BY <1>1, <1>3 DEF Stopped, JobInv, SettlementInv
  <2>2. /\ q \in PaymentRow /\ q.settled = TRUE
        /\ q.payout = IF p.payout = "OPEN" THEN "CANCELLED" ELSE p.payout
        /\ q.reversed = p.reversed /\ q.refund = p.refund
        /\ p.settled \in BOOLEAN /\ p.payout \in {"NONE", "OPEN", "PAID", "CANCELLED"}
    BY <1>1 DEF PaymentRow
  <2> HIDE DEF q
  <2>3. Moves(p, q)
    BY <1>3, <2>1, <2>2 DEF Moves, Back
  <2> QED BY <1>1, <2>1, <2>2, <2>3, <1>0, MovesImplement
<1>4. RefundStop(j) => payment' = [payment EXCEPT ![j] = Stopped(@)] /\ p.payout # "PAID"
  BY DEF RefundStop
<1>5. ManualStop(j) => \/ UNCHANGED payment
                       \/ payment' = [payment EXCEPT ![j] = Stopped(@)] /\ p.payout # "PAID"
  BY DEF ManualStop
<1> QED BY <1>2, <1>3, <1>4, <1>5

(* While the payout is stopped the client is refunded, or the settlement    *)
(* undone, or the refund fails.                                             *)
LEMMA RefundImplements ==
    ASSUME Inv, NEW j \in Jobs,
           RefundAsk(j) \/ RefundUndo(j) \/ ManualUndo(j) \/ RefundSucceeded(j) \/ RefundFailed(j)
    PROVE  [OfWorker!Next]_(OfWorker!vars)
<1> DEFINE p == payment[j]
<1>1. TypeOK /\ p \in PaymentRow /\ JobInv(j)
  BY JobFacts
<1>0. SameLosses
  BY DEF RefundAsk, RefundUndo, ManualUndo, RefundSucceeded, RefundFailed, ledger, SameLosses
<1>2. at[j] \in {"ask", "undo", "manualUndo"} \/ p.refund = "PENDING"
  BY DEF RefundAsk, RefundUndo, ManualUndo, RefundSucceeded, RefundFailed
<1>3. p.settled /\ p.payout \in {"NONE", "CANCELLED"}
  BY <1>1, <1>2 DEF JobInv, RefundInv, PayoutStopped
<1>4. ASSUME NEW q \in PaymentRow, payment' = [payment EXCEPT ![j] = q],
             q.settled = p.settled, q.payout = p.payout
      PROVE  [OfWorker!Next]_(OfWorker!vars)
  BY <1>0, <1>1, <1>3, <1>4, MovesImplement DEF Moves
<1>5. CASE UNCHANGED payment
  BY <1>0, <1>5, SameImplements
<1>6. ASSUME NEW s \in {"PENDING", "SUCCEEDED", "FAILED"}, payment' = [payment EXCEPT ![j].refund = s]
      PROVE  [OfWorker!Next]_(OfWorker!vars)
  <2>1. /\ payment' = [payment EXCEPT ![j] = [p EXCEPT !.refund = s]]
        /\ [p EXCEPT !.refund = s] \in PaymentRow
    BY <1>1, <1>6 DEF PaymentRow
  <2> QED BY <1>1, <1>4, <2>1 DEF PaymentRow
<1>7. ASSUME payment' = [payment EXCEPT ![j].reversed = TRUE] PROVE [OfWorker!Next]_(OfWorker!vars)
  <2>1. /\ payment' = [payment EXCEPT ![j] = [p EXCEPT !.reversed = TRUE]]
        /\ [p EXCEPT !.reversed = TRUE] \in PaymentRow
    BY <1>1, <1>7 DEF PaymentRow
  <2> QED BY <1>1, <1>4, <2>1 DEF PaymentRow
<1>8. ASSUME payment' = [payment EXCEPT ![j].status = "COMPLETED", ![j].refund = "FAILED"]
      PROVE  [OfWorker!Next]_(OfWorker!vars)
  <2>1. /\ payment' = [payment EXCEPT ![j] = [p EXCEPT !.status = "COMPLETED", !.refund = "FAILED"]]
        /\ [p EXCEPT !.status = "COMPLETED", !.refund = "FAILED"] \in PaymentRow
    BY <1>1, <1>8 DEF PaymentRow
  <2> QED BY <1>1, <1>4, <2>1 DEF PaymentRow
<1>9. CASE RefundAsk(j)
  BY <1>5, <1>6, <1>9 DEF RefundAsk
<1>10. CASE RefundUndo(j) \/ ManualUndo(j)
  BY <1>5, <1>7, <1>10 DEF RefundUndo, ManualUndo, UndoSettlement
<1>11. CASE RefundSucceeded(j)
  BY <1>6, <1>11 DEF RefundSucceeded
<1>12. CASE RefundFailed(j)
  BY <1>8, <1>12 DEF RefundFailed
<1> QED BY <1>9, <1>10, <1>11, <1>12

(* A crash forgets what was still to be posted, and no earnings.            *)
LEMMA CrashImplements ==
    ASSUME Inv, Crash
    PROVE  [OfWorker!Next]_(OfWorker!vars)
<1>0. SameLosses
  BY DEF Crash, ledger, SameLosses
<1>1. CASE UNCHANGED payment
  BY <1>0, <1>1, SameImplements
<1>2. ASSUME NEW j \in Jobs, payment' = [payment EXCEPT ![j].posting = FALSE]
      PROVE  [OfWorker!Next]_(OfWorker!vars)
  <2> DEFINE q == [payment[j] EXCEPT !.posting = FALSE]
  <2>1. TypeOK /\ payment[j] \in PaymentRow /\ payment' = [payment EXCEPT ![j] = q]
    BY <1>2, JobFacts
  <2>2. /\ q \in PaymentRow /\ q.settled = payment[j].settled /\ q.payout = payment[j].payout
        /\ q.reversed = payment[j].reversed /\ q.refund = payment[j].refund
    BY <2>1 DEF PaymentRow
  <2> HIDE DEF q
  <2> QED BY <1>0, <2>1, <2>2, MovesImplement DEF Moves, Back
<1> QED BY <1>1, <1>2 DEF Crash

(* Jobs, charges, payments of dues and crashes, all together.               *)
LEMMA StepImplements ==
    ASSUME Inv, [Next]_vars
    PROVE  [OfWorker!Next]_(OfWorker!vars)
<1>1. ASSUME NEW j \in Jobs, JobStep(j) PROVE [OfWorker!Next]_(OfWorker!vars)
  <2>1. PaidAfterCancel(j) \/ RefundPost(j) => UNCHANGED payment /\ SameLosses
    <3>1. TypeOK /\ 0 - payment[j].amount \in Int /\ 0 - Share[j] \in Int
      BY JobFacts DEF PaymentRow
    <3> QED BY <3>1, PostIsNoLoss DEF PaidAfterCancel, RefundPost, Keys
  <2> QED BY <1>1, <2>1, SameImplements, StatusWriteImplements, SettleImplements, StopImplements,
             RefundImplements, ManualPostImplements DEF JobStep
<1>2. ASSUME NEW n \in Charges, ChargeStep(n) PROVE UNCHANGED payment /\ SameLosses
  BY <1>2 DEF ChargeStep, Penalty, Compensation, Waive, PostOther, SameLosses
<1>3. ASSUME NEW d \in Rows, RowStep(d) PROVE UNCHANGED payment /\ SameLosses
  BY <1>3 DEF RowStep, CreateRow, MintInvoice, StoreInvoice, RecoverRow, PayDues,
     DuesInvoiceExpires, FinalizeDues, FailDues, PostOther, ledger, SameLosses
<1>4. CASE ReleaseHold \/ Quote \/ UNCHANGED vars
  BY <1>4, SameImplements DEF ReleaseHold, Quote, vars, ledger, SameLosses
<1> QED BY <1>1, <1>2, <1>3, <1>4, SameImplements, CrashImplements DEF Next

(* Dues, credit and the two books implement Earnings: whatever is netted,   *)
(* the earnings of a job are claimed once, a payout PAID or CANCELLED stays *)
(* as it is, a job is refunded by the provider, or its settlement undone,   *)
(* only while none is open or paid, and a refund by hand is posted as a     *)
(* loss only where there is a payout (settleWorkerEarnings,                 *)
(* stopWorkerPayout, undoWorkerSettlement, markRefundedManually).           *)
THEOREM ImplementsEarnings == Spec => FollowsEarnings
<1>1. Init => OfWorker!Init
  <2> SUFFICES ASSUME Init PROVE OfWorker!Init
    OBVIOUS
  <2>1. \A j \in Jobs : payment[j] = Unpaid
    BY DEF Init
  <2>2. \A j \in Jobs : /\ payment[j].settled = FALSE /\ payment[j].payout = "NONE"
                        /\ Returned(payment[j], posted[j]) = "NO"
    BY <2>1 DEF Init, Unpaid, Returned, Back
  <2> QED BY <2>2 DEF Returned, Back, OfWorker!Init
<1>2. Inv /\ [Next]_vars => [OfWorker!Next]_(OfWorker!vars)
  BY StepImplements
<1> QED BY <1>1, <1>2, InitInv, StepInv, PTL DEF Spec, FollowsEarnings, OfWorker!Spec
=============================================================================
