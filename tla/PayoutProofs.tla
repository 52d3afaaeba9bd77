---------------------------- MODULE PayoutProofs ----------------------------
(***************************************************************************)
(* Theorems about Payout for every value of its constants: its types, that *)
(* a payout is sent once, that a refund against the worker's earnings      *)
(* finds it unpaid and any other is recorded as a loss, that what is       *)
(* recorded as PAID has arrived, and that Payout implements Earnings.      *)
(* PayoutInv is the inductive invariant.                                   *)
(***************************************************************************)
EXTENDS Payout, TLAPS

(* What a report may do to a row: nothing, name its disbursement, or end a   *)
(* payout that has not ended as PAID or CANCELLED before.                    *)
LEMMA ApplyEffect ==
    ASSUME TypeOK, NEW p \in Payouts, NEW status \in Answers, NEW id \in Generations,
           NEW seen \in Ids, ApplyXenditPayoutStatus(p, status, id, seen)
    PROVE  /\ payout' \in [Payouts -> PayoutRow]
           /\ \A q \in Payouts :
                 /\ payout'[q].attempted = payout[q].attempted
                 /\ payout'[q].retryGeneration = payout[q].retryGeneration
                 /\ \/ payout'[q].status = payout[q].status
                    \/ /\ payout[q].status \in {"PENDING", "PROCESSING", "FAILED"}
                       /\ payout'[q].status \in {"PAID", "FAILED", "CANCELLED"}
                       /\ payout'[q].status = "PAID" => q = p /\ status = "SUCCEEDED"
<1>1. CASE PayoutIs(p, AppliesTo(status))
  <2>1. payout' = [payout EXCEPT ![p].status = StatusAfter(status), ![p].disbursement = id]
    BY <1>1 DEF ApplyXenditPayoutStatus
  <2>2. /\ payout[p].status \in {"PENDING", "PROCESSING", "FAILED"}
        /\ StatusAfter(status) \in {"PAID", "FAILED", "CANCELLED"}
        /\ StatusAfter(status) = "PAID" => status = "SUCCEEDED"
    BY <1>1 DEF PayoutIs, AppliesTo, StatusAfter, SUCCESS_STATUSES, FAILURE_STATUSES
  <2>3. payout[p] \in PayoutRow
    BY DEF TypeOK
  <2>4. payout'[p] = [payout[p] EXCEPT !.status = StatusAfter(status), !.disbursement = id]
    BY <2>1 DEF TypeOK
  <2>5. payout'[p] \in PayoutRow
    BY <2>2, <2>3, <2>4 DEF PayoutRow, Ids, PayoutStatuses
  <2>6. \A q \in Payouts \ {p} : payout'[q] = payout[q]
    BY <2>1 DEF TypeOK
  <2>7. payout' \in [Payouts -> PayoutRow]
    BY <2>1, <2>3, <2>5, <2>6 DEF TypeOK
  <2> QED BY <2>2, <2>3, <2>4, <2>6, <2>7 DEF PayoutRow
<1>2. CASE ~PayoutIs(p, AppliesTo(status))
  <2>1. payout' = payout \/ payout' = [payout EXCEPT ![p].disbursement = id]
    BY <1>2 DEF ApplyXenditPayoutStatus
  <2>2. CASE payout' = payout
    BY <2>2 DEF TypeOK
  <2>3. CASE payout' = [payout EXCEPT ![p].disbursement = id]
    <3>1. payout[p] \in PayoutRow /\ payout'[p] = [payout[p] EXCEPT !.disbursement = id]
      BY <2>3 DEF TypeOK
    <3>2. payout'[p] \in PayoutRow
      BY <3>1 DEF PayoutRow, Ids
    <3>3. \A q \in Payouts \ {p} : payout'[q] = payout[q]
      BY <2>3 DEF TypeOK
    <3>4. payout' \in [Payouts -> PayoutRow]
      BY <2>3, <3>2, <3>3 DEF TypeOK
    <3> QED BY <3>1, <3>3, <3>4 DEF PayoutRow
  <2> QED BY <2>1, <2>2, <2>3
<1> QED BY <1>1, <1>2

(* A row is given a status, and keeps the rest.                              *)
LEMMA StatusWrite ==
    ASSUME TypeOK, NEW p \in Payouts, NEW status \in PayoutStatuses, SetPayoutStatus(p, status)
    PROVE  /\ payout' \in [Payouts -> PayoutRow]
           /\ payout'[p] = [payout[p] EXCEPT !.status = status]
           /\ \A q \in Payouts : /\ q # p => payout'[q] = payout[q]
                                /\ payout'[q].attempted = payout[q].attempted
<1>1. payout[p] \in PayoutRow /\ payout'[p] = [payout[p] EXCEPT !.status = status]
  BY DEF TypeOK, SetPayoutStatus
<1>2. payout'[p] \in PayoutRow
  BY <1>1 DEF PayoutRow
<1>3. \A q \in Payouts \ {p} : payout'[q] = payout[q]
  BY DEF TypeOK, SetPayoutStatus
<1>4. payout' \in [Payouts -> PayoutRow]
  BY <1>2, <1>3 DEF TypeOK, SetPayoutStatus
<1> QED BY <1>1, <1>3, <1>4 DEF PayoutRow

(* A call begins at a step, goes on to another, or returns.                  *)
LEMMA CallBegins ==
    ASSUME TypeOK, NEW c \in Calls, NEW p \in Payouts, NEW at \in CallSteps, Begin(c, p, at)
    PROVE  /\ call' \in [Calls -> CallRecord]
           /\ call'[c] = [Idle(p) EXCEPT !.at = at]
           /\ \A d \in Calls \ {c} : call'[d] = call[d]
BY DEF TypeOK, Begin, Idle, CallRecord, Ids, Answers

\* A call goes on with what it knows.
LEMMA CallContinues ==
    ASSUME TypeOK, NEW c \in Calls, NEW at \in CallSteps, Continue(c, at)
    PROVE  /\ call' \in [Calls -> CallRecord]
           /\ call'[c] = [call[c] EXCEPT !.at = at]
           /\ \A d \in Calls \ {c} : call'[d] = call[d]
BY DEF TypeOK, Continue, CallRecord

\* A call that returns forgets it.
LEMMA CallReturns ==
    ASSUME TypeOK, NEW c \in Calls, Return(c)
    PROVE  /\ call' \in [Calls -> CallRecord]
           /\ call'[c] = Idle(call[c].payout)
           /\ \A d \in Calls \ {c} : call'[d] = call[d]
BY DEF TypeOK, Return, Idle, CallRecord, CallSteps, Ids, Answers

\* A call goes on having forgotten it.
LEMMA CallTurns ==
    ASSUME TypeOK, NEW c \in Calls, NEW at \in CallSteps, Turn(c, at)
    PROVE  /\ call' \in [Calls -> CallRecord]
           /\ call'[c].at = at /\ call'[c].payout = call[c].payout
           /\ call'[c].disbursement = NoId /\ call'[c].status = "none"
           /\ \A d \in Calls \ {c} : call'[d] = call[d]
BY DEF TypeOK, Turn, Idle, CallRecord, Ids, Answers

(* The queue's job and its run.                                              *)
LEMMA JobScheduled ==
    ASSUME TypeOK, NEW p \in Payouts, SchedulePayout(p)
    PROVE  job' \in [Payouts -> JobRecord]
BY ConstantsAssumption DEF TypeOK, SchedulePayout, JobRecord

\* A run of the sender goes on with what it knows.
LEMMA SenderMoves ==
    ASSUME TypeOK, NEW p \in Payouts, NEW at \in SendSteps, SenderTo(p, at)
    PROVE  /\ sender' \in [Payouts -> SenderRecord]
           /\ sender'[p] = [sender[p] EXCEPT !.at = at]
           /\ \A q \in Payouts \ {p} : sender'[q] = sender[q]
BY DEF TypeOK, SenderTo, SenderRecord

\* A run of the sender goes on having forgotten it.
LEMMA SenderForgets ==
    ASSUME TypeOK, NEW p \in Payouts, NEW at \in SendSteps, SenderTurns(p, at)
    PROVE  /\ sender' \in [Payouts -> SenderRecord]
           /\ sender'[p] = [NoSender EXCEPT !.at = at]
           /\ \A q \in Payouts \ {p} : sender'[q] = sender[q]
<1>1. NoSender \in SenderRecord
  BY ConstantsAssumption DEF NoSender, SenderRecord, SendSteps, Generations, Ids, Answers
<1>2. [NoSender EXCEPT !.at = at] \in SenderRecord
  BY <1>1 DEF SenderRecord
<1> QED BY <1>2 DEF TypeOK, SenderTurns

\* A run that ends leaves a typed job and no run.
LEMMA JobCompletes ==
    ASSUME TypeOK, NEW p \in Payouts, Complete(p)
    PROVE  /\ sender' \in [Payouts -> SenderRecord]
           /\ job' \in [Payouts -> JobRecord]
           /\ sender'[p] = NoSender
           /\ \A q \in Payouts \ {p} : sender'[q] = sender[q]
<1>1. NoSender \in SenderRecord
  BY ConstantsAssumption DEF NoSender, SenderRecord, SendSteps, Generations, Ids, Answers
<1>2. NoJob \in JobRecord
  BY ConstantsAssumption DEF NoJob, JobRecord
<1> QED BY <1>1, <1>2 DEF TypeOK, Complete

\* A run has learnt of a disbursement.
LEMMA SenderFindsTyped ==
    ASSUME TypeOK, NEW p \in Payouts, NEW id \in Ids, NEW status \in Answers, SenderFinds(p, id, status)
    PROVE  /\ sender' \in [Payouts -> SenderRecord]
           /\ sender'[p].at = "record" /\ sender'[p].status = status
           /\ sender'[p].disbursement = id
           /\ \A q \in Payouts \ {p} : sender'[q] = sender[q]
<1>1. /\ sender[p] \in SenderRecord
      /\ sender'[p] = [sender[p] EXCEPT !.at = "record", !.disbursement = id, !.status = status]
  BY DEF TypeOK, SenderFinds
<1>2. /\ sender'[p] \in SenderRecord
      /\ sender'[p].at = "record" /\ sender'[p].status = status /\ sender'[p].disbursement = id
  BY <1>1 DEF SenderRecord, SendSteps
<1>3. \A q \in Payouts \ {p} : sender'[q] = sender[q]
  BY DEF TypeOK, SenderFinds
<1>4. sender' \in [Payouts -> SenderRecord]
  BY <1>2, <1>3 DEF TypeOK, SenderFinds
<1> QED BY <1>2, <1>3, <1>4

\* A call has learnt of a disbursement.
LEMMA CallFindsTyped ==
    ASSUME TypeOK, NEW c \in Calls, NEW at \in CallSteps, NEW id \in Ids, NEW status \in Answers,
           CallFinds(c, at, id, status)
    PROVE  /\ call' \in [Calls -> CallRecord]
           /\ call'[c] = [call[c] EXCEPT !.at = at, !.disbursement = id, !.status = status]
           /\ \A d \in Calls \ {c} : call'[d] = call[d]
<1>1. /\ call[c] \in CallRecord
      /\ call'[c] = [call[c] EXCEPT !.at = at, !.disbursement = id, !.status = status]
  BY DEF TypeOK, CallFinds
<1>2. call'[c] \in CallRecord
  BY <1>1 DEF CallRecord
<1>3. \A d \in Calls \ {c} : call'[d] = call[d]
  BY DEF TypeOK, CallFinds
<1>4. call' \in [Calls -> CallRecord]
  BY <1>2, <1>3 DEF TypeOK, CallFinds
<1> QED BY <1>1, <1>3, <1>4

-----------------------------------------------------------------------------
(* What most steps leave as it is.                                          *)

\* A row that has ended stays so, and one that may not be made is not.  It
\* becomes PAID only when the money has arrived.
RowsKept ==
    /\ payout' \in [Payouts -> PayoutRow]
    /\ \A p \in Payouts :
          /\ payout[p].attempted => payout'[p].attempted
          /\ payout[p].status \in {"PAID", "CANCELLED"} => payout'[p].status = payout[p].status
          /\ payout'[p].status = "NONE" => payout[p].status = "NONE"
          /\ payout[p].status = "NONE" =>
                payout'[p].status = "NONE" \/ (~payment[p].settled /\ payment'[p].settled)
          /\ payout'[p].status = "PAID" => payout[p].status = "PAID" \/ Arrived(p)

\* No transfer is made, and one that arrived did.
DisbursementsKept ==
    /\ disbursement' \in [Payouts -> [Generations -> Answers]]
    /\ \A p \in Payouts, g \in Generations :
          /\ disbursement[p][g] = "none" => disbursement'[p][g] = "none"
          /\ disbursement'[p][g] \in LIVE_PAYOUT_STATUSES => disbursement[p][g] \in LIVE_PAYOUT_STATUSES
          /\ disbursement[p][g] \in {"SUCCEEDED", "REVERSED"} =>
                disbursement'[p][g] \in {"SUCCEEDED", "REVERSED"}

\* No run comes nearer to asking for a transfer.
AskersKept ==
    \A p \in Payouts : sender'[p].at \in {"claim", "lookup", "create"} => sender'[p] = sender[p]

\* No refund begins, and none goes on to its end.
RefundersKept ==
    \A c \in Calls : call'[c].at \in RefundSteps =>
        /\ call'[c].payout = call[c].payout
        /\ call[c].at \in RefundSteps
        /\ call'[c].at = "refund" => call[c].at = "refund"
        /\ call'[c].at \in StopSteps => call[c].at \in StopSteps

\* Nothing is heard to have arrived that has not.
ArrivedNext(p) == \E g \in Generations : disbursement'[p][g] \in {"SUCCEEDED", "REVERSED"}
SendersHeard ==
    /\ sender' \in [Payouts -> SenderRecord]
    /\ \A p \in Payouts :
          sender'[p].at \in {"record", "apply"} => sender'[p].disbursement \in Generations
    /\ \A p \in Payouts :
          sender'[p].status = "SUCCEEDED" \/ sender'[p].at = "post" => Arrived(p) \/ ArrivedNext(p)
CallsHeard ==
    /\ call' \in [Calls -> CallRecord]
    /\ \A c \in Calls : call'[c].at \in {"reconcile", "remote", "stopApply"} =>
                             call'[c].disbursement \in Generations
    /\ \A c \in Calls :
          call'[c].status = "SUCCEEDED" \/ call'[c].at \in {"post", "stopPost"} =>
              Arrived(call'[c].payout) \/ ArrivedNext(call'[c].payout)
PostedHeard ==
    /\ posted' \in [Payouts -> BOOLEAN]
    /\ \A p \in Payouts : posted'[p] => posted[p] \/ Arrived(p)

\* What has arrived stays so where transfers are kept.
LEMMA ArrivedStays ==
    ASSUME DisbursementsKept, NEW p \in Payouts, Arrived(p)
    PROVE  ArrivedNext(p)
BY DEF DisbursementsKept, Arrived, ArrivedNext

(* Steps that keep rows, transfers and runs so keep the one transfer.       *)
LEMMA TransferKept ==
    ASSUME Inv, RowsKept, DisbursementsKept, AskersKept
    PROVE  OneTransfer' /\ NoneBeforeAttempt' /\ NoneWhenAsked'
<1>1. \A p \in Payouts : LiveDisbursements(p)' \subseteq LiveDisbursements(p)
  BY DEF DisbursementsKept, LiveDisbursements
<1>2. OneTransfer'
  <2>1. SUFFICES ASSUME NEW p \in Payouts, NEW g \in Generations, NEW h \in Generations,
                        g \in LiveDisbursements(p)', h \in LiveDisbursements(p)'
                 PROVE  g = h
    BY DEF OneTransfer
  <2> QED BY <1>1, <2>1 DEF Inv, PayoutInv, OneTransfer
<1>3. NoneBeforeAttempt'
  BY DEF Inv, PayoutInv, NoneBeforeAttempt, RowsKept, DisbursementsKept, AskersKept, TypeOK, PayoutRow
<1>4. NoneWhenAsked'
  BY <1>1 DEF Inv, PayoutInv, NoneWhenAsked, RowsKept, AskersKept
<1> QED BY <1>2, <1>3, <1>4

(* Steps that keep rows, payments and refunds so keep refunds safe.         *)
LEMMA RefundKept ==
    ASSUME Inv, RowsKept, RefundersKept, call' \in [Calls -> CallRecord],
           \A p \in Payouts : /\ payment[p].settled => payment'[p].settled
                              /\ payment'[p].refunded \in {"NO", payment[p].refunded}
    PROVE  RefundedIsCancelled' /\ MadeWhenSettled' /\ RefundGoesOn'
<1>3. MadeWhenSettled'
  BY DEF Inv, PayoutInv, MadeWhenSettled, PayoutIs, RowsKept
<1>1. RefundedIsCancelled'
  BY DEF Inv, PayoutInv, RefundedIsCancelled, PayoutIs, RowsKept
<1>2. RefundGoesOn'
  <2> SUFFICES ASSUME NEW c \in Calls
               PROVE  LET p == call'[c].payout IN
                      /\ call'[c].at \in RefundSteps => payment'[p].settled
                      /\ call'[c].at = "refund" => payout'[p].status \in {"NONE", "CANCELLED"}
                      /\ call'[c].at \in StopSteps => payout'[p].status # "NONE"
    BY DEF RefundGoesOn, PayoutIs
  <2>1. call'[c].payout \in Payouts
    BY DEF CallRecord
  <2>2. CASE call'[c].at \in RefundSteps
    BY <2>1, <2>2 DEF Inv, PayoutInv, RefundGoesOn, PayoutIs, RowsKept, RefundersKept, RefundSteps
  <2> QED BY <2>2 DEF RefundSteps, StopSteps
<1> QED BY <1>1, <1>2, <1>3

(* Steps that hear only what is so keep what is PAID true.                  *)
LEMMA PaidKept ==
    ASSUME Inv, RowsKept, SendersHeard, CallsHeard, PostedHeard,
           \A p \in Payouts : Arrived(p) => ArrivedNext(p)
    PROVE  PaidHasArrived' /\ HeardIsTrue'
<1>1. PaidHasArrived'
  BY DEF Inv, PayoutInv, PaidHasArrived, PayoutIs, RowsKept, PostedHeard, Arrived, ArrivedNext
<1>2. HeardIsTrue'
  <2>1. \A c \in Calls : call'[c].payout \in Payouts
    BY DEF CallsHeard, CallRecord
  <2>2. \A p \in Payouts :
          sender'[p].status = "SUCCEEDED" \/ sender'[p].at = "post" => ArrivedNext(p)
    BY DEF SendersHeard
  <2>3. \A c \in Calls :
          call'[c].status = "SUCCEEDED" \/ call'[c].at \in {"post", "stopPost"} => ArrivedNext(call'[c].payout)
    BY <2>1 DEF CallsHeard
  <2>4. /\ \A p \in Payouts :
              sender'[p].at \in {"record", "apply"} => sender'[p].disbursement \in Generations
        /\ \A c \in Calls :
              call'[c].at \in {"reconcile", "remote", "stopApply"} => call'[c].disbursement \in Generations
    BY DEF SendersHeard, CallsHeard
  <2> QED BY <2>2, <2>3, <2>4 DEF HeardIsTrue, Arrived, ArrivedNext
<1> QED BY <1>1, <1>2

\* A step that keeps everything.
Quiet ==
    /\ payment' \in [Payouts -> PaymentRow]
    /\ \A p \in Payouts : /\ payment[p].settled => payment'[p].settled
                          /\ payment'[p].refunded \in {"NO", payment[p].refunded}
    /\ job' \in [Payouts -> JobRecord]
    /\ crashes' \in 0 .. MaxCrashes
    /\ RowsKept /\ DisbursementsKept /\ AskersKept /\ RefundersKept
    /\ SendersHeard /\ CallsHeard /\ PostedHeard

\* A step that keeps everything keeps the invariant.
LEMMA QuietKeepsInv ==
    ASSUME Inv, Quiet
    PROVE  Inv'
<1>1. TypeOK'
  BY DEF Quiet, TypeOK, RowsKept, DisbursementsKept, SendersHeard, CallsHeard, PostedHeard
<1>2. OneTransfer' /\ NoneBeforeAttempt' /\ NoneWhenAsked'
  BY TransferKept DEF Quiet
<1>3. RefundedIsCancelled' /\ MadeWhenSettled' /\ RefundGoesOn'
  BY RefundKept DEF Quiet, CallsHeard
<1>4. PaidHasArrived' /\ HeardIsTrue'
  BY PaidKept, ArrivedStays DEF Quiet
<1> QED BY <1>1, <1>2, <1>3, <1>4 DEF Inv, PayoutInv

-----------------------------------------------------------------------------
(* Writes that keep it.                                                     *)

\* Rows left alone are kept.
LEMMA SameRows ==
    ASSUME Inv, UNCHANGED payout
    PROVE  RowsKept
BY DEF Inv, TypeOK, RowsKept

\* A status other than PAID, written to a row that has not ended, keeps rows.
LEMMA StatusKeepsRows ==
    ASSUME Inv, NEW p \in Payouts, NEW status \in PayoutStatuses, SetPayoutStatus(p, status),
           status \notin {"NONE", "PAID"}, payout[p].status \notin {"PAID", "CANCELLED"},
           payout[p].status = "NONE" => ~payment[p].settled /\ payment'[p].settled
    PROVE  RowsKept
<1>1. /\ payout' \in [Payouts -> PayoutRow]
      /\ payout'[p] = [payout[p] EXCEPT !.status = status]
      /\ \A q \in Payouts : /\ q # p => payout'[q] = payout[q]
                            /\ payout'[q].attempted = payout[q].attempted
  BY StatusWrite DEF Inv
<1>2. payout'[p].status = status
  BY <1>1 DEF Inv, TypeOK, PayoutRow
<1> QED BY <1>1, <1>2 DEF RowsKept

\* A true report keeps rows.
LEMMA ApplyKeepsRows ==
    ASSUME Inv, NEW p \in Payouts, NEW status \in Answers, NEW id \in Generations, NEW seen \in Ids,
           ApplyXenditPayoutStatus(p, status, id, seen), status = "SUCCEEDED" => Arrived(p)
    PROVE  RowsKept
<1>1. /\ payout' \in [Payouts -> PayoutRow]
      /\ \A q \in Payouts :
            /\ payout'[q].attempted = payout[q].attempted
            /\ payout'[q].retryGeneration = payout[q].retryGeneration
            /\ \/ payout'[q].status = payout[q].status
               \/ /\ payout[q].status \in {"PENDING", "PROCESSING", "FAILED"}
                  /\ payout'[q].status \in {"PAID", "FAILED", "CANCELLED"}
                  /\ payout'[q].status = "PAID" => q = p /\ status = "SUCCEEDED"
  BY ApplyEffect DEF Inv
<1> QED BY <1>1 DEF RowsKept

\* Disbursements left alone are kept.
LEMMA SameDisbursements ==
    ASSUME Inv, UNCHANGED disbursement
    PROVE  DisbursementsKept
BY DEF Inv, TypeOK, DisbursementsKept

\* Runs left alone ask for nothing and hear nothing new.
LEMMA SameSenders ==
    ASSUME Inv, UNCHANGED sender
    PROVE  AskersKept /\ SendersHeard
BY DEF Inv, PayoutInv, TypeOK, AskersKept, SendersHeard, HeardIsTrue

\* Calls left alone refund nothing and hear nothing new.
LEMMA SameCalls ==
    ASSUME Inv, UNCHANGED call
    PROVE  RefundersKept /\ CallsHeard
BY DEF Inv, PayoutInv, TypeOK, RefundersKept, CallsHeard, HeardIsTrue

\* A run that goes on past asking asks for nothing.
LEMMA SenderGoesOn ==
    ASSUME Inv, NEW p \in Payouts, NEW at \in SendSteps \ {"claim", "lookup", "create"},
           SenderTo(p, at), at = "post" => Arrived(p),
           at \in {"record", "apply"} => sender[p].disbursement \in Generations
    PROVE  AskersKept /\ SendersHeard
<1>1. /\ sender' \in [Payouts -> SenderRecord]
      /\ sender'[p] = [sender[p] EXCEPT !.at = at]
      /\ \A q \in Payouts \ {p} : sender'[q] = sender[q]
  BY SenderMoves DEF Inv
<1>2. /\ sender'[p].at = at /\ sender'[p].status = sender[p].status
      /\ sender'[p].disbursement = sender[p].disbursement
  BY <1>1 DEF Inv, TypeOK, SenderRecord
<1>3. \A q \in Payouts :
          /\ sender[q].status = "SUCCEEDED" \/ sender[q].at = "post" => Arrived(q)
          /\ sender[q].at \in {"record", "apply"} => sender[q].disbursement \in Generations
  BY DEF Inv, PayoutInv, HeardIsTrue
<1>4. AskersKept
  BY <1>1, <1>2 DEF AskersKept
<1>5. SendersHeard
  BY <1>1, <1>2, <1>3 DEF SendersHeard
<1> QED BY <1>4, <1>5

\* Likewise with nothing in hand.
LEMMA SenderTurnsKept ==
    ASSUME Inv, NEW p \in Payouts, NEW at \in {"post", "throw"}, SenderTurns(p, at),
           at = "post" => Arrived(p)
    PROVE  AskersKept /\ SendersHeard
<1>1. /\ sender' \in [Payouts -> SenderRecord]
      /\ sender'[p] = [NoSender EXCEPT !.at = at]
      /\ \A q \in Payouts \ {p} : sender'[q] = sender[q]
  BY SenderForgets DEF Inv, SendSteps
<1>2. sender'[p].at = at /\ sender'[p].status = "none"
  BY <1>1 DEF NoSender
<1>3. \A q \in Payouts :
          /\ sender[q].status = "SUCCEEDED" \/ sender[q].at = "post" => Arrived(q)
          /\ sender[q].at \in {"record", "apply"} => sender[q].disbursement \in Generations
  BY DEF Inv, PayoutInv, HeardIsTrue
<1>4. AskersKept
  BY <1>1, <1>2 DEF AskersKept
<1>5. SendersHeard
  BY <1>1, <1>2, <1>3 DEF SendersHeard
<1> QED BY <1>4, <1>5

\* A run that ends asks for nothing.
LEMMA SenderEnds ==
    ASSUME Inv, NEW p \in Payouts, sender' = [sender EXCEPT ![p] = NoSender]
    PROVE  AskersKept /\ SendersHeard
<1>1. NoSender \in SenderRecord
  BY ConstantsAssumption DEF NoSender, SenderRecord, SendSteps, Generations, Ids, Answers
<1>2. /\ sender' \in [Payouts -> SenderRecord]
      /\ sender'[p] = NoSender
      /\ \A q \in Payouts \ {p} : sender'[q] = sender[q]
  BY <1>1 DEF Inv, TypeOK
<1>3. \A q \in Payouts :
          /\ sender[q].status = "SUCCEEDED" \/ sender[q].at = "post" => Arrived(q)
          /\ sender[q].at \in {"record", "apply"} => sender[q].disbursement \in Generations
  BY DEF Inv, PayoutInv, HeardIsTrue
<1>4. AskersKept
  BY <1>2 DEF AskersKept, NoSender
<1>5. SendersHeard
  BY <1>2, <1>3 DEF SendersHeard, NoSender
<1> QED BY <1>4, <1>5

\* Nor does one that completes its job.
LEMMA CompleteKept ==
    ASSUME Inv, NEW p \in Payouts, Complete(p)
    PROVE  AskersKept /\ SendersHeard /\ job' \in [Payouts -> JobRecord]
BY SenderEnds, JobCompletes DEF Complete, Inv

\* A call other than a refund begins.
LEMMA BeginKept ==
    ASSUME Inv, NEW c \in Calls, NEW p \in Payouts, NEW at \in {"queue", "recover", "post"},
           Begin(c, p, at), at = "post" => Arrived(p)
    PROVE  RefundersKept /\ CallsHeard
<1>1. at \in CallSteps
  BY DEF CallSteps
<1>2. /\ call' \in [Calls -> CallRecord]
      /\ call'[c].at = at /\ call'[c].payout = p
      /\ call'[c].disbursement = NoId /\ call'[c].status = "none"
      /\ \A d \in Calls \ {c} : call'[d] = call[d]
  <2>1. /\ call' \in [Calls -> CallRecord]
        /\ call'[c] = [Idle(p) EXCEPT !.at = at]
        /\ \A d \in Calls \ {c} : call'[d] = call[d]
    BY <1>1, CallBegins DEF Inv
  <2>2. Idle(p) \in CallRecord
    BY DEF Idle, CallRecord, CallSteps, Ids, Answers
  <2>3. Idle(p).payout = p /\ Idle(p).disbursement = NoId /\ Idle(p).status = "none"
    BY DEF Idle
  <2>4. /\ call'[c].at = at /\ call'[c].payout = p
        /\ call'[c].disbursement = NoId /\ call'[c].status = "none"
    BY <2>1, <2>2, <2>3 DEF CallRecord
  <2> QED BY <2>1, <2>4
<1>3. \A d \in Calls :
          /\ call[d].status = "SUCCEEDED" \/ call[d].at \in {"post", "stopPost"} => Arrived(call[d].payout)
          /\ call[d].at \in {"reconcile", "remote", "stopApply"} => call[d].disbursement \in Generations
  BY DEF Inv, PayoutInv, HeardIsTrue
<1>4. RefundersKept
  BY <1>2 DEF RefundersKept, RefundSteps, StopSteps, Idle
<1>5. CallsHeard
  BY <1>2, <1>3 DEF CallsHeard, Idle
<1> QED BY <1>4, <1>5

\* A call goes on, but not to a refund.
LEMMA ContinueKept ==
    ASSUME Inv, NEW c \in Calls, NEW at \in CallSteps \ {"refund", "reconcile", "remote", "stopApply"},
           Continue(c, at),
           at \in RefundSteps => at \in StopSteps /\ call[c].at \in StopSteps,
           at \in {"post", "stopPost"} => Arrived(call[c].payout)
    PROVE  RefundersKept /\ CallsHeard
<1>1. /\ call' \in [Calls -> CallRecord]
      /\ call'[c] = [call[c] EXCEPT !.at = at]
      /\ \A d \in Calls \ {c} : call'[d] = call[d]
  BY CallContinues DEF Inv
<1>2. call'[c].at = at /\ call'[c].payout = call[c].payout /\ call'[c].status = call[c].status
  BY <1>1 DEF Inv, TypeOK, CallRecord
<1>3. \A d \in Calls :
          /\ call[d].status = "SUCCEEDED" \/ call[d].at \in {"post", "stopPost"} => Arrived(call[d].payout)
          /\ call[d].at \in {"reconcile", "remote", "stopApply"} => call[d].disbursement \in Generations
  BY DEF Inv, PayoutInv, HeardIsTrue
<1>4. RefundersKept
  BY <1>1, <1>2 DEF RefundersKept, RefundSteps
<1>5. CallsHeard
  BY <1>1, <1>2, <1>3 DEF CallsHeard
<1> QED BY <1>4, <1>5

\* Likewise with nothing in hand.
LEMMA TurnKept ==
    ASSUME Inv, NEW c \in Calls, NEW at \in CallSteps \ {"refund", "reconcile", "remote", "stopApply"},
           Turn(c, at),
           at \in RefundSteps => at \in StopSteps /\ call[c].at \in StopSteps,
           at \in {"post", "stopPost"} => Arrived(call[c].payout)
    PROVE  RefundersKept /\ CallsHeard
<1>1. /\ call' \in [Calls -> CallRecord]
      /\ call'[c].at = at /\ call'[c].payout = call[c].payout
      /\ call'[c].disbursement = NoId /\ call'[c].status = "none"
      /\ \A d \in Calls \ {c} : call'[d] = call[d]
  BY CallTurns DEF Inv
<1>2. \A d \in Calls :
          /\ call[d].status = "SUCCEEDED" \/ call[d].at \in {"post", "stopPost"} => Arrived(call[d].payout)
          /\ call[d].at \in {"reconcile", "remote", "stopApply"} => call[d].disbursement \in Generations
  BY DEF Inv, PayoutInv, HeardIsTrue
<1>3. RefundersKept
  BY <1>1 DEF RefundersKept, RefundSteps
<1>4. CallsHeard
  BY <1>1, <1>2 DEF CallsHeard
<1> QED BY <1>3, <1>4

\* A call learns of a disbursement what is so.
LEMMA FindsKept ==
    ASSUME Inv, NEW c \in Calls, NEW at \in CallSteps \ {"refund", "post", "stopPost"},
           NEW id \in Generations, NEW status \in Answers, CallFinds(c, at, id, status),
           at \in RefundSteps => at \in StopSteps /\ call[c].at \in StopSteps,
           status = "SUCCEEDED" => Arrived(call[c].payout) \/ ArrivedNext(call[c].payout)
    PROVE  RefundersKept /\ CallsHeard
<1>1. /\ call' \in [Calls -> CallRecord]
      /\ call'[c] = [call[c] EXCEPT !.at = at, !.disbursement = id, !.status = status]
      /\ \A d \in Calls \ {c} : call'[d] = call[d]
  BY CallFindsTyped DEF Inv, Ids
<1>2. /\ call'[c].at = at /\ call'[c].payout = call[c].payout /\ call'[c].status = status
      /\ call'[c].disbursement = id
  BY <1>1 DEF Inv, TypeOK, CallRecord
<1>3. \A d \in Calls :
          /\ call[d].status = "SUCCEEDED" \/ call[d].at \in {"post", "stopPost"} => Arrived(call[d].payout)
          /\ call[d].at \in {"reconcile", "remote", "stopApply"} => call[d].disbursement \in Generations
  BY DEF Inv, PayoutInv, HeardIsTrue
<1>4. RefundersKept
  BY <1>1, <1>2 DEF RefundersKept, RefundSteps
<1>5. CallsHeard
  BY <1>1, <1>2, <1>3 DEF CallsHeard
<1> QED BY <1>4, <1>5

\* A call that returns refunds nothing.
LEMMA ReturnKept ==
    ASSUME Inv, NEW c \in Calls, Return(c)
    PROVE  RefundersKept /\ CallsHeard
<1>1. /\ call' \in [Calls -> CallRecord]
      /\ call'[c] = Idle(call[c].payout)
      /\ \A d \in Calls \ {c} : call'[d] = call[d]
  BY CallReturns DEF Inv
<1>3. \A d \in Calls :
          /\ call[d].status = "SUCCEEDED" \/ call[d].at \in {"post", "stopPost"} => Arrived(call[d].payout)
          /\ call[d].at \in {"reconcile", "remote", "stopApply"} => call[d].disbursement \in Generations
  BY DEF Inv, PayoutInv, HeardIsTrue
<1>4. RefundersKept
  BY <1>1 DEF RefundersKept, RefundSteps, StopSteps, Idle
<1>5. CallsHeard
  BY <1>1, <1>3 DEF CallsHeard, Idle
<1> QED BY <1>4, <1>5

\* Scheduling keeps jobs typed.
LEMMA JobKept ==
    ASSUME Inv, NEW p \in Payouts, SchedulePayout(p) \/ UNCHANGED job
    PROVE  job' \in [Payouts -> JobRecord]
BY JobScheduled DEF Inv, TypeOK

\* What has arrived may be posted.
LEMMA PostKept ==
    ASSUME Inv, NEW p \in Payouts, Arrived(p), posted' = [posted EXCEPT ![p] = TRUE]
    PROVE  PostedHeard
BY DEF Inv, TypeOK, PostedHeard

\* Postings left alone are kept.
LEMMA SamePosted ==
    ASSUME Inv, UNCHANGED posted
    PROVE  PostedHeard
BY DEF Inv, TypeOK, PostedHeard

\* What the rest of Quiet asks.
LEMMA SameRest ==
    ASSUME Inv
    PROVE  /\ UNCHANGED payment =>
                 /\ payment' \in [Payouts -> PaymentRow]
                 /\ \A p \in Payouts : /\ payment[p].settled => payment'[p].settled
                                       /\ payment'[p].refunded \in {"NO", payment[p].refunded}
           /\ UNCHANGED job => job' \in [Payouts -> JobRecord]
           /\ UNCHANGED crashes => crashes' \in 0 .. MaxCrashes
BY DEF Inv, TypeOK

-----------------------------------------------------------------------------
(* The steps that keep all of it.                                           *)

\* The statuses written below are statuses, none of them NONE or PAID.
LEMMA StatusesIncluded ==
    /\ {"PENDING", "FAILED", "CANCELLED"} \subseteq PayoutStatuses \ {"NONE", "PAID"}
    /\ "none" \in Answers
BY DEF PayoutStatuses, Answers

\* What a report leads to is posted only if it is so.
LEMMA PostsWhatArrived ==
    ASSUME NEW p, NEW status, PostsAfter(p, status)
    PROVE  status = "SUCCEEDED"
BY DEF PostsAfter, SUCCESS_STATUSES

\* Settling makes the payout together with the claim.
LEMMA SettleQuiet ==
    ASSUME Inv, NEW p \in Payouts, SettleWorkerEarnings(p)
    PROVE  Quiet
<1>1. payout[p].status = "NONE" /\ payment'[p].settled
  BY DEF SettleWorkerEarnings, Inv, PayoutInv, MadeWhenSettled, PayoutIs, TypeOK, PaymentRow
<1>2. RowsKept
  BY <1>1, SameRows, StatusKeepsRows, StatusesIncluded DEF SettleWorkerEarnings
<1>3. /\ payment' \in [Payouts -> PaymentRow]
      /\ \A q \in Payouts : /\ payment[q].settled => payment'[q].settled
                            /\ payment'[q].refunded \in {"NO", payment[q].refunded}
  BY DEF SettleWorkerEarnings, Inv, TypeOK, PaymentRow
<1> QED BY <1>2, <1>3, JobKept, SameDisbursements, SameSenders, SameCalls, SamePosted, SameRest
        DEF SettleWorkerEarnings, Quiet

\* The sweep queues a payout again.
LEMMA RequeueQuiet ==
    ASSUME Inv, NEW p \in Payouts, RequeuePayout(p)
    PROVE  Quiet
BY JobKept, SameRows, SameDisbursements, SameSenders, SameCalls, SamePosted, SameRest
DEF RequeuePayout, Quiet

\* An admin's retry reopens a FAILED row only.
LEMMA RetryQuiet ==
    ASSUME Inv, NEW c \in Calls, NEW p \in Payouts, RetryPayout(c, p)
    PROVE  Quiet
<1>1. RowsKept
  <2>1. payout[p] \in PayoutRow /\ payout[p].status = "FAILED"
    BY DEF RetryPayout, PayoutIs, Inv, TypeOK
  <2>2. /\ payout'[p] = [payout[p] EXCEPT !.status = "PENDING", !.retryGeneration = @ + 1]
        /\ payout[p].retryGeneration + 1 \in Generations
    BY <2>1, ConstantsAssumption DEF RetryPayout, Inv, TypeOK, PayoutRow, Generations
  <2>3. payout'[p] \in PayoutRow /\ payout'[p].status = "PENDING"
        /\ payout'[p].attempted = payout[p].attempted
    BY <2>1, <2>2 DEF PayoutRow, PayoutStatuses
  <2>4. \A q \in Payouts \ {p} : payout'[q] = payout[q]
    BY DEF RetryPayout, Inv, TypeOK
  <2>5. payout' \in [Payouts -> PayoutRow]
    BY <2>3, <2>4 DEF RetryPayout, Inv, TypeOK
  <2> QED BY <2>1, <2>3, <2>4, <2>5 DEF RowsKept
<1>2. RefundersKept /\ CallsHeard
  BY BeginKept DEF RetryPayout
<1> QED BY <1>1, <1>2, SameDisbursements, SameSenders, SamePosted, SameRest DEF RetryPayout, Quiet

\* Its job is queued, or the row is FAILED again.
LEMMA RetryQueueQuiet ==
    ASSUME Inv, NEW c \in Calls, RetryQueue(c)
    PROVE  Quiet
<1> DEFINE p == call[c].payout
<1>1. p \in Payouts
  BY DEF Inv, TypeOK, CallRecord
<1>2. RowsKept
  BY <1>1, SameRows, StatusKeepsRows, StatusesIncluded DEF RetryQueue, PayoutIs
<1>3. job' \in [Payouts -> JobRecord]
  BY <1>1, JobKept DEF RetryQueue
<1> QED BY <1>2, <1>3, ReturnKept, SameDisbursements, SameSenders, SamePosted, SameRest
        DEF RetryQueue, Quiet

\* The sender names the disbursement in the row.
LEMMA SendRecordQuiet ==
    ASSUME Inv, NEW p \in Payouts, SendRecord(p)
    PROVE  Quiet
<1>1. RowsKept
  <2>1. /\ payout[p] \in PayoutRow /\ sender[p].disbursement \in Ids
        /\ payout'[p] = [payout[p] EXCEPT !.disbursement = sender[p].disbursement]
    BY DEF SendRecord, Inv, TypeOK, SenderRecord
  <2>2. /\ payout'[p] \in PayoutRow
        /\ payout'[p].status = payout[p].status /\ payout'[p].attempted = payout[p].attempted
    BY <2>1 DEF PayoutRow
  <2>3. \A q \in Payouts \ {p} : payout'[q] = payout[q]
    BY DEF SendRecord, Inv, TypeOK
  <2>4. payout' \in [Payouts -> PayoutRow]
    BY <2>2, <2>3 DEF SendRecord, Inv, TypeOK
  <2> QED BY <2>2, <2>3, <2>4 DEF RowsKept
<1>2. AskersKept /\ SendersHeard
  BY SenderGoesOn DEF SendRecord, SendSteps, Inv, PayoutInv, HeardIsTrue
<1> QED BY <1>1, <1>2, SameDisbursements, SameCalls, SamePosted, SameRest DEF SendRecord, Quiet

\* The sender posts what has arrived.
LEMMA SendPostQuiet ==
    ASSUME Inv, NEW p \in Payouts, SendPost(p)
    PROVE  Quiet
<1>1. Arrived(p)
  BY DEF SendPost, Inv, PayoutInv, HeardIsTrue
<1> QED BY <1>1, PostKept, CompleteKept, SameRows, SameDisbursements, SameCalls, SameRest DEF SendPost, Quiet

\* The error reaches the queue.
LEMMA SendThrowQuiet ==
    ASSUME Inv, NEW p \in Payouts, SendThrow(p)
    PROVE  Quiet
<1>1. job' \in [Payouts -> JobRecord]
  <2>1. job[p] \in JobRecord
    BY DEF Inv, TypeOK
  <2>2. CASE IsFinalAttempt(p)
    BY <2>1, <2>2 DEF SendThrow, Inv, TypeOK, JobRecord
  <2>3. CASE ~IsFinalAttempt(p)
    <3>1. job[p].attemptsMade + 1 \in 0 .. MaxAttempts - 1
      BY <2>1, <2>3, ConstantsAssumption DEF IsFinalAttempt, JobRecord
    <3>2. job' = [job EXCEPT ![p] = [state |-> "waiting", attemptsMade |-> job[p].attemptsMade + 1]]
      BY <2>3 DEF SendThrow, Inv, TypeOK
    <3> QED BY <3>1, <3>2 DEF Inv, TypeOK, JobRecord
  <2> QED BY <2>2, <2>3
<1> QED BY <1>1, SenderEnds, SameRows, SameDisbursements, SameCalls, SamePosted, SameRest
        DEF SendThrow, Quiet

\* A run that dies asks for nothing more.
LEMMA CrashQuiet ==
    ASSUME Inv, NEW p \in Payouts, Crash(p)
    PROVE  Quiet
<1>1. job' \in [Payouts -> JobRecord]
  BY DEF Crash, Inv, TypeOK, JobRecord
<1>2. crashes' \in 0 .. MaxCrashes
  BY ConstantsAssumption DEF Crash, Inv, TypeOK
<1> QED BY <1>1, <1>2, SenderEnds, SameRows, SameDisbursements, SameCalls, SamePosted, SameRest
        DEF Crash, Quiet

\* The sender applies the answer it heard.
LEMMA SendApplyQuiet ==
    ASSUME Inv, NEW p \in Payouts, SendApply(p)
    PROVE  Quiet
<1>1. /\ sender[p].disbursement \in Generations /\ sender[p].status \in Answers
      /\ sender[p].status = "SUCCEEDED" => Arrived(p)
  BY DEF SendApply, Inv, PayoutInv, HeardIsTrue, TypeOK, SenderRecord
<1>2. RowsKept
  BY <1>1, ApplyKeepsRows DEF SendApply, Ids
<1>3. AskersKept /\ SendersHeard /\ job' \in [Payouts -> JobRecord]
  <2>1. CASE PostsAfter(p, sender[p].status)
    BY <1>1, <2>1, PostsWhatArrived, SenderTurnsKept DEF SendApply, Inv, TypeOK
  <2>2. CASE ~PostsAfter(p, sender[p].status)
    BY <2>2, CompleteKept DEF SendApply
  <2> QED BY <2>1, <2>2
<1> QED BY <1>2, <1>3, SameDisbursements, SameCalls, SamePosted, SameRest DEF SendApply, Quiet

\* The provider moves one of its disbursements on.
LEMMA DisbursementMoves ==
    ASSUME Inv, NEW p \in Payouts, NEW g \in Generations, NEW s \in Answers,
           disbursement' = [disbursement EXCEPT ![p][g] = s],
           disbursement[p][g] # "none",
           s \in LIVE_PAYOUT_STATUSES => disbursement[p][g] \in LIVE_PAYOUT_STATUSES,
           disbursement[p][g] \in {"SUCCEEDED", "REVERSED"} => s \in {"SUCCEEDED", "REVERSED"}
    PROVE  DisbursementsKept
<1>1. disbursement \in [Payouts -> [Generations -> Answers]]
  BY DEF Inv, TypeOK
<1>2. \A q \in Payouts, h \in Generations :
        disbursement'[q][h] = IF q = p /\ h = g THEN s ELSE disbursement[q][h]
  BY <1>1
<1>3. disbursement' \in [Payouts -> [Generations -> Answers]]
  BY <1>1
<1> QED BY <1>2, <1>3 DEF DisbursementsKept

\* The provider ends or returns a transfer it made.
LEMMA DisburseQuiet ==
    ASSUME Inv, NEW p \in Payouts, NEW g \in Generations, Disburse(p, g)
    PROVE  Quiet
<1>1. DisbursementsKept
  BY DisbursementMoves DEF Disburse, Answers, RemoteStatuses, LIVE_PAYOUT_STATUSES
<1> QED BY <1>1, SameRows, SameSenders, SameCalls, SamePosted, SameRest DEF Disburse, Quiet

\* A report is taken in, and its posting follows.
LEMMA ReportKept ==
    ASSUME Inv, NEW c \in Calls, NEW p \in Payouts, NEW status \in Answers,
           NEW id \in Generations, NEW seen \in Ids,
           ApplyXenditPayoutStatus(p, status, id, seen), status = "SUCCEEDED" => Arrived(p),
           IF PostsAfter(p, status) THEN Begin(c, p, "post") ELSE Return(c) \/ UNCHANGED call
    PROVE  RowsKept /\ RefundersKept /\ CallsHeard
<1>1. RowsKept
  BY ApplyKeepsRows
<1>2. CASE PostsAfter(p, status)
  BY <1>1, <1>2, PostsWhatArrived, BeginKept
<1>3. CASE ~PostsAfter(p, status)
  BY <1>1, <1>3, ReturnKept, SameCalls
<1> QED BY <1>2, <1>3

\* A webhook reports what was so.
LEMMA PayoutWebhookQuiet ==
    ASSUME Inv, NEW c \in Calls, NEW p \in Payouts, NEW g \in Generations, PayoutWebhook(c, p, g)
    PROVE  Quiet
<1>1. PICK status \in Reported(disbursement[p][g]) :
        /\ ApplyXenditPayoutStatus(p, status, g, payout[p].disbursement)
        /\ IF PostsAfter(p, status) THEN Begin(c, p, "post") ELSE UNCHANGED call
  BY DEF PayoutWebhook
<1>2. disbursement[p][g] \in Answers /\ payout[p].disbursement \in Ids
  BY DEF Inv, TypeOK, PayoutRow
<1>3. status \in Answers /\ (status = "SUCCEEDED" => Arrived(p))
  BY <1>2 DEF Reported, Answers, RemoteStatuses, Arrived
<1>4. RowsKept /\ RefundersKept /\ CallsHeard
  BY <1>1, <1>2, <1>3, ReportKept
<1> QED BY <1>4, SameDisbursements, SameSenders, SamePosted, SameRest DEF PayoutWebhook, Quiet

\* What a webhook or the sweep heard is posted.
LEMMA PostPayoutSentQuiet ==
    ASSUME Inv, NEW c \in Calls, PostPayoutSent(c)
    PROVE  Quiet
<1>1. call[c].payout \in Payouts /\ Arrived(call[c].payout)
  BY DEF PostPayoutSent, Inv, PayoutInv, HeardIsTrue, TypeOK, CallRecord
<1> QED BY <1>1, PostKept, ReturnKept, SameRows, SameDisbursements, SameSenders, SameRest
        DEF PostPayoutSent, Quiet

\* The sweep lists a row and its disbursement.
LEMMA ListStaleQuiet ==
    ASSUME Inv, NEW c \in Calls, NEW p \in Payouts, ListStale(c, p)
    PROVE  Quiet
<1>1. payout[p].disbursement \in Generations
  BY DEF ListStale, Inv, TypeOK, PayoutRow, Ids
<1>2. /\ call'[c] = [at |-> "reconcile", payout |-> p, disbursement |-> payout[p].disbursement,
                     status |-> "none", manual |-> FALSE]
      /\ \A d \in Calls \ {c} : call'[d] = call[d]
      /\ call' \in [Calls -> CallRecord]
  BY <1>1 DEF ListStale, Idle, Inv, TypeOK, CallRecord, CallSteps, Ids, Answers
<1>3. RefundersKept
  BY <1>2 DEF RefundersKept, RefundSteps, StopSteps, Idle
<1>4. CallsHeard
  BY <1>1, <1>2 DEF CallsHeard, Inv, PayoutInv, HeardIsTrue
<1> QED BY <1>3, <1>4, SameRows, SameDisbursements, SameSenders, SamePosted, SameRest
        DEF ListStale, Quiet

\* The sweep applies what the provider says of it.
LEMMA ReconcileQuiet ==
    ASSUME Inv, NEW c \in Calls, ReconcilePayout(c)
    PROVE  Quiet
<1> DEFINE p == call[c].payout
           id == call[c].disbursement
<1>1. p \in Payouts /\ id \in Generations
  BY DEF ReconcilePayout, Inv, PayoutInv, HeardIsTrue, TypeOK, CallRecord
<1>2. disbursement[p][id] \in Answers /\ (disbursement[p][id] = "SUCCEEDED" => Arrived(p))
  BY <1>1 DEF Inv, TypeOK, Arrived
<1>3. RowsKept /\ RefundersKept /\ CallsHeard
  BY <1>1, <1>2, ReportKept DEF ReconcilePayout, Ids
<1> QED BY <1>3, SameDisbursements, SameSenders, SamePosted, SameRest DEF ReconcilePayout, Quiet

\* The sweep lists a row without one.
LEMMA ListOrphanedQuiet ==
    ASSUME Inv, NEW c \in Calls, NEW p \in Payouts, ListOrphaned(c, p)
    PROVE  Quiet
BY BeginKept, SameRows, SameDisbursements, SameSenders, SamePosted, SameRest DEF ListOrphaned, Quiet

\* The sweep looks for a disbursement by reference.
LEMMA RecoverLookupQuiet ==
    ASSUME Inv, NEW c \in Calls, RecoverLookup(c)
    PROVE  Quiet
<1> DEFINE p == call[c].payout
<1>1. p \in Payouts
  BY DEF Inv, TypeOK, CallRecord
<1>2. RefundersKept /\ CallsHeard
  <2>1. CASE Continue(c, "adopt")
    BY <2>1, ContinueKept DEF CallSteps, RefundSteps, StopSteps
  <2>2. ASSUME NEW g \in LiveDisbursements(p), CallFinds(c, "adopt", g, disbursement[p][g])
        PROVE  RefundersKept /\ CallsHeard
    <3>1. /\ g \in Generations /\ disbursement[p][g] \in Answers
          /\ disbursement[p][g] = "SUCCEEDED" => Arrived(p)
      BY <1>1, <2>2 DEF LiveDisbursements, Arrived, Inv, TypeOK
    <3> QED BY <2>2, <3>1, FindsKept DEF CallSteps, RefundSteps, StopSteps
  <2> QED BY <2>1, <2>2 DEF RecoverLookup
<1> QED BY <1>2, SameRows, SameDisbursements, SameSenders, SamePosted, SameRest DEF RecoverLookup, Quiet

\* The sweep adopts it, or queues the payout again.
LEMMA RecoverPayoutQuiet ==
    ASSUME Inv, NEW c \in Calls, RecoverPayout(c)
    PROVE  Quiet
<1> DEFINE p == call[c].payout
           id == call[c].disbursement
           status == call[c].status
<1>1. p \in Payouts /\ id \in Ids /\ status \in Answers /\ (status = "SUCCEEDED" => Arrived(p))
  BY DEF Inv, PayoutInv, HeardIsTrue, TypeOK, CallRecord
<1>2. RowsKept /\ RefundersKept /\ CallsHeard
  <2>1. CASE id = NoId
    <3>1. /\ IF PayoutIs(p, {"PROCESSING"}) /\ payout[p].disbursement = NoId
             THEN SetPayoutStatus(p, "PENDING") ELSE UNCHANGED payout
          /\ Return(c)
      BY <2>1 DEF RecoverPayout
    <3> QED BY <1>1, <3>1, SameRows, StatusKeepsRows, StatusesIncluded, ReturnKept DEF PayoutIs
  <2>2. CASE id # NoId
    <3>1. id \in Generations /\ NoId \in Ids
      BY <1>1, <2>2 DEF Ids
    <3>2. /\ ApplyXenditPayoutStatus(p, status, id, NoId)
          /\ IF PostsAfter(p, status) THEN Begin(c, p, "post") ELSE Return(c)
      BY <2>2 DEF RecoverPayout
    <3> QED BY <1>1, <3>1, <3>2, ReportKept
  <2> QED BY <2>1, <2>2
<1> QED BY <1>2, SameDisbursements, SameSenders, SamePosted, SameRest DEF RecoverPayout, Quiet

\* A refund asks the provider to cancel.
LEMMA StopRemoteQuiet ==
    ASSUME Inv, NEW c \in Calls, StopRemote(c)
    PROVE  Quiet
<1> DEFINE p == call[c].payout
           id == call[c].disbursement
<1>1. p \in Payouts /\ id \in Generations
  BY DEF StopRemote, Inv, PayoutInv, HeardIsTrue, TypeOK, CallRecord
<1>2. \/ UNCHANGED disbursement
      \/ /\ disbursement[p][id] = "LIVE"
         /\ disbursement' = [disbursement EXCEPT ![p][id] = "CANCELLED"]
  BY DEF StopRemote
<1>3. DisbursementsKept
  BY <1>1, <1>2, DisbursementMoves, SameDisbursements DEF Answers, RemoteStatuses, LIVE_PAYOUT_STATUSES
<1>4. PICK answer \in {disbursement'[p][id], "none"} : CallFinds(c, "stopApply", id, answer)
  BY DEF StopRemote
<1>5. answer \in Answers /\ (answer = "SUCCEEDED" => ArrivedNext(p))
  BY <1>1, <1>3, <1>4, StatusesIncluded DEF DisbursementsKept, ArrivedNext
<1>6. RefundersKept /\ CallsHeard
  BY <1>1, <1>4, <1>5, FindsKept DEF StopRemote, CallSteps, RefundSteps, StopSteps
<1> QED BY <1>3, <1>6, SameRows, SameSenders, SamePosted, SameRest DEF StopRemote, Quiet

\* A refund applies the answer.
LEMMA StopApplyQuiet ==
    ASSUME Inv, NEW c \in Calls, StopApply(c)
    PROVE  Quiet
<1> DEFINE p == call[c].payout
           id == call[c].disbursement
           status == call[c].status
<1>1. p \in Payouts /\ id \in Generations /\ status \in Answers /\ (status = "SUCCEEDED" => Arrived(p))
  BY DEF StopApply, Inv, PayoutInv, HeardIsTrue, TypeOK, CallRecord
<1>2. RowsKept
  BY <1>1, ApplyKeepsRows DEF StopApply, Ids
<1>3. RefundersKept /\ CallsHeard
  <2>1. CASE PostsAfter(p, status)
    BY <1>1, <2>1, PostsWhatArrived, TurnKept DEF StopApply, CallSteps, RefundSteps, StopSteps
  <2>2. CASE ~PostsAfter(p, status)
    BY <2>2, TurnKept DEF StopApply, CallSteps, RefundSteps, StopSteps
  <2> QED BY <2>1, <2>2
<1> QED BY <1>2, <1>3, SameDisbursements, SameSenders, SamePosted, SameRest DEF StopApply, Quiet

\* A refund that learns of an arrival posts it.
LEMMA StopPostQuiet ==
    ASSUME Inv, NEW c \in Calls, StopPost(c)
    PROVE  Quiet
<1>1. call[c].payout \in Payouts /\ Arrived(call[c].payout)
  BY DEF StopPost, Inv, PayoutInv, HeardIsTrue, TypeOK, CallRecord
<1>2. RefundersKept /\ CallsHeard
  BY ContinueKept DEF StopPost, CallSteps, RefundSteps, StopSteps
<1> QED BY <1>1, <1>2, PostKept, SameRows, SameDisbursements, SameSenders, SameRest DEF StopPost, Quiet

\* A refund that failed is taken back.
LEMMA ReconcileRefundQuiet ==
    ASSUME Inv, NEW p \in Payouts, ReconcilePendingRefund(p)
    PROVE  Quiet
<1>1. /\ payment' \in [Payouts -> PaymentRow]
      /\ \A q \in Payouts : /\ payment[q].settled => payment'[q].settled
                            /\ payment'[q].refunded \in {"NO", payment[q].refunded}
  BY DEF ReconcilePendingRefund, Inv, TypeOK, PaymentRow
<1> QED BY <1>1, SameRows, SameDisbursements, SameSenders, SameCalls, SamePosted, SameRest
  DEF ReconcilePendingRefund, Quiet

\* A call that fails refunds nothing.
LEMMA FailQuiet ==
    ASSUME Inv, NEW c \in Calls, Fail(c)
    PROVE  Quiet
BY ReturnKept, SameRows, SameDisbursements, SameSenders, SamePosted, SameRest DEF Fail, Quiet

-----------------------------------------------------------------------------
(* The steps by which a transfer is asked for.                              *)

\* What these steps do keep.
AskQuiet ==
    /\ UNCHANGED <<payment, crashes>>
    /\ job' \in [Payouts -> JobRecord]
    /\ disbursement' \in [Payouts -> [Generations -> Answers]]
    /\ \A p \in Payouts : Arrived(p) => ArrivedNext(p)
    /\ RowsKept /\ RefundersKept /\ SendersHeard /\ CallsHeard /\ PostedHeard

\* With the one transfer shown, these steps keep the invariant.
LEMMA AskKeepsInv ==
    ASSUME Inv, AskQuiet, OneTransfer', NoneBeforeAttempt', NoneWhenAsked'
    PROVE  Inv'
<1>1. TypeOK'
  BY DEF Inv, AskQuiet, TypeOK, RowsKept, SendersHeard, CallsHeard, PostedHeard
<1>2. RefundedIsCancelled' /\ MadeWhenSettled' /\ RefundGoesOn'
  BY RefundKept DEF AskQuiet, CallsHeard
<1>3. PaidHasArrived' /\ HeardIsTrue'
  BY PaidKept DEF AskQuiet
<1> QED BY <1>1, <1>2, <1>3 DEF Inv, PayoutInv

\* A transfer is made where none lives, or the one of the same key is found.
LEMMA TransferMade ==
    ASSUME Inv, NEW p \in Payouts, NEW g \in Generations, sender[p].at = "create", CreatePayout(p, g),
           RowsKept, AskersKept, sender'[p].at \notin {"claim", "lookup", "create"}
    PROVE  /\ OneTransfer' /\ NoneBeforeAttempt' /\ NoneWhenAsked'
           /\ disbursement' \in [Payouts -> [Generations -> Answers]]
           /\ \A q \in Payouts : Arrived(q) => ArrivedNext(q)
<1>1. CASE UNCHANGED disbursement
  <2>1. DisbursementsKept
    BY <1>1, SameDisbursements
  <2> QED BY <2>1, TransferKept, ArrivedStays DEF DisbursementsKept
<1>2. CASE disbursement[p][g] = "none" /\ ~(UNCHANGED disbursement)
  <2>1. PICK s \in {"LIVE", "SUCCEEDED", "FAILED"} : disbursement' = [disbursement EXCEPT ![p][g] = s]
    BY <1>2 DEF CreatePayout
  <2>2. disbursement \in [Payouts -> [Generations -> Answers]] /\ s \in Answers
    BY <2>1 DEF Inv, TypeOK, Answers, RemoteStatuses
  <2>3. \A q \in Payouts, h \in Generations :
          disbursement'[q][h] = IF q = p /\ h = g THEN s ELSE disbursement[q][h]
    BY <2>1, <2>2
  <2>4. disbursement' \in [Payouts -> [Generations -> Answers]]
    BY <2>1, <2>2
  <2>5. LiveDisbursements(p) = {} /\ payout[p].attempted
    BY DEF Inv, PayoutInv, NoneWhenAsked
  <2>6. LiveDisbursements(p)' \subseteq {g}
    BY <2>3, <2>5 DEF LiveDisbursements
  <2>7. \A q \in Payouts \ {p} : LiveDisbursements(q)' = LiveDisbursements(q)
    BY <2>3 DEF LiveDisbursements
  <2>8. OneTransfer'
    <3> SUFFICES ASSUME NEW q \in Payouts, NEW h \in Generations, NEW i \in Generations,
                        h \in LiveDisbursements(q)', i \in LiveDisbursements(q)'
                 PROVE  h = i
      BY DEF OneTransfer
    <3> QED BY <2>6, <2>7 DEF Inv, PayoutInv, OneTransfer
  <2>9. NoneBeforeAttempt'
    BY <2>3, <2>5 DEF Inv, PayoutInv, NoneBeforeAttempt, RowsKept, AskersKept, TypeOK, PayoutRow
  <2>10. NoneWhenAsked'
    BY <2>7 DEF Inv, PayoutInv, NoneWhenAsked, RowsKept, AskersKept
  <2>11. \A q \in Payouts : Arrived(q) => ArrivedNext(q)
    BY <1>2, <2>3 DEF Arrived, ArrivedNext
  <2> QED BY <2>4, <2>8, <2>9, <2>10, <2>11
<1> QED BY <1>1, <1>2 DEF CreatePayout

\* The run knows of every attempt made before it read the row.
LEMMA SendReadStep ==
    ASSUME Inv, NEW p \in Payouts, SendRead(p)
    PROVE  Inv'
<1>1. CASE ~PayoutIs(p, {"PENDING"})
  <2>1. Quiet
    BY <1>1, CompleteKept, SameRows, SameDisbursements, SameCalls, SamePosted, SameRest
    DEF SendRead, Quiet
  <2> QED BY <2>1, QuietKeepsInv
<1>2. CASE PayoutIs(p, {"PENDING"})
  <2> DEFINE s == [NoSender EXCEPT !.at = "claim", !.earlierAttempt = EarlierAttempt(p),
                                   !.retryGeneration = payout[p].retryGeneration]
  <2>1. sender' = [sender EXCEPT ![p] = s] /\ job' = [job EXCEPT ![p].state = "active"]
    BY <1>2 DEF SendRead
  <2>2. payout[p] \in PayoutRow
    BY DEF Inv, TypeOK
  <2>3. /\ s \in SenderRecord /\ s.at = "claim" /\ s.status = "none"
        /\ s.earlierAttempt = EarlierAttempt(p)
    BY <2>2 DEF NoSender, SenderRecord, SendSteps, Ids, Answers, PayoutRow, EarlierAttempt
  <2>4. /\ sender' \in [Payouts -> SenderRecord]
        /\ sender'[p] = s
        /\ \A q \in Payouts \ {p} : sender'[q] = sender[q]
    BY <2>1, <2>3 DEF Inv, TypeOK
  <2>5. job' \in [Payouts -> JobRecord]
    BY <2>1 DEF Inv, TypeOK, JobRecord
  <2>6. SendersHeard
    BY <2>3, <2>4 DEF SendersHeard, Inv, PayoutInv, HeardIsTrue
  <2>7. UNCHANGED <<payment, payout, disbursement, call, posted, crashes>>
    BY DEF SendRead
  <2>8. AskQuiet
    BY <2>5, <2>6, <2>7, SameRows, SameDisbursements, ArrivedStays, SameCalls, SamePosted
    DEF AskQuiet, DisbursementsKept
  <2>9. OneTransfer'
    BY <2>7 DEF Inv, PayoutInv, OneTransfer, LiveDisbursements
  <2>10. NoneBeforeAttempt'
    <3> SUFFICES ASSUME NEW q \in Payouts, NEW g \in Generations
                 PROVE  /\ ~payout[q].attempted => disbursement[q][g] = "none"
                        /\ sender'[q].at = "claim" /\ ~sender'[q].earlierAttempt =>
                               disbursement[q][g] = "none"
      BY <2>7 DEF NoneBeforeAttempt
    <3>1. /\ ~payout[q].attempted => disbursement[q][g] = "none"
          /\ sender[q].at = "claim" /\ ~sender[q].earlierAttempt => disbursement[q][g] = "none"
      BY DEF Inv, PayoutInv, NoneBeforeAttempt
    <3>2. ~s.earlierAttempt => ~payout[p].attempted
      BY <2>3 DEF EarlierAttempt
    <3>3. CASE q = p
      <4> HIDE DEF s
      <4> QED BY <2>4, <3>1, <3>2, <3>3
    <3>4. CASE q # p
      BY <2>4, <3>1, <3>4
    <3> QED BY <3>3, <3>4
  <2>11. NoneWhenAsked'
    BY <2>3, <2>4, <2>7 DEF Inv, PayoutInv, NoneWhenAsked, LiveDisbursements
  <2> QED BY <2>8, <2>9, <2>10, <2>11, AskKeepsInv
<1> QED BY <1>1, <1>2

\* A claimed row is marked as attempted; a first attempt has nothing to look up.
LEMMA SendClaimStep ==
    ASSUME Inv, NEW p \in Payouts, SendClaim(p)
    PROVE  Inv'
<1>1. CASE ~PayoutIs(p, {"PENDING"})
  <2>1. Quiet
    BY <1>1, CompleteKept, SameRows, SameDisbursements, SameCalls, SamePosted, SameRest
    DEF SendClaim, Quiet
  <2> QED BY <2>1, QuietKeepsInv
<1>2. CASE PayoutIs(p, {"PENDING"})
  <2> DEFINE at == IF sender[p].earlierAttempt THEN "lookup" ELSE "create"
  <2>1. /\ payout' = [payout EXCEPT ![p].status = "PROCESSING", ![p].attempted = TRUE]
        /\ SenderTo(p, at)
        /\ UNCHANGED <<payment, disbursement, job, call, posted, crashes>>
    BY <1>2 DEF SendClaim
  <2>2. /\ payout[p] \in PayoutRow /\ payout[p].status = "PENDING"
        /\ payout'[p] = [payout[p] EXCEPT !.status = "PROCESSING", !.attempted = TRUE]
    BY <1>2, <2>1 DEF Inv, TypeOK, PayoutIs
  <2>3. payout'[p] \in PayoutRow /\ payout'[p].status = "PROCESSING" /\ payout'[p].attempted
    BY <2>2 DEF PayoutRow, PayoutStatuses
  <2>4. \A q \in Payouts \ {p} : payout'[q] = payout[q]
    BY <2>1 DEF Inv, TypeOK
  <2>5. payout' \in [Payouts -> PayoutRow]
    BY <2>1, <2>3, <2>4 DEF Inv, TypeOK
  <2>6. RowsKept
    BY <2>2, <2>3, <2>4, <2>5 DEF RowsKept
  <2>7. at \in SendSteps
    BY DEF SendSteps
  <2>8. /\ sender' \in [Payouts -> SenderRecord]
        /\ sender'[p] = [sender[p] EXCEPT !.at = at]
        /\ \A q \in Payouts \ {p} : sender'[q] = sender[q]
    BY <2>1, <2>7, SenderMoves DEF Inv
  <2>9. sender'[p].at = at /\ sender'[p].status = sender[p].status
    BY <2>8 DEF Inv, TypeOK, SenderRecord
  <2>10. SendersHeard
    BY <2>8, <2>9 DEF SendersHeard, Inv, PayoutInv, HeardIsTrue
  <2>11. AskQuiet
    BY <2>1, <2>6, <2>10, SameDisbursements, ArrivedStays, SameCalls, SamePosted, SameRest
    DEF AskQuiet, DisbursementsKept
  <2>12. OneTransfer'
    BY <2>1 DEF Inv, PayoutInv, OneTransfer, LiveDisbursements
  <2>13. NoneBeforeAttempt'
    <3> SUFFICES ASSUME NEW q \in Payouts, NEW g \in Generations
                 PROVE  /\ ~payout'[q].attempted => disbursement[q][g] = "none"
                        /\ sender'[q].at = "claim" /\ ~sender'[q].earlierAttempt =>
                               disbursement[q][g] = "none"
      BY <2>1 DEF NoneBeforeAttempt
    <3>1. /\ ~payout[q].attempted => disbursement[q][g] = "none"
          /\ sender[q].at = "claim" /\ ~sender[q].earlierAttempt => disbursement[q][g] = "none"
      BY DEF Inv, PayoutInv, NoneBeforeAttempt
    <3>2. CASE q = p
      BY <2>3, <2>9, <3>2
    <3>3. CASE q # p
      BY <2>4, <2>8, <3>1, <3>3
    <3> QED BY <3>2, <3>3
  <2>14. ~sender[p].earlierAttempt => LiveDisbursements(p) = {}
    BY DEF SendClaim, Inv, PayoutInv, NoneBeforeAttempt, LiveDisbursements, LIVE_PAYOUT_STATUSES
  <2>15. \A q \in Payouts : LiveDisbursements(q)' = LiveDisbursements(q)
    BY <2>1 DEF LiveDisbursements
  <2>16. NoneWhenAsked'
    <3> SUFFICES ASSUME NEW q \in Payouts
                 PROVE  /\ sender'[q].at \in {"lookup", "create"} => payout'[q].attempted
                        /\ sender'[q].at = "create" => LiveDisbursements(q)' = {}
      BY DEF NoneWhenAsked
    <3>1. /\ sender[q].at \in {"lookup", "create"} => payout[q].attempted
          /\ sender[q].at = "create" => LiveDisbursements(q) = {}
      BY DEF Inv, PayoutInv, NoneWhenAsked
    <3>2. CASE q = p
      BY <2>3, <2>9, <2>14, <2>15, <3>2
    <3>3. CASE q # p
      BY <2>4, <2>8, <2>15, <3>1, <3>3
    <3> QED BY <3>2, <3>3
  <2> QED BY <2>11, <2>12, <2>13, <2>16, AskKeepsInv
<1> QED BY <1>1, <1>2

\* The run goes on to ask only where no transfer lives.
LEMMA SendLookupStep ==
    ASSUME Inv, NEW p \in Payouts, SendLookup(p)
    PROVE  Inv'
<1>0. UNCHANGED <<payment, payout, disbursement, job, call, posted, crashes>>
  BY DEF SendLookup
<1>1. CASE LiveDisbursements(p) = {} /\ SenderTo(p, "create")
  <2>1. /\ sender' \in [Payouts -> SenderRecord]
        /\ sender'[p] = [sender[p] EXCEPT !.at = "create"]
        /\ \A q \in Payouts \ {p} : sender'[q] = sender[q]
    BY <1>1, SenderMoves DEF Inv, SendSteps
  <2>2. sender'[p].at = "create" /\ sender'[p].status = sender[p].status
    BY <2>1 DEF Inv, TypeOK, SenderRecord
  <2>3. SendersHeard
    BY <2>1, <2>2 DEF SendersHeard, Inv, PayoutInv, HeardIsTrue
  <2>4. AskQuiet
    BY <1>0, <2>3, SameRows, SameDisbursements, ArrivedStays, SameCalls, SamePosted, SameRest
    DEF AskQuiet, DisbursementsKept
  <2>5. OneTransfer'
    BY <1>0 DEF Inv, PayoutInv, OneTransfer, LiveDisbursements
  <2>6. \A q \in Payouts : LiveDisbursements(q)' = LiveDisbursements(q)
    BY <1>0 DEF LiveDisbursements
  <2>7. NoneWhenAsked'
    BY <1>0, <1>1, <2>1, <2>2, <2>6 DEF SendLookup, Inv, PayoutInv, NoneWhenAsked
  <2>8. NoneBeforeAttempt'
    <3> SUFFICES ASSUME NEW q \in Payouts, NEW g \in Generations
                 PROVE  /\ ~payout[q].attempted => disbursement[q][g] = "none"
                        /\ sender'[q].at = "claim" /\ ~sender'[q].earlierAttempt =>
                               disbursement[q][g] = "none"
      BY <1>0 DEF NoneBeforeAttempt
    <3>1. /\ ~payout[q].attempted => disbursement[q][g] = "none"
          /\ sender[q].at = "claim" /\ ~sender[q].earlierAttempt => disbursement[q][g] = "none"
      BY DEF Inv, PayoutInv, NoneBeforeAttempt
    <3>2. q = p \/ sender'[q] = sender[q]
      BY <2>1
    <3> QED BY <2>2, <3>1, <3>2
  <2> QED BY <2>4, <2>5, <2>7, <2>8, AskKeepsInv
<1>2. ASSUME NEW g \in LiveDisbursements(p), SenderFinds(p, g, disbursement[p][g])
      PROVE  Inv'
  <2>1. /\ g \in Generations /\ disbursement[p][g] \in Answers
        /\ disbursement[p][g] = "SUCCEEDED" => Arrived(p)
    BY <1>2 DEF LiveDisbursements, Arrived, Inv, TypeOK
  <2>2. /\ sender' \in [Payouts -> SenderRecord]
        /\ sender'[p].at = "record" /\ sender'[p].status = disbursement[p][g]
        /\ sender'[p].disbursement = g
        /\ \A q \in Payouts \ {p} : sender'[q] = sender[q]
    BY <1>2, <2>1, SenderFindsTyped DEF Inv, Ids
  <2>3. AskersKept
    BY <2>2 DEF AskersKept
  <2>4. SendersHeard
    BY <2>1, <2>2 DEF SendersHeard, Inv, PayoutInv, HeardIsTrue
  <2>5. Quiet
    BY <1>0, <2>3, <2>4, SameRows, SameDisbursements, SameCalls, SamePosted, SameRest DEF Quiet
  <2> QED BY <2>5, QuietKeepsInv
<1> QED BY <1>1, <1>2 DEF SendLookup

\* The run asks, and one transfer lives at most.
LEMMA SendCreateStep ==
    ASSUME Inv, NEW p \in Payouts, SendCreate(p)
    PROVE  Inv'
<1> DEFINE g == PayoutIdempotencyKey(sender[p].retryGeneration)
<1>1. /\ sender[p].at = "create" /\ CreatePayout(p, g) /\ SenderFinds(p, g, disbursement'[p][g])
      /\ UNCHANGED <<payment, payout, job, call, posted, crashes>>
  BY DEF SendCreate
<1>0. sender[p] \in SenderRecord
  BY DEF Inv, TypeOK
<1>2. g \in Generations
  BY <1>0 DEF PayoutIdempotencyKey, SenderRecord
<1>3. disbursement' \in [Payouts -> [Generations -> Answers]]
  <2> HIDE DEF g
  <2>1. disbursement \in [Payouts -> [Generations -> Answers]]
    BY DEF Inv, TypeOK
  <2>2. \A s \in {"LIVE", "SUCCEEDED", "FAILED"} :
           [disbursement EXCEPT ![p][g] = s] \in [Payouts -> [Generations -> Answers]]
    BY <1>2, <2>1 DEF Answers, RemoteStatuses
  <2> QED BY <1>1, <2>1, <2>2 DEF CreatePayout
<1>4. disbursement'[p][g] \in Answers /\ (disbursement'[p][g] = "SUCCEEDED" => ArrivedNext(p))
  BY <1>2, <1>3 DEF ArrivedNext
<1>5. /\ sender' \in [Payouts -> SenderRecord]
      /\ sender'[p].at = "record" /\ sender'[p].status = disbursement'[p][g]
      /\ sender'[p].disbursement = g
      /\ \A q \in Payouts \ {p} : sender'[q] = sender[q]
  BY <1>1, <1>2, <1>4, SenderFindsTyped DEF Inv, Ids
<1>6. AskersKept
  BY <1>5 DEF AskersKept
<1>7. SendersHeard
  BY <1>2, <1>4, <1>5 DEF SendersHeard, Inv, PayoutInv, HeardIsTrue
<1>8. RowsKept
  BY <1>1, SameRows
<1>9. /\ OneTransfer' /\ NoneBeforeAttempt' /\ NoneWhenAsked'
      /\ \A q \in Payouts : Arrived(q) => ArrivedNext(q)
  BY <1>1, <1>2, <1>5, <1>6, <1>8, TransferMade
<1>10. AskQuiet
  BY <1>1, <1>3, <1>7, <1>8, <1>9, SameCalls, SamePosted, SameRest DEF AskQuiet
<1> QED BY <1>9, <1>10, AskKeepsInv

\* So it is when the answer is lost.
LEMMA SendErrorStep ==
    ASSUME Inv, NEW p \in Payouts, SendError(p)
    PROVE  Inv'
<1> DEFINE g == PayoutIdempotencyKey(sender[p].retryGeneration)
<1>1. /\ UNCHANGED <<payment, job, call, posted, crashes>> /\ SenderTurns(p, "throw")
      /\ \/ UNCHANGED disbursement
         \/ sender[p].at = "create" /\ CreatePayout(p, g)
  BY DEF SendError
<1>2. RowsKept
  BY SameRows, StatusKeepsRows, StatusesIncluded DEF SendError, PayoutIs
<1>3. AskersKept /\ SendersHeard
  BY <1>1, SenderTurnsKept
<1>0. TypeOK /\ sender[p] \in SenderRecord
  BY DEF Inv, TypeOK
<1>4. sender'[p].at = "throw"
  <2>1. "throw" \in SendSteps
    BY DEF SendSteps
  <2>2. sender'[p] = [NoSender EXCEPT !.at = "throw"]
    BY <1>0, <1>1, <2>1, SenderForgets
  <2> QED BY <2>2 DEF NoSender
<1>5. CASE UNCHANGED disbursement
  <2>1. Quiet
    BY <1>1, <1>2, <1>3, <1>5, SameDisbursements, SameCalls, SamePosted, SameRest DEF Quiet
  <2> QED BY <2>1, QuietKeepsInv
<1>6. CASE sender[p].at = "create" /\ CreatePayout(p, g)
  <2>1. g \in Generations
    BY <1>0 DEF PayoutIdempotencyKey, SenderRecord
  <2>2. /\ OneTransfer' /\ NoneBeforeAttempt' /\ NoneWhenAsked'
        /\ disbursement' \in [Payouts -> [Generations -> Answers]]
        /\ \A q \in Payouts : Arrived(q) => ArrivedNext(q)
    BY <1>2, <1>3, <1>4, <1>6, <2>1, TransferMade
  <2>3. AskQuiet
    BY <1>1, <1>2, <1>3, <2>2, SameCalls, SamePosted, SameRest DEF AskQuiet
  <2> QED BY <2>2, <2>3, AskKeepsInv
<1> QED BY <1>1, <1>5, <1>6

-----------------------------------------------------------------------------
(* The refund of a payment.                                                 *)

\* A step of a refund: transfers, runs and postings stay as they are.
RefundStep ==
    /\ payment' \in [Payouts -> PaymentRow]
    /\ \A p \in Payouts : payment[p].settled => payment'[p].settled
    /\ UNCHANGED <<disbursement, job, sender, posted, crashes>>
    /\ RowsKept /\ CallsHeard

\* A step of a refund keeps whatever does not speak of refunds.
LEMMA RefundStepKeepsInv ==
    ASSUME Inv, RefundStep, RefundedIsCancelled', RefundGoesOn'
    PROVE  Inv'
<1>1. DisbursementsKept /\ AskersKept /\ SendersHeard /\ PostedHeard
  BY SameDisbursements, SameSenders, SamePosted DEF RefundStep
<1>2. TypeOK'
  BY <1>1 DEF RefundStep, Inv, TypeOK, RowsKept, DisbursementsKept, SendersHeard, CallsHeard, PostedHeard
<1>3. OneTransfer' /\ NoneBeforeAttempt' /\ NoneWhenAsked'
  BY <1>1, TransferKept DEF RefundStep
<1>4. MadeWhenSettled'
  BY DEF RefundStep, Inv, PayoutInv, MadeWhenSettled, PayoutIs, RowsKept
<1>5. PaidHasArrived' /\ HeardIsTrue'
  BY <1>1, PaidKept, ArrivedStays DEF RefundStep
<1> QED BY <1>2, <1>3, <1>4, <1>5 DEF Inv, PayoutInv

(* A step of a refund that changes no payment, by a call that had the claim, *)
(* and that goes on to the refund only of a payout that is not to be sent,   *)
(* to stopping one or to a loss only of one that was made.                   *)
LEMMA RefundMoves ==
    ASSUME Inv, UNCHANGED <<payment, disbursement, job, sender, posted, crashes>>,
           RowsKept, CallsHeard, NEW c \in Calls, call[c].at \in RefundSteps,
           call'[c].payout = call[c].payout,
           call'[c].at = "refund" => payout'[call[c].payout].status \in {"NONE", "CANCELLED"},
           call'[c].at \in StopSteps => payout'[call[c].payout].status # "NONE",
           \A d \in Calls \ {c} : call'[d] = call[d]
    PROVE  Inv'
<1>1. \A d \in Calls : call[d].payout \in Payouts
  BY DEF Inv, TypeOK, CallRecord
<1>2. RefundStep
  BY DEF RefundStep, Inv, TypeOK
<1>3. RefundedIsCancelled'
  BY DEF Inv, PayoutInv, RefundedIsCancelled, PayoutIs, RowsKept
<1>4. RefundGoesOn'
  <2> SUFFICES ASSUME NEW d \in Calls
               PROVE  /\ call'[d].at \in RefundSteps => payment[call'[d].payout].settled
                      /\ call'[d].at = "refund" =>
                            payout'[call'[d].payout].status \in {"NONE", "CANCELLED"}
                      /\ call'[d].at \in StopSteps => payout'[call'[d].payout].status # "NONE"
    BY DEF RefundGoesOn, PayoutIs
  <2>1. /\ call[d].at \in RefundSteps => payment[call[d].payout].settled
        /\ call[d].at = "refund" => payout[call[d].payout].status \in {"NONE", "CANCELLED"}
        /\ call[d].at \in StopSteps => payout[call[d].payout].status # "NONE"
    BY DEF Inv, PayoutInv, RefundGoesOn, PayoutIs
  <2>2. CASE d = c
    BY <2>1, <2>2
  <2>3. CASE d # c
    <3>1. call'[d] = call[d] /\ call[d].payout \in Payouts
      BY <1>1, <2>3
    <3>2. call[d].at = "refund" => payment[call[d].payout].settled
      BY <2>1 DEF RefundSteps
    <3> QED BY <2>1, <3>1, <3>2 DEF RowsKept
  <2> QED BY <2>2, <2>3
<1> QED BY <1>2, <1>3, <1>4, RefundStepKeepsInv

(* A call of a refund goes on, or returns.                                   *)
LEMMA RefundContinues ==
    ASSUME Inv, NEW c \in Calls, NEW at \in {"refund", "loss", "cancel", "inFlight"}, Continue(c, at)
    PROVE  /\ CallsHeard
           /\ call'[c].payout = call[c].payout /\ call'[c].at = at
           /\ \A d \in Calls \ {c} : call'[d] = call[d]
<1>1. /\ call' \in [Calls -> CallRecord]
      /\ call'[c] = [call[c] EXCEPT !.at = at]
      /\ \A d \in Calls \ {c} : call'[d] = call[d]
  BY CallContinues DEF Inv, CallSteps
<1>2. /\ call'[c].at = at /\ call'[c].status = call[c].status
      /\ call'[c].payout = call[c].payout
  BY <1>1 DEF Inv, TypeOK, CallRecord
<1>3. CallsHeard
  BY <1>1, <1>2 DEF CallsHeard, Inv, PayoutInv, HeardIsTrue
<1> QED BY <1>1, <1>2, <1>3

\* A call of a refund returns without one.
LEMMA RefundReturns ==
    ASSUME Inv, NEW c \in Calls, Return(c)
    PROVE  /\ CallsHeard
           /\ call'[c].payout = call[c].payout /\ call'[c].at = "idle"
           /\ \A d \in Calls \ {c} : call'[d] = call[d]
<1>1. /\ call' \in [Calls -> CallRecord]
      /\ call'[c] = Idle(call[c].payout)
      /\ \A d \in Calls \ {c} : call'[d] = call[d]
  BY CallReturns DEF Inv
<1>2. CallsHeard
  BY <1>1 DEF CallsHeard, Idle, Inv, PayoutInv, HeardIsTrue
<1> QED BY <1>1, <1>2 DEF Idle

\* A call that tried to stop a payout that was sent returns, or records a loss.
LEMMA RefundIsLoss ==
    ASSUME Inv, NEW c \in Calls, AlreadySent(c)
    PROVE  /\ CallsHeard
           /\ call'[c].payout = call[c].payout /\ call'[c].at \in {"idle", "loss"}
           /\ \A d \in Calls \ {c} : call'[d] = call[d]
<1>1. CASE Continue(c, "loss")
  BY <1>1, RefundContinues
<1>2. CASE Return(c)
  BY <1>2, RefundReturns
<1> QED BY <1>1, <1>2 DEF AlreadySent

\* A refund that comes first keeps the payout from being made.
LEMMA RefundPaymentStep ==
    ASSUME Inv, NEW c \in Calls, NEW p \in Payouts, NEW manual \in BOOLEAN, BeginRefund(c, p, manual)
    PROVE  RowsKept /\ Inv'
<1> DEFINE at == IF payment[p].settled THEN "stop" ELSE "refund"
<1>1. /\ payment' = [payment EXCEPT ![p].settled = TRUE]
      /\ call' = [call EXCEPT ![c] = [Idle(p) EXCEPT !.at = at, !.manual = manual]]
      /\ UNCHANGED <<payout, disbursement, job, sender, posted, crashes>>
  BY DEF BeginRefund
<1>2. at \in CallSteps /\ at \in {"stop", "refund"}
  BY DEF CallSteps
<1>3. /\ call' \in [Calls -> CallRecord]
      /\ call'[c].at = at /\ call'[c].payout = p
      /\ call'[c].disbursement = NoId /\ call'[c].status = "none"
      /\ \A d \in Calls \ {c} : call'[d] = call[d]
  <2> HIDE DEF at
  <2> DEFINE begun == [Idle(p) EXCEPT !.at = at, !.manual = manual]
  <2>1. /\ begun \in CallRecord /\ begun.at = at /\ begun.payout = p
        /\ begun.disbursement = NoId /\ begun.status = "none"
    <3>1. Idle(p) \in CallRecord
      BY DEF Idle, CallRecord, CallSteps, Ids, Answers
    <3>2. Idle(p).payout = p /\ Idle(p).disbursement = NoId /\ Idle(p).status = "none"
      BY DEF Idle
    <3> QED BY <1>2, <3>1, <3>2 DEF CallRecord
  <2>2. call' = [call EXCEPT ![c] = begun] /\ call \in [Calls -> CallRecord]
    BY <1>1 DEF Inv, TypeOK
  <2> HIDE DEF begun
  <2>3. call'[c] = begun
    BY <2>2
  <2> QED BY <2>1, <2>2, <2>3
<1>4. CallsHeard
  <2> HIDE DEF at
  <2>1. \A d \in Calls :
          /\ call[d].status = "SUCCEEDED" \/ call[d].at \in {"post", "stopPost"} => Arrived(call[d].payout)
          /\ call[d].at \in {"reconcile", "remote", "stopApply"} => call[d].disbursement \in Generations
    BY DEF Inv, PayoutInv, HeardIsTrue
  <2> QED BY <1>2, <1>3, <2>1 DEF CallsHeard
<1>5. /\ payment' \in [Payouts -> PaymentRow]
      /\ payment'[p].settled
      /\ \A q \in Payouts : /\ payment[q].settled => payment'[q].settled
                            /\ payment'[q].refunded = payment[q].refunded
  BY <1>1 DEF Inv, TypeOK, PaymentRow
<1>6. RowsKept
  BY <1>1, SameRows
<1>7. RefundStep
  BY <1>1, <1>4, <1>5, <1>6 DEF RefundStep
<1>8. RefundedIsCancelled'
  BY <1>1, <1>5 DEF Inv, PayoutInv, RefundedIsCancelled, PayoutIs
<1>9. RefundGoesOn'
  <2> SUFFICES ASSUME NEW d \in Calls
               PROVE  /\ call'[d].at \in RefundSteps => payment'[call'[d].payout].settled
                      /\ call'[d].at = "refund" =>
                            payout[call'[d].payout].status \in {"NONE", "CANCELLED"}
                      /\ call'[d].at \in StopSteps => payout[call'[d].payout].status # "NONE"
    BY <1>1 DEF RefundGoesOn, PayoutIs
  <2>1. CASE d = c
    <3>1. at = "refund" => payout[p].status = "NONE"
      BY DEF Inv, PayoutInv, MadeWhenSettled, PayoutIs
    <3> HIDE DEF at
    <3> QED BY <1>2, <1>3, <1>5, <2>1, <3>1 DEF StopSteps
  <2>2. CASE d # c
    <3>1. call'[d] = call[d] /\ call[d].payout \in Payouts
      BY <1>3, <2>2 DEF Inv, TypeOK, CallRecord
    <3>2. /\ call[d].at \in RefundSteps => payment[call[d].payout].settled
          /\ call[d].at = "refund" => payout[call[d].payout].status \in {"NONE", "CANCELLED"}
          /\ call[d].at \in StopSteps => payout[call[d].payout].status # "NONE"
      BY DEF Inv, PayoutInv, RefundGoesOn, PayoutIs
    <3> QED BY <1>5, <3>1, <3>2
  <2> QED BY <2>1, <2>2
<1> QED BY <1>6, <1>7, <1>8, <1>9, RefundStepKeepsInv

\* It goes on if there is no payout, or a cancelled one.
LEMMA StopReadStep ==
    ASSUME Inv, NEW c \in Calls, StopRead(c)
    PROVE  RowsKept /\ Inv'
<1>1. RowsKept
  BY SameRows DEF StopRead
<1>2. UNCHANGED <<payment, disbursement, job, sender, posted, crashes>> /\ UNCHANGED payout
  BY DEF StopRead
<1>3. call[c].at \in RefundSteps
  BY DEF StopRead, RefundSteps, StopSteps
<1>4. CASE PayoutIs(call[c].payout, {"NONE", "CANCELLED"}) /\ Continue(c, "refund")
  BY <1>1, <1>2, <1>3, <1>4, RefundContinues, RefundMoves DEF PayoutIs, StopSteps
<1>5. CASE PayoutIs(call[c].payout, {"PAID"}) /\ AlreadySent(c)
  BY <1>1, <1>2, <1>3, <1>5, RefundIsLoss, RefundMoves DEF PayoutIs, StopSteps
<1>6. CASE ~PayoutIs(call[c].payout, {"NONE", "CANCELLED"}) /\ Continue(c, "cancel")
  BY <1>1, <1>2, <1>3, <1>6, RefundContinues, RefundMoves DEF PayoutIs
<1> QED BY <1>1, <1>4, <1>5, <1>6 DEF StopRead

\* It goes on having cancelled the payout.
LEMMA StopCancelStep ==
    ASSUME Inv, NEW c \in Calls, StopCancel(c)
    PROVE  RowsKept /\ Inv'
<1> DEFINE p == call[c].payout
<1>1. p \in Payouts
  BY DEF Inv, TypeOK, CallRecord
<1>2. UNCHANGED <<payment, disbursement, job, sender, posted, crashes>>
  BY DEF StopCancel
<1>3. call[c].at \in RefundSteps
  BY DEF StopCancel, RefundSteps, StopSteps
<1>4. CASE NotSent(p)
  <2>1. SetPayoutStatus(p, "CANCELLED") /\ Continue(c, "refund")
    BY <1>4 DEF StopCancel
  <2>2. payout[p].status \in {"PENDING", "FAILED"}
    BY <1>4 DEF NotSent, PayoutIs
  <2>3. RowsKept
    BY <1>1, <2>1, <2>2, StatusKeepsRows, StatusesIncluded
  <2>4. payout'[p].status = "CANCELLED"
    <3>1. payout[p] \in PayoutRow /\ payout'[p] = [payout[p] EXCEPT !.status = "CANCELLED"]
      BY <1>1, <2>1, StatusWrite, StatusesIncluded DEF Inv, TypeOK
    <3> QED BY <3>1 DEF PayoutRow
  <2> QED BY <1>2, <1>3, <2>1, <2>3, <2>4, RefundContinues, RefundMoves
<1>5. CASE ~NotSent(p)
  <2>1. Continue(c, "inFlight") /\ UNCHANGED payout
    BY <1>5 DEF StopCancel
  <2>2. RowsKept
    BY <2>1, SameRows
  <2>3. payout'[p].status # "NONE"
    BY <2>1 DEF StopCancel, Inv, PayoutInv, RefundGoesOn, StopSteps, PayoutIs
  <2> QED BY <1>2, <1>3, <2>1, <2>2, <2>3, RefundContinues, RefundMoves
<1> QED BY <1>4, <1>5

\* It goes on if another call has cancelled the payout.
LEMMA StopInFlightStep ==
    ASSUME Inv, NEW c \in Calls, StopInFlight(c)
    PROVE  RowsKept /\ Inv'
<1> DEFINE p == call[c].payout
<1>1. RowsKept
  BY SameRows DEF StopInFlight
<1>2. UNCHANGED <<payment, payout, disbursement, job, sender, posted, crashes>>
  BY DEF StopInFlight
<1>3. call[c].at \in RefundSteps /\ p \in Payouts
  BY DEF StopInFlight, RefundSteps, StopSteps, Inv, TypeOK, CallRecord
<1>4. CASE PayoutIs(p, {"CANCELLED"}) /\ Continue(c, "refund")
  BY <1>1, <1>2, <1>3, <1>4, RefundContinues, RefundMoves DEF PayoutIs
<1>5. CASE Return(c)
  <2>1. /\ CallsHeard
        /\ call'[c].payout = call[c].payout /\ call'[c].at = "idle"
        /\ \A d \in Calls \ {c} : call'[d] = call[d]
    BY <1>5, RefundReturns
  <2> QED BY <1>1, <1>2, <1>3, <2>1, RefundMoves DEF StopSteps
<1>7. CASE AlreadySent(c)
  <2>1. payout'[p].status # "NONE"
    BY <1>2 DEF StopInFlight, Inv, PayoutInv, RefundGoesOn, StopSteps, PayoutIs
  <2> QED BY <1>1, <1>2, <1>3, <1>7, <2>1, RefundIsLoss, RefundMoves
<1>6. CASE payout[p].disbursement # NoId /\ CallFinds(c, "remote", payout[p].disbursement, "none")
  <2>1. payout[p].disbursement \in Generations
    BY <1>3, <1>6 DEF Inv, TypeOK, PayoutRow, Ids
  <2>2. RefundersKept /\ CallsHeard
    BY <1>3, <1>6, <2>1, FindsKept, StatusesIncluded
    DEF StopInFlight, CallSteps, RefundSteps, StopSteps
  <2>3. Quiet
    BY <1>1, <1>2, <2>2, SameDisbursements, SameSenders, SamePosted, SameRest DEF Quiet
  <2> QED BY <1>1, <2>3, QuietKeepsInv
<1> QED BY <1>1, <1>4, <1>5, <1>6, <1>7 DEF StopInFlight

\* It goes on if the payout is CANCELLED in the end.
LEMMA StopRecheckStep ==
    ASSUME Inv, NEW c \in Calls, StopRecheck(c)
    PROVE  RowsKept /\ Inv'
<1> DEFINE p == call[c].payout
<1>1. p \in Payouts
  BY DEF Inv, TypeOK, CallRecord
<1>2. UNCHANGED <<payment, disbursement, job, sender, posted, crashes>>
  BY DEF StopRecheck
<1>3. call[c].at \in RefundSteps
  BY DEF StopRecheck, RefundSteps, StopSteps
<1>4. RowsKept
  BY <1>1, SameRows, StatusKeepsRows, StatusesIncluded DEF StopRecheck, NotSent, PayoutIs
<1>5. CASE payout'[p].status = "CANCELLED" /\ Continue(c, "refund")
  BY <1>2, <1>3, <1>4, <1>5, RefundContinues, RefundMoves
<1>6. CASE payout'[p].status # "CANCELLED" /\ AlreadySent(c)
  <2>1. payout[p].status # "NONE"
    BY DEF StopRecheck, Inv, PayoutInv, RefundGoesOn, StopSteps, PayoutIs
  <2>2. payout'[p].status # "NONE"
    BY <1>1, <1>4, <2>1 DEF RowsKept
  <2> QED BY <1>2, <1>3, <1>4, <1>6, <2>2, RefundIsLoss, RefundMoves
<1> QED BY <1>4, <1>5, <1>6 DEF StopRecheck

\* A refund is recorded of a payout not to be sent, a loss of one that was made.
LEMMA CommitStep ==
    ASSUME Inv, NEW c \in Calls, RefundCommit(c) \/ LossCommit(c)
    PROVE  RowsKept /\ Inv'
<1> DEFINE p == call[c].payout
           row == payment[p]
           next == payment'[p]
<1>1. p \in Payouts /\ row \in PaymentRow
  BY DEF Inv, TypeOK, CallRecord
<1>2. UNCHANGED <<payout, disbursement, job, sender, posted, crashes>> /\ Return(c)
  BY DEF RefundCommit, LossCommit
<1>3. /\ next \in PaymentRow /\ next.settled /\ row.settled
      /\ next.refunded = "BACK" => payout[p].status \in {"NONE", "CANCELLED"}
      /\ next.refunded = "LOSS" => payout[p].status # "NONE"
      /\ payment' = [payment EXCEPT ![p] = next]
  <2>1. CASE RefundCommit(c)
    <3>1. PICK pending \in BOOLEAN :
             payment' = [payment EXCEPT ![p].refunded = "BACK", ![p].pending = pending]
      BY <1>1, <2>1 DEF RefundCommit, PaymentRow
    <3>2. next = [row EXCEPT !.refunded = "BACK", !.pending = pending]
      BY <1>1, <3>1 DEF Inv, TypeOK
    <3>3. row.settled /\ payout[p].status \in {"NONE", "CANCELLED"}
      BY <2>1 DEF RefundCommit, Inv, PayoutInv, RefundGoesOn, RefundSteps, PayoutIs
    <3> HIDE DEF row, next
    <3>4. next \in PaymentRow /\ next.refunded = "BACK" /\ next.settled = row.settled
      BY <1>1, <3>2 DEF PaymentRow
    <3> USE DEF next
    <3>5. payment' = [payment EXCEPT ![p] = next]
      BY <1>1, <3>1 DEF Inv, TypeOK
    <3> QED BY <3>3, <3>4, <3>5
  <2>2. CASE LossCommit(c)
    <3>1. payment' = [payment EXCEPT ![p].refunded = "LOSS"]
      BY <2>2 DEF LossCommit
    <3>2. next = [row EXCEPT !.refunded = "LOSS"]
      BY <1>1, <3>1 DEF Inv, TypeOK
    <3>3. row.settled /\ payout[p].status # "NONE"
      BY <2>2 DEF LossCommit, Inv, PayoutInv, RefundGoesOn, RefundSteps, StopSteps, PayoutIs
    <3> HIDE DEF row, next
    <3>4. next \in PaymentRow /\ next.refunded = "LOSS" /\ next.settled = row.settled
      BY <1>1, <3>2 DEF PaymentRow
    <3> USE DEF next
    <3>5. payment' = [payment EXCEPT ![p] = next]
      BY <1>1, <3>1 DEF Inv, TypeOK
    <3> QED BY <3>3, <3>4, <3>5
  <2> QED BY <2>1, <2>2
<1>4. /\ payment' \in [Payouts -> PaymentRow]
      /\ \A q \in Payouts \ {p} : payment'[q] = payment[q]
      /\ \A q \in Payouts : payment[q].settled => payment'[q].settled
  BY <1>1, <1>3 DEF Inv, TypeOK
<1>5. RefundersKept /\ CallsHeard
  BY <1>2, ReturnKept
<1>6. RowsKept
  BY <1>2, SameRows
<1>7. RefundStep
  BY <1>2, <1>4, <1>5, <1>6 DEF RefundStep
<1>8. RefundedIsCancelled'
  BY <1>2, <1>3, <1>4 DEF Inv, PayoutInv, RefundedIsCancelled, PayoutIs
<1>9. RefundGoesOn'
  <2> SUFFICES ASSUME NEW d \in Calls
               PROVE  /\ call'[d].at \in RefundSteps => payment'[call'[d].payout].settled
                      /\ call'[d].at = "refund" =>
                            payout[call'[d].payout].status \in {"NONE", "CANCELLED"}
                      /\ call'[d].at \in StopSteps => payout[call'[d].payout].status # "NONE"
    BY <1>2 DEF RefundGoesOn, PayoutIs
  <2>1. call'[d].payout \in Payouts
    BY <1>5 DEF CallsHeard, CallRecord
  <2>2. /\ call[d].at \in RefundSteps => payment[call[d].payout].settled
        /\ call[d].at = "refund" => payout[call[d].payout].status \in {"NONE", "CANCELLED"}
        /\ call[d].at \in StopSteps => payout[call[d].payout].status # "NONE"
    BY DEF Inv, PayoutInv, RefundGoesOn, PayoutIs
  <2>3. call'[d].at = "refund" \/ call'[d].at \in StopSteps => call'[d].at \in RefundSteps
    BY DEF RefundSteps
  <2> QED BY <1>4, <1>5, <2>1, <2>2, <2>3 DEF RefundersKept
<1> QED BY <1>6, <1>7, <1>8, <1>9, RefundStepKeepsInv

-----------------------------------------------------------------------------
(* The invariant.                                                           *)

\* The invariant holds at first.
LEMMA InitInv == Init => Inv
<1> SUFFICES ASSUME Init PROVE Inv
  OBVIOUS
<1>1. /\ \A p \in Payouts : /\ payment[p] = [settled |-> FALSE, refunded |-> "NO", pending |-> FALSE]
                            /\ payout[p] = [status |-> "NONE", disbursement |-> NoId,
                                            attempted |-> FALSE, retryGeneration |-> 0]
                            /\ sender[p] = NoSender
                            /\ \A g \in Generations : disbursement[p][g] = "none"
      /\ \A c \in Calls : \E p \in Payouts : call[c] = Idle(p)
  BY DEF Init
<1>2. TypeOK
  <2>1. 0 \in Generations
    BY ConstantsAssumption DEF Generations
  <2>2. /\ payment \in [Payouts -> PaymentRow]
        /\ posted \in [Payouts -> BOOLEAN] /\ crashes \in 0 .. MaxCrashes
    BY ConstantsAssumption DEF Init, PaymentRow
  <2>3. payout \in [Payouts -> PayoutRow]
    BY <2>1 DEF Init, PayoutRow, PayoutStatuses, Ids
  <2>4. disbursement \in [Payouts -> [Generations -> Answers]]
    BY DEF Init, Answers
  <2>5. job \in [Payouts -> JobRecord]
    BY ConstantsAssumption DEF Init, JobRecord, NoJob
  <2>6. sender \in [Payouts -> SenderRecord]
    BY <2>1 DEF Init, NoSender, SenderRecord, SendSteps, Ids, Answers
  <2>7. call \in [Calls -> CallRecord]
    <3>1. \A p \in Payouts : Idle(p) \in CallRecord
      BY DEF Idle, CallRecord, CallSteps, Ids, Answers
    <3> QED BY <3>1 DEF Init
  <2> QED BY <2>2, <2>3, <2>4, <2>5, <2>6, <2>7 DEF TypeOK
<1>3. OneTransfer /\ NoneBeforeAttempt /\ NoneWhenAsked
  BY <1>1 DEF OneTransfer, NoneBeforeAttempt, NoneWhenAsked, LiveDisbursements,
              LIVE_PAYOUT_STATUSES, NoSender
<1>4. RefundedIsCancelled /\ MadeWhenSettled
  BY <1>1 DEF RefundedIsCancelled, MadeWhenSettled, PayoutIs
<1>5. \A c \in Calls : /\ call[c].at = "idle" /\ call[c].status = "none"
                       /\ call[c].disbursement = NoId
  <2> TAKE c \in Calls
  <2>1. PICK p \in Payouts : call[c] = Idle(p)
    BY <1>1
  <2> QED BY <2>1 DEF Idle
<1>6. RefundGoesOn
  BY <1>5 DEF RefundGoesOn, RefundSteps, StopSteps
<1>7. PaidHasArrived
  BY <1>1 DEF PaidHasArrived, PayoutIs, Init
<1>8. HeardIsTrue
  BY <1>1, <1>5 DEF HeardIsTrue, NoSender
<1> QED BY <1>2, <1>3, <1>4, <1>6, <1>7, <1>8 DEF Inv, PayoutInv

\* Every step keeps the invariant.
LEMMA StepInv == Inv /\ [Next]_vars => Inv'
<1> SUFFICES ASSUME Inv, [Next]_vars PROVE Inv'
  OBVIOUS
<1>1. CASE UNCHANGED vars
  <2>1. Quiet
    BY <1>1, SameRows, SameDisbursements, SameSenders, SameCalls, SamePosted, SameRest DEF vars, Quiet
  <2> QED BY <2>1, QuietKeepsInv
<1>2. ASSUME NEW p \in Payouts, SettleWorkerEarnings(p) \/ RequeuePayout(p) \/ Crash(p) \/ ReconcilePendingRefund(p)
      PROVE  Inv'
  BY <1>2, SettleQuiet, RequeueQuiet, CrashQuiet, ReconcileRefundQuiet, QuietKeepsInv
<1>3. ASSUME NEW p \in Payouts, SenderStep(p)
      PROVE  Inv'
  BY <1>3, SendReadStep, SendClaimStep, SendLookupStep, SendCreateStep, SendErrorStep, SendRecordQuiet,
     SendApplyQuiet, SendPostQuiet, SendThrowQuiet, QuietKeepsInv DEF SenderStep
<1>4. ASSUME NEW p \in Payouts, NEW g \in Generations, Disburse(p, g)
      PROVE  Inv'
  BY <1>4, DisburseQuiet, QuietKeepsInv
<1>5. ASSUME NEW c \in Calls, CallStep(c)
      PROVE  Inv'
  BY <1>5, RetryQueueQuiet, PostPayoutSentQuiet, ReconcileQuiet, RecoverLookupQuiet, RecoverPayoutQuiet,
     StopRemoteQuiet, StopApplyQuiet, StopPostQuiet, QuietKeepsInv, StopReadStep, StopCancelStep,
     StopInFlightStep, StopRecheckStep, CommitStep DEF CallStep
<1>6. ASSUME NEW c \in Calls, Fail(c)
      PROVE  Inv'
  BY <1>6, FailQuiet, QuietKeepsInv
<1>7. ASSUME NEW c \in Calls, NEW p \in Payouts,
             \/ RetryPayout(c, p) \/ ListStale(c, p) \/ ListOrphaned(c, p)
             \/ RefundPayment(c, p) \/ MarkRefundedManually(c, p)
      PROVE  Inv'
  BY <1>7, RetryQuiet, ListStaleQuiet, ListOrphanedQuiet, RefundPaymentStep, QuietKeepsInv
  DEF RefundPayment, MarkRefundedManually
<1>8. ASSUME NEW c \in Calls, NEW p \in Payouts, NEW g \in Generations, PayoutWebhook(c, p, g)
      PROVE  Inv'
  BY <1>8, PayoutWebhookQuiet, QuietKeepsInv
<1> QED
  BY <1>1, <1>2, <1>3, <1>4, <1>5, <1>6, <1>7, <1>8 DEF Next

(* What is PAID stays so, and no transfer is made while its own lives.       *)
PaidStays ==
    \A p \in Payouts : PayoutIs(p, {"PAID"}) =>
        /\ payout'[p].status = "PAID"
        /\ LiveDisbursements(p) # {} =>
              \A g \in Generations : disbursement[p][g] = "none" => disbursement'[p][g] = "none"

\* Where rows and transfers are kept, what is PAID is.
LEMMA KeptIsPaid ==
    ASSUME RowsKept, DisbursementsKept
    PROVE  PaidStays
BY DEF PaidStays, RowsKept, DisbursementsKept, PayoutIs

\* A step that keeps everything keeps what is PAID.
LEMMA QuietIsPaid ==
    ASSUME Quiet
    PROVE  PaidStays
BY KeptIsPaid DEF Quiet

\* The sender writes no row that has ended, and asks only where none lives.
LEMMA SenderIsPaid ==
    ASSUME Inv, NEW p \in Payouts,
           SendRead(p) \/ SendClaim(p) \/ SendLookup(p) \/ SendCreate(p) \/ SendError(p)
    PROVE  PaidStays
<1> DEFINE g == PayoutIdempotencyKey(sender[p].retryGeneration)
<1>0. g \in Generations
  BY DEF PayoutIdempotencyKey, Inv, TypeOK, SenderRecord
<1>1. \A q \in Payouts : payout[q].status = "PAID" => payout'[q].status = "PAID"
  <2>1. CASE UNCHANGED payout
    BY <2>1
  <2>2. CASE SendClaim(p) /\ PayoutIs(p, {"PENDING"})
    <3>1. payout' = [payout EXCEPT ![p].status = "PROCESSING", ![p].attempted = TRUE]
      BY <2>2 DEF SendClaim
    <3>2. \A q \in Payouts \ {p} : payout'[q] = payout[q]
      BY <3>1 DEF Inv, TypeOK
    <3> QED BY <2>2, <3>2 DEF PayoutIs
  <2>3. CASE SendError(p) /\ PayoutIs(p, {"PROCESSING"})
    <3>1. PICK status : SetPayoutStatus(p, status)
      BY <2>3 DEF SendError
    <3>2. \A q \in Payouts \ {p} : payout'[q] = payout[q]
      BY <3>1 DEF SetPayoutStatus, Inv, TypeOK
    <3> QED BY <2>3, <3>2 DEF PayoutIs
  <2> QED BY <2>1, <2>2, <2>3 DEF SendRead, SendClaim, SendLookup, SendCreate, SendError
<1>2. CASE UNCHANGED disbursement
  BY <1>1, <1>2 DEF PaidStays, PayoutIs
<1>3. CASE sender[p].at = "create" /\ CreatePayout(p, g)
  <2>1. LiveDisbursements(p) = {}
    BY <1>3 DEF Inv, PayoutInv, NoneWhenAsked
  <2>2. \A q \in Payouts \ {p} : disbursement'[q] = disbursement[q]
    <3> HIDE DEF g
    <3> QED BY <1>3 DEF CreatePayout, Inv, TypeOK
  <2> QED BY <1>1, <2>1, <2>2 DEF PaidStays, PayoutIs
<1> QED BY <1>2, <1>3 DEF SendRead, SendClaim, SendLookup, SendCreate, SendError

\* Every step keeps what is PAID.
LEMMA StepIsPaid == Inv /\ [Next]_vars => PaidStays
<1> SUFFICES ASSUME Inv, [Next]_vars PROVE PaidStays
  OBVIOUS
<1>1. CASE UNCHANGED vars
  BY <1>1, SameRows, SameDisbursements, KeptIsPaid DEF vars
<1>2. ASSUME NEW p \in Payouts, SettleWorkerEarnings(p) \/ RequeuePayout(p) \/ Crash(p) \/ ReconcilePendingRefund(p)
      PROVE  PaidStays
  BY <1>2, SettleQuiet, RequeueQuiet, CrashQuiet, ReconcileRefundQuiet, QuietIsPaid
<1>3. ASSUME NEW p \in Payouts, SenderStep(p)
      PROVE  PaidStays
  BY <1>3, SenderIsPaid, SendRecordQuiet, SendApplyQuiet, SendPostQuiet, SendThrowQuiet, QuietIsPaid
  DEF SenderStep
<1>4. ASSUME NEW p \in Payouts, NEW g \in Generations, Disburse(p, g)
      PROVE  PaidStays
  BY <1>4, DisburseQuiet, QuietIsPaid
<1>5. ASSUME NEW c \in Calls,
             \/ StopRead(c) \/ StopCancel(c) \/ StopInFlight(c) \/ StopRecheck(c)
             \/ RefundCommit(c) \/ LossCommit(c)
      PROVE  PaidStays
  <2>1. RowsKept
    BY <1>5, StopReadStep, StopCancelStep, StopInFlightStep, StopRecheckStep, CommitStep
  <2>2. DisbursementsKept
    BY <1>5, SameDisbursements
    DEF StopRead, StopCancel, StopInFlight, StopRecheck, RefundCommit, LossCommit
  <2> QED BY <2>1, <2>2, KeptIsPaid
<1>6. ASSUME NEW c \in Calls, CallStep(c) \/ Fail(c)
      PROVE  PaidStays
  BY <1>5, <1>6, RetryQueueQuiet, PostPayoutSentQuiet, ReconcileQuiet, RecoverLookupQuiet,
     RecoverPayoutQuiet, StopRemoteQuiet, StopApplyQuiet, StopPostQuiet, FailQuiet, QuietIsPaid DEF CallStep
<1>7. ASSUME NEW c \in Calls, NEW p \in Payouts, RefundPayment(c, p) \/ MarkRefundedManually(c, p)
      PROVE  PaidStays
  <2>1. PICK manual \in BOOLEAN : BeginRefund(c, p, manual)
    BY <1>7 DEF RefundPayment, MarkRefundedManually
  <2>2. UNCHANGED disbursement
    BY <2>1 DEF BeginRefund
  <2> QED BY <2>1, <2>2, RefundPaymentStep, SameDisbursements, KeptIsPaid
<1>8. ASSUME NEW c \in Calls, NEW p \in Payouts,
             RetryPayout(c, p) \/ ListStale(c, p) \/ ListOrphaned(c, p)
      PROVE  PaidStays
  BY <1>8, RetryQuiet, ListStaleQuiet, ListOrphanedQuiet, QuietIsPaid
<1>9. ASSUME NEW c \in Calls, NEW p \in Payouts, NEW g \in Generations, PayoutWebhook(c, p, g)
      PROVE  PaidStays
  BY <1>9, PayoutWebhookQuiet, QuietIsPaid
<1> QED
  BY <1>1, <1>2, <1>3, <1>4, <1>6, <1>7, <1>8, <1>9 DEF Next

-----------------------------------------------------------------------------

\* The invariant holds of every execution, for any number of payouts, calls,
\* retries, attempts and crashes.
THEOREM PayoutSafe == Spec => []Inv
BY InitInv, StepInv, PTL DEF Spec

\* No run of the sender, sweep, webhook or refund writes a value its record
\* cannot hold, and no job is tried more often than it may be.
THEOREM PayoutTypeCorrect == Spec => []TypeOK
<1>1. Inv => TypeOK
  BY DEF Inv
<1> QED BY <1>1, PayoutSafe, PTL

\* A worker is never sent the same earnings twice: the lookup before a repeated
\* attempt and the one active run of a job are enough.
THEOREM SentOnce == Spec => []OneTransfer
<1>1. Inv => OneTransfer
  BY DEF Inv, PayoutInv
<1> QED BY <1>1, PayoutSafe, PTL

\* The whole of what the sending and the refund rely on.
THEOREM PayoutConsistent == Spec => []PayoutInv
<1>1. Inv => PayoutInv
  BY DEF Inv
<1> QED BY <1>1, PayoutSafe, PTL

\* The worker's part of a payment is taken back from him only with no payout, or
\* a cancelled one; a refund that leaves him one is recorded as a loss.
THEOREM RefundFindsUnpaid == Spec => []RefundedIsCancelled
<1>1. Inv => RefundedIsCancelled
  BY DEF Inv, PayoutInv
<1> QED BY <1>1, PayoutSafe, PTL

\* Nothing is recorded as paid, or posted to the ledger, that has not arrived.
THEOREM PaidArrived == Spec => []PaidHasArrived
<1>1. Inv => PaidHasArrived
  BY DEF Inv, PayoutInv
<1> QED BY <1>1, PayoutSafe, PTL

\* A PAID payout is never reopened, and nothing more is sent for it while its
\* transfer stands.
THEOREM PaidForGood == Spec => PaidNotSentAgain
<1>1. Inv /\ [Next]_vars => [PaidStays]_vars
  BY StepIsPaid
<1>2. Spec => [][PaidStays]_vars
  BY <1>1, PayoutSafe, PTL DEF Spec
<1> QED BY <1>2 DEF PaidNotSentAgain, PaidStays

-----------------------------------------------------------------------------
(* What the platform promises about the worker's earnings (Earnings).       *)

Open == {"PENDING", "PROCESSING", "FAILED"}
Outline(status) == IF status \in Open THEN "OPEN" ELSE status

\* Of all rows, that of p may change its status: among the open ones, or to
\* PAID or CANCELLED from there.
StatusMoves(p) ==
    /\ \A q \in Payouts \ {p} : payout'[q].status = payout[q].status
    /\ \/ payout'[p].status = payout[p].status
       \/ payout[p].status \in Open /\ payout'[p].status \in Open \cup {"PAID", "CANCELLED"}

\* A function that changes in one place.
LEMMA ChangedAt ==
    ASSUME NEW S, NEW T, NEW f \in [S -> T], NEW g \in [S -> T], NEW p \in S, NEW v \in T,
           g[p] = v, \A q \in S \ {p} : g[q] = f[q]
    PROVE  g = [f EXCEPT ![p] = v]
OBVIOUS

\* What the earnings of one payment may become: the same, claimed, a payout that
\* ends, or money given back, lost or not given back after all.
LEMMA MoveImplements ==
    ASSUME NEW p \in Payouts,
           payment \in [Payouts -> PaymentRow],
           payment' \in [Payouts -> PaymentRow],
           payout \in [Payouts -> PayoutRow], payout' \in [Payouts -> PayoutRow],
           \A q \in Payouts \ {p} : payment'[q] = payment[q]
                                   /\ Outline(payout'[q].status) = Outline(payout[q].status),
           NEW x, x = Outline(payout[p].status), NEW y, y = Outline(payout'[p].status),
           NEW c, c = payment[p].settled, NEW d, d = payment'[p].settled,
           NEW r, r = payment[p].refunded, NEW s, s = payment'[p].refunded,
           \/ d = c /\ s = r /\ y = x
           \/ ~c /\ d /\ s = r /\ x = "NONE" /\ y \in {"NONE", "OPEN"}
           \/ d = c /\ s = r /\ x = "OPEN" /\ y \in {"PAID", "CANCELLED"}
           \/ d = c /\ s = "BACK" /\ y = x /\ c /\ x \in {"NONE", "CANCELLED"}
           \/ d = c /\ s = "LOSS" /\ y = x /\ c /\ x # "NONE"
           \/ d = c /\ s = "NO" /\ y = x
    PROVE  [OfWorker!Next]_(OfWorker!vars)
<1> DEFINE C == [q \in Payouts |-> payment[q].settled]
           P == [q \in Payouts |-> Outline(payout[q].status)]
           R == [q \in Payouts |-> payment[q].refunded]
           T == {"NONE", "OPEN", "PAID", "CANCELLED"}
           U == {"NO", "BACK", "LOSS"}
<1>1. /\ C \in [Payouts -> BOOLEAN] /\ C' \in [Payouts -> BOOLEAN]
      /\ C[p] = c /\ C'[p] = d /\ c \in BOOLEAN /\ d \in BOOLEAN
      /\ \A q \in Payouts \ {p} : C'[q] = C[q]
  BY DEF PaymentRow
<1>2. /\ R \in [Payouts -> U] /\ R' \in [Payouts -> U]
      /\ R[p] = r /\ R'[p] = s /\ r \in U /\ s \in U
      /\ \A q \in Payouts \ {p} : R'[q] = R[q]
  BY DEF PaymentRow
<1>3. /\ P \in [Payouts -> T] /\ P' \in [Payouts -> T]
      /\ P[p] = x /\ P'[p] = y /\ x \in T /\ y \in T
      /\ \A q \in Payouts \ {p} : P'[q] = P[q]
  <2>1. \A row \in PayoutRow : Outline(row.status) \in T
    BY DEF PayoutRow, PayoutStatuses, Outline, Open
  <2> QED BY <2>1
<1>4. OfWorker!vars = <<C, P, R>> /\ OfWorker!vars' = <<C, P, R>>'
  BY DEF OfWorker!vars, PayoutIs, Outline, Open
<1>5. /\ OfWorker!Claim(p) <=> /\ ~C[p] /\ C' = [C EXCEPT ![p] = TRUE]
                              /\ \E first \in {"NONE", "OPEN"} : P' = [P EXCEPT ![p] = first]
                              /\ UNCHANGED R
      /\ OfWorker!Send(p) <=> P[p] = "OPEN" /\ P' = [P EXCEPT ![p] = "PAID"] /\ UNCHANGED <<C, R>>
      /\ OfWorker!Stop(p) <=> P[p] = "OPEN" /\ P' = [P EXCEPT ![p] = "CANCELLED"] /\ UNCHANGED <<C, R>>
      /\ OfWorker!Return(p) <=> /\ C[p] /\ P[p] \in {"NONE", "CANCELLED"}
                               /\ R' = [R EXCEPT ![p] = "BACK"] /\ UNCHANGED <<C, P>>
      /\ OfWorker!Lose(p) <=> /\ C[p] /\ P[p] # "NONE"
                             /\ R' = [R EXCEPT ![p] = "LOSS"] /\ UNCHANGED <<C, P>>
      /\ OfWorker!Restore(p) <=> R' = [R EXCEPT ![p] = "NO"] /\ UNCHANGED <<C, P>>
  BY DEF PayoutIs, Outline, Open, OfWorker!Claim, OfWorker!Send, OfWorker!Stop, OfWorker!Return,
         OfWorker!Lose, OfWorker!Restore
<1> HIDE DEF C, P, R, T, U
<1>7. C' = [C EXCEPT ![p] = d] /\ P' = [P EXCEPT ![p] = y] /\ R' = [R EXCEPT ![p] = s]
  BY <1>1, <1>2, <1>3, ChangedAt
<1>8. (d = c => UNCHANGED C) /\ (y = x => UNCHANGED P) /\ (s = r => UNCHANGED R)
  BY <1>1, <1>2, <1>3
<1>9. \/ OfWorker!Claim(p) \/ OfWorker!Send(p) \/ OfWorker!Stop(p) \/ OfWorker!Return(p)
      \/ OfWorker!Lose(p) \/ OfWorker!Restore(p) \/ UNCHANGED <<C, P, R>>
  <2>1. CASE d = c /\ s = r /\ y = x
    BY <1>8, <2>1
  <2>2. CASE ~c /\ d /\ s = r /\ x = "NONE" /\ y \in {"NONE", "OPEN"}
    <3>1. d = TRUE
      BY <1>1, <2>2
    <3> QED BY <1>1, <1>5, <1>7, <1>8, <2>2, <3>1
  <2>3. CASE d = c /\ s = r /\ x = "OPEN" /\ y \in {"PAID", "CANCELLED"}
    BY <1>3, <1>5, <1>7, <1>8, <2>3
  <2>4. CASE d = c /\ s = "BACK" /\ y = x /\ c /\ x \in {"NONE", "CANCELLED"}
    BY <1>1, <1>3, <1>5, <1>7, <1>8, <2>4
  <2>5. CASE d = c /\ s = "LOSS" /\ y = x /\ c /\ x # "NONE"
    BY <1>1, <1>3, <1>5, <1>7, <1>8, <2>5
  <2>6. CASE d = c /\ s = "NO" /\ y = x
    BY <1>5, <1>7, <1>8, <2>6
  <2> QED BY <2>1, <2>2, <2>3, <2>4, <2>5, <2>6
<1> QED BY <1>4, <1>9 DEF OfWorker!Next

\* A step that changes no payment, and one row at most.
LEMMA StatusImplements ==
    ASSUME TypeOK, TypeOK', UNCHANGED payment, NEW p \in Payouts, StatusMoves(p)
    PROVE  [OfWorker!Next]_(OfWorker!vars)
<1>1. \/ Outline(payout'[p].status) = Outline(payout[p].status)
      \/ Outline(payout[p].status) = "OPEN" /\ Outline(payout'[p].status) \in {"PAID", "CANCELLED"}
  BY DEF StatusMoves, Outline, Open
<1>2. \A q \in Payouts \ {p} : payment'[q] = payment[q]
                             /\ Outline(payout'[q].status) = Outline(payout[q].status)
  BY DEF StatusMoves
<1>3. payment'[p] = payment[p]
  OBVIOUS
<1> QED BY <1>1, <1>2, <1>3, MoveImplements DEF TypeOK

\* A step that changes neither.
LEMMA SameImplements ==
    ASSUME UNCHANGED <<payment, payout>>
    PROVE  [OfWorker!Next]_(OfWorker!vars)
BY DEF OfWorker!vars, PayoutIs

\* A report ends an open payout, or none.
LEMMA ApplyMoves ==
    ASSUME TypeOK, NEW p \in Payouts, NEW status \in Answers, NEW id \in Generations,
           NEW seen \in Ids, ApplyXenditPayoutStatus(p, status, id, seen)
    PROVE  StatusMoves(p)
<1>1. \A q \in Payouts \ {p} : payout'[q] = payout[q]
  BY DEF ApplyXenditPayoutStatus, TypeOK
<1>2. \/ payout'[p].status = payout[p].status
      \/ /\ payout[p].status \in {"PENDING", "PROCESSING", "FAILED"}
         /\ payout'[p].status \in {"PAID", "FAILED", "CANCELLED"}
  BY ApplyEffect
<1> QED BY <1>1, <1>2 DEF StatusMoves, Open

\* An open row is written.
LEMMA WriteMoves ==
    ASSUME TypeOK, NEW p \in Payouts, payout[p].status \in Open,
           NEW status \in Open \cup {"CANCELLED"}, SetPayoutStatus(p, status)
    PROVE  StatusMoves(p)
<1>1. payout[p] \in PayoutRow /\ status \in PayoutStatuses
  BY DEF TypeOK, Open, PayoutStatuses
<1>2. /\ payout'[p] = [payout[p] EXCEPT !.status = status]
      /\ \A q \in Payouts : q # p => payout'[q] = payout[q]
  BY <1>1, StatusWrite
<1>3. payout'[p].status = status
  BY <1>1, <1>2 DEF PayoutRow
<1> QED BY <1>2, <1>3 DEF StatusMoves

\* The sender writes the row of an open payout, or what a report says.
LEMMA SenderImplements ==
    ASSUME Inv, Inv', NEW p \in Payouts, SenderStep(p)
    PROVE  [OfWorker!Next]_(OfWorker!vars)
<1>1. TypeOK /\ TypeOK' /\ payout[p] \in PayoutRow /\ sender[p] \in SenderRecord
  BY DEF Inv, TypeOK
<1>2. CASE UNCHANGED <<payment, payout>>
  BY <1>2, SameImplements
<1>3. CASE SendClaim(p) /\ PayoutIs(p, {"PENDING"})
  <2>1. UNCHANGED payment /\ payout' = [payout EXCEPT ![p].status = "PROCESSING", ![p].attempted = TRUE]
    BY <1>3 DEF SendClaim
  <2>2. payout'[p] = [payout[p] EXCEPT !.status = "PROCESSING", !.attempted = TRUE]
        /\ \A q \in Payouts \ {p} : payout'[q] = payout[q]
    BY <1>1, <2>1 DEF TypeOK
  <2>3. payout'[p].status = "PROCESSING" /\ payout[p].status = "PENDING"
    BY <1>1, <1>3, <2>2 DEF PayoutRow, PayoutIs
  <2>4. StatusMoves(p)
    BY <2>2, <2>3 DEF StatusMoves, Open
  <2> QED BY <1>1, <2>1, <2>4, StatusImplements
<1>4. CASE SendRecord(p)
  <2>1. UNCHANGED payment /\ payout' = [payout EXCEPT ![p].disbursement = sender[p].disbursement]
    BY <1>4 DEF SendRecord
  <2>2. payout'[p] = [payout[p] EXCEPT !.disbursement = sender[p].disbursement]
        /\ \A q \in Payouts \ {p} : payout'[q] = payout[q]
    BY <1>1, <2>1 DEF TypeOK
  <2>3. payout'[p].status = payout[p].status
    BY <1>1, <2>2 DEF PayoutRow
  <2>4. StatusMoves(p)
    BY <2>2, <2>3 DEF StatusMoves
  <2> QED BY <1>1, <2>1, <2>4, StatusImplements
<1>5. CASE SendApply(p)
  <2>1. sender[p].disbursement \in Generations /\ sender[p].status \in Answers
        /\ sender[p].disbursement \in Ids
    BY <1>1, <1>5 DEF SendApply, Inv, PayoutInv, HeardIsTrue, SenderRecord
  <2>2. StatusMoves(p)
    BY <1>1, <1>5, <2>1, ApplyMoves DEF SendApply
  <2> QED BY <1>1, <1>5, <2>2, StatusImplements DEF SendApply
<1>6. CASE SendError(p) /\ PayoutIs(p, {"PROCESSING"})
  <2>1. PICK status \in {"PENDING", "FAILED"} : SetPayoutStatus(p, status)
    BY <1>6 DEF SendError
  <2>2. StatusMoves(p)
    BY <1>1, <1>6, <2>1, WriteMoves DEF Open, PayoutIs
  <2> QED BY <1>1, <1>6, <2>2, StatusImplements DEF SendError
<1>7. SendRead(p) \/ SendLookup(p) \/ SendCreate(p) \/ SendPost(p) \/ SendThrow(p) =>
        UNCHANGED <<payment, payout>>
  BY DEF SendRead, SendLookup, SendCreate, SendPost, SendThrow
<1>8. SendClaim(p) /\ ~PayoutIs(p, {"PENDING"}) => UNCHANGED <<payment, payout>>
  BY DEF SendClaim
<1>9. SendError(p) /\ ~PayoutIs(p, {"PROCESSING"}) => UNCHANGED <<payment, payout>>
  BY DEF SendError
<1> QED BY <1>2, <1>3, <1>4, <1>5, <1>6, <1>7, <1>8, <1>9 DEF SenderStep

\* So do an admin's retry, a webhook, the sweep and a refund.
LEMMA CallImplements ==
    ASSUME Inv, Inv', NEW c \in Calls,
           \/ RetryQueue(c) \/ ReconcilePayout(c) \/ RecoverPayout(c) \/ StopCancel(c)
           \/ StopApply(c) \/ StopRecheck(c)
    PROVE  [OfWorker!Next]_(OfWorker!vars)
<1> DEFINE p == call[c].payout
           id == call[c].disbursement
<1>1. TypeOK /\ TypeOK' /\ p \in Payouts /\ id \in Ids /\ call[c].status \in Answers
      /\ NoId \in Ids
  BY DEF Inv, TypeOK, CallRecord, Ids
<1>2. UNCHANGED payment
  BY DEF RetryQueue, ReconcilePayout, RecoverPayout, StopCancel, StopApply, StopRecheck
<1>3. CASE UNCHANGED payout
  BY <1>2, <1>3, SameImplements
<1>4. ASSUME payout[p].status \in Open, NEW status \in Open \cup {"CANCELLED"}, SetPayoutStatus(p, status)
      PROVE  [OfWorker!Next]_(OfWorker!vars)
  BY <1>1, <1>2, <1>4, WriteMoves, StatusImplements
<1>5. ASSUME id \in Generations, NEW status \in Answers, NEW seen \in Ids,
             ApplyXenditPayoutStatus(p, status, id, seen)
      PROVE  [OfWorker!Next]_(OfWorker!vars)
  BY <1>1, <1>2, <1>5, ApplyMoves, StatusImplements
<1>6. CASE RetryQueue(c)
  BY <1>3, <1>4, <1>6 DEF RetryQueue, PayoutIs, Open
<1>7. CASE ReconcilePayout(c)
  <2>1. id \in Generations /\ disbursement[p][id] \in Answers
    BY <1>1, <1>7 DEF ReconcilePayout, Inv, PayoutInv, HeardIsTrue, TypeOK
  <2> QED BY <1>1, <1>5, <1>7, <2>1 DEF ReconcilePayout
<1>8. CASE RecoverPayout(c)
  <2>1. CASE id = NoId
    BY <1>3, <1>4, <1>8, <2>1 DEF RecoverPayout, PayoutIs, Open
  <2>2. CASE id # NoId
    <3>1. id \in Generations
      BY <1>1, <2>2 DEF Ids
    <3> QED BY <1>1, <1>5, <1>8, <2>2, <3>1 DEF RecoverPayout
  <2> QED BY <2>1, <2>2
<1>9. CASE StopApply(c)
  <2>1. id \in Generations
    BY <1>9 DEF StopApply, Inv, PayoutInv, HeardIsTrue
  <2> QED BY <1>1, <1>5, <1>9, <2>1 DEF StopApply
<1>10. CASE StopCancel(c) \/ StopRecheck(c)
  BY <1>3, <1>4, <1>10 DEF StopCancel, StopRecheck, NotSent, PayoutIs, Open
<1> QED BY <1>6, <1>7, <1>8, <1>9, <1>10

\* A FAILED payout is tried again: it is still open.
LEMMA RetryImplements ==
    ASSUME Inv, Inv', NEW c \in Calls, NEW p \in Payouts, RetryPayout(c, p)
    PROVE  [OfWorker!Next]_(OfWorker!vars)
<1>1. TypeOK /\ TypeOK' /\ payout[p] \in PayoutRow /\ UNCHANGED payment
      /\ payout[p].status = "FAILED"
  BY DEF Inv, TypeOK, RetryPayout, PayoutIs
<1>2. /\ payout'[p] = [payout[p] EXCEPT !.status = "PENDING", !.retryGeneration = @ + 1]
      /\ \A q \in Payouts \ {p} : payout'[q] = payout[q]
  BY <1>1 DEF RetryPayout, TypeOK
<1>3. payout'[p].status = "PENDING"
  BY <1>1, <1>2 DEF PayoutRow
<1>4. StatusMoves(p)
  BY <1>1, <1>2, <1>3 DEF StatusMoves, Open
<1> QED BY <1>1, <1>4, StatusImplements

\* A webhook says how a disbursement ended.
LEMMA WebhookImplements ==
    ASSUME Inv, Inv', NEW c \in Calls, NEW p \in Payouts, NEW g \in Generations, PayoutWebhook(c, p, g)
    PROVE  [OfWorker!Next]_(OfWorker!vars)
<1>1. PICK status \in Reported(disbursement[p][g]) :
        ApplyXenditPayoutStatus(p, status, g, payout[p].disbursement)
  BY DEF PayoutWebhook
<1>2. /\ TypeOK /\ TypeOK' /\ disbursement[p][g] \in Answers /\ payout[p].disbursement \in Ids
      /\ UNCHANGED payment
  BY DEF Inv, TypeOK, PayoutRow, PayoutWebhook
<1>3. status \in Answers
  BY <1>2 DEF Reported, Answers, RemoteStatuses
<1> QED BY <1>1, <1>2, <1>3, ApplyMoves, StatusImplements

\* The settlement and a refund claim the earnings, the refund goes through, at
\* the worker's expense or as a loss, or is taken back.
LEMMA PaymentImplements ==
    ASSUME Inv, Inv', NEW p \in Payouts,
           \/ SettleWorkerEarnings(p) \/ ReconcilePendingRefund(p)
           \/ \E c \in Calls :
                 \/ RefundPayment(c, p) \/ MarkRefundedManually(c, p)
                 \/ p = call[c].payout /\ (RefundCommit(c) \/ LossCommit(c))
    PROVE  [OfWorker!Next]_(OfWorker!vars)
<1>1. /\ payment \in [Payouts -> PaymentRow] /\ payment[p] \in PaymentRow
      /\ payment' \in [Payouts -> PaymentRow]
      /\ payout \in [Payouts -> PayoutRow] /\ payout' \in [Payouts -> PayoutRow]
      /\ (~payment[p].settled => payout[p].status = "NONE")
  BY DEF Inv, TypeOK, PayoutInv, MadeWhenSettled, PayoutIs
<1>2. CASE UNCHANGED payout /\ payment' = [payment EXCEPT ![p].settled = TRUE]
  <2>1. /\ \A q \in Payouts \ {p} : payment'[q] = payment[q]
                                   /\ Outline(payout'[q].status) = Outline(payout[q].status)
        /\ payment'[p] = [payment[p] EXCEPT !.settled = TRUE]
        /\ Outline(payout'[p].status) = Outline(payout[p].status)
    BY <1>1, <1>2
  <2>2. ~payment[p].settled => Outline(payout[p].status) = "NONE"
    BY <1>1 DEF Outline, Open
  <2>3. /\ payment'[p].settled = TRUE /\ payment'[p].refunded = payment[p].refunded
        /\ payment[p].settled \in BOOLEAN
    BY <1>1, <2>1 DEF PaymentRow
  <2>4. CASE payment[p].settled
    <3>1. payment'[p].settled = payment[p].settled
      BY <2>3, <2>4
    <3>2. payment'[p].refunded = payment[p].refunded
      BY <2>3
    <3> QED BY <1>1, <2>1, <3>1, <3>2, MoveImplements
  <2>5. CASE ~payment[p].settled
    BY <1>1, <2>1, <2>2, <2>3, <2>5, MoveImplements
  <2> QED BY <2>4, <2>5
<1>3. CASE /\ ~payment[p].settled /\ payment' = [payment EXCEPT ![p].settled = TRUE]
           /\ SetPayoutStatus(p, "PENDING")
  <2>1. /\ payout'[p] = [payout[p] EXCEPT !.status = "PENDING"]
        /\ \A q \in Payouts : q # p => payout'[q] = payout[q]
    BY <1>3, StatusWrite, StatusesIncluded DEF Inv
  <2>2. payout'[p].status = "PENDING"
    BY <1>1, <2>1 DEF PayoutRow
  <2>3. Outline(payout[p].status) = "NONE" /\ Outline(payout'[p].status) = "OPEN"
    BY <1>1, <1>3, <2>2 DEF Outline, Open
  <2>4. /\ \A q \in Payouts \ {p} : payment'[q] = payment[q]
                                   /\ Outline(payout'[q].status) = Outline(payout[q].status)
        /\ payment'[p] = [payment[p] EXCEPT !.settled = TRUE]
    BY <1>1, <1>3, <2>1
  <2>5. /\ payment[p].settled = FALSE /\ payment'[p].settled = TRUE
        /\ payment'[p].refunded = payment[p].refunded
    BY <1>1, <1>3, <2>4 DEF PaymentRow
  <2> QED BY <1>1, <1>3, <2>3, <2>4, <2>5, MoveImplements
<1>4. ASSUME UNCHANGED payout, \A q \in Payouts \ {p} : payment'[q] = payment[q],
             payment'[p].settled = payment[p].settled,
             NEW refunded, refunded = payment'[p].refunded,
             \/ refunded = payment[p].refunded \/ refunded = "NO"
             \/ /\ refunded = "BACK" /\ payment[p].settled
                /\ payout[p].status \in {"NONE", "CANCELLED"}
             \/ refunded = "LOSS" /\ payment[p].settled /\ payout[p].status # "NONE"
      PROVE  [OfWorker!Next]_(OfWorker!vars)
  <2>1. /\ \A q \in Payouts \ {p} : payment'[q] = payment[q]
                                   /\ Outline(payout'[q].status) = Outline(payout[q].status)
        /\ Outline(payout'[p].status) = Outline(payout[p].status)
    BY <1>4
  <2>2. /\ payout[p].status \in {"NONE", "CANCELLED"} =>
              Outline(payout[p].status) \in {"NONE", "CANCELLED"}
        /\ payout[p].status # "NONE" => Outline(payout[p].status) # "NONE"
    BY DEF Outline, Open
  <2> QED BY <1>1, <1>4, <2>1, <2>2, MoveImplements
<1>5. CASE SettleWorkerEarnings(p)
  BY <1>2, <1>3, <1>5 DEF SettleWorkerEarnings
<1>6. CASE ReconcilePendingRefund(p)
  <2>1. PICK refunded \in {payment[p].refunded, "NO"} :
           payment' = [payment EXCEPT ![p].refunded = refunded, ![p].pending = FALSE]
    BY <1>6 DEF ReconcilePendingRefund
  <2>2. /\ payment'[p] = [payment[p] EXCEPT !.refunded = refunded, !.pending = FALSE]
        /\ \A q \in Payouts \ {p} : payment'[q] = payment[q]
    BY <1>1, <2>1
  <2>3. payment'[p].refunded = refunded /\ payment'[p].settled = payment[p].settled
    BY <1>1, <2>2 DEF PaymentRow
  <2> QED BY <1>4, <1>6, <2>1, <2>2, <2>3 DEF ReconcilePendingRefund
<1>7. ASSUME NEW c \in Calls, RefundPayment(c, p) \/ MarkRefundedManually(c, p)
      PROVE  [OfWorker!Next]_(OfWorker!vars)
  BY <1>2, <1>7 DEF RefundPayment, MarkRefundedManually, BeginRefund
<1>8. ASSUME NEW c \in Calls, p = call[c].payout, RefundCommit(c)
      PROVE  [OfWorker!Next]_(OfWorker!vars)
  <2>1. PICK pending \in BOOLEAN :
           payment' = [payment EXCEPT ![p].refunded = "BACK", ![p].pending = pending]
    BY <1>1, <1>8 DEF RefundCommit, PaymentRow
  <2>2. /\ payment'[p] = [payment[p] EXCEPT !.refunded = "BACK", !.pending = pending]
        /\ \A q \in Payouts \ {p} : payment'[q] = payment[q]
    BY <1>1, <2>1
  <2>3. payment'[p].refunded = "BACK" /\ payment'[p].settled = payment[p].settled
    BY <1>1, <2>2 DEF PaymentRow
  <2>4. payment[p].settled /\ payout[p].status \in {"NONE", "CANCELLED"} /\ UNCHANGED payout
    BY <1>8 DEF RefundCommit, Inv, PayoutInv, RefundGoesOn, RefundSteps, PayoutIs
  <2> QED BY <1>4, <2>2, <2>3, <2>4
<1>9. ASSUME NEW c \in Calls, p = call[c].payout, LossCommit(c)
      PROVE  [OfWorker!Next]_(OfWorker!vars)
  <2>1. payment' = [payment EXCEPT ![p].refunded = "LOSS"]
    BY <1>9 DEF LossCommit
  <2>2. /\ payment'[p] = [payment[p] EXCEPT !.refunded = "LOSS"]
        /\ \A q \in Payouts \ {p} : payment'[q] = payment[q]
    BY <1>1, <2>1
  <2>3. payment'[p].refunded = "LOSS" /\ payment'[p].settled = payment[p].settled
    BY <1>1, <2>2 DEF PaymentRow
  <2>4. payment[p].settled /\ payout[p].status # "NONE" /\ UNCHANGED payout
    BY <1>9 DEF LossCommit, Inv, PayoutInv, RefundGoesOn, RefundSteps, StopSteps, PayoutIs
  <2> QED BY <1>4, <2>2, <2>3, <2>4
<1> QED BY <1>5, <1>6, <1>7, <1>8, <1>9

\* Every step of the sender, the queue, the provider, the sweep and the admins.
LEMMA StepImplements ==
    ASSUME Inv, Inv', [Next]_vars
    PROVE  [OfWorker!Next]_(OfWorker!vars)
<1>1. ASSUME NEW p \in Payouts, RequeuePayout(p) \/ Crash(p) PROVE UNCHANGED <<payment, payout>>
  BY <1>1 DEF RequeuePayout, Crash
<1>2. ASSUME NEW p \in Payouts, NEW g \in Generations, Disburse(p, g)
      PROVE  UNCHANGED <<payment, payout>>
  BY <1>2 DEF Disburse
<1>3. ASSUME NEW c \in Calls,
             \/ PostPayoutSent(c) \/ RecoverLookup(c) \/ StopRead(c) \/ StopInFlight(c)
             \/ StopRemote(c) \/ StopPost(c) \/ Fail(c)
      PROVE  UNCHANGED <<payment, payout>>
  BY <1>3 DEF PostPayoutSent, RecoverLookup, StopRead, StopInFlight, StopRemote, StopPost, Fail
<1>4. ASSUME NEW c \in Calls, NEW p \in Payouts, ListStale(c, p) \/ ListOrphaned(c, p)
      PROVE  UNCHANGED <<payment, payout>>
  BY <1>4 DEF ListStale, ListOrphaned
<1>5. CASE UNCHANGED vars
  BY <1>5, SameImplements DEF vars
<1>6. ASSUME NEW c \in Calls, CallStep(c) \/ Fail(c) PROVE [OfWorker!Next]_(OfWorker!vars)
  <2>1. CASE RefundCommit(c) \/ LossCommit(c)
    <3>1. call[c].payout \in Payouts
      BY DEF Inv, TypeOK, CallRecord
    <3> QED BY <2>1, <3>1, PaymentImplements
  <2>2. CASE \/ RetryQueue(c) \/ ReconcilePayout(c) \/ RecoverPayout(c) \/ StopCancel(c)
             \/ StopApply(c) \/ StopRecheck(c)
    BY <2>2, CallImplements
  <2> QED BY <1>3, <1>6, <2>1, <2>2, SameImplements DEF CallStep
<1>7. ASSUME NEW p \in Payouts, SenderStep(p) PROVE [OfWorker!Next]_(OfWorker!vars)
  BY <1>7, SenderImplements
<1>8. ASSUME NEW p \in Payouts, SettleWorkerEarnings(p) \/ ReconcilePendingRefund(p)
      PROVE  [OfWorker!Next]_(OfWorker!vars)
  BY <1>8, PaymentImplements
<1>9. ASSUME NEW c \in Calls, NEW p \in Payouts,
             RetryPayout(c, p) \/ RefundPayment(c, p) \/ MarkRefundedManually(c, p)
      PROVE  [OfWorker!Next]_(OfWorker!vars)
  BY <1>9, RetryImplements, PaymentImplements
<1>10. ASSUME NEW c \in Calls, NEW p \in Payouts, NEW g \in Generations, PayoutWebhook(c, p, g)
       PROVE  [OfWorker!Next]_(OfWorker!vars)
  BY <1>10, WebhookImplements
<1> QED BY <1>1, <1>2, <1>4, <1>5, <1>6, <1>7, <1>8, <1>9, <1>10, SameImplements DEF Next

\* The sending of a payout, with its retries, lost answers, webhooks and
\* recoveries, implements Earnings: the earnings are claimed once, a payout PAID
\* or CANCELLED stays so, and the refund of the client is recorded against them
\* only when none is open or paid, else as a loss (settleWorkerEarnings,
\* applyXenditPayoutStatus, stopWorkerPayout, markRefundedManually).
THEOREM ImplementsEarnings == Spec => FollowsEarnings
<1>1. Init => OfWorker!Init
  <2> SUFFICES ASSUME Init PROVE OfWorker!Init
    OBVIOUS
  <2>1. \A p \in Payouts : payment[p].settled = FALSE /\ payment[p].refunded = "NO"
                           /\ payout[p].status = "NONE"
    BY DEF Init
  <2> QED BY <2>1 DEF PayoutIs, OfWorker!Init
<1>2. Inv /\ Inv' /\ [Next]_vars => [OfWorker!Next]_(OfWorker!vars)
  BY StepImplements
<1> QED BY <1>1, <1>2, PayoutSafe, PTL DEF Spec, FollowsEarnings, OfWorker!Spec
=============================================================================
