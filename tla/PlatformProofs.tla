---------------------------- MODULE PlatformProofs ----------------------------
(***************************************************************************)
(* What is proved of the components that MCPlatform has side by side: of   *)
(* Payment for every amount charged and any refunds, of Storefront for     *)
(* every number of checkout calls, of Reviews for any number of reviews,   *)
(* submissions and voters, of Fulfillment for any items of the parcel and  *)
(* any days, of Accounts for any addresses and phones.  CatalogueProofs    *)
(* is about the rest, products and categories.                             *)
(***************************************************************************)
EXTENDS MCPlatform, SharedLemmas

(***************************************************************************)
(* Payment: its types, that the attempts explain the status, that refunds  *)
(* add up, that a captured payment stays captured, and its projections.    *)
(***************************************************************************)
(* From where each status can be reached.                                  *)
LEMMA Sources ==
  ASSUME status \in PaymentStatus
  PROVE  /\ CanTransition("Succeeded") => status \in {"Pending", "Processing"}
         /\ CanTransition("Failed") => status \in {"Pending", "Processing"}
         /\ CanTransition("Pending") => status = "Failed"
  BY DEF CanTransition, ValidTransitions, PaymentStatus

(* Nothing calls record_processing, so no payment is ever Processing.      *)
Attempted == /\ AttemptsExplainStatus
             /\ status # "Processing"

(* With the units refunded known to be finitely many, settling one more    *)
(* refund adds its amount; every refund made asks for something back.      *)
Refunded == /\ RefundsAddUp
            /\ IsFiniteSet(UnitsOf(CompletedRefunds, RefundAmount))
            /\ \A r \in RefundIds : refunds[r].status # "None" => refunds[r].amount > 0
            /\ \A r \in RefundIds : refunds[r].status = "None" => refunds[r] = NoRefund

PaymentInv == TypeOK /\ Attempted /\ Refunded

(* Whether the one event of a command speaks of another attempt.           *)
RetryTold(e) == e = [type |-> "PaymentFailed", can_retry |-> TRUE]

LEMMA OneEvent ==
  ASSUME NEW STATE e, raised' = <<e>>, RetryTold(e) <=> can_retry'
  PROVE  CanRetryIsTrue'
<1>1. Len(raised') = 1 /\ raised'[1] = e
  OBVIOUS
<1>2. (\E k \in 1..Len(raised') : RetryTold(raised'[k])) <=> RetryTold(e)
  BY <1>1
<1> QED  BY <1>2, Zenon DEF CanRetryIsTrue, RetryTold

(* The payment InitiatePayment makes satisfies the invariant.              *)
LEMMA InitKeeps == Init => PaymentInv
<1> SUFFICES ASSUME Init PROVE PaymentInv
  OBVIOUS
<1> USE DEF Init, InitiatePayment, NoRefund
<1>1. TypeOK
  BY DEF TypeOK, PaymentStatus, AttemptStatus, Refund, Event
<1>r. CanRetryIsTrue
  BY DEF CanRetryIsTrue, can_retry
<1>2. Attempted
  BY <1>r DEF Attempted, AttemptsExplainStatus, MAX_PAYMENT_ATTEMPTS
<1>3. CompletedRefunds = {}
  BY DEF CompletedRefunds
<1>4. /\ IsFiniteSet(UnitsOf(CompletedRefunds, RefundAmount))
      /\ Total(CompletedRefunds, RefundAmount) = 0
  BY <1>3, TotalEmpty
<1>5. Refunded
  BY <1>3, <1>4 DEF Refunded, RefundsAddUp
<1> QED  BY <1>1, <1>2, <1>5 DEF PaymentInv

(* A step of the attempts leaves the refunds alone; it happens before any  *)
(* refund exists.                                                          *)
LEMMA AttemptKeepsRefunds ==
  ASSUME PaymentInv, status \in {"Pending", "Failed"},
         status' \in {"Pending", "Failed", "Succeeded"},
         UNCHANGED <<refunds, total_refunded>>
  PROVE  Refunded'
<1>1. \A r \in RefundIds : refunds[r] = NoRefund
  BY DEF PaymentInv, Attempted, AttemptsExplainStatus, Refunded, RefundsAddUp,
     MAX_PAYMENT_ATTEMPTS
<1>2. CompletedRefunds = {} /\ CompletedRefunds' = CompletedRefunds
      /\ RefundAmount' = RefundAmount
  BY <1>1 DEF CompletedRefunds, RefundAmount, NoRefund
<1> QED  BY <1>1, <1>2 DEF PaymentInv, Refunded, RefundsAddUp, NoRefund

(* The latest attempt is settled by a webhook.                             *)
LEMMA WebhookKeeps ==
  ASSUME PaymentInv, ProcessPaymentWebhook
  PROVE  PaymentInv'
<1>s. status \in PaymentStatus
  BY DEF PaymentInv, TypeOK
<1>0. status = "Pending"
  BY <1>s, Sources DEF PaymentInv, Attempted, ProcessPaymentWebhook, record_success,
     record_failure
<1>1. PICK a \in {"succeeded", "failed"} :
        /\ status' = IF a = "succeeded" THEN "Succeeded" ELSE "Failed"
        /\ attempts' = [attempts EXCEPT ![Len(attempts)] = a]
        /\ UNCHANGED <<attempt_count, refunds, total_refunded>>
        /\ raised' \in Seq(Event)
        /\ CanRetryIsTrue'
  <2>1. CASE record_success
    <3>1. raised' \in Seq(Event)
      BY <2>1 DEF record_success, Event
    <3>2. ~RetryTold([type |-> "PaymentSucceeded"]) /\ ~can_retry'
      BY <2>1 DEF RetryTold, record_success, OnPaymentSucceeded, can_retry
    <3>3. CanRetryIsTrue'
      BY <2>1, <3>2, OneEvent DEF record_success
    <3> WITNESS "succeeded" \in {"succeeded", "failed"}
    <3> QED  BY <2>1, <3>1, <3>3 DEF record_success, OnPaymentSucceeded, LatestAttempt
  <2>2. CASE record_failure
    <3>1. raised' \in Seq(Event)
      BY <2>2 DEF record_failure, Event
    <3> DEFINE told == attempt_count < MAX_PAYMENT_ATTEMPTS
    <3>2. RetryTold([type |-> "PaymentFailed", can_retry |-> told]) <=> told
      <4>1. told \in BOOLEAN
        OBVIOUS
      <4> QED  BY <4>1 DEF RetryTold
    <3>3. can_retry' <=> told
      BY <2>2 DEF record_failure, OnPaymentFailed, can_retry
    <3>4. CanRetryIsTrue'
      BY <2>2, <3>2, <3>3, OneEvent DEF record_failure
    <3> WITNESS "failed" \in {"succeeded", "failed"}
    <3> QED  BY <2>2, <3>1, <3>4 DEF record_failure, OnPaymentFailed, LatestAttempt
  <2> QED  BY <2>1, <2>2 DEF ProcessPaymentWebhook
<1>2. attempt_count = Len(attempts) /\ attempt_count \in 1..3 /\ attempts \in Seq(AttemptStatus)
  BY Zenon DEF PaymentInv, TypeOK, Attempted, AttemptsExplainStatus, MAX_PAYMENT_ATTEMPTS
<1>3. /\ attempts' \in Seq(AttemptStatus)
      /\ Len(attempts') = Len(attempts)
      /\ attempts'[attempt_count] = a
      /\ \A k \in 1..(attempt_count - 1) : attempts'[k] = attempts[k]
  BY <1>1, <1>2 DEF AttemptStatus
<1>4. TypeOK'
  BY <1>1, <1>3, Zenon DEF PaymentInv, TypeOK, PaymentStatus
<1>5. Attempted'
  BY <1>0, <1>1, <1>2, <1>3 DEF PaymentInv, Attempted, AttemptsExplainStatus
<1>6. Refunded'
  BY <1>0, <1>1, AttemptKeepsRefunds
<1> QED  BY <1>4, <1>5, <1>6 DEF PaymentInv

(* A retry adds an attempt after failed ones.                              *)
LEMMA RetryKeeps ==
  ASSUME PaymentInv, RetryPayment
  PROVE  PaymentInv'
<1>1. /\ status = "Failed" /\ attempt_count < 3
      /\ status' = "Pending"
      /\ attempt_count' = attempt_count + 1
      /\ attempts' = Append(attempts, "processing")
      /\ UNCHANGED <<refunds, total_refunded>>
      /\ raised' \in Seq(Event)
  BY DEF RetryPayment, retry, can_retry, OnPaymentRetryInitiated, MAX_PAYMENT_ATTEMPTS, Event
<1>2. attempt_count = Len(attempts) /\ attempt_count \in 1..3 /\ attempts \in Seq(AttemptStatus)
  BY Zenon DEF PaymentInv, TypeOK, Attempted, AttemptsExplainStatus, MAX_PAYMENT_ATTEMPTS
<1>3. /\ attempts' \in Seq(AttemptStatus)
      /\ Len(attempts') = Len(attempts) + 1
      /\ attempts'[attempt_count + 1] = "processing"
      /\ \A k \in 1..attempt_count : attempts'[k] = attempts[k]
  BY <1>1, <1>2 DEF AttemptStatus
<1>4. TypeOK'
  BY <1>1, <1>2, <1>3 DEF PaymentInv, TypeOK, PaymentStatus
<1>5. attempts[attempt_count] = "failed"
  BY <1>1 DEF PaymentInv, Attempted, AttemptsExplainStatus
<1>6. \A k \in 1..attempt_count : attempts'[k] = "failed"
  BY <1>2, <1>3, <1>5 DEF PaymentInv, Attempted, AttemptsExplainStatus
<1>r. CanRetryIsTrue'
  <2>1. raised' = <<[type |-> "PaymentRetryInitiated"]>>
    BY DEF RetryPayment, retry
  <2>2. ~RetryTold([type |-> "PaymentRetryInitiated"]) /\ ~can_retry'
    BY <1>1 DEF RetryTold, can_retry
  <2> QED  BY <2>1, <2>2, OneEvent
<1>7. Attempted'
  BY <1>1, <1>2, <1>3, <1>6, <1>r DEF Attempted, AttemptsExplainStatus, MAX_PAYMENT_ATTEMPTS
<1>8. Refunded'
  BY <1>1, AttemptKeepsRefunds
<1> QED  BY <1>4, <1>7, <1>8 DEF PaymentInv

(* A requested refund is not yet one of the completed ones.                *)
LEMMA RequestKeeps ==
  ASSUME PaymentInv, NEW amount \in Nat \ {0}, request_refund(amount)
  PROVE  PaymentInv'
<1>3. PICK r \in RefundIds :
        /\ refunds[r] = NoRefund
        /\ refunds' = [refunds EXCEPT ![r] = [status |-> "Requested", amount |-> amount]]
        /\ status \in {"Succeeded", "Partially_Refunded"}
        /\ UNCHANGED <<status, attempts, attempt_count, total_refunded>>
  BY DEF request_refund, OnRefundRequested
<1>4. raised' \in Seq(Event)
  BY DEF request_refund, Event
<1>t. refunds \in [RefundIds -> Refund]
  BY DEF PaymentInv, TypeOK
<1>5. refunds' \in [RefundIds -> Refund]
  BY <1>t, <1>3 DEF Refund
<1>6. TypeOK'
  BY <1>3, <1>4, <1>5 DEF PaymentInv, TypeOK
<1>r. CanRetryIsTrue'
  <2>1. raised' = <<[type |-> "RefundRequested", amount |-> amount]>>
    BY DEF request_refund
  <2>2. ~RetryTold([type |-> "RefundRequested", amount |-> amount]) /\ ~can_retry'
    BY <1>3 DEF RetryTold, can_retry
  <2> QED  BY <2>1, <2>2, OneEvent
<1>7. Attempted'
  BY <1>3, <1>r DEF PaymentInv, Attempted, AttemptsExplainStatus
<1>8. CompletedRefunds' = CompletedRefunds
      /\ \A x \in CompletedRefunds : RefundAmount'[x] = RefundAmount[x]
  BY <1>t, <1>3 DEF CompletedRefunds, RefundAmount, NoRefund
<1>9. /\ UnitsOf(CompletedRefunds, RefundAmount') = UnitsOf(CompletedRefunds, RefundAmount)
      /\ Total(CompletedRefunds, RefundAmount') = Total(CompletedRefunds, RefundAmount)
  BY <1>8, TotalSame
<1>10. attempts[attempt_count] = "succeeded"
  BY <1>3 DEF PaymentInv, Attempted, AttemptsExplainStatus
<1>11. RefundsAddUp'
  BY <1>3, <1>8, <1>9, <1>10 DEF PaymentInv, Refunded, RefundsAddUp
<1>12. \A x \in RefundIds : /\ refunds'[x].status # "None" => refunds'[x].amount > 0
                            /\ refunds'[x].status = "None" => refunds'[x] = NoRefund
  BY <1>t, <1>3 DEF PaymentInv, Refunded
<1>13. Refunded'
  BY <1>8, <1>9, <1>11, <1>12 DEF PaymentInv, Refunded
<1> QED  BY <1>6, <1>7, <1>13 DEF PaymentInv

(* Completing a refund adds its amount to the total and to the sum.        *)
LEMMA CompleteKeeps ==
  ASSUME PaymentInv, ProcessRefundWebhook
  PROVE  PaymentInv'
<1>1. PICK r \in RefundIds : complete_refund(r)
  BY DEF ProcessRefundWebhook
<1>t. refunds \in [RefundIds -> Refund] /\ total_refunded \in Nat /\ status \in PaymentStatus
  BY DEF PaymentInv, TypeOK
<1>2. /\ refunds[r].status = "Requested"
      /\ refunds' = [refunds EXCEPT ![r].status = "Completed"]
      /\ total_refunded' = total_refunded + refunds[r].amount
      /\ status' = IF total_refunded' >= Amount THEN "Refunded" ELSE "Partially_Refunded"
      /\ UNCHANGED <<attempts, attempt_count>>
  BY <1>1 DEF complete_refund, OnRefundCompleted
<1>3. refunds[r].amount \in Nat \ {0}
  BY <1>t, <1>2 DEF PaymentInv, Refunded, Refund
<1>4. raised' \in Seq(Event)
  BY <1>1, <1>3 DEF complete_refund, Event
<1>5. refunds' \in [RefundIds -> Refund]
  BY <1>t, <1>2 DEF Refund
<1>6. TypeOK'
  BY <1>t, <1>2, <1>3, <1>4, <1>5 DEF PaymentInv, TypeOK, PaymentStatus
<1>7. attempts[attempt_count] = "succeeded"
  BY <1>2 DEF PaymentInv, Refunded, RefundsAddUp, NoRefund
<1>r. CanRetryIsTrue'
  <2> DEFINE e == [type |-> "RefundCompleted", amount |-> refunds[r].amount]
  <2>1. raised' = <<e>>
    BY <1>1 DEF complete_refund
  <2>2. ~RetryTold(e) /\ ~can_retry'
    BY <1>2 DEF RetryTold, can_retry
  <2> QED  BY <2>1, <2>2, OneEvent
<1>8. Attempted'
  BY <1>2, <1>7, <1>r DEF PaymentInv, Attempted, AttemptsExplainStatus, MAX_PAYMENT_ATTEMPTS
<1>9. r \notin CompletedRefunds /\ CompletedRefunds' = CompletedRefunds \cup {r}
  BY <1>t, <1>2 DEF CompletedRefunds, Refund
<1>10. RefundAmount' = RefundAmount /\ RefundAmount[r] = refunds[r].amount
  BY <1>t, <1>2 DEF RefundAmount, Refund
<1>11. /\ IsFiniteSet(UnitsOf(CompletedRefunds \cup {r}, RefundAmount))
       /\ Total(CompletedRefunds \cup {r}, RefundAmount)
            = Total(CompletedRefunds, RefundAmount) + refunds[r].amount
  BY <1>3, <1>9, <1>10, TotalAdd DEF PaymentInv, Refunded
<1>12. total_refunded' \in Nat \ {0} /\ Amount \in Nat
  BY <1>t, <1>2, <1>3, PaymentAssumption
<1>13. RefundsAddUp'
  BY <1>2, <1>7, <1>9, <1>10, <1>11, <1>12 DEF PaymentInv, Refunded, RefundsAddUp
<1>14. \A x \in RefundIds : /\ refunds'[x].status # "None" => refunds'[x].amount > 0
                            /\ refunds'[x].status = "None" => refunds'[x] = NoRefund
  BY <1>t, <1>2, <1>3 DEF PaymentInv, Refunded, Refund
<1>15. Refunded'
  BY <1>9, <1>10, <1>11, <1>13, <1>14 DEF Refunded
<1> QED  BY <1>6, <1>8, <1>15 DEF PaymentInv

(* Every command keeps it.                                                 *)
LEMMA NextKeeps == PaymentInv /\ [Next]_vars => PaymentInv'
<1> SUFFICES ASSUME PaymentInv, [Next]_vars PROVE PaymentInv'
  OBVIOUS
<1>1. CASE UNCHANGED vars
  BY <1>1 DEF vars, PaymentInv, TypeOK, Attempted, AttemptsExplainStatus, Refunded,
     RefundsAddUp, CompletedRefunds, RefundAmount, CanRetryIsTrue, can_retry
<1>2. CASE RequestRefund
  <2>1. PICK amount \in RefundAmounts : request_refund(amount)
    BY <1>2 DEF RequestRefund
  <2>2. amount \in Nat \ {0}
    BY PaymentAssumption
  <2> QED  BY <2>1, <2>2, RequestKeeps
<1> QED  BY <1>1, <1>2, WebhookKeeps, RetryKeeps, CompleteKeeps DEF Next

(* Types, attempts and refunds stay in step with the status.               *)
THEOREM PaymentInvariant == Spec => []PaymentInv
  BY InitKeeps, NextKeeps, PTL DEF Spec

(* Types, for every amount and any refunds.                                *)
THEOREM TypeCorrect == Spec => []TypeOK
<1>1. PaymentInv => TypeOK
  BY DEF PaymentInv
<1> QED  BY PaymentInvariant, <1>1, PTL

(* At most three attempts, each settled before the next, the last one      *)
(* decides the status, and what the event says of a retry is true.         *)
THEOREM AttemptsCoherent == Spec => []AttemptsExplainStatus
<1>1. PaymentInv => AttemptsExplainStatus
  BY DEF PaymentInv, Attempted
<1> QED  BY PaymentInvariant, <1>1, PTL

(* The running total is the sum of the completed refunds, whatever the     *)
(* number of refunds outstanding.                                          *)
THEOREM RefundTotalIsSum == Spec => []RefundsAddUp
<1>1. PaymentInv => RefundsAddUp
  BY DEF PaymentInv, Refunded
<1> QED  BY PaymentInvariant, <1>1, PTL

(* No command undoes a capture or a full refund.                           *)
LEMMA CapturedStep ==
  ASSUME PaymentInv, [Next]_vars
  PROVE  /\ status \notin {"Pending", "Processing", "Failed"} =>
              /\ attempts' = attempts
              /\ status' \notin {"Pending", "Processing", "Failed"}
         /\ status = "Refunded" => status' = "Refunded"
         /\ total_refunded' >= total_refunded
<1>t. refunds \in [RefundIds -> Refund] /\ total_refunded \in Nat /\ status \in PaymentStatus
  BY DEF PaymentInv, TypeOK
<1>1. CASE ProcessPaymentWebhook
  BY <1>1, <1>t, Sources DEF ProcessPaymentWebhook, record_success, record_failure,
     OnPaymentSucceeded, OnPaymentFailed
<1>2. CASE RetryPayment
  BY <1>2, <1>t DEF RetryPayment, retry, can_retry, OnPaymentRetryInitiated
<1>3. CASE RequestRefund
  BY <1>3, <1>t DEF RequestRefund, request_refund, OnRefundRequested
<1>4. CASE ProcessRefundWebhook
  <2>1. PICK r \in RefundIds : complete_refund(r)
    BY <1>4 DEF ProcessRefundWebhook
  <2>2. /\ total_refunded' = total_refunded + refunds[r].amount
        /\ status' = IF total_refunded' >= Amount THEN "Refunded" ELSE "Partially_Refunded"
        /\ attempts' = attempts
    BY <2>1 DEF complete_refund, OnRefundCompleted
  <2>3. refunds[r].amount \in Nat
    BY <1>t DEF Refund
  <2>4. total_refunded' \in Nat /\ total_refunded' >= total_refunded
    BY <1>t, <2>2, <2>3
  <2>5. status = "Refunded" => total_refunded' >= Amount
    BY <1>t, <2>4, PaymentAssumption DEF PaymentInv, Refunded, RefundsAddUp
  <2> QED  BY <2>2, <2>4, <2>5
<1>5. CASE UNCHANGED vars
  BY <1>5, <1>t DEF vars
<1> QED  BY <1>1, <1>2, <1>3, <1>4, <1>5 DEF Next

(* A captured payment is never reopened, and a full refund is final.       *)
THEOREM CapturedStays == Spec => CapturedForGood
<1> DEFINE Step == /\ status \notin {"Pending", "Processing", "Failed"} =>
                        /\ attempts' = attempts
                        /\ status' \notin {"Pending", "Processing", "Failed"}
                   /\ status = "Refunded" => status' = "Refunded"
                   /\ total_refunded' >= total_refunded
<1>1. PaymentInv /\ [Next]_vars => [Step]_vars
  BY CapturedStep
<1> QED  BY PaymentInvariant, <1>1, PTL DEF Spec, CapturedForGood

------------------------------------------------------------------------------
(***************************************************************************)
(* The projections of Payment.  Each has one row it is to show in the end, *)
(* whatever is still ahead of its projector; that holds until an event is  *)
(* handled twice, and for three of them even then.                         *)
(***************************************************************************)
PaymentEvent ==
  [type : {"PaymentSucceeded", "PaymentFailed", "PaymentRetryInitiated", "RefundRequested",
           "RefundCompleted"},
   attempt_number : Nat, refund_id : RefundIds \cup {"None"}, amount : Nat]

PaymentRows(v) ==
  CASE v = "payment_status" -> [status : PaymentStatus, attempt_count : Nat, total_refunded : Nat]
    [] v = "failed_payments" -> [status : {"none", "failed", "retrying", "recovered"},
                                 attempt_number : Nat]
    [] v = "customer_payments" -> [status : PaymentStatus]
    [] v = "daily_revenue" -> [revenue : Nat, refunded : Nat, net : Int,
                               transactions : Nat, refunds : Nat]
    [] v = "refund_report" -> [RefundIds -> Refund]

PaymentSteps(v) ==
  {t \in PaymentRows(v) \X PaymentEvent \X PaymentRows(v) :
     t[3] = PaymentProjected(v, t[1], t[2])}

(* What the views are to show. *)
FailedStatus == CASE status = "Failed" -> "failed"
                  [] status = "Pending" /\ attempt_count > 1 -> "retrying"
                  [] status \notin {"Failed", "Pending"} /\ attempt_count > 1 -> "recovered"
                  [] OTHER -> "none"

CustomerStatus == IF status = "Pending" /\ attempt_count > 1 THEN "Failed"
                  ELSE IF status = "Partially_Refunded" THEN "Refunded" ELSE status

Revenue == IF Captured THEN Amount ELSE 0

StatusRow == [status |-> status, attempt_count |-> attempt_count, total_refunded |-> total_refunded]

FailedAttempt == IF FailedStatus = "none" THEN 0 ELSE attempt_count

FailedRow == [status |-> FailedStatus, attempt_number |-> FailedAttempt]

CustomerRow == [status |-> CustomerStatus]

RevenueRow == [revenue |-> Revenue, refunded |-> total_refunded, net |-> Revenue - total_refunded,
               transactions |-> IF Captured THEN 1 ELSE 0,
               refunds |-> Cardinality(CompletedRefunds)]

PaymentShown(v) ==
  CASE v = "payment_status" -> StatusRow
    [] v = "failed_payments" -> FailedRow
    [] v = "customer_payments" -> CustomerRow
    [] v = "daily_revenue" -> RevenueRow
    [] v = "refund_report" -> refunds

(* Of payment_status, the number of attempts survives an event handled     *)
(* twice, and the total is not below what was refunded.                    *)
AttemptRead(n, e) ==
  IF e.type \in {"PaymentFailed", "PaymentRetryInitiated"} THEN e.attempt_number ELSE n

AttemptSteps == {t \in Nat \X PaymentEvent \X Nat : t[3] = AttemptRead(t[1], t[2])}

RefundRead(e) == IF e.type = "RefundCompleted" THEN e.amount ELSE 0

RefundSteps == {t \in Nat \X PaymentEvent \X Nat : t[3] <= t[1] + RefundRead(t[2])}

SteadyViews == {"failed_payments", "customer_payments", "refund_report"}

PaymentLeads(v) == Leads(PaymentSteps(v), row, unread, PaymentShown(v))

PaymentViewInv ==
  /\ PaymentInv
  /\ IsFiniteSet(CompletedRefunds)
  /\ view \in PaymentViewNames
  /\ row \in PaymentRows(view) /\ unread \in Seq(PaymentEvent)
  /\ ~redelivered \/ view \in SteadyViews => PaymentLeads(view)
  /\ view = "payment_status" =>
       /\ Leads(AttemptSteps, row.attempt_count, unread, attempt_count)
       /\ \E n \in Nat : n <= row.total_refunded /\ Leads(RefundSteps, n, unread, total_refunded)

------------------------------------------------------------------------------
LEMMA PaymentRowKept ==
  ASSUME NEW v \in PaymentViewNames, NEW r \in PaymentRows(v), NEW e \in PaymentEvent
  PROVE  /\ PaymentProjected(v, r, e) \in PaymentRows(v)
         /\ v \in SteadyViews =>
              PaymentProjected(v, PaymentProjected(v, r, e), e) = PaymentProjected(v, r, e)
         /\ v = "payment_status" =>
              /\ PaymentProjected(v, r, e).attempt_count = AttemptRead(r.attempt_count, e)
              /\ PaymentProjected(v, r, e).total_refunded = r.total_refunded + RefundRead(e)
<1>1. /\ e.type \in {"PaymentSucceeded", "PaymentFailed", "PaymentRetryInitiated",
                     "RefundRequested", "RefundCompleted"}
      /\ e.attempt_number \in Nat /\ e.amount \in Nat
  BY DEF PaymentEvent
<1>2. CASE v = "payment_status"
  <2>1. r \in [status : PaymentStatus, attempt_count : Nat, total_refunded : Nat]
    BY <1>2 DEF PaymentRows
  <2>2. PaymentProjected(v, r, e) = on_payment_status(r, e)
    BY <1>2 DEF PaymentProjected
  <2>3. on_payment_status(r, e)
          \in [status : PaymentStatus, attempt_count : Nat, total_refunded : Nat]
    <3>1. \A s \in {"Succeeded", "Failed", "Pending", "Refunded", "Partially_Refunded"} :
            s \in PaymentStatus
      BY DEF PaymentStatus
    <3>2. CASE e.type = "RefundCompleted"
      <4> DEFINE total == r.total_refunded + e.amount
                 told == IF total >= Amount THEN "Refunded" ELSE "Partially_Refunded"
      <4>1. total \in Nat /\ told \in PaymentStatus
        BY <1>1, <2>1, <3>1
      <4>2. on_payment_status(r, e) = [r EXCEPT !.total_refunded = total, !.status = told]
        BY <3>2, Zenon DEF on_payment_status
      <4> HIDE DEF total, told
      <4> QED  BY <2>1, <4>1, <4>2
    <3>3. CASE e.type # "RefundCompleted"
      BY <1>1, <2>1, <3>1, <3>3 DEF on_payment_status
    <3> QED  BY <3>2, <3>3
  <2>4. /\ on_payment_status(r, e).attempt_count = AttemptRead(r.attempt_count, e)
        /\ on_payment_status(r, e).total_refunded = r.total_refunded + RefundRead(e)
    BY <1>1, <2>1 DEF on_payment_status, AttemptRead, RefundRead
  <2> QED  BY <1>2, <2>2, <2>3, <2>4 DEF PaymentRows, SteadyViews
<1>3. CASE v = "failed_payments"
  <2> DEFINE R == [status : {"none", "failed", "retrying", "recovered"}, attempt_number : Nat]
  <2>1. r \in R
    BY <1>3 DEF PaymentRows
  <2>2. \A x : PaymentProjected(v, x, e) = on_failed_payments(x, e)
    BY <1>3 DEF PaymentProjected
  <2>3. on_failed_payments(r, e) \in R
    BY <1>1, <2>1 DEF on_failed_payments
  <2>4. on_failed_payments(on_failed_payments(r, e), e) = on_failed_payments(r, e)
    BY <1>1, <2>1 DEF on_failed_payments
  <2> QED  BY <1>3, <2>2, <2>3, <2>4 DEF PaymentRows
<1>4. CASE v = "customer_payments"
  <2>1. r \in [status : PaymentStatus]
    BY <1>4 DEF PaymentRows
  <2>2. \A x : PaymentProjected(v, x, e) = on_customer_payments(x, e)
    BY <1>4 DEF PaymentProjected
  <2>3. on_customer_payments(r, e) \in [status : PaymentStatus]
    BY <1>1, <2>1 DEF on_customer_payments, PaymentStatus
  <2>4. on_customer_payments(on_customer_payments(r, e), e) = on_customer_payments(r, e)
    BY <1>1, <2>1 DEF on_customer_payments
  <2> QED  BY <1>4, <2>2, <2>3, <2>4 DEF PaymentRows
<1>5. CASE v = "daily_revenue"
  <2> DEFINE R == [revenue : Nat, refunded : Nat, net : Int, transactions : Nat, refunds : Nat]
  <2>1. r \in R
    BY <1>5 DEF PaymentRows
  <2>2. PaymentProjected(v, r, e) = on_daily_revenue(r, e)
    BY <1>5 DEF PaymentProjected
  <2>3. on_daily_revenue(r, e) \in R
    BY <1>1, <2>1 DEF on_daily_revenue
  <2> QED  BY <1>5, <2>2, <2>3 DEF PaymentRows, SteadyViews
<1>6. CASE v = "refund_report"
  <2>1. r \in [RefundIds -> Refund]
    BY <1>6 DEF PaymentRows
  <2>2. \A x : PaymentProjected(v, x, e) = on_refund_report(x, e)
    BY <1>6 DEF PaymentProjected
  <2>3. on_refund_report(r, e) \in [RefundIds -> Refund]
    BY <1>1, <2>1 DEF on_refund_report, Refund
  <2>4. on_refund_report(on_refund_report(r, e), e) = on_refund_report(r, e)
    BY <1>1, <2>1 DEF on_refund_report, Refund
  <2> QED  BY <1>6, <2>2, <2>3, <2>4 DEF PaymentRows
<1> QED  BY <1>2, <1>3, <1>4, <1>5, <1>6 DEF PaymentViewNames

(* A command's event takes every row that was to be shown to the one that  *)
(* is to be shown now. *)
LEMMA PaymentTells ==
  ASSUME PaymentViewInv, PaymentInv', IsFiniteSet(CompletedRefunds)',
         NEW e \in PaymentEvent, Publish(<<e>>),
         \A v \in PaymentViewNames : /\ PaymentShown(v) \in PaymentRows(v)
                                     /\ PaymentProjected(v, PaymentShown(v), e) = PaymentShown(v)',
         AttemptRead(attempt_count, e) = attempt_count',
         total_refunded' = total_refunded + RefundRead(e)
  PROVE  PaymentViewInv'
<1>1. /\ UNCHANGED <<view, row, redelivered>> /\ view \in PaymentViewNames
      /\ unread \in Seq(PaymentEvent) /\ unread' = unread \o <<e>>
  BY DEF Publish, PaymentViewInv, PaymentViewNames
<1> DEFINE shown == PaymentShown(view)
           after == PaymentProjected(view, shown, e)
<1>2. shown \in PaymentRows(view) /\ after \in PaymentRows(view)
  BY <1>1, PaymentRowKept
<1>3. \A v : v = view => after = PaymentShown(v)'
  BY <1>1
<1>4. <<shown, e, after>> \in PaymentSteps(view)
  BY <1>2 DEF PaymentSteps
<1> HIDE DEF after, shown
<1>5. ASSUME ~redelivered' \/ view' \in SteadyViews
      PROVE  PaymentLeads(view)'
  <2>1. PICK v : v = view
    OBVIOUS
  <2>2. Leads(PaymentSteps(v), row, unread, shown)
    BY <1>1, <1>5, <2>1 DEF PaymentViewInv, PaymentLeads, shown
  <2>3. Leads(PaymentSteps(v), row, unread \o <<e>>, after)
    BY <1>1, <1>4, <2>1, <2>2, LeadsMore
  <2>4. Leads(PaymentSteps(v), row', unread', PaymentShown(v)')
    BY <1>1, <1>3, <2>1, <2>3
  <2>5. PaymentLeads(v)'
    BY <2>4 DEF PaymentLeads
  <2> QED  BY <1>1, <2>1, <2>5
<1>6. view' = "payment_status" => Leads(AttemptSteps, row'.attempt_count, unread', attempt_count')
  <2> SUFFICES ASSUME view' = "payment_status"
               PROVE  Leads(AttemptSteps, row'.attempt_count, unread', attempt_count')
    OBVIOUS
  <2>1. Leads(AttemptSteps, row.attempt_count, unread, attempt_count)
    BY <1>1 DEF PaymentViewInv
  <2>2. <<attempt_count, e, attempt_count'>> \in AttemptSteps
    BY DEF AttemptSteps, PaymentViewInv, PaymentInv, TypeOK
  <2>3. Leads(AttemptSteps, row.attempt_count, unread \o <<e>>, attempt_count')
    BY <1>1, <2>1, <2>2, LeadsMore
  <2> QED  BY <1>1, <2>3
<1>7. view' = "payment_status" =>
        \E n \in Nat : /\ n <= row'.total_refunded
                       /\ Leads(RefundSteps, n, unread', total_refunded')
  <2> SUFFICES ASSUME view' = "payment_status"
               PROVE  \E n \in Nat : /\ n <= row'.total_refunded
                                     /\ Leads(RefundSteps, n, unread', total_refunded')
    OBVIOUS
  <2>1. PICK n \in Nat : n <= row.total_refunded /\ Leads(RefundSteps, n, unread, total_refunded)
    BY <1>1 DEF PaymentViewInv
  <2>2. <<total_refunded, e, total_refunded'>> \in RefundSteps
    BY DEF RefundSteps, PaymentViewInv, PaymentInv, TypeOK
  <2>3. Leads(RefundSteps, n, unread \o <<e>>, total_refunded')
    BY <1>1, <2>1, <2>2, LeadsMore
  <2> QED  BY <1>1, <2>1, <2>3
<1>8. row' \in PaymentRows(view') /\ unread' \in Seq(PaymentEvent)
  BY <1>1 DEF PaymentViewInv
<1> QED  BY <1>1, <1>5, <1>6, <1>7, <1>8 DEF PaymentViewInv

LEMMA PaymentProjects ==
  ASSUME PaymentViewInv, PaymentProjection
  PROVE  PaymentViewInv'
<1> DEFINE e == Head(unread)
           after == PaymentProjected(view, row, e)
<1>1. /\ unread # << >> /\ row' = after /\ UNCHANGED <<view, vars>>
      /\ \/ unread' = Tail(unread) /\ UNCHANGED redelivered
         \/ redelivered' = TRUE /\ UNCHANGED unread
  BY DEF PaymentProjection, Project
<1>2. /\ unread \in Seq(PaymentEvent) /\ row \in PaymentRows(view) /\ view \in PaymentViewNames
      /\ unread' \in Seq(PaymentEvent)
  BY <1>1 DEF PaymentViewInv
<1>3. e \in PaymentEvent
  BY <1>1, <1>2
<1> HIDE DEF e
<1>4. /\ after \in PaymentRows(view)
      /\ view \in SteadyViews => PaymentProjected(view, after, e) = after
      /\ view = "payment_status" =>
           /\ after.attempt_count = AttemptRead(row.attempt_count, e)
           /\ after.total_refunded = row.total_refunded + RefundRead(e)
  BY <1>2, <1>3, PaymentRowKept
<1>5. UNCHANGED <<status, attempts, attempt_count, refunds, total_refunded, raised>>
  BY <1>1 DEF vars
<1>6. /\ PaymentInv' /\ IsFiniteSet(CompletedRefunds)'
      /\ \A v : PaymentShown(v)' = PaymentShown(v)
  <2>1. PaymentInv'
    BY <1>1, NextKeeps DEF PaymentViewInv
  <2>2. IsFiniteSet(CompletedRefunds)'
    BY <1>5 DEF CompletedRefunds, PaymentViewInv
  <2>3. ASSUME NEW v PROVE PaymentShown(v)' = PaymentShown(v)
    BY <1>5, Zenon DEF PaymentShown, StatusRow, FailedRow, CustomerRow, RevenueRow,
                       FailedStatus, FailedAttempt, CustomerStatus, Revenue, Captured,
                       CompletedRefunds
  <2> QED  BY <2>1, <2>2, <2>3
<1>7. ASSUME ~redelivered' \/ view' \in SteadyViews
      PROVE  PaymentLeads(view)'
  <2>1. PICK v : v = view
    OBVIOUS
  <2>2. Leads(PaymentSteps(v), row, unread, PaymentShown(v))
    BY <1>1, <1>7, <2>1 DEF PaymentViewInv, PaymentLeads
  <2>3. \A w : <<row, Head(unread), w>> \in PaymentSteps(v) => w = after
    BY <2>1 DEF PaymentSteps, after, e
  <2>4. v \in SteadyViews => <<after, Head(unread), after>> \in PaymentSteps(v)
    BY <1>3, <1>4, <2>1 DEF PaymentSteps, e
  <2> HIDE DEF after
  <2>5. /\ Leads(PaymentSteps(v), after, Tail(unread), PaymentShown(v))
        /\ v \in SteadyViews => Leads(PaymentSteps(v), after, unread, PaymentShown(v))
    BY <1>1, <1>2, <2>2, <2>3, <2>4, LeadsProject
  <2>6. Leads(PaymentSteps(v), row', unread', PaymentShown(v)')
    BY <1>1, <1>6, <1>7, <2>1, <2>5
  <2>7. PaymentLeads(v)'
    BY <2>6 DEF PaymentLeads
  <2> QED  BY <1>1, <2>1, <2>7
<1>8. ASSUME view' = "payment_status"
      PROVE  Leads(AttemptSteps, row'.attempt_count, unread', attempt_count')
  <2> DEFINE n == AttemptRead(row.attempt_count, e)
  <2>1. Leads(AttemptSteps, row.attempt_count, unread, attempt_count)
    BY <1>1, <1>8 DEF PaymentViewInv
  <2>2. \A w : <<row.attempt_count, Head(unread), w>> \in AttemptSteps => w = n
    BY DEF AttemptSteps, e
  <2>3. row.attempt_count \in Nat
    BY <1>1, <1>2, <1>8 DEF PaymentRows
  <2>4. <<n, Head(unread), n>> \in AttemptSteps
    BY <1>3, <2>3 DEF AttemptSteps, AttemptRead, e, PaymentEvent
  <2>5. row'.attempt_count = n
    BY <1>1, <1>4, <1>8
  <2> HIDE DEF n
  <2>6. /\ Leads(AttemptSteps, n, Tail(unread), attempt_count)
        /\ Leads(AttemptSteps, n, unread, attempt_count)
    BY <1>1, <1>2, <2>1, <2>2, <2>4, LeadsProject
  <2> QED  BY <1>1, <1>5, <2>5, <2>6
<1>9. ASSUME view' = "payment_status"
      PROVE  \E n \in Nat : /\ n <= row'.total_refunded
                            /\ Leads(RefundSteps, n, unread', total_refunded')
  <2>1. PICK n \in Nat : n <= row.total_refunded /\ Leads(RefundSteps, n, unread, total_refunded)
    BY <1>1, <1>9 DEF PaymentViewInv
  <2>2. PICK m : <<n, Head(unread), m>> \in RefundSteps
                 /\ Leads(RefundSteps, m, Tail(unread), total_refunded)
    BY <1>1, <1>2, <2>1, LeadsRead
  <2>3. m \in Nat /\ m <= n + RefundRead(e) /\ RefundRead(e) \in Nat
    BY <1>3, <2>2 DEF RefundSteps, RefundRead, PaymentEvent, e
  <2>4. row.total_refunded \in Nat
    BY <1>1, <1>2, <1>9 DEF PaymentRows
  <2>5. m <= row'.total_refunded
    BY <1>1, <1>4, <1>9, <2>1, <2>3, <2>4
  <2>6. <<m, Head(unread), m>> \in RefundSteps
    BY <1>3, <2>3 DEF RefundSteps, e
  <2>7. Leads(RefundSteps, m, unread, total_refunded)
    BY <1>1, <1>2, <2>2, <2>6, LeadsAgain
  <2> QED  BY <1>1, <1>5, <2>2, <2>3, <2>5, <2>7
<1> HIDE DEF after
<1> QED  BY <1>1, <1>2, <1>4, <1>6, <1>7, <1>8, <1>9 DEF PaymentViewInv

------------------------------------------------------------------------------
(* The event of a command: what it carries besides its type. *)
RefundNamed == IF \E r \in RefundIds : RefundOf(r)
               THEN CHOOSE r \in RefundIds : RefundOf(r) ELSE "None"

LEMMA PaymentRaisedIs ==
  ASSUME NEW x, raised' = <<x>>
  PROVE  PaymentRaised =
           <<[type |-> x.type, attempt_number |-> attempt_count', refund_id |-> RefundNamed,
              amount |-> IF x.type \in {"RefundRequested", "RefundCompleted"}
                         THEN x.amount ELSE Amount]>>
<1> DEFINE told == [type |-> x.type, attempt_number |-> attempt_count',
                    refund_id |-> RefundNamed,
                    amount |-> IF x.type \in {"RefundRequested", "RefundCompleted"}
                               THEN x.amount ELSE Amount]
<1>1. 1..Len(raised') = 1..1 /\ \A k \in 1..1 : raised'[k] = x
  OBVIOUS
<1>2. PaymentRaised = [k \in 1..1 |-> told]
  BY <1>1, Zenon DEF PaymentRaised, RefundNamed
<1> HIDE DEF told
<1>3. [k \in 1..1 |-> told] = <<told>>
  OBVIOUS
<1> QED  BY <1>2, <1>3 DEF told

LEMMA RefundNamedIs ==
  /\ UNCHANGED refunds => RefundNamed = "None"
  /\ \A r \in RefundIds : \A x :
       /\ refunds \in [RefundIds -> Refund]
       /\ refunds' = [refunds EXCEPT ![r] = x]
       /\ x # refunds[r]
       => RefundNamed = r
<1>1. UNCHANGED refunds => RefundNamed = "None"
  BY DEF RefundNamed, RefundOf
<1>2. ASSUME NEW r \in RefundIds, NEW x, refunds \in [RefundIds -> Refund],
             refunds' = [refunds EXCEPT ![r] = x], x # refunds[r]
      PROVE  RefundNamed = r
  <2>1. \A s \in RefundIds : RefundOf(s) <=> s = r
    BY <1>2 DEF RefundOf
  <2>2. (CHOOSE s \in RefundIds : RefundOf(s)) = r
    BY <2>1
  <2> QED  BY <2>1, <2>2 DEF RefundNamed
<1> QED  BY <1>1, <1>2

LEMMA PaymentShownTyped ==
  ASSUME PaymentInv, IsFiniteSet(CompletedRefunds), NEW v \in PaymentViewNames
  PROVE  PaymentShown(v) \in PaymentRows(v)
<1>1. /\ status \in PaymentStatus /\ attempt_count \in Nat
      /\ refunds \in [RefundIds -> Refund] /\ total_refunded \in Nat
  BY DEF PaymentInv, TypeOK
<1>2. /\ FailedStatus \in {"none", "failed", "retrying", "recovered"}
      /\ CustomerStatus \in PaymentStatus
  BY <1>1 DEF FailedStatus, CustomerStatus, PaymentStatus
<1>3. Revenue \in Nat
  BY PaymentAssumption DEF Revenue
<1>4. Cardinality(CompletedRefunds) \in Nat
  BY FS_CardinalityType
<1>5. CASE v = "payment_status"
  BY <1>1, <1>5 DEF PaymentShown, StatusRow, PaymentRows
<1>6. CASE v = "failed_payments"
  <2>1. PaymentShown(v) = [status |-> FailedStatus,
                           attempt_number |-> FailedAttempt]
    BY <1>6 DEF PaymentShown, FailedRow
  <2>2. FailedAttempt \in Nat
    BY <1>1 DEF FailedAttempt
  <2> QED  BY <1>2, <1>6, <2>1, <2>2 DEF PaymentRows
<1>7. CASE v = "customer_payments"
  BY <1>2, <1>7 DEF PaymentShown, CustomerRow, PaymentRows
<1>8. CASE v = "daily_revenue"
  <2>1. PaymentShown(v) = [revenue |-> Revenue, refunded |-> total_refunded,
                           net |-> Revenue - total_refunded,
                           transactions |-> IF Captured THEN 1 ELSE 0,
                           refunds |-> Cardinality(CompletedRefunds)]
    BY <1>8 DEF PaymentShown, RevenueRow
  <2>2. Revenue - total_refunded \in Int
    BY <1>1, <1>3
  <2> QED  BY <1>1, <1>3, <1>4, <1>8, <2>1, <2>2 DEF PaymentRows
<1>9. CASE v = "refund_report"
  BY <1>1, <1>9 DEF PaymentShown, PaymentRows
<1> QED  BY <1>5, <1>6, <1>7, <1>8, <1>9 DEF PaymentViewNames

(* Every projector makes of the row to be shown, and of the event, the row *)
(* to be shown after the command. *)
Follows(e) ==
  /\ on_payment_status(StatusRow, e) = StatusRow'
  /\ on_failed_payments(FailedRow, e) = FailedRow'
  /\ on_customer_payments(CustomerRow, e) = CustomerRow'
  /\ on_daily_revenue(RevenueRow, e) = RevenueRow'
  /\ on_refund_report(refunds, e) = refunds'

LEMMA PaymentFollows ==
  ASSUME PaymentViewInv, PaymentInv', IsFiniteSet(CompletedRefunds)',
         NEW e \in PaymentEvent, Publish(<<e>>), Follows(e),
         AttemptRead(attempt_count, e) = attempt_count',
         total_refunded' = total_refunded + RefundRead(e)
  PROVE  PaymentViewInv'
<1>1. \A v \in PaymentViewNames : PaymentShown(v) \in PaymentRows(v)
  BY PaymentShownTyped DEF PaymentViewInv
<1>2. ASSUME NEW v \in PaymentViewNames
      PROVE  PaymentProjected(v, PaymentShown(v), e) = PaymentShown(v)'
  <2>1. CASE v = "payment_status"
    BY <2>1 DEF Follows, PaymentProjected, PaymentShown
  <2>2. CASE v = "failed_payments"
    BY <2>2 DEF Follows, PaymentProjected, PaymentShown
  <2>3. CASE v = "customer_payments"
    BY <2>3 DEF Follows, PaymentProjected, PaymentShown
  <2>4. CASE v = "daily_revenue"
    BY <2>4 DEF Follows, PaymentProjected, PaymentShown
  <2>5. CASE v = "refund_report"
    BY <2>5 DEF Follows, PaymentProjected, PaymentShown
  <2> QED  BY <2>1, <2>2, <2>3, <2>4, <2>5 DEF PaymentViewNames
<1> QED  BY <1>1, <1>2, PaymentTells

LEMMA SuccessFollows ==
  ASSUME PaymentViewInv, record_success, Publish(PaymentRaised)
  PROVE  PaymentViewInv'
<1>1. PaymentInv /\ PaymentInv'
  BY WebhookKeeps DEF PaymentViewInv, ProcessPaymentWebhook
<1>t. /\ status \in PaymentStatus /\ attempt_count \in Nat /\ Amount \in Nat
      /\ total_refunded \in Nat
  BY <1>1, PaymentAssumption DEF PaymentInv, TypeOK
<1>2. /\ status = "Pending" /\ status' = "Succeeded"
      /\ UNCHANGED <<attempt_count, refunds, total_refunded>>
  BY <1>1, <1>t, Sources DEF record_success, OnPaymentSucceeded, PaymentInv, Attempted
<1>3. PICK e : e = [type |-> "PaymentSucceeded", attempt_number |-> attempt_count',
                    refund_id |-> "None", amount |-> Amount]
  OBVIOUS
<1>4. PaymentRaised = <<e>>
  <2>1. raised' = <<[type |-> "PaymentSucceeded"]>>
    BY DEF record_success
  <2>2. RefundNamed = "None"
    BY <1>2, RefundNamedIs
  <2> QED  BY <1>3, <2>1, <2>2, PaymentRaisedIs
<1>5. e \in PaymentEvent
  BY <1>2, <1>3, <1>t DEF PaymentEvent
<1>6. CompletedRefunds' = CompletedRefunds
  BY <1>2 DEF CompletedRefunds
<1>7. Follows(e)
  <2>1. on_payment_status(StatusRow, e) = StatusRow'
    BY <1>2, <1>3 DEF on_payment_status, StatusRow
  <2>2. on_failed_payments(FailedRow, e) = FailedRow'
    <3>1. /\ FailedStatus = (IF attempt_count > 1 THEN "retrying" ELSE "none")
          /\ FailedStatus' = (IF attempt_count > 1 THEN "recovered" ELSE "none")
      BY <1>2 DEF FailedStatus
    <3>2. CASE ~(attempt_count > 1)
      <4>1. /\ FailedRow = [status |-> "none", attempt_number |-> 0]
            /\ FailedRow' = [status |-> "none", attempt_number |-> 0]
        <5>1. FailedStatus = "none" /\ FailedStatus' = "none"
          BY <3>1, <3>2
        <5>2. FailedAttempt = 0 /\ FailedAttempt' = 0
          BY <5>1 DEF FailedAttempt
        <5> QED  BY <5>1, <5>2 DEF FailedRow
      <4> QED  BY <1>3, <4>1 DEF on_failed_payments
    <3>3. CASE attempt_count > 1
      <4>1. /\ FailedRow = [status |-> "retrying", attempt_number |-> attempt_count]
            /\ FailedRow' = [status |-> "recovered", attempt_number |-> attempt_count]
        <5>1. FailedStatus = "retrying" /\ FailedStatus' = "recovered"
          BY <3>1, <3>3
        <5>2. FailedAttempt = attempt_count /\ FailedAttempt' = attempt_count
          BY <1>2, <5>1 DEF FailedAttempt
        <5> QED  BY <5>1, <5>2 DEF FailedRow
      <4> QED  BY <1>3, <4>1 DEF on_failed_payments
    <3> QED  BY <3>2, <3>3
  <2>3. on_customer_payments(CustomerRow, e) = CustomerRow'
    BY <1>2, <1>3 DEF on_customer_payments, CustomerRow, CustomerStatus
  <2>4. on_daily_revenue(RevenueRow, e) = RevenueRow'
    <3>1. ~Captured /\ Revenue = 0 /\ Captured' /\ Revenue' = Amount
      BY <1>2 DEF Captured, Revenue
    <3>2. \A n \in Nat : n + 0 = n
      OBVIOUS
    <3>3. Cardinality(CompletedRefunds) \in Nat
      BY FS_CardinalityType DEF PaymentViewInv
    <3> QED  BY <1>2, <1>3, <1>6, <1>t, <3>1, <3>2, <3>3 DEF on_daily_revenue, RevenueRow
  <2>5. on_refund_report(refunds, e) = refunds'
    BY <1>2, <1>3 DEF on_refund_report
  <2> QED  BY <2>1, <2>2, <2>3, <2>4, <2>5 DEF Follows
<1>8. /\ AttemptRead(attempt_count, e) = attempt_count'
      /\ total_refunded' = total_refunded + RefundRead(e)
  BY <1>2, <1>3, <1>t DEF AttemptRead, RefundRead
<1> QED  BY <1>1, <1>4, <1>5, <1>6, <1>7, <1>8, PaymentFollows DEF PaymentViewInv

LEMMA FailureFollows ==
  ASSUME PaymentViewInv, record_failure, Publish(PaymentRaised)
  PROVE  PaymentViewInv'
<1>1. PaymentInv /\ PaymentInv'
  BY WebhookKeeps DEF PaymentViewInv, ProcessPaymentWebhook
<1>t. /\ status \in PaymentStatus /\ attempt_count \in Nat /\ Amount \in Nat
      /\ total_refunded \in Nat
  BY <1>1, PaymentAssumption DEF PaymentInv, TypeOK
<1>2. /\ status = "Pending" /\ status' = "Failed"
      /\ UNCHANGED <<attempt_count, refunds, total_refunded>>
  BY <1>1, <1>t, Sources DEF record_failure, OnPaymentFailed, PaymentInv, Attempted
<1>3. PICK e : e = [type |-> "PaymentFailed", attempt_number |-> attempt_count',
                    refund_id |-> "None", amount |-> Amount]
  OBVIOUS
<1>4. PaymentRaised = <<e>>
  <2>1. PICK x : raised' = <<x>> /\ x.type = "PaymentFailed"
    BY DEF record_failure
  <2>2. RefundNamed = "None"
    BY <1>2, RefundNamedIs
  <2> QED  BY <1>3, <2>1, <2>2, PaymentRaisedIs
<1>5. e \in PaymentEvent
  BY <1>2, <1>3, <1>t DEF PaymentEvent
<1>6. CompletedRefunds' = CompletedRefunds
  BY <1>2 DEF CompletedRefunds
<1>7. Follows(e)
  <2>1. on_payment_status(StatusRow, e) = StatusRow'
    BY <1>2, <1>3 DEF on_payment_status, StatusRow
  <2>2. on_failed_payments(FailedRow, e) = FailedRow'
    <3>1. /\ FailedStatus = (IF attempt_count > 1 THEN "retrying" ELSE "none")
          /\ FailedStatus' = "failed"
      BY <1>2 DEF FailedStatus
    <3>2. FailedRow' = [status |-> "failed", attempt_number |-> attempt_count]
      <4>1. FailedStatus' = "failed" /\ FailedAttempt' = attempt_count
        BY <1>2, <3>1 DEF FailedAttempt
      <4> QED  BY <4>1 DEF FailedRow
    <3>3. on_failed_payments(FailedRow, e) = [status |-> "failed", attempt_number |-> attempt_count]
      BY <1>2, <1>3 DEF on_failed_payments
    <3> QED  BY <3>2, <3>3
  <2>3. on_customer_payments(CustomerRow, e) = CustomerRow'
    BY <1>2, <1>3 DEF on_customer_payments, CustomerRow, CustomerStatus
  <2>4. on_daily_revenue(RevenueRow, e) = RevenueRow'
    <3>1. ~Captured /\ Revenue = 0 /\ ~Captured' /\ Revenue' = 0
      BY <1>2 DEF Captured, Revenue
    <3>2. \A n \in Nat : n + 0 = n
      OBVIOUS
    <3>3. Cardinality(CompletedRefunds) \in Nat
      BY FS_CardinalityType DEF PaymentViewInv
    <3> QED  BY <1>2, <1>3, <1>6, <1>t, <3>1, <3>2, <3>3 DEF on_daily_revenue, RevenueRow
  <2>5. on_refund_report(refunds, e) = refunds'
    BY <1>2, <1>3 DEF on_refund_report
  <2> QED  BY <2>1, <2>2, <2>3, <2>4, <2>5 DEF Follows
<1>8. /\ AttemptRead(attempt_count, e) = attempt_count'
      /\ total_refunded' = total_refunded + RefundRead(e)
  BY <1>2, <1>3, <1>t DEF AttemptRead, RefundRead
<1> QED  BY <1>1, <1>4, <1>5, <1>6, <1>7, <1>8, PaymentFollows DEF PaymentViewInv

LEMMA RetryFollows ==
  ASSUME PaymentViewInv, retry, Publish(PaymentRaised)
  PROVE  PaymentViewInv'
<1>1. PaymentInv /\ PaymentInv'
  BY RetryKeeps DEF PaymentViewInv, RetryPayment
<1>t. /\ status \in PaymentStatus /\ attempt_count \in Nat \ {0} /\ Amount \in Nat
      /\ total_refunded \in Nat
  BY <1>1, PaymentAssumption DEF PaymentInv, TypeOK, Attempted, AttemptsExplainStatus,
                                 MAX_PAYMENT_ATTEMPTS
<1>2. /\ status = "Failed" /\ status' = "Pending" /\ attempt_count' = attempt_count + 1
      /\ UNCHANGED <<refunds, total_refunded>>
  BY DEF retry, can_retry, OnPaymentRetryInitiated
<1>3. PICK e : e = [type |-> "PaymentRetryInitiated", attempt_number |-> attempt_count',
                    refund_id |-> "None", amount |-> Amount]
  OBVIOUS
<1>4. PaymentRaised = <<e>>
  <2>1. raised' = <<[type |-> "PaymentRetryInitiated"]>>
    BY DEF retry
  <2>2. RefundNamed = "None"
    BY <1>2, RefundNamedIs
  <2> QED  BY <1>3, <2>1, <2>2, PaymentRaisedIs
<1>5. e \in PaymentEvent
  BY <1>2, <1>3, <1>t DEF PaymentEvent
<1>6. CompletedRefunds' = CompletedRefunds
  BY <1>2 DEF CompletedRefunds
<1>7. Follows(e)
  <2>1. on_payment_status(StatusRow, e) = StatusRow'
    BY <1>2, <1>3 DEF on_payment_status, StatusRow
  <2>2. on_failed_payments(FailedRow, e) = FailedRow'
    <3>1. FailedStatus = "failed" /\ FailedStatus' = "retrying"
      BY <1>2, <1>t DEF FailedStatus
    <3>2. FailedAttempt' = attempt_count'
      BY <3>1 DEF FailedAttempt
    <3>3. FailedRow' = [status |-> "retrying", attempt_number |-> attempt_count']
      BY <3>1, <3>2 DEF FailedRow
    <3>4. FailedRow.status = "failed"
      BY <3>1 DEF FailedRow
    <3> QED  BY <1>3, <3>3, <3>4 DEF on_failed_payments
  <2>3. on_customer_payments(CustomerRow, e) = CustomerRow'
    <3>1. CustomerStatus = "Failed" /\ CustomerStatus' = "Failed"
      BY <1>2, <1>t DEF CustomerStatus
    <3> QED  BY <1>3, <3>1 DEF on_customer_payments, CustomerRow
  <2>4. on_daily_revenue(RevenueRow, e) = RevenueRow'
    <3>1. ~Captured /\ Revenue = 0 /\ ~Captured' /\ Revenue' = 0
      BY <1>2 DEF Captured, Revenue
    <3>2. \A n \in Nat : n + 0 = n
      OBVIOUS
    <3>3. Cardinality(CompletedRefunds) \in Nat
      BY FS_CardinalityType DEF PaymentViewInv
    <3> QED  BY <1>2, <1>3, <1>6, <1>t, <3>1, <3>2, <3>3 DEF on_daily_revenue, RevenueRow
  <2>5. on_refund_report(refunds, e) = refunds'
    BY <1>2, <1>3 DEF on_refund_report
  <2> QED  BY <2>1, <2>2, <2>3, <2>4, <2>5 DEF Follows
<1>8. /\ AttemptRead(attempt_count, e) = attempt_count'
      /\ total_refunded' = total_refunded + RefundRead(e)
  BY <1>2, <1>3, <1>t DEF AttemptRead, RefundRead
<1> QED  BY <1>1, <1>4, <1>5, <1>6, <1>7, <1>8, PaymentFollows DEF PaymentViewInv

LEMMA RequestFollows ==
  ASSUME PaymentViewInv, NEW amount \in Nat \ {0}, request_refund(amount), Publish(PaymentRaised)
  PROVE  PaymentViewInv'
<1>1. PaymentInv /\ PaymentInv'
  BY RequestKeeps DEF PaymentViewInv
<1>t. /\ refunds \in [RefundIds -> Refund] /\ attempt_count \in Nat
      /\ total_refunded \in Nat /\ Amount \in Nat
  BY <1>1, PaymentAssumption DEF PaymentInv, TypeOK
<1>2. PICK id \in RefundIds :
        /\ refunds[id] = NoRefund
        /\ refunds' = [refunds EXCEPT ![id] = [status |-> "Requested", amount |-> amount]]
        /\ status \in {"Succeeded", "Partially_Refunded"}
        /\ UNCHANGED <<status, attempts, attempt_count, total_refunded>>
  BY DEF request_refund, OnRefundRequested
<1>3. PICK e : e = [type |-> "RefundRequested", attempt_number |-> attempt_count',
                    refund_id |-> id, amount |-> amount]
  OBVIOUS
<1>4. PaymentRaised = <<e>>
  <2>1. raised' = <<[type |-> "RefundRequested", amount |-> amount]>>
    BY DEF request_refund
  <2>2. RefundNamed = id
    <3>1. [status |-> "Requested", amount |-> amount] # refunds[id]
      BY <1>2 DEF NoRefund
    <3> QED  BY <1>2, <1>t, <3>1, RefundNamedIs
  <2> QED  BY <1>3, <2>1, <2>2, PaymentRaisedIs
<1>5. e \in PaymentEvent
  BY <1>2, <1>3, <1>t DEF PaymentEvent
<1>6. CompletedRefunds' = CompletedRefunds
  BY <1>2, <1>t DEF CompletedRefunds, NoRefund
<1>7. Follows(e)
  <2>1. on_payment_status(StatusRow, e) = StatusRow'
    BY <1>2, <1>3 DEF on_payment_status, StatusRow
  <2>2. on_failed_payments(FailedRow, e) = FailedRow'
    <3>1. FailedRow' = FailedRow
      BY <1>2 DEF FailedRow, FailedAttempt, FailedStatus
    <3> QED  BY <1>3, <3>1 DEF on_failed_payments
  <2>3. on_customer_payments(CustomerRow, e) = CustomerRow'
    BY <1>2, <1>3 DEF on_customer_payments, CustomerRow, CustomerStatus
  <2>4. on_daily_revenue(RevenueRow, e) = RevenueRow'
    <3>1. Captured /\ Revenue = Amount /\ Captured' /\ Revenue' = Amount
      BY <1>2 DEF Captured, Revenue
    <3>2. \A n \in Nat : n + 0 = n
      OBVIOUS
    <3>3. Cardinality(CompletedRefunds) \in Nat
      BY FS_CardinalityType DEF PaymentViewInv
    <3> QED  BY <1>2, <1>3, <1>6, <1>t, <3>1, <3>2, <3>3 DEF on_daily_revenue, RevenueRow
  <2>5. on_refund_report(refunds, e) = refunds'
    BY <1>2, <1>3 DEF on_refund_report
  <2> QED  BY <2>1, <2>2, <2>3, <2>4, <2>5 DEF Follows
<1>8. /\ AttemptRead(attempt_count, e) = attempt_count'
      /\ total_refunded' = total_refunded + RefundRead(e)
  BY <1>2, <1>3, <1>t DEF AttemptRead, RefundRead
<1> QED  BY <1>1, <1>4, <1>5, <1>6, <1>7, <1>8, PaymentFollows DEF PaymentViewInv

LEMMA CompleteFollows ==
  ASSUME PaymentViewInv, ProcessRefundWebhook, Publish(PaymentRaised)
  PROVE  PaymentViewInv'
<1>1. PaymentInv /\ PaymentInv'
  BY CompleteKeeps DEF PaymentViewInv
<1>t. /\ refunds \in [RefundIds -> Refund] /\ attempt_count \in Nat
      /\ total_refunded \in Nat /\ Amount \in Nat /\ status \in PaymentStatus
  BY <1>1, PaymentAssumption DEF PaymentInv, TypeOK
<1>2. PICK id \in RefundIds : complete_refund(id)
  BY DEF ProcessRefundWebhook
<1> DEFINE amount == refunds[id].amount
           told == IF total_refunded' >= Amount THEN "Refunded" ELSE "Partially_Refunded"
<1>3. /\ refunds[id].status = "Requested"
      /\ refunds' = [refunds EXCEPT ![id].status = "Completed"]
      /\ total_refunded' = total_refunded + amount
      /\ status' = told
      /\ UNCHANGED <<attempts, attempt_count>>
      /\ raised' = <<[type |-> "RefundCompleted", amount |-> amount]>>
  BY <1>2 DEF complete_refund, OnRefundCompleted
<1>4. /\ amount \in Nat /\ told \in {"Refunded", "Partially_Refunded"}
      /\ status \in {"Succeeded", "Refunded", "Partially_Refunded"}
  <2>1. amount \in Nat
    BY <1>t DEF Refund
  <2>2. attempts[attempt_count] = "succeeded"
    BY <1>1, <1>3 DEF PaymentInv, Refunded, RefundsAddUp, NoRefund
  <2>3. status \notin {"Pending", "Failed", "Processing"}
    BY <1>1, <2>2 DEF PaymentInv, Attempted, AttemptsExplainStatus
  <2> QED  BY <1>t, <2>1, <2>3 DEF PaymentStatus
<1>5. PICK e : e = [type |-> "RefundCompleted", attempt_number |-> attempt_count',
                    refund_id |-> id, amount |-> amount]
  OBVIOUS
<1> HIDE DEF amount, told
<1>6. PaymentRaised = <<e>>
  <2>1. \A r \in RefundIds : RefundOf(r) <=> r = id
    BY <1>t, <1>3 DEF RefundOf, Refund
  <2>2. RefundNamed = id
    <3>1. (CHOOSE r \in RefundIds : RefundOf(r)) = id
      BY <2>1
    <3> QED  BY <2>1, <3>1 DEF RefundNamed
  <2> QED  BY <1>3, <1>5, <2>2, PaymentRaisedIs
<1>7. e \in PaymentEvent
  BY <1>3, <1>4, <1>5, <1>t DEF PaymentEvent
<1>8. /\ IsFiniteSet(CompletedRefunds)'
      /\ Cardinality(CompletedRefunds)' = Cardinality(CompletedRefunds) + 1
      /\ Cardinality(CompletedRefunds) \in Nat
  <2>1. CompletedRefunds' = CompletedRefunds \cup {id} /\ id \notin CompletedRefunds
    BY <1>3, <1>t DEF CompletedRefunds, Refund
  <2> QED  BY <2>1, FS_AddElement, FS_CardinalityType DEF PaymentViewInv
<1>9. Captured /\ Revenue = Amount /\ Captured' /\ Revenue' = Amount
  BY <1>3, <1>4 DEF Captured, Revenue
<1>10. Follows(e)
  <2>1. on_payment_status(StatusRow, e) = StatusRow'
    <3>1. on_payment_status(StatusRow, e)
            = [StatusRow EXCEPT !.total_refunded = total_refunded', !.status = told]
      <4>1. StatusRow.total_refunded + e.amount = total_refunded'
        BY <1>3, <1>5 DEF StatusRow
      <4>2. e.type = "RefundCompleted"
        BY <1>5
      <4> QED  BY <4>1, <4>2, Zenon DEF on_payment_status, told
    <3> QED  BY <1>3, <3>1 DEF StatusRow
  <2>2. on_failed_payments(FailedRow, e) = FailedRow'
    <3>1. FailedRow' = FailedRow
      BY <1>3, <1>4 DEF FailedRow, FailedAttempt, FailedStatus
    <3> QED  BY <1>5, <3>1 DEF on_failed_payments
  <2>3. on_customer_payments(CustomerRow, e) = CustomerRow'
    <3>1. CustomerStatus' = "Refunded"
      BY <1>3, <1>4 DEF CustomerStatus
    <3> QED  BY <1>5, <3>1 DEF on_customer_payments, CustomerRow
  <2>4. on_daily_revenue(RevenueRow, e) = RevenueRow'
    <3>1. \A n \in Nat : n + 0 = n
      OBVIOUS
    <3> QED  BY <1>3, <1>4, <1>5, <1>8, <1>9, <1>t, <3>1 DEF on_daily_revenue, RevenueRow
  <2>5. on_refund_report(refunds, e) = refunds'
    BY <1>3, <1>5 DEF on_refund_report
  <2> QED  BY <2>1, <2>2, <2>3, <2>4, <2>5 DEF Follows
<1>11. /\ AttemptRead(attempt_count, e) = attempt_count'
       /\ total_refunded' = total_refunded + RefundRead(e)
  BY <1>3, <1>5, <1>t DEF AttemptRead, RefundRead
<1> QED  BY <1>1, <1>6, <1>7, <1>8, <1>10, <1>11, PaymentFollows

(* The payment InitiatePayment makes, and the rows its event made. *)
LEMMA PaymentViewStart ==
  ASSUME ReturnsInit
  PROVE  PaymentViewInv
<1>1. PaymentInv /\ view \in PaymentViewNames
  BY InitKeeps DEF ReturnsInit
<1>2. /\ status = "Pending" /\ attempt_count = 1 /\ total_refunded = 0
      /\ refunds = [r \in RefundIds |-> NoRefund] /\ unread = << >> /\ row = PaymentRow
  BY DEF ReturnsInit, Init, InitiatePayment
<1>3. CompletedRefunds = {} /\ IsFiniteSet(CompletedRefunds) /\ Cardinality(CompletedRefunds) = 0
  <2>1. CompletedRefunds = {}
    BY <1>2 DEF CompletedRefunds, NoRefund
  <2> QED  BY <2>1, FS_EmptySet
<1>4. row = PaymentShown(view)
  <2>1. CASE view = "payment_status"
    BY <1>2, <2>1 DEF PaymentRow, PaymentShown, StatusRow
  <2>2. CASE view = "failed_payments"
    BY <1>2, <2>2 DEF PaymentRow, PaymentShown, FailedRow, FailedAttempt, FailedStatus
  <2>3. CASE view = "customer_payments"
    BY <1>2, <2>3 DEF PaymentRow, PaymentShown, CustomerRow, CustomerStatus
  <2>4. CASE view = "daily_revenue"
    <3>1. Revenue = 0 /\ ~Captured /\ 0 - 0 = 0
      BY <1>2 DEF Revenue, Captured
    <3> QED  BY <1>2, <1>3, <2>4, <3>1 DEF PaymentRow, PaymentShown, RevenueRow
  <2>5. CASE view = "refund_report"
    BY <1>2, <2>5 DEF PaymentRow, PaymentShown
  <2> QED  BY <1>1, <2>1, <2>2, <2>3, <2>4, <2>5 DEF PaymentViewNames
<1>5. row \in PaymentRows(view) /\ unread \in Seq(PaymentEvent)
  BY <1>1, <1>2, <1>3, <1>4, PaymentShownTyped
<1>6. PaymentLeads(view)
  BY <1>2, <1>4, LeadsNone DEF PaymentLeads
<1>7. ASSUME view = "payment_status"
      PROVE  /\ Leads(AttemptSteps, row.attempt_count, unread, attempt_count)
             /\ \E n \in Nat : n <= row.total_refunded /\ Leads(RefundSteps, n, unread, total_refunded)
  <2>1. row.attempt_count = attempt_count /\ row.total_refunded = 0
    BY <1>2, <1>7 DEF PaymentRow
  <2>2. Leads(RefundSteps, 0, unread, total_refunded) /\ 0 <= row.total_refunded
    BY <1>2, <2>1, LeadsNone
  <2> QED  BY <1>2, <2>1, <2>2, LeadsNone
<1> QED  BY <1>1, <1>3, <1>5, <1>6, <1>7 DEF PaymentViewInv

LEMMA PaymentViewStep ==
  ASSUME PaymentViewInv, [ReturnsNext]_returns_vars
  PROVE  PaymentViewInv'
<1>1. ASSUME UNCHANGED <<vars, read_vars>> PROVE PaymentViewInv'
  <2>1. UNCHANGED <<status, attempts, attempt_count, refunds, total_refunded, raised>>
        /\ UNCHANGED <<view, row, unread, redelivered>>
    BY <1>1 DEF vars, read_vars
  <2>2. PaymentInv'
    BY <1>1, NextKeeps DEF PaymentViewInv
  <2>3. CompletedRefunds' = CompletedRefunds
    BY <2>1 DEF CompletedRefunds
  <2>4. ASSUME NEW v PROVE PaymentLeads(v)' = PaymentLeads(v)
    <3>1. PaymentShown(v)' = PaymentShown(v)
      BY <2>1, <2>3, Zenon DEF PaymentShown, StatusRow, FailedRow, CustomerRow, RevenueRow,
                               FailedStatus, FailedAttempt, CustomerStatus, Revenue, Captured
    <3> QED  BY <2>1, <3>1 DEF PaymentLeads
  <2>5. PaymentLeads(view)' = PaymentLeads(view)
    BY <2>1, <2>4
  <2> QED  BY <2>1, <2>2, <2>3, <2>5 DEF PaymentViewInv
<1>2. CASE PaymentCommand
  <2>1. Next /\ Publish(PaymentRaised)
    BY <1>2 DEF PaymentCommand
  <2>2. CASE RequestRefund
    <3>1. PICK amount \in RefundAmounts : request_refund(amount)
      BY <2>2 DEF RequestRefund
    <3>2. amount \in Nat \ {0}
      BY PaymentAssumption
    <3> QED  BY <2>1, <3>1, <3>2, RequestFollows
  <2> QED
    BY <2>1, <2>2, SuccessFollows, FailureFollows, RetryFollows, CompleteFollows
       DEF Next, ProcessPaymentWebhook, RetryPayment
<1>3. CASE PaymentProjection
  BY <1>3, PaymentProjects
<1>4. CASE OrderReturned
  BY <1>1, <1>4 DEF OrderReturned
<1>5. CASE OrderReturnedSubscriber
  <2>1. Amount \in Nat \ {0}
    BY PaymentAssumption
  <2>2. \/ request_refund(Amount) /\ Publish(PaymentRaised)
        \/ UNCHANGED <<vars, read_vars>>
    BY <1>5 DEF OrderReturnedSubscriber
  <2> QED  BY <1>1, <2>1, <2>2, RequestFollows
<1>6. CASE UNCHANGED returns_vars
  BY <1>1, <1>6 DEF returns_vars
<1> QED  BY <1>2, <1>3, <1>4, <1>5, <1>6 DEF ReturnsNext

LEMMA PaymentViewInvariant == ReturnsSpec => []PaymentViewInv
  BY PaymentViewStart, PaymentViewStep, PTL DEF ReturnsSpec

(* What each of the five projections tells of the payment, once it caught  *)
(* up with it, for any amount, any refunds and any number of unread events.*)
THEOREM PaymentIsShown == ReturnsSpec => []PaymentViewsFollow
<1>1. ASSUME PaymentViewInv PROVE PaymentViewsFollow
  <2> SUFFICES ASSUME CaughtUp
               PROVE  PaymentViewsFollow
    BY DEF PaymentViewsFollow
  <2>0. /\ unread = << >> /\ view \in PaymentViewNames
        /\ total_refunded \in Nat /\ attempt_count \in Nat
    BY <1>1 DEF CaughtUp, PaymentViewInv, PaymentInv, TypeOK
  <2>1. ~redelivered \/ view \in SteadyViews => row = PaymentShown(view)
    BY <1>1, <2>0, LeadsNone DEF PaymentViewInv, PaymentLeads
  <2>2. CASE view = "payment_status"
    <3>1. row.attempt_count = attempt_count
      BY <1>1, <2>0, <2>2, LeadsNone DEF PaymentViewInv
    <3>2. PICK n \in Nat : n <= row.total_refunded /\ Leads(RefundSteps, n, unread, total_refunded)
      BY <1>1, <2>2 DEF PaymentViewInv
    <3>3. n = total_refunded
      BY <2>0, <3>2, LeadsNone
    <3>4. ~redelivered => row.status = status /\ row.total_refunded = total_refunded
      BY <2>1, <2>2 DEF PaymentShown, StatusRow
    <3>5. row.total_refunded \in Nat
      BY <1>1, <2>2 DEF PaymentViewInv, PaymentRows
    <3>6. StatusViewFollows
      BY <2>0, <3>1, <3>2, <3>3, <3>4, <3>5 DEF StatusViewFollows
    <3> QED  BY <2>2, <3>6 DEF PaymentViewsFollow
  <2>3. CASE view = "failed_payments"
    <3>1. row = FailedRow
      BY <2>1, <2>3 DEF PaymentShown, SteadyViews
    <3>2. /\ row.status = FailedStatus
          /\ row.status # "none" => row.attempt_number = attempt_count
      BY <3>1 DEF FailedRow, FailedAttempt
    <3>3. FailedViewFollows
      BY <3>2 DEF FailedViewFollows, FailedStatus
    <3> QED  BY <2>3, <3>3 DEF PaymentViewsFollow
  <2>4. CASE view = "customer_payments"
    <3>1. row = CustomerRow
      BY <2>1, <2>4 DEF PaymentShown, SteadyViews
    <3>2. CustomerViewFollows
      BY <3>1 DEF CustomerViewFollows, CustomerRow, CustomerStatus
    <3> QED  BY <2>4, <3>2 DEF PaymentViewsFollow
  <2>5. CASE view = "daily_revenue"
    <3>1. ~redelivered => row = RevenueRow
      BY <2>1, <2>5 DEF PaymentShown
    <3>2. RevenueFollows
      BY <3>1 DEF RevenueFollows, RevenueRow, Revenue
    <3> QED  BY <2>5, <3>2 DEF PaymentViewsFollow
  <2>6. CASE view = "refund_report"
    <3>1. row = refunds
      BY <2>1, <2>6 DEF PaymentShown, SteadyViews
    <3> QED  BY <2>6, <3>1 DEF PaymentViewsFollow
  <2> QED  BY <2>0, <2>2, <2>3, <2>4, <2>5, <2>6 DEF PaymentViewNames
<1> QED  BY <1>1, PaymentViewInvariant, PTL

------------------------------------------------------------------------------
(***************************************************************************)
(* Checkout of a cart: whichever calls overlap, repeat each other or stop, *)
(* one converts the cart, and no other is told that it succeeded.          *)
(***************************************************************************)
OneAnswer ==
  IF cart_status = "Converted" THEN \E c \in Calls : CallsAt(HasConverted) = {c}
  ELSE CallsAt(HasConverted) = {}

LoadedSomething == \A c \in CallsAt({"loaded"}) : InCart(calls[c].items) # {}

CallsOrdered ==
  \A c \in CallsAt({"ordered", "refused"} \cup HasConverted) :
    \E o \in cart_orders : o.call = c /\ InCart(o.items) # {}

OrdersCalled ==
  \A o \in cart_orders : /\ o.call \in Calls
                         /\ calls[o.call].pc \notin {"idle", "loaded"}
                         /\ o.items = calls[o.call].items

(* What was loaded is what is ordered: without LoadedSomething nothing     *)
(* says that an order has items.                                           *)
CheckoutInv == /\ DOMAIN calls = Calls
               /\ OneAnswer
               /\ LoadedSomething
               /\ CallsOrdered
               /\ OrdersCalled

------------------------------------------------------------------------------
LEMMA CheckoutInit == StorefrontInit => CheckoutInv
<1> SUFFICES ASSUME StorefrontInit PROVE CheckoutInv
  OBVIOUS
<1>1. /\ calls = [c \in Calls |-> [pc |-> "idle", items |-> cart_items]]
      /\ cart_orders = {} /\ cart_status = "Active"
  BY DEF StorefrontInit, CreateCart
<1>2. \A c \in Calls : calls[c].pc = "idle"
  BY <1>1
<1> QED  BY <1>1, <1>2 DEF CheckoutInv, OneAnswer, LoadedSomething, CallsOrdered,
                           OrdersCalled, CallsAt, HasConverted

(* Cart commands leave the calls and their orders alone, and a converted   *)
(* cart as it is.                                                          *)
LEMMA CartCommandKeeps ==
  ASSUME CheckoutInv, CartCommand
  PROVE  CheckoutInv'
<1>1. /\ UNCHANGED <<calls, cart_orders>>
      /\ cart_status' # cart_status => cart_status = "Active" /\ cart_status' = "Abandoned"
  <2>1. CASE AddToCart
    BY <2>1 DEF AddToCart, ChangeItems
  <2>2. CASE UpdateCartQuantity
    BY <2>2 DEF UpdateCartQuantity, ChangeItems
  <2>3. CASE RemoveFromCart
    BY <2>3 DEF RemoveFromCart, ChangeItems
  <2>4. CASE MergeGuestCart
    BY <2>4 DEF MergeGuestCart, ChangeItems
  <2>5. CASE ApplyCouponToCart
    BY <2>5 DEF ApplyCouponToCart
  <2>6. CASE AbandonCart \/ DetectAbandonedCarts
    BY <2>6 DEF AbandonCart, DetectAbandonedCarts, abandon, Active, storefront_vars, cart_vars
  <2> QED  BY <2>1, <2>2, <2>3, <2>4, <2>5, <2>6 DEF CartCommand
<1> QED
  BY <1>1 DEF CheckoutInv, OneAnswer, LoadedSomething, CallsOrdered, OrdersCalled, CallsAt,
             HasConverted

LEMMA LoadCartKeeps ==
  ASSUME CheckoutInv, NEW c \in Calls, LoadCart(c)
  PROVE  CheckoutInv'
<1> USE DEF CheckoutInv
<1>1. /\ DOMAIN calls' = Calls
      /\ calls'[c].pc = "loaded" /\ calls'[c].items = cart_items
      /\ \A d \in Calls \ {c} : calls'[d] = calls[d]
  BY DEF LoadCart, MoveCall
<1>2. /\ calls[c].pc = "idle" /\ InCart(cart_items) # {}
      /\ UNCHANGED <<cart_status, cart_orders>>
  BY DEF LoadCart
<1>3. CallsAt(HasConverted)' = CallsAt(HasConverted)
  BY <1>1, <1>2 DEF CallsAt, HasConverted
<1>4. OneAnswer'
  BY <1>2, <1>3 DEF OneAnswer
<1>5. LoadedSomething'
  BY <1>1, <1>2 DEF LoadedSomething, CallsAt, InCart
<1>6. CallsOrdered' /\ OrdersCalled'
  BY <1>1, <1>2 DEF CallsOrdered, OrdersCalled, CallsAt, InCart, HasConverted
<1> QED  BY <1>1, <1>4, <1>5, <1>6

LEMMA CreateOrderKeeps ==
  ASSUME CheckoutInv, NEW c \in Calls, CreateOrderFromCart(c)
  PROVE  CheckoutInv'
<1> USE DEF CheckoutInv
<1>1. /\ DOMAIN calls' = Calls
      /\ calls'[c].pc = "ordered" /\ calls'[c].items = calls[c].items
      /\ \A d \in Calls \ {c} : calls'[d] = calls[d]
  BY DEF CreateOrderFromCart, MoveCall
<1>2. /\ calls[c].pc = "loaded" /\ UNCHANGED cart_status
      /\ cart_orders' = cart_orders \cup {[call |-> c, items |-> calls[c].items]}
  BY DEF CreateOrderFromCart
<1>3. CallsAt(HasConverted)' = CallsAt(HasConverted)
  BY <1>1, <1>2 DEF CallsAt, HasConverted
<1>4. OneAnswer'
  BY <1>2, <1>3 DEF OneAnswer
<1>5. LoadedSomething' /\ InCart(calls[c].items) # {}
  BY <1>1, <1>2 DEF LoadedSomething, CallsAt, InCart
<1>6. CallsOrdered'
  <2> SUFFICES ASSUME NEW d \in CallsAt({"ordered", "refused"} \cup HasConverted)'
               PROVE  \E o \in cart_orders' : o.call = d /\ InCart(o.items) # {}
    BY DEF CallsOrdered, InCart
  <2>1. CASE d = c
    <3> DEFINE o == [call |-> c, items |-> calls[c].items]
    <3>1. o \in cart_orders' /\ o.call = d /\ InCart(o.items) # {}
      BY <1>2, <1>5, <2>1
    <3> QED  BY <3>1
  <2>2. CASE d # c
    BY <1>1, <1>2, <2>2 DEF CallsOrdered, CallsAt, HasConverted
  <2> QED  BY <2>1, <2>2
<1>7. OrdersCalled'
  BY <1>1, <1>2 DEF OrdersCalled
<1> QED  BY <1>1, <1>4, <1>5, <1>6, <1>7

(* The call that converts the cart is the first to: the cart was active.   *)
LEMMA ConvertToOrderKeeps ==
  ASSUME CheckoutInv, NEW c \in Calls, ConvertToOrder(c)
  PROVE  CheckoutInv'
<1> USE DEF CheckoutInv
<1>1. /\ DOMAIN calls' = Calls
      /\ calls'[c].pc \in {"converted", "refused"} /\ calls'[c].items = calls[c].items
      /\ \A d \in Calls \ {c} : calls'[d] = calls[d]
  BY DEF ConvertToOrder, MoveCall
<1>2. calls[c].pc = "ordered" /\ UNCHANGED cart_orders
  BY DEF ConvertToOrder
<1>4. OneAnswer'
  <2>1. CASE cart_status = "Active" /\ cart_status' = "Converted" /\ calls'[c].pc = "converted"
    <3>1. CallsAt(HasConverted) = {}
      BY <2>1 DEF OneAnswer
    <3>2. CallsAt(HasConverted)' = {c}
      BY <1>1, <2>1, <3>1 DEF CallsAt, HasConverted
    <3> QED  BY <2>1, <3>2 DEF OneAnswer
  <2>2. CASE UNCHANGED cart_status /\ calls'[c].pc = "refused"
    <3>1. CallsAt(HasConverted)' = CallsAt(HasConverted)
      BY <1>1, <1>2, <2>2 DEF CallsAt, HasConverted
    <3> QED  BY <2>2, <3>1 DEF OneAnswer
  <2>3. \/ cart_status = "Active" /\ cart_status' = "Converted" /\ calls'[c].pc = "converted"
        \/ UNCHANGED cart_status /\ calls'[c].pc = "refused"
    BY DEF ConvertToOrder, MoveCall, Active
  <2> QED  BY <2>1, <2>2, <2>3
<1>5. LoadedSomething' /\ CallsOrdered' /\ OrdersCalled'
  BY <1>1, <1>2 DEF LoadedSomething, CallsOrdered, OrdersCalled, CallsAt, InCart
<1> QED  BY <1>1, <1>4, <1>5

(* Answered or stopped, a call that had converted the cart still has, and  *)
(* one that had not never will; its order stays.                           *)
LEMMA EndKeeps ==
  ASSUME CheckoutInv, NEW c \in Calls, Answer(c) \/ Stop(c)
  PROVE  CheckoutInv'
<1> USE DEF CheckoutInv
<1>1. /\ DOMAIN calls' = Calls
      /\ calls'[c].items = calls[c].items
      /\ \A d \in Calls \ {c} : calls'[d] = calls[d]
      /\ UNCHANGED <<cart_status, cart_orders>>
  BY DEF Answer, Stop, MoveCall
<1>2. \/ calls[c].pc = "converted" /\ calls'[c].pc \in {"answered", "unanswered"}
      \/ calls[c].pc \in {"loaded", "ordered"} /\ calls'[c].pc = "stopped"
  BY DEF Answer, Stop, MoveCall
<1>3. CallsAt(HasConverted)' = CallsAt(HasConverted)
  BY <1>1, <1>2 DEF CallsAt, HasConverted
<1>4. OneAnswer'
  BY <1>1, <1>3 DEF OneAnswer
<1>5. LoadedSomething' /\ CallsOrdered' /\ OrdersCalled'
  BY <1>1, <1>2 DEF LoadedSomething, CallsOrdered, OrdersCalled, CallsAt, InCart, HasConverted
<1> QED  BY <1>1, <1>4, <1>5

LEMMA CheckoutStep == CheckoutInv /\ [StorefrontNext]_storefront_vars => CheckoutInv'
<1> SUFFICES ASSUME CheckoutInv, [StorefrontNext]_storefront_vars PROVE CheckoutInv'
  OBVIOUS
<1>1. CASE CartCommand
  BY <1>1, CartCommandKeeps
<1>2. CASE Checkout
  <2>1. PICK c \in Calls : checkout_cart(c)
    BY <1>2 DEF Checkout
  <2> QED  BY <2>1, LoadCartKeeps, CreateOrderKeeps, ConvertToOrderKeeps, EndKeeps DEF checkout_cart
<1>3. CASE CartProjection \/ UNCHANGED storefront_vars
  BY <1>3 DEF CartProjection, storefront_vars, cart_vars, CheckoutInv, OneAnswer,
              LoadedSomething, CallsOrdered, OrdersCalled, CallsAt, HasConverted
<1> QED  BY <1>1, <1>2, <1>3 DEF StorefrontNext

LEMMA InvAnswers == CheckoutInv => CheckoutAnswersOnce
<1> SUFFICES ASSUME CheckoutInv PROVE CheckoutAnswersOnce
  OBVIOUS
<1>1. Cardinality(CallsAt(HasConverted)) = IF cart_status = "Converted" THEN 1 ELSE 0
  BY FS_EmptySet, FS_Singleton DEF CheckoutInv, OneAnswer
<1>2. /\ \A c \in CallsAt({"ordered", "refused"} \cup HasConverted) :
           \E o \in cart_orders : o.call = c /\ InCart(o.items) # {}
      /\ \A o \in cart_orders : /\ calls[o.call].pc \notin {"idle", "loaded"}
                               /\ o.items = calls[o.call].items
  BY Zenon DEF CheckoutInv, CallsOrdered, OrdersCalled
<1> QED  BY <1>1, <1>2 DEF CheckoutAnswersOnce

(* However many checkout calls there are, at most one converts the cart    *)
(* and may be answered that it did, and every order is the one its call    *)
(* loaded the items of (ordering/api/routes.py, checkout_cart).            *)
THEOREM OneCallSucceeds == StorefrontSpec => []CheckoutAnswersOnce
<1>1. StorefrontSpec => []CheckoutInv
  BY CheckoutInit, CheckoutStep, PTL DEF StorefrontSpec
<1> QED  BY <1>1, InvAnswers, PTL

------------------------------------------------------------------------------
(***************************************************************************)
(* Reviews: a customer has one review of a product that stands as long as  *)
(* submissions do not overlap, and never more than submissions that do.    *)
(***************************************************************************)
ReviewType ==
  [status : {"None", "Pending", "Published", "Rejected", "Removed"}, rating : Nat,
   verified : BOOLEAN, notes : BOOLEAN, votes : [Voters -> {"None", "Helpful", "Unhelpful"}],
   helpful_count : Nat, unhelpful_count : Nat, report_count : Nat, replied : BOOLEAN,
   is_edited : BOOLEAN]

ReviewsTyped ==
  /\ reviews \in [ReviewIds -> ReviewType]
  /\ submissions \in [Submissions -> [pc : {"idle", "checked"}, verified : BOOLEAN]]
  /\ purchased \in BOOLEAN /\ overlapped \in BOOLEAN

(* A submission under way counts as a review that stands: what it will add *)
(* is as certain as what was added.                                        *)
Counted ==
  /\ IsFiniteSet(Standing)
  /\ ~overlapped => Cardinality(Standing) + Cardinality(InProgress) <= 1
  /\ Cardinality(Standing) + Cardinality(InProgress) <= Cardinality(Submissions)

Verified ==
  /\ \A id \in Written : reviews[id].verified => purchased
  /\ \A s \in InProgress : submissions[s].verified => purchased

ReviewsInv == ReviewsTyped /\ Counted /\ Verified

------------------------------------------------------------------------------
LEMMA InProgressFinite == IsFiniteSet(InProgress) /\ Cardinality(InProgress) \in Nat
  BY ReviewsAssumption, FS_Subset, FS_CardinalityType DEF InProgress

LEMMA ReviewsInitKeeps == ReviewsInit => ReviewsInv
<1> SUFFICES ASSUME ReviewsInit PROVE ReviewsInv
  OBVIOUS
<1>1. /\ reviews = [id \in ReviewIds |-> NoReview]
      /\ submissions = [s \in Submissions |-> [pc |-> "idle", verified |-> FALSE]]
      /\ purchased = FALSE /\ overlapped = FALSE
  BY DEF ReviewsInit, ReviewsEmpty
<1>2. NoReview \in ReviewType
  BY DEF NoReview, ReviewType
<1>3. ReviewsTyped
  BY <1>1, <1>2 DEF ReviewsTyped
<1>4. Written = {} /\ Standing = {} /\ InProgress = {}
  BY <1>1 DEF Written, Standing, InProgress, NoReview
<1>5. Counted
  BY <1>4, FS_EmptySet, FS_CardinalityType, ReviewsAssumption DEF Counted
<1>6. Verified
  BY <1>4 DEF Verified
<1> QED  BY <1>3, <1>5, <1>6 DEF ReviewsInv

(* An order arrives: more may be verified, nothing else changes.           *)
LEMMA DeliveryKeeps == ASSUME ReviewsInv, OrderDeliveredToReviewer PROVE ReviewsInv'
<1>1. /\ purchased' = TRUE
      /\ UNCHANGED <<reviews, submissions, overlapped>>
  BY DEF OrderDeliveredToReviewer
<1>2. UNCHANGED <<Written, Standing, InProgress>>
  BY <1>1 DEF Written, Standing, InProgress
<1> QED  BY <1>1, <1>2 DEF ReviewsInv, ReviewsTyped, Counted, Verified

(* A submission goes on only when nothing stands, and is alone unless it   *)
(* overlaps with another.                                                  *)
LEMMA CheckKeeps ==
  ASSUME ReviewsInv, NEW s \in Submissions, CheckReviews(s)
  PROVE  ReviewsInv'
<1> USE DEF ReviewsInv
<1>1. /\ submissions[s].pc = "idle" /\ Standing = {}
      /\ submissions' = [submissions EXCEPT ![s] = [pc |-> "checked", verified |-> purchased]]
      /\ overlapped' = (overlapped \/ InProgress # {})
      /\ UNCHANGED <<reviews, purchased>>
  BY DEF CheckReviews
<1>2. ReviewsTyped'
  BY <1>1 DEF ReviewsTyped
<1>3. /\ UNCHANGED <<Written, Standing>>
      /\ InProgress' = InProgress \cup {s} /\ s \notin InProgress
  BY <1>1 DEF ReviewsTyped, Written, Standing, InProgress
<1>4. Cardinality(InProgress') <= Cardinality(Submissions)
  BY ReviewsAssumption, FS_Subset DEF InProgress
<1>5. ~overlapped' => Cardinality(InProgress') = 1
  BY <1>1, <1>3, FS_Singleton
<1>6. /\ Cardinality(Standing') = 0 /\ IsFiniteSet(Standing')
      /\ Cardinality(InProgress') \in Nat
  BY <1>1, <1>3, FS_EmptySet, FS_AddElement, InProgressFinite, FS_CardinalityType
<1>7. Counted'
  <2>1. Cardinality(InProgress)' = Cardinality(InProgress')
    OBVIOUS
  <2>2. Cardinality(Standing)' = Cardinality(Standing')
    OBVIOUS
  <2>3. Cardinality(Submissions) \in Nat
    BY ReviewsAssumption, FS_CardinalityType
  <2> QED  BY <1>4, <1>5, <1>6, <2>3 DEF Counted
<1>8. Verified'
  <2>1. \A id \in Written' : reviews'[id].verified => purchased'
    BY <1>1, <1>3 DEF Verified
  <2>2. submissions'[s].verified => purchased'
    BY <1>1 DEF ReviewsTyped
  <2>3. \A other \in InProgress : other # s => submissions'[other] = submissions[other]
    BY <1>1 DEF ReviewsTyped, InProgress
  <2> QED  BY <1>1, <1>3, <2>1, <2>2, <2>3 DEF Verified
<1> QED  BY <1>2, <1>7, <1>8

(* A submission ends: what was under way stands from now on.               *)
LEMMA SubmitKeeps ==
  ASSUME ReviewsInv, NEW s \in Submissions, submit(s)
  PROVE  ReviewsInv'
<1> USE DEF ReviewsInv
<1>1. PICK id \in ReviewIds \ Written, rating \in Ratings :
        /\ submissions[s].pc = "checked"
        /\ reviews' = [reviews EXCEPT ![id] =
                         [NoReview EXCEPT !.status = "Pending", !.rating = rating,
                                          !.verified = submissions[s].verified]]
        /\ submissions' = [submissions EXCEPT ![s] = [pc |-> "idle", verified |-> FALSE]]
        /\ UNCHANGED <<purchased, overlapped>>
  BY Zenon DEF submit, Write
<1> DEFINE new == [NoReview EXCEPT !.status = "Pending", !.rating = rating,
                                   !.verified = submissions[s].verified]
<1>2. /\ new \in ReviewType /\ new.status = "Pending"
      /\ new.verified = submissions[s].verified
  <2>1. rating \in Nat /\ submissions[s].verified \in BOOLEAN
    BY ReviewsAssumption DEF ReviewsTyped
  <2>2. NoReview \in ReviewType
    BY DEF NoReview, ReviewType
  <2> QED  BY <2>1, <2>2 DEF ReviewType
<1>3. reviews'[id] = new /\ \A other \in ReviewIds \ {id} : reviews'[other] = reviews[other]
  BY <1>1 DEF ReviewsTyped
<1> HIDE DEF new
<1>4. ReviewsTyped'
  BY <1>1, <1>2 DEF ReviewsTyped, new
<1>5. /\ Written' = Written \cup {id} /\ Standing' = Standing \cup {id} /\ id \notin Standing
      /\ InProgress' = InProgress \ {s} /\ s \in InProgress
  BY <1>1, <1>2, <1>3 DEF ReviewsTyped, Written, Standing, InProgress
<1>6. /\ IsFiniteSet(Standing') /\ Cardinality(Standing') = Cardinality(Standing) + 1
      /\ Cardinality(InProgress') = Cardinality(InProgress) - 1
  BY <1>5, FS_AddElement, FS_RemoveElement, InProgressFinite DEF Counted
<1>7. Counted'
  BY <1>1, <1>6, InProgressFinite, FS_CardinalityType, ReviewsAssumption DEF Counted
<1>8. Verified'
  <2>1. \A other \in Written' : reviews'[other].verified => purchased'
    BY <1>1, <1>2, <1>3, <1>5 DEF Verified, Written
  <2>2. \A other \in InProgress' : submissions'[other] = submissions[other]
    BY <1>1, <1>5 DEF ReviewsTyped, InProgress
  <2> QED  BY <1>1, <1>5, <2>1, <2>2 DEF Verified
<1> QED  BY <1>4, <1>7, <1>8

(* What every command does to the review it is about: it stays written,   *)
(* removed if it was, and as verified as it was.                           *)
Rewritten(id) ==
  /\ id \in Written
  /\ reviews' = [reviews EXCEPT ![id] = reviews'[id]]
  /\ reviews'[id] \in ReviewType
  /\ reviews'[id].status # "None"
  /\ reviews[id].status = "Removed" => reviews'[id].status = "Removed"
  /\ reviews'[id].verified = reviews[id].verified
  /\ UNCHANGED <<purchased, submissions, overlapped>>

LEMMA RewrittenKeeps ==
  ASSUME ReviewsInv, NEW id \in ReviewIds, Rewritten(id)
  PROVE  ReviewsInv'
<1> USE DEF ReviewsInv
<1>1. \A other \in ReviewIds \ {id} : reviews'[other] = reviews[other]
  BY DEF ReviewsTyped, Rewritten
<1>2. ReviewsTyped'
  BY DEF ReviewsTyped, Rewritten
<1>3. Written' = Written /\ Standing' \subseteq Standing /\ UNCHANGED InProgress
  BY <1>1 DEF Written, Standing, InProgress, Rewritten
<1>4. /\ IsFiniteSet(Standing')
      /\ Cardinality(Standing') <= Cardinality(Standing)
      /\ Cardinality(Standing') \in Nat /\ Cardinality(Standing) \in Nat
  BY <1>3, FS_Subset, FS_CardinalityType DEF Counted
<1>5. Counted'
  BY <1>3, <1>4, InProgressFinite, FS_CardinalityType, ReviewsAssumption DEF Counted, Rewritten
<1>6. Verified'
  BY <1>1, <1>3 DEF Verified, Written, Rewritten
<1> QED  BY <1>2, <1>5, <1>6

(* Transitions lead from a status other than Removed.                      *)
LEMMA Transitions ==
  ASSUME ReviewsTyped, NEW id \in ReviewIds, NEW to \in MayBecome[reviews[id].status]
  PROVE  id \in Written /\ reviews[id].status # "Removed"
  BY DEF ReviewsTyped, ReviewType, MayBecome, Written

LEMMA AuthorRewrites ==
  ASSUME ReviewsTyped, NEW id \in ReviewIds, NEW rating \in Ratings, edit(id, rating)
  PROVE  Rewritten(id)
<1>1. rating \in Nat /\ reviews[id] \in ReviewType
  BY ReviewsAssumption DEF ReviewsTyped
<1> QED  BY <1>1 DEF edit, Change, Write, Rewritten, ReviewsTyped, ReviewType, Written

LEMMA ModeratorRewrites ==
  ASSUME ReviewsTyped, NEW id \in ReviewIds, approve(id) \/ reject(id) \/ remove(id)
  PROVE  Rewritten(id)
<1>1. reviews[id] \in ReviewType
  BY DEF ReviewsTyped
<1>2. id \in Written /\ reviews[id].status # "Removed"
  BY Transitions DEF approve, reject, remove
<1>3. CASE approve(id)
  BY <1>1, <1>2, <1>3 DEF approve, Change, Write, Rewritten, ReviewsTyped, ReviewType
<1>4. CASE reject(id)
  BY <1>1, <1>2, <1>4 DEF reject, Change, Write, Rewritten, ReviewsTyped, ReviewType
<1>5. CASE remove(id)
  BY <1>1, <1>2, <1>5 DEF remove, Change, Write, Rewritten, ReviewsTyped, ReviewType
<1> QED  BY <1>3, <1>4, <1>5

LEMMA OthersRewrite ==
  ASSUME ReviewsTyped, NEW id \in ReviewIds,
         \/ report(id) \/ add_seller_reply(id)
         \/ \E v \in Voters, vote_type \in {"Helpful", "Unhelpful"} : vote(id, v, vote_type)
  PROVE  Rewritten(id)
<1>1. reviews[id] \in ReviewType /\ id \in Written
  BY Zenon DEF ReviewsTyped, report, add_seller_reply, vote, MayReact
<1>2. CASE report(id)
  BY <1>1, <1>2 DEF report, Change, Write, Rewritten, ReviewsTyped, ReviewType, Written
<1>3. CASE add_seller_reply(id)
  BY <1>1, <1>3 DEF add_seller_reply, Change, Write, Rewritten, ReviewsTyped, ReviewType, Written
<1>4. ASSUME NEW v \in Voters, NEW vote_type \in {"Helpful", "Unhelpful"}, vote(id, v, vote_type)
      PROVE  Rewritten(id)
  <2> DEFINE note  == reviews[id]
             votes == [note.votes EXCEPT ![v] = vote_type]
             h     == note.helpful_count + (IF vote_type = "Helpful" THEN 1 ELSE 0)
             u     == note.unhelpful_count + (IF vote_type = "Unhelpful" THEN 1 ELSE 0)
             voted == [note EXCEPT !.votes = votes, !.helpful_count = h, !.unhelpful_count = u]
  <2>1. /\ votes \in [Voters -> {"None", "Helpful", "Unhelpful"}]
        /\ h \in Nat /\ u \in Nat
    BY <1>1, <1>4 DEF ReviewType
  <2>2. /\ reviews' = [reviews EXCEPT ![id] = voted]
        /\ UNCHANGED <<purchased, submissions, overlapped>>
    BY <1>1, <1>4, Zenon DEF vote, Change, Write, ReviewType
  <2> HIDE DEF votes, h, u
  <2>3. /\ voted \in ReviewType
        /\ voted.status = note.status /\ voted.verified = note.verified
    BY <1>1, <2>1 DEF ReviewType
  <2> HIDE DEF voted
  <2> QED  BY <1>1, <2>2, <2>3, Zenon DEF Rewritten, ReviewsTyped, Written
<1> QED  BY <1>2, <1>3, <1>4

LEMMA ReviewsStepKeeps == ReviewsInv /\ [ReviewsNext]_reviews_vars => ReviewsInv'
<1> SUFFICES ASSUME ReviewsInv, [ReviewsNext]_reviews_vars PROVE ReviewsInv'
  OBVIOUS
<1>1. CASE OrderDeliveredToReviewer
  BY <1>1, DeliveryKeeps
<1>2. CASE SubmitReview
  BY <1>2, CheckKeeps, SubmitKeeps DEF SubmitReview
<1>3. CASE ReviewCommand
  <2>1. PICK id \in ReviewIds :
          \/ \E rating \in Ratings : edit(id, rating)
          \/ approve(id) \/ reject(id) \/ remove(id) \/ report(id) \/ add_seller_reply(id)
          \/ \E v \in Voters, vote_type \in {"Helpful", "Unhelpful"} : vote(id, v, vote_type)
    BY <1>3 DEF ReviewCommand
  <2>2. Rewritten(id)
    BY <2>1, AuthorRewrites, ModeratorRewrites, OthersRewrite DEF ReviewsInv
  <2> QED  BY <2>2, RewrittenKeeps
<1>4. CASE ReviewProjection \/ UNCHANGED reviews_vars
  <2>1. UNCHANGED review_vars
    BY <1>4 DEF ReviewProjection, reviews_vars
  <2> QED  BY <2>1 DEF review_vars, ReviewsInv, ReviewsTyped, Counted, Verified,
                       Written, Standing, InProgress
<1> QED  BY <1>1, <1>2, <1>3, <1>4 DEF ReviewsNext

LEMMA InvStands == ReviewsInv => OneReviewStands
<1> SUFFICES ASSUME ReviewsInv PROVE OneReviewStands
  OBVIOUS
<1>1. Cardinality(Standing) <= Cardinality(Submissions)
  BY InProgressFinite, FS_CardinalityType, ReviewsAssumption DEF ReviewsInv, Counted
<1> QED  BY <1>1 DEF ReviewsInv, Counted, Verified, OneReviewStands

(* SubmitReview's lookup keeps a customer to one standing review as long   *)
(* as submissions do not overlap, however reviews are moderated meanwhile, *)
(* and no review is a verified purchase without the delivery of an order   *)
(* (reviews/review/submission.py).                                         *)
THEOREM OneReviewStandsAlways == ReviewsSpec => []OneReviewStands
<1>1. ReviewsSpec => []ReviewsInv
  BY ReviewsInitKeeps, ReviewsStepKeeps, PTL DEF ReviewsSpec
<1> QED  BY <1>1, InvStands, PTL

------------------------------------------------------------------------------
(***************************************************************************)
(* The parcel: nothing leaves the warehouse that was not picked, packed    *)
(* and labelled.                                                           *)
(***************************************************************************)
(* Why a labelled parcel is complete: packing takes place when everything  *)
(* was picked, no item changes after it, and only a packed fulfillment is  *)
(* labelled.  The fields of the shipment are set in the order of the       *)
(* pipeline.                                                               *)
ParcelInv ==
  /\ Parcel!TypeOK
  /\ parcel_status # "None" => Parcel!Present # {}
  /\ parcel_packed => \A i \in Parcel!Present : parcel_items[i] = "Packed"
  /\ parcel_packed => parcel_status \notin {"None", "Pending", "Picking"}
  /\ parcel_status \in {"Packing", "Ready_To_Ship"} \cup Parcel!AtCarrier =>
       \A i \in Parcel!Present : parcel_items[i] \in {"Picked", "Packed"}
  /\ parcel_status \in {"Ready_To_Ship"} \cup Parcel!AtCarrier => parcel_packed
  /\ parcel_status \in {"None", "Pending", "Picking", "Packing"} => parcel_shipment = {}
  /\ parcel_status = "Ready_To_Ship" => parcel_shipment = {"carrier"}
  /\ parcel_status = "Cancelled" => parcel_shipment \subseteq {"carrier"}
  /\ parcel_status \in Parcel!AtCarrier => {"carrier", "tracking_number"} \subseteq parcel_shipment
  /\ parcel_status = "Delivered" <=> "actual_delivery" \in parcel_shipment

(* From where each status can be reached.                                  *)
LEMMA ParcelSources ==
  ASSUME parcel_status \in Parcel!FulfillmentStatus \cup {"None"}
  PROVE  /\ Parcel!CanTransition("Picking") => parcel_status = "Pending"
         /\ Parcel!CanTransition("Shipped") => parcel_status = "Ready_To_Ship"
         /\ Parcel!CanTransition("Delivered") => parcel_status \in {"In_Transit", "Exception"}
         /\ Parcel!CanTransition("Exception") => parcel_status = "In_Transit"
  BY DEF Parcel!CanTransition, Parcel!ValidTransitions, Parcel!FulfillmentStatus

(* A fulfillment that does not exist yet satisfies the invariant.          *)
LEMMA ParcelInitKeeps == Parcel!Init => ParcelInv
<1> SUFFICES ASSUME Parcel!Init PROVE ParcelInv
  OBVIOUS
<1>1. Parcel!TypeOK
  <2>1. parcel_items \in [ParcelItems -> Parcel!FulfillmentItemStatus \cup {"None"}]
    BY DEF Parcel!Init
  <2>2. parcel_raised \in Seq(Parcel!EventType)
    BY DEF Parcel!Init
  <2>3. /\ parcel_status \in Parcel!FulfillmentStatus \cup {"None"}
        /\ parcel_shipment \in Parcel!ShipmentInfo
    BY DEF Parcel!Init, Parcel!ShipmentInfo
  <2>4. parcel_packed \in BOOLEAN
    BY DEF Parcel!Init
  <2> QED  BY <2>1, <2>2, <2>3, <2>4 DEF Parcel!TypeOK
<1>2. ~parcel_packed /\ parcel_status = "None" /\ parcel_shipment = {}
  BY DEF Parcel!Init
<1> QED  BY <1>1, <1>2 DEF ParcelInv, Parcel!AtCarrier

(* What the invariant is for.                                              *)
LEMMA InvComplete == ParcelInv => ParcelComplete
  BY DEF ParcelInv, Parcel!TypeOK, Parcel!FulfillmentStatus, Parcel!ShipmentInfo,
         ParcelComplete, Parcel!ParcelComplete, Parcel!AtCarrier

(* Every command keeps the invariant.                                      *)
LEMMA ParcelStepKeeps == ParcelInv /\ [Parcel!Next]_(Parcel!vars) => ParcelInv'
<1> SUFFICES ASSUME ParcelInv, [Parcel!Next]_(Parcel!vars) PROVE ParcelInv'
  OBVIOUS
<1> USE DEF ParcelInv, Parcel!TypeOK, Parcel!FulfillmentStatus, Parcel!FulfillmentItemStatus,
            Parcel!ShipmentInfo, Parcel!EventType, Parcel!AtCarrier, Parcel!Present,
            Parcel!Raise, Parcel!MoveTo
<1>1. CASE Parcel!CreateFulfillment
  BY <1>1 DEF Parcel!CreateFulfillment, Parcel!create
<1>2. CASE Parcel!AssignPicker
  BY <1>2, ParcelSources DEF Parcel!AssignPicker, Parcel!assign_picker
<1>3. CASE Parcel!RecordItemPicked
  BY <1>3 DEF Parcel!RecordItemPicked, Parcel!record_item_picked
<1>4. CASE Parcel!CompletePickList
  BY <1>4 DEF Parcel!CompletePickList, Parcel!complete_pick_list
<1>5. CASE Parcel!RecordPacking
  BY <1>5 DEF Parcel!RecordPacking, Parcel!record_packing
<1>6. CASE Parcel!GenerateShippingLabel
  BY <1>6 DEF Parcel!GenerateShippingLabel, Parcel!generate_shipping_label
<1>7. CASE Parcel!RecordHandoff
  BY <1>7, ParcelSources DEF Parcel!RecordHandoff, Parcel!record_handoff
<1>8. CASE Parcel!UpdateTrackingEvent
  BY <1>8 DEF Parcel!UpdateTrackingEvent, Parcel!add_tracking_event
<1>9. CASE Parcel!RecordDeliveryConfirmation
  BY <1>9, ParcelSources DEF Parcel!RecordDeliveryConfirmation, Parcel!record_delivery
<1>10. CASE Parcel!RecordDeliveryException
  BY <1>10, ParcelSources DEF Parcel!RecordDeliveryException, Parcel!record_exception
<1>11. CASE Parcel!CancelFulfillment
  BY <1>11 DEF Parcel!CancelFulfillment, Parcel!cancel, Parcel!CancellableStatuses
<1>12. CASE UNCHANGED Parcel!vars
  BY <1>12 DEF Parcel!vars
<1> QED
  BY <1>1, <1>2, <1>3, <1>4, <1>5, <1>6, <1>7, <1>8, <1>9, <1>10, <1>11, <1>12 DEF Parcel!Next

(* Nothing leaves the warehouse that was not picked, packed and labelled,  *)
(* whatever the items are and in whichever order the commands arrive       *)
(* (fulfillment/fulfillment/fulfillment.py).                               *)
THEOREM ParcelIsComplete == Parcel!Spec => []ParcelComplete
<1>1. Parcel!Spec => []ParcelInv
  BY ParcelInitKeeps, ParcelStepKeeps, PTL DEF Parcel!Spec
<1>2. QED
  BY <1>1, InvComplete, PTL

------------------------------------------------------------------------------
(***************************************************************************)
(* CartView: once its projector has read what is ahead of it, the status   *)
(* it shows is the cart's, whatever was handled twice; and the items are,  *)
(* as long as nothing was.                                                 *)
(***************************************************************************)
CartStatuses == {"none", "Active", "Converted", "Abandoned"}

CartViewRow == [status : CartStatuses, listed : [Variants -> Nat], item_count : Nat,
                coupons : Nat, updated_at : BOOLEAN]

CartEvent ==
  [type : {"CartItemAdded", "CartQuantityUpdated"}, variant : Variants, quantity : Nat]
    \cup [type : {"CartItemRemoved"}, variant : Variants]
    \cup [type : {"CartsMerged"}, items_merged_count : Nat]
    \cup [type : {"CartCouponApplied", "CartConverted", "CartAbandoned"}]

CartSteps ==
  {t \in CartViewRow \X CartEvent \X CartViewRow : t[3] = on_cart_view(t[1], t[2])}

(* The status alone, which a second handling leaves as it is.              *)
StatusShown(s, e) ==
  CASE e.type = "CartConverted" -> "Converted"
    [] e.type = "CartAbandoned" -> "Abandoned"
    [] e.type = "CartQuantityUpdated" -> s
    [] OTHER -> IF s = "none" THEN "Active" ELSE s

CartStatusSteps ==
  {t \in CartStatuses \X CartEvent \X CartStatuses : t[3] = StatusShown(t[1], t[2])}

(* What the view is to say in the end.                                     *)
StatusTold(s) ==
  /\ s \in {cart_status, "none"}
  /\ s = "none" => cart_status = "Active" /\ InCart(cart_items) = {}

CartTold(r) ==
  /\ r \in CartViewRow
  /\ \A v \in Variants : r.listed[v] <= cart_items[v]
  /\ r.coupons = IF coupon THEN 1 ELSE 0
  /\ merged = 0 => r.listed = cart_items /\ r.item_count = Cardinality(InCart(cart_items))

CartTyped ==
  /\ cart_status \in {"Active", "Converted", "Abandoned"}
  /\ cart_items \in [Variants -> Nat]
  /\ coupon \in BOOLEAN /\ merged \in Nat

CartViewInv ==
  /\ CartTyped
  /\ view = "cart_view" =>
       /\ row \in CartViewRow /\ unread \in Seq(CartEvent)
       /\ row.updated_at => row.status \in {"Converted", "Abandoned"}
       /\ \E s : Leads(CartStatusSteps, row.status, unread, s) /\ StatusTold(s)
       /\ ~redelivered => \E r : Leads(CartSteps, row, unread, r) /\ CartTold(r)

------------------------------------------------------------------------------
LEMMA CountInCart ==
  ASSUME NEW listed \in [Variants -> Nat]
  PROVE  Cardinality(InCart(listed)) \in Nat
  BY StorefrontAssumption, FS_Subset, FS_CardinalityType DEF InCart

(* What the projector makes of a row is a row, with the status that        *)
(* StatusShown says, and never the date of an update without a status that *)
(* ends the cart. *)
LEMMA CartRowKept ==
  ASSUME NEW r \in CartViewRow, NEW e \in CartEvent
  PROVE  /\ on_cart_view(r, e) \in CartViewRow
         /\ on_cart_view(r, e).status = StatusShown(r.status, e)
         /\ (r.updated_at => r.status \in {"Converted", "Abandoned"}) =>
              (on_cart_view(r, e).updated_at =>
                 on_cart_view(r, e).status \in {"Converted", "Abandoned"})
<1> DEFINE after == on_cart_view(r, e)
<1>1. /\ CartRow(r) \in CartViewRow
      /\ CartRow(r).status = IF r.status = "none" THEN "Active" ELSE r.status
      /\ CartRow(r).updated_at = r.updated_at /\ CartRow(r).listed = r.listed
      /\ CartRow(r).item_count = r.item_count /\ CartRow(r).coupons = r.coupons
  BY DEF CartRow, CartViewRow, CartStatuses
<1>2. ASSUME NEW listed \in [Variants -> Nat]
      PROVE  /\ Listing(r, listed) \in CartViewRow
             /\ Listing(r, listed).status = CartRow(r).status
             /\ Listing(r, listed).updated_at = r.updated_at
  BY <1>1, CountInCart DEF Listing, CartViewRow
<1>3. CASE e.type = "CartItemAdded"
  <2>1. e.variant \in Variants /\ e.quantity \in Nat
    BY <1>3 DEF CartEvent
  <2>2. [r.listed EXCEPT ![e.variant] = @ + e.quantity] \in [Variants -> Nat]
    BY <2>1 DEF CartViewRow
  <2>3. after = Listing(r, [r.listed EXCEPT ![e.variant] = @ + e.quantity])
    BY <1>3 DEF on_cart_view
  <2> QED  BY <1>1, <1>2, <1>3, <2>2, <2>3 DEF StatusShown
<1>4. CASE e.type = "CartQuantityUpdated"
  <2>1. e.variant \in Variants /\ e.quantity \in Nat
    BY <1>4 DEF CartEvent
  <2>2. after = [r EXCEPT !.listed[e.variant] = IF @ > 0 THEN e.quantity ELSE 0]
    BY <1>4 DEF on_cart_view
  <2> QED  BY <1>4, <2>1, <2>2 DEF StatusShown, CartViewRow
<1>5. CASE e.type = "CartItemRemoved"
  <2>1. e.variant \in Variants
    BY <1>5 DEF CartEvent
  <2>2. [r.listed EXCEPT ![e.variant] = 0] \in [Variants -> Nat]
    BY <2>1 DEF CartViewRow
  <2>3. after = Listing(r, [r.listed EXCEPT ![e.variant] = 0])
    BY <1>5 DEF on_cart_view
  <2> QED  BY <1>1, <1>2, <1>5, <2>2, <2>3 DEF StatusShown
<1>6. CASE e.type \in {"CartsMerged", "CartCouponApplied"}
  <2>1. e.type = "CartsMerged" => e.items_merged_count \in Nat
    BY DEF CartEvent
  <2> QED  BY <1>1, <1>6, <2>1 DEF on_cart_view, StatusShown, CartViewRow
<1>7. CASE e.type \in {"CartConverted", "CartAbandoned"}
  BY <1>1, <1>7 DEF on_cart_view, StatusShown, CartViewRow, CartStatuses
<1>8. e.type \in {"CartItemAdded", "CartQuantityUpdated", "CartItemRemoved", "CartsMerged",
                  "CartCouponApplied", "CartConverted", "CartAbandoned"}
  BY DEF CartEvent
<1> QED  BY <1>3, <1>4, <1>5, <1>6, <1>7, <1>8

(* An event is published that takes what the view is to say along with the *)
(* cart. *)
LEMMA CartTells ==
  ASSUME CartViewInv, NEW e \in CartEvent, CartTyped', Publish(<<e>>),
         \A s \in CartStatuses : StatusTold(s) => StatusTold(StatusShown(s, e))',
         \A r \in CartViewRow : CartTold(r) => CartTold(on_cart_view(r, e))'
  PROVE  CartViewInv'
<1>1. /\ UNCHANGED <<view, row, redelivered>>
      /\ view = "cart_view" => unread' = unread \o <<e>>
  BY DEF Publish
<1>2. CASE view # "cart_view"
  BY <1>1, <1>2 DEF CartViewInv
<1>3. CASE view = "cart_view"
  <2>1. unread \in Seq(CartEvent) /\ row \in CartViewRow /\ unread' = unread \o <<e>>
    BY <1>1, <1>3 DEF CartViewInv
  <2>2. \E s : Leads(CartStatusSteps, row'.status, unread', s) /\ StatusTold(s)'
    <3>1. PICK s : Leads(CartStatusSteps, row.status, unread, s) /\ StatusTold(s)
      BY <1>3 DEF CartViewInv
    <3> DEFINE z == StatusShown(s, e)
    <3>2. s \in CartStatuses
      BY <3>1 DEF StatusTold, CartViewInv, CartTyped, CartStatuses
    <3>3. StatusTold(z)'
      BY <3>1, <3>2
    <3>4. <<s, e, z>> \in CartStatusSteps
      BY <3>2 DEF CartStatusSteps, StatusShown, CartStatuses
    <3> HIDE DEF z
    <3>5. Leads(CartStatusSteps, row.status, unread \o <<e>>, z)
      BY <2>1, <3>1, <3>4, LeadsMore
    <3> QED  BY <1>1, <2>1, <3>3, <3>5
  <2>3. ~redelivered' => \E r : Leads(CartSteps, row', unread', r) /\ CartTold(r)'
    <3> SUFFICES ASSUME ~redelivered'
                 PROVE  \E r : Leads(CartSteps, row', unread', r) /\ CartTold(r)'
      OBVIOUS
    <3>1. PICK r : Leads(CartSteps, row, unread, r) /\ CartTold(r)
      BY <1>1, <1>3 DEF CartViewInv
    <3> DEFINE z == on_cart_view(r, e)
    <3>2. r \in CartViewRow /\ z \in CartViewRow
      BY <3>1, CartRowKept DEF CartTold
    <3>3. CartTold(z)'
      BY <3>1, <3>2
    <3>4. <<r, e, z>> \in CartSteps
      BY <3>2 DEF CartSteps
    <3> HIDE DEF z
    <3>5. Leads(CartSteps, row, unread \o <<e>>, z)
      BY <2>1, <3>1, <3>4, LeadsMore
    <3> QED  BY <1>1, <2>1, <3>3, <3>5
  <2>4. unread' \in Seq(CartEvent)
    BY <2>1
  <2> QED  BY <1>1, <1>3, <2>1, <2>2, <2>3, <2>4 DEF CartViewInv
<1> QED  BY <1>2, <1>3

(* The projector reads an event, perhaps not for the last time. *)
LEMMA CartProjects ==
  ASSUME CartViewInv, CartProjection
  PROVE  CartViewInv'
<1> DEFINE e == Head(unread)
           after == on_cart_view(row, e)
<1>1. /\ unread # << >> /\ row' = after /\ UNCHANGED <<view, cart_vars>>
      /\ \/ unread' = Tail(unread) /\ UNCHANGED redelivered
         \/ redelivered' = TRUE /\ UNCHANGED unread
  BY DEF CartProjection, Project
<1>2. UNCHANGED <<cart_status, cart_items, coupon, merged>>
  BY <1>1 DEF cart_vars
<1>3. CASE view # "cart_view"
  BY <1>1, <1>2, <1>3 DEF CartViewInv, CartTyped
<1>4. CASE view = "cart_view"
  <2>1. unread \in Seq(CartEvent) /\ row \in CartViewRow
    BY <1>4 DEF CartViewInv
  <2>2. e \in CartEvent /\ Tail(unread) \in Seq(CartEvent)
    BY <1>1, <2>1
  <2> HIDE DEF e
  <2>3. /\ after \in CartViewRow /\ after.status = StatusShown(row.status, e)
        /\ after.updated_at => after.status \in {"Converted", "Abandoned"}
    BY <1>4, <2>1, <2>2, CartRowKept DEF CartViewInv
  <2> HIDE DEF after
  <2>4. \E s : Leads(CartStatusSteps, row'.status, unread', s) /\ StatusTold(s)
    <3>1. PICK s : Leads(CartStatusSteps, row.status, unread, s) /\ StatusTold(s)
      BY <1>4 DEF CartViewInv
    <3>2. \A w : <<row.status, Head(unread), w>> \in CartStatusSteps => w = after.status
      BY <2>3 DEF CartStatusSteps, e
    <3>3. <<after.status, Head(unread), after.status>> \in CartStatusSteps
      BY <2>2, <2>3 DEF CartStatusSteps, StatusShown, CartViewRow, e
    <3>4. /\ Leads(CartStatusSteps, after.status, Tail(unread), s)
          /\ Leads(CartStatusSteps, after.status, unread, s)
      BY <1>1, <2>1, <3>1, <3>2, <3>3, LeadsProject
    <3> QED  BY <1>1, <3>1, <3>4
  <2>5. ~redelivered' => \E r : Leads(CartSteps, row', unread', r) /\ CartTold(r)
    <3> SUFFICES ASSUME ~redelivered'
                 PROVE  \E r : Leads(CartSteps, row', unread', r) /\ CartTold(r)
      OBVIOUS
    <3>1. PICK r : Leads(CartSteps, row, unread, r) /\ CartTold(r)
      BY <1>1, <1>4 DEF CartViewInv
    <3>2. \A w : <<row, Head(unread), w>> \in CartSteps => w = after
      BY DEF CartSteps, after, e
    <3>3. Leads(CartSteps, after, Tail(unread), r)
      BY <1>1, <2>1, <3>1, <3>2, LeadsProject
    <3> QED  BY <1>1, <3>1, <3>3
  <2>6. /\ \A s : StatusTold(s)' = StatusTold(s)
        /\ \A r : CartTold(r)' = CartTold(r)
    BY <1>2, Zenon DEF StatusTold, CartTold, InCart
  <2> QED  BY <1>1, <1>2, <1>4, <2>1, <2>2, <2>3, <2>4, <2>5, <2>6 DEF CartViewInv, CartTyped
<1> QED  BY <1>3, <1>4

(* The commands of items: additions, updates, removals and merges. *)
LEMMA AddTells ==
  ASSUME CartViewInv, AddToCart
  PROVE  CartViewInv'
<1>1. PICK v \in Variants, quantity \in 1..MaxQuantity :
        /\ Active /\ Publish(<<CartItemAdded(v, quantity)>>)
        /\ cart_items' = [cart_items EXCEPT ![v] = @ + quantity]
        /\ UNCHANGED <<cart_status, coupon, merged>>
  BY DEF AddToCart, ChangeItems
<1> DEFINE e == CartItemAdded(v, quantity)
<1>2. quantity \in Nat \ {0} /\ e \in CartEvent
  BY StorefrontAssumption DEF CartEvent, CartItemAdded
<1>3. /\ cart_status = "Active" /\ cart_items \in [Variants -> Nat]
      /\ cart_items'[v] = cart_items[v] + quantity
      /\ \A w \in Variants \ {v} : cart_items'[w] = cart_items[w]
      /\ CartTyped'
  BY <1>1, <1>2 DEF Active, CartViewInv, CartTyped
<1>4. ASSUME NEW s \in CartStatuses, StatusTold(s) PROVE StatusTold(StatusShown(s, e))'
  <2>1. StatusShown(s, e) = "Active"
    BY <1>3, <1>4 DEF StatusTold, StatusShown, CartItemAdded
  <2> QED  BY <1>1, <1>3, <2>1 DEF StatusTold
<1>5. ASSUME NEW r \in CartViewRow, CartTold(r) PROVE CartTold(on_cart_view(r, e))'
  <2> DEFINE listed == [r.listed EXCEPT ![v] = @ + quantity]
             z == on_cart_view(r, e)
  <2>1. z = Listing(r, listed) /\ z \in CartViewRow
    BY <1>2, CartRowKept DEF on_cart_view, CartItemAdded
  <2>2. z.listed = listed /\ z.item_count = Cardinality(InCart(listed)) /\ z.coupons = r.coupons
    BY <2>1 DEF Listing, CartRow, CartViewRow
  <2> HIDE DEF z
  <2>3. \A w \in Variants : listed[w] <= cart_items'[w]
    BY <1>2, <1>3, <1>5 DEF CartTold, CartViewRow
  <2>4. merged = 0 => listed = cart_items'
    BY <1>1, <1>5 DEF CartTold
  <2> HIDE DEF listed
  <2>5. merged' = 0 => z.item_count = Cardinality(InCart(cart_items'))
    BY <1>1, <2>2, <2>4
  <2>6. CartTold(z)'
    BY <1>1, <1>5, <2>1, <2>2, <2>3, <2>4, <2>5 DEF CartTold, InCart
  <2> QED  BY <2>6 DEF z
<1> HIDE DEF e
<1> QED  BY <1>1, <1>2, <1>3, <1>4, <1>5, CartTells DEF e

LEMMA UpdateTells ==
  ASSUME CartViewInv, UpdateCartQuantity
  PROVE  CartViewInv'
<1>1. PICK v \in InCart(cart_items), quantity \in 1..MaxQuantity :
        /\ Active /\ Publish(<<CartQuantityUpdated(v, quantity)>>)
        /\ cart_items' = [cart_items EXCEPT ![v] = quantity]
        /\ UNCHANGED <<cart_status, coupon, merged>>
  BY DEF UpdateCartQuantity, ChangeItems
<1> DEFINE e == CartQuantityUpdated(v, quantity)
<1>2. v \in Variants /\ quantity \in Nat \ {0} /\ e \in CartEvent
  BY StorefrontAssumption DEF CartEvent, CartQuantityUpdated, InCart
<1>3. /\ cart_status = "Active" /\ cart_items \in [Variants -> Nat]
      /\ cart_items'[v] = quantity
      /\ \A w \in Variants \ {v} : cart_items'[w] = cart_items[w]
      /\ InCart(cart_items') = InCart(cart_items)
      /\ CartTyped'
  BY <1>1, <1>2 DEF Active, CartViewInv, CartTyped, InCart
<1>4. ASSUME NEW s \in CartStatuses, StatusTold(s) PROVE StatusTold(StatusShown(s, e))'
  <2>1. StatusShown(s, e) = s /\ s = "Active"
    BY <1>1, <1>3, <1>4 DEF StatusTold, StatusShown, CartQuantityUpdated
  <2> QED  BY <1>1, <1>3, <2>1 DEF StatusTold
<1>5. ASSUME NEW r \in CartViewRow, CartTold(r) PROVE CartTold(on_cart_view(r, e))'
  <2> DEFINE listed == [r.listed EXCEPT ![v] = IF @ > 0 THEN quantity ELSE 0]
             z == on_cart_view(r, e)
  <2>1. z = [r EXCEPT !.listed[v] = IF @ > 0 THEN quantity ELSE 0] /\ z \in CartViewRow
    BY <1>2, CartRowKept DEF on_cart_view, CartQuantityUpdated
  <2>2. z.listed = listed /\ z.item_count = r.item_count /\ z.coupons = r.coupons
    BY <2>1 DEF CartViewRow
  <2> HIDE DEF z
  <2>3. \A w \in Variants : listed[w] <= cart_items'[w]
    BY <1>2, <1>3, <1>5 DEF CartTold, CartViewRow
  <2>4. merged = 0 => listed = cart_items'
    BY <1>1, <1>3, <1>5 DEF CartTold, InCart
  <2> HIDE DEF listed
  <2>5. merged' = 0 => z.item_count = Cardinality(InCart(cart_items'))
    BY <1>1, <1>3, <1>5, <2>2 DEF CartTold
  <2>6. CartTold(z)'
    BY <1>1, <1>5, <2>1, <2>2, <2>3, <2>4, <2>5 DEF CartTold, InCart
  <2> QED  BY <2>6 DEF z
<1> HIDE DEF e
<1> QED  BY <1>1, <1>2, <1>3, <1>4, <1>5, CartTells DEF e

LEMMA RemoveTells ==
  ASSUME CartViewInv, RemoveFromCart
  PROVE  CartViewInv'
<1>1. PICK v \in InCart(cart_items) :
        /\ Active /\ Publish(<<CartItemRemoved(v)>>)
        /\ cart_items' = [cart_items EXCEPT ![v] = 0]
        /\ UNCHANGED <<cart_status, coupon, merged>>
  BY DEF RemoveFromCart, ChangeItems
<1> DEFINE e == CartItemRemoved(v)
<1>2. v \in Variants /\ e \in CartEvent
  BY DEF CartEvent, CartItemRemoved, InCart
<1>3. /\ cart_status = "Active" /\ cart_items \in [Variants -> Nat]
      /\ cart_items'[v] = 0
      /\ \A w \in Variants \ {v} : cart_items'[w] = cart_items[w]
      /\ CartTyped'
  BY <1>1, <1>2 DEF Active, CartViewInv, CartTyped
<1>4. ASSUME NEW s \in CartStatuses, StatusTold(s) PROVE StatusTold(StatusShown(s, e))'
  <2>1. StatusShown(s, e) = "Active"
    BY <1>3, <1>4 DEF StatusTold, StatusShown, CartItemRemoved
  <2> QED  BY <1>1, <1>3, <2>1 DEF StatusTold
<1>5. ASSUME NEW r \in CartViewRow, CartTold(r) PROVE CartTold(on_cart_view(r, e))'
  <2> DEFINE listed == [r.listed EXCEPT ![v] = 0]
             z == on_cart_view(r, e)
  <2>1. z = Listing(r, listed) /\ z \in CartViewRow
    BY <1>2, CartRowKept DEF on_cart_view, CartItemRemoved
  <2>2. z.listed = listed /\ z.item_count = Cardinality(InCart(listed)) /\ z.coupons = r.coupons
    BY <2>1 DEF Listing, CartRow, CartViewRow
  <2> HIDE DEF z
  <2>3. \A w \in Variants : listed[w] <= cart_items'[w]
    BY <1>2, <1>3, <1>5 DEF CartTold, CartViewRow
  <2>4. merged = 0 => listed = cart_items'
    BY <1>1, <1>5 DEF CartTold
  <2> HIDE DEF listed
  <2>5. merged' = 0 => z.item_count = Cardinality(InCart(cart_items'))
    BY <1>1, <2>2, <2>4
  <2>6. CartTold(z)'
    BY <1>1, <1>5, <2>1, <2>2, <2>3, <2>4, <2>5 DEF CartTold, InCart
  <2> QED  BY <2>6 DEF z
<1> HIDE DEF e
<1> QED  BY <1>1, <1>2, <1>3, <1>4, <1>5, CartTells DEF e

LEMMA MergeTells ==
  ASSUME CartViewInv, MergeGuestCart
  PROVE  CartViewInv'
<1>1. PICK guest_items \in [Variants -> 0..1] :
        /\ Active /\ Publish(<<CartsMerged(Cardinality(InCart(guest_items)))>>)
        /\ cart_items' = [v \in Variants |-> cart_items[v] + guest_items[v]]
        /\ UNCHANGED <<cart_status, coupon>> /\ merged' = merged + 1
  BY DEF MergeGuestCart, ChangeItems
<1> DEFINE e == CartsMerged(Cardinality(InCart(guest_items)))
<1>2. e \in CartEvent
  <2>1. guest_items \in [Variants -> Nat]
    OBVIOUS
  <2> QED  BY <2>1, CountInCart DEF CartEvent, CartsMerged
<1>3. /\ cart_status = "Active" /\ cart_items \in [Variants -> Nat] /\ merged \in Nat
      /\ \A w \in Variants : guest_items[w] \in Nat /\ cart_items[w] <= cart_items'[w]
      /\ CartTyped'
  BY <1>1 DEF Active, CartViewInv, CartTyped
<1>4. ASSUME NEW s \in CartStatuses, StatusTold(s) PROVE StatusTold(StatusShown(s, e))'
  <2>1. StatusShown(s, e) = "Active"
    BY <1>3, <1>4 DEF StatusTold, StatusShown, CartsMerged
  <2> QED  BY <1>1, <1>3, <2>1 DEF StatusTold
<1>5. ASSUME NEW r \in CartViewRow, CartTold(r) PROVE CartTold(on_cart_view(r, e))'
  <2> DEFINE z == on_cart_view(r, e)
  <2>1. /\ z \in CartViewRow
        /\ z = [CartRow(r) EXCEPT !.item_count = @ + e.items_merged_count]
    BY <1>2, CartRowKept DEF on_cart_view, CartsMerged
  <2>2. z.listed = r.listed /\ z.coupons = r.coupons
    BY <2>1 DEF CartRow, CartViewRow
  <2> HIDE DEF z, e
  <2>3. \A w \in Variants : z.listed[w] <= cart_items'[w]
    <3>1. \A w \in Variants : r.listed[w] \in Nat /\ cart_items[w] \in Nat /\ cart_items'[w] \in Nat
      BY <1>3 DEF CartViewRow, CartTyped
    <3> QED  BY <1>3, <1>5, <2>2, <3>1 DEF CartTold
  <2>4. merged' # 0
    BY <1>1, <1>3
  <2>5. CartTold(z)'
    BY <1>1, <1>5, <2>1, <2>2, <2>3, <2>4 DEF CartTold
  <2> QED  BY <2>5 DEF z, e
<1> HIDE DEF e
<1> QED  BY <1>1, <1>2, <1>3, <1>4, <1>5, CartTells DEF e

(* The commands that leave the items as they are: a coupon, and the two    *)
(* ends of a cart. *)
LEMMA PlainTells ==
  ASSUME CartViewInv,
         NEW e \in [type : {"CartCouponApplied", "CartConverted", "CartAbandoned"}],
         Active, Publish(<<e>>), UNCHANGED <<cart_items, merged>>,
         e.type = "CartCouponApplied" => cart_status' = cart_status /\ coupon' = TRUE /\ ~coupon,
         e.type = "CartConverted" => cart_status' = "Converted" /\ coupon' = coupon,
         e.type = "CartAbandoned" => cart_status' = "Abandoned" /\ coupon' = coupon
  PROVE  CartViewInv'
<1>1. e \in CartEvent /\ CartTyped'
  BY DEF CartEvent, CartViewInv, CartTyped
<1>2. ASSUME NEW s \in CartStatuses, StatusTold(s) PROVE StatusTold(StatusShown(s, e))'
  BY <1>2 DEF StatusTold, StatusShown, Active
<1>3. ASSUME NEW r \in CartViewRow, CartTold(r) PROVE CartTold(on_cart_view(r, e))'
  <2> DEFINE z == on_cart_view(r, e)
  <2>1. z \in CartViewRow
    BY <1>1, CartRowKept
  <2>2. /\ z.listed = r.listed /\ z.item_count = r.item_count
        /\ z.coupons = r.coupons + (IF e.type = "CartCouponApplied" THEN 1 ELSE 0)
    BY <1>1 DEF on_cart_view, CartRow, CartViewRow
  <2> HIDE DEF z
  <2>3. z.coupons = IF coupon' THEN 1 ELSE 0
    <3>1. r.coupons = IF coupon THEN 1 ELSE 0
      BY <1>3 DEF CartTold
    <3>2. CASE e.type = "CartCouponApplied"
      BY <2>2, <3>1, <3>2
    <3>3. CASE e.type \in {"CartConverted", "CartAbandoned"}
      <4>1. z.coupons = r.coupons /\ coupon' = coupon
        BY <2>2, <3>1, <3>3
      <4> QED  BY <3>1, <4>1
    <3> QED  BY <3>2, <3>3
  <2>4. CartTold(z)'
    BY <1>3, <2>1, <2>2, <2>3 DEF CartTold
  <2> QED  BY <2>4 DEF z
<1> QED  BY <1>1, <1>2, <1>3, CartTells

LEMMA CartViewStep == CartViewInv /\ [StorefrontNext]_storefront_vars => CartViewInv'
<1> SUFFICES ASSUME CartViewInv, [StorefrontNext]_storefront_vars PROVE CartViewInv'
  OBVIOUS
<1>1. CASE AddToCart \/ UpdateCartQuantity \/ RemoveFromCart \/ MergeGuestCart
  BY <1>1, AddTells, UpdateTells, RemoveTells, MergeTells
<1>2. CASE ApplyCouponToCart
  <2> DEFINE e == [type |-> "CartCouponApplied"]
  <2>1. /\ e \in [type : {"CartCouponApplied", "CartConverted", "CartAbandoned"}]
        /\ e.type = "CartCouponApplied"
    OBVIOUS
  <2>2. /\ Active /\ Publish(<<e>>) /\ UNCHANGED <<cart_items, merged>>
        /\ cart_status' = cart_status /\ coupon' = TRUE /\ ~coupon
    BY <1>2 DEF ApplyCouponToCart
  <2> HIDE DEF e
  <2> QED  BY <2>1, <2>2, PlainTells
<1>3. CASE abandon
  <2> DEFINE e == [type |-> "CartAbandoned"]
  <2>1. /\ e \in [type : {"CartCouponApplied", "CartConverted", "CartAbandoned"}]
        /\ e.type = "CartAbandoned"
    OBVIOUS
  <2>2. /\ Active /\ Publish(<<e>>) /\ UNCHANGED <<cart_items, merged>>
        /\ cart_status' = "Abandoned" /\ coupon' = coupon
    BY <1>3 DEF abandon
  <2> HIDE DEF e
  <2> QED  BY <2>1, <2>2, PlainTells
<1>4. ASSUME NEW c \in Calls, ConvertToOrder(c), ~UNCHANGED <<cart_status, read_vars>>
      PROVE  CartViewInv'
  <2> DEFINE e == [type |-> "CartConverted"]
  <2>1. /\ e \in [type : {"CartCouponApplied", "CartConverted", "CartAbandoned"}]
        /\ e.type = "CartConverted"
    OBVIOUS
  <2>2. /\ Active /\ Publish(<<e>>) /\ UNCHANGED <<cart_items, merged>>
        /\ cart_status' = "Converted" /\ coupon' = coupon
    BY <1>4 DEF ConvertToOrder
  <2> HIDE DEF e
  <2> QED  BY <2>1, <2>2, PlainTells
<1>5. CASE UNCHANGED <<cart_status, cart_items, coupon, merged, read_vars>>
  BY <1>5 DEF CartViewInv, CartTyped, StatusTold, CartTold, InCart, read_vars
<1>6. CASE CartProjection
  BY <1>6, CartProjects
<1>7. \/ AddToCart \/ UpdateCartQuantity \/ RemoveFromCart \/ MergeGuestCart
      \/ ApplyCouponToCart \/ abandon \/ CartProjection
      \/ \E c \in Calls : ConvertToOrder(c) /\ ~UNCHANGED <<cart_status, read_vars>>
      \/ UNCHANGED <<cart_status, cart_items, coupon, merged, read_vars>>
  <2>1. CASE CartCommand
    BY <2>1 DEF CartCommand, AbandonCart, DetectAbandonedCarts, storefront_vars, cart_vars
  <2>2. CASE Checkout
    <3>1. PICK c \in Calls : checkout_cart(c)
      BY <2>2 DEF Checkout
    <3>2. CASE LoadCart(c) \/ CreateOrderFromCart(c) \/ Answer(c) \/ Stop(c)
      BY <3>2 DEF LoadCart, CreateOrderFromCart, Answer, Stop
    <3>3. CASE ConvertToOrder(c)
      <4>1. UNCHANGED <<cart_items, coupon, merged>>
        BY <3>3 DEF ConvertToOrder
      <4> QED  BY <3>3, <4>1
    <3> QED  BY <3>1, <3>2, <3>3 DEF checkout_cart
  <2>3. CASE UNCHANGED storefront_vars
    BY <2>3 DEF storefront_vars, cart_vars
  <2> QED  BY <2>1, <2>2, <2>3 DEF StorefrontNext
<1> QED  BY <1>1, <1>2, <1>3, <1>4, <1>5, <1>6, <1>7

LEMMA CartViewStart == StorefrontInit => CartViewInv
<1> SUFFICES ASSUME StorefrontInit PROVE CartViewInv
  OBVIOUS
<1>1. /\ cart_status = "Active" /\ cart_items = [v \in Variants |-> 0]
      /\ coupon = FALSE /\ merged = 0 /\ row = NoCartView /\ unread = << >>
  BY DEF StorefrontInit, CreateCart
<1>2. CartTyped /\ InCart(cart_items) = {}
  <2>1. cart_items \in [Variants -> Nat] /\ \A v \in Variants : ~(cart_items[v] > 0)
    BY <1>1
  <2> QED  BY <1>1, <2>1 DEF CartTyped, InCart
<1>3. /\ row \in CartViewRow /\ unread \in Seq(CartEvent)
      /\ row.status = "none" /\ row.listed = cart_items /\ row.item_count = 0
      /\ row.coupons = 0 /\ row.updated_at = FALSE
  BY <1>1 DEF NoCartView, CartViewRow, CartStatuses
<1>4. StatusTold(row.status)
  BY <1>1, <1>2, <1>3 DEF StatusTold
<1>5. CartTold(row)
  <2>1. Cardinality(InCart(cart_items)) = 0
    BY <1>2, FS_EmptySet
  <2> QED  BY <1>1, <1>3, <2>1 DEF CartTold
<1>6. Leads(CartStatusSteps, row.status, unread, row.status) /\ Leads(CartSteps, row, unread, row)
  BY <1>1, LeadsNone
<1> QED  BY <1>2, <1>3, <1>4, <1>5, <1>6, Zenon DEF CartViewInv

LEMMA CartViewTells == CartViewInv => CartViewFollows
<1> SUFFICES ASSUME CartViewInv, view = "cart_view" PROVE CartViewFollows
  BY DEF CartViewFollows
<1>1. ~Idle
  BY DEF CartViewInv, Idle
<1>2. CaughtUp => StatusTold(row.status)
  <2> SUFFICES ASSUME CaughtUp PROVE StatusTold(row.status)
    OBVIOUS
  <2>1. PICK s : Leads(CartStatusSteps, row.status, unread, s) /\ StatusTold(s)
    BY DEF CartViewInv
  <2>2. s = row.status
    BY <2>1, LeadsNone DEF CaughtUp
  <2> QED  BY <2>1, <2>2
<1>3. CaughtUp /\ ~redelivered => CartTold(row)
  <2> SUFFICES ASSUME CaughtUp, ~redelivered PROVE CartTold(row)
    OBVIOUS
  <2>1. PICK r : Leads(CartSteps, row, unread, r) /\ CartTold(r)
    BY DEF CartViewInv
  <2>2. r = row
    BY <2>1, LeadsNone DEF CaughtUp
  <2> QED  BY <2>1, <2>2
<1>4. CartTold(row) => (row.coupons = 1) = coupon
  BY DEF CartTold, CartViewInv, CartTyped
<1> QED  BY <1>1, <1>2, <1>3, <1>4 DEF StatusTold, CartTold, CartViewFollows

(* The view of a cart that caught up with it is right about its status     *)
(* however often an event was handled, and about items and coupon unless   *)
(* one was handled twice or a guest's cart was merged in; it never makes   *)
(* an active cart look idle (ordering/projections/cart_view.py).           *)
THEOREM CartIsShown == StorefrontSpec => []CartViewFollows
<1>1. StorefrontSpec => []CartViewInv
  BY CartViewStart, CartViewStep, PTL DEF StorefrontSpec
<1> QED  BY <1>1, CartViewTells, PTL

------------------------------------------------------------------------------
(***************************************************************************)
(* The projections of a customer.  What AccountPart takes from a row is as *)
(* it would be had every event been handled once, although one may have    *)
(* been handled twice: all of it, but of the address book only which       *)
(* addresses are listed and which are marked as the default.               *)
(***************************************************************************)
AccountStatuses == {"Active", "Suspended", "Closed"}

Names == {"old", "new"}

Numbers == Phones \cup {"None"}

AccountTyped ==
  /\ account \in AccountStatuses /\ tier \in Tiers
  /\ profile \in [name : Names, phone : Numbers]
  /\ addresses \in [AddressIds -> [street : Names \cup {"none"}, is_default : BOOLEAN]]
  /\ \A a \in AddressIds : addresses[a].street = "none" => addresses[a] = NoAddress

OneDefault == IsFiniteSet(Kept) /\ (Kept # {} => \E a : Defaults = {a})

AccountEvent ==
  [type : {"AccountSuspended", "AccountReactivated", "AccountClosed"}]
    \cup [type : {"TierUpgraded"}, new_tier : Tiers]
    \cup [type : {"ProfileUpdated"}, name : Names, phone : Numbers]
    \cup [type : {"AddressAdded"}, address_id : AddressIds, is_default : BOOLEAN]
    \cup [type : {"AddressUpdated", "AddressRemoved", "DefaultAddressChanged"},
          address_id : AddressIds]

BookEntry == [address_id : AddressIds, street : Names, is_default : BOOLEAN]

ListedIn(r) == {a \in AddressIds : Entries(r, a) # {}}

MarkedIn(r) == {a \in AddressIds : \E k \in Entries(r, a) : r[k].is_default}

MarksAfter(m, e) ==
  CASE e.type = "AddressAdded" ->
         [listed |-> m.listed \cup {e.address_id},
          marked |-> IF e.is_default THEN m.marked \cup {e.address_id} ELSE m.marked]
    [] e.type = "AddressRemoved" ->
         [listed |-> m.listed \ {e.address_id}, marked |-> m.marked \ {e.address_id}]
    [] e.type = "DefaultAddressChanged" ->
         [listed |-> m.listed, marked |-> m.listed \cap {e.address_id}]
    [] OTHER -> m

AccountPart(v, r) ==
  IF v = "address_book" THEN [listed |-> ListedIn(r), marked |-> MarkedIn(r)] ELSE r

AccountParts(v) ==
  CASE v = "customer_card" ->
         [status : AccountStatuses, tier : Tiers, name : Names, phone : Numbers]
    [] v = "customer_segments" -> [tier : Tiers, name : Names]
    [] v = "address_book" -> [listed : SUBSET AddressIds, marked : SUBSET AddressIds]
    [] v = "suspended_account" -> BOOLEAN

AccountRows(v) == IF v = "address_book" THEN Seq(BookEntry) ELSE AccountParts(v)

AccountPartAfter(v, x, e) ==
  CASE v = "customer_card" -> on_customer_card(x, e)
    [] v = "customer_segments" -> on_customer_segments(x, e)
    [] v = "address_book" -> MarksAfter(x, e)
    [] v = "suspended_account" -> on_suspended_account(x, e)

AccountSteps(v) ==
  {t \in AccountParts(v) \X AccountEvent \X AccountParts(v) :
     t[3] = AccountPartAfter(v, t[1], t[2])}

BookSteps ==
  {t \in Seq(BookEntry) \X AccountEvent \X Seq(BookEntry) : t[3] = on_address_book(t[1], t[2])}

(* What the projections are to say in the end.                             *)
AccountTold(v, x) ==
  CASE v = "customer_card" ->
         /\ x.status = account /\ x.tier = tier /\ x.name = profile.name
         /\ x.phone # "None" => profile.phone \in {x.phone, "None"}
    [] v = "customer_segments" -> x = [tier |-> tier, name |-> profile.name]
    [] v = "address_book" -> x.listed = Kept /\ x.marked \subseteq Defaults
    [] v = "suspended_account" -> /\ account = "Suspended" => x
                                  /\ account = "Active" => ~x

BookTold(r) ==
  /\ r \in Seq(BookEntry)
  /\ \A j, k \in 1..Len(r) : r[j].address_id = r[k].address_id => j = k
  /\ ListedIn(r) = Kept
  /\ \A k \in 1..Len(r) : r[k].street = addresses[r[k].address_id].street
  /\ Len(r) = Cardinality(Kept)

AccountFollowed(v) ==
  /\ row \in AccountRows(v) /\ unread \in Seq(AccountEvent)
  /\ \E x \in AccountParts(v) :
       Leads(AccountSteps(v), AccountPart(v, row), unread, x) /\ AccountTold(v, x)
  /\ v = "address_book" /\ ~redelivered =>
       \E r : Leads(BookSteps, row, unread, r) /\ BookTold(r)

AccountViewInv ==
  AccountTyped /\ OneDefault /\ view \in AccountViews /\ AccountFollowed(view)

------------------------------------------------------------------------------
(* What the address book is after each event.                              *)
LEMMA BookAdds ==
  ASSUME NEW r \in Seq(BookEntry), NEW e \in AccountEvent, e.type = "AddressAdded"
  PROVE  /\ on_address_book(r, e) \in Seq(BookEntry)
         /\ Len(on_address_book(r, e)) = Len(r) + 1
         /\ \A k \in 1..Len(r) : on_address_book(r, e)[k] = r[k]
         /\ on_address_book(r, e)[Len(r) + 1] =
              [address_id |-> e.address_id, street |-> "old", is_default |-> e.is_default]
<1> DEFINE b == [address_id |-> e.address_id, street |-> "old", is_default |-> e.is_default]
<1>1. on_address_book(r, e) = Append(r, b)
  BY DEF on_address_book
<1>2. b \in BookEntry
  <2>1. e.address_id \in AddressIds /\ e.is_default \in BOOLEAN
    BY DEF AccountEvent
  <2> QED  BY <2>1 DEF BookEntry, Names
<1> HIDE DEF b
<1>3. /\ Append(r, b) \in Seq(BookEntry) /\ Len(Append(r, b)) = Len(r) + 1
      /\ \A k \in 1..Len(r) : Append(r, b)[k] = r[k]
      /\ Append(r, b)[Len(r) + 1] = b
  BY <1>2
<1> QED  BY <1>1, <1>3 DEF b

LEMMA BookUpdates ==
  ASSUME NEW r \in Seq(BookEntry), NEW e \in AccountEvent, e.type = "AddressUpdated"
  PROVE  /\ on_address_book(r, e) \in Seq(BookEntry)
         /\ Len(on_address_book(r, e)) = Len(r)
         /\ \A k \in 1..Len(r) :
              /\ on_address_book(r, e)[k].address_id = r[k].address_id
              /\ on_address_book(r, e)[k].is_default = r[k].is_default
              /\ on_address_book(r, e)[k].street =
                   IF k \in FirstEntry(r, e.address_id) THEN "new" ELSE r[k].street
<1> DEFINE first == FirstEntry(r, e.address_id)
           after == [k \in 1..Len(r) |-> IF k \in first THEN [r[k] EXCEPT !.street = "new"]
                                         ELSE r[k]]
<1>1. on_address_book(r, e) = after
  BY DEF on_address_book
<1> HIDE DEF first
<1>2. ASSUME NEW k \in 1..Len(r)
      PROVE  /\ after[k] \in BookEntry /\ after[k].address_id = r[k].address_id
             /\ after[k].is_default = r[k].is_default
             /\ after[k].street = IF k \in first THEN "new" ELSE r[k].street
  <2>1. r[k] \in BookEntry
    OBVIOUS
  <2>2. after[k] = IF k \in first THEN [r[k] EXCEPT !.street = "new"] ELSE r[k]
    OBVIOUS
  <2> HIDE DEF after
  <2>3. PICK b \in BookEntry : b = r[k]
    BY <2>1
  <2>4. CASE k \in first
    <3>1. after[k] = [b EXCEPT !.street = "new"]
      BY <2>2, <2>3, <2>4
    <3>2. /\ [b EXCEPT !.street = "new"] \in BookEntry
          /\ [b EXCEPT !.street = "new"].address_id = b.address_id
          /\ [b EXCEPT !.street = "new"].street = "new"
          /\ [b EXCEPT !.street = "new"].is_default = b.is_default
      BY DEF BookEntry, Names
    <3> QED  BY <2>3, <2>4, <3>1, <3>2, Zenon
  <2>5. CASE k \notin first
    BY <2>1, <2>2, <2>5
  <2> QED  BY <2>4, <2>5
<1>3. after \in Seq(BookEntry) /\ Len(after) = Len(r)
  BY <1>2
<1> HIDE DEF after
<1> QED  BY <1>1, <1>2, <1>3 DEF first

LEMMA BookMarks ==
  ASSUME NEW r \in Seq(BookEntry), NEW e \in AccountEvent, e.type = "DefaultAddressChanged"
  PROVE  /\ on_address_book(r, e) \in Seq(BookEntry)
         /\ Len(on_address_book(r, e)) = Len(r)
         /\ \A k \in 1..Len(r) :
              /\ on_address_book(r, e)[k].address_id = r[k].address_id
              /\ on_address_book(r, e)[k].is_default = (r[k].address_id = e.address_id)
              /\ on_address_book(r, e)[k].street = r[k].street
<1> DEFINE marked(k) == k \in Entries(r, e.address_id)
           after == [k \in 1..Len(r) |-> [r[k] EXCEPT !.is_default = marked(k)]]
<1>1. on_address_book(r, e) = after
  BY DEF on_address_book
<1>2. \A k \in 1..Len(r) : marked(k) = (r[k].address_id = e.address_id) /\ marked(k) \in BOOLEAN
  BY DEF Entries
<1> HIDE DEF marked
<1>3. ASSUME NEW k \in 1..Len(r)
      PROVE  /\ after[k] \in BookEntry /\ after[k].address_id = r[k].address_id
             /\ after[k].is_default = (r[k].address_id = e.address_id)
             /\ after[k].street = r[k].street
  <2>1. r[k] \in BookEntry
    OBVIOUS
  <2>2. after[k] = [r[k] EXCEPT !.is_default = marked(k)]
    OBVIOUS
  <2> HIDE DEF after
  <2>3. PICK b \in BookEntry : b = r[k]
    BY <2>1
  <2>4. after[k] = [b EXCEPT !.is_default = marked(k)]
    BY <2>2, <2>3
  <2> DEFINE d == marked(k)
  <2>5. d \in BOOLEAN /\ d = (r[k].address_id = e.address_id)
    BY <1>2
  <2>6. after[k] = [b EXCEPT !.is_default = d]
    BY <2>4
  <2> HIDE DEF d
  <2>7. /\ [b EXCEPT !.is_default = d] \in BookEntry
        /\ [b EXCEPT !.is_default = d].address_id = b.address_id
        /\ [b EXCEPT !.is_default = d].street = b.street
        /\ [b EXCEPT !.is_default = d].is_default = d
    BY <2>5 DEF BookEntry
  <2> QED  BY <2>3, <2>5, <2>6, <2>7, Zenon
<1>4. after \in Seq(BookEntry) /\ Len(after) = Len(r)
  BY <1>3
<1> HIDE DEF after
<1> QED  BY <1>1, <1>3, <1>4

KeptOf(after, r, kept) ==
  /\ Len(after) = Cardinality(kept)
  /\ \A k \in 1..Len(after) : Nth(kept, k) \in kept /\ after[k] = r[Nth(kept, k)]
  /\ \A k, m \in 1..Len(after) : k < m => Nth(kept, k) < Nth(kept, m)
  /\ \A k \in kept : \E m \in 1..Len(after) : Nth(kept, m) = k

LEMMA BookRemoves ==
  ASSUME NEW r \in Seq(BookEntry), NEW e \in AccountEvent, e.type = "AddressRemoved",
         NEW kept, kept = 1..Len(r) \ Entries(r, e.address_id)
  PROVE  /\ on_address_book(r, e) \in Seq(BookEntry)
         /\ KeptOf(on_address_book(r, e), r, kept)
<1>1. on_address_book(r, e) = Keeping(r, kept)
  <2>1. DOMAIN r = 1..Len(r)
    OBVIOUS
  <2>2. on_address_book(r, e) = Keeping(r, DOMAIN r \ Entries(r, e.address_id))
    BY Zenon DEF on_address_book
  <2> QED  BY <2>1, <2>2, Zenon
<1>2. kept \in SUBSET (1..Len(r))
  OBVIOUS
<1> DEFINE after == Keeping(r, kept)
           n == Cardinality(kept)
<1>3. /\ n \in Nat /\ after \in Seq(BookEntry) /\ Len(after) = n
      /\ \A k \in 1..n : Nth(kept, k) \in kept /\ after[k] = r[Nth(kept, k)]
  BY <1>2, KeepingKeeps
<1>4. /\ \A k, m \in 1..n : k < m => Nth(kept, k) < Nth(kept, m)
      /\ \A k \in kept : \E m \in 1..n : Nth(kept, m) = k
  <2>1. kept \in SUBSET Nat /\ IsFiniteSet(kept)
    <3>1. IsFiniteSet(1..Len(r)) /\ Len(r) \in Nat
      BY FS_Interval
    <3> QED  BY <1>2, <3>1, FS_Subset
  <2> QED  BY <2>1, NthInOrder
<1>5. KeptOf(after, r, kept)
  BY <1>3, <1>4, Zenon DEF KeptOf
<1> QED  BY <1>1, <1>3, <1>5

LEMMA BookStays ==
  ASSUME NEW r, NEW e,
         e.type \notin {"AddressAdded", "AddressUpdated", "AddressRemoved",
                        "DefaultAddressChanged"}
  PROVE  on_address_book(r, e) = r
BY DEF on_address_book

LEMMA BookKept ==
  ASSUME NEW r \in Seq(BookEntry), NEW e \in AccountEvent
  PROVE  on_address_book(r, e) \in Seq(BookEntry)
<1> PICK kept : kept = 1..Len(r) \ Entries(r, e.address_id)
  OBVIOUS
<1>1. CASE e.type = "AddressAdded"
  BY <1>1, BookAdds
<1>2. CASE e.type = "AddressUpdated"
  BY <1>2, BookUpdates
<1>3. CASE e.type = "DefaultAddressChanged"
  BY <1>3, BookMarks
<1>4. CASE e.type = "AddressRemoved"
  BY <1>4, BookRemoves
<1>5. CASE e.type \notin {"AddressAdded", "AddressUpdated", "AddressRemoved",
                          "DefaultAddressChanged"}
  BY <1>5, BookStays
<1> QED  BY <1>1, <1>2, <1>3, <1>4, <1>5

(* Which addresses a book lists and marks, and what an event does to that. *)
LEMMA ListedIs ==
  ASSUME NEW r, NEW a \in AddressIds
  PROVE  /\ a \in ListedIn(r) <=> \E k \in 1..Len(r) : r[k].address_id = a
         /\ a \in MarkedIn(r) <=> \E k \in 1..Len(r) : r[k].address_id = a /\ r[k].is_default
<1>1. a \in ListedIn(r) <=> Entries(r, a) # {}
  BY DEF ListedIn
<1>2. a \in MarkedIn(r) <=> \E k \in Entries(r, a) : r[k].is_default
  BY DEF MarkedIn
<1>3. \A k : k \in Entries(r, a) <=> k \in 1..Len(r) /\ r[k].address_id = a
  BY DEF Entries
<1> QED  BY <1>1, <1>2, <1>3, Zenon

LEMMA MarksAt ==
  ASSUME NEW r \in Seq(BookEntry), NEW e \in AccountEvent, NEW a \in AddressIds
  PROVE  /\ on_address_book(r, e) \in Seq(BookEntry)
         /\ a \in ListedIn(on_address_book(r, e)) <=>
              IF e.type = "AddressAdded" THEN a \in ListedIn(r) \/ a = e.address_id
              ELSE IF e.type = "AddressRemoved" THEN a \in ListedIn(r) /\ a # e.address_id
              ELSE a \in ListedIn(r)
         /\ a \in MarkedIn(on_address_book(r, e)) <=>
              IF e.type = "AddressAdded" THEN a \in MarkedIn(r) \/ (a = e.address_id /\ e.is_default)
              ELSE IF e.type = "AddressRemoved" THEN a \in MarkedIn(r) /\ a # e.address_id
              ELSE IF e.type = "DefaultAddressChanged"
                   THEN a \in ListedIn(r) /\ a = e.address_id
              ELSE a \in MarkedIn(r)
<1> PICK after : after = on_address_book(r, e)
  OBVIOUS
<1>k. ASSUME NEW s
      PROVE  /\ a \in ListedIn(s) <=> \E k \in 1..Len(s) : s[k].address_id = a
             /\ a \in MarkedIn(s) <=>
                  \E k \in 1..Len(s) : s[k].address_id = a /\ s[k].is_default
  BY ListedIs, ZenonT(30)
<1>l. /\ a \in ListedIn(r) <=> \E k \in 1..Len(r) : r[k].address_id = a
      /\ a \in ListedIn(after) <=> \E k \in 1..Len(after) : after[k].address_id = a
  BY <1>k, Zenon
<1>m. /\ a \in MarkedIn(r) <=> \E k \in 1..Len(r) : r[k].address_id = a /\ r[k].is_default
      /\ a \in MarkedIn(after) <=>
           \E k \in 1..Len(after) : after[k].address_id = a /\ after[k].is_default
  BY <1>k, Zenon
<1>1. CASE e.type = "AddressAdded"
  <2>1. /\ after \in Seq(BookEntry) /\ Len(after) = Len(r) + 1
        /\ \A k \in 1..Len(r) : after[k] = r[k]
        /\ after[Len(r) + 1] =
             [address_id |-> e.address_id, street |-> "old", is_default |-> e.is_default]
    BY <1>1, BookAdds
  <2>2. e.address_id \in AddressIds /\ e.is_default \in BOOLEAN /\ Len(r) \in Nat
    BY <1>1 DEF AccountEvent
  <2>3. /\ after[Len(r) + 1].address_id = e.address_id
        /\ after[Len(r) + 1].is_default = e.is_default
    BY <2>1
  <2>4. \A k : k \in 1..Len(after) <=> k \in 1..Len(r) \/ k = Len(r) + 1
    BY <2>1, <2>2
  <2>5. a \in ListedIn(after) <=> a \in ListedIn(r) \/ a = e.address_id
    BY <1>l, <2>1, <2>3, <2>4, Zenon
  <2>6. a \in MarkedIn(after) <=> a \in MarkedIn(r) \/ (a = e.address_id /\ e.is_default)
    BY <1>m, <2>1, <2>3, <2>4, Zenon
  <2> QED  BY <1>1, <2>1, <2>5, <2>6, Zenon
<1>2. CASE e.type = "AddressUpdated"
  <2>1. /\ after \in Seq(BookEntry) /\ Len(after) = Len(r)
        /\ \A k \in 1..Len(r) : /\ after[k].address_id = r[k].address_id
                                /\ after[k].is_default = r[k].is_default
    BY <1>2, BookUpdates
  <2>2. a \in ListedIn(after) <=> a \in ListedIn(r)
    BY <1>l, <2>1, Zenon
  <2>3. a \in MarkedIn(after) <=> a \in MarkedIn(r)
    BY <1>m, <2>1, Zenon
  <2> QED  BY <1>2, <2>1, <2>2, <2>3
<1>3. CASE e.type = "DefaultAddressChanged"
  <2>1. /\ after \in Seq(BookEntry) /\ Len(after) = Len(r)
        /\ \A k \in 1..Len(r) : /\ after[k].address_id = r[k].address_id
                                /\ after[k].is_default = (r[k].address_id = e.address_id)
    BY <1>3, BookMarks
  <2>2. /\ 1..Len(after) = 1..Len(r)
        /\ \A k \in 1..Len(r) : after[k].address_id = r[k].address_id
        /\ \A k \in 1..Len(r) : after[k].is_default <=> r[k].address_id = e.address_id
    BY <2>1
  <2>3. a \in ListedIn(after) <=> a \in ListedIn(r)
    BY <1>l, <2>2, ZenonT(30)
  <2>4. a \in MarkedIn(after) => a \in ListedIn(r) /\ a = e.address_id
    BY <1>l, <1>m, <2>2, ZenonT(30)
  <2>5. a \in ListedIn(r) /\ a = e.address_id => a \in MarkedIn(after)
    BY <1>l, <1>m, <2>2, ZenonT(30)
  <2> QED  BY <1>3, <2>1, <2>3, <2>4, <2>5
<1>4. CASE e.type = "AddressRemoved"
  <2> PICK kept : kept = 1..Len(r) \ Entries(r, e.address_id)
    OBVIOUS
  <2>1. /\ after \in Seq(BookEntry)
        /\ \A k \in 1..Len(after) : Nth(kept, k) \in kept /\ after[k] = r[Nth(kept, k)]
        /\ \A k \in kept : \E m \in 1..Len(after) : Nth(kept, m) = k
    <3>1. on_address_book(r, e) \in Seq(BookEntry) /\ KeptOf(on_address_book(r, e), r, kept)
      BY <1>4, BookRemoves
    <3> QED  BY <3>1, Zenon DEF KeptOf
  <2>2. \A k : k \in kept <=> k \in 1..Len(r) /\ r[k].address_id # e.address_id
    BY DEF Entries
  <2>3. \A k \in 1..Len(after) :
          \E j \in 1..Len(r) : after[k] = r[j] /\ r[j].address_id # e.address_id
    BY <2>1, <2>2, Zenon
  <2>4. \A j \in 1..Len(r) :
          r[j].address_id # e.address_id => \E k \in 1..Len(after) : after[k] = r[j]
    BY <2>1, <2>2, Zenon
  <2>5. a \in ListedIn(after) => a \in ListedIn(r) /\ a # e.address_id
    BY <1>l, <2>3, Zenon
  <2>6. a \in ListedIn(r) /\ a # e.address_id => a \in ListedIn(after)
    BY <1>l, <2>4, Zenon
  <2>7. a \in MarkedIn(after) => a \in MarkedIn(r) /\ a # e.address_id
    BY <1>m, <2>3, Zenon
  <2>8. a \in MarkedIn(r) /\ a # e.address_id => a \in MarkedIn(after)
    BY <1>m, <2>4, Zenon
  <2> QED  BY <1>4, <2>1, <2>5, <2>6, <2>7, <2>8
<1>5. CASE e.type \notin {"AddressAdded", "AddressUpdated", "AddressRemoved",
                          "DefaultAddressChanged"}
  BY <1>5, BookStays
<1> QED  BY <1>1, <1>2, <1>3, <1>4, <1>5

LEMMA MarksProjected ==
  ASSUME NEW r \in Seq(BookEntry), NEW e \in AccountEvent
  PROVE  /\ on_address_book(r, e) \in Seq(BookEntry)
         /\ AccountPart("address_book", on_address_book(r, e)) =
              MarksAfter(AccountPart("address_book", r), e)
<1> PICK after : after = on_address_book(r, e)
  OBVIOUS
<1> PICK L, M, LA, MA :
      L = ListedIn(r) /\ M = MarkedIn(r) /\ LA = ListedIn(after) /\ MA = MarkedIn(after)
  OBVIOUS
<1>1. /\ AccountPart("address_book", r) = [listed |-> L, marked |-> M]
      /\ AccountPart("address_book", after) = [listed |-> LA, marked |-> MA]
      /\ L \in SUBSET AddressIds /\ M \in SUBSET AddressIds
      /\ LA \in SUBSET AddressIds /\ MA \in SUBSET AddressIds
  BY DEF AccountPart, ListedIn, MarkedIn
<1>2. after \in Seq(BookEntry)
  BY BookKept
<1>3. /\ \A a \in AddressIds :
           a \in ListedIn(on_address_book(r, e)) <=>
             IF e.type = "AddressAdded" THEN a \in ListedIn(r) \/ a = e.address_id
             ELSE IF e.type = "AddressRemoved" THEN a \in ListedIn(r) /\ a # e.address_id
             ELSE a \in ListedIn(r)
      /\ \A a \in AddressIds :
           a \in MarkedIn(on_address_book(r, e)) <=>
             IF e.type = "AddressAdded"
             THEN a \in MarkedIn(r) \/ (a = e.address_id /\ e.is_default)
             ELSE IF e.type = "AddressRemoved" THEN a \in MarkedIn(r) /\ a # e.address_id
             ELSE IF e.type = "DefaultAddressChanged"
             THEN a \in ListedIn(r) /\ a = e.address_id
             ELSE a \in MarkedIn(r)
  BY MarksAt
<1>4. CASE e.type = "AddressAdded"
  <2>1. e.address_id \in AddressIds /\ e.is_default \in BOOLEAN
    BY <1>4 DEF AccountEvent
  <2>2. LA = L \cup {e.address_id}
    BY <1>1, <1>3, <1>4, <2>1
  <2>3. MA = IF e.is_default THEN M \cup {e.address_id} ELSE M
    BY <1>1, <1>3, <1>4, <2>1
  <2> QED  BY <1>1, <1>2, <1>4, <2>2, <2>3 DEF MarksAfter
<1>5. CASE e.type = "AddressRemoved"
  <2>1. LA = L \ {e.address_id} /\ MA = M \ {e.address_id}
    BY <1>1, <1>3, <1>5
  <2> QED  BY <1>1, <1>2, <1>5, <2>1 DEF MarksAfter
<1>6. CASE e.type = "DefaultAddressChanged"
  <2>1. LA = L /\ MA = L \cap {e.address_id}
    BY <1>1, <1>3, <1>6
  <2> QED  BY <1>1, <1>2, <1>6, <2>1 DEF MarksAfter
<1>7. CASE e.type \notin {"AddressAdded", "AddressRemoved", "DefaultAddressChanged"}
  <2>1. LA = L /\ MA = M
    BY <1>1, <1>3, <1>7
  <2> QED  BY <1>1, <1>2, <1>7, <2>1 DEF MarksAfter
<1> QED  BY <1>4, <1>5, <1>6, <1>7

(* What an event writes on the card.                                       *)
OnCard(y, e) ==
  /\ e.type = "AccountSuspended" =>
       on_customer_card(y, e) = [y EXCEPT !.status = "Suspended"]
  /\ e.type = "AccountReactivated" =>
       on_customer_card(y, e) = [y EXCEPT !.status = "Active"]
  /\ e.type = "AccountClosed" =>
       on_customer_card(y, e) = [y EXCEPT !.status = "Closed"]
  /\ e.type = "TierUpgraded" => on_customer_card(y, e) = [y EXCEPT !.tier = e.new_tier]
  /\ e.type = "ProfileUpdated" =>
       on_customer_card(y, e) =
         [y EXCEPT !.name = e.name,
                   !.phone = IF e.phone = "None" THEN y.phone ELSE e.phone]
  /\ e.type \notin {"AccountSuspended", "AccountReactivated", "AccountClosed",
                    "TierUpgraded", "ProfileUpdated"} => on_customer_card(y, e) = y

LEMMA CardIs == \A y, e : OnCard(y, e)
BY DEF OnCard, on_customer_card, Becomes

(* An event that is handled again changes nothing.                         *)
LEMMA PartSettles ==
  ASSUME NEW v \in AccountViews, NEW x \in AccountParts(v), NEW e \in AccountEvent
  PROVE  /\ AccountPartAfter(v, x, e) \in AccountParts(v)
         /\ AccountPartAfter(v, AccountPartAfter(v, x, e), e) = AccountPartAfter(v, x, e)
<1>1. CASE v = "customer_card"
  <2>1. x \in [status : AccountStatuses, tier : Tiers, name : Names, phone : Numbers]
    BY <1>1 DEF AccountParts
  <2>2. \A y : OnCard(y, e)
    BY CardIs
  <2>3. CASE e.type = "TierUpgraded"
    <3>1. e.new_tier \in Tiers
      BY <2>3 DEF AccountEvent
    <3> QED  BY <1>1, <2>1, <2>2, <2>3, <3>1 DEF AccountParts, AccountPartAfter, OnCard
  <2>4. CASE e.type = "ProfileUpdated"
    <3>1. e.name \in Names /\ e.phone \in Numbers
      BY <2>4 DEF AccountEvent
    <3>2. ASSUME NEW y \in [status : AccountStatuses, tier : Tiers, name : Names, phone : Numbers]
          PROVE  on_customer_card(y, e) =
                   [status |-> y.status, tier |-> y.tier, name |-> e.name,
                    phone |-> IF e.phone = "None" THEN y.phone ELSE e.phone]
      <4>1. on_customer_card(y, e) =
              [y EXCEPT !.name = e.name,
                        !.phone = IF e.phone = "None" THEN y.phone ELSE e.phone]
        BY <2>2, <2>4, Zenon DEF OnCard
      <4> PICK n, p : n = e.name /\ p = IF e.phone = "None" THEN y.phone ELSE e.phone
        OBVIOUS
      <4>2. [y EXCEPT !.name = n, !.phone = p] =
              [status |-> y.status, tier |-> y.tier, name |-> n, phone |-> p]
        <5>1. n \in Names /\ p \in Numbers
          BY <3>1
        <5> DEFINE z == [y EXCEPT !.name = n, !.phone = p]
        <5>2. /\ z \in [status : AccountStatuses, tier : Tiers, name : Names, phone : Numbers]
              /\ z.status = y.status /\ z.tier = y.tier /\ z.name = n /\ z.phone = p
          BY <5>1
        <5> HIDE DEF z
        <5>3. z = [status |-> y.status, tier |-> y.tier, name |-> n, phone |-> p]
          BY <5>2
        <5> QED  BY <5>3 DEF z
      <4> QED  BY <4>1, <4>2, Zenon
    <3>3. PICK y : y = on_customer_card(x, e)
      OBVIOUS
    <3>4. /\ y \in [status : AccountStatuses, tier : Tiers, name : Names, phone : Numbers]
          /\ y.name = e.name /\ (e.phone # "None" => y.phone = e.phone)
          /\ y = [status |-> y.status, tier |-> y.tier, name |-> y.name, phone |-> y.phone]
      BY <2>1, <3>1, <3>2, <3>3
    <3>5. on_customer_card(y, e) = y
      BY <3>2, <3>4
    <3> QED  BY <1>1, <3>3, <3>4, <3>5, Zenon DEF AccountParts, AccountPartAfter
  <2>5. CASE e.type \in {"AccountSuspended", "AccountReactivated", "AccountClosed"}
    <3>1. PICK s \in AccountStatuses :
            \A y \in [status : AccountStatuses, tier : Tiers, name : Names, phone : Numbers] :
              on_customer_card(y, e) = [y EXCEPT !.status = s]
      BY <2>2, <2>5, Zenon DEF AccountStatuses, OnCard
    <3>2. /\ [x EXCEPT !.status = s]
               \in [status : AccountStatuses, tier : Tiers, name : Names, phone : Numbers]
          /\ [[x EXCEPT !.status = s] EXCEPT !.status = s] = [x EXCEPT !.status = s]
      BY <2>1
    <3> QED  BY <1>1, <2>1, <3>1, <3>2 DEF AccountParts, AccountPartAfter
  <2>6. CASE e.type \notin {"TierUpgraded", "ProfileUpdated", "AccountSuspended",
                            "AccountReactivated", "AccountClosed"}
    <3>1. on_customer_card(x, e) = x
      BY <2>2, <2>6, Zenon DEF OnCard
    <3> QED  BY <1>1, <2>1, <3>1 DEF AccountParts, AccountPartAfter
  <2> QED  BY <2>3, <2>4, <2>5, <2>6
<1>2. CASE v = "customer_segments"
  <2>1. x \in [tier : Tiers, name : Names]
    BY <1>2 DEF AccountParts
  <2>2. /\ e.type = "TierUpgraded" => e.new_tier \in Tiers
        /\ e.type = "ProfileUpdated" => e.name \in Names
    BY DEF AccountEvent
  <2> QED  BY <1>2, <2>1, <2>2 DEF AccountParts, AccountPartAfter, on_customer_segments
<1>3. CASE v = "address_book"
  <2>1. x \in [listed : SUBSET AddressIds, marked : SUBSET AddressIds]
    BY <1>3 DEF AccountParts
  <2>2. CASE e.type \in {"AddressAdded", "AddressRemoved", "DefaultAddressChanged"}
    <3>1. e.address_id \in AddressIds
      BY <2>2 DEF AccountEvent
    <3>2. MarksAfter(x, e) \in [listed : SUBSET AddressIds, marked : SUBSET AddressIds]
      BY <2>1, <2>2, <3>1 DEF MarksAfter
    <3>3. MarksAfter(MarksAfter(x, e), e) = MarksAfter(x, e)
      BY <2>1, <2>2 DEF MarksAfter
    <3> QED  BY <1>3, <3>2, <3>3 DEF AccountParts, AccountPartAfter
  <2>3. CASE e.type \notin {"AddressAdded", "AddressRemoved", "DefaultAddressChanged"}
    BY <1>3, <2>1, <2>3 DEF AccountParts, AccountPartAfter, MarksAfter
  <2> QED  BY <2>2, <2>3
<1>4. CASE v = "suspended_account"
  BY <1>4 DEF AccountParts, AccountPartAfter, on_suspended_account
<1> QED  BY <1>1, <1>2, <1>3, <1>4 DEF AccountViews

LEMMA PartProjected ==
  ASSUME NEW r \in AccountRows(view), NEW e \in AccountEvent, view \in AccountViews
  PROVE  /\ AccountProjected(r, e) \in AccountRows(view)
         /\ AccountPart(view, AccountProjected(r, e)) =
              AccountPartAfter(view, AccountPart(view, r), e)
<1>1. CASE view = "address_book"
  BY <1>1, MarksProjected DEF AccountProjected, AccountPartAfter, AccountRows
<1>2. CASE view # "address_book"
  <2>1. AccountProjected(r, e) = AccountPartAfter(view, r, e)
    BY <1>2, Zenon DEF AccountProjected, AccountPartAfter, AccountViews
  <2>2. r \in AccountParts(view)
    BY <1>2 DEF AccountRows
  <2>3. AccountPartAfter(view, r, e) \in AccountParts(view)
    BY <1>2, <2>2, PartSettles
  <2> QED  BY <1>2, <2>1, <2>2, <2>3 DEF AccountRows, AccountPart
<1> QED  BY <1>1, <1>2

(* An event is published that takes what the projection is to say along    *)
(* with the account.                                                       *)
LEMMA AccountTells ==
  ASSUME AccountViewInv, NEW v, v = view, NEW e \in AccountEvent,
         AccountTyped', OneDefault', Publish(<<e>>),
         \A x \in AccountParts(v) : AccountTold(v, x) => AccountTold(v, AccountPartAfter(v, x, e))',
         v = "address_book" =>
           \A r \in Seq(BookEntry) : BookTold(r) => BookTold(on_address_book(r, e))'
  PROVE  AccountViewInv'
<1>1. /\ v \in AccountViews /\ AccountFollowed(v) /\ v # "none"
      /\ row \in AccountRows(v) /\ unread \in Seq(AccountEvent)
  BY DEF AccountViewInv, AccountFollowed, AccountViews
<1>2. /\ view' = v /\ row' = row /\ redelivered' = redelivered
      /\ unread' = unread \o <<e>> /\ unread' \in Seq(AccountEvent)
  BY <1>1 DEF Publish
<1>3. \E x \in AccountParts(v) :
        Leads(AccountSteps(v), AccountPart(v, row), unread \o <<e>>, x) /\ AccountTold(v, x)'
  <2>1. PICK x \in AccountParts(v) :
          Leads(AccountSteps(v), AccountPart(v, row), unread, x) /\ AccountTold(v, x)
    BY <1>1 DEF AccountFollowed
  <2>2. PICK z : z = AccountPartAfter(v, x, e)
    OBVIOUS
  <2>3. z \in AccountParts(v) /\ AccountTold(v, z)'
    <3>1. AccountPartAfter(v, x, e) \in AccountParts(v)
      BY <1>1, PartSettles
    <3>2. AccountTold(v, AccountPartAfter(v, x, e))'
      BY <2>1
    <3> QED  BY <2>2, <3>1, <3>2, Zenon
  <2>4. <<x, e, z>> \in AccountSteps(v)
    BY <2>2, <2>3 DEF AccountSteps
  <2>5. Leads(AccountSteps(v), AccountPart(v, row), unread \o <<e>>, z)
    BY <1>1, <2>1, <2>4, LeadsMore
  <2> QED  BY <2>3, <2>5
<1>4. v = "address_book" /\ ~redelivered =>
        \E r : Leads(BookSteps, row, unread \o <<e>>, r) /\ BookTold(r)'
  <2> SUFFICES ASSUME v = "address_book", ~redelivered
               PROVE  \E r : Leads(BookSteps, row, unread \o <<e>>, r) /\ BookTold(r)'
    OBVIOUS
  <2>1. PICK r : Leads(BookSteps, row, unread, r) /\ BookTold(r)
    BY <1>1 DEF AccountFollowed
  <2>2. PICK z : z = on_address_book(r, e)
    OBVIOUS
  <2>3. r \in Seq(BookEntry) /\ z \in Seq(BookEntry)
    BY <2>1, <2>2, BookKept DEF BookTold
  <2>4. BookTold(z)'
    <3>1. BookTold(on_address_book(r, e))'
      BY <2>1, <2>3
    <3> QED  BY <2>2, <3>1, Zenon
  <2>5. <<r, e, z>> \in BookSteps
    BY <2>2, <2>3 DEF BookSteps
  <2>6. Leads(BookSteps, row, unread \o <<e>>, z)
    BY <1>1, <2>1, <2>5, LeadsMore
  <2> QED  BY <2>4, <2>6
<1>5. AccountFollowed(v)'
  BY <1>1, <1>2, <1>3, <1>4 DEF AccountFollowed
<1> QED  BY <1>1, <1>2, <1>5 DEF AccountViewInv

(* The projector reads an event, perhaps not for the last time.            *)
LEMMA AccountProjects ==
  ASSUME AccountViewInv, AccountProjection
  PROVE  AccountViewInv'
<1> PICK v : v = view
  OBVIOUS
<1> PICK e : e = Head(unread)
  OBVIOUS
<1> PICK after : after = AccountProjected(row, e)
  OBVIOUS
<1>1. /\ v \in AccountViews /\ AccountFollowed(v)
      /\ row \in AccountRows(v) /\ unread \in Seq(AccountEvent)
  BY DEF AccountViewInv, AccountFollowed
<1>2. /\ unread # << >> /\ row' = after /\ view' = v
      /\ UNCHANGED <<account, tier, profile, addresses>>
      /\ \/ unread' = Tail(unread) /\ redelivered' = redelivered
         \/ redelivered' = TRUE /\ unread' = unread
  BY DEF AccountProjection, Project, account_vars
<1>3. e \in AccountEvent /\ Tail(unread) \in Seq(AccountEvent) /\ unread' \in Seq(AccountEvent)
  BY <1>1, <1>2
<1>4. /\ after \in AccountRows(v)
      /\ AccountPart(v, after) = AccountPartAfter(v, AccountPart(v, row), e)
  BY <1>1, <1>3, PartProjected
<1>5. AccountPart(v, row) \in AccountParts(v)
  BY <1>1 DEF AccountRows, AccountPart, AccountParts, ListedIn, MarkedIn
<1>6. PICK part, part_after : part = AccountPart(v, row) /\ part_after = AccountPart(v, after)
  OBVIOUS
<1>7. \E x \in AccountParts(v) :
        Leads(AccountSteps(v), part_after, unread', x) /\ AccountTold(v, x)
  <2>1. PICK x \in AccountParts(v) : Leads(AccountSteps(v), part, unread, x) /\ AccountTold(v, x)
    BY <1>1, <1>6 DEF AccountFollowed
  <2>2. \A w : <<part, Head(unread), w>> \in AccountSteps(v) => w = part_after
    BY <1>4, <1>6 DEF AccountSteps
  <2>3. <<part_after, Head(unread), part_after>> \in AccountSteps(v)
    <3>1. /\ AccountPartAfter(v, part, e) \in AccountParts(v)
          /\ AccountPartAfter(v, AccountPartAfter(v, part, e), e) = AccountPartAfter(v, part, e)
      BY <1>1, <1>3, <1>5, <1>6, PartSettles
    <3> QED  BY <1>3, <1>4, <1>6, <3>1 DEF AccountSteps
  <2>4. /\ Leads(AccountSteps(v), part_after, Tail(unread), x)
        /\ Leads(AccountSteps(v), part_after, unread, x)
    BY <1>1, <1>2, <2>1, <2>2, <2>3, LeadsProject
  <2> QED  BY <1>2, <2>1, <2>4
<1>8. v = "address_book" /\ ~redelivered' =>
        \E r : Leads(BookSteps, after, unread', r) /\ BookTold(r)
  <2> SUFFICES ASSUME v = "address_book", ~redelivered'
               PROVE  \E r : Leads(BookSteps, after, unread', r) /\ BookTold(r)
    OBVIOUS
  <2>1. PICK r : Leads(BookSteps, row, unread, r) /\ BookTold(r)
    BY <1>1, <1>2 DEF AccountFollowed
  <2>2. \A w : <<row, Head(unread), w>> \in BookSteps => w = after
    BY DEF BookSteps, AccountProjected
  <2>3. Leads(BookSteps, after, Tail(unread), r)
    BY <1>1, <1>2, <2>1, <2>2, LeadsProject
  <2> QED  BY <1>2, <2>1, <2>3
<1>9. /\ \A x : AccountTold(v, x)' = AccountTold(v, x)
      /\ \A r : BookTold(r)' = BookTold(r)
      /\ AccountTyped' = AccountTyped /\ OneDefault' = OneDefault
  BY <1>2, Zenon DEF AccountTold, BookTold, AccountTyped, OneDefault, Kept, Defaults
<1>10. AccountFollowed(v)'
  BY <1>2, <1>3, <1>4, <1>6, <1>7, <1>8, <1>9 DEF AccountFollowed
<1> QED  BY <1>1, <1>2, <1>9, <1>10 DEF AccountViewInv

(* The commands that leave the addresses alone.                            *)
LEMMA OtherTells ==
  ASSUME AccountViewInv, NEW v, v = view, NEW e \in AccountEvent,
         e.type \notin {"AddressAdded", "AddressUpdated", "AddressRemoved",
                        "DefaultAddressChanged"},
         UNCHANGED addresses, AccountTyped', Publish(<<e>>),
         v # "address_book" =>
           \A x \in AccountParts(v) :
             AccountTold(v, x) => AccountTold(v, AccountPartAfter(v, x, e))'
  PROVE  AccountViewInv'
<1>1. OneDefault /\ Kept' = Kept /\ Defaults' = Defaults
  BY DEF AccountViewInv, Kept, Defaults
<1>2. OneDefault'
  BY <1>1 DEF OneDefault
<1>3. ASSUME v = "address_book", NEW x \in AccountParts(v), AccountTold(v, x)
      PROVE  AccountTold(v, AccountPartAfter(v, x, e))'
  <2>1. AccountPartAfter(v, x, e) = x
    BY <1>3 DEF AccountPartAfter, MarksAfter
  <2> QED  BY <1>1, <1>3, <2>1 DEF AccountTold
<1>4. ASSUME NEW r, BookTold(r) PROVE BookTold(on_address_book(r, e))'
  <2>1. on_address_book(r, e) = r
    BY BookStays
  <2> QED  BY <1>1, <1>4, <2>1 DEF BookTold
<1>5. \A x \in AccountParts(v) : AccountTold(v, x) => AccountTold(v, AccountPartAfter(v, x, e))'
  BY <1>3
<1> QED  BY <1>2, <1>4, <1>5, AccountTells

(* What a card has before and after an event. *)
LEMMA StatusTells ==
  ASSUME AccountViewInv, NEW e \in AccountEvent, Publish(<<e>>),
         UNCHANGED <<tier, profile, addresses>>,
         \/ e.type = "AccountSuspended" /\ account' = "Suspended"
         \/ e.type = "AccountReactivated" /\ account' = "Active"
         \/ e.type = "AccountClosed" /\ account' = "Closed"
  PROVE  AccountViewInv'
<1> PICK v : v = view
  OBVIOUS
<1>1. /\ AccountTyped' /\ v \in AccountViews
      /\ e.type \in {"AccountSuspended", "AccountReactivated", "AccountClosed"}
  BY DEF AccountViewInv, AccountTyped, AccountStatuses
<1>2. ASSUME v = "customer_card", NEW x \in AccountParts(v), AccountTold(v, x)
      PROVE  AccountTold(v, AccountPartAfter(v, x, e))'
  <2>1. x \in [status : AccountStatuses, tier : Tiers, name : Names, phone : Numbers]
    BY <1>2 DEF AccountParts
  <2>2. AccountPartAfter(v, x, e) = [x EXCEPT !.status = account']
    <3>1. AccountPartAfter(v, x, e) = on_customer_card(x, e)
      BY <1>2 DEF AccountPartAfter
    <3>2. on_customer_card(x, e) = [x EXCEPT !.status = account']
      BY CardIs, ZenonT(30) DEF OnCard
    <3> QED  BY <3>1, <3>2, Zenon
  <2> QED  BY <1>2, <2>1, <2>2 DEF AccountTold
<1>3. ASSUME v = "customer_segments", NEW x \in AccountParts(v), AccountTold(v, x)
      PROVE  AccountTold(v, AccountPartAfter(v, x, e))'
  <2>1. AccountPartAfter(v, x, e) = x
    BY <1>1, <1>3 DEF AccountPartAfter, on_customer_segments
  <2> QED  BY <1>3, <2>1 DEF AccountTold
<1>4. ASSUME v = "suspended_account", NEW x \in AccountParts(v), AccountTold(v, x)
      PROVE  AccountTold(v, AccountPartAfter(v, x, e))'
  <2>1. AccountPartAfter(v, x, e) = on_suspended_account(x, e)
    BY <1>4 DEF AccountPartAfter
  <2> QED  BY <1>1, <1>4, <2>1 DEF AccountTold, on_suspended_account
<1>5. v # "address_book" =>
        \A x \in AccountParts(v) : AccountTold(v, x) => AccountTold(v, AccountPartAfter(v, x, e))'
  BY <1>1, <1>2, <1>3, <1>4 DEF AccountViews
<1> QED  BY <1>1, <1>5, OtherTells

LEMMA ProfileTells ==
  ASSUME AccountViewInv, NEW e \in AccountEvent, Publish(<<e>>),
         UNCHANGED <<account, addresses>>,
         \/ e.type = "TierUpgraded" /\ tier' = e.new_tier /\ profile' = profile
         \/ /\ e.type = "ProfileUpdated" /\ tier' = tier
            /\ profile' = [name |-> e.name, phone |-> e.phone]
  PROVE  AccountViewInv'
<1> PICK v : v = view
  OBVIOUS
<1>1. /\ v \in AccountViews /\ e.type \in {"TierUpgraded", "ProfileUpdated"}
      /\ e.type = "TierUpgraded" => e.new_tier \in Tiers
      /\ e.type = "ProfileUpdated" => e.name \in Names /\ e.phone \in Numbers
  BY DEF AccountViewInv, AccountEvent
<1>2. AccountTyped'
  BY <1>1 DEF AccountViewInv, AccountTyped
<1>3. ASSUME v = "customer_card", NEW x \in AccountParts(v), AccountTold(v, x)
      PROVE  AccountTold(v, AccountPartAfter(v, x, e))'
  <2>1. /\ x \in [status : AccountStatuses, tier : Tiers, name : Names, phone : Numbers]
        /\ x.status = account /\ x.tier = tier /\ x.name = profile.name
        /\ x.phone # "None" => profile.phone \in {x.phone, "None"}
    BY <1>3 DEF AccountParts, AccountTold
  <2>2. PICK z : z = AccountPartAfter(v, x, e)
    OBVIOUS
  <2>3. CASE e.type = "TierUpgraded"
    <3>1. z = [x EXCEPT !.tier = e.new_tier]
      <4>1. z = on_customer_card(x, e)
        BY <1>3, <2>2 DEF AccountPartAfter
      <4> QED  BY <2>3, <4>1, CardIs, Zenon DEF OnCard
    <3>2. z.status = x.status /\ z.tier = tier' /\ z.name = x.name /\ z.phone = x.phone
      BY <2>1, <2>3, <3>1
    <3>3. AccountTold(v, z)'
      BY <1>3, <2>1, <2>3, <3>2 DEF AccountTold
    <3> QED  BY <2>2, <3>3, Zenon
  <2>4. CASE e.type = "ProfileUpdated"
    <3>1. PICK n, p : n = e.name /\ p = IF e.phone = "None" THEN x.phone ELSE e.phone
      OBVIOUS
    <3>2. z = [x EXCEPT !.name = n, !.phone = p]
      <4>1. z = on_customer_card(x, e)
        BY <1>3, <2>2 DEF AccountPartAfter
      <4>2. on_customer_card(x, e) =
              [x EXCEPT !.name = e.name,
                        !.phone = IF e.phone = "None" THEN x.phone ELSE e.phone]
        BY <2>4, CardIs, Zenon DEF OnCard
      <4> QED  BY <3>1, <4>1, <4>2, Zenon
    <3>3. z.status = x.status /\ z.tier = x.tier /\ z.name = n /\ z.phone = p
      BY <2>1, <3>2
    <3>4. profile'.name = n /\ profile'.phone = e.phone
      BY <2>4, <3>1
    <3>5. p # "None" => profile'.phone \in {p, "None"}
      BY <3>1, <3>4
    <3>6. AccountTold(v, z)'
      BY <1>3, <2>1, <2>4, <3>3, <3>4, <3>5 DEF AccountTold
    <3> QED  BY <2>2, <3>6, Zenon
  <2> QED  BY <1>1, <2>3, <2>4
<1>4. ASSUME v = "customer_segments", NEW x \in AccountParts(v), AccountTold(v, x)
      PROVE  AccountTold(v, AccountPartAfter(v, x, e))'
  <2>1. x = [tier |-> tier, name |-> profile.name]
    BY <1>4 DEF AccountTold
  <2>2. AccountPartAfter(v, x, e) = [tier |-> tier', name |-> profile'.name]
    BY <1>1, <1>4, <2>1 DEF AccountPartAfter, on_customer_segments
  <2> QED  BY <1>4, <2>2 DEF AccountTold
<1>5. ASSUME v = "suspended_account", NEW x \in AccountParts(v), AccountTold(v, x)
      PROVE  AccountTold(v, AccountPartAfter(v, x, e))'
  <2>1. AccountPartAfter(v, x, e) = x
    BY <1>1, <1>5 DEF AccountPartAfter, on_suspended_account
  <2> QED  BY <1>5, <2>1 DEF AccountTold
<1>6. v # "address_book" =>
        \A x \in AccountParts(v) : AccountTold(v, x) => AccountTold(v, AccountPartAfter(v, x, e))'
  BY <1>1, <1>3, <1>4, <1>5 DEF AccountViews
<1> QED  BY <1>1, <1>2, <1>6, OtherTells

(* The commands that change addresses.                                     *)
LEMMA KeptIs ==
  /\ AccountTyped => \A a : a \in Kept <=> a \in AddressIds /\ addresses[a].street # "none"
  /\ \A a : a \in Defaults <=> a \in Kept /\ addresses[a].is_default
<1>1. ASSUME AccountTyped, NEW a \in AddressIds
      PROVE  addresses[a] # NoAddress <=> addresses[a].street # "none"
  <2>1. addresses[a].street = "none" => addresses[a] = NoAddress
    BY <1>1 DEF AccountTyped
  <2>2. NoAddress.street = "none"
    BY DEF NoAddress
  <2> QED  BY <2>1, <2>2
<1>2. AccountTyped => \A a : a \in Kept <=> a \in AddressIds /\ addresses[a].street # "none"
  BY <1>1 DEF Kept
<1> QED  BY <1>2 DEF Defaults

LEMMA AddressTells ==
  ASSUME AccountViewInv, NEW e \in AccountEvent,
         e.type \in {"AddressAdded", "AddressUpdated", "AddressRemoved", "DefaultAddressChanged"},
         UNCHANGED <<account, tier, profile>>, AccountTyped', OneDefault', Publish(<<e>>),
         \A listed, marked :
           AccountTold("address_book", [listed |-> listed, marked |-> marked]) =>
             AccountTold("address_book", MarksAfter([listed |-> listed, marked |-> marked], e))',
         \A r \in Seq(BookEntry) : BookTold(r) => BookTold(on_address_book(r, e))'
  PROVE  AccountViewInv'
<1> PICK v : v = view
  OBVIOUS
<1>1. v \in AccountViews
  BY DEF AccountViewInv
<1>2. ASSUME NEW x \in AccountParts(v), AccountTold(v, x)
      PROVE  AccountTold(v, AccountPartAfter(v, x, e))'
  <2>1. CASE v = "address_book"
    <3>1. x = [listed |-> x.listed, marked |-> x.marked]
      BY <1>2, <2>1 DEF AccountParts
    <3>2. AccountTold("address_book", MarksAfter(x, e))'
      <4>1. PICK listed, marked : x = [listed |-> listed, marked |-> marked]
        BY <3>1
      <4>2. AccountTold("address_book", MarksAfter([listed |-> listed, marked |-> marked], e))'
        BY <1>2, <2>1, <4>1, Zenon
      <4> QED  BY <4>1, <4>2, Zenon
    <3> QED  BY <2>1, <3>2, Zenon DEF AccountPartAfter
  <2>2. CASE v = "customer_card"
    <3>1. AccountPartAfter(v, x, e) = on_customer_card(x, e)
      BY <2>2 DEF AccountPartAfter
    <3>2. on_customer_card(x, e) = x
      BY CardIs, ZenonT(30) DEF OnCard
    <3> QED  BY <1>2, <2>2, <3>1, <3>2 DEF AccountTold
  <2>3. CASE v = "customer_segments"
    <3>1. AccountPartAfter(v, x, e) = x
      BY <2>3 DEF AccountPartAfter, on_customer_segments
    <3> QED  BY <1>2, <2>3, <3>1 DEF AccountTold
  <2>4. CASE v = "suspended_account"
    <3>1. AccountPartAfter(v, x, e) = x
      BY <2>4 DEF AccountPartAfter, on_suspended_account
    <3> QED  BY <1>2, <2>4, <3>1 DEF AccountTold
  <2> QED  BY <1>1, <2>1, <2>2, <2>3, <2>4 DEF AccountViews
<1> QED  BY <1>2, AccountTells

LEMMA ListedAfter ==
  ASSUME NEW r \in Seq(BookEntry), NEW e \in AccountEvent
  PROVE  ListedIn(on_address_book(r, e)) =
           CASE e.type = "AddressAdded" -> ListedIn(r) \cup {e.address_id}
             [] e.type = "AddressRemoved" -> ListedIn(r) \ {e.address_id}
             [] OTHER -> ListedIn(r)
<1> PICK m, n : m = AccountPart("address_book", r)
                /\ n = AccountPart("address_book", on_address_book(r, e))
  OBVIOUS
<1>1. n = MarksAfter(m, e)
  BY MarksProjected
<1>2. n.listed = ListedIn(on_address_book(r, e)) /\ m.listed = ListedIn(r)
  BY DEF AccountPart
<1>3. MarksAfter(m, e).listed = CASE e.type = "AddressAdded" -> m.listed \cup {e.address_id}
                                  [] e.type = "AddressRemoved" -> m.listed \ {e.address_id}
                                  [] OTHER -> m.listed
  BY DEF MarksAfter
<1> QED  BY <1>1, <1>2, <1>3, Zenon

LEMMA AddTellsBook ==
  ASSUME AccountViewInv, add_address
  PROVE  AccountViewInv'
<1>1. PICK a \in AddressIds \ Kept :
        /\ addresses' = [addresses EXCEPT ![a] = [street |-> "old", is_default |-> Kept = {}]]
        /\ Publish(<<[type |-> "AddressAdded", address_id |-> a, is_default |-> Kept = {}]>>)
        /\ UNCHANGED <<account, tier, profile>>
  BY DEF add_address, Tell
<1> PICK first \in BOOLEAN : first = (Kept = {})
  OBVIOUS
<1> PICK e : e = [type |-> "AddressAdded", address_id |-> a, is_default |-> first]
  OBVIOUS
<1>2. e \in AccountEvent /\ e.type = "AddressAdded" /\ e.address_id = a /\ e.is_default = first
  BY DEF AccountEvent
<1>3. /\ addresses'[a] = [street |-> "old", is_default |-> first]
      /\ \A b \in AddressIds \ {a} : addresses'[b] = addresses[b]
      /\ addresses' \in [AddressIds -> [street : Names \cup {"none"}, is_default : BOOLEAN]]
  BY <1>1 DEF AccountViewInv, AccountTyped, Names
<1>4. AccountTyped /\ AccountTyped' /\ OneDefault
  BY <1>1, <1>3 DEF AccountViewInv, AccountTyped
<1>5. Kept' = Kept \cup {a} /\ a \notin Kept /\ Kept \subseteq AddressIds
  <2>1. addresses'[a].street # "none"
    BY <1>3
  <2> QED  BY <1>1, <1>3, <1>4, <2>1, KeptIs DEF Kept
<1>6. Defaults' = IF first THEN {a} ELSE Defaults
  <2>1. Defaults' = {b \in Kept' : addresses'[b].is_default}
    BY DEF Defaults
  <2>2. addresses'[a].is_default = first
    BY <1>3
  <2> QED  BY <1>3, <1>5, <2>1, <2>2 DEF Defaults
<1>7. OneDefault' /\ Cardinality(Kept') = Cardinality(Kept) + 1
  <2>1. IsFiniteSet(Kept') /\ Cardinality(Kept') = Cardinality(Kept) + 1
    BY <1>4, <1>5, FS_AddElement DEF OneDefault
  <2>2. \E d : Defaults' = {d}
    BY <1>4, <1>6 DEF OneDefault
  <2> QED  BY <2>1, <2>2 DEF OneDefault
<1>8. ASSUME NEW listed, NEW marked,
             AccountTold("address_book", [listed |-> listed, marked |-> marked])
      PROVE  AccountTold("address_book", MarksAfter([listed |-> listed, marked |-> marked], e))'
  <2>1. listed = Kept /\ marked \subseteq Defaults
    BY <1>8 DEF AccountTold
  <2>2. MarksAfter([listed |-> listed, marked |-> marked], e) =
          [listed |-> listed \cup {a}, marked |-> IF first THEN marked \cup {a} ELSE marked]
    BY <1>2 DEF MarksAfter
  <2>3. (IF first THEN marked \cup {a} ELSE marked) \subseteq Defaults'
    BY <1>6, <2>1 DEF Defaults
  <2> QED  BY <1>5, <2>1, <2>2, <2>3 DEF AccountTold
<1>9. ASSUME NEW r \in Seq(BookEntry), BookTold(r) PROVE BookTold(on_address_book(r, e))'
  <2> PICK z : z = on_address_book(r, e)
    OBVIOUS
  <2>1. /\ z \in Seq(BookEntry) /\ Len(z) = Len(r) + 1
        /\ \A k \in 1..Len(r) : z[k] = r[k]
        /\ z[Len(r) + 1] = [address_id |-> a, street |-> "old", is_default |-> first]
    BY <1>2, BookAdds
  <2>2. /\ \A j, k \in 1..Len(r) : r[j].address_id = r[k].address_id => j = k
        /\ ListedIn(r) = Kept /\ Len(r) = Cardinality(Kept)
        /\ \A k \in 1..Len(r) : r[k].street = addresses[r[k].address_id].street
    BY <1>9 DEF BookTold
  <2>3. \A k \in 1..Len(r) : r[k].address_id \in AddressIds \ {a}
    <3>1. \A k \in 1..Len(r) : r[k] \in BookEntry
      OBVIOUS
    <3>2. \A k \in 1..Len(r) : r[k].address_id \in AddressIds
      BY <3>1 DEF BookEntry
    <3>3. a \notin ListedIn(r)
      BY <1>5, <2>2
    <3>4. \A k \in 1..Len(r) : r[k].address_id # a
      BY <1>1, <3>3, ListedIs
    <3> QED  BY <3>2, <3>4
  <2> PICK n : n = Len(r)
    OBVIOUS
  <2>4. /\ n \in Nat /\ z[n + 1].address_id = a /\ z[n + 1].street = "old"
        /\ \A k \in 1..n : /\ z[k].address_id = r[k].address_id /\ z[k].address_id # a
                          /\ z[k].street = r[k].street
    BY <2>1, <2>3
  <2>5. \A k : k \in 1..Len(z) <=> k \in 1..n \/ k = n + 1
    BY <2>1, <2>4
  <2>6. \A j, k \in 1..Len(z) : z[j].address_id = z[k].address_id => j = k
    <3>1. \A j, k \in 1..n : z[j].address_id = z[k].address_id => j = k
      BY <2>2, <2>4
    <3>2. \A k \in 1..n : z[k].address_id # z[n + 1].address_id
      BY <2>4
    <3>3. ASSUME NEW j \in 1..Len(z), NEW k \in 1..Len(z), z[j].address_id = z[k].address_id
          PROVE  j = k
      <4>1. (j \in 1..n \/ j = n + 1) /\ (k \in 1..n \/ k = n + 1)
        BY <2>5
      <4>2. CASE j \in 1..n /\ k \in 1..n
        BY <3>1, <3>3, <4>2, Zenon
      <4>3. ~(j \in 1..n /\ k = n + 1) /\ ~(j = n + 1 /\ k \in 1..n)
        BY <3>2, <3>3, Zenon
      <4> QED  BY <4>1, <4>2, <4>3, Zenon
    <3> QED  BY <3>3, Zenon
  <2>7. \A k \in 1..Len(z) : z[k].street = addresses'[z[k].address_id].street
    <3>1. addresses'[a].street = "old"
      BY <1>3
    <3>2. \A k \in 1..n : z[k].street = addresses'[z[k].address_id].street
      BY <1>3, <2>2, <2>3, <2>4
    <3>3. z[n + 1].street = addresses'[z[n + 1].address_id].street
      BY <2>4, <3>1
    <3> QED  BY <2>5, <3>2, <3>3, Zenon
  <2>8. ListedIn(z) = Kept'
    <3>1. ListedIn(z) = ListedIn(r) \cup {a}
      BY <1>2, ListedAfter
    <3> QED  BY <1>5, <2>2, <3>1
  <2>9. Len(z) = Cardinality(Kept')
    BY <1>7, <2>1, <2>2
  <2>10. BookTold(z)'
    BY <2>1, <2>6, <2>7, <2>8, <2>9, Zenon DEF BookTold
  <2> QED  BY <2>10, Zenon
<1> QED  BY <1>1, <1>2, <1>4, <1>7, <1>8, <1>9, AddressTells

LEMMA UpdateTellsBook ==
  ASSUME AccountViewInv, NEW a \in AddressIds, update_address(a)
  PROVE  AccountViewInv'
<1>1. /\ a \in Kept /\ addresses' = [addresses EXCEPT ![a].street = "new"]
      /\ Publish(<<[type |-> "AddressUpdated", address_id |-> a]>>)
      /\ UNCHANGED <<account, tier, profile>>
  BY DEF update_address, Tell
<1> PICK e : e = [type |-> "AddressUpdated", address_id |-> a]
  OBVIOUS
<1>2. e \in AccountEvent /\ e.type = "AddressUpdated" /\ e.address_id = a
  BY DEF AccountEvent
<1>3. /\ addresses'[a].street = "new" /\ addresses'[a].is_default = addresses[a].is_default
      /\ \A b \in AddressIds \ {a} : addresses'[b] = addresses[b]
      /\ addresses' \in [AddressIds -> [street : Names \cup {"none"}, is_default : BOOLEAN]]
  BY <1>1 DEF AccountViewInv, AccountTyped, Names
<1>4. AccountTyped /\ AccountTyped' /\ OneDefault
  BY <1>1, <1>3 DEF AccountViewInv, AccountTyped
<1>5. Kept' = Kept
  <2>1. addresses'[a] # NoAddress
    <3>1. addresses'[a].street = "new" /\ NoAddress.street = "none"
      BY <1>3 DEF NoAddress
    <3> QED  BY <3>1
  <2>2. a \in AddressIds /\ addresses[a] # NoAddress
    BY <1>1 DEF Kept
  <2>3. \A b \in AddressIds : addresses'[b] # NoAddress <=> addresses[b] # NoAddress
    BY <1>3, <2>1, <2>2
  <2> QED  BY <2>3 DEF Kept
<1>6. Defaults' = Defaults
  <2>1. \A b \in AddressIds : addresses'[b].is_default = addresses[b].is_default
    BY <1>3
  <2> QED  BY <1>5, <2>1 DEF Defaults, Kept
<1>7. OneDefault'
  BY <1>4, <1>5, <1>6 DEF OneDefault
<1>8. ASSUME NEW listed, NEW marked,
             AccountTold("address_book", [listed |-> listed, marked |-> marked])
      PROVE  AccountTold("address_book", MarksAfter([listed |-> listed, marked |-> marked], e))'
  <2>1. MarksAfter([listed |-> listed, marked |-> marked], e) =
          [listed |-> listed, marked |-> marked]
    BY <1>2 DEF MarksAfter
  <2> QED  BY <1>5, <1>6, <1>8, <2>1 DEF AccountTold
<1>9. ASSUME NEW r \in Seq(BookEntry), BookTold(r) PROVE BookTold(on_address_book(r, e))'
  <2> PICK z : z = on_address_book(r, e)
    OBVIOUS
  <2>1. /\ z \in Seq(BookEntry) /\ Len(z) = Len(r)
        /\ \A k \in 1..Len(r) : /\ z[k].address_id = r[k].address_id
                                /\ z[k].street = IF k \in FirstEntry(r, a) THEN "new"
                                                 ELSE r[k].street
    BY <1>2, BookUpdates
  <2>2. /\ \A j, k \in 1..Len(r) : r[j].address_id = r[k].address_id => j = k
        /\ ListedIn(r) = Kept /\ Len(r) = Cardinality(Kept)
        /\ \A k \in 1..Len(r) : r[k].street = addresses[r[k].address_id].street
    BY <1>9 DEF BookTold
  <2>3. \A k \in 1..Len(r) : r[k].address_id \in AddressIds
    <3>1. \A k \in 1..Len(r) : r[k] \in BookEntry
      OBVIOUS
    <3> QED  BY <3>1 DEF BookEntry
  <2>4. ASSUME NEW k \in 1..Len(r) PROVE k \in FirstEntry(r, a) <=> r[k].address_id = a
    <3>1. \A j \in Entries(r, a) : j \in 1..Len(r) /\ r[j].address_id = a
      BY DEF Entries
    <3>2. k \in Entries(r, a) <=> r[k].address_id = a
      BY DEF Entries
    <3>3. r[k].address_id = a => \A j \in Entries(r, a) : j = k
      BY <2>2, <3>1
    <3> QED  BY <3>2, <3>3 DEF FirstEntry
  <2>5. \A k \in 1..Len(z) : z[k].street = addresses'[z[k].address_id].street
    BY <1>3, <2>1, <2>2, <2>3, <2>4
  <2>6. ListedIn(z) = Kept'
    <3>1. ListedIn(z) = ListedIn(r)
      BY <1>2, ListedAfter
    <3> QED  BY <1>5, <2>2, <3>1
  <2>7. /\ \A j, k \in 1..Len(z) : z[j].address_id = z[k].address_id => j = k
        /\ Len(z) = Cardinality(Kept')
    BY <1>5, <2>1, <2>2
  <2>8. BookTold(z)'
    BY <2>1, <2>5, <2>6, <2>7, Zenon DEF BookTold
  <2> QED  BY <2>8, Zenon
<1> QED  BY <1>1, <1>2, <1>4, <1>7, <1>8, <1>9, AddressTells

LEMMA DefaultTellsBook ==
  ASSUME AccountViewInv, NEW a \in AddressIds, set_default_address(a)
  PROVE  AccountViewInv'
<1>1. /\ a \in Kept
      /\ addresses' = [b \in AddressIds |->
                         IF b \in Kept THEN [addresses[b] EXCEPT !.is_default = (b = a)]
                         ELSE NoAddress]
      /\ Publish(<<[type |-> "DefaultAddressChanged", address_id |-> a]>>)
      /\ UNCHANGED <<account, tier, profile>>
  BY DEF set_default_address, Tell
<1> PICK e : e = [type |-> "DefaultAddressChanged", address_id |-> a]
  OBVIOUS
<1>2. e \in AccountEvent /\ e.type = "DefaultAddressChanged" /\ e.address_id = a
  BY DEF AccountEvent
<1>3. ASSUME NEW b \in AddressIds
      PROVE  /\ addresses'[b] \in [street : Names \cup {"none"}, is_default : BOOLEAN]
             /\ addresses'[b].street = addresses[b].street
             /\ b \in Kept => (addresses'[b].is_default <=> b = a)
             /\ b \notin Kept => addresses'[b] = NoAddress
  <2>1. addresses[b] \in [street : Names \cup {"none"}, is_default : BOOLEAN]
    BY DEF AccountViewInv, AccountTyped
  <2>2. CASE b \in Kept
    <3> PICK x, d : x = addresses[b] /\ d = (b = a)
      OBVIOUS
    <3>1. addresses'[b] = [x EXCEPT !.is_default = d]
      BY <1>1, <2>2
    <3>2. /\ [x EXCEPT !.is_default = d] \in [street : Names \cup {"none"}, is_default : BOOLEAN]
          /\ [x EXCEPT !.is_default = d].street = x.street
          /\ [x EXCEPT !.is_default = d].is_default = d
      BY <2>1
    <3> QED  BY <2>2, <3>1, <3>2
  <2>3. CASE b \notin Kept
    <3>1. addresses'[b] = NoAddress /\ addresses[b] = NoAddress
      BY <1>1, <2>3 DEF Kept
    <3> QED  BY <2>1, <2>3, <3>1
  <2> QED  BY <2>2, <2>3
<1>4. AccountTyped /\ AccountTyped' /\ OneDefault
  <2>1. AccountTyped /\ OneDefault
    BY DEF AccountViewInv
  <2>2. addresses' \in [AddressIds -> [street : Names \cup {"none"}, is_default : BOOLEAN]]
    BY <1>1, <1>3
  <2>3. \A b \in AddressIds : addresses'[b].street = "none" => addresses'[b] = NoAddress
    BY <1>3, <2>1, KeptIs
  <2> QED  BY <1>1, <2>1, <2>2, <2>3 DEF AccountTyped
<1>5. Kept' = Kept
  <2>1. /\ \A b : b \in Kept <=> b \in AddressIds /\ addresses[b].street # "none"
        /\ \A b \in Kept' : b \in AddressIds /\ addresses'[b] # NoAddress
        /\ \A b \in AddressIds : addresses'[b] # NoAddress => b \in Kept'
    BY <1>4, KeptIs DEF Kept
  <2>2. NoAddress.street = "none"
    BY DEF NoAddress
  <2> QED  BY <1>3, <2>1, <2>2
<1>6. Defaults' = {a}
  <2>1. Defaults' = {b \in Kept : addresses'[b].is_default}
    BY <1>5 DEF Defaults
  <2>2. \A b \in Kept : b \in AddressIds
    BY DEF Kept
  <2> QED  BY <1>1, <1>3, <2>1, <2>2
<1>7. OneDefault'
  BY <1>4, <1>5, <1>6 DEF OneDefault
<1>8. ASSUME NEW listed, NEW marked,
             AccountTold("address_book", [listed |-> listed, marked |-> marked])
      PROVE  AccountTold("address_book", MarksAfter([listed |-> listed, marked |-> marked], e))'
  <2>1. MarksAfter([listed |-> listed, marked |-> marked], e) =
          [listed |-> listed, marked |-> listed \cap {a}]
    BY <1>2 DEF MarksAfter
  <2>2. listed = Kept
    BY <1>8 DEF AccountTold
  <2>3. listed \cap {a} \subseteq Defaults'
    BY <1>6
  <2> QED  BY <1>5, <2>1, <2>2, <2>3 DEF AccountTold
<1>9. ASSUME NEW r \in Seq(BookEntry), BookTold(r) PROVE BookTold(on_address_book(r, e))'
  <2> PICK z : z = on_address_book(r, e)
    OBVIOUS
  <2>1. /\ z \in Seq(BookEntry) /\ Len(z) = Len(r)
        /\ \A k \in 1..Len(r) : z[k].address_id = r[k].address_id /\ z[k].street = r[k].street
    BY <1>2, BookMarks
  <2>2. /\ \A j, k \in 1..Len(r) : r[j].address_id = r[k].address_id => j = k
        /\ ListedIn(r) = Kept /\ Len(r) = Cardinality(Kept)
        /\ \A k \in 1..Len(r) : r[k].street = addresses[r[k].address_id].street
    BY <1>9 DEF BookTold
  <2>3. \A k \in 1..Len(r) : r[k].address_id \in AddressIds
    <3>1. \A k \in 1..Len(r) : r[k] \in BookEntry
      OBVIOUS
    <3> QED  BY <3>1 DEF BookEntry
  <2>5. \A k \in 1..Len(z) : z[k].street = addresses'[z[k].address_id].street
    BY <1>3, <2>1, <2>2, <2>3
  <2>6. ListedIn(z) = Kept'
    <3>1. ListedIn(z) = ListedIn(r)
      BY <1>2, ListedAfter
    <3> QED  BY <1>5, <2>2, <3>1
  <2>7. /\ \A j, k \in 1..Len(z) : z[j].address_id = z[k].address_id => j = k
        /\ Len(z) = Cardinality(Kept')
    BY <1>5, <2>1, <2>2
  <2>8. BookTold(z)'
    BY <2>1, <2>5, <2>6, <2>7, Zenon DEF BookTold
  <2> QED  BY <2>8, Zenon
<1> QED  BY <1>1, <1>2, <1>4, <1>7, <1>8, <1>9, AddressTells

LEMMA RemoveTellsBook ==
  ASSUME AccountViewInv, NEW a \in AddressIds, remove_address(a)
  PROVE  AccountViewInv'
<1>1. PICK first \in Kept \ {a} :
        /\ a \in Kept
        /\ addresses' = [addresses EXCEPT
                           ![a] = NoAddress,
                           ![first].is_default = @ \/ addresses[a].is_default]
        /\ Publish(<<[type |-> "AddressRemoved", address_id |-> a]>>)
        /\ UNCHANGED <<account, tier, profile>>
  BY DEF remove_address, Tell
<1> PICK e : e = [type |-> "AddressRemoved", address_id |-> a]
  OBVIOUS
<1>2. e \in AccountEvent /\ e.type = "AddressRemoved" /\ e.address_id = a
  BY DEF AccountEvent
<1>3. AccountTyped /\ OneDefault /\ first \in AddressIds /\ first # a
  BY DEF AccountViewInv, Kept
<1>4. ASSUME NEW b \in AddressIds
      PROVE  /\ addresses'[b] \in [street : Names \cup {"none"}, is_default : BOOLEAN]
             /\ b = a => addresses'[b] = NoAddress
             /\ b # a => /\ addresses'[b].street = addresses[b].street
                         /\ addresses'[b].is_default <=>
                              addresses[b].is_default \/ (b = first /\ addresses[a].is_default)
             /\ b \notin {a, first} => addresses'[b] = addresses[b]
  <2> PICK D : D = [street : Names \cup {"none"}, is_default : BOOLEAN]
    OBVIOUS
  <2>1. addresses[b] \in D /\ addresses[a] \in D /\ addresses[first] \in D
    BY <1>3 DEF AccountTyped
  <2>2. CASE b \notin {a, first}
    <3>1. addresses'[b] = addresses[b]
      BY <1>1, <1>3, <2>2 DEF AccountTyped
    <3> QED  BY <2>1, <2>2, <3>1
  <2>3. CASE b = a
    <3>1. addresses'[b] = NoAddress
      BY <1>1, <1>3, <2>3 DEF AccountTyped
    <3>2. NoAddress \in D
      BY DEF NoAddress
    <3> QED  BY <1>3, <2>3, <3>1, <3>2
  <2>4. CASE b = first
    <3> PICK x, d : x = addresses[b] /\ d = (addresses[b].is_default \/ addresses[a].is_default)
      OBVIOUS
    <3>1. addresses'[b] = [x EXCEPT !.is_default = d]
      BY <1>1, <1>3, <2>4 DEF AccountTyped
    <3>2. /\ [x EXCEPT !.is_default = d] \in D
          /\ [x EXCEPT !.is_default = d].street = x.street
          /\ [x EXCEPT !.is_default = d].is_default = d
      BY <2>1
    <3> QED  BY <1>3, <2>4, <3>1, <3>2
  <2> QED  BY <2>2, <2>3, <2>4
<1>5. Kept' = Kept \ {a}
  <2>1. NoAddress.street = "none"
    BY DEF NoAddress
  <2>2. \A b \in AddressIds \ {a} : addresses'[b] # NoAddress <=> addresses[b] # NoAddress
    <3>1. ASSUME NEW b \in AddressIds \ {a}
          PROVE  addresses'[b] # NoAddress <=> addresses[b] # NoAddress
      <4>1. CASE b = first
        <5>1. addresses[first].street # "none"
          BY <1>1, <1>3, KeptIs
        <5>2. addresses'[first].street # "none"
          BY <1>3, <1>4, <5>1
        <5> QED  BY <2>1, <4>1, <5>1, <5>2
      <4>2. CASE b # first
        BY <1>4, <4>2
      <4> QED  BY <4>1, <4>2
    <3> QED  BY <3>1
  <2>3. addresses'[a] = NoAddress
    BY <1>4
  <2> QED  BY <2>2, <2>3 DEF Kept
<1>6. AccountTyped'
  <2>1. addresses' \in [AddressIds -> [street : Names \cup {"none"}, is_default : BOOLEAN]]
    <3>1. DOMAIN addresses' = AddressIds /\ addresses' = [b \in AddressIds |-> addresses'[b]]
      BY <1>1, <1>3 DEF AccountTyped
    <3> QED  BY <1>4, <3>1
  <2>2. ASSUME NEW b \in AddressIds, addresses'[b].street = "none" PROVE addresses'[b] = NoAddress
    <3>1. CASE b = first
      <4>1. addresses[first].street # "none"
        BY <1>1, <1>3, KeptIs
      <4> QED  BY <1>3, <1>4, <2>2, <3>1, <4>1
    <3>2. CASE b # first
      BY <1>3, <1>4, <2>2, <3>2 DEF AccountTyped
    <3> QED  BY <3>1, <3>2
  <2> QED  BY <1>1, <1>3, <2>1, <2>2 DEF AccountTyped
<1>7. IF a \in Defaults THEN Defaults' = {first} ELSE Defaults' = Defaults
  <2>1. PICK d : Defaults = {d}
    BY <1>1, <1>3 DEF OneDefault
  <2>2. \A b : b \in Defaults' <=> b \in Kept /\ b # a /\ addresses'[b].is_default
    BY <1>5 DEF Defaults
  <2>3. \A b : b \in Kept => b \in AddressIds
    BY DEF Kept
  <2>4. \A b : b \in Kept => (addresses[b].is_default <=> b = d)
    BY <2>1, KeptIs
  <2>5. \A b : b \in Kept /\ b # a => (addresses'[b].is_default <=> b = d \/ (b = first /\ a = d))
    BY <1>1, <1>4, <2>3, <2>4
  <2>6. d \in Kept
    BY <2>1 DEF Defaults
  <2>7. CASE a = d
    <3>1. \A b : b \in Defaults' <=> b = first
      BY <1>1, <2>2, <2>5, <2>7
    <3> QED  BY <2>1, <2>7, <3>1
  <2>8. CASE a # d
    <3>1. \A b : b \in Defaults' <=> b = d
      BY <2>2, <2>5, <2>6, <2>8
    <3> QED  BY <2>1, <2>8, <3>1
  <2> QED  BY <2>7, <2>8
<1>8. OneDefault' /\ Cardinality(Kept') = Cardinality(Kept) - 1
  <2>1. IsFiniteSet(Kept') /\ Cardinality(Kept') = Cardinality(Kept) - 1
    BY <1>1, <1>3, <1>5, FS_RemoveElement DEF OneDefault
  <2>2. \E d : Defaults' = {d}
    BY <1>1, <1>3, <1>7 DEF OneDefault
  <2> QED  BY <2>1, <2>2 DEF OneDefault
<1>9. ASSUME NEW listed, NEW marked,
             AccountTold("address_book", [listed |-> listed, marked |-> marked])
      PROVE  AccountTold("address_book", MarksAfter([listed |-> listed, marked |-> marked], e))'
  <2>1. MarksAfter([listed |-> listed, marked |-> marked], e) =
          [listed |-> listed \ {a}, marked |-> marked \ {a}]
    BY <1>2 DEF MarksAfter
  <2>2. listed = Kept /\ marked \subseteq Defaults
    BY <1>9 DEF AccountTold
  <2>3. marked \ {a} \subseteq Defaults'
    <3>1. \E d : Defaults = {d}
      BY <1>1, <1>3 DEF OneDefault
    <3> QED  BY <1>7, <2>2, <3>1
  <2> QED  BY <1>5, <2>1, <2>2, <2>3 DEF AccountTold
<1>10. ASSUME NEW r \in Seq(BookEntry), BookTold(r) PROVE BookTold(on_address_book(r, e))'
  <2> PICK z, kept : z = on_address_book(r, e) /\ kept = 1..Len(r) \ Entries(r, a)
    OBVIOUS
  <2> PICK n, m : n = Len(r) /\ m = Len(z)
    OBVIOUS
  <2>1. z \in Seq(BookEntry) /\ KeptOf(z, r, kept)
    BY <1>2, BookRemoves
  <2>2. /\ m = Cardinality(kept)
        /\ \A k \in 1..m : Nth(kept, k) \in kept /\ z[k] = r[Nth(kept, k)]
        /\ \A k, l \in 1..m : k < l => Nth(kept, k) < Nth(kept, l)
    BY <2>1 DEF KeptOf
  <2>3. /\ \A j, k \in 1..n : r[j].address_id = r[k].address_id => j = k
        /\ ListedIn(r) = Kept /\ n = Cardinality(Kept)
        /\ \A k \in 1..n : r[k].street = addresses[r[k].address_id].street
    BY <1>10 DEF BookTold
  <2>4. /\ n \in Nat /\ m \in Nat
        /\ \A k \in 1..n : r[k].address_id \in AddressIds
    <3>1. \A k \in 1..n : r[k] \in BookEntry
      OBVIOUS
    <3> QED  BY <2>1, <3>1 DEF BookEntry
  <2>5. \A k : k \in kept <=> k \in 1..n /\ r[k].address_id # a
    BY DEF Entries
  <2>6. PICK i \in 1..n : r[i].address_id = a
    <3>1. a \in ListedIn(r)
      BY <1>1, <2>3
    <3> QED  BY <3>1, ListedIs
  <2>7. m = Cardinality(Kept')
    <3>1. kept = (1..n) \ {i}
      <4>1. \A k \in 1..n : r[k].address_id = a <=> k = i
        <5>1. \A k \in 1..n : r[k].address_id = r[i].address_id => k = i
          BY <2>3, <2>6, Zenon
        <5> QED  BY <2>6, <5>1, Zenon
      <4>2. \A k : k \in kept <=> k \in 1..n /\ k # i
        BY <2>5, <4>1, Zenon
      <4>3. \A k : k \in kept <=> k \in (1..n) \ {i}
        BY <4>2
      <4> QED  BY <4>3
    <3>2. IsFiniteSet(1..n) /\ Cardinality(1..n) = n
      <4>1. /\ IsFiniteSet(1..n)
            /\ Cardinality(1..n) = IF 1 > n THEN 0 ELSE n - 1 + 1
        <5>1. 1 \in Int /\ n \in Int
          BY <2>4
        <5> QED  BY <5>1, FS_Interval, Zenon
      <4> QED  BY <2>4, <4>1
    <3>3. Cardinality(kept) = n - 1
      BY <2>6, <3>1, <3>2, FS_RemoveElement
    <3> QED  BY <1>8, <2>2, <2>3, <3>3
  <2>8. ASSUME NEW j \in 1..m, NEW k \in 1..m, z[j].address_id = z[k].address_id
        PROVE  j = k
    <3>1. /\ Nth(kept, j) \in 1..n /\ Nth(kept, k) \in 1..n
          /\ r[Nth(kept, j)].address_id = r[Nth(kept, k)].address_id
      BY <2>2, <2>5, <2>8
    <3>2. Nth(kept, j) = Nth(kept, k)
      BY <2>3, <3>1, Zenon
    <3>3. (j < k => Nth(kept, j) < Nth(kept, k)) /\ (k < j => Nth(kept, k) < Nth(kept, j))
      BY <2>2, Zenon
    <3>4. PICK p : p = Nth(kept, j) /\ p = Nth(kept, k) /\ p \in 1..n
      BY <3>1, <3>2, Zenon
    <3>5. ~(p < p)
      BY <2>4, <3>4
    <3>6. ~(j < k) /\ ~(k < j)
      BY <3>3, <3>4, <3>5, Zenon
    <3> QED  BY <2>4, <3>6
  <2>9. ASSUME NEW k \in 1..m PROVE z[k].street = addresses'[z[k].address_id].street
    <3> PICK j : j = Nth(kept, k)
      OBVIOUS
    <3>1. j \in 1..n /\ r[j].address_id # a /\ z[k] = r[j]
      BY <2>2, <2>5
    <3>2. r[j].street = addresses[r[j].address_id].street /\ r[j].address_id \in AddressIds
      BY <2>3, <2>4, <3>1
    <3> QED  BY <1>4, <3>1, <3>2
  <2>10. ListedIn(z) = Kept'
    <3>1. ListedIn(z) = ListedIn(r) \ {a}
      BY <1>2, ListedAfter
    <3> QED  BY <1>5, <2>3, <3>1
  <2>11. BookTold(z)'
    BY <2>1, <2>7, <2>8, <2>9, <2>10, Zenon DEF BookTold
  <2> QED  BY <2>11, Zenon
<1> QED  BY <1>1, <1>2, <1>6, <1>8, <1>9, <1>10, AddressTells

LEMMA AccountStep == AccountViewInv /\ [AccountsNext]_accounts_vars => AccountViewInv'
<1> SUFFICES ASSUME AccountViewInv, [AccountsNext]_accounts_vars PROVE AccountViewInv'
  OBVIOUS
<1>1. CASE suspend \/ reactivate \/ close
  <2>1. PICK t \in {"AccountSuspended", "AccountReactivated", "AccountClosed"} :
          /\ Publish(<<[type |-> t]>>) /\ UNCHANGED <<tier, profile, addresses>>
          /\ \/ t = "AccountSuspended" /\ account' = "Suspended"
             \/ t = "AccountReactivated" /\ account' = "Active"
             \/ t = "AccountClosed" /\ account' = "Closed"
    BY <1>1, Zenon DEF suspend, reactivate, close, SetAccount, Tell
  <2> PICK e : e = [type |-> t]
    OBVIOUS
  <2>2. e \in AccountEvent /\ e.type = t
    BY DEF AccountEvent
  <2> QED  BY <2>1, <2>2, StatusTells
<1>2. ASSUME NEW new_tier \in Tiers, upgrade_tier(new_tier) PROVE AccountViewInv'
  <2> PICK e : e = [type |-> "TierUpgraded", new_tier |-> new_tier]
    OBVIOUS
  <2>1. e \in AccountEvent /\ e.type = "TierUpgraded" /\ e.new_tier = new_tier
    BY DEF AccountEvent
  <2>2. /\ Publish(<<e>>) /\ tier' = new_tier /\ profile' = profile
        /\ UNCHANGED <<account, addresses>>
    BY <1>2 DEF upgrade_tier, Tell
  <2> QED  BY <2>1, <2>2, ProfileTells
<1>3. ASSUME NEW name \in Names, NEW phone \in Numbers, update_profile(name, phone)
      PROVE  AccountViewInv'
  <2> PICK e : e = [type |-> "ProfileUpdated", name |-> name, phone |-> phone]
    OBVIOUS
  <2>1. e \in AccountEvent /\ e.type = "ProfileUpdated" /\ e.name = name /\ e.phone = phone
    BY DEF AccountEvent
  <2>2. /\ Publish(<<e>>) /\ profile' = [name |-> name, phone |-> phone] /\ tier' = tier
        /\ UNCHANGED <<account, addresses>>
    BY <1>3 DEF update_profile, Tell
  <2> QED  BY <2>1, <2>2, ProfileTells
<1>4. CASE add_address
  BY <1>4, AddTellsBook
<1>5. ASSUME NEW a \in AddressIds, update_address(a) \/ remove_address(a) \/ set_default_address(a)
      PROVE  AccountViewInv'
  BY <1>5, UpdateTellsBook, RemoveTellsBook, DefaultTellsBook
<1>6. CASE AccountProjection
  BY <1>6, AccountProjects
<1>7. CASE UNCHANGED accounts_vars
  <2>1. /\ UNCHANGED <<account, tier, profile, addresses>>
        /\ UNCHANGED <<view, row, unread, redelivered>>
    BY <1>7 DEF accounts_vars, account_vars, read_vars
  <2>2. Kept' = Kept /\ Defaults' = Defaults
    BY <2>1 DEF Kept, Defaults
  <2>3. AccountTyped' /\ OneDefault'
    BY <2>1, <2>2 DEF AccountViewInv, AccountTyped, OneDefault
  <2>4. \A v, x : AccountTold(v, x) => AccountTold(v, x)'
    BY <2>1, <2>2 DEF AccountTold
  <2>5. \A r : BookTold(r) => BookTold(r)'
    BY <2>1, <2>2 DEF BookTold
  <2> PICK v : v = view
    OBVIOUS
  <2>6. AccountFollowed(v) /\ v \in AccountViews
    BY DEF AccountViewInv
  <2>7. AccountFollowed(v)'
    BY <2>1, <2>4, <2>5, <2>6 DEF AccountFollowed
  <2> QED  BY <2>1, <2>3, <2>6, <2>7 DEF AccountViewInv
<1> QED
  BY <1>1, <1>2, <1>3, <1>4, <1>5, <1>6, <1>7, Zenon DEF AccountsNext, AccountCommand, Names, Numbers

LEMMA AccountStart == AccountsInit => AccountViewInv
<1> SUFFICES ASSUME AccountsInit PROVE AccountViewInv
  OBVIOUS
<1>1. /\ account = "Active" /\ tier = 1 /\ profile \in [name : {"old"}, phone : Numbers]
      /\ addresses = [a \in AddressIds |-> NoAddress]
      /\ view \in AccountViews /\ row = AccountRow /\ unread = << >>
  BY DEF AccountsInit, RegisterCustomer, Numbers
<1>2. Kept = {}
  BY <1>1 DEF Kept
<1>3. AccountTyped
  BY <1>1 DEF AccountTyped, AccountStatuses, Tiers, Names, NoAddress
<1>4. OneDefault
  BY <1>2, FS_EmptySet DEF OneDefault
<1> PICK v : v = view
  OBVIOUS
<1>5. unread \in Seq(AccountEvent)
  BY <1>1
<1>6. CASE v = "address_book"
  <2>1. row = << >>
    BY <1>1, <1>6 DEF AccountRow
  <2>2. ListedIn(row) = {} /\ MarkedIn(row) = {}
    BY <2>1 DEF ListedIn, MarkedIn, Entries
  <2>3. row \in Seq(BookEntry) /\ Len(row) = 0
    BY <2>1
  <2> DEFINE x == [listed |-> {}, marked |-> {}]
  <2>4. AccountPart(v, row) = x
    BY <1>6, <2>2 DEF AccountPart
  <2>5. x \in AccountParts(v)
    BY <1>6 DEF AccountParts
  <2>6. AccountTold(v, x)
    BY <1>2, <1>6 DEF AccountTold
  <2>7. BookTold(row)
    <3>1. Cardinality(Kept) = 0
      BY <1>2, FS_EmptySet
    <3> QED  BY <1>2, <2>2, <2>3, <3>1 DEF BookTold
  <2> HIDE DEF x
  <2>8. Leads(AccountSteps(v), AccountPart(v, row), unread, x) /\ Leads(BookSteps, row, unread, row)
    BY <1>1, <2>4, LeadsNone
  <2>9. AccountFollowed(v)
    BY <1>5, <1>6, <2>3, <2>5, <2>6, <2>7, <2>8 DEF AccountFollowed, AccountRows
  <2> QED  BY <1>1, <1>3, <1>4, <2>9 DEF AccountViewInv
<1>7. CASE v # "address_book"
  <2>1. row \in AccountParts(v) /\ AccountTold(v, row)
    <3>1. CASE v = "customer_card"
      <4>1. row = [status |-> "Active", tier |-> 1, name |-> "old", phone |-> "None"]
        BY <1>1, <3>1 DEF AccountRow
      <4> QED
        BY <1>1, <3>1, <4>1 DEF AccountParts, AccountTold, AccountStatuses, Tiers, Names, Numbers
    <3>2. CASE v = "customer_segments"
      <4>1. row = [tier |-> 1, name |-> "old"]
        BY <1>1, <3>2 DEF AccountRow
      <4> QED  BY <1>1, <3>2, <4>1 DEF AccountParts, AccountTold, Tiers, Names
    <3>3. CASE v = "suspended_account"
      <4>1. row = FALSE
        BY <1>1, <3>3 DEF AccountRow
      <4> QED  BY <1>1, <3>3, <4>1 DEF AccountParts, AccountTold
    <3> QED  BY <1>1, <1>7, <3>1, <3>2, <3>3 DEF AccountViews
  <2>2. AccountPart(v, row) = row
    BY <1>7 DEF AccountPart
  <2>3. Leads(AccountSteps(v), AccountPart(v, row), unread, row)
    BY <1>1, <2>2, LeadsNone
  <2>4. AccountFollowed(v)
    BY <1>5, <1>7, <2>1, <2>3 DEF AccountFollowed, AccountRows
  <2> QED  BY <1>1, <1>3, <1>4, <2>4 DEF AccountViewInv
<1> QED  BY <1>6, <1>7

LEMMA AccountViewTells == AccountViewInv => AccountFollows
<1> SUFFICES ASSUME AccountViewInv PROVE AccountFollows
  OBVIOUS
<1> PICK v : v = view
  OBVIOUS
<1>1. v \in AccountViews /\ AccountFollowed(v) /\ OneDefault
  BY DEF AccountViewInv
<1>2. Kept # {} => Cardinality(Defaults) = 1
  BY <1>1, FS_Singleton DEF OneDefault
<1>3. ASSUME CaughtUp PROVE AccountTold(v, AccountPart(v, row))
  <2>1. PICK x : Leads(AccountSteps(v), AccountPart(v, row), unread, x) /\ AccountTold(v, x)
    BY <1>1 DEF AccountFollowed
  <2>2. x = AccountPart(v, row)
    BY <1>3, <2>1, LeadsNone DEF CaughtUp
  <2> QED  BY <2>1, <2>2
<1>4. ASSUME CaughtUp, v = "address_book", ~redelivered PROVE BookTold(row)
  <2>1. PICK r : Leads(BookSteps, row, unread, r) /\ BookTold(r)
    BY <1>1, <1>4 DEF AccountFollowed
  <2>2. r = row
    BY <1>4, <2>1, LeadsNone DEF CaughtUp
  <2> QED  BY <2>1, <2>2
<1>5. ASSUME CaughtUp, v = "address_book" PROVE BookFollows
  <2>1. row \in Seq(BookEntry) /\ DOMAIN row = 1..Len(row)
    BY <1>1, <1>5 DEF AccountFollowed, AccountRows
  <2>2. ListedIn(row) = Kept /\ MarkedIn(row) \subseteq Defaults
    BY <1>3, <1>5 DEF AccountTold, AccountPart
  <2>3. \A k \in 1..Len(row) : row[k].address_id \in AddressIds
    <3>1. \A k \in 1..Len(row) : row[k] \in BookEntry
      BY <2>1
    <3> QED  BY <3>1 DEF BookEntry
  <2>4. {row[k].address_id : k \in DOMAIN row} = Kept
    BY <2>1, <2>2, <2>3 DEF ListedIn, Entries
  <2>5. \A k \in DOMAIN row : row[k].is_default => row[k].address_id \in Defaults
    BY <2>1, <2>2, <2>3 DEF MarkedIn, Entries
  <2>6. ~redelivered =>
          /\ Len(row) = Cardinality(Kept)
          /\ \A k \in DOMAIN row : row[k].street = addresses[row[k].address_id].street
    BY <1>4, <1>5, <2>1 DEF BookTold
  <2> QED  BY <2>4, <2>5, <2>6 DEF BookFollows
<1>6. ASSUME CaughtUp, v # "address_book" PROVE AccountTold(v, row)
  BY <1>3, <1>6 DEF AccountPart
<1> QED  BY <1>1, <1>2, <1>5, <1>6 DEF AccountFollows, AccountTold, AccountViews, CardFollows,
           SuspensionFollows

(* However commands interleave with the projectors, and although one event *)
(* may be handled twice, a customer who has addresses has one default      *)
(* address, and the customer card, the segments, the address book and      *)
(* Ordering's list of suspended accounts say of the customer what is true, *)
(* once they caught up (identity/customer/customer.py,                     *)
(* identity/projections, ordering/order/identity_events.py).               *)
THEOREM AccountIsShown == AccountsSpec => []AccountFollows
<1>1. AccountsSpec => []AccountViewInv
  BY AccountStart, AccountStep, PTL DEF AccountsSpec
<1> QED  BY <1>1, AccountViewTells, PTL

------------------------------------------------------------------------------
(***************************************************************************)
(* The projections of a parcel.  Those that show it are as if every event  *)
(* had been handled once; those that count agree, while that is so, with   *)
(* the events that were acknowledged: c counts those, and d all that the   *)
(* parcel raised.                                                          *)
(***************************************************************************)
ParcelEvent == [type : Parcel!EventType, day : ParcelDays, status : Scans \cup {"none"}]

ShowingViews == {"fulfillment_status", "shipment_tracking", "warehouse_queue"}

(* What the tracking row may say, and all that the row of a view shows but *)
(* the entries of its log.                                                 *)
Texts == Scans \cup Parcel!FulfillmentStatus \cup {"none"}

ShownRow(v, r) == IF v = "shipment_tracking" THEN r.current_status ELSE r

ParcelShown(v) ==
  CASE v = "fulfillment_status" ->
         [status : Parcel!FulfillmentStatus \cup {"None"}, carrier : BOOLEAN,
          tracking_number : BOOLEAN]
    [] v = "shipment_tracking" -> Texts
    [] v = "warehouse_queue" -> Parcel!FulfillmentStatus \cup {"none", "Packed"}

TextAfter(x, e) ==
  IF e.type = "ShipmentHandedOff" THEN "Shipped"
  ELSE IF e.type \in Parcel!CarrierReports THEN Parcel!Reported(e) ELSE x

ParcelShownAfter(v, x, e) ==
  CASE v = "fulfillment_status" -> Parcel!on_fulfillment_status(x, e)
    [] v = "shipment_tracking" -> TextAfter(x, e)
    [] v = "warehouse_queue" -> Parcel!on_warehouse_queue(x, e)

ParcelSteps(v) ==
  {t \in ParcelShown(v) \X ParcelEvent \X ParcelShown(v) : t[3] = ParcelShownAfter(v, t[1], t[2])}

(* The log of the tracking row, which has an entry again for an event that *)
(* is handled again.                                                       *)
TrackingRow == [current_status : Texts, events : Seq(Texts)]

LogAfter(x, e) ==
  IF e.type = "ShipmentHandedOff" THEN << >>
  ELSE IF e.type \in Parcel!CarrierReports THEN Append(x, Parcel!Reported(e)) ELSE x

LogSteps == {t \in Seq(Texts) \X ParcelEvent \X Seq(Texts) : t[3] = LogAfter(t[1], t[2])}

Happenings == {"created", "shipped", "delivered", "exceptions"}

Counts == [Happenings -> Nat]

CountsAfter(c, e) ==
  IF e.type \in DOMAIN Parcel!Counted THEN [c EXCEPT ![Parcel!Counted[e.type]] = @ + 1] ELSE c

CountSteps == {t \in Counts \X ParcelEvent \X Counts : t[3] = CountsAfter(t[1], t[2])}

(* What the projections are to say in the end.                             *)
ParcelTold(v, x) ==
  CASE v = "fulfillment_status" ->
         /\ x.status = parcel_status
         /\ x.carrier <=> "carrier" \in parcel_shipment
         /\ x.tracking_number <=> "tracking_number" \in parcel_shipment
    [] v = "shipment_tracking" ->
         x = IF parcel_status = "In_Transit" THEN tracking_events[Len(tracking_events)]
             ELSE IF parcel_status \in Parcel!AtCarrier THEN parcel_status ELSE "none"
    [] v = "warehouse_queue" ->
         x = IF parcel_status = "None" THEN "none"
             ELSE IF parcel_status \in Parcel!AtCarrier THEN "Shipped"
             ELSE IF (parcel_status = "Packing" /\ parcel_packed) \/ parcel_status = "Ready_To_Ship"
                  THEN "Packed"
             ELSE parcel_status

SameEntry(shown, logged) == shown = logged \/ (shown = "Exception" /\ logged = "EXCEPTION")

LogTold(x) ==
  /\ Len(x) = Len(tracking_events) + (IF parcel_status = "Delivered" THEN 1 ELSE 0)
  /\ \A k \in 1..Len(tracking_events) : SameEntry(x[k], tracking_events[k])
  /\ x # << >> => ParcelTold("shipment_tracking", x[Len(x)])

(* Nothing is tracked before the carrier's first scan: the row's log may   *)
(* begin with the handoff.                                                 *)
Tracked ==
  /\ tracking_events \in Seq(Scans \cup {"EXCEPTION"})
  /\ parcel_status \notin {"In_Transit", "Exception", "Delivered"} => tracking_events = << >>

Happened(d) ==
  /\ d["created"] = (IF parcel_status # "None" THEN 1 ELSE 0)
  /\ d["shipped"] = (IF parcel_status \in Parcel!AtCarrier THEN 1 ELSE 0)
  /\ d["delivered"] = (IF parcel_status = "Delivered" THEN 1 ELSE 0)
  /\ d["exceptions"] = exceptions

DailyTold(r, c) ==
  /\ r \in [ParcelDays -> Counts]
  /\ \A h \in Happenings : Sums(ParcelDays, [d \in ParcelDays |-> r[d][h]], c[h])

ParcelKeys == Parcel!Carriers \X ParcelDays

(* The field h of the rows in S adds up to n.                              *)
Column(S, r, h, n) == Sums(S, [k \in S |-> r[k][h]], n)

PerformanceTold(r, c) ==
  /\ r \in [ParcelKeys -> [{"shipped", "delivered", "exceptions"} -> Nat]]
  /\ Column({"own"} \X ParcelDays, r, "shipped", c["shipped"])
  /\ \A h \in {"delivered", "exceptions"} : \E n \in 0..c[h] : Column(ParcelKeys, r, h, n)

ParcelViewInv ==
  /\ ParcelInv /\ view \in Parcel!ParcelViewNames
  /\ exceptions \in Nat /\ day \in ParcelDays /\ unread \in Seq(ParcelEvent)
  /\ Tracked
  /\ view \in ShowingViews =>
       /\ ShownRow(view, row) \in ParcelShown(view)
       /\ \E x \in ParcelShown(view) :
            Leads(ParcelSteps(view), ShownRow(view, row), unread, x) /\ ParcelTold(view, x)
  /\ view = "shipment_tracking" =>
       /\ row \in TrackingRow
       /\ ~redelivered => \E x \in Seq(Texts) : Leads(LogSteps, row.events, unread, x) /\ LogTold(x)
  /\ ~redelivered =>
       \E c, d \in Counts :
         /\ Leads(CountSteps, c, unread, d) /\ Happened(d)
         /\ view = "daily_shipments" => DailyTold(row, c)
         /\ view = "delivery_performance" => PerformanceTold(row, c)

------------------------------------------------------------------------------
(* What each event says of the parcel's step.                              *)
ParcelMoved(t) ==
  /\ \/ t = "FulfillmentCreated" /\ parcel_status = "None" /\ parcel_status' = "Pending"
     \/ t = "PickerAssigned" /\ parcel_status = "Pending" /\ parcel_status' = "Picking"
     \/ t = "ItemPicked" /\ parcel_status = "Picking" /\ parcel_status' = "Picking"
     \/ t = "PickingCompleted" /\ parcel_status = "Picking" /\ parcel_status' = "Packing"
     \/ t = "PackingCompleted" /\ parcel_status = "Packing" /\ parcel_status' = "Packing"
     \/ t = "ShippingLabelGenerated" /\ parcel_status = "Packing"
        /\ parcel_status' = "Ready_To_Ship"
     \/ t = "ShipmentHandedOff" /\ parcel_status = "Ready_To_Ship" /\ parcel_status' = "Shipped"
     \/ t = "TrackingEventReceived" /\ parcel_status \in {"Shipped", "In_Transit", "Exception"}
        /\ parcel_status' = "In_Transit"
     \/ t = "DeliveryConfirmed" /\ parcel_status \in {"In_Transit", "Exception"}
        /\ parcel_status' = "Delivered"
     \/ t = "DeliveryException" /\ parcel_status = "In_Transit" /\ parcel_status' = "Exception"
     \/ t = "FulfillmentCancelled" /\ parcel_status \in Parcel!CancellableStatuses
        /\ parcel_status' = "Cancelled"
  /\ parcel_packed' <=> parcel_packed \/ t = "PackingCompleted"
  /\ "carrier" \in parcel_shipment' <=>
       "carrier" \in parcel_shipment \/ t \in {"ShippingLabelGenerated", "ShipmentHandedOff"}
  /\ "tracking_number" \in parcel_shipment' <=>
       "tracking_number" \in parcel_shipment \/ t = "ShipmentHandedOff"

LEMMA ParcelMoves ==
  ASSUME ParcelInv, Parcel!Next
  PROVE  \E t \in Parcel!EventType : parcel_raised' = <<t>> /\ ParcelMoved(t)
<1> USE DEF ParcelInv, Parcel!TypeOK, Parcel!EventType, Parcel!AtCarrier,
            Parcel!Raise, Parcel!MoveTo, ParcelMoved
<1>s. parcel_status \in Parcel!FulfillmentStatus \cup {"None"}
  OBVIOUS
<1>1. CASE Parcel!CreateFulfillment
  BY <1>1 DEF Parcel!CreateFulfillment, Parcel!create
<1>2. CASE Parcel!AssignPicker
  BY <1>2, <1>s, ParcelSources DEF Parcel!AssignPicker, Parcel!assign_picker
<1>3. CASE Parcel!RecordItemPicked
  BY <1>3 DEF Parcel!RecordItemPicked, Parcel!record_item_picked
<1>4. CASE Parcel!CompletePickList
  BY <1>4 DEF Parcel!CompletePickList, Parcel!complete_pick_list
<1>5. CASE Parcel!RecordPacking
  BY <1>5 DEF Parcel!RecordPacking, Parcel!record_packing
<1>6. CASE Parcel!GenerateShippingLabel
  BY <1>6 DEF Parcel!GenerateShippingLabel, Parcel!generate_shipping_label
<1>7. CASE Parcel!RecordHandoff
  BY <1>7, <1>s, ParcelSources DEF Parcel!RecordHandoff, Parcel!record_handoff
<1>8. CASE Parcel!UpdateTrackingEvent
  BY <1>8 DEF Parcel!UpdateTrackingEvent, Parcel!add_tracking_event
<1>9. CASE Parcel!RecordDeliveryConfirmation
  BY <1>9, <1>s, ParcelSources DEF Parcel!RecordDeliveryConfirmation, Parcel!record_delivery
<1>10. CASE Parcel!RecordDeliveryException
  BY <1>10, <1>s, ParcelSources DEF Parcel!RecordDeliveryException, Parcel!record_exception
<1>11. CASE Parcel!CancelFulfillment
  BY <1>11 DEF Parcel!CancelFulfillment, Parcel!cancel
<1> QED
  BY <1>1, <1>2, <1>3, <1>4, <1>5, <1>6, <1>7, <1>8, <1>9, <1>10, <1>11, Zenon DEF Parcel!Next

(* An event is published that takes what is to be said along with the      *)
(* parcel.                                                                 *)
LEMMA StatusAfterIs ==
  /\ DOMAIN Parcel!StatusAfterEvent =
       {"FulfillmentCreated", "PickerAssigned", "PickingCompleted", "ShippingLabelGenerated",
        "ShipmentHandedOff", "TrackingEventReceived", "DeliveryConfirmed", "DeliveryException",
        "FulfillmentCancelled"}
  /\ Parcel!StatusAfterEvent["FulfillmentCreated"] = "Pending"
  /\ Parcel!StatusAfterEvent["PickerAssigned"] = "Picking"
  /\ Parcel!StatusAfterEvent["PickingCompleted"] = "Packing"
  /\ Parcel!StatusAfterEvent["ShippingLabelGenerated"] = "Ready_To_Ship"
  /\ Parcel!StatusAfterEvent["ShipmentHandedOff"] = "Shipped"
  /\ Parcel!StatusAfterEvent["TrackingEventReceived"] = "In_Transit"
  /\ Parcel!StatusAfterEvent["DeliveryConfirmed"] = "Delivered"
  /\ Parcel!StatusAfterEvent["DeliveryException"] = "Exception"
  /\ Parcel!StatusAfterEvent["FulfillmentCancelled"] = "Cancelled"
  BY DEF Parcel!StatusAfterEvent

LEMMA MovedTo ==
  ASSUME NEW t, ParcelMoved(t)
  PROVE  parcel_status' = IF t \in DOMAIN Parcel!StatusAfterEvent
                          THEN Parcel!StatusAfterEvent[t] ELSE parcel_status
  BY StatusAfterIs DEF ParcelMoved

(* What the view of the status holds after an event.                       *)
LEMMA StatusRowIs ==
  ASSUME NEW x, NEW e,
         x \in [status : Parcel!FulfillmentStatus \cup {"None"}, carrier : BOOLEAN,
                tracking_number : BOOLEAN]
  PROVE  LET z == Parcel!on_fulfillment_status(x, e) IN
         /\ z \in [status : Parcel!FulfillmentStatus \cup {"None"}, carrier : BOOLEAN,
                   tracking_number : BOOLEAN]
         /\ z.status = IF e.type \in DOMAIN Parcel!StatusAfterEvent
                       THEN Parcel!StatusAfterEvent[e.type] ELSE x.status
         /\ z.carrier <=> x.carrier \/ e.type \in {"ShippingLabelGenerated", "ShipmentHandedOff"}
         /\ z.tracking_number <=> x.tracking_number \/ e.type = "ShipmentHandedOff"
<1> PICK z : z = Parcel!on_fulfillment_status(x, e)
  OBVIOUS
<1> PICK s : s = IF e.type \in DOMAIN Parcel!StatusAfterEvent
                 THEN Parcel!StatusAfterEvent[e.type] ELSE x.status
  OBVIOUS
<1>1. s \in Parcel!FulfillmentStatus \cup {"None"}
  BY StatusAfterIs DEF Parcel!FulfillmentStatus
<1>2. CASE e.type \notin DOMAIN Parcel!StatusAfterEvent
  <2>1. z = x
    BY <1>2, StatusAfterIs DEF Parcel!on_fulfillment_status
  <2> QED  BY <1>2, <2>1, StatusAfterIs
<1>3. CASE e.type = "ShippingLabelGenerated"
  <2>1. z = [x EXCEPT !.status = "Ready_To_Ship", !.carrier = TRUE]
    BY <1>3, StatusAfterIs DEF Parcel!on_fulfillment_status
  <2>2. z = [status |-> "Ready_To_Ship", carrier |-> TRUE, tracking_number |-> x.tracking_number]
    BY <2>1
  <2> QED  BY <1>3, <2>2, StatusAfterIs DEF Parcel!FulfillmentStatus
<1>4. CASE e.type = "ShipmentHandedOff"
  <2>1. z = [x EXCEPT !.status = "Shipped", !.carrier = TRUE, !.tracking_number = TRUE]
    BY <1>4, StatusAfterIs DEF Parcel!on_fulfillment_status
  <2>2. z = [status |-> "Shipped", carrier |-> TRUE, tracking_number |-> TRUE]
    BY <2>1
  <2> QED  BY <1>4, <2>2, StatusAfterIs DEF Parcel!FulfillmentStatus
<1>5. CASE /\ e.type \in DOMAIN Parcel!StatusAfterEvent
           /\ e.type \notin {"ShippingLabelGenerated", "ShipmentHandedOff"}
  <2>1. z = [x EXCEPT !.status = s]
    BY <1>5, Zenon DEF Parcel!on_fulfillment_status
  <2> QED  BY <1>1, <1>5, <2>1
<1> QED  BY <1>2, <1>3, <1>4, <1>5

LEMMA ShownTells ==
  ASSUME NEW v \in ShowingViews, ParcelInv, ParcelInv', NEW e \in ParcelEvent,
         ParcelMoved(e.type), NEW x \in ParcelShown(v), ParcelTold(v, x),
         parcel_status' = "In_Transit" => tracking_events'[Len(tracking_events')] = e.status
  PROVE  /\ ParcelShownAfter(v, x, e) \in ParcelShown(v)
         /\ ParcelTold(v, ParcelShownAfter(v, x, e))'
<1> PICK t \in Parcel!EventType : t = e.type
  BY DEF ParcelEvent
<1>m. ParcelMoved(t)
  OBVIOUS
<1>p. parcel_packed => parcel_status \notin {"None", "Pending", "Picking"}
  BY DEF ParcelInv
<1>1. CASE v = "fulfillment_status"
  <2>1. x \in [status : Parcel!FulfillmentStatus \cup {"None"}, carrier : BOOLEAN,
               tracking_number : BOOLEAN]
    BY <1>1 DEF ParcelShown
  <2> PICK z : z = Parcel!on_fulfillment_status(x, e)
    OBVIOUS
  <2>2. /\ z \in [status : Parcel!FulfillmentStatus \cup {"None"}, carrier : BOOLEAN,
                  tracking_number : BOOLEAN]
        /\ z.status = parcel_status'
        /\ z.carrier <=> x.carrier \/ t \in {"ShippingLabelGenerated", "ShipmentHandedOff"}
        /\ z.tracking_number <=> x.tracking_number \/ t = "ShipmentHandedOff"
    <3>1. x.status = parcel_status
      BY <1>1 DEF ParcelTold
    <3> QED  BY <1>m, <2>1, <3>1, MovedTo, StatusRowIs
  <2>3. /\ x.carrier <=> "carrier" \in parcel_shipment
        /\ x.tracking_number <=> "tracking_number" \in parcel_shipment
    BY <1>1 DEF ParcelTold
  <2>4. ParcelTold(v, z)' /\ z \in ParcelShown(v)
    BY <1>1, <1>m, <2>2, <2>3 DEF ParcelTold, ParcelShown, ParcelMoved
  <2> QED  BY <1>1, <2>4, Zenon DEF ParcelShownAfter
<1>2. CASE v = "shipment_tracking"
  <2>1. ParcelShownAfter(v, x, e) = TextAfter(x, e)
    BY <1>2, Zenon DEF ParcelShownAfter
  <2>2. TextAfter(x, e) = CASE t = "ShipmentHandedOff" -> "Shipped"
                            [] t = "TrackingEventReceived" -> e.status
                            [] t = "DeliveryConfirmed" -> "Delivered"
                            [] t = "DeliveryException" -> "Exception"
                            [] OTHER -> x
    BY StatusAfterIs DEF TextAfter, Parcel!CarrierReports, Parcel!Reported
  <2>3. x \in Texts /\ e.status \in Texts
    BY <1>2 DEF ParcelShown, ParcelEvent, Texts
  <2>4. TextAfter(x, e) \in Texts
    BY <2>2, <2>3 DEF Texts, Parcel!FulfillmentStatus
  <2>5. x = IF parcel_status = "In_Transit" THEN tracking_events[Len(tracking_events)]
            ELSE IF parcel_status \in Parcel!AtCarrier THEN parcel_status ELSE "none"
    BY <1>2 DEF ParcelTold
  <2> PICK last : last = tracking_events'[Len(tracking_events')]
    OBVIOUS
  <2>6. TextAfter(x, e) = IF parcel_status' = "In_Transit" THEN last
                          ELSE IF parcel_status' \in Parcel!AtCarrier THEN parcel_status'
                          ELSE "none"
    BY <1>m, <2>2, <2>5 DEF ParcelMoved, Parcel!AtCarrier, Parcel!CancellableStatuses
  <2>7. ParcelTold(v, TextAfter(x, e))'
    BY <1>2, <2>6 DEF ParcelTold, Parcel!AtCarrier, TextAfter
  <2> QED  BY <1>2, <2>1, <2>4, <2>7 DEF ParcelShown
<1>3. CASE v = "warehouse_queue"
  <2>1. ParcelShownAfter(v, x, e) = Parcel!on_warehouse_queue(x, e)
    BY <1>3, Zenon DEF ParcelShownAfter
  <2> PICK z : z = Parcel!on_warehouse_queue(x, e)
    OBVIOUS
  <2>2. z = CASE t = "PackingCompleted" -> "Packed"
              [] t = "FulfillmentCreated" -> "Pending"
              [] t = "PickerAssigned" -> "Picking"
              [] t = "PickingCompleted" -> "Packing"
              [] t = "ShipmentHandedOff" -> "Shipped"
              [] t = "FulfillmentCancelled" -> "Cancelled"
              [] OTHER -> x
    BY StatusAfterIs DEF Parcel!on_warehouse_queue
  <2>3. x = IF parcel_status = "None" THEN "none"
            ELSE IF parcel_status \in Parcel!AtCarrier THEN "Shipped"
            ELSE IF (parcel_status = "Packing" /\ parcel_packed) \/ parcel_status = "Ready_To_Ship"
                 THEN "Packed"
            ELSE parcel_status
    BY <1>3 DEF ParcelTold
  <2>4. t = "ShippingLabelGenerated" => parcel_packed
    <3>1. parcel_status' \in {"Ready_To_Ship"} \cup Parcel!AtCarrier => parcel_packed'
      BY DEF ParcelInv, Parcel!AtCarrier
    <3> QED  BY <1>m, <3>1 DEF ParcelMoved
  <2>5. z = IF parcel_status' = "None" THEN "none"
            ELSE IF parcel_status' \in Parcel!AtCarrier THEN "Shipped"
            ELSE IF (parcel_status' = "Packing" /\ parcel_packed')
                    \/ parcel_status' = "Ready_To_Ship"
                 THEN "Packed"
            ELSE parcel_status'
    BY <1>m, <1>p, <2>2, <2>3, <2>4 DEF ParcelMoved, Parcel!AtCarrier, Parcel!CancellableStatuses
  <2>6. z \in Parcel!FulfillmentStatus \cup {"none", "Packed"}
    <3>1. x \in Parcel!FulfillmentStatus \cup {"none", "Packed"}
      BY <1>3 DEF ParcelShown
    <3> QED  BY <2>2, <3>1 DEF Parcel!FulfillmentStatus
  <2>7. ParcelTold(v, z)' /\ z \in ParcelShown(v)
    BY <1>3, <2>5, <2>6 DEF ParcelTold, ParcelShown, Parcel!AtCarrier
  <2> QED  BY <2>1, <2>7, Zenon
<1> QED  BY <1>1, <1>2, <1>3 DEF ShowingViews

(* What happened is counted.                                               *)
LEMMA CountsOf ==
  ASSUME NEW c \in Counts, NEW e \in ParcelEvent
  PROVE  /\ CountsAfter(c, e) \in Counts
         /\ \A h \in Happenings :
              CountsAfter(c, e)[h] =
                IF e.type \in DOMAIN Parcel!Counted /\ h = Parcel!Counted[e.type]
                THEN c[h] + 1 ELSE c[h]
<1>1. ASSUME e.type \in DOMAIN Parcel!Counted PROVE Parcel!Counted[e.type] \in Happenings
  BY <1>1 DEF Parcel!Counted, Happenings
<1>2. CASE e.type \in DOMAIN Parcel!Counted
  <2> PICK g \in Happenings : g = Parcel!Counted[e.type]
    BY <1>1, <1>2
  <2>1. CountsAfter(c, e) = [c EXCEPT ![g] = @ + 1]
    BY <1>2 DEF CountsAfter
  <2> QED  BY <1>2, <2>1 DEF Counts
<1>3. CASE e.type \notin DOMAIN Parcel!Counted
  BY <1>3 DEF CountsAfter
<1> QED  BY <1>2, <1>3

LEMMA CountedIs ==
  /\ DOMAIN Parcel!Counted = {"FulfillmentCreated", "ShipmentHandedOff", "DeliveryConfirmed",
                              "DeliveryException"}
  /\ Parcel!Counted["FulfillmentCreated"] = "created"
  /\ Parcel!Counted["ShipmentHandedOff"] = "shipped"
  /\ Parcel!Counted["DeliveryConfirmed"] = "delivered"
  /\ Parcel!Counted["DeliveryException"] = "exceptions"
  BY DEF Parcel!Counted

LEMMA CountTells ==
  ASSUME exceptions \in Nat, NEW e \in ParcelEvent, ParcelMoved(e.type),
         exceptions' = exceptions + (IF parcel_status' = "Exception" THEN 1 ELSE 0),
         NEW d \in Counts, Happened(d)
  PROVE  Happened(CountsAfter(d, e))'
<1> PICK t : t = e.type
  OBVIOUS
<1>m. ParcelMoved(t)
  OBVIOUS
<1> PICK z : z = CountsAfter(d, e)
  OBVIOUS
<1>1. /\ z["created"] = IF t = "FulfillmentCreated" THEN d["created"] + 1 ELSE d["created"]
      /\ z["shipped"] = IF t = "ShipmentHandedOff" THEN d["shipped"] + 1 ELSE d["shipped"]
      /\ z["delivered"] = IF t = "DeliveryConfirmed" THEN d["delivered"] + 1 ELSE d["delivered"]
      /\ z["exceptions"] = IF t = "DeliveryException" THEN d["exceptions"] + 1
                           ELSE d["exceptions"]
  BY CountsOf, CountedIs DEF Happenings
<1>2. /\ d["created"] = (IF parcel_status # "None" THEN 1 ELSE 0)
      /\ d["shipped"] = (IF parcel_status \in Parcel!AtCarrier THEN 1 ELSE 0)
      /\ d["delivered"] = (IF parcel_status = "Delivered" THEN 1 ELSE 0)
      /\ d["exceptions"] = exceptions
  BY DEF Happened
<1>3. /\ z["created"] = (IF parcel_status' # "None" THEN 1 ELSE 0)
      /\ z["shipped"] = (IF parcel_status' \in Parcel!AtCarrier THEN 1 ELSE 0)
      /\ z["delivered"] = (IF parcel_status' = "Delivered" THEN 1 ELSE 0)
      /\ z["exceptions"] = exceptions'
  BY <1>1, <1>2, <1>m DEF ParcelMoved, Parcel!AtCarrier, Parcel!CancellableStatuses
<1>4. Happened(z)'
  BY <1>3 DEF Happened, Parcel!AtCarrier
<1> QED  BY <1>4

(* What is reported is a text, and both parts of the tracking row follow.  *)
LEMMA ReportedText ==
  ASSUME NEW e \in ParcelEvent
  PROVE  e.type \in Parcel!CarrierReports => Parcel!Reported(e) \in Texts
<1>1. e.status \in Scans \cup {"none"}
  BY DEF ParcelEvent
<1> QED  BY <1>1, StatusAfterIs DEF Parcel!CarrierReports, Parcel!Reported, Texts,
            Parcel!FulfillmentStatus

LEMMA LogGrows ==
  ASSUME NEW x \in Seq(Texts), NEW e \in ParcelEvent
  PROVE  LogAfter(x, e) \in Seq(Texts)
<1>1. CASE e.type \in Parcel!CarrierReports
  <2> PICK y \in Texts : y = Parcel!Reported(e)
    BY <1>1, ReportedText
  <2> QED  BY DEF LogAfter
<1> QED  BY <1>1 DEF LogAfter

LEMMA TrackingRowIs ==
  ASSUME NEW r \in TrackingRow, NEW e \in ParcelEvent
  PROVE  /\ Parcel!on_shipment_tracking(r, e) \in TrackingRow
         /\ Parcel!on_shipment_tracking(r, e).current_status = TextAfter(r.current_status, e)
         /\ Parcel!on_shipment_tracking(r, e).events = LogAfter(r.events, e)
<1> PICK z : z = Parcel!on_shipment_tracking(r, e)
  OBVIOUS
<1> PICK x, l : x = TextAfter(r.current_status, e) /\ l = LogAfter(r.events, e)
  OBVIOUS
<1>1. r.current_status \in Texts /\ r.events \in Seq(Texts)
  BY DEF TrackingRow
<1>2. x \in Texts /\ l \in Seq(Texts)
  BY <1>1, ReportedText, LogGrows DEF TextAfter, Texts, Parcel!FulfillmentStatus
<1>3. z = [current_status |-> x, events |-> l]
  <2>1. CASE e.type = "ShipmentHandedOff"
    <3>1. x = "Shipped" /\ l = << >>
      BY <2>1 DEF TextAfter, LogAfter
    <3>2. z = [current_status |-> "Shipped", events |-> << >>]
      BY <2>1, Zenon DEF Parcel!on_shipment_tracking, Parcel!CarrierReports
    <3> QED  BY <3>1, <3>2, Zenon
  <2>2. CASE e.type # "ShipmentHandedOff" /\ e.type \in Parcel!CarrierReports
    <3>1. /\ x = Parcel!Reported(e) /\ l = Append(r.events, Parcel!Reported(e))
          /\ z = [current_status |-> Parcel!Reported(e),
                  events |-> Append(r.events, Parcel!Reported(e))]
      BY <2>2, Zenon DEF Parcel!on_shipment_tracking, TextAfter, LogAfter
    <3> QED  BY <3>1, Zenon
  <2>3. CASE e.type # "ShipmentHandedOff" /\ e.type \notin Parcel!CarrierReports
    <3>1. z = r /\ x = r.current_status /\ l = r.events
      BY <2>3, Zenon DEF Parcel!on_shipment_tracking, TextAfter, LogAfter
    <3> QED  BY <3>1 DEF TrackingRow
  <2> QED  BY <2>1, <2>2, <2>3
<1> QED  BY <1>2, <1>3 DEF TrackingRow

(* The row's log and the fulfillment's are written to alike.               *)
LEMMA LogTells ==
  ASSUME Tracked, NEW e \in ParcelEvent, ParcelMoved(e.type), NEW scan \in Scans,
         e.status = (IF e.type = "TrackingEventReceived" THEN scan ELSE "none"),
         tracking_events' = Parcel!Logged(scan)
  PROVE  /\ Tracked'
         /\ parcel_status' = "In_Transit" => tracking_events'[Len(tracking_events')] = e.status
         /\ \A x \in Seq(Texts) : LogTold(x) => LogTold(LogAfter(x, e))'
<1> PICK t, s : t = e.type /\ s = e.status
  OBVIOUS
<1> DEFINE Worded == Scans \cup {"EXCEPTION"}
<1> PICK old \in Seq(Worded) : old = tracking_events
  BY DEF Tracked
<1> PICK new : new = tracking_events'
  OBVIOUS
<1>m. ParcelMoved(t)
  OBVIOUS
<1>o. parcel_status \notin {"In_Transit", "Exception", "Delivered"} => old = << >>
  BY DEF Tracked
<1>1. CASE t = "TrackingEventReceived"
  <2>1. parcel_status' = "In_Transit" /\ parcel_status # "Delivered" /\ s = scan
    BY <1>1, <1>m DEF ParcelMoved
  <2>2. new = Append(old, scan)
    BY <2>1 DEF Parcel!Logged
  <2>3. /\ new \in Seq(Worded) /\ Len(new) = Len(old) + 1 /\ new[Len(new)] = scan
        /\ \A k \in 1..Len(old) : new[k] = old[k]
    BY <2>2
  <2>4. ASSUME NEW x \in Seq(Texts), LogTold(x) PROVE LogTold(LogAfter(x, e))'
    <3> PICK z : z = LogAfter(x, e)
      OBVIOUS
    <3>1. z = Append(x, scan) /\ scan \in Texts
      BY <1>1, <2>1 DEF LogAfter, Parcel!CarrierReports, Parcel!Reported, Texts
    <3>2. /\ Len(z) = Len(x) + 1 /\ z[Len(x) + 1] = scan /\ \A k \in 1..Len(x) : z[k] = x[k]
      BY <3>1
    <3>3. /\ Len(x) = Len(old)
          /\ \A k \in 1..Len(old) : SameEntry(x[k], old[k])
      BY <2>1, <2>4 DEF LogTold
    <3>4. /\ Len(z) = Len(new)
          /\ \A k \in 1..Len(new) : SameEntry(z[k], new[k])
          /\ z[Len(z)] = new[Len(new)]
      BY <2>3, <3>2, <3>3 DEF SameEntry
    <3>5. LogTold(z)'
      BY <2>1, <3>4 DEF LogTold, ParcelTold
    <3> QED  BY <3>5, Zenon
  <2> QED  BY <2>1, <2>3, <2>4 DEF Tracked
<1>2. CASE t = "DeliveryException"
  <2>1. parcel_status' = "Exception" /\ parcel_status # "Delivered"
    BY <1>2, <1>m DEF ParcelMoved
  <2>2. new = Append(old, "EXCEPTION")
    BY <2>1 DEF Parcel!Logged
  <2>3. /\ new \in Seq(Worded) /\ Len(new) = Len(old) + 1 /\ new[Len(old) + 1] = "EXCEPTION"
        /\ \A k \in 1..Len(old) : new[k] = old[k]
    BY <2>2
  <2>4. ASSUME NEW x \in Seq(Texts), LogTold(x) PROVE LogTold(LogAfter(x, e))'
    <3> PICK z : z = LogAfter(x, e)
      OBVIOUS
    <3>1. z = Append(x, "Exception") /\ "Exception" \in Texts
      BY <1>2, StatusAfterIs DEF LogAfter, Parcel!CarrierReports, Parcel!Reported, Texts,
         Parcel!FulfillmentStatus
    <3>2. /\ Len(z) = Len(x) + 1 /\ z[Len(x) + 1] = "Exception"
          /\ \A k \in 1..Len(x) : z[k] = x[k]
      BY <3>1
    <3>3. /\ Len(x) = Len(old)
          /\ \A k \in 1..Len(old) : SameEntry(x[k], old[k])
      BY <2>1, <2>4 DEF LogTold
    <3>4. /\ Len(z) = Len(new)
          /\ \A k \in 1..Len(new) : SameEntry(z[k], new[k])
          /\ z[Len(z)] = "Exception"
      BY <2>3, <3>2, <3>3 DEF SameEntry
    <3>5. LogTold(z)'
      BY <2>1, <3>4 DEF LogTold, ParcelTold, Parcel!AtCarrier
    <3> QED  BY <3>5, Zenon
  <2> QED  BY <2>1, <2>3, <2>4 DEF Tracked
<1>3. CASE t = "DeliveryConfirmed"
  <2>1. parcel_status' = "Delivered" /\ parcel_status # "Delivered"
    BY <1>3, <1>m DEF ParcelMoved
  <2>2. new = old
    BY <2>1 DEF Parcel!Logged
  <2>3. ASSUME NEW x \in Seq(Texts), LogTold(x) PROVE LogTold(LogAfter(x, e))'
    <3> PICK z : z = LogAfter(x, e)
      OBVIOUS
    <3>1. z = Append(x, "Delivered") /\ "Delivered" \in Texts
      BY <1>3, StatusAfterIs DEF LogAfter, Parcel!CarrierReports, Parcel!Reported, Texts,
         Parcel!FulfillmentStatus
    <3>2. /\ Len(z) = Len(x) + 1 /\ z[Len(x) + 1] = "Delivered"
          /\ \A k \in 1..Len(x) : z[k] = x[k]
      BY <3>1
    <3>3. /\ Len(x) = Len(old)
          /\ \A k \in 1..Len(old) : SameEntry(x[k], old[k])
      BY <2>1, <2>3 DEF LogTold
    <3>4. /\ Len(z) = Len(new) + 1 /\ z[Len(z)] = "Delivered"
          /\ \A k \in 1..Len(new) : SameEntry(z[k], new[k])
      BY <2>2, <3>2, <3>3
    <3>5. LogTold(z)'
      BY <2>1, <3>4 DEF LogTold, ParcelTold, Parcel!AtCarrier
    <3> QED  BY <3>5, Zenon
  <2> QED  BY <2>1, <2>2, <2>3 DEF Tracked
<1>4. CASE t \notin {"TrackingEventReceived", "DeliveryException", "DeliveryConfirmed"}
  <2>1. /\ parcel_status \notin {"In_Transit", "Exception", "Delivered"}
        /\ parcel_status' \notin {"In_Transit", "Exception", "Delivered"}
    BY <1>4, <1>m DEF ParcelMoved, Parcel!CancellableStatuses
  <2>2. old = << >> /\ new = << >>
    BY <1>o, <2>1 DEF Parcel!Logged
  <2>3. ASSUME NEW x \in Seq(Texts), LogTold(x) PROVE LogTold(LogAfter(x, e))'
    <3> PICK z : z = LogAfter(x, e)
      OBVIOUS
    <3>1. Len(x) = 0
      <4>1. Len(x) = Len(tracking_events) + (IF parcel_status = "Delivered" THEN 1 ELSE 0)
        BY <2>3, Zenon DEF LogTold
      <4>2. Len(tracking_events) = 0
        BY <2>2
      <4> QED  BY <2>1, <4>1, <4>2
    <3>2. x = << >>
      BY <3>1
    <3>3. z = << >>
      BY <1>4, <3>2 DEF LogAfter, Parcel!CarrierReports
    <3>4. LogTold(z)'
      BY <2>1, <2>2, <3>3 DEF LogTold
    <3> QED  BY <3>4, Zenon
  <2> QED  BY <2>1, <2>2, <2>3 DEF Tracked
<1> QED  BY <1>1, <1>2, <1>3, <1>4

LEMMA ParcelTells ==
  ASSUME ParcelViewInv, Parcel!ParcelCommand
  PROVE  ParcelViewInv'
<1> PICK v : v = view
  OBVIOUS
<1>1. /\ Parcel!Next /\ day' = day
      /\ exceptions' = exceptions + (IF parcel_status' = "Exception" THEN 1 ELSE 0)
  BY DEF Parcel!ParcelCommand
<1>s. PICK scan \in Scans :
        Parcel!Publish(Parcel!ParcelRaised(scan)) /\ tracking_events' = Parcel!Logged(scan)
  BY DEF Parcel!ParcelCommand
<1>2. /\ ParcelInv /\ v \in Parcel!ParcelViewNames
      /\ exceptions \in Nat /\ day \in ParcelDays /\ unread \in Seq(ParcelEvent)
      /\ Tracked
  BY DEF ParcelViewInv
<1>3. ParcelInv'
  BY <1>1, <1>2, ParcelStepKeeps
<1>4. PICK t \in Parcel!EventType : parcel_raised' = <<t>> /\ ParcelMoved(t)
  BY <1>1, <1>2, ParcelMoves
<1> PICK said \in Scans \cup {"none"} :
       said = IF t = "TrackingEventReceived" THEN scan ELSE "none"
  OBVIOUS
<1> PICK e : e = [type |-> t, day |-> day, status |-> said]
  OBVIOUS
<1>5. e \in ParcelEvent /\ e.type = t /\ e.status = said
  BY <1>2 DEF ParcelEvent
<1>6. Parcel!ParcelRaised(scan) = <<e>>
  <2>1. Parcel!ParcelRaised(scan) =
          [k \in 1..1 |-> [type |-> <<t>>[k], day |-> day,
                           status |-> IF <<t>>[k] = "TrackingEventReceived" THEN scan ELSE "none"]]
    BY <1>4 DEF Parcel!ParcelRaised
  <2>2. <<e>> = [k \in 1..1 |-> e]
    OBVIOUS
  <2>3. \A k \in 1..1 :
          [type |-> <<t>>[k], day |-> day,
           status |-> IF <<t>>[k] = "TrackingEventReceived" THEN scan ELSE "none"] = e
    OBVIOUS
  <2> QED  BY <2>1, <2>2, <2>3
<1>t. /\ Tracked'
      /\ parcel_status' = "In_Transit" => tracking_events'[Len(tracking_events')] = e.status
      /\ \A x \in Seq(Texts) : LogTold(x) => LogTold(LogAfter(x, e))'
  BY <1>s, <1>2, <1>4, <1>5, LogTells
<1>7. v # "none"
  BY <1>2 DEF Parcel!ParcelViewNames
<1>8. /\ view' = v /\ row' = row /\ redelivered' = redelivered
      /\ unread' = unread \o <<e>> /\ unread' \in Seq(ParcelEvent)
  <2>1. Parcel!Publish(<<e>>)
    BY <1>s, <1>6
  <2> QED  BY <1>2, <1>5, <1>7, <2>1 DEF Parcel!Publish
<1>r. ShownRow(v, row') = ShownRow(v, row)
  BY <1>8
<1>9. exceptions' \in Nat
  BY <1>1, <1>2
<1>10. ASSUME v \in ShowingViews
       PROVE  /\ ShownRow(v, row') \in ParcelShown(v)
              /\ \E x \in ParcelShown(v) :
                   Leads(ParcelSteps(v), ShownRow(v, row'), unread', x) /\ ParcelTold(v, x)'
  <2>1. PICK x \in ParcelShown(v) :
          Leads(ParcelSteps(v), ShownRow(v, row), unread, x) /\ ParcelTold(v, x)
    BY <1>10 DEF ParcelViewInv
  <2> PICK z : z = ParcelShownAfter(v, x, e)
    OBVIOUS
  <2>2. z \in ParcelShown(v) /\ ParcelTold(v, z)'
    <3>1. ParcelMoved(e.type)
      BY <1>4, <1>5
    <3>2. ParcelShownAfter(v, x, e) \in ParcelShown(v) /\ ParcelTold(v, ParcelShownAfter(v, x, e))'
      BY <1>2, <1>3, <1>5, <1>t, <1>10, <2>1, <3>1, ShownTells
    <3> QED  BY <3>2, Zenon
  <2>3. <<x, e, z>> \in ParcelSteps(v)
    BY <1>5, <2>2 DEF ParcelSteps
  <2>4. Leads(ParcelSteps(v), ShownRow(v, row), unread \o <<e>>, z)
    BY <1>2, <1>5, <2>1, <2>3, LeadsMore
  <2>5. ShownRow(v, row) \in ParcelShown(v)
    BY <1>10 DEF ParcelViewInv
  <2> QED  BY <1>8, <1>r, <2>2, <2>4, <2>5
<1>12. ASSUME v = "shipment_tracking", ~redelivered
       PROVE  \E x \in Seq(Texts) : Leads(LogSteps, row.events, unread', x) /\ LogTold(x)'
  <2>1. PICK x \in Seq(Texts) : Leads(LogSteps, row.events, unread, x) /\ LogTold(x)
    BY <1>12 DEF ParcelViewInv
  <2> PICK z \in Seq(Texts) : z = LogAfter(x, e)
    BY <1>5, LogGrows
  <2>2. LogTold(z)'
    <3>1. LogTold(LogAfter(x, e))'
      BY <1>t, <2>1
    <3> QED  BY <3>1, Zenon
  <2>3. <<x, e, z>> \in LogSteps
    BY <1>5 DEF LogSteps
  <2>4. Leads(LogSteps, row.events, unread \o <<e>>, z)
    BY <1>2, <1>5, <2>1, <2>3, LeadsMore
  <2> QED  BY <1>8, <2>2, <2>4
<1>13. v = "shipment_tracking" => row \in TrackingRow
  BY DEF ParcelViewInv
<1>11. ASSUME ~redelivered
       PROVE  \E c, d \in Counts :
                /\ Leads(CountSteps, c, unread', d) /\ Happened(d)'
                /\ v = "daily_shipments" => DailyTold(row, c)
                /\ v = "delivery_performance" => PerformanceTold(row, c)
  <2>1. PICK c \in Counts, d \in Counts :
          /\ Leads(CountSteps, c, unread, d) /\ Happened(d)
          /\ v = "daily_shipments" => DailyTold(row, c)
          /\ v = "delivery_performance" => PerformanceTold(row, c)
    BY <1>11 DEF ParcelViewInv
  <2> PICK z : z = CountsAfter(d, e)
    OBVIOUS
  <2>2. z \in Counts
    BY <1>5, CountsOf
  <2>3. Happened(z)'
    <3>1. ParcelMoved(e.type)
      BY <1>4, <1>5
    <3>2. Happened(CountsAfter(d, e))'
      BY <1>1, <1>2, <1>5, <2>1, <3>1, CountTells
    <3> QED  BY <3>2, Zenon
  <2>4. <<d, e, z>> \in CountSteps
    BY <1>5, <2>2 DEF CountSteps
  <2>5. Leads(CountSteps, c, unread \o <<e>>, z)
    BY <1>2, <1>5, <2>1, <2>4, LeadsMore
  <2> QED  BY <1>8, <2>1, <2>2, <2>3, <2>5
<1> QED  BY <1>1, <1>2, <1>3, <1>t, <1>8, <1>9, <1>10, <1>11, <1>12, <1>13 DEF ParcelViewInv

(* An event that is handled again shows nothing new.                       *)
LEMMA ShownSettles ==
  ASSUME NEW v \in ShowingViews, NEW x \in ParcelShown(v), NEW e \in ParcelEvent
  PROVE  /\ ParcelShownAfter(v, x, e) \in ParcelShown(v)
         /\ ParcelShownAfter(v, ParcelShownAfter(v, x, e), e) = ParcelShownAfter(v, x, e)
<1>1. CASE v = "fulfillment_status"
  <2> DEFINE R == [status : Parcel!FulfillmentStatus \cup {"None"}, carrier : BOOLEAN,
                   tracking_number : BOOLEAN]
  <2>1. \A y : ParcelShownAfter(v, y, e) = Parcel!on_fulfillment_status(y, e)
    BY <1>1, Zenon DEF ParcelShownAfter
  <2> PICK z : z = Parcel!on_fulfillment_status(x, e)
    OBVIOUS
  <2> PICK y : y = Parcel!on_fulfillment_status(z, e)
    OBVIOUS
  <2>2. x \in R /\ ParcelShown(v) = R
    BY <1>1 DEF ParcelShown
  <2>3. /\ z \in R
        /\ z.status = IF e.type \in DOMAIN Parcel!StatusAfterEvent
                      THEN Parcel!StatusAfterEvent[e.type] ELSE x.status
        /\ z.carrier <=> x.carrier \/ e.type \in {"ShippingLabelGenerated", "ShipmentHandedOff"}
        /\ z.tracking_number <=> x.tracking_number \/ e.type = "ShipmentHandedOff"
    BY <2>2, StatusRowIs
  <2>4. /\ y \in R
        /\ y.status = IF e.type \in DOMAIN Parcel!StatusAfterEvent
                      THEN Parcel!StatusAfterEvent[e.type] ELSE z.status
        /\ y.carrier <=> z.carrier \/ e.type \in {"ShippingLabelGenerated", "ShipmentHandedOff"}
        /\ y.tracking_number <=> z.tracking_number \/ e.type = "ShipmentHandedOff"
    BY <2>3, StatusRowIs
  <2>5. y = z
    <3>1. /\ y.status = z.status /\ y.carrier = z.carrier
          /\ y.tracking_number = z.tracking_number
      BY <2>3, <2>4
    <3> QED  BY <2>3, <2>4, <3>1
  <2> HIDE DEF R
  <2> QED  BY <2>1, <2>2, <2>3, <2>5
<1>2. CASE v = "shipment_tracking"
  <2>1. \A y : ParcelShownAfter(v, y, e) = TextAfter(y, e)
    BY <1>2, Zenon DEF ParcelShownAfter
  <2>2. x \in Texts
    BY <1>2 DEF ParcelShown
  <2>3. TextAfter(x, e) \in Texts
    BY <2>2, ReportedText DEF TextAfter, Texts, Parcel!FulfillmentStatus
  <2>4. TextAfter(TextAfter(x, e), e) = TextAfter(x, e)
    BY DEF TextAfter
  <2> QED  BY <1>2, <2>1, <2>3, <2>4 DEF ParcelShown
<1>3. CASE v = "warehouse_queue"
  <2>1. \A y : ParcelShownAfter(v, y, e) = Parcel!on_warehouse_queue(y, e)
    BY <1>3, Zenon DEF ParcelShownAfter
  <2>2. x \in Parcel!FulfillmentStatus \cup {"none", "Packed"}
    BY <1>3 DEF ParcelShown
  <2>3. Parcel!on_warehouse_queue(x, e) \in Parcel!FulfillmentStatus \cup {"none", "Packed"}
    BY <2>2, StatusAfterIs DEF Parcel!on_warehouse_queue, Parcel!FulfillmentStatus
  <2>4. Parcel!on_warehouse_queue(Parcel!on_warehouse_queue(x, e), e) =
          Parcel!on_warehouse_queue(x, e)
    BY DEF Parcel!on_warehouse_queue
  <2> QED  BY <1>3, <2>1, <2>3, <2>4 DEF ParcelShown
<1> QED  BY <1>1, <1>2, <1>3 DEF ShowingViews

(* Counts of the row grow as those of the events.                          *)
LEMMA DailyCounts ==
  ASSUME NEW r, NEW c \in Counts, DailyTold(r, c), NEW e \in ParcelEvent
  PROVE  DailyTold(Parcel!on_daily_shipments(r, e), CountsAfter(c, e))
<1> PICK z : z = Parcel!on_daily_shipments(r, e)
  OBVIOUS
<1> PICK b : b = CountsAfter(c, e)
  OBVIOUS
<1>1. /\ r \in [ParcelDays -> Counts]
      /\ \A h \in Happenings : Sums(ParcelDays, [d \in ParcelDays |-> r[d][h]], c[h])
  BY DEF DailyTold
<1>2. b \in Counts
      /\ \A h \in Happenings :
           b[h] = IF e.type \in DOMAIN Parcel!Counted /\ h = Parcel!Counted[e.type]
                  THEN c[h] + 1 ELSE c[h]
  BY CountsOf
<1>3. CASE e.type \notin DOMAIN Parcel!Counted
  <2>1. z = r /\ b = c
    BY <1>3 DEF Parcel!on_daily_shipments, CountsAfter
  <2> QED  BY <2>1
<1>4. CASE e.type \in DOMAIN Parcel!Counted
  <2> PICK g \in Happenings : g = Parcel!Counted[e.type]
    BY <1>4, CountedIs DEF Happenings
  <2> PICK x \in ParcelDays : x = e.day
    BY DEF ParcelEvent
  <2>1. z = [r EXCEPT ![x][g] = @ + 1]
    BY <1>4 DEF Parcel!on_daily_shipments
  <2>2. /\ z \in [ParcelDays -> Counts]
        /\ z[x][g] = r[x][g] + 1
        /\ \A h \in Happenings : h # g => z[x][h] = r[x][h]
        /\ \A d \in ParcelDays : d # x => z[d] = r[d]
    <3>1. r[x] \in Counts
      BY <1>1
    <3> PICK y : y = [r[x] EXCEPT ![g] = @ + 1]
      OBVIOUS
    <3>2. y \in Counts /\ y[g] = r[x][g] + 1 /\ \A h \in Happenings : h # g => y[h] = r[x][h]
      BY <3>1 DEF Counts
    <3>3. z = [r EXCEPT ![x] = y]
      BY <2>1
    <3> QED  BY <1>1, <3>2, <3>3
  <2>3. ASSUME NEW h \in Happenings
        PROVE  Sums(ParcelDays, [d \in ParcelDays |-> z[d][h]], b[h])
    <3> PICK f, k : f = [d \in ParcelDays |-> r[d][h]] /\ k = [d \in ParcelDays |-> z[d][h]]
      OBVIOUS
    <3>1. Sums(ParcelDays, f, c[h])
      BY <1>1
    <3>2. \A d \in ParcelDays : f[d] = r[d][h] /\ k[d] = z[d][h]
      OBVIOUS
    <3>3. CASE h = g
      <4>1. f[x] \in Nat
        <5>1. r[x] \in Counts
          BY <1>1
        <5> QED  BY <3>2, <5>1 DEF Counts
      <4>2. k[x] = f[x] + 1 /\ \A d \in ParcelDays : d # x => k[d] = f[d]
        BY <2>2, <3>2, <3>3
      <4>3. Sums(ParcelDays, k, c[h] + 1)
        BY <3>1, <4>1, <4>2, SumsMore
      <4>4. b[h] = c[h] + 1
        BY <1>2, <1>4, <3>3
      <4> QED  BY <4>3, <4>4
    <3>4. CASE h # g
      <4>1. \A d \in ParcelDays : k[d] = f[d]
        BY <2>2, <3>2, <3>4
      <4>2. Sums(ParcelDays, k, c[h])
        BY <3>1, <4>1, SumsSame
      <4>3. b[h] = c[h]
        BY <1>2, <3>4
      <4> QED  BY <4>2, <4>3
    <3> QED  BY <3>3, <3>4
  <2> QED  BY <2>2, <2>3 DEF DailyTold
<1> QED  BY <1>3, <1>4

(* One cell of a table of counts grows by one.                             *)
CellGrew(K, F, r, z, x, g) ==
  /\ z \in [K -> [F -> Nat]]
  /\ z[x][g] = r[x][g] + 1 /\ r[x][g] \in Nat
  /\ \A h \in F : h # g => z[x][h] = r[x][h]
  /\ \A k \in K : k # x => z[k] = r[k]

LEMMA CellGrows ==
  ASSUME NEW K, NEW F, NEW r \in [K -> [F -> Nat]], NEW x \in K, NEW g \in F
  PROVE  CellGrew(K, F, r, [r EXCEPT ![x][g] = @ + 1], x, g)
<1> PICK z : z = [r EXCEPT ![x][g] = @ + 1]
  OBVIOUS
<1> PICK y : y = [r[x] EXCEPT ![g] = @ + 1]
  OBVIOUS
<1>1. r[x] \in [F -> Nat]
  OBVIOUS
<1>2. /\ y \in [F -> Nat] /\ y[g] = r[x][g] + 1 /\ r[x][g] \in Nat
      /\ \A h \in F : h # g => y[h] = r[x][h]
  BY <1>1
<1>3. z = [r EXCEPT ![x] = y]
  OBVIOUS
<1>4. z \in [K -> [F -> Nat]] /\ z[x] = y /\ \A k \in K : k # x => z[k] = r[k]
  BY <1>2, <1>3
<1>5. CellGrew(K, F, r, z, x, g)
  BY <1>2, <1>4 DEF CellGrew
<1> QED  BY <1>5, Zenon

LEMMA ColumnGrows ==
  ASSUME NEW K, NEW F, NEW r, NEW z, NEW x, x \in K, NEW g, g \in F,
         CellGrew(K, F, r, z, x, g),
         NEW S, S \in SUBSET K, x \in S, NEW n, Column(S, r, g, n)
  PROVE  n \in Nat /\ Column(S, z, g, n + 1)
<1>a. PICK f, l : f = [k \in S |-> r[k][g]] /\ l = [k \in S |-> z[k][g]]
  OBVIOUS
<1>1. \A k \in S : f[k] = r[k][g] /\ l[k] = z[k][g]
  BY <1>a
<1>2. f[x] \in Nat /\ l[x] = f[x] + 1 /\ \A k \in S : k # x => l[k] = f[k]
  BY <1>1 DEF CellGrew
<1>3. Sums(S, f, n)
  BY <1>a DEF Column
<1>4. x \in S
  OBVIOUS
<1>5. n \in Nat /\ Sums(S, l, n + 1)
  BY <1>2, <1>3, <1>4, SumsMore, Zenon
<1> QED  BY <1>a, <1>5 DEF Column

LEMMA ColumnStays ==
  ASSUME NEW K, NEW F, NEW r, NEW z, NEW x, x \in K, NEW g, g \in F,
         CellGrew(K, F, r, z, x, g),
         NEW S, S \in SUBSET K, NEW h, h \in F, x \notin S \/ h # g,
         NEW n, Column(S, r, h, n)
  PROVE  Column(S, z, h, n)
<1>a. PICK f, l : f = [k \in S |-> r[k][h]] /\ l = [k \in S |-> z[k][h]]
  OBVIOUS
<1>1. \A k \in S : f[k] = r[k][h] /\ l[k] = z[k][h]
  BY <1>a
<1>2. \A k \in S : l[k] = f[k]
  BY <1>1 DEF CellGrew
<1>3. Sums(S, f, n)
  BY <1>a DEF Column
<1>4. Sums(S, l, n)
  BY <1>2, <1>3, SumsSame, Zenon
<1> QED  BY <1>a, <1>4 DEF Column

LEMMA PerformanceCounts ==
  ASSUME NEW r, NEW c \in Counts, PerformanceTold(r, c), NEW e \in ParcelEvent,
         NEW z \in Parcel!on_delivery_performance(r, e)
  PROVE  PerformanceTold(z, CountsAfter(c, e))
<1> DEFINE F == {"shipped", "delivered", "exceptions"}
           own == {"own"} \X ParcelDays
<1> PICK b : b = CountsAfter(c, e)
  OBVIOUS
<1>1. /\ r \in [ParcelKeys -> [F -> Nat]]
      /\ Column(own, r, "shipped", c["shipped"])
      /\ \A h \in {"delivered", "exceptions"} :
           \E n \in 0..c[h] : Column(ParcelKeys, r, h, n)
  BY DEF PerformanceTold
<1>2. /\ b \in Counts /\ c["delivered"] \in Nat /\ c["exceptions"] \in Nat
      /\ b["shipped"] = IF e.type = "ShipmentHandedOff" THEN c["shipped"] + 1 ELSE c["shipped"]
      /\ b["delivered"] = IF e.type = "DeliveryConfirmed" THEN c["delivered"] + 1
                          ELSE c["delivered"]
      /\ b["exceptions"] = IF e.type = "DeliveryException" THEN c["exceptions"] + 1
                           ELSE c["exceptions"]
  BY CountsOf, CountedIs DEF Happenings, Counts
<1>3. own \in SUBSET ParcelKeys /\ ParcelKeys \in SUBSET ParcelKeys
  BY DEF ParcelKeys, Parcel!Carriers
<1>d. PICK day_of \in ParcelDays : day_of = e.day
  BY DEF ParcelEvent
<1>4. CASE e.type = "ShipmentHandedOff"
  <2>x. PICK x : x = <<"own", day_of>>
    OBVIOUS
  <2>1. x \in own /\ x \in ParcelKeys
    BY <1>3, <2>x
  <2>2. z = [r EXCEPT ![x]["shipped"] = @ + 1]
    BY <1>4, <2>x, <1>d DEF Parcel!on_delivery_performance
  <2>f. {"shipped", "delivered", "exceptions"} \in SUBSET F
    OBVIOUS
  <2> HIDE DEF own
  <2>g. CellGrew(ParcelKeys, F, r, z, x, "shipped")
    <3>1. r \in [ParcelKeys -> [F -> Nat]]
      BY <1>1
    <3> HIDE DEF F
    <3>2. CellGrew(ParcelKeys, F, r, [r EXCEPT ![x]["shipped"] = @ + 1], x, "shipped")
      BY <2>1, <2>f, <3>1, CellGrows
    <3> QED  BY <2>2, <3>2
  <2> HIDE DEF F
  <2>3. z \in [ParcelKeys -> [F -> Nat]]
    BY <2>g DEF CellGrew
  <2>4. Column(own, z, "shipped", c["shipped"] + 1)
    <3>1. Column(own, r, "shipped", c["shipped"]) /\ "shipped" \in F
      BY <1>1, <2>f
    <3> QED  BY <1>3, <2>1, <2>g, <3>1, ColumnGrows, Zenon
  <2>5. ASSUME NEW h \in {"delivered", "exceptions"}
        PROVE  \E n \in 0..b[h] : Column(ParcelKeys, z, h, n)
    <3>1. PICK n \in 0..c[h] : Column(ParcelKeys, r, h, n)
      BY <1>1
    <3>2. Column(ParcelKeys, z, h, n)
      <4>1. h \in F /\ "shipped" \in F /\ h # "shipped"
        BY <2>f
      <4>2. x \notin ParcelKeys \/ h # "shipped"
        BY <4>1
      <4> QED  BY <1>3, <2>1, <2>g, <3>1, <4>1, <4>2, ColumnStays
    <3>3. b[h] = c[h]
      BY <1>2, <1>4
    <3> QED  BY <3>1, <3>2, <3>3
  <2>6. b["shipped"] = c["shipped"] + 1
    BY <1>2, <1>4
  <2> QED  BY <2>3, <2>4, <2>5, <2>6 DEF PerformanceTold, own, F
<1>5. CASE /\ e.type \in {"DeliveryConfirmed", "DeliveryException"}
           /\ \E carrier \in Parcel!Carriers :
                z = [r EXCEPT ![<<carrier, e.day>>][Parcel!Counted[e.type]] = @ + 1]
  <2>c. PICK carrier \in Parcel!Carriers :
          z = [r EXCEPT ![<<carrier, e.day>>][Parcel!Counted[e.type]] = @ + 1]
    BY <1>5
  <2>x. PICK x : x = <<carrier, day_of>>
    OBVIOUS
  <2>n. PICK g \in {"delivered", "exceptions"} : g = Parcel!Counted[e.type]
    BY <1>5, CountedIs
  <2>1. x \in ParcelKeys /\ g \in F /\ g # "shipped"
    BY <2>x DEF ParcelKeys
  <2>2. z = [r EXCEPT ![x][g] = @ + 1]
    BY <1>d, <2>c, <2>x, <2>n
  <2>f. {"shipped", "delivered", "exceptions"} \in SUBSET F
    OBVIOUS
  <2> HIDE DEF own
  <2>g. CellGrew(ParcelKeys, F, r, z, x, g)
    <3>1. r \in [ParcelKeys -> [F -> Nat]]
      BY <1>1
    <3> HIDE DEF F
    <3>2. CellGrew(ParcelKeys, F, r, [r EXCEPT ![x][g] = @ + 1], x, g)
      BY <2>1, <2>f, <3>1, CellGrows
    <3> QED  BY <2>2, <3>2
  <2> HIDE DEF F
  <2>3. z \in [ParcelKeys -> [F -> Nat]]
    BY <2>g DEF CellGrew
  <2>4. Column(own, z, "shipped", c["shipped"])
    <3>1. Column(own, r, "shipped", c["shipped"]) /\ "shipped" \in F
      BY <1>1, <2>f
    <3>2. x \notin own \/ "shipped" # g
      BY <2>1
    <3> QED  BY <1>3, <2>1, <2>g, <3>1, <3>2, ColumnStays
  <2>5. ASSUME NEW h \in {"delivered", "exceptions"}
        PROVE  \E n \in 0..b[h] : Column(ParcelKeys, z, h, n)
    <3>1. PICK n \in 0..c[h] : Column(ParcelKeys, r, h, n)
      BY <1>1
    <3>2. /\ h = g => Column(ParcelKeys, z, h, n + 1)
          /\ h # g => Column(ParcelKeys, z, h, n)
      <4>1. h \in F
        BY <2>f
      <4>2. CASE h = g
        <5>1. Column(ParcelKeys, r, g, n)
          BY <3>1, <4>2
        <5>2. Column(ParcelKeys, z, g, n + 1)
          BY <1>3, <2>1, <2>g, <5>1, ColumnGrows
        <5> QED  BY <4>2, <5>2
      <4>3. CASE h # g
        <5>1. x \notin ParcelKeys \/ h # g
          BY <4>3
        <5>2. Column(ParcelKeys, z, h, n)
          BY <1>3, <2>1, <2>g, <3>1, <4>1, <5>1, ColumnStays
        <5> QED  BY <4>3, <5>2
      <4> QED  BY <4>2, <4>3
    <3>3. b[h] = IF h = g THEN c[h] + 1 ELSE c[h]
      BY <1>2, <1>5, <2>n, CountedIs
    <3>4. (h = g => n + 1 \in 0..b[h]) /\ (h # g => n \in 0..b[h])
      BY <1>2, <3>1, <3>3
    <3> QED  BY <3>2, <3>4
  <2>6. b["shipped"] = c["shipped"]
    BY <1>2, <1>5
  <2> QED  BY <2>3, <2>4, <2>5, <2>6 DEF PerformanceTold, own, F
<1>6. CASE z = r /\ e.type # "ShipmentHandedOff"
  <2>1. ASSUME NEW h \in {"delivered", "exceptions"}
        PROVE  \E n \in 0..b[h] : Column(ParcelKeys, z, h, n)
    <3>1. PICK n \in 0..c[h] : Column(ParcelKeys, r, h, n)
      BY <1>1
    <3>2. n \in 0..b[h]
      BY <1>2, <3>1
    <3> QED  BY <1>6, <3>1, <3>2
  <2>2. b["shipped"] = c["shipped"]
    BY <1>2, <1>6
  <2> QED  BY <1>1, <1>6, <2>1, <2>2 DEF PerformanceTold
<1>7. \/ e.type = "ShipmentHandedOff"
      \/ /\ e.type \in {"DeliveryConfirmed", "DeliveryException"}
         /\ \E carrier \in Parcel!Carriers :
              z = [r EXCEPT ![<<carrier, e.day>>][Parcel!Counted[e.type]] = @ + 1]
      \/ z = r /\ e.type # "ShipmentHandedOff"
  <2> PICK rows : rows = {carrier \in Parcel!Carriers : r[carrier, e.day].shipped > 0}
    OBVIOUS
  <2>1. CASE e.type \in {"DeliveryConfirmed", "DeliveryException"} /\ rows # {}
    <3>1. Parcel!on_delivery_performance(r, e) =
            {[r EXCEPT ![<<carrier, e.day>>][Parcel!Counted[e.type]] = @ + 1] : carrier \in rows}
      BY <2>1, Zenon DEF Parcel!on_delivery_performance
    <3>2. PICK carrier \in rows :
            z = [r EXCEPT ![<<carrier, e.day>>][Parcel!Counted[e.type]] = @ + 1]
      BY <3>1, Zenon
    <3>3. carrier \in Parcel!Carriers
      BY Zenon
    <3> QED  BY <2>1, <3>2, <3>3, Zenon
  <2>2. CASE /\ ~(e.type \in {"DeliveryConfirmed", "DeliveryException"} /\ rows # {})
             /\ e.type # "ShipmentHandedOff"
    <3>1. Parcel!on_delivery_performance(r, e) = {r}
      BY <2>2, Zenon DEF Parcel!on_delivery_performance
    <3> QED  BY <2>2, <3>1, Zenon
  <2> QED  BY <2>1, <2>2, Zenon
<1> QED  BY <1>4, <1>5, <1>6, <1>7

(* The projector reads an event.                                           *)
LEMMA ParcelReads ==
  ASSUME ParcelViewInv, Parcel!ParcelProjection
  PROVE  ParcelViewInv'
<1>v. PICK v : v = view
  OBVIOUS
<1>1. PICK after \in Parcel!ParcelProjected(row, Head(unread)) : Parcel!Project(after)
  BY DEF Parcel!ParcelProjection
<1>e. PICK e : e = Head(unread)
  OBVIOUS
<1>2. /\ ParcelInv /\ v \in Parcel!ParcelViewNames
      /\ exceptions \in Nat /\ day \in ParcelDays /\ unread \in Seq(ParcelEvent)
      /\ Tracked
  BY <1>v DEF ParcelViewInv
<1>3. UNCHANGED <<Parcel!vars, day, exceptions, tracking_events>>
  BY DEF Parcel!ParcelProjection, Parcel!parcel_vars
<1>4. /\ unread # << >> /\ view' = view /\ row' = after
      /\ unread' \in {unread, Tail(unread)}
      /\ ~redelivered' => ~redelivered /\ unread' = Tail(unread)
      /\ unread' = unread \/ unread' = Tail(unread)
  BY <1>1 DEF Parcel!Project
<1>5. unread' \in Seq(ParcelEvent) /\ e \in ParcelEvent
  BY <1>2, <1>4, <1>e
<1>6. /\ ParcelInv'
      /\ \A x : ParcelTold(v, x) => ParcelTold(v, x)'
      /\ \A d : Happened(d) => Happened(d)'
      /\ Tracked' /\ \A x : LogTold(x) => LogTold(x)'
  <2>1. /\ parcel_status' = parcel_status /\ parcel_shipment' = parcel_shipment
        /\ parcel_packed' = parcel_packed /\ exceptions' = exceptions
        /\ tracking_events' = tracking_events
    BY <1>3 DEF Parcel!vars
  <2>2. ParcelInv'
    BY <1>2, <1>3, ParcelStepKeeps
  <2>3. /\ \A x : ParcelTold(v, x) => ParcelTold(v, x)'
        /\ \A x : ParcelTold("shipment_tracking", x) => ParcelTold("shipment_tracking", x)'
        /\ \A d : Happened(d) => Happened(d)'
    BY <2>1 DEF ParcelTold, Happened
  <2>4. Tracked' /\ \A x : LogTold(x) => LogTold(x)'
    BY <1>2, <2>1, <2>3 DEF Tracked, LogTold
  <2> QED  BY <2>2, <2>3, <2>4
<1>t. ASSUME v = "shipment_tracking"
      PROVE  /\ row \in TrackingRow /\ after \in TrackingRow
             /\ after.current_status = TextAfter(row.current_status, e)
             /\ after.events = LogAfter(row.events, e)
  <2>1. row \in TrackingRow
    BY <1>t, <1>v DEF ParcelViewInv
  <2>2. after = Parcel!on_shipment_tracking(row, e)
    <3>1. after \in Parcel!ParcelProjected(row, e)
      BY <1>1, <1>e
    <3> QED  BY <1>t, <1>v, <3>1 DEF Parcel!ParcelProjected
  <2> QED  BY <1>5, <2>1, <2>2, TrackingRowIs
<1>7. ASSUME v \in ShowingViews
      PROVE  /\ ShownRow(v, row') \in ParcelShown(v)
             /\ \E x \in ParcelShown(v) :
                  Leads(ParcelSteps(v), ShownRow(v, row'), unread', x) /\ ParcelTold(v, x)'
  <2> PICK was, now : was = ShownRow(v, row) /\ now = ShownRow(v, after)
    OBVIOUS
  <2>1. /\ was \in ParcelShown(v)
        /\ \E x \in ParcelShown(v) : Leads(ParcelSteps(v), was, unread, x) /\ ParcelTold(v, x)
    BY <1>7, <1>v DEF ParcelViewInv
  <2>2. PICK x \in ParcelShown(v) : Leads(ParcelSteps(v), was, unread, x) /\ ParcelTold(v, x)
    BY <2>1
  <2>3. now = ParcelShownAfter(v, was, e)
    <3>1. CASE v = "shipment_tracking"
      BY <1>t, <3>1 DEF ShownRow, ParcelShownAfter
    <3>2. CASE v # "shipment_tracking"
      <4>1. after \in Parcel!ParcelProjected(row, e) /\ was = row /\ now = after
        BY <1>1, <1>e, <3>2 DEF ShownRow
      <4> QED  BY <1>7, <1>v, <3>2, <4>1 DEF ShowingViews, Parcel!ParcelProjected, ParcelShownAfter
    <3> QED  BY <3>1, <3>2
  <2>4. now \in ParcelShown(v) /\ ParcelShownAfter(v, now, e) = now
    BY <1>5, <1>7, <2>1, <2>3, ShownSettles
  <2>5. <<now, e, now>> \in ParcelSteps(v)
    BY <1>5, <2>4 DEF ParcelSteps
  <2>6. \A w : <<was, e, w>> \in ParcelSteps(v) => w = now
    BY <2>3 DEF ParcelSteps
  <2>7. /\ Leads(ParcelSteps(v), now, Tail(unread), x)
        /\ Leads(ParcelSteps(v), now, unread, x)
    BY <1>2, <1>4, <1>e, <2>2, <2>5, <2>6, LeadsProject
  <2> QED  BY <1>4, <1>6, <2>2, <2>4, <2>7
<1>9. ASSUME v = "shipment_tracking", ~redelivered'
      PROVE  \E x \in Seq(Texts) : Leads(LogSteps, row'.events, unread', x) /\ LogTold(x)'
  <2>1. ~redelivered /\ unread' = Tail(unread)
    BY <1>4, <1>9
  <2>2. PICK x \in Seq(Texts) : Leads(LogSteps, row.events, unread, x) /\ LogTold(x)
    BY <1>9, <1>v, <2>1 DEF ParcelViewInv
  <2>3. PICK w : <<row.events, e, w>> \in LogSteps /\ Leads(LogSteps, w, Tail(unread), x)
    BY <1>2, <1>4, <1>e, <2>2, LeadsRead
  <2>4. w = row'.events
    BY <1>4, <1>9, <1>t, <2>3 DEF LogSteps
  <2> QED  BY <1>6, <2>1, <2>2, <2>3, <2>4
<1>8. ASSUME ~redelivered'
      PROVE  \E c, d \in Counts :
               /\ Leads(CountSteps, c, unread', d) /\ Happened(d)'
               /\ v = "daily_shipments" => DailyTold(row', c)
               /\ v = "delivery_performance" => PerformanceTold(row', c)
  <2>1. ~redelivered /\ unread' = Tail(unread)
    BY <1>4, <1>8
  <2>2. PICK c \in Counts, d \in Counts :
          /\ Leads(CountSteps, c, unread, d) /\ Happened(d)
          /\ v = "daily_shipments" => DailyTold(row, c)
          /\ v = "delivery_performance" => PerformanceTold(row, c)
    BY <1>v, <2>1 DEF ParcelViewInv
  <2>3. PICK w : <<c, e, w>> \in CountSteps /\ Leads(CountSteps, w, Tail(unread), d)
    BY <1>2, <1>4, <1>e, <2>2, LeadsRead
  <2>4. w \in Counts /\ w = CountsAfter(c, e)
    BY <2>3 DEF CountSteps
  <2>5. after \in Parcel!ParcelProjected(row, e)
    BY <1>1, <1>e
  <2>6. ASSUME v = "daily_shipments" PROVE DailyTold(row', w)
    <3>1. after = Parcel!on_daily_shipments(row, e)
      BY <1>v, <2>5, <2>6 DEF Parcel!ParcelProjected
    <3>2. DailyTold(Parcel!on_daily_shipments(row, e), CountsAfter(c, e))
      BY <1>5, <2>2, <2>6, DailyCounts
    <3> QED  BY <1>4, <2>4, <3>1, <3>2
  <2>7. ASSUME v = "delivery_performance" PROVE PerformanceTold(row', w)
    <3>1. after \in Parcel!on_delivery_performance(row, e)
      BY <1>v, <2>5, <2>7 DEF Parcel!ParcelProjected
    <3>2. PerformanceTold(after, CountsAfter(c, e))
      BY <1>5, <2>2, <2>7, <3>1, PerformanceCounts
    <3> QED  BY <1>4, <2>4, <3>2
  <2> QED  BY <1>6, <2>1, <2>2, <2>3, <2>4, <2>6, <2>7
<1>10. v = "shipment_tracking" => row' \in TrackingRow
  BY <1>4, <1>t
<1> QED  BY <1>v, <1>2, <1>3, <1>4, <1>5, <1>6, <1>7, <1>8, <1>9, <1>10 DEF ParcelViewInv

(* Nothing but the day changes, if that.                                   *)
LEMMA ParcelWaits ==
  ASSUME ParcelViewInv, day' \in ParcelDays,
         UNCHANGED <<Parcel!vars, exceptions, tracking_events, Parcel!read_vars>>
  PROVE  ParcelViewInv'
<1>1. /\ parcel_status' = parcel_status /\ parcel_shipment' = parcel_shipment
      /\ parcel_packed' = parcel_packed /\ exceptions' = exceptions
      /\ tracking_events' = tracking_events
      /\ view' = view /\ row' = row /\ unread' = unread /\ redelivered' = redelivered
  BY DEF Parcel!vars, Parcel!read_vars
<1>2. ParcelInv'
  BY ParcelStepKeeps DEF ParcelViewInv
<1>3. /\ \A x, v : ParcelTold(v, x) => ParcelTold(v, x)'
      /\ \A d : Happened(d) => Happened(d)'
  BY <1>1 DEF ParcelTold, Happened
<1>4. Tracked => Tracked'
  BY <1>1 DEF Tracked
<1>5. \A x : LogTold(x) => LogTold(x)'
  BY <1>1, <1>3 DEF LogTold
<1>6. \A v : ShownRow(v, row') = ShownRow(v, row)
  BY <1>1
<1> QED  BY <1>1, <1>2, <1>3, <1>4, <1>5, <1>6 DEF ParcelViewInv

(* Nothing is counted before there is a parcel.                            *)
LEMMA NoCounts ==
  ASSUME NEW F, NEW r, DOMAIN r = F, \A h \in F : r[h] = 0, r = [h \in DOMAIN r |-> r[h]]
  PROVE  r \in [F -> Nat]
  OBVIOUS

LEMMA ParcelStarts ==
  ASSUME Parcel!ParcelInit
  PROVE  ParcelViewInv
<1>1. /\ Parcel!Init /\ view \in Parcel!ParcelViewNames /\ row \in Parcel!ParcelRows
      /\ unread = << >> /\ day \in ParcelDays /\ exceptions = 0
      /\ tracking_events = << >>
  BY DEF Parcel!ParcelInit
<1>2. ParcelInv
  BY <1>1, ParcelInitKeeps
<1>3. parcel_status = "None" /\ parcel_shipment = {} /\ ~parcel_packed
  BY <1>1 DEF Parcel!Init
<1>4. ASSUME view \in ShowingViews
      PROVE  /\ ShownRow(view, row) \in ParcelShown(view)
             /\ \E x \in ParcelShown(view) :
                  Leads(ParcelSteps(view), ShownRow(view, row), unread, x) /\ ParcelTold(view, x)
  <2>1. ShownRow(view, row) \in ParcelShown(view) /\ ParcelTold(view, ShownRow(view, row))
    <3>1. CASE view = "fulfillment_status"
      <4>1. row = [status |-> "None", carrier |-> FALSE, tracking_number |-> FALSE]
        BY <1>1, <3>1 DEF Parcel!ParcelRows
      <4>2. /\ row.status = "None" /\ row.carrier = FALSE /\ row.tracking_number = FALSE
            /\ row \in [status : Parcel!FulfillmentStatus \cup {"None"}, carrier : BOOLEAN,
                       tracking_number : BOOLEAN]
        BY <4>1
      <4> QED  BY <1>3, <3>1, <4>2 DEF ShownRow, ParcelShown, ParcelTold
    <3>2. CASE view = "shipment_tracking"
      BY <1>1, <1>3, <3>2 DEF Parcel!ParcelRows, ShownRow, ParcelShown, ParcelTold, Texts,
         Parcel!AtCarrier
    <3>3. CASE view = "warehouse_queue"
      BY <1>1, <1>3, <3>3 DEF Parcel!ParcelRows, ShownRow, ParcelShown, ParcelTold
    <3> QED  BY <1>4, <3>1, <3>2, <3>3 DEF ShowingViews
  <2>2. Leads(ParcelSteps(view), ShownRow(view, row), unread, ShownRow(view, row))
    BY <1>1, LeadsNone
  <2> QED  BY <2>1, <2>2
<1>c. PICK c : c = [h \in Happenings |-> 0]
  OBVIOUS
<1>5. /\ c \in Counts /\ \A h \in Happenings : c[h] = 0
      /\ Leads(CountSteps, c, unread, c) /\ Happened(c)
  <2>1. c \in Counts /\ \A h \in Happenings : c[h] = 0
    BY <1>c DEF Counts
  <2>2. Leads(CountSteps, c, unread, c)
    BY <1>1, LeadsNone
  <2>3. Happened(c)
    BY <1>1, <1>3, <2>1 DEF Happened, Happenings, Parcel!AtCarrier
  <2> QED  BY <2>1, <2>2, <2>3
<1>6. ASSUME view = "daily_shipments" PROVE DailyTold(row, c)
  <2>1. PICK none : none = [created |-> 0, shipped |-> 0, delivered |-> 0, exceptions |-> 0]
    OBVIOUS
  <2>2. none \in Counts /\ \A h \in Happenings : none[h] = 0
    <3>1. DOMAIN none = Happenings /\ \A h \in Happenings : none[h] = 0
      BY <2>1 DEF Happenings
    <3>2. none = [h \in DOMAIN none |-> none[h]]
      BY <2>1
    <3> QED  BY <3>1, <3>2, NoCounts DEF Counts
  <2>3. row = [d \in ParcelDays |-> none]
    BY <1>1, <1>6, <2>1 DEF Parcel!ParcelRows
  <2>4. row \in [ParcelDays -> Counts] /\ \A d \in ParcelDays : row[d] = none
    BY <2>2, <2>3
  <2>5. ASSUME NEW h \in Happenings
        PROVE  Sums(ParcelDays, [d \in ParcelDays |-> row[d][h]], c[h])
    <3>1. PICK f : f = [d \in ParcelDays |-> row[d][h]]
      OBVIOUS
    <3>2. \A d \in ParcelDays : f[d] = 0
      BY <2>2, <2>4, <3>1
    <3>3. Sums(ParcelDays, f, 0)
      BY <3>2, SumsZero
    <3> QED  BY <1>5, <3>1, <3>3
  <2> QED  BY <2>4, <2>5 DEF DailyTold
<1>7. ASSUME view = "delivery_performance" PROVE PerformanceTold(row, c)
  <2> DEFINE F == {"shipped", "delivered", "exceptions"}
  <2>1. PICK none : none = [shipped |-> 0, delivered |-> 0, exceptions |-> 0]
    OBVIOUS
  <2>2. none \in [F -> Nat] /\ \A h \in F : none[h] = 0
    <3>1. DOMAIN none = F /\ \A h \in F : none[h] = 0
      BY <2>1
    <3>2. none = [h \in DOMAIN none |-> none[h]]
      BY <2>1
    <3> QED  BY <3>1, <3>2, NoCounts
  <2>3. PICK some : some = [none EXCEPT !["shipped"] = 1]
    OBVIOUS
  <2>4. some \in [F -> Nat] /\ \A h \in F : h # "shipped" => some[h] = 0
    BY <2>2, <2>3
  <2>5. PICK busy \in SUBSET ParcelDays :
          row = [k \in ParcelKeys |-> IF k[1] = "other" /\ k[2] \in busy THEN some ELSE none]
    <3>1. row \in {[k \in ParcelKeys |-> IF k[1] = "other" /\ k[2] \in busy
                                           THEN [none EXCEPT !.shipped = 1] ELSE none]
                     : busy \in SUBSET ParcelDays}
      <4>1. Parcel!ParcelRows =
              {[k \in ParcelKeys |->
                  IF k[1] = "other" /\ k[2] \in busy
                  THEN [[shipped |-> 0, delivered |-> 0, exceptions |-> 0] EXCEPT !.shipped = 1]
                  ELSE [shipped |-> 0, delivered |-> 0, exceptions |-> 0]]
               : busy \in SUBSET ParcelDays}
        BY <1>7, Zenon DEF Parcel!ParcelRows, ParcelKeys
      <4> QED  BY <1>1, <2>1, <4>1, Zenon
    <3>2. row \in {[k \in ParcelKeys |-> IF k[1] = "other" /\ k[2] \in busy THEN some ELSE none]
                     : busy \in SUBSET ParcelDays}
      BY <2>3, <3>1, Zenon
    <3> QED  BY <3>2, Zenon
  <2>6. /\ row \in [ParcelKeys -> [F -> Nat]]
        /\ \A k \in ParcelKeys : row[k] \in {some, none}
        /\ \A k \in {"own"} \X ParcelDays : row[k] = none
    BY <2>2, <2>4, <2>5 DEF ParcelKeys, Parcel!Carriers
  <2>7. Column({"own"} \X ParcelDays, row, "shipped", c["shipped"])
    <3>1. PICK S, f : /\ S = {"own"} \X ParcelDays
                      /\ f = [k \in {"own"} \X ParcelDays |-> row[k]["shipped"]]
      OBVIOUS
    <3>2. \A k \in S : f[k] = 0
      BY <2>2, <2>6, <3>1
    <3>3. Sums(S, f, 0)
      BY <3>2, SumsZero
    <3>4. c["shipped"] = 0
      BY <1>5 DEF Happenings
    <3> QED  BY <3>1, <3>3, <3>4 DEF Column
  <2>8. ASSUME NEW h \in {"delivered", "exceptions"}
        PROVE  \E n \in 0..c[h] : Column(ParcelKeys, row, h, n)
    <3>1. PICK f : f = [k \in ParcelKeys |-> row[k][h]]
      OBVIOUS
    <3>2. \A k \in ParcelKeys : f[k] = 0
      <4>1. some[h] = 0 /\ none[h] = 0
        BY <2>2, <2>4
      <4> QED  BY <2>6, <3>1, <4>1
    <3>3. Sums(ParcelKeys, f, 0)
      BY <3>2, SumsZero
    <3>4. c[h] = 0
      BY <1>5 DEF Happenings
    <3>5. Column(ParcelKeys, row, h, 0)
      BY <3>1, <3>3 DEF Column
    <3> QED  BY <3>4, <3>5
  <2> QED  BY <2>6, <2>7, <2>8 DEF PerformanceTold
<1>9. Tracked
  BY <1>1 DEF Tracked
<1>10. ASSUME view = "shipment_tracking"
       PROVE  /\ row \in TrackingRow
              /\ \E x \in Seq(Texts) : Leads(LogSteps, row.events, unread, x) /\ LogTold(x)
  <2>1. row = [current_status |-> "none", events |-> << >>]
    BY <1>1, <1>10 DEF Parcel!ParcelRows
  <2>2. row \in TrackingRow /\ row.events = << >>
    BY <2>1 DEF TrackingRow, Texts
  <2>3. Leads(LogSteps, << >>, unread, << >>)
    BY <1>1, LeadsNone
  <2>4. LogTold(<< >>) /\ << >> \in Seq(Texts)
    BY <1>1, <1>3 DEF LogTold
  <2> QED  BY <2>2, <2>3, <2>4
<1>8. exceptions \in Nat /\ unread \in Seq(ParcelEvent)
  BY <1>1
<1> QED  BY <1>1, <1>2, <1>4, <1>5, <1>6, <1>7, <1>8, <1>9, <1>10 DEF ParcelViewInv

(* With nothing left to read, what was to be said is what is shown.        *)
LEMMA ParcelInvFollows ==
  ASSUME ParcelViewInv
  PROVE  ParcelViewsFollow
<1> SUFFICES ASSUME unread = << >> PROVE Parcel!ParcelViewsFollow
  BY DEF ParcelViewsFollow, Parcel!ParcelViewsFollow, Parcel!CaughtUp
<1>1. view \in Parcel!ParcelViewNames /\ exceptions \in Nat
  BY DEF ParcelViewInv
<1>2. ASSUME view \in ShowingViews 
      PROVE  ShownRow(view, row) \in ParcelShown(view) /\ ParcelTold(view, ShownRow(view, row))
  BY <1>2, LeadsNone DEF ParcelViewInv
<1>3. ASSUME ~redelivered
      PROVE  \E c \in Counts :
               /\ Happened(c)
               /\ view = "daily_shipments" => DailyTold(row, c)
               /\ view = "delivery_performance" => PerformanceTold(row, c)
  <2>1. PICK c \in Counts, d \in Counts :
          /\ Leads(CountSteps, c, unread, d) /\ Happened(d)
          /\ view = "daily_shipments" => DailyTold(row, c)
          /\ view = "delivery_performance" => PerformanceTold(row, c)
    BY <1>3 DEF ParcelViewInv
  <2>2. d = c
    BY <2>1, LeadsNone
  <2> QED  BY <2>1, <2>2
<1>4. ASSUME NEW S, NEW f, NEW n, Sums(S, f, n) PROVE Parcel!Total(S, f) = n
  <2>1. Parcel!UnitsOf(S, f) = UnitsOf(S, f)
    BY Zenon DEF UnitsOf, Parcel!UnitsOf
  <2>2. \A T : Parcel!Cardinality(T) = Cardinality(T)
    BY Zenon DEF Cardinality, Parcel!Cardinality
  <2> QED  BY <1>4, <2>1, <2>2, Zenon DEF Sums, Total, Parcel!Total
<1>5. CASE view = "fulfillment_status"
  <2>1. /\ row.status = parcel_status
        /\ row.carrier <=> "carrier" \in parcel_shipment
        /\ row.tracking_number <=> "tracking_number" \in parcel_shipment
        /\ row.carrier \in BOOLEAN /\ row.tracking_number \in BOOLEAN
    BY <1>2, <1>5 DEF ShowingViews, ShownRow, ParcelShown, ParcelTold
  <2>2. Parcel!StatusRowFollows
    BY <2>1 DEF Parcel!StatusRowFollows
  <2> QED  BY <1>5, <2>2, Zenon DEF Parcel!ParcelViewsFollow
<1>6. CASE view = "shipment_tracking"
  <2>t. ParcelTold("shipment_tracking", row.current_status)
    BY <1>2, <1>6 DEF ShowingViews, ShownRow
  <2> PICK text, last : text = row.current_status /\ last = tracking_events[Len(tracking_events)]
    OBVIOUS
  <2>s. \A x : ParcelTold("shipment_tracking", x) <=>
                x = IF parcel_status = "In_Transit" THEN last
                    ELSE IF parcel_status \in Parcel!AtCarrier THEN parcel_status ELSE "none"
    BY DEF ParcelTold
  <2>1. text = CASE parcel_status = "In_Transit" -> last
                 [] parcel_status \in Parcel!AtCarrier \ {"In_Transit"} -> parcel_status
                 [] OTHER -> "none"
    BY <2>t, <2>s
  <2>2. ASSUME ~redelivered
        PROVE  LET events == row.events IN
               /\ Len(events) = Len(tracking_events) + Parcel!Once(parcel_status = "Delivered")
               /\ \A k \in 1..Len(tracking_events) :
                    \/ events[k] = tracking_events[k]
                    \/ events[k] = "Exception" /\ tracking_events[k] = "EXCEPTION"
               /\ events # << >> => events[Len(events)] = text
    <3>1. PICK x \in Seq(Texts) : Leads(LogSteps, row.events, unread, x) /\ LogTold(x)
      BY <1>6, <2>2 DEF ParcelViewInv
    <3>2. x = row.events
      BY <3>1, LeadsNone
    <3>3. /\ Len(x) = Len(tracking_events) + Parcel!Once(parcel_status = "Delivered")
          /\ \A k \in 1..Len(tracking_events) :
               \/ x[k] = tracking_events[k]
               \/ x[k] = "Exception" /\ tracking_events[k] = "EXCEPTION"
      BY <3>1 DEF LogTold, SameEntry, Parcel!Once
    <3>4. x # << >> => x[Len(x)] = text
      BY <3>1, <2>s, <2>t DEF LogTold
    <3> QED  BY <3>2, <3>3, <3>4, Zenon
  <2>3. Parcel!TrackingRowFollows
    BY <2>1, <2>2, Zenon DEF Parcel!TrackingRowFollows
  <2> QED  BY <1>6, <2>3, Zenon DEF Parcel!ParcelViewsFollow
<1>7. CASE view = "warehouse_queue"
  <2>1. row = IF parcel_status = "None" THEN "none"
              ELSE IF parcel_status \in Parcel!AtCarrier THEN "Shipped"
              ELSE IF (parcel_status = "Packing" /\ parcel_packed)
                      \/ parcel_status = "Ready_To_Ship"
                   THEN "Packed"
              ELSE parcel_status
    BY <1>2, <1>7 DEF ShowingViews, ShownRow, ParcelTold
  <2>2. Parcel!QueueRowFollows
    BY <2>1 DEF Parcel!QueueRowFollows, Parcel!AtCarrier
  <2> QED  BY <1>7, <2>2, Zenon DEF Parcel!ParcelViewsFollow
<1>8. CASE view = "daily_shipments"
  <2> SUFFICES ASSUME ~redelivered
               PROVE  /\ Parcel!OverDays("created") = Parcel!Once(parcel_status # "None")
                      /\ Parcel!OverDays("shipped") =
                           Parcel!Once(parcel_status \in Parcel!AtCarrier)
                      /\ Parcel!OverDays("delivered") = Parcel!Once(parcel_status = "Delivered")
                      /\ Parcel!OverDays("exceptions") = exceptions
    BY <1>8, Zenon DEF Parcel!ParcelViewsFollow, Parcel!DailyFollows
  <2>1. PICK c \in Counts : Happened(c) /\ DailyTold(row, c)
    BY <1>3, <1>8
  <2>2. \A h \in Happenings : Parcel!OverDays(h) = c[h]
    BY <1>4, <2>1, Zenon DEF DailyTold, Parcel!OverDays
  <2>3. /\ Parcel!OverDays("created") = c["created"]
        /\ Parcel!OverDays("shipped") = c["shipped"]
        /\ Parcel!OverDays("delivered") = c["delivered"]
        /\ Parcel!OverDays("exceptions") = c["exceptions"]
    BY <2>2 DEF Happenings
  <2> QED  BY <2>1, <2>3 DEF Happened, Parcel!Once
<1>9. CASE view = "delivery_performance"
  <2> SUFFICES ASSUME ~redelivered
               PROVE  /\ Parcel!OverRows({"own"}, "shipped") =
                           Parcel!Once(parcel_status \in Parcel!AtCarrier)
                      /\ Parcel!OverRows(Parcel!Carriers, "delivered") <=
                           Parcel!Once(parcel_status = "Delivered")
                      /\ Parcel!OverRows(Parcel!Carriers, "exceptions") <= exceptions
    BY <1>9, Zenon DEF Parcel!ParcelViewsFollow, Parcel!PerformanceFollows
  <2>1. PICK c \in Counts : Happened(c) /\ PerformanceTold(row, c)
    BY <1>3, <1>9
  <2>2. Parcel!OverRows({"own"}, "shipped") = c["shipped"]
    BY <1>4, <2>1, Zenon DEF PerformanceTold, Column, Parcel!OverRows
  <2>3. ASSUME NEW h \in {"delivered", "exceptions"}
        PROVE  Parcel!OverRows(Parcel!Carriers, h) \in 0..c[h]
    <3>1. PICK n \in 0..c[h] : Column(ParcelKeys, row, h, n)
      BY <2>1 DEF PerformanceTold
    <3>2. Parcel!OverRows(Parcel!Carriers, h) = n
      BY <1>4, <3>1, Zenon DEF Column, ParcelKeys, Parcel!OverRows
    <3> QED  BY <3>1, <3>2, Zenon
  <2>4. /\ Parcel!OverRows(Parcel!Carriers, "delivered") <= c["delivered"]
        /\ Parcel!OverRows(Parcel!Carriers, "exceptions") <= c["exceptions"]
    <3>1. /\ Parcel!OverRows(Parcel!Carriers, "delivered") \in 0..c["delivered"]
          /\ Parcel!OverRows(Parcel!Carriers, "exceptions") \in 0..c["exceptions"]
      BY <2>3
    <3>2. c["delivered"] \in Nat /\ c["exceptions"] \in Nat
      BY DEF Counts, Happenings
    <3> QED  BY <3>1, <3>2
  <2> QED  BY <2>1, <2>2, <2>4 DEF Happened, Parcel!Once
<1> QED  BY <1>1, <1>5, <1>6, <1>7, <1>8, <1>9 DEF Parcel!ParcelViewNames

(* Whatever the warehouse and the carrier do and say, on whichever days,   *)
(* although one event may be handled twice, the projections of a parcel    *)
(* that caught up tell the truth about it: its status, or the carrier's    *)
(* last words while it is in transit, the entries of its log, and counts   *)
(* where a delivery never counts twice (fulfillment/projections).          *)
THEOREM ParcelIsShown == Parcel!ParcelSpec => []ParcelViewsFollow
<1>1. Parcel!ParcelInit => ParcelViewInv
  BY ParcelStarts
<1>2. ParcelViewInv /\ [Parcel!ParcelNext]_<<Parcel!parcel_vars, Parcel!read_vars>>
        => ParcelViewInv'
  <2> SUFFICES ASSUME ParcelViewInv, [Parcel!ParcelNext]_<<Parcel!parcel_vars, Parcel!read_vars>>
               PROVE  ParcelViewInv'
    OBVIOUS
  <2>1. CASE Parcel!ParcelCommand
    BY <2>1, ParcelTells
  <2>2. CASE Parcel!ParcelProjection
    BY <2>2, ParcelReads
  <2>3. CASE Parcel!NextDay
    <3>1. /\ day' \in ParcelDays
          /\ UNCHANGED <<Parcel!vars, exceptions, tracking_events, Parcel!read_vars>>
      BY <2>3 DEF Parcel!NextDay
    <3> QED  BY <3>1, ParcelWaits
  <2>4. CASE UNCHANGED <<Parcel!parcel_vars, Parcel!read_vars>>
    <3>1. /\ day' \in ParcelDays
          /\ UNCHANGED <<Parcel!vars, exceptions, tracking_events, Parcel!read_vars>>
      BY <2>4 DEF Parcel!parcel_vars, ParcelViewInv
    <3> QED  BY <3>1, ParcelWaits
  <2> QED  BY <2>1, <2>2, <2>3, <2>4 DEF Parcel!ParcelNext
<1>3. ParcelViewInv => ParcelViewsFollow
  BY ParcelInvFollows
<1> QED  BY <1>1, <1>2, <1>3, PTL DEF Parcel!ParcelSpec

(***************************************************************************)
(* The projections of the reviews.  Those that list reviews are followed   *)
(* review by review; the stars are counted as long as no event was handled *)
(* twice.  Votes and replies reach product_reviews in two ways, by their   *)
(* events and with an approval: what counts is the last event.             *)
(***************************************************************************)
ReviewEventType == {"ReviewSubmitted", "ReviewEdited", "ReviewApproved", "ReviewRejected",
                    "ReviewRemoved", "HelpfulVoteRecorded", "ReviewReported", "SellerReplyAdded"}

ReviewEvent == [type : ReviewEventType, id : ReviewIds, rating : Ratings, report_count : Nat,
                helpful_count : Nat, unhelpful_count : Nat]

(* What holds of a review, and what a command makes of review a: b.        *)
ReviewSane(a) ==
  a.status # "None" =>
    /\ a.rating \in Ratings
    /\ a.status = "Rejected" => a.notes
    /\ IsFiniteSet(Votes(a, "Helpful")) /\ a.helpful_count = Cardinality(Votes(a, "Helpful"))
    /\ IsFiniteSet(Votes(a, "Unhelpful"))
    /\ a.unhelpful_count = Cardinality(Votes(a, "Unhelpful"))

ReviewMoved(t, a, b) ==
  /\ t = "ReviewSubmitted" =>
       /\ a.status = "None" /\ b.status = "Pending" /\ ~b.notes
       /\ b.helpful_count = 0 /\ b.unhelpful_count = 0 /\ b.report_count = 0
       /\ ~b.replied /\ ~b.is_edited
  /\ t # "ReviewSubmitted" =>
       /\ a.status # "None" /\ b.verified = a.verified
       /\ b.status = IF t \in DOMAIN StatusAfterReviewEvent THEN StatusAfterReviewEvent[t]
                     ELSE a.status
       /\ t = "ReviewEdited" => a.status \in {"Pending", "Rejected"}
       /\ t \in {"ReviewApproved", "ReviewRejected"} => a.status = "Pending"
       /\ t = "ReviewRemoved" => a.status = "Published"
       /\ t # "ReviewEdited" => b.rating = a.rating
       /\ b.notes <=> t \in {"ReviewRejected", "ReviewRemoved"}
                      \/ (a.notes /\ t # "ReviewApproved")
       /\ t # "HelpfulVoteRecorded" => /\ b.helpful_count = a.helpful_count
                                       /\ b.unhelpful_count = a.unhelpful_count
       /\ b.report_count = IF t = "ReviewReported" THEN a.report_count + 1 ELSE a.report_count
       /\ b.replied <=> a.replied \/ t = "SellerReplyAdded"
       /\ b.is_edited <=> a.is_edited \/ t = "ReviewEdited"

LEMMA ReviewStatusIs ==
  /\ DOMAIN StatusAfterReviewEvent = {"ReviewSubmitted", "ReviewEdited", "ReviewApproved",
                                      "ReviewRejected", "ReviewRemoved"}
  /\ StatusAfterReviewEvent["ReviewSubmitted"] = "Pending"
  /\ StatusAfterReviewEvent["ReviewEdited"] = "Pending"
  /\ StatusAfterReviewEvent["ReviewApproved"] = "Published"
  /\ StatusAfterReviewEvent["ReviewRejected"] = "Rejected"
  /\ StatusAfterReviewEvent["ReviewRemoved"] = "Removed"
  BY DEF StatusAfterReviewEvent

(* A command, in these terms.                                              *)
ReviewActs(id, t) ==
  /\ reviews'[id] \in ReviewType
  /\ reviews' = [reviews EXCEPT ![id] = reviews'[id]]
  /\ ReviewSane(reviews'[id])
  /\ ReviewMoved(t, reviews[id], reviews'[id])
  /\ Publish(<<Told(t, id, reviews'[id])>>)

LEMMA SubmissionActs ==
  ASSUME ReviewsTyped, NEW s \in Submissions, submit(s)
  PROVE  \E id \in ReviewIds : ReviewActs(id, "ReviewSubmitted")
<1>1. PICK id \in ReviewIds \ Written, rating \in Ratings :
        Write(id, [NoReview EXCEPT !.status = "Pending", !.rating = rating,
                                   !.verified = submissions[s].verified], "ReviewSubmitted")
  BY Zenon DEF submit
<1>b. PICK b : b = [NoReview EXCEPT !.status = "Pending", !.rating = rating,
                                    !.verified = submissions[s].verified]
  OBVIOUS
<1>2. submissions[s].verified \in BOOLEAN /\ rating \in Nat
  BY ReviewsAssumption DEF ReviewsTyped
<1>3. /\ b \in ReviewType /\ b.status = "Pending" /\ b.rating = rating /\ ~b.notes
      /\ b.helpful_count = 0 /\ b.unhelpful_count = 0 /\ b.report_count = 0
      /\ ~b.replied /\ ~b.is_edited /\ b.votes = [v \in Voters |-> "None"]
  BY <1>b, <1>2 DEF NoReview, ReviewType
<1>4. Votes(b, "Helpful") = {} /\ Votes(b, "Unhelpful") = {}
  BY <1>3 DEF Votes
<1>5. ReviewSane(b)
  BY <1>3, <1>4, FS_EmptySet DEF ReviewSane
<1>6. reviews' = [reviews EXCEPT ![id] = b] /\ Publish(<<Told("ReviewSubmitted", id, b)>>)
  BY <1>1, <1>b, Zenon DEF Write
<1>7. reviews'[id] = b /\ reviews[id].status = "None"
  BY <1>6 DEF ReviewsTyped, ReviewType, Written
<1>8. ReviewMoved("ReviewSubmitted", reviews[id], b)
  BY <1>3, <1>7 DEF ReviewMoved
<1> QED  BY <1>3, <1>5, <1>6, <1>7, <1>8, Zenon DEF ReviewActs

(* A change of a review that leaves its votes alone.                       *)
LEMMA ChangeActs ==
  ASSUME ReviewsTyped, NEW id \in ReviewIds, NEW t, NEW b, Change(id, b, t), b \in ReviewType,
         ReviewSane(b), ReviewMoved(t, reviews[id], b)
  PROVE  ReviewActs(id, t)
<1>1. reviews' = [reviews EXCEPT ![id] = b] /\ Publish(<<Told(t, id, b)>>)
  BY Zenon DEF Change, Write
<1>2. reviews'[id] = b
  BY <1>1 DEF ReviewsTyped
<1> QED  BY <1>1, <1>2, Zenon DEF ReviewActs

LEMMA SaneStays ==
  ASSUME NEW a, NEW b, ReviewSane(a), a.status # "None", b.rating \in Ratings,
         b.status = "Rejected" => b.notes, b.votes = a.votes,
         b.helpful_count = a.helpful_count, b.unhelpful_count = a.unhelpful_count
  PROVE  ReviewSane(b)
<1>1. Votes(b, "Helpful") = Votes(a, "Helpful") /\ Votes(b, "Unhelpful") = Votes(a, "Unhelpful")
  BY DEF Votes
<1> QED  BY <1>1 DEF ReviewSane

LEMMA CommandActs ==
  ASSUME ReviewsTyped, NEW id \in ReviewIds, ReviewSane(reviews[id]),
         \/ \E rating \in Ratings : edit(id, rating)
         \/ approve(id) \/ reject(id) \/ remove(id) \/ report(id) \/ add_seller_reply(id)
  PROVE  \E t \in ReviewEventType : ReviewActs(id, t)
<1>a. PICK a : a = reviews[id]
  OBVIOUS
<1>t. a \in ReviewType /\ ReviewSane(a)
  BY <1>a DEF ReviewsTyped
<1>m. \A to \in {"Published", "Rejected", "Removed"} :
        to \in MayBecome[a.status] =>
          a.status = IF to = "Removed" THEN "Published" ELSE "Pending"
  BY <1>t DEF MayBecome, ReviewType
<1>r. a.status # "None" => a.rating \in Ratings
  BY <1>t DEF ReviewSane
<1>1. ASSUME NEW rating \in Ratings, edit(id, rating) PROVE ReviewActs(id, "ReviewEdited")
  <2>b. PICK b : b = [a EXCEPT !.status = "Pending", !.rating = rating, !.is_edited = TRUE]
    OBVIOUS
  <2>1. a.status \in {"Pending", "Rejected"} /\ Change(id, b, "ReviewEdited")
    BY <1>1, <1>a, <2>b, Zenon DEF edit
  <2>2. /\ b \in ReviewType /\ b.status = "Pending" /\ b.rating = rating /\ b.is_edited = TRUE
        /\ b.verified = a.verified /\ b.notes = a.notes /\ b.votes = a.votes
        /\ b.helpful_count = a.helpful_count /\ b.unhelpful_count = a.unhelpful_count
        /\ b.report_count = a.report_count /\ b.replied = a.replied
    <3>1. rating \in Nat
      BY ReviewsAssumption
    <3> QED  BY <1>t, <2>b, <3>1 DEF ReviewType
  <2>3. ReviewSane(b)
    BY <1>t, <2>1, <2>2, SaneStays
  <2>4. ReviewMoved("ReviewEdited", a, b)
    BY <2>1, <2>2, ReviewStatusIs DEF ReviewMoved
  <2> QED  BY <1>a, <2>1, <2>2, <2>3, <2>4, ChangeActs
<1>2. ASSUME approve(id) PROVE ReviewActs(id, "ReviewApproved")
  <2>b. PICK b : b = [a EXCEPT !.status = "Published", !.notes = FALSE]
    OBVIOUS
  <2>1. a.status = "Pending" /\ Change(id, b, "ReviewApproved")
    BY <1>2, <1>a, <1>m, <2>b DEF approve
  <2>2. /\ b \in ReviewType /\ b.status = "Published" /\ b.rating = a.rating /\ b.notes = FALSE
        /\ b.verified = a.verified /\ b.is_edited = a.is_edited /\ b.votes = a.votes
        /\ b.helpful_count = a.helpful_count /\ b.unhelpful_count = a.unhelpful_count
        /\ b.report_count = a.report_count /\ b.replied = a.replied
    BY <1>t, <2>b DEF ReviewType
  <2>3. ReviewSane(b)
    BY <1>t, <1>r, <2>1, <2>2, SaneStays
  <2>4. ReviewMoved("ReviewApproved", a, b)
    BY <2>1, <2>2, ReviewStatusIs DEF ReviewMoved
  <2> QED  BY <1>a, <2>1, <2>2, <2>3, <2>4, ChangeActs
<1>3. ASSUME reject(id) PROVE ReviewActs(id, "ReviewRejected")
  <2>b. PICK b : b = [a EXCEPT !.status = "Rejected", !.notes = TRUE]
    OBVIOUS
  <2>1. a.status = "Pending" /\ Change(id, b, "ReviewRejected")
    BY <1>3, <1>a, <1>m, <2>b DEF reject
  <2>2. /\ b \in ReviewType /\ b.status = "Rejected" /\ b.rating = a.rating /\ b.notes = TRUE
        /\ b.verified = a.verified /\ b.is_edited = a.is_edited /\ b.votes = a.votes
        /\ b.helpful_count = a.helpful_count /\ b.unhelpful_count = a.unhelpful_count
        /\ b.report_count = a.report_count /\ b.replied = a.replied
    BY <1>t, <2>b DEF ReviewType
  <2>3. ReviewSane(b)
    BY <1>t, <1>r, <2>1, <2>2, SaneStays
  <2>4. ReviewMoved("ReviewRejected", a, b)
    BY <2>1, <2>2, ReviewStatusIs DEF ReviewMoved
  <2> QED  BY <1>a, <2>1, <2>2, <2>3, <2>4, ChangeActs
<1>4. ASSUME remove(id) PROVE ReviewActs(id, "ReviewRemoved")
  <2>b. PICK b : b = [a EXCEPT !.status = "Removed", !.notes = TRUE]
    OBVIOUS
  <2>1. a.status = "Published" /\ Change(id, b, "ReviewRemoved")
    BY <1>4, <1>a, <1>m, <2>b DEF remove
  <2>2. /\ b \in ReviewType /\ b.status = "Removed" /\ b.rating = a.rating /\ b.notes = TRUE
        /\ b.verified = a.verified /\ b.is_edited = a.is_edited /\ b.votes = a.votes
        /\ b.helpful_count = a.helpful_count /\ b.unhelpful_count = a.unhelpful_count
        /\ b.report_count = a.report_count /\ b.replied = a.replied
    BY <1>t, <2>b DEF ReviewType
  <2>3. ReviewSane(b)
    BY <1>t, <1>r, <2>1, <2>2, SaneStays
  <2>4. ReviewMoved("ReviewRemoved", a, b)
    BY <2>1, <2>2, ReviewStatusIs DEF ReviewMoved
  <2> QED  BY <1>a, <2>1, <2>2, <2>3, <2>4, ChangeActs
<1>5. ASSUME report(id) PROVE ReviewActs(id, "ReviewReported")
  <2>b. PICK b : b = [a EXCEPT !.report_count = @ + 1]
    OBVIOUS
  <2>1. a.status # "None" /\ Change(id, b, "ReviewReported")
    BY <1>5, <1>a, <2>b, Zenon DEF report, MayReact, Written
  <2>2. /\ b \in ReviewType /\ b.status = a.status /\ b.rating = a.rating /\ b.notes = a.notes
        /\ b.verified = a.verified /\ b.is_edited = a.is_edited /\ b.votes = a.votes
        /\ b.helpful_count = a.helpful_count /\ b.unhelpful_count = a.unhelpful_count
        /\ b.report_count = a.report_count + 1 /\ b.replied = a.replied
    BY <1>t, <2>b DEF ReviewType
  <2>3. ReviewSane(b)
    <3>1. b.status = "Rejected" => b.notes
      BY <1>t, <2>1, <2>2 DEF ReviewSane
    <3> QED  BY <1>t, <1>r, <2>1, <2>2, <3>1, SaneStays
  <2>4. ReviewMoved("ReviewReported", a, b)
    BY <2>1, <2>2, ReviewStatusIs DEF ReviewMoved
  <2> QED  BY <1>a, <2>1, <2>2, <2>3, <2>4, ChangeActs
<1>6. ASSUME add_seller_reply(id) PROVE ReviewActs(id, "SellerReplyAdded")
  <2>b. PICK b : b = [a EXCEPT !.replied = TRUE]
    OBVIOUS
  <2>1. a.status = "Published" /\ Change(id, b, "SellerReplyAdded")
    BY <1>6, <1>a, <2>b, Zenon DEF add_seller_reply
  <2>2. /\ b \in ReviewType /\ b.status = a.status /\ b.rating = a.rating /\ b.notes = a.notes
        /\ b.verified = a.verified /\ b.is_edited = a.is_edited /\ b.votes = a.votes
        /\ b.helpful_count = a.helpful_count /\ b.unhelpful_count = a.unhelpful_count
        /\ b.report_count = a.report_count /\ b.replied = TRUE
    BY <1>t, <2>b DEF ReviewType
  <2>3. ReviewSane(b)
    BY <1>t, <1>r, <2>1, <2>2, SaneStays
  <2>4. ReviewMoved("SellerReplyAdded", a, b)
    BY <2>1, <2>2, ReviewStatusIs DEF ReviewMoved
  <2> QED  BY <1>a, <2>1, <2>2, <2>3, <2>4, ChangeActs
<1> QED  BY <1>1, <1>2, <1>3, <1>4, <1>5, <1>6 DEF ReviewEventType

(* A vote is counted with its kind.                                        *)
VotesAre(a, kind, n) == IsFiniteSet(Votes(a, kind)) /\ n = Cardinality(Votes(a, kind))

LEMMA VoteCounts ==
  ASSUME NEW a, a \in ReviewType, NEW b, NEW v, v \in Voters, a.votes[v] = "None",
         NEW cast, cast # "None", b.votes = [a.votes EXCEPT ![v] = cast],
         NEW kind, kind # "None", NEW n, VotesAre(a, kind, n)
  PROVE  VotesAre(b, kind, n + (IF cast = kind THEN 1 ELSE 0))
<1>1. a.votes \in [Voters -> {"None", "Helpful", "Unhelpful"}] /\ n \in Nat
  BY FS_CardinalityType DEF ReviewType, VotesAre
<1>2. CASE cast = kind
  <2>1. Votes(b, kind) = Votes(a, kind) \cup {v} /\ v \notin Votes(a, kind)
    BY <1>1, <1>2 DEF Votes
  <2>2. PICK A : A = Votes(a, kind)
    OBVIOUS
  <2>3. IsFiniteSet(A) /\ n = Cardinality(A) /\ v \notin A /\ Votes(b, kind) = A \cup {v}
    BY <2>1, <2>2 DEF VotesAre
  <2>4. IsFiniteSet(A \cup {v}) /\ Cardinality(A \cup {v}) = Cardinality(A) + 1
    BY <2>3, FS_AddElement
  <2> QED  BY <1>2, <2>3, <2>4 DEF VotesAre
<1>3. CASE cast # kind
  <2>1. Votes(b, kind) = Votes(a, kind)
    BY <1>1, <1>3 DEF Votes
  <2> QED  BY <1>1, <1>3, <2>1 DEF VotesAre
<1> QED  BY <1>2, <1>3

LEMMA VoteActs ==
  ASSUME ReviewsTyped, NEW id \in ReviewIds, ReviewSane(reviews[id]),
         NEW v \in Voters, NEW cast \in {"Helpful", "Unhelpful"}, vote(id, v, cast)
  PROVE  ReviewActs(id, "HelpfulVoteRecorded")
<1>a. PICK a : a = reviews[id]
  OBVIOUS
<1>t. a \in ReviewType /\ ReviewSane(a)
  BY <1>a DEF ReviewsTyped
<1>n. PICK votes, h, u : /\ votes = [a.votes EXCEPT ![v] = cast]
                         /\ h = a.helpful_count + (IF cast = "Helpful" THEN 1 ELSE 0)
                         /\ u = a.unhelpful_count + (IF cast = "Unhelpful" THEN 1 ELSE 0)
  OBVIOUS
<1>b. PICK b : b = [a EXCEPT !.votes = votes, !.helpful_count = h, !.unhelpful_count = u]
  OBVIOUS
<1>1. a.status # "None" /\ a.votes[v] = "None" /\ Change(id, b, "HelpfulVoteRecorded")
  BY <1>a, <1>n, <1>b, <1>t, Zenon DEF vote, MayReact, Written, ReviewType
<1>2. votes \in [Voters -> {"None", "Helpful", "Unhelpful"}] /\ h \in Nat /\ u \in Nat
  BY <1>t, <1>n DEF ReviewType
<1>3. /\ b \in ReviewType /\ b.status = a.status /\ b.rating = a.rating /\ b.notes = a.notes
      /\ b.verified = a.verified /\ b.is_edited = a.is_edited /\ b.votes = votes
      /\ b.helpful_count = h /\ b.unhelpful_count = u
      /\ b.report_count = a.report_count /\ b.replied = a.replied
  BY <1>t, <1>b, <1>2 DEF ReviewType
<1>4. ReviewSane(b)
  <2>1. /\ a.rating \in Ratings
        /\ a.status = "Rejected" => a.notes
        /\ VotesAre(a, "Helpful", a.helpful_count)
        /\ VotesAre(a, "Unhelpful", a.unhelpful_count)
    BY <1>t, <1>1 DEF ReviewSane, VotesAre
  <2>2. b.votes = [a.votes EXCEPT ![v] = cast] /\ cast # "None"
    BY <1>3, <1>n
  <2>3. VotesAre(b, "Helpful", h)
    BY <1>t, <1>n, <1>1, <2>1, <2>2, VoteCounts
  <2>4. VotesAre(b, "Unhelpful", u)
    BY <1>t, <1>n, <1>1, <2>1, <2>2, VoteCounts
  <2> QED  BY <1>3, <2>1, <2>3, <2>4 DEF ReviewSane, VotesAre
<1>5. ReviewMoved("HelpfulVoteRecorded", a, b)
  BY <1>1, <1>3, ReviewStatusIs DEF ReviewMoved
<1> QED  BY <1>a, <1>1, <1>3, <1>4, <1>5, ChangeActs

------------------------------------------------------------------------------
(* One review in a projection that lists reviews; of product_reviews, what *)
(* is told by the events alone.                                            *)
ListingViews == {"moderation_queue", "product_reviews", "review_detail", "customer_reviews"}

ReviewStatuses == {"Pending", "Published", "Rejected", "Removed"}

ReviewEntries(v) ==
  {NoReviewRow} \cup
    CASE v = "moderation_queue" -> [status : {"Pending", "Reported"}, report_count : Nat]
      [] v = "product_reviews" -> [status : {"Published"}, rating : Ratings]
      [] v = "review_detail" ->
           [status : ReviewStatuses, rating : Ratings, helpful_count : Nat,
            unhelpful_count : Nat, report_count : Nat, replied : BOOLEAN, is_edited : BOOLEAN]
      [] v = "customer_reviews" -> [status : ReviewStatuses, rating : Ratings]

(* The entry after an event about the review, if it can be handled.        *)
Apt(v, x, e) ==
  /\ v = "review_detail" /\ e.type # "ReviewSubmitted" => x # NoReviewRow
  /\ v = "customer_reviews" /\ e.type \in {"ReviewApproved", "ReviewRejected", "ReviewRemoved"}
       => x # NoReviewRow

EntryAfter(v, x, e) ==
  CASE v = "moderation_queue" ->
         (CASE e.type = "ReviewSubmitted" -> [status |-> "Pending", report_count |-> 0]
            [] e.type \in {"ReviewApproved", "ReviewRejected", "ReviewRemoved"} -> NoReviewRow
            [] e.type = "ReviewReported" ->
                 [status |-> IF x # NoReviewRow THEN x.status ELSE "Reported",
                  report_count |-> e.report_count]
            [] OTHER -> x)
    [] v = "product_reviews" ->
         (CASE e.type = "ReviewApproved" -> [status |-> "Published", rating |-> e.rating]
            [] e.type = "ReviewRemoved" -> NoReviewRow
            [] OTHER -> x)
    [] v = "review_detail" ->
         (CASE e.type = "ReviewSubmitted" ->
                 [status |-> "Pending", rating |-> e.rating, helpful_count |-> 0,
                  unhelpful_count |-> 0, report_count |-> 0, replied |-> FALSE,
                  is_edited |-> FALSE]
            [] OTHER ->
                 [status |-> IF e.type \in DOMAIN StatusAfterReviewEvent
                             THEN StatusAfterReviewEvent[e.type] ELSE x.status,
                  rating |-> IF e.type = "ReviewEdited" THEN e.rating ELSE x.rating,
                  helpful_count |-> IF e.type = "HelpfulVoteRecorded"
                                    THEN e.helpful_count ELSE x.helpful_count,
                  unhelpful_count |-> IF e.type = "HelpfulVoteRecorded"
                                      THEN e.unhelpful_count ELSE x.unhelpful_count,
                  report_count |-> IF e.type = "ReviewReported"
                                   THEN e.report_count ELSE x.report_count,
                  replied |-> IF e.type = "SellerReplyAdded" THEN TRUE ELSE x.replied,
                  is_edited |-> IF e.type = "ReviewEdited" THEN TRUE ELSE x.is_edited])
    [] v = "customer_reviews" ->
         (CASE e.type \in {"ReviewSubmitted", "ReviewEdited"} ->
                 [status |-> "Pending", rating |-> e.rating]
            [] e.type \in {"ReviewApproved", "ReviewRejected", "ReviewRemoved"} ->
                 [status |-> StatusAfterReviewEvent[e.type], rating |-> x.rating]
            [] OTHER -> x)

EntrySteps(v, id) ==
  {t \in ReviewEntries(v) \X ReviewEvent \X ReviewEntries(v) :
     IF t[2].id = id THEN Apt(v, t[1], t[2]) /\ t[3] = EntryAfter(v, t[1], t[2])
     ELSE t[3] = t[1]}

(* What the entry of review a is to say in the end.                        *)
EntryTold(v, x, a) ==
  CASE v = "moderation_queue" ->
         /\ a.status = "Pending" /\ ~a.notes =>
              x = [status |-> "Pending", report_count |-> a.report_count]
         /\ x # NoReviewRow =>
              /\ x.report_count = a.report_count
              /\ x.status = "Pending" => a.status = "Pending" /\ ~a.notes
              /\ x.status = "Reported" => a.report_count > 0
    [] v = "product_reviews" ->
         x = IF a.status = "Published" THEN [status |-> "Published", rating |-> a.rating]
             ELSE NoReviewRow
    [] v = "review_detail" ->
         x = IF a.status = "None" THEN NoReviewRow
             ELSE [status |-> a.status, rating |-> a.rating, helpful_count |-> a.helpful_count,
                   unhelpful_count |-> a.unhelpful_count, report_count |-> a.report_count,
                   replied |-> a.replied, is_edited |-> a.is_edited]
    [] v = "customer_reviews" ->
         x = IF a.status = "None" THEN NoReviewRow
             ELSE [status |-> a.status, rating |-> a.rating]

------------------------------------------------------------------------------
(* An event that is handled again changes nothing more.                    *)
LEMMA EntrySettles ==
  ASSUME NEW v \in ListingViews, NEW x \in ReviewEntries(v), NEW e \in ReviewEvent, Apt(v, x, e)
  PROVE  LET z == EntryAfter(v, x, e) IN
         z \in ReviewEntries(v) /\ Apt(v, z, e) /\ EntryAfter(v, z, e) = z
<1>z. PICK z : z = EntryAfter(v, x, e)
  OBVIOUS
<1>y. PICK y : y = EntryAfter(v, z, e)
  OBVIOUS
<1>e. /\ e.type \in ReviewEventType /\ e.rating \in Ratings /\ e.report_count \in Nat
      /\ e.helpful_count \in Nat /\ e.unhelpful_count \in Nat
  BY DEF ReviewEvent
<1>t. PICK t : t = e.type
  OBVIOUS
<1>1. CASE v = "moderation_queue"
  <2>1. x = NoReviewRow \/ x \in [status : {"Pending", "Reported"}, report_count : Nat]
    BY <1>1 DEF ReviewEntries
  <2>2. \A w : EntryAfter(v, w, e) =
          CASE t = "ReviewSubmitted" -> [status |-> "Pending", report_count |-> 0]
            [] t \in {"ReviewApproved", "ReviewRejected", "ReviewRemoved"} -> NoReviewRow
            [] t = "ReviewReported" ->
                 [status |-> IF w # NoReviewRow THEN w.status ELSE "Reported",
                  report_count |-> e.report_count]
            [] OTHER -> w
    BY <1>1, <1>t, Zenon DEF EntryAfter
  <2>3. z \in {NoReviewRow} \cup [status : {"Pending", "Reported"}, report_count : Nat]
    BY <1>e, <1>z, <2>1, <2>2
  <2>4. y = z
    <3>1. CASE t = "ReviewReported"
      <4>1. PICK s : s = IF x # NoReviewRow THEN x.status ELSE "Reported"
        OBVIOUS
      <4>2. z = [status |-> s, report_count |-> e.report_count]
        BY <1>z, <2>2, <3>1, <4>1
      <4>3. z.status = s /\ z # NoReviewRow
        BY <2>1, <4>1, <4>2 DEF NoReviewRow
      <4>4. y = [status |-> z.status, report_count |-> e.report_count]
        BY <1>y, <2>2, <3>1, <4>3
      <4> QED  BY <4>2, <4>3, <4>4
    <3>2. CASE t # "ReviewReported"
      BY <1>y, <1>z, <2>2, <3>2
    <3> QED  BY <3>1, <3>2
  <2>5. z \in ReviewEntries(v) /\ Apt(v, z, e)
    BY <1>1, <2>3 DEF ReviewEntries, Apt
  <2> QED  BY <1>y, <1>z, <2>4, <2>5, Zenon
<1>2. CASE v = "product_reviews"
  <2>1. \A w : EntryAfter(v, w, e) =
          CASE t = "ReviewApproved" -> [status |-> "Published", rating |-> e.rating]
            [] t = "ReviewRemoved" -> NoReviewRow
            [] OTHER -> w
    BY <1>2, <1>t, Zenon DEF EntryAfter
  <2>2. z \in ReviewEntries(v) /\ Apt(v, z, e)
    BY <1>2, <1>e, <1>z, <2>1 DEF ReviewEntries, Apt
  <2>3. y = z
    BY <1>y, <1>z, <2>1
  <2> QED  BY <1>y, <1>z, <2>2, <2>3, Zenon
<1>3. CASE v = "review_detail"
  <2> DEFINE Shape == [status : ReviewStatuses, rating : Ratings, helpful_count : Nat,
                       unhelpful_count : Nat, report_count : Nat, replied : BOOLEAN,
                       is_edited : BOOLEAN]
  <2>1. x = NoReviewRow \/ x \in Shape
    BY <1>3 DEF ReviewEntries
  <2>2. t # "ReviewSubmitted" => x \in Shape
    BY <1>3, <1>t, <2>1 DEF Apt
  <2>3. CASE t = "ReviewSubmitted"
    <3>1. \A w : EntryAfter(v, w, e) =
            [status |-> "Pending", rating |-> e.rating, helpful_count |-> 0,
             unhelpful_count |-> 0, report_count |-> 0, replied |-> FALSE, is_edited |-> FALSE]
      BY <1>3, <1>t, <2>3, Zenon DEF EntryAfter
    <3>2. z \in ReviewEntries(v) /\ y = z
      <4>1. z = [status |-> "Pending", rating |-> e.rating, helpful_count |-> 0,
                 unhelpful_count |-> 0, report_count |-> 0, replied |-> FALSE,
                 is_edited |-> FALSE]
        BY <1>z, <3>1, Zenon
      <4>2. y = z
        BY <1>y, <3>1, <4>1, Zenon
      <4>3. z \in Shape
        BY <1>e, <4>1 DEF ReviewStatuses
      <4> QED  BY <1>3, <4>2, <4>3 DEF ReviewEntries
    <3>3. Apt(v, z, e)
      BY <1>3, <1>t, <2>3 DEF Apt
    <3> QED  BY <1>y, <1>z, <3>2, <3>3, Zenon
  <2>4. CASE t # "ReviewSubmitted"
    <3>1. \A w : EntryAfter(v, w, e) =
            [status |-> IF t \in DOMAIN StatusAfterReviewEvent
                        THEN StatusAfterReviewEvent[t] ELSE w.status,
             rating |-> IF t = "ReviewEdited" THEN e.rating ELSE w.rating,
             helpful_count |-> IF t = "HelpfulVoteRecorded"
                               THEN e.helpful_count ELSE w.helpful_count,
             unhelpful_count |-> IF t = "HelpfulVoteRecorded"
                                 THEN e.unhelpful_count ELSE w.unhelpful_count,
             report_count |-> IF t = "ReviewReported" THEN e.report_count ELSE w.report_count,
             replied |-> IF t = "SellerReplyAdded" THEN TRUE ELSE w.replied,
             is_edited |-> IF t = "ReviewEdited" THEN TRUE ELSE w.is_edited]
      BY <1>3, <1>t, <2>4, Zenon DEF EntryAfter
    <3>a. PICK s, g, h, u, n, p, d :
            /\ s = IF t \in DOMAIN StatusAfterReviewEvent
                   THEN StatusAfterReviewEvent[t] ELSE x.status
            /\ g = IF t = "ReviewEdited" THEN e.rating ELSE x.rating
            /\ h = IF t = "HelpfulVoteRecorded" THEN e.helpful_count ELSE x.helpful_count
            /\ u = IF t = "HelpfulVoteRecorded" THEN e.unhelpful_count ELSE x.unhelpful_count
            /\ n = IF t = "ReviewReported" THEN e.report_count ELSE x.report_count
            /\ p = IF t = "SellerReplyAdded" THEN TRUE ELSE x.replied
            /\ d = IF t = "ReviewEdited" THEN TRUE ELSE x.is_edited
      OBVIOUS
    <3>b. /\ s \in ReviewStatuses /\ g \in Ratings /\ h \in Nat /\ u \in Nat /\ n \in Nat
          /\ p \in BOOLEAN /\ d \in BOOLEAN
      BY <1>e, <2>2, <2>4, <3>a, ReviewStatusIs DEF ReviewStatuses
    <3>c. z = [status |-> s, rating |-> g, helpful_count |-> h, unhelpful_count |-> u,
               report_count |-> n, replied |-> p, is_edited |-> d]
      BY <1>z, <3>1, <3>a, Zenon
    <3>2. z \in Shape
      BY <3>b, <3>c
    <3>3. y = z
      <4>1. /\ z.status = s /\ z.rating = g /\ z.helpful_count = h /\ z.unhelpful_count = u
            /\ z.report_count = n /\ z.replied = p /\ z.is_edited = d
        BY <3>c
      <4>2. y = [status |-> IF t \in DOMAIN StatusAfterReviewEvent
                            THEN StatusAfterReviewEvent[t] ELSE s,
                 rating |-> IF t = "ReviewEdited" THEN e.rating ELSE g,
                 helpful_count |-> IF t = "HelpfulVoteRecorded" THEN e.helpful_count ELSE h,
                 unhelpful_count |-> IF t = "HelpfulVoteRecorded" THEN e.unhelpful_count ELSE u,
                 report_count |-> IF t = "ReviewReported" THEN e.report_count ELSE n,
                 replied |-> IF t = "SellerReplyAdded" THEN TRUE ELSE p,
                 is_edited |-> IF t = "ReviewEdited" THEN TRUE ELSE d]
        BY <1>y, <3>1, <4>1
      <4> QED  BY <3>a, <3>c, <4>2
    <3>4. z \in ReviewEntries(v) /\ Apt(v, z, e)
      <4>1. z # NoReviewRow
        <5>1. \A w \in Shape : DOMAIN w # {"status"}
          OBVIOUS
        <5>2. DOMAIN NoReviewRow = {"status"}
          BY DEF NoReviewRow
        <5> QED  BY <3>2, <5>1, <5>2
      <4> QED  BY <1>3, <3>2, <4>1 DEF ReviewEntries, Apt
    <3> QED  BY <1>y, <1>z, <3>3, <3>4, Zenon
  <2> QED  BY <2>3, <2>4
<1>4. CASE v = "customer_reviews"
  <2> DEFINE Shape == [status : ReviewStatuses, rating : Ratings]
  <2>1. x = NoReviewRow \/ x \in Shape
    BY <1>4 DEF ReviewEntries
  <2>2. t \in {"ReviewApproved", "ReviewRejected", "ReviewRemoved"} => x \in Shape
    BY <1>4, <1>t, <2>1 DEF Apt
  <2>3. \A w : EntryAfter(v, w, e) =
          CASE t \in {"ReviewSubmitted", "ReviewEdited"} ->
                 [status |-> "Pending", rating |-> e.rating]
            [] t \in {"ReviewApproved", "ReviewRejected", "ReviewRemoved"} ->
                 [status |-> StatusAfterReviewEvent[t], rating |-> w.rating]
            [] OTHER -> w
    BY <1>4, <1>t, Zenon DEF EntryAfter
  <2>4. /\ z \in {NoReviewRow} \cup Shape
        /\ t \in {"ReviewApproved", "ReviewRejected", "ReviewRemoved"} => z \in Shape
    BY <1>e, <1>z, <2>1, <2>2, <2>3, ReviewStatusIs DEF ReviewStatuses
  <2>5. y = z
    BY <1>y, <1>z, <2>3
  <2>6. z \in ReviewEntries(v) /\ Apt(v, z, e)
    <3>1. \A w \in Shape : w # NoReviewRow
      <4>1. \A w \in Shape : DOMAIN w # {"status"}
        OBVIOUS
      <4>2. DOMAIN NoReviewRow = {"status"}
        BY DEF NoReviewRow
      <4> QED  BY <4>1, <4>2
    <3> QED  BY <1>4, <1>t, <2>4, <3>1 DEF ReviewEntries, Apt
  <2> QED  BY <1>y, <1>z, <2>5, <2>6, Zenon
<1> QED  BY <1>1, <1>2, <1>3, <1>4 DEF ListingViews

(* What the events say of the review takes what is to be said with it.     *)
LEMMA NoEntry ==
  /\ NoReviewRow.status = "None"
  /\ \A s, n : [status |-> s, report_count |-> n] # NoReviewRow
  /\ \A s, n : [status |-> s, rating |-> n] # NoReviewRow
  /\ \A s, g, h, u, n, p, d :
       [status |-> s, rating |-> g, helpful_count |-> h, unhelpful_count |-> u,
        report_count |-> n, replied |-> p, is_edited |-> d] # NoReviewRow
<1>1. DOMAIN NoReviewRow = {"status"} /\ NoReviewRow.status = "None"
  BY DEF NoReviewRow
<1>2. \A s, n : DOMAIN [status |-> s, report_count |-> n] # {"status"}
  OBVIOUS
<1>3. \A s, n : DOMAIN [status |-> s, rating |-> n] # {"status"}
  OBVIOUS
<1>4. \A s, g, h, u, n, p, d :
        DOMAIN [status |-> s, rating |-> g, helpful_count |-> h, unhelpful_count |-> u,
                report_count |-> n, replied |-> p, is_edited |-> d] # {"status"}
  OBVIOUS
<1> QED  BY <1>1, <1>2, <1>3, <1>4

LEMMA ToldIsTyped ==
  ASSUME NEW id \in ReviewIds, NEW t \in ReviewEventType, NEW b \in ReviewType, ReviewSane(b),
         b.status # "None"
  PROVE  LET e == Told(t, id, b) IN
         /\ e \in ReviewEvent /\ e.type = t /\ e.id = id /\ e.rating = b.rating
         /\ e.helpful_count = b.helpful_count /\ e.unhelpful_count = b.unhelpful_count
         /\ e.report_count = b.report_count
<1>1. b.rating \in Ratings
  BY DEF ReviewSane
<1> QED  BY <1>1 DEF Told, ReviewEvent, ReviewType

LEMMA EntryTells ==
  ASSUME NEW v \in ListingViews, NEW x \in ReviewEntries(v), NEW e, e.type \in ReviewEventType,
         NEW a \in ReviewType, NEW b \in ReviewType, ReviewSane(a), ReviewMoved(e.type, a, b),
         e.rating = b.rating, e.helpful_count = b.helpful_count,
         e.unhelpful_count = b.unhelpful_count, e.report_count = b.report_count,
         EntryTold(v, x, a)
  PROVE  Apt(v, x, e) /\ EntryTold(v, EntryAfter(v, x, e), b)
<1>z. PICK z : z = EntryAfter(v, x, e)
  OBVIOUS
<1>t. PICK t : t = e.type
  OBVIOUS
<1>m. ReviewMoved(t, a, b) /\ t \in ReviewEventType
  BY <1>t
<1>n. a.status # "None" <=> t # "ReviewSubmitted"
  BY <1>m DEF ReviewMoved
<1>s. b.status = IF t = "ReviewSubmitted" THEN "Pending"
                 ELSE IF t \in DOMAIN StatusAfterReviewEvent THEN StatusAfterReviewEvent[t]
                 ELSE a.status
  BY <1>m, ReviewStatusIs DEF ReviewMoved
<1>1. CASE v = "moderation_queue"
  <2>1. z = CASE t = "ReviewSubmitted" -> [status |-> "Pending", report_count |-> 0]
              [] t \in {"ReviewApproved", "ReviewRejected", "ReviewRemoved"} -> NoReviewRow
              [] t = "ReviewReported" ->
                   [status |-> IF x # NoReviewRow THEN x.status ELSE "Reported",
                    report_count |-> b.report_count]
              [] OTHER -> x
    BY <1>1, <1>t, <1>z, Zenon DEF EntryAfter
  <2>2. /\ a.status = "Pending" /\ ~a.notes =>
             x = [status |-> "Pending", report_count |-> a.report_count]
        /\ x # NoReviewRow =>
             /\ x.report_count = a.report_count
             /\ x.status = "Pending" => a.status = "Pending" /\ ~a.notes
             /\ x.status = "Reported" => a.report_count > 0
    BY <1>1 DEF EntryTold
  <2>3. a.status = "Rejected" => a.notes
    BY DEF ReviewSane
  <2>4. /\ b.status = "Pending" /\ ~b.notes =>
             z = [status |-> "Pending", report_count |-> b.report_count]
        /\ z # NoReviewRow =>
             /\ z.report_count = b.report_count
             /\ z.status = "Pending" => b.status = "Pending" /\ ~b.notes
             /\ z.status = "Reported" => b.report_count > 0
    <3>1. CASE t = "ReviewSubmitted"
      BY <1>m, <2>1, <3>1 DEF ReviewMoved
    <3>2. CASE t \in {"ReviewApproved", "ReviewRejected", "ReviewRemoved"}
      BY <1>s, <2>1, <3>2, ReviewStatusIs
    <3>3. CASE t = "ReviewReported"
      <4>1. /\ a.report_count \in Nat /\ b.report_count = a.report_count + 1
            /\ b.status = a.status /\ (b.notes <=> a.notes)
        BY <1>m, <3>3, ReviewStatusIs DEF ReviewMoved, ReviewType
      <4>2. CASE x = NoReviewRow
        <5>1. z = [status |-> "Reported", report_count |-> b.report_count]
          BY <2>1, <3>3, <4>2
        <5>2. ~(a.status = "Pending" /\ ~a.notes)
          BY <2>2, <4>2, NoEntry
        <5> QED  BY <4>1, <5>1, <5>2
      <4>3. CASE x # NoReviewRow
        <5>1. z = [status |-> x.status, report_count |-> b.report_count]
          BY <2>1, <3>3, <4>3
        <5>2. a.status = "Pending" /\ ~a.notes => x.status = "Pending"
          BY <2>2
        <5> QED  BY <2>2, <4>1, <4>3, <5>1, <5>2
      <4> QED  BY <4>2, <4>3
    <3>4. CASE t \in {"ReviewEdited", "HelpfulVoteRecorded", "SellerReplyAdded"}
      <4>1. z = x
        BY <2>1, <3>4
      <4>2. /\ b.report_count = a.report_count /\ (b.notes <=> a.notes)
            /\ t = "ReviewEdited" => a.status \in {"Pending", "Rejected"} /\ b.status = "Pending"
            /\ t # "ReviewEdited" => b.status = a.status
        BY <1>m, <1>s, <3>4, ReviewStatusIs DEF ReviewMoved
      <4> QED  BY <2>2, <2>3, <4>1, <4>2
    <3> QED  BY <1>m, <3>1, <3>2, <3>3, <3>4 DEF ReviewEventType
  <2>5. EntryTold(v, z, b) /\ Apt(v, x, e)
    BY <1>1, <2>4 DEF EntryTold, Apt
  <2> QED  BY <1>z, <2>5, Zenon
<1>2. CASE v = "product_reviews"
  <2>1. z = CASE t = "ReviewApproved" -> [status |-> "Published", rating |-> b.rating]
              [] t = "ReviewRemoved" -> NoReviewRow
              [] OTHER -> x
    BY <1>2, <1>t, <1>z, Zenon DEF EntryAfter
  <2>2. x = IF a.status = "Published" THEN [status |-> "Published", rating |-> a.rating]
            ELSE NoReviewRow
    BY <1>2 DEF EntryTold
  <2>3. z = IF b.status = "Published" THEN [status |-> "Published", rating |-> b.rating]
            ELSE NoReviewRow
    <3>1. /\ t = "ReviewEdited" => a.status \in {"Pending", "Rejected"}
          /\ t = "ReviewRejected" => a.status = "Pending"
          /\ t \notin {"ReviewSubmitted", "ReviewEdited"} => b.rating = a.rating
      BY <1>m DEF ReviewMoved
    <3>2. t = "ReviewSubmitted" => a.status = "None"
      BY <1>n
    <3> QED  BY <1>m, <1>s, <2>1, <2>2, <3>1, <3>2, ReviewStatusIs DEF ReviewEventType
  <2>4. EntryTold(v, z, b) /\ Apt(v, x, e)
    BY <1>2, <2>3 DEF EntryTold, Apt
  <2> QED  BY <1>z, <2>4, Zenon
<1>3. CASE v = "review_detail"
  <2>1. x = IF a.status = "None" THEN NoReviewRow
            ELSE [status |-> a.status, rating |-> a.rating, helpful_count |-> a.helpful_count,
                  unhelpful_count |-> a.unhelpful_count, report_count |-> a.report_count,
                  replied |-> a.replied, is_edited |-> a.is_edited]
    BY <1>3 DEF EntryTold
  <2>2. Apt(v, x, e)
    BY <1>3, <1>n, <1>t, <2>1, NoEntry DEF Apt
  <2>3. CASE t = "ReviewSubmitted"
    <3>1. z = [status |-> "Pending", rating |-> b.rating, helpful_count |-> 0,
               unhelpful_count |-> 0, report_count |-> 0, replied |-> FALSE, is_edited |-> FALSE]
      BY <1>3, <1>t, <1>z, <2>3, Zenon DEF EntryAfter
    <3>2. /\ b.status = "Pending" /\ b.helpful_count = 0 /\ b.unhelpful_count = 0
          /\ b.report_count = 0 /\ b.replied = FALSE /\ b.is_edited = FALSE
      BY <1>m, <2>3 DEF ReviewMoved, ReviewType
    <3>3. EntryTold(v, z, b)
      BY <1>3, <3>1, <3>2 DEF EntryTold
    <3> QED  BY <1>z, <2>2, <3>3, Zenon
  <2>4. CASE t # "ReviewSubmitted"
    <3>1. z = [status |-> IF t \in DOMAIN StatusAfterReviewEvent
                          THEN StatusAfterReviewEvent[t] ELSE x.status,
               rating |-> IF t = "ReviewEdited" THEN b.rating ELSE x.rating,
               helpful_count |-> IF t = "HelpfulVoteRecorded"
                                 THEN b.helpful_count ELSE x.helpful_count,
               unhelpful_count |-> IF t = "HelpfulVoteRecorded"
                                   THEN b.unhelpful_count ELSE x.unhelpful_count,
               report_count |-> IF t = "ReviewReported" THEN b.report_count ELSE x.report_count,
               replied |-> IF t = "SellerReplyAdded" THEN TRUE ELSE x.replied,
               is_edited |-> IF t = "ReviewEdited" THEN TRUE ELSE x.is_edited]
      BY <1>3, <1>t, <1>z, <2>4, Zenon DEF EntryAfter
    <3>2. /\ x.status = a.status /\ x.rating = a.rating /\ x.helpful_count = a.helpful_count
          /\ x.unhelpful_count = a.unhelpful_count /\ x.report_count = a.report_count
          /\ x.replied = a.replied /\ x.is_edited = a.is_edited
      BY <1>n, <2>1, <2>4
    <3>3. /\ b.status = IF t \in DOMAIN StatusAfterReviewEvent
                        THEN StatusAfterReviewEvent[t] ELSE x.status
          /\ b.rating = IF t = "ReviewEdited" THEN b.rating ELSE x.rating
          /\ b.helpful_count = IF t = "HelpfulVoteRecorded"
                               THEN b.helpful_count ELSE x.helpful_count
          /\ b.unhelpful_count = IF t = "HelpfulVoteRecorded"
                                 THEN b.unhelpful_count ELSE x.unhelpful_count
          /\ b.report_count = IF t = "ReviewReported" THEN b.report_count ELSE x.report_count
          /\ b.replied = IF t = "SellerReplyAdded" THEN TRUE ELSE x.replied
          /\ b.is_edited = IF t = "ReviewEdited" THEN TRUE ELSE x.is_edited
          /\ b.status # "None"
      <4>1. /\ a.replied \in BOOLEAN /\ b.replied \in BOOLEAN
            /\ a.is_edited \in BOOLEAN /\ b.is_edited \in BOOLEAN
        BY DEF ReviewType
      <4>2. b.status # "None"
        BY <1>n, <1>s, <2>4, ReviewStatusIs
      <4>3. /\ b.replied <=> a.replied \/ t = "SellerReplyAdded"
            /\ b.is_edited <=> a.is_edited \/ t = "ReviewEdited"
        BY <1>m, <2>4 DEF ReviewMoved
      <4>4. /\ b.replied = IF t = "SellerReplyAdded" THEN TRUE ELSE x.replied
            /\ b.is_edited = IF t = "ReviewEdited" THEN TRUE ELSE x.is_edited
        BY <3>2, <4>1, <4>3
      <4> QED  BY <1>m, <1>s, <2>4, <3>2, <4>2, <4>4 DEF ReviewMoved
    <3>4. z = [status |-> b.status, rating |-> b.rating, helpful_count |-> b.helpful_count,
               unhelpful_count |-> b.unhelpful_count, report_count |-> b.report_count,
               replied |-> b.replied, is_edited |-> b.is_edited]
      BY <3>1, <3>3, Zenon
    <3>5. EntryTold(v, z, b)
      BY <1>3, <3>3, <3>4 DEF EntryTold
    <3> QED  BY <1>z, <2>2, <3>5, Zenon
  <2> QED  BY <2>3, <2>4
<1>4. CASE v = "customer_reviews"
  <2>1. x = IF a.status = "None" THEN NoReviewRow
            ELSE [status |-> a.status, rating |-> a.rating]
    BY <1>4 DEF EntryTold
  <2>2. Apt(v, x, e)
    BY <1>4, <1>n, <1>t, <2>1, NoEntry DEF Apt
  <2>3. z = CASE t \in {"ReviewSubmitted", "ReviewEdited"} ->
                   [status |-> "Pending", rating |-> b.rating]
              [] t \in {"ReviewApproved", "ReviewRejected", "ReviewRemoved"} ->
                   [status |-> StatusAfterReviewEvent[t], rating |-> x.rating]
              [] OTHER -> x
    BY <1>4, <1>t, <1>z, Zenon DEF EntryAfter
  <2>4. z = [status |-> b.status, rating |-> b.rating] /\ b.status # "None"
    <3>1. /\ t \notin {"ReviewSubmitted", "ReviewEdited"} => b.rating = a.rating
          /\ t # "ReviewSubmitted" => a.status # "None"
      BY <1>m DEF ReviewMoved
    <3>2. x = [status |-> a.status, rating |-> a.rating] \/ t = "ReviewSubmitted"
      BY <2>1, <3>1
    <3> QED  BY <1>m, <1>s, <2>3, <3>1, <3>2, ReviewStatusIs DEF ReviewEventType
  <2>5. EntryTold(v, z, b)
    BY <1>4, <2>4 DEF EntryTold
  <2> QED  BY <1>z, <2>2, <2>5, Zenon
<1> QED  BY <1>1, <1>2, <1>3, <1>4 DEF ListingViews

(* What the projector writes is what becomes of the entry of the review.   *)
ProductEntry ==
  [status : {"Published"}, rating : Ratings, helpful_count : Nat, unhelpful_count : Nat,
   replied : BOOLEAN]

EntryOf(v, x) ==
  IF v = "product_reviews" /\ x # NoReviewRow THEN [status |-> x.status, rating |-> x.rating]
  ELSE x

ReviewRows(v) == IF v = "product_reviews" THEN {NoReviewRow} \cup ProductEntry ELSE ReviewEntries(v)

(* A row of product_reviews, with the votes and the reply of review a.     *)
ProductAfter(x, e, a) ==
  CASE e.type = "ReviewApproved" ->
         [status |-> "Published", rating |-> e.rating, helpful_count |-> a.helpful_count,
          unhelpful_count |-> a.unhelpful_count, replied |-> a.replied]
    [] e.type = "ReviewRemoved" -> NoReviewRow
    [] e.type = "HelpfulVoteRecorded" /\ x # NoReviewRow ->
         [status |-> x.status, rating |-> x.rating, helpful_count |-> e.helpful_count,
          unhelpful_count |-> e.unhelpful_count, replied |-> x.replied]
    [] e.type = "SellerReplyAdded" /\ x # NoReviewRow ->
         [status |-> x.status, rating |-> x.rating, helpful_count |-> x.helpful_count,
          unhelpful_count |-> x.unhelpful_count, replied |-> TRUE]
    [] OTHER -> x

ReviewRowAfter(v, x, e, a) ==
  IF v = "product_reviews" THEN ProductAfter(x, e, a) ELSE EntryAfter(v, x, e)

LEMMA ProductSettles ==
  ASSUME NEW e \in ReviewEvent, NEW a \in ReviewType, NEW x \in {NoReviewRow} \cup ProductEntry
  PROVE  LET z == ProductAfter(x, e, a) IN
         /\ z \in {NoReviewRow} \cup ProductEntry
         /\ EntryOf("product_reviews", z) =
              EntryAfter("product_reviews", EntryOf("product_reviews", x), e)
<1>z. PICK z : z = ProductAfter(x, e, a)
  OBVIOUS
<1>t. PICK t : t = e.type
  OBVIOUS
<1>e. /\ e.rating \in Ratings /\ e.helpful_count \in Nat /\ e.unhelpful_count \in Nat
      /\ a.helpful_count \in Nat /\ a.unhelpful_count \in Nat /\ a.replied \in BOOLEAN
  BY DEF ReviewEvent, ReviewType
<1>n. \A w \in ProductEntry : w # NoReviewRow
  <2>1. \A w \in ProductEntry : w.status = "Published"
    BY DEF ProductEntry
  <2> QED  BY <2>1, NoEntry
<1>1. \A w : EntryAfter("product_reviews", w, e) =
        CASE t = "ReviewApproved" -> [status |-> "Published", rating |-> e.rating]
          [] t = "ReviewRemoved" -> NoReviewRow
          [] OTHER -> w
  BY <1>t, Zenon DEF EntryAfter
<1>2. /\ \A w \in ProductEntry :
           EntryOf("product_reviews", w) = [status |-> w.status, rating |-> w.rating]
      /\ EntryOf("product_reviews", NoReviewRow) = NoReviewRow
  BY <1>n DEF EntryOf
<1>3. CASE t = "ReviewApproved"
  <2>1. z = [status |-> "Published", rating |-> e.rating, helpful_count |-> a.helpful_count,
             unhelpful_count |-> a.unhelpful_count, replied |-> a.replied]
    BY <1>t, <1>z, <1>3 DEF ProductAfter
  <2>2. z \in ProductEntry /\ z.status = "Published" /\ z.rating = e.rating
    BY <1>e, <2>1 DEF ProductEntry
  <2>3. EntryAfter("product_reviews", EntryOf("product_reviews", x), e) =
          [status |-> "Published", rating |-> e.rating]
    BY <1>1, <1>3
  <2> QED  BY <1>z, <1>2, <2>2, <2>3
<1>4. CASE t = "ReviewRemoved"
  <2>1. z = NoReviewRow
    BY <1>t, <1>z, <1>4 DEF ProductAfter
  <2> QED  BY <1>z, <1>1, <1>2, <1>4, <2>1
<1>5. CASE t \in {"HelpfulVoteRecorded", "SellerReplyAdded"} /\ x # NoReviewRow
  <2>1. PICK h, u, p : /\ h = IF t = "HelpfulVoteRecorded" THEN e.helpful_count ELSE x.helpful_count
                       /\ u = IF t = "HelpfulVoteRecorded" THEN e.unhelpful_count
                              ELSE x.unhelpful_count
                       /\ p = IF t = "SellerReplyAdded" THEN TRUE ELSE x.replied
    OBVIOUS
  <2>2. x \in ProductEntry
    BY <1>5
  <2>3. z = [status |-> x.status, rating |-> x.rating, helpful_count |-> h,
             unhelpful_count |-> u, replied |-> p]
    BY <1>t, <1>z, <1>5, <2>1 DEF ProductAfter
  <2>4. h \in Nat /\ u \in Nat /\ p \in BOOLEAN
    BY <1>e, <2>1, <2>2 DEF ProductEntry
  <2>5. z \in ProductEntry /\ z.status = x.status /\ z.rating = x.rating
    BY <2>2, <2>3, <2>4 DEF ProductEntry
  <2>6. EntryAfter("product_reviews", EntryOf("product_reviews", x), e) =
          EntryOf("product_reviews", x)
    BY <1>1, <1>5
  <2> QED  BY <1>z, <1>2, <2>2, <2>5, <2>6
<1>6. CASE /\ t \notin {"ReviewApproved", "ReviewRemoved"}
           /\ t \in {"HelpfulVoteRecorded", "SellerReplyAdded"} => x = NoReviewRow
  <2>1. z = x
    BY <1>t, <1>z, <1>6 DEF ProductAfter
  <2> QED  BY <1>z, <1>1, <1>6, <2>1
<1> QED  BY <1>3, <1>4, <1>5, <1>6

(* Of an entry, in the projector's terms.                                  *)
LEMMA RowProjects ==
  ASSUME ReviewsTyped, view \in ListingViews, row \in [ReviewIds -> ReviewRows(view)],
         NEW e \in ReviewEvent, Apt(view, EntryOf(view, row[e.id]), e)
  PROVE  ReviewProjected(row, e) =
           [row EXCEPT ![e.id] = ReviewRowAfter(view, row[e.id], e, reviews[e.id])]
<1>r. PICK r : r = row
  OBVIOUS
<1>i. PICK i \in ReviewIds : i = e.id
  BY DEF ReviewEvent
<1>t. PICK t : t = e.type
  OBVIOUS
<1>x. PICK x : x = r[i]
  OBVIOUS
<1>a. PICK a : a = reviews[i]
  OBVIOUS
<1>e. e.rating \in Ratings /\ e.helpful_count \in Nat /\ e.unhelpful_count \in Nat
  BY DEF ReviewEvent
<1>k. r \in [ReviewIds -> ReviewRows(view)] /\ x \in ReviewRows(view) /\ [r EXCEPT ![i] = x] = r
  BY <1>r, <1>x
<1>o. view # "product_reviews" => ReviewRows(view) = ReviewEntries(view) /\ EntryOf(view, x) = x
  BY DEF ReviewRows, EntryOf
<1>1. CASE view = "moderation_queue"
  <2>1. EntryAfter(view, x, e) =
          CASE t = "ReviewSubmitted" -> [status |-> "Pending", report_count |-> 0]
            [] t \in {"ReviewApproved", "ReviewRejected", "ReviewRemoved"} -> NoReviewRow
            [] t = "ReviewReported" ->
                 [status |-> IF x # NoReviewRow THEN x.status ELSE "Reported",
                  report_count |-> e.report_count]
            [] OTHER -> x
    BY <1>1, <1>t, Zenon DEF EntryAfter
  <2>2. on_moderation_queue(r, e) = [r EXCEPT ![i] = EntryAfter(view, x, e)]
    <3>1. CASE t = "ReviewReported"
      <4>1. on_moderation_queue(r, e) =
              [r EXCEPT ![i] = [status |-> IF IsListed(r, i) THEN r[i].status ELSE "Reported",
                                report_count |-> e.report_count]]
        BY <1>i, <1>t, <3>1 DEF on_moderation_queue
      <4> QED  BY <1>x, <2>1, <3>1, <4>1, Zenon DEF IsListed
    <3>2. CASE t # "ReviewReported"
      BY <1>i, <1>t, <1>k, <2>1, <3>2 DEF on_moderation_queue
    <3> QED  BY <3>1, <3>2
  <2> QED  BY <1>1, <1>i, <1>r, <1>x, <2>2 DEF ReviewProjected, ReviewRowAfter
<1>2. CASE view = "product_reviews"
  <2>1. x = NoReviewRow \/ x \in ProductEntry
    BY <1>2, <1>k DEF ReviewRows
  <2>l. IsListed(r, i) <=> x # NoReviewRow
    BY <1>x DEF IsListed
  <2>2. on_product_reviews(r, e) = [r EXCEPT ![i] = ProductAfter(x, e, a)]
    <3>1. CASE t = "HelpfulVoteRecorded" /\ x # NoReviewRow
      <4>1. [x EXCEPT !.helpful_count = e.helpful_count, !.unhelpful_count = e.unhelpful_count] =
              [status |-> x.status, rating |-> x.rating, helpful_count |-> e.helpful_count,
               unhelpful_count |-> e.unhelpful_count, replied |-> x.replied]
        <5>1. PICK y : y = [x EXCEPT !.helpful_count = e.helpful_count,
                                     !.unhelpful_count = e.unhelpful_count]
          OBVIOUS
        <5>2. e.helpful_count \in Nat /\ e.unhelpful_count \in Nat /\ x \in ProductEntry
          BY <2>1, <3>1 DEF ReviewEvent
        <5>3. /\ y \in ProductEntry /\ y.status = x.status /\ y.rating = x.rating
              /\ y.helpful_count = e.helpful_count /\ y.unhelpful_count = e.unhelpful_count
              /\ y.replied = x.replied
          BY <5>1, <5>2 DEF ProductEntry
        <5>4. y = [status |-> y.status, rating |-> y.rating, helpful_count |-> y.helpful_count,
                   unhelpful_count |-> y.unhelpful_count, replied |-> y.replied]
          BY <5>3 DEF ProductEntry
        <5> QED  BY <5>1, <5>3, <5>4, Zenon
      <4>2. on_product_reviews(r, e) =
              [r EXCEPT ![i] = [x EXCEPT !.helpful_count = e.helpful_count,
                                         !.unhelpful_count = e.unhelpful_count]]
        BY <1>i, <1>t, <1>x, <2>l, <3>1 DEF on_product_reviews
      <4>3. ProductAfter(x, e, a) =
              [status |-> x.status, rating |-> x.rating, helpful_count |-> e.helpful_count,
               unhelpful_count |-> e.unhelpful_count, replied |-> x.replied]
        BY <1>t, <3>1 DEF ProductAfter
      <4> QED  BY <4>1, <4>2, <4>3
    <3>2. CASE t = "SellerReplyAdded" /\ x # NoReviewRow
      <4>1. [x EXCEPT !.replied = TRUE] =
              [status |-> x.status, rating |-> x.rating, helpful_count |-> x.helpful_count,
               unhelpful_count |-> x.unhelpful_count, replied |-> TRUE]
        <5>1. PICK y : y = [x EXCEPT !.replied = TRUE]
          OBVIOUS
        <5>2. x \in ProductEntry
          BY <2>1, <3>2
        <5>3. /\ y \in ProductEntry /\ y.status = x.status /\ y.rating = x.rating
              /\ y.helpful_count = x.helpful_count /\ y.unhelpful_count = x.unhelpful_count
              /\ y.replied = TRUE
          BY <5>1, <5>2 DEF ProductEntry
        <5>4. y = [status |-> y.status, rating |-> y.rating, helpful_count |-> y.helpful_count,
                   unhelpful_count |-> y.unhelpful_count, replied |-> y.replied]
          BY <5>3 DEF ProductEntry
        <5> QED  BY <5>1, <5>3, <5>4, Zenon
      <4>2. on_product_reviews(r, e) = [r EXCEPT ![i] = [x EXCEPT !.replied = TRUE]]
        BY <1>i, <1>t, <1>x, <2>l, <3>2 DEF on_product_reviews
      <4>3. ProductAfter(x, e, a) =
              [status |-> x.status, rating |-> x.rating, helpful_count |-> x.helpful_count,
               unhelpful_count |-> x.unhelpful_count, replied |-> TRUE]
        BY <1>t, <3>2 DEF ProductAfter
      <4> QED  BY <4>1, <4>2, <4>3
    <3>3. CASE t = "ReviewApproved"
      BY <1>i, <1>t, <1>a, <3>3 DEF on_product_reviews, ProductAfter
    <3>4. CASE t = "ReviewRemoved"
      BY <1>i, <1>t, <3>4 DEF on_product_reviews, ProductAfter
    <3>5. CASE /\ t \notin {"ReviewApproved", "ReviewRemoved"}
               /\ t \in {"HelpfulVoteRecorded", "SellerReplyAdded"} => x = NoReviewRow
      <4>1. ProductAfter(x, e, a) = x
        BY <1>t, <3>5 DEF ProductAfter
      <4>2. on_product_reviews(r, e) = r
        BY <1>i, <1>t, <2>l, <3>5 DEF on_product_reviews
      <4> QED  BY <1>k, <4>1, <4>2
    <3> QED  BY <3>1, <3>2, <3>3, <3>4, <3>5
  <2> QED  BY <1>2, <1>a, <1>i, <1>r, <1>x, <2>2 DEF ReviewProjected, ReviewRowAfter
<1>3. CASE view = "review_detail"
  <2> DEFINE Shape == [status : ReviewStatuses, rating : Ratings, helpful_count : Nat,
                       unhelpful_count : Nat, report_count : Nat, replied : BOOLEAN,
                       is_edited : BOOLEAN]
  <2>1. t # "ReviewSubmitted" => x \in Shape
    <3>1. x \in ReviewEntries(view) /\ (t # "ReviewSubmitted" => x # NoReviewRow)
      BY <1>3, <1>i, <1>k, <1>o, <1>r, <1>t, <1>x DEF Apt
    <3> QED  BY <1>3, <3>1 DEF ReviewEntries
  <2>2. CASE t = "ReviewSubmitted"
    <3>1. EntryAfter(view, x, e) =
            [status |-> "Pending", rating |-> e.rating, helpful_count |-> 0,
             unhelpful_count |-> 0, report_count |-> 0, replied |-> FALSE, is_edited |-> FALSE]
      BY <1>3, <1>t, <2>2, Zenon DEF EntryAfter
    <3>2. on_review_detail(r, e) = [r EXCEPT ![i] = EntryAfter(view, x, e)]
      BY <1>i, <1>t, <2>2, <3>1 DEF on_review_detail
    <3> QED  BY <1>3, <1>i, <1>r, <1>x, <3>2 DEF ReviewProjected, ReviewRowAfter
  <2>3. CASE t # "ReviewSubmitted"
    <3>1. EntryAfter(view, x, e) =
            [status |-> IF t \in DOMAIN StatusAfterReviewEvent
                        THEN StatusAfterReviewEvent[t] ELSE x.status,
             rating |-> IF t = "ReviewEdited" THEN e.rating ELSE x.rating,
             helpful_count |-> IF t = "HelpfulVoteRecorded"
                               THEN e.helpful_count ELSE x.helpful_count,
             unhelpful_count |-> IF t = "HelpfulVoteRecorded"
                                 THEN e.unhelpful_count ELSE x.unhelpful_count,
             report_count |-> IF t = "ReviewReported" THEN e.report_count ELSE x.report_count,
             replied |-> IF t = "SellerReplyAdded" THEN TRUE ELSE x.replied,
             is_edited |-> IF t = "ReviewEdited" THEN TRUE ELSE x.is_edited]
      BY <1>3, <1>t, <2>3, Zenon DEF EntryAfter
    <3>2. PICK s, g, h, u, n, p, d :
            /\ s = x.status /\ g = x.rating /\ h = x.helpful_count /\ u = x.unhelpful_count
            /\ n = x.report_count /\ p = x.replied /\ d = x.is_edited
      OBVIOUS
    <3>3. x = [status |-> s, rating |-> g, helpful_count |-> h, unhelpful_count |-> u,
               report_count |-> n, replied |-> p, is_edited |-> d]
      BY <2>1, <2>3, <3>2
    <3>4. CASE t = "ReviewEdited"
      <4>1. EntryAfter(view, x, e) =
              [status |-> "Pending", rating |-> e.rating, helpful_count |-> h,
               unhelpful_count |-> u, report_count |-> n, replied |-> p, is_edited |-> TRUE]
        BY <3>1, <3>2, <3>4, ReviewStatusIs
      <4>2. [x EXCEPT !.status = "Pending", !.rating = e.rating, !.is_edited = TRUE] =
              [status |-> "Pending", rating |-> e.rating, helpful_count |-> h,
               unhelpful_count |-> u, report_count |-> n, replied |-> p, is_edited |-> TRUE]
        <5>1. PICK y : y = [x EXCEPT !.status = "Pending", !.rating = e.rating, !.is_edited = TRUE]
          OBVIOUS
        <5>2. x \in Shape /\ e.rating \in Ratings
          BY <1>e, <2>1, <2>3
        <5>3. /\ y \in Shape /\ y.status = "Pending" /\ y.rating = e.rating /\ y.helpful_count = h
              /\ y.unhelpful_count = u /\ y.report_count = n /\ y.replied = p
              /\ y.is_edited = TRUE
          BY <3>2, <5>1, <5>2 DEF ReviewStatuses
        <5>4. y = [status |-> y.status, rating |-> y.rating, helpful_count |-> y.helpful_count,
                   unhelpful_count |-> y.unhelpful_count, report_count |-> y.report_count,
                   replied |-> y.replied, is_edited |-> y.is_edited]
          BY <5>3
        <5> QED  BY <5>1, <5>3, <5>4, Zenon
      <4>3. on_review_detail(r, e) =
              [r EXCEPT ![i] = [x EXCEPT !.status = "Pending", !.rating = e.rating,
                                         !.is_edited = TRUE]]
        BY <1>i, <1>t, <1>x, <3>4 DEF on_review_detail
      <4> QED  BY <1>3, <1>i, <1>r, <1>x, <4>1, <4>2, <4>3 DEF ReviewProjected, ReviewRowAfter
    <3>5. CASE t = "HelpfulVoteRecorded"
      <4>1. EntryAfter(view, x, e) =
              [status |-> s, rating |-> g, helpful_count |-> e.helpful_count,
               unhelpful_count |-> e.unhelpful_count, report_count |-> n, replied |-> p,
               is_edited |-> d]
        BY <3>1, <3>2, <3>5, ReviewStatusIs
      <4>2. [x EXCEPT !.helpful_count = e.helpful_count, !.unhelpful_count = e.unhelpful_count] =
              [status |-> s, rating |-> g, helpful_count |-> e.helpful_count,
               unhelpful_count |-> e.unhelpful_count, report_count |-> n, replied |-> p,
               is_edited |-> d]
        <5>1. PICK y : y = [x EXCEPT !.helpful_count = e.helpful_count,
                                     !.unhelpful_count = e.unhelpful_count]
          OBVIOUS
        <5>2. x \in Shape /\ e.helpful_count \in Nat /\ e.unhelpful_count \in Nat
          BY <1>e, <2>1, <2>3
        <5>3. /\ y \in Shape /\ y.status = s /\ y.rating = g /\ y.helpful_count = e.helpful_count
              /\ y.unhelpful_count = e.unhelpful_count /\ y.report_count = n /\ y.replied = p
              /\ y.is_edited = d
          BY <3>2, <5>1, <5>2 DEF ReviewStatuses
        <5>4. y = [status |-> y.status, rating |-> y.rating, helpful_count |-> y.helpful_count,
                   unhelpful_count |-> y.unhelpful_count, report_count |-> y.report_count,
                   replied |-> y.replied, is_edited |-> y.is_edited]
          BY <5>3
        <5> QED  BY <5>1, <5>3, <5>4, Zenon
      <4>3. on_review_detail(r, e) =
              [r EXCEPT ![i] = [x EXCEPT !.helpful_count = e.helpful_count,
                                         !.unhelpful_count = e.unhelpful_count]]
        BY <1>i, <1>t, <1>x, <3>5 DEF on_review_detail
      <4> QED  BY <1>3, <1>i, <1>r, <1>x, <4>1, <4>2, <4>3 DEF ReviewProjected, ReviewRowAfter
    <3>6. CASE t = "ReviewReported"
      <4>1. EntryAfter(view, x, e) =
              [status |-> s, rating |-> g, helpful_count |-> h, unhelpful_count |-> u,
               report_count |-> e.report_count, replied |-> p, is_edited |-> d]
        BY <3>1, <3>2, <3>6, ReviewStatusIs
      <4>2. [x EXCEPT !.report_count = e.report_count] = EntryAfter(view, x, e)
        BY <3>3, <4>1
      <4>3. on_review_detail(r, e) = [r EXCEPT ![i] = [x EXCEPT !.report_count = e.report_count]]
        BY <1>i, <1>t, <1>x, <3>6 DEF on_review_detail
      <4> QED  BY <1>3, <1>i, <1>r, <1>x, <4>2, <4>3 DEF ReviewProjected, ReviewRowAfter
    <3>7. CASE t = "SellerReplyAdded"
      <4>1. EntryAfter(view, x, e) =
              [status |-> s, rating |-> g, helpful_count |-> h, unhelpful_count |-> u,
               report_count |-> n, replied |-> TRUE, is_edited |-> d]
        BY <3>1, <3>2, <3>7, ReviewStatusIs
      <4>2. [x EXCEPT !.replied = TRUE] = EntryAfter(view, x, e)
        <5>1. PICK y : y = [x EXCEPT !.replied = TRUE]
          OBVIOUS
        <5>2. x \in Shape
          BY <1>e, <2>1, <2>3
        <5>3. /\ y \in Shape /\ y.status = s /\ y.rating = g /\ y.helpful_count = h
              /\ y.unhelpful_count = u /\ y.report_count = n /\ y.replied = TRUE
              /\ y.is_edited = d
          BY <3>2, <5>1, <5>2 DEF ReviewStatuses
        <5>4. y = [status |-> y.status, rating |-> y.rating, helpful_count |-> y.helpful_count,
                   unhelpful_count |-> y.unhelpful_count, report_count |-> y.report_count,
                   replied |-> y.replied, is_edited |-> y.is_edited]
          BY <5>3
        <5> QED  BY <4>1, <5>1, <5>3, <5>4, Zenon
      <4>3. on_review_detail(r, e) = [r EXCEPT ![i] = [x EXCEPT !.replied = TRUE]]
        BY <1>i, <1>t, <1>x, <3>7 DEF on_review_detail
      <4> QED  BY <1>3, <1>i, <1>r, <1>x, <4>2, <4>3 DEF ReviewProjected, ReviewRowAfter
    <3>8. CASE t \in {"ReviewApproved", "ReviewRejected", "ReviewRemoved"}
      <4>1. EntryAfter(view, x, e) =
              [status |-> StatusAfterReviewEvent[t], rating |-> g, helpful_count |-> h,
               unhelpful_count |-> u, report_count |-> n, replied |-> p, is_edited |-> d]
        BY <3>1, <3>2, <3>8, ReviewStatusIs
      <4>2. [x EXCEPT !.status = StatusAfterReviewEvent[t]] = EntryAfter(view, x, e)
        BY <3>3, <4>1
      <4>3. on_review_detail(r, e) = [r EXCEPT ![i] = [x EXCEPT !.status =
                                                         StatusAfterReviewEvent[t]]]
        BY <1>i, <1>t, <1>x, <3>8 DEF on_review_detail
      <4> QED  BY <1>3, <1>i, <1>r, <1>x, <4>2, <4>3 DEF ReviewProjected, ReviewRowAfter
    <3> QED  BY <1>t, <2>3, <3>4, <3>5, <3>6, <3>7, <3>8 DEF ReviewEvent, ReviewEventType
  <2> QED  BY <2>2, <2>3
<1>4. CASE view = "customer_reviews"
  <2>1. EntryAfter(view, x, e) =
          CASE t \in {"ReviewSubmitted", "ReviewEdited"} ->
                 [status |-> "Pending", rating |-> e.rating]
            [] t \in {"ReviewApproved", "ReviewRejected", "ReviewRemoved"} ->
                 [status |-> StatusAfterReviewEvent[t], rating |-> x.rating]
            [] OTHER -> x
    BY <1>4, <1>t, Zenon DEF EntryAfter
  <2>2. on_customer_reviews(r, e) = [r EXCEPT ![i] = EntryAfter(view, x, e)]
    <3>1. CASE t \in {"ReviewApproved", "ReviewRejected", "ReviewRemoved"}
      <4>1. x \in ReviewEntries(view) /\ x # NoReviewRow
        BY <1>4, <1>i, <1>k, <1>o, <1>r, <1>t, <1>x, <3>1 DEF Apt
      <4>2. x \in [status : ReviewStatuses, rating : Ratings]
        BY <1>4, <4>1 DEF ReviewEntries
      <4>3. [x EXCEPT !.status = StatusAfterReviewEvent[t]] =
              [status |-> StatusAfterReviewEvent[t], rating |-> x.rating]
        BY <4>2
      <4>4. on_customer_reviews(r, e) = [r EXCEPT ![i] = [x EXCEPT !.status =
                                                            StatusAfterReviewEvent[t]]]
        BY <1>i, <1>t, <1>x, <3>1 DEF on_customer_reviews
      <4> QED  BY <2>1, <3>1, <4>3, <4>4
    <3>2. CASE t \notin {"ReviewApproved", "ReviewRejected", "ReviewRemoved"}
      BY <1>i, <1>t, <1>k, <2>1, <3>2 DEF on_customer_reviews
    <3> QED  BY <3>1, <3>2
  <2> QED  BY <1>4, <1>i, <1>r, <1>x, <2>2 DEF ReviewProjected, ReviewRowAfter
<1> QED  BY <1>1, <1>2, <1>3, <1>4 DEF ListingViews

------------------------------------------------------------------------------
(* Of events ahead of a projector the last one of W tells the present, as  *)
(* those of C do; where there is none, x shows it already, as R says.      *)
LastTells(events, W, C, x, R) ==
  \/ /\ \A k \in 1..Len(events) : events[k] \notin W
     /\ x \in R
  \/ \E k \in 1..Len(events) :
       /\ events[k] \in W /\ events[k] \in C
       /\ \A j \in 1..Len(events) : j > k => events[j] \notin W

(* An event of W is published that tells the present, or another event.    *)
LEMMA LastMore ==
  ASSUME NEW E, NEW events \in Seq(E), NEW e \in E, NEW W, NEW C, NEW D, NEW x, NEW R, NEW S,
         \/ e \in W /\ e \in D
         \/ /\ e \notin W /\ LastTells(events, W, C, x, R)
            /\ \A f \in W : f \in C => f \in D
            /\ x \in R => x \in S
  PROVE  LastTells(events \o <<e>>, W, D, x, S)
<1> DEFINE n == Len(events)
           more == events \o <<e>>
<1>1. /\ n \in Nat /\ Len(more) = n + 1
      /\ more[n + 1] = e /\ \A k \in 1..n : more[k] = events[k]
  OBVIOUS
<1> HIDE DEF more, n
<1>2. CASE e \in W /\ e \in D
  <2>1. n + 1 \in 1..(n + 1) /\ \A j \in 1..(n + 1) : ~(j > n + 1)
    BY <1>1
  <2> QED  BY <1>1, <1>2, <2>1 DEF LastTells, more
<1>3. CASE /\ e \notin W /\ LastTells(events, W, C, x, R)
           /\ \A f \in W : f \in C => f \in D
           /\ x \in R => x \in S
  <2>1. CASE (\A k \in 1..n : events[k] \notin W) /\ x \in R
    <3>1. \A k \in 1..(n + 1) : more[k] \notin W
      BY <1>1, <1>3, <2>1
    <3> QED  BY <1>1, <1>3, <2>1, <3>1 DEF LastTells, more
  <2>2. ASSUME NEW k \in 1..n, events[k] \in W /\ events[k] \in C,
               \A j \in 1..n : j > k => events[j] \notin W
        PROVE  LastTells(more, W, D, x, S)
    <3>1. k \in 1..(n + 1) /\ more[k] \in W /\ more[k] \in D
      BY <1>1, <1>3, <2>2
    <3>2. \A j \in 1..(n + 1) : j > k => more[j] \notin W
      BY <1>1, <1>3, <2>2
    <3> QED  BY <1>1, <3>1, <3>2 DEF LastTells
  <2> QED  BY <1>3, <2>1, <2>2 DEF LastTells, n, more
<1> QED  BY <1>2, <1>3

(* The oldest event is read, and acknowledged or not.                      *)
LEMMA LastRead ==
  ASSUME NEW E, NEW events \in Seq(E), events # << >>, NEW W, NEW C, NEW x, NEW z, NEW R,
         LastTells(events, W, C, x, R),
         (Head(events) \in W /\ Head(events) \in C) \/ (Head(events) \notin W /\ x \in R)
           => z \in R
  PROVE  LastTells(Tail(events), W, C, z, R) /\ LastTells(events, W, C, z, R)
<1> DEFINE n == Len(events)
           rest == Tail(events)
<1>1. /\ n \in Nat \ {0} /\ Len(rest) = n - 1 /\ events[1] = Head(events)
      /\ \A k \in 1..(n - 1) : rest[k] = events[k + 1]
  OBVIOUS
<1> HIDE DEF rest, n
<1>2. CASE (\A k \in 1..n : events[k] \notin W) /\ x \in R
  <2>1. Head(events) \notin W
    BY <1>1, <1>2
  <2>2. z \in R
    BY <1>2, <2>1
  <2>3. \A k \in 1..(n - 1) : rest[k] \notin W
    BY <1>1, <1>2
  <2> QED  BY <1>1, <1>2, <2>2, <2>3 DEF LastTells, n, rest
<1>3. ASSUME NEW k \in 1..n, events[k] \in W /\ events[k] \in C,
             \A j \in 1..n : j > k => events[j] \notin W
      PROVE  LastTells(rest, W, C, z, R) /\ LastTells(events, W, C, z, R)
  <2>1. LastTells(events, W, C, z, R)
    BY <1>3 DEF LastTells, n
  <2>2. CASE k = 1
    <3>1. z \in R
      BY <1>1, <1>3, <2>2
    <3>2. \A j \in 1..(n - 1) : rest[j] \notin W
      BY <1>1, <1>3, <2>2
    <3> QED  BY <1>1, <2>1, <3>1, <3>2 DEF LastTells
  <2>3. CASE k # 1
    <3>1. k - 1 \in 1..(n - 1) /\ rest[k - 1] = events[k]
      BY <1>1, <2>3
    <3>2. \A j \in 1..(n - 1) : j > k - 1 => rest[j] \notin W
      BY <1>1, <1>3
    <3> QED  BY <1>1, <1>3, <2>1, <3>1, <3>2 DEF LastTells
  <2> QED  BY <2>2, <2>3
<1> QED  BY <1>2, <1>3 DEF LastTells, n, rest

------------------------------------------------------------------------------
VoteEvents(id) == {e \in ReviewEvent : e.type = "HelpfulVoteRecorded" /\ e.id = id}

ReplyEvents(id) == {e \in ReviewEvent : e.type = "SellerReplyAdded" /\ e.id = id}

VotesTold(a) ==
  {e \in ReviewEvent : e.helpful_count = a.helpful_count /\ e.unhelpful_count = a.unhelpful_count}

VotesShown(a) ==
  {x \in {NoReviewRow} \cup ProductEntry :
     x # NoReviewRow => /\ x.helpful_count = a.helpful_count
                        /\ x.unhelpful_count = a.unhelpful_count}

ReplyTold(a) == {e \in ReviewEvent : a.replied}

ReplyShown(a) == {x \in {NoReviewRow} \cup ProductEntry : x # NoReviewRow => x.replied = a.replied}

(* The votes and the reply of the review, on its row of product_reviews.   *)
ProductShown(events, id, x, a) ==
  /\ LastTells(events, VoteEvents(id), VotesTold(a), x, VotesShown(a))
  /\ LastTells(events, ReplyEvents(id), ReplyTold(a), x, ReplyShown(a))

LEMMA ProductTells ==
  ASSUME NEW events \in Seq(ReviewEvent), NEW id, NEW e \in ReviewEvent, NEW x,
         NEW a \in ReviewType, NEW b \in ReviewType, ReviewMoved(e.type, a, b),
         a.status = "None" => a = NoReview,
         e.helpful_count = b.helpful_count, e.unhelpful_count = b.unhelpful_count,
         e.id = id, ProductShown(events, id, x, a)
  PROVE  ProductShown(events \o <<e>>, id, x, b)
<1>t. PICK t : t = e.type
  OBVIOUS
<1>m. ReviewMoved(t, a, b)
  BY <1>t
<1>n. t = "ReviewSubmitted" => /\ a.helpful_count = 0 /\ a.unhelpful_count = 0 /\ ~a.replied
                               /\ b.helpful_count = 0 /\ b.unhelpful_count = 0 /\ ~b.replied
  BY <1>m DEF ReviewMoved, NoReview
<1>1. LastTells(events \o <<e>>, VoteEvents(id), VotesTold(b), x, VotesShown(b))
  <2>1. CASE t = "HelpfulVoteRecorded"
    <3>1. e \in VoteEvents(id) /\ e \in VotesTold(b)
      BY <1>t, <2>1 DEF VoteEvents, VotesTold
    <3> QED  BY <3>1, LastMore
  <2>2. CASE t # "HelpfulVoteRecorded"
    <3>1. b.helpful_count = a.helpful_count /\ b.unhelpful_count = a.unhelpful_count
      BY <1>m, <1>n, <2>2 DEF ReviewMoved
    <3>2. VotesTold(b) = VotesTold(a) /\ VotesShown(b) = VotesShown(a) /\ e \notin VoteEvents(id)
      BY <1>t, <2>2, <3>1 DEF VotesTold, VotesShown, VoteEvents
    <3>3. LastTells(events, VoteEvents(id), VotesTold(b), x, VotesShown(b))
      BY <3>2 DEF ProductShown
    <3> QED  BY <3>2, <3>3, LastMore
  <2> QED  BY <2>1, <2>2
<1>2. LastTells(events \o <<e>>, ReplyEvents(id), ReplyTold(b), x, ReplyShown(b))
  <2>1. CASE t = "SellerReplyAdded"
    <3>1. b.replied
      BY <1>m, <2>1 DEF ReviewMoved
    <3>2. e \in ReplyEvents(id) /\ e \in ReplyTold(b)
      BY <1>t, <2>1, <3>1 DEF ReplyEvents, ReplyTold
    <3> QED  BY <3>2, LastMore
  <2>2. CASE t # "SellerReplyAdded"
    <3>1. b.replied = a.replied
      <4>1. b.replied <=> a.replied
        BY <1>m, <1>n, <2>2 DEF ReviewMoved
      <4> QED  BY <4>1 DEF ReviewType
    <3>2. ReplyTold(b) = ReplyTold(a) /\ ReplyShown(b) = ReplyShown(a) /\ e \notin ReplyEvents(id)
      BY <1>t, <2>2, <3>1 DEF ReplyTold, ReplyShown, ReplyEvents
    <3>3. LastTells(events, ReplyEvents(id), ReplyTold(b), x, ReplyShown(b))
      BY <3>2 DEF ProductShown
    <3> QED  BY <3>2, <3>3, LastMore
  <2> QED  BY <2>1, <2>2
<1> QED  BY <1>1, <1>2 DEF ProductShown

(* Events about other reviews say nothing of this one.                     *)
LEMMA ProductWaits ==
  ASSUME NEW events \in Seq(ReviewEvent), NEW id, NEW e \in ReviewEvent, NEW x, NEW a,
         e.id # id, ProductShown(events, id, x, a)
  PROVE  ProductShown(events \o <<e>>, id, x, a)
<1>1. e \notin VoteEvents(id) /\ e \notin ReplyEvents(id)
  BY DEF VoteEvents, ReplyEvents
<1>2. LastTells(events \o <<e>>, VoteEvents(id), VotesTold(a), x, VotesShown(a))
  BY <1>1, LastMore DEF ProductShown
<1>3. LastTells(events \o <<e>>, ReplyEvents(id), ReplyTold(a), x, ReplyShown(a))
  BY <1>1, LastMore DEF ProductShown
<1> QED  BY <1>2, <1>3 DEF ProductShown

LEMMA ProductReads ==
  ASSUME NEW events \in Seq(ReviewEvent), events # << >>, NEW id, NEW a \in ReviewType,
         NEW x \in {NoReviewRow} \cup ProductEntry, ProductShown(events, id, x, a),
         NEW z, z = IF Head(events).id = id THEN ProductAfter(x, Head(events), a) ELSE x
  PROVE  ProductShown(Tail(events), id, z, a) /\ ProductShown(events, id, z, a)
<1>e. PICK e \in ReviewEvent : e = Head(events)
  OBVIOUS
<1>1. CASE e.id # id
  <2>1. z = x
    BY <1>e, <1>1
  <2>2. e \notin VoteEvents(id) /\ e \notin ReplyEvents(id)
    BY <1>1 DEF VoteEvents, ReplyEvents
  <2>3. /\ LastTells(Tail(events), VoteEvents(id), VotesTold(a), z, VotesShown(a))
        /\ LastTells(events, VoteEvents(id), VotesTold(a), z, VotesShown(a))
    BY <1>e, <2>1, <2>2, LastRead DEF ProductShown
  <2>4. /\ LastTells(Tail(events), ReplyEvents(id), ReplyTold(a), z, ReplyShown(a))
        /\ LastTells(events, ReplyEvents(id), ReplyTold(a), z, ReplyShown(a))
    BY <1>e, <2>1, <2>2, LastRead DEF ProductShown
  <2> QED  BY <2>3, <2>4 DEF ProductShown
<1>2. CASE e.id = id
  <2>z. z = ProductAfter(x, e, a)
    BY <1>e, <1>2
  <2>t. PICK t : t = e.type
    OBVIOUS
  <2>p. z \in {NoReviewRow} \cup ProductEntry
    BY <2>z, ProductSettles
  <2>n. e \in VoteEvents(id) <=> t = "HelpfulVoteRecorded"
    BY <1>2, <2>t DEF VoteEvents
  <2>m. e \in ReplyEvents(id) <=> t = "SellerReplyAdded"
    BY <1>2, <2>t DEF ReplyEvents
  <2>1. \/ t = "ReviewApproved" /\ z.helpful_count = a.helpful_count
           /\ z.unhelpful_count = a.unhelpful_count /\ z.replied = a.replied
        \/ z = NoReviewRow
        \/ /\ t = "HelpfulVoteRecorded" /\ x # NoReviewRow /\ z.replied = x.replied
           /\ z.helpful_count = e.helpful_count /\ z.unhelpful_count = e.unhelpful_count
        \/ /\ t = "SellerReplyAdded" /\ x # NoReviewRow /\ z.replied = TRUE
           /\ z.helpful_count = x.helpful_count /\ z.unhelpful_count = x.unhelpful_count
        \/ z = x /\ t \notin {"HelpfulVoteRecorded", "SellerReplyAdded"}
    <3>1. CASE t = "ReviewApproved"
      <4>1. z = [status |-> "Published", rating |-> e.rating, helpful_count |-> a.helpful_count,
                 unhelpful_count |-> a.unhelpful_count, replied |-> a.replied]
        BY <2>t, <2>z, <3>1 DEF ProductAfter
      <4> QED  BY <3>1, <4>1
    <3>2. CASE t = "ReviewRemoved"
      BY <2>t, <2>z, <3>2 DEF ProductAfter
    <3>3. CASE t = "HelpfulVoteRecorded" /\ x # NoReviewRow
      <4>1. z = [status |-> x.status, rating |-> x.rating, helpful_count |-> e.helpful_count,
                 unhelpful_count |-> e.unhelpful_count, replied |-> x.replied]
        BY <2>t, <2>z, <3>3 DEF ProductAfter
      <4> QED  BY <3>3, <4>1
    <3>4. CASE t = "SellerReplyAdded" /\ x # NoReviewRow
      <4>1. z = [status |-> x.status, rating |-> x.rating, helpful_count |-> x.helpful_count,
                 unhelpful_count |-> x.unhelpful_count, replied |-> TRUE]
        BY <2>t, <2>z, <3>4 DEF ProductAfter
      <4> QED  BY <3>4, <4>1
    <3>5. CASE /\ t \notin {"ReviewApproved", "ReviewRemoved"}
               /\ t \in {"HelpfulVoteRecorded", "SellerReplyAdded"} => x = NoReviewRow
      <4>1. z = x
        BY <2>t, <2>z, <3>5 DEF ProductAfter
      <4> QED  BY <3>5, <4>1
    <3> QED  BY <3>1, <3>2, <3>3, <3>4, <3>5
  <2>2. (e \in VoteEvents(id) /\ e \in VotesTold(a))
          \/ (e \notin VoteEvents(id) /\ x \in VotesShown(a)) => z \in VotesShown(a)
    BY <2>n, <2>p, <2>1 DEF VotesTold, VotesShown
  <2>3. (e \in ReplyEvents(id) /\ e \in ReplyTold(a))
          \/ (e \notin ReplyEvents(id) /\ x \in ReplyShown(a)) => z \in ReplyShown(a)
    <3>1. a.replied \in BOOLEAN
      BY DEF ReviewType
    <3> QED  BY <2>m, <2>p, <2>1, <3>1 DEF ReplyTold, ReplyShown
  <2>4. /\ LastTells(Tail(events), VoteEvents(id), VotesTold(a), z, VotesShown(a))
        /\ LastTells(events, VoteEvents(id), VotesTold(a), z, VotesShown(a))
    BY <1>e, <2>2, LastRead DEF ProductShown
  <2>5. /\ LastTells(Tail(events), ReplyEvents(id), ReplyTold(a), z, ReplyShown(a))
        /\ LastTells(events, ReplyEvents(id), ReplyTold(a), z, ReplyShown(a))
    BY <1>e, <2>3, LastRead DEF ProductShown
  <2> QED  BY <2>4, <2>5 DEF ProductShown
<1> QED  BY <1>1, <1>2

------------------------------------------------------------------------------
(* The stars: what the events add to a count and take from it.             *)
StarSteps(Up, Down) ==
  {t \in Nat \X ReviewEvent \X Nat :
     t[3] = IF t[2] \in Up THEN t[1] + 1
            ELSE IF t[2] \in Down THEN (IF t[1] > 0 THEN t[1] - 1 ELSE 0)
            ELSE t[1]}

RatingRow == [total : Nat, distribution : [Ratings -> Nat], verified : Nat]

Approvals == {e \in ReviewEvent : e.type = "ReviewApproved"}

Removals == {e \in ReviewEvent : e.type = "ReviewRemoved"}

Rated(T, g) == {e \in T : e.rating = g}

VerifiedIds == {id \in Written : reviews[id].verified}

VerifiedApprovals == {e \in Approvals : e.id \in VerifiedIds}

Starred(g) == {id \in Published : reviews[id].rating = g}

(* Published at some time, and verified.                                   *)
Praised == {id \in VerifiedIds : reviews[id].status \in {"Published", "Removed"}}

StarsShown ==
  /\ row \in RatingRow
  /\ Leads(StarSteps(Approvals, Removals), row.total, unread, Cardinality(Published))
  /\ \A g \in Ratings :
       Leads(StarSteps(Rated(Approvals, g), Rated(Removals, g)), row.distribution[g], unread,
             Cardinality(Starred(g)))
  /\ Leads(StarSteps(VerifiedApprovals, {}), row.verified, unread, Cardinality(Praised))

(* A review joins those that are counted, leaves them or does neither.     *)
LEMMA StarMoves ==
  ASSUME NEW S, IsFiniteSet(S), NEW T, NEW id, NEW e \in ReviewEvent, NEW Up, NEW Down,
         \/ e \in Up /\ id \notin S /\ T = S \cup {id}
         \/ e \notin Up /\ e \in Down /\ id \in S /\ T = S \ {id}
         \/ e \notin Up /\ e \notin Down /\ T = S
  PROVE  <<Cardinality(S), e, Cardinality(T)>> \in StarSteps(Up, Down)
<1>n. Cardinality(S) \in Nat
  BY FS_CardinalityType
<1>1. CASE e \in Up /\ id \notin S /\ T = S \cup {id}
  <2>1. Cardinality(S \cup {id}) = Cardinality(S) + 1
    BY <1>1, FS_AddElement
  <2>2. Cardinality(T) \in Nat /\ Cardinality(T) = Cardinality(S) + 1
    BY <1>n, <1>1, <2>1
  <2> QED  BY <1>n, <1>1, <2>2 DEF StarSteps
<1>2. CASE e \notin Up /\ e \in Down /\ id \in S /\ T = S \ {id}
  <2>1. IsFiniteSet(S \ {id}) /\ Cardinality(S \ {id}) = Cardinality(S) - 1
    BY <1>2, FS_RemoveElement
  <2>2. Cardinality(S \ {id}) \in Nat
    BY <2>1, FS_CardinalityType
  <2>3. Cardinality(T) \in Nat /\ Cardinality(T) = Cardinality(S) - 1
    BY <1>2, <2>1, <2>2
  <2>4. Cardinality(S) > 0
    BY <1>n, <2>3
  <2> QED  BY <1>n, <1>2, <2>3, <2>4 DEF StarSteps
<1>3. CASE e \notin Up /\ e \notin Down /\ T = S
  BY <1>n, <1>3 DEF StarSteps
<1> QED  BY <1>1, <1>2, <1>3

(* What becomes of a review with a command, in the terms of those that are *)
(* counted.                                                                *)
ReviewTells(id, e, b) ==
  /\ e \in ReviewEvent /\ e.id = id /\ e.rating = b.rating
  /\ e.helpful_count = b.helpful_count /\ e.unhelpful_count = b.unhelpful_count
  /\ e.report_count = b.report_count
  /\ b \in ReviewType /\ ReviewSane(b) /\ b.status # "None"
  /\ ReviewMoved(e.type, reviews[id], b)
  /\ reviews' = [reviews EXCEPT ![id] = b]
  /\ unread' = unread \o <<e>> /\ UNCHANGED <<view, row, redelivered>>

LEMMA ActsTell ==
  ASSUME ReviewsTyped, view \in ReviewViews, NEW id \in ReviewIds, NEW t \in ReviewEventType,
         ReviewActs(id, t)
  PROVE  \E e, b : ReviewTells(id, e, b)
<1>b. PICK b : b = reviews'[id]
  OBVIOUS
<1>e. PICK e : e = Told(t, id, b)
  OBVIOUS
<1>1. /\ b \in ReviewType /\ reviews' = [reviews EXCEPT ![id] = b] /\ ReviewSane(b)
      /\ ReviewMoved(t, reviews[id], b) /\ Publish(<<e>>)
  BY <1>b, <1>e, Zenon DEF ReviewActs
<1>2. b.status # "None"
  <2>1. CASE t = "ReviewSubmitted"
    BY <1>1, <2>1 DEF ReviewMoved
  <2>2. CASE t # "ReviewSubmitted"
    <3>1. reviews[id].status # "None"
      BY <1>1, <2>2 DEF ReviewMoved
    <3>2. b.status = IF t \in DOMAIN StatusAfterReviewEvent THEN StatusAfterReviewEvent[t]
                     ELSE reviews[id].status
      BY <1>1, <2>2 DEF ReviewMoved
    <3> QED  BY <3>1, <3>2, ReviewStatusIs
  <2> QED  BY <2>1, <2>2
<1>3. /\ e \in ReviewEvent /\ e.type = t /\ e.id = id /\ e.rating = b.rating
      /\ e.helpful_count = b.helpful_count /\ e.unhelpful_count = b.unhelpful_count
      /\ e.report_count = b.report_count
  BY <1>e, <1>1, <1>2, ToldIsTyped
<1>4. unread' = unread \o <<e>> /\ UNCHANGED <<view, row, redelivered>>
  BY <1>1 DEF Publish, ReviewViews
<1> QED  BY <1>1, <1>2, <1>3, <1>4 DEF ReviewTells

LEMMA StarsMove ==
  ASSUME ReviewsTyped, NEW id \in ReviewIds, NEW e, NEW b, ReviewTells(id, e, b),
         IsFiniteSet(Written)
  PROVE  /\ <<Cardinality(Published), e, Cardinality(Published')>> \in StarSteps(Approvals, Removals)
         /\ \A g \in Ratings :
              <<Cardinality(Starred(g)), e, Cardinality(Starred(g)')>>
                \in StarSteps(Rated(Approvals, g), Rated(Removals, g))
         /\ <<Cardinality(Praised), e, Cardinality(Praised')>> \in StarSteps(VerifiedApprovals', {})
         /\ Written' = Written \cup {id}
         /\ \A i \in Written : i \in VerifiedIds' <=> i \in VerifiedIds
<1>a. PICK a : a = reviews[id]
  OBVIOUS
<1>t. PICK t : t = e.type
  OBVIOUS
<1>1. /\ e \in ReviewEvent /\ e.id = id /\ e.rating = b.rating /\ t \in ReviewEventType
      /\ a \in ReviewType /\ b \in ReviewType /\ b.status # "None" /\ ReviewMoved(t, a, b)
      /\ reviews \in [ReviewIds -> ReviewType] /\ reviews' = [reviews EXCEPT ![id] = b]
  BY <1>a, <1>t DEF ReviewTells, ReviewEvent, ReviewsTyped
<1>2. reviews'[id] = b /\ \A i \in ReviewIds \ {id} : reviews'[i] = reviews[i]
  BY <1>1
<1>3. /\ b.status = IF t = "ReviewSubmitted" THEN "Pending"
                    ELSE IF t \in DOMAIN StatusAfterReviewEvent THEN StatusAfterReviewEvent[t]
                    ELSE a.status
      /\ t # "ReviewSubmitted" => a.status # "None" /\ b.verified = a.verified
      /\ t = "ReviewSubmitted" => a.status = "None"
      /\ t = "ReviewEdited" => a.status \in {"Pending", "Rejected"}
      /\ t \in {"ReviewApproved", "ReviewRejected"} => a.status = "Pending"
      /\ t = "ReviewRemoved" => a.status = "Published"
      /\ t \notin {"ReviewSubmitted", "ReviewEdited"} => b.rating = a.rating
  BY <1>1, ReviewStatusIs DEF ReviewMoved
<1>4. /\ t = "ReviewApproved" => a.status = "Pending" /\ b.status = "Published"
      /\ t = "ReviewRemoved" => a.status = "Published" /\ b.status = "Removed"
      /\ t \notin {"ReviewApproved", "ReviewRemoved"} =>
           (b.status = "Published" <=> a.status = "Published")
           /\ (b.status = "Removed" <=> a.status = "Removed")
      /\ a.status \in {"Published", "Removed"} => b.rating = a.rating /\ b.verified = a.verified
  BY <1>1, <1>3, ReviewStatusIs DEF ReviewEventType
<1>5. \A i \in ReviewIds :
        /\ i \in Written' <=> i \in Written \/ i = id
        /\ i \in Published' <=> IF i = id THEN b.status = "Published" ELSE i \in Published
        /\ \A g : i \in Starred(g)' <=> IF i = id THEN b.status = "Published" /\ b.rating = g
                                        ELSE i \in Starred(g)
        /\ i \in VerifiedIds' <=> IF i = id THEN b.verified ELSE i \in VerifiedIds
        /\ i \in Praised' <=> IF i = id THEN b.verified /\ b.status \in {"Published", "Removed"}
                              ELSE i \in Praised
  BY <1>1, <1>2 DEF Written, Published, Starred, VerifiedIds, Praised
<1>6. /\ id \in Written <=> a.status # "None"
      /\ id \in Published <=> a.status = "Published"
      /\ \A g : id \in Starred(g) <=> a.status = "Published" /\ a.rating = g
      /\ id \in VerifiedIds <=> a.status # "None" /\ a.verified
      /\ id \in Praised <=> a.verified /\ a.status \in {"Published", "Removed"}
  BY <1>a DEF Written, Published, Starred, VerifiedIds, Praised
<1>7. /\ Written \subseteq ReviewIds /\ Published \subseteq Written
      /\ VerifiedIds \subseteq Written /\ Praised \subseteq Written
      /\ Written' \subseteq ReviewIds /\ Published' \subseteq ReviewIds
      /\ Praised' \subseteq ReviewIds
      /\ \A g : Starred(g) \subseteq Written /\ Starred(g)' \subseteq ReviewIds
  BY DEF Written, Published, Starred, VerifiedIds, Praised
<1>8. /\ IsFiniteSet(Published) /\ IsFiniteSet(Praised) /\ \A g : IsFiniteSet(Starred(g))
  BY <1>7, FS_Subset
<1>9. <<Cardinality(Published), e, Cardinality(Published')>> \in StarSteps(Approvals, Removals)
  <2>1. \/ e \in Approvals /\ id \notin Published /\ Published' = Published \cup {id}
        \/ /\ e \notin Approvals /\ e \in Removals /\ id \in Published
           /\ Published' = Published \ {id}
        \/ e \notin Approvals /\ e \notin Removals /\ Published' = Published
    <3>1. (e \in Approvals <=> t = "ReviewApproved") /\ (e \in Removals <=> t = "ReviewRemoved")
      BY <1>t, <1>1 DEF Approvals, Removals
    <3> QED  BY <1>4, <1>5, <1>6, <1>7, <3>1
  <2> QED  BY <1>1, <1>8, <2>1, StarMoves
<1>10. ASSUME NEW g \in Ratings
       PROVE  <<Cardinality(Starred(g)), e, Cardinality(Starred(g)')>>
                \in StarSteps(Rated(Approvals, g), Rated(Removals, g))
  <2>a. PICK S, T, U, D : /\ S = Starred(g) /\ T = Starred(g)'
                          /\ U = Rated(Approvals, g) /\ D = Rated(Removals, g)
    OBVIOUS
  <2>1. \/ e \in U /\ id \notin S /\ T = S \cup {id}
        \/ e \notin U /\ e \in D /\ id \in S /\ T = S \ {id}
        \/ e \notin U /\ e \notin D /\ T = S
    <3>1. /\ e \in U <=> t = "ReviewApproved" /\ b.rating = g
          /\ e \in D <=> t = "ReviewRemoved" /\ b.rating = g
      BY <1>t, <1>1, <2>a DEF Approvals, Removals, Rated
    <3>2. S \subseteq ReviewIds /\ T \subseteq ReviewIds
      BY <1>7, <2>a
    <3>3. /\ \A i \in ReviewIds : i # id => (i \in T <=> i \in S)
          /\ id \in T <=> b.status = "Published" /\ b.rating = g
          /\ id \in S <=> a.status = "Published" /\ a.rating = g
      BY <1>5, <1>6, <2>a
    <3> QED  BY <1>4, <3>1, <3>2, <3>3
  <2>2. IsFiniteSet(S)
    BY <1>8, <2>a
  <2>3. <<Cardinality(S), e, Cardinality(T)>> \in StarSteps(U, D)
    BY <1>1, <2>1, <2>2, StarMoves
  <2> QED  BY <2>a, <2>3
<1>11. <<Cardinality(Praised), e, Cardinality(Praised')>> \in StarSteps(VerifiedApprovals', {})
  <2>a. PICK S, T, U : S = Praised /\ T = Praised' /\ U = VerifiedApprovals'
    OBVIOUS
  <2>1. \/ e \in U /\ id \notin S /\ T = S \cup {id}
        \/ e \notin U /\ e \notin {} /\ T = S
    <3>1. e \in U <=> t = "ReviewApproved" /\ b.verified
      <4>1. e \in U <=> e \in Approvals /\ id \in VerifiedIds'
        BY <1>1, <2>a DEF VerifiedApprovals, Approvals
      <4>2. e \in Approvals <=> t = "ReviewApproved"
        BY <1>t, <1>1 DEF Approvals
      <4> QED  BY <1>5, <4>1, <4>2
    <3>2. S \subseteq ReviewIds /\ T \subseteq ReviewIds
      BY <1>7, <2>a
    <3>3. /\ \A i \in ReviewIds : i # id => (i \in T <=> i \in S)
          /\ id \in T <=> b.verified /\ b.status \in {"Published", "Removed"}
          /\ id \in S <=> a.verified /\ a.status \in {"Published", "Removed"}
      BY <1>5, <1>6, <2>a
    <3>4. b.verified \in BOOLEAN /\ a.verified \in BOOLEAN
      BY <1>1 DEF ReviewType
    <3>5. t = "ReviewApproved" => b.verified = a.verified
      BY <1>3
    <3> QED  BY <1>4, <3>1, <3>2, <3>3, <3>4, <3>5
  <2>2. IsFiniteSet(S)
    BY <1>8, <2>a
  <2>3. <<Cardinality(S), e, Cardinality(T)>> \in StarSteps(U, {})
    BY <1>1, <2>1, <2>2, StarMoves
  <2> QED  BY <2>a, <2>3
<1>12. Written' = Written \cup {id}
  BY <1>5, <1>7
<1>13. \A i \in Written : i \in VerifiedIds' <=> i \in VerifiedIds
  <2>1. ASSUME id \in Written PROVE b.verified <=> id \in VerifiedIds
    BY <1>3, <1>6, <2>1
  <2> QED  BY <1>5, <1>7, <2>1
<1> QED  BY <1>9, <1>10, <1>11, <1>12, <1>13

------------------------------------------------------------------------------
ReviewFacts ==
  /\ ReviewsInv /\ view \in ReviewViews /\ unread \in Seq(ReviewEvent) /\ IsFiniteSet(Written)
  /\ \A k \in 1..Len(unread) : unread[k].id \in Written
  /\ \A id \in ReviewIds : /\ ReviewSane(reviews[id])
                           /\ reviews[id].status = "None" => reviews[id] = NoReview

EntriesShown ==
  /\ row \in [ReviewIds -> ReviewRows(view)]
  /\ \A id \in ReviewIds : \E y \in ReviewEntries(view) :
       /\ Leads(EntrySteps(view, id), EntryOf(view, row[id]), unread, y)
       /\ EntryTold(view, y, reviews[id])

ReviewViewInv ==
  /\ ReviewFacts
  /\ view \in ListingViews => EntriesShown
  /\ view = "product_reviews" =>
       \A id \in ReviewIds : ProductShown(unread, id, row[id], reviews[id])
  /\ view = "product_rating" /\ ~redelivered => StarsShown

(* A review is written or changed.                                         *)
LEMMA TellsFacts ==
  ASSUME ReviewFacts, ReviewsInv', NEW id \in ReviewIds, NEW e, NEW b, ReviewTells(id, e, b)
  PROVE  ReviewFacts'
<1>1. /\ e \in ReviewEvent /\ e.id = id /\ b \in ReviewType /\ ReviewSane(b)
      /\ b.status # "None" /\ reviews' = [reviews EXCEPT ![id] = b]
      /\ unread' = unread \o <<e>> /\ view' = view
  BY DEF ReviewTells
<1>2. /\ ReviewsTyped /\ view \in ReviewViews /\ unread \in Seq(ReviewEvent)
      /\ IsFiniteSet(Written) /\ \A k \in 1..Len(unread) : unread[k].id \in Written
  BY DEF ReviewFacts, ReviewsInv
<1>3. Written' = Written \cup {id}
  BY <1>2, StarsMove
<1>4. IsFiniteSet(Written \cup {id})
  BY <1>2, FS_AddElement
<1>5. unread' \in Seq(ReviewEvent)
  BY <1>1, <1>2
<1>6. \A k \in 1..Len(unread') : unread'[k].id \in Written \cup {id}
  <2>1. Len(unread') = Len(unread) + 1 /\ unread'[Len(unread) + 1] = e
        /\ \A k \in 1..Len(unread) : unread'[k] = unread[k]
    BY <1>1, <1>2
  <2>2. ASSUME NEW k \in 1..(Len(unread) + 1) PROVE unread'[k].id \in Written \cup {id}
    <3>1. CASE k = Len(unread) + 1
      BY <1>1, <2>1, <3>1
    <3>2. CASE k # Len(unread) + 1
      <4>1. k \in 1..Len(unread)
        BY <1>2, <3>2
      <4> QED  BY <1>2, <2>1, <4>1
    <3> QED  BY <3>1, <3>2
  <2> QED  BY <2>1, <2>2
<1>7. ASSUME NEW i \in ReviewIds
      PROVE  /\ ReviewSane(reviews'[i])
             /\ reviews'[i].status = "None" => reviews'[i] = NoReview
  <2>1. reviews'[i] = IF i = id THEN b ELSE reviews[i]
    BY <1>1, <1>2 DEF ReviewsTyped
  <2>2. ReviewSane(reviews[i]) /\ (reviews[i].status = "None" => reviews[i] = NoReview)
    BY DEF ReviewFacts
  <2> QED  BY <1>1, <2>1, <2>2
<1>8. \A i \in ReviewIds : (ReviewSane(reviews[i]))' = ReviewSane(reviews'[i])
  BY DEF ReviewSane, Votes
<1>9. IsFiniteSet(Written')
  BY <1>3, <1>4
<1>10. ReviewFacts' = (/\ ReviewsInv' /\ view' \in ReviewViews /\ unread' \in Seq(ReviewEvent)
                       /\ IsFiniteSet(Written')
                       /\ \A k \in 1..Len(unread') : unread'[k].id \in Written'
                       /\ \A i \in ReviewIds :
                            /\ ReviewSane(reviews'[i])
                            /\ reviews'[i].status = "None" => reviews'[i] = NoReview)
  BY <1>8, Zenon DEF ReviewFacts
<1> QED  BY <1>1, <1>2, <1>3, <1>5, <1>6, <1>7, <1>9, <1>10

LEMMA TellsEntries ==
  ASSUME ReviewFacts, view \in ListingViews, EntriesShown, NEW id \in ReviewIds, NEW e, NEW b,
         ReviewTells(id, e, b)
  PROVE  EntriesShown'
<1>v. PICK v \in ListingViews : v = view
  OBVIOUS
<1>1. /\ e \in ReviewEvent /\ e.id = id /\ b \in ReviewType
      /\ ReviewMoved(e.type, reviews[id], b)
      /\ e.rating = b.rating /\ e.helpful_count = b.helpful_count
      /\ e.unhelpful_count = b.unhelpful_count /\ e.report_count = b.report_count
      /\ reviews' = [reviews EXCEPT ![id] = b]
      /\ unread' = unread \o <<e>> /\ view' = v /\ row' = row
  BY <1>v DEF ReviewTells
<1>2. /\ unread \in Seq(ReviewEvent) /\ reviews \in [ReviewIds -> ReviewType]
      /\ \A i \in ReviewIds : ReviewSane(reviews[i])
  BY DEF ReviewFacts, ReviewsInv, ReviewsTyped
<1>3. /\ row \in [ReviewIds -> ReviewRows(v)]
      /\ \A i \in ReviewIds : \E y \in ReviewEntries(v) :
           /\ Leads(EntrySteps(v, i), EntryOf(v, row[i]), unread, y)
           /\ EntryTold(v, y, reviews[i])
  BY <1>v DEF EntriesShown
<1>4. ASSUME NEW i \in ReviewIds
      PROVE  \E y \in ReviewEntries(v) :
               /\ Leads(EntrySteps(v, i), EntryOf(v, row[i]), unread \o <<e>>, y)
               /\ EntryTold(v, y, reviews'[i])
  <2>1. PICK y \in ReviewEntries(v) : /\ Leads(EntrySteps(v, i), EntryOf(v, row[i]), unread, y)
                                      /\ EntryTold(v, y, reviews[i])
    BY <1>3
  <2>2. CASE i = id
    <3>z. PICK z : z = EntryAfter(v, y, e)
      OBVIOUS
    <3>a. PICK a : a = reviews[i]
      OBVIOUS
    <3>1. Apt(v, y, e) /\ EntryTold(v, z, b)
      <4>1. a \in ReviewType /\ ReviewSane(a) /\ ReviewMoved(e.type, a, b) /\ EntryTold(v, y, a)
        BY <1>1, <1>2, <2>1, <2>2, <3>a
      <4>2. e.type \in ReviewEventType
        BY <1>1 DEF ReviewEvent
      <4> QED  BY <1>1, <3>z, <4>1, <4>2, EntryTells
    <3>2. z \in ReviewEntries(v)
      BY <1>1, <3>z, <3>1, EntrySettles
    <3>3. <<y, e, z>> \in EntrySteps(v, i)
      BY <1>1, <2>2, <3>z, <3>1, <3>2 DEF EntrySteps
    <3>4. Leads(EntrySteps(v, i), EntryOf(v, row[i]), unread \o <<e>>, z)
      BY <1>1, <1>2, <2>1, <3>3, LeadsMore
    <3>5. reviews'[i] = b
      BY <1>1, <1>2, <2>2
    <3> QED  BY <3>1, <3>2, <3>4, <3>5
  <2>3. CASE i # id
    <3>1. <<y, e, y>> \in EntrySteps(v, i)
      BY <1>1, <2>3 DEF EntrySteps
    <3>2. Leads(EntrySteps(v, i), EntryOf(v, row[i]), unread \o <<e>>, y)
      BY <1>1, <1>2, <2>1, <3>1, LeadsMore
    <3>3. reviews'[i] = reviews[i]
      BY <1>1, <1>2, <2>3
    <3> QED  BY <2>1, <3>2, <3>3
  <2> QED  BY <2>2, <2>3
<1>5. \A i \in ReviewIds : \E y \in ReviewEntries(view') :
        /\ Leads(EntrySteps(view', i), EntryOf(view', row'[i]), unread', y)
        /\ EntryTold(view', y, reviews'[i])
  BY <1>1, <1>4, Zenon
<1>6. row' \in [ReviewIds -> ReviewRows(view')]
  BY <1>1, <1>3
<1> QED  BY <1>5, <1>6, Zenon DEF EntriesShown

LEMMA TellsVotes ==
  ASSUME ReviewFacts, \A i \in ReviewIds : ProductShown(unread, i, row[i], reviews[i]),
         NEW id \in ReviewIds, NEW e, NEW b, ReviewTells(id, e, b)
  PROVE  \A i \in ReviewIds : ProductShown(unread', i, row'[i], reviews'[i])
<1>1. /\ e \in ReviewEvent /\ e.id = id /\ b \in ReviewType
      /\ ReviewMoved(e.type, reviews[id], b)
      /\ e.helpful_count = b.helpful_count /\ e.unhelpful_count = b.unhelpful_count
      /\ reviews' = [reviews EXCEPT ![id] = b] /\ unread' = unread \o <<e>> /\ row' = row
  BY DEF ReviewTells
<1>2. /\ unread \in Seq(ReviewEvent) /\ reviews \in [ReviewIds -> ReviewType]
      /\ \A i \in ReviewIds : reviews[i].status = "None" => reviews[i] = NoReview
  BY DEF ReviewFacts, ReviewsInv, ReviewsTyped
<1> SUFFICES ASSUME NEW i \in ReviewIds
             PROVE  ProductShown(unread \o <<e>>, i, row[i], reviews'[i])
  BY <1>1
<1>3. CASE i = id
  <2>1. PICK a, x : a = reviews[i] /\ x = row[i]
    OBVIOUS
  <2>2. /\ a \in ReviewType /\ (a.status = "None" => a = NoReview) /\ ReviewMoved(e.type, a, b)
        /\ ProductShown(unread, i, x, a) /\ e.id = i
    BY <1>1, <1>2, <1>3, <2>1
  <2>3. ProductShown(unread \o <<e>>, i, x, b)
    BY <1>1, <1>2, <2>2, ProductTells
  <2> QED  BY <1>1, <1>2, <1>3, <2>1, <2>3
<1>4. CASE i # id
  <2>1. reviews'[i] = reviews[i] /\ ProductShown(unread, i, row[i], reviews[i]) /\ e.id # i
    BY <1>1, <1>2, <1>4
  <2> QED  BY <1>1, <1>2, <2>1, ProductWaits
<1> QED  BY <1>3, <1>4

LEMMA TellsStars ==
  ASSUME ReviewFacts, StarsShown, NEW id \in ReviewIds, NEW e, NEW b, ReviewTells(id, e, b)
  PROVE  StarsShown'
<1>1. e \in ReviewEvent /\ unread' = unread \o <<e>> /\ row' = row
  BY DEF ReviewTells
<1>2. /\ unread \in Seq(ReviewEvent) /\ ReviewsTyped /\ IsFiniteSet(Written)
      /\ \A k \in 1..Len(unread) : unread[k].id \in Written
  BY DEF ReviewFacts, ReviewsInv
<1>3. /\ <<Cardinality(Published), e, Cardinality(Published')>> \in StarSteps(Approvals, Removals)
      /\ \A g \in Ratings :
           <<Cardinality(Starred(g)), e, Cardinality(Starred(g)')>>
             \in StarSteps(Rated(Approvals, g), Rated(Removals, g))
      /\ <<Cardinality(Praised), e, Cardinality(Praised')>> \in StarSteps(VerifiedApprovals', {})
      /\ \A i \in Written : i \in VerifiedIds' <=> i \in VerifiedIds
  BY <1>2, StarsMove
<1>4. Leads(StarSteps(Approvals, Removals), row.total, unread', Cardinality(Published'))
  BY <1>1, <1>2, <1>3, LeadsMore DEF StarsShown
<1>5. \A g \in Ratings :
        Leads(StarSteps(Rated(Approvals, g), Rated(Removals, g)), row.distribution[g], unread',
              Cardinality(Starred(g)'))
  <2>1. ASSUME NEW g \in Ratings
        PROVE  Leads(StarSteps(Rated(Approvals, g), Rated(Removals, g)), row.distribution[g],
                     unread \o <<e>>, Cardinality(Starred(g)'))
    <3>1. Leads(StarSteps(Rated(Approvals, g), Rated(Removals, g)), row.distribution[g], unread,
                Cardinality(Starred(g)))
      BY DEF StarsShown
    <3> QED  BY <1>1, <1>2, <1>3, <3>1, LeadsMore
  <2> QED  BY <1>1, <2>1
<1>6. Leads(StarSteps(VerifiedApprovals', {}), row.verified, unread', Cardinality(Praised'))
  <2>1. \A k \in 1..Len(unread) : unread[k] \in VerifiedApprovals' <=> unread[k] \in VerifiedApprovals
    BY <1>2, <1>3 DEF VerifiedApprovals, Approvals
  <2>2. Leads(StarSteps(VerifiedApprovals, {}), row.verified, unread, Cardinality(Praised))
    BY DEF StarsShown
  <2>3. \A k \in 1..Len(unread) : \A c, d :
          <<c, unread[k], d>> \in StarSteps(VerifiedApprovals, {}) =>
            <<c, unread[k], d>> \in StarSteps(VerifiedApprovals', {})
    BY <2>1 DEF StarSteps
  <2>4. Leads(StarSteps(VerifiedApprovals', {}), row.verified, unread, Cardinality(Praised))
    BY <2>2, <2>3, LeadsWider
  <2> QED  BY <1>1, <1>2, <1>3, <2>4, LeadsMore
<1>7. row' \in RatingRow
  BY <1>1 DEF StarsShown
<1> QED  BY <1>1, <1>4, <1>5, <1>6, <1>7 DEF StarsShown

(* The projector reads an event.                                           *)
LEMMA ReadEntry ==
  ASSUME NEW v \in ListingViews, NEW events \in Seq(ReviewEvent), events # << >>,
         NEW id \in ReviewIds, NEW x \in ReviewRows(v), NEW y, NEW a \in ReviewType,
         Leads(EntrySteps(v, id), EntryOf(v, x), events, y), NEW z,
         z = IF Head(events).id = id THEN ReviewRowAfter(v, x, Head(events), a) ELSE x
  PROVE  /\ Head(events).id = id => Apt(v, EntryOf(v, x), Head(events))
         /\ z \in ReviewRows(v)
         /\ Leads(EntrySteps(v, id), EntryOf(v, z), Tail(events), y)
         /\ Leads(EntrySteps(v, id), EntryOf(v, z), events, y)
<1>e. PICK e \in ReviewEvent : e = Head(events)
  OBVIOUS
<1>x. PICK s : s = EntryOf(v, x)
  OBVIOUS
<1>1. PICK w : <<s, e, w>> \in EntrySteps(v, id)
  BY <1>e, <1>x, LeadsRead
<1>2. /\ s \in ReviewEntries(v)
      /\ IF e.id = id THEN Apt(v, s, e) /\ w = EntryAfter(v, s, e) ELSE w = s
  BY <1>1 DEF EntrySteps
<1>3. CASE e.id = id
  <2>t. PICK t : t = EntryAfter(v, s, e)
    OBVIOUS
  <2>1. t \in ReviewEntries(v) /\ Apt(v, t, e) /\ EntryAfter(v, t, e) = t
    BY <1>2, <1>3, <2>t, EntrySettles
  <2>2. <<t, e, t>> \in EntrySteps(v, id)
    BY <1>3, <2>1 DEF EntrySteps
  <2>3. \A u : <<s, e, u>> \in EntrySteps(v, id) => u = t
    BY <1>3, <2>t DEF EntrySteps
  <2>4. /\ Leads(EntrySteps(v, id), t, Tail(events), y)
        /\ Leads(EntrySteps(v, id), t, events, y)
    BY <1>e, <1>x, <2>2, <2>3, LeadsProject
  <2>5. z \in ReviewRows(v) /\ EntryOf(v, z) = t
    <3>1. CASE v = "product_reviews"
      <4>1. x \in {NoReviewRow} \cup ProductEntry
        BY <3>1 DEF ReviewRows
      <4>2. z = ProductAfter(x, e, a)
        BY <1>e, <1>3, <3>1 DEF ReviewRowAfter
      <4>3. /\ z \in {NoReviewRow} \cup ProductEntry
            /\ EntryOf(v, z) = EntryAfter(v, EntryOf(v, x), e)
        BY <3>1, <4>1, <4>2, ProductSettles
      <4> QED  BY <1>x, <2>t, <3>1, <4>3 DEF ReviewRows
    <3>2. CASE v # "product_reviews"
      <4>1. s = x /\ ReviewRows(v) = ReviewEntries(v) /\ EntryOf(v, z) = z
        BY <1>x, <3>2 DEF EntryOf, ReviewRows
      <4>2. z = EntryAfter(v, x, e)
        BY <1>e, <1>3, <3>2 DEF ReviewRowAfter
      <4> QED  BY <2>t, <2>1, <4>1, <4>2
    <3> QED  BY <3>1, <3>2
  <2> QED  BY <1>e, <1>x, <1>2, <1>3, <2>4, <2>5
<1>4. CASE e.id # id
  <2>1. z = x
    BY <1>e, <1>4
  <2>2. <<s, e, s>> \in EntrySteps(v, id)
    BY <1>2, <1>4 DEF EntrySteps
  <2>3. \A u : <<s, e, u>> \in EntrySteps(v, id) => u = s
    BY <1>4 DEF EntrySteps
  <2>4. /\ Leads(EntrySteps(v, id), s, Tail(events), y)
        /\ Leads(EntrySteps(v, id), s, events, y)
    BY <1>e, <1>x, <2>2, <2>3, LeadsProject
  <2> QED  BY <1>e, <1>x, <1>4, <2>1, <2>4
<1> QED  BY <1>3, <1>4

LEMMA ReadStars ==
  ASSUME ReviewFacts, StarsShown, unread # << >>, row' = on_product_rating(row, Head(unread)),
         unread' = Tail(unread), reviews' = reviews
  PROVE  StarsShown'
<1>e. PICK e : e = Head(unread)
  OBVIOUS
<1>r. PICK r : r = row
  OBVIOUS
<1>1. /\ unread \in Seq(ReviewEvent) /\ e \in ReviewEvent /\ e.id \in Written
  <2>1. unread \in Seq(ReviewEvent) /\ \A k \in 1..Len(unread) : unread[k].id \in Written
    BY DEF ReviewFacts
  <2>2. e = unread[1] /\ 1 \in 1..Len(unread) /\ e \in ReviewEvent
    BY <1>e, <2>1
  <2> QED  BY <2>1, <2>2
<1>2. /\ r \in RatingRow
      /\ Leads(StarSteps(Approvals, Removals), r.total, unread, Cardinality(Published))
      /\ \A g \in Ratings :
           Leads(StarSteps(Rated(Approvals, g), Rated(Removals, g)), r.distribution[g], unread,
                 Cardinality(Starred(g)))
      /\ Leads(StarSteps(VerifiedApprovals, {}), r.verified, unread, Cardinality(Praised))
  BY <1>r DEF StarsShown
<1>3. /\ Published' = Published /\ Praised' = Praised /\ VerifiedApprovals' = VerifiedApprovals
      /\ \A g : Starred(g)' = Starred(g)
  BY DEF Published, Praised, VerifiedApprovals, Starred, VerifiedIds, Written, Approvals
<1>4. /\ r.total \in Nat /\ r.distribution \in [Ratings -> Nat] /\ r.verified \in Nat
      /\ e.rating \in Ratings
      /\ r = [total |-> r.total, distribution |-> r.distribution, verified |-> r.verified]
  BY <1>1, <1>2 DEF RatingRow, ReviewEvent
<1>t. PICK t : t = e.type
  OBVIOUS
<1>k. /\ e \in Approvals <=> t = "ReviewApproved"
      /\ e \in Removals <=> t = "ReviewRemoved"
      /\ e \in VerifiedApprovals <=> t = "ReviewApproved" /\ reviews[e.id].verified
      /\ \A g : /\ e \in Rated(Approvals, g) <=> t = "ReviewApproved" /\ e.rating = g
                /\ e \in Rated(Removals, g) <=> t = "ReviewRemoved" /\ e.rating = g
  BY <1>t, <1>1 DEF Approvals, Removals, VerifiedApprovals, VerifiedIds, Rated
<1>5. PICK n, f, m :
        /\ row' = [total |-> n, distribution |-> f, verified |-> m]
        /\ n \in Nat /\ f \in [Ratings -> Nat] /\ m \in Nat
        /\ n = IF e \in Approvals THEN r.total + 1
               ELSE IF e \in Removals THEN (IF r.total > 0 THEN r.total - 1 ELSE 0) ELSE r.total
        /\ \A g \in Ratings :
             f[g] = IF e \in Rated(Approvals, g) THEN r.distribution[g] + 1
                    ELSE IF e \in Rated(Removals, g)
                         THEN (IF r.distribution[g] > 0 THEN r.distribution[g] - 1 ELSE 0)
                    ELSE r.distribution[g]
        /\ m = IF e \in VerifiedApprovals THEN r.verified + 1 ELSE r.verified
  <2>1. CASE t = "ReviewApproved"
    <3>1. PICK n, f, m : /\ n = r.total + 1
                         /\ f = [r.distribution EXCEPT ![e.rating] = @ + 1]
                         /\ m = r.verified + (IF reviews[e.id].verified THEN 1 ELSE 0)
      OBVIOUS
    <3>2. row' = [total |-> n, distribution |-> f, verified |-> m]
      BY <1>e, <1>r, <1>t, <2>1, <3>1 DEF on_product_rating
    <3>3. n \in Nat /\ f \in [Ratings -> Nat] /\ m \in Nat
      BY <1>4, <3>1
    <3>4. \A g \in Ratings :
            f[g] = IF e.rating = g THEN r.distribution[g] + 1 ELSE r.distribution[g]
      BY <1>4, <3>1
    <3>5. m = IF reviews[e.id].verified THEN r.verified + 1 ELSE r.verified
      BY <1>4, <3>1
    <3> QED  BY <1>k, <2>1, <3>1, <3>2, <3>3, <3>4, <3>5
  <2>2. CASE t = "ReviewRemoved"
    <3>1. PICK n, f :
            /\ n = IF r.total > 0 THEN r.total - 1 ELSE 0
            /\ f = [r.distribution EXCEPT ![e.rating] = IF @ > 0 THEN @ - 1 ELSE 0]
      OBVIOUS
    <3>2. row' = [total |-> n, distribution |-> f, verified |-> r.verified]
      BY <1>e, <1>r, <1>t, <2>2, <3>1 DEF on_product_rating
    <3>3. n \in Nat /\ f \in [Ratings -> Nat] /\ r.verified \in Nat
      BY <1>4, <3>1
    <3>4. \A g \in Ratings :
            f[g] = IF e.rating = g
                   THEN (IF r.distribution[g] > 0 THEN r.distribution[g] - 1 ELSE 0)
                   ELSE r.distribution[g]
      BY <1>4, <3>1
    <3> QED  BY <1>k, <2>2, <3>1, <3>2, <3>3, <3>4
  <2>3. CASE t \notin {"ReviewApproved", "ReviewRemoved"}
    <3>1. row' = r
      BY <1>e, <1>r, <1>t, <2>3 DEF on_product_rating
    <3> QED  BY <1>4, <1>k, <2>3, <3>1
  <2> QED  BY <2>1, <2>2, <2>3
<1>6. row' \in RatingRow /\ row'.total = n /\ row'.distribution = f /\ row'.verified = m
  BY <1>5 DEF RatingRow
<1>7. Leads(StarSteps(Approvals, Removals), n, Tail(unread), Cardinality(Published))
  <2>1. \A w : <<r.total, e, w>> \in StarSteps(Approvals, Removals) => w = n
    BY <1>5 DEF StarSteps
  <2> QED  BY <1>e, <1>1, <1>2, <2>1, LeadsProject
<1>8. ASSUME NEW g \in Ratings
      PROVE  Leads(StarSteps(Rated(Approvals, g), Rated(Removals, g)), f[g], Tail(unread),
                   Cardinality(Starred(g)))
  <2>1. \A w : <<r.distribution[g], e, w>> \in StarSteps(Rated(Approvals, g), Rated(Removals, g))
                 => w = f[g]
    BY <1>5 DEF StarSteps
  <2>2. Leads(StarSteps(Rated(Approvals, g), Rated(Removals, g)), r.distribution[g], unread,
              Cardinality(Starred(g)))
    BY <1>2
  <2> QED  BY <1>e, <1>1, <2>1, <2>2, LeadsProject
<1>9. Leads(StarSteps(VerifiedApprovals, {}), m, Tail(unread), Cardinality(Praised))
  <2>1. \A w : <<r.verified, e, w>> \in StarSteps(VerifiedApprovals, {}) => w = m
    BY <1>5 DEF StarSteps
  <2> QED  BY <1>e, <1>1, <1>2, <2>1, LeadsProject
<1> QED  BY <1>3, <1>6, <1>7, <1>8, <1>9 DEF StarsShown

LEMMA ReviewReads ==
  ASSUME ReviewViewInv, ReviewProjection
  PROVE  ReviewViewInv'
<1>v. PICK v : v = view
  OBVIOUS
<1>e. PICK e : e = Head(unread)
  OBVIOUS
<1>1. /\ unread # << >> /\ row' = ReviewProjected(row, e) /\ view' = v
      /\ unread' = Tail(unread) \/ unread' = unread
      /\ ~redelivered' => ~redelivered /\ unread' = Tail(unread)
      /\ reviews' = reviews
  BY <1>v, <1>e DEF ReviewProjection, Project, review_vars
<1>2. /\ ReviewsTyped /\ v \in ReviewViews /\ unread \in Seq(ReviewEvent)
      /\ reviews \in [ReviewIds -> ReviewType]
      /\ \A k \in 1..Len(unread) : unread[k].id \in Written
  BY <1>v DEF ReviewViewInv, ReviewFacts, ReviewsInv, ReviewsTyped
<1>3. e \in ReviewEvent /\ e.id \in ReviewIds /\ unread' \in Seq(ReviewEvent)
      /\ \A k \in 1..Len(unread') : unread'[k].id \in Written
  <2>1. e \in ReviewEvent /\ Tail(unread) \in Seq(ReviewEvent)
    BY <1>e, <1>1, <1>2
  <2>2. \A k \in 1..Len(Tail(unread)) : Tail(unread)[k].id \in Written
    <3>1. ASSUME NEW k \in 1..Len(Tail(unread)) PROVE Tail(unread)[k].id \in Written
      <4>1. Tail(unread)[k] = unread[k + 1] /\ k + 1 \in 1..Len(unread)
        BY <1>1, <1>2
      <4> QED  BY <1>2, <4>1
    <3> QED  BY <3>1
  <2> QED  BY <1>1, <1>2, <2>1, <2>2 DEF ReviewEvent
<1>4. ReviewFacts'
  <2>1. ReviewsInv'
    BY ReviewsStepKeeps DEF ReviewViewInv, ReviewFacts, ReviewsNext
  <2>2. Written' = Written /\ \A id : ReviewSane(reviews[id])' = ReviewSane(reviews[id])
    BY <1>1 DEF Written, ReviewSane, Votes
  <2> QED  BY <1>1, <1>2, <1>3, <2>1, <2>2 DEF ReviewViewInv, ReviewFacts
<1>5. ASSUME v \in ListingViews
      PROVE  /\ EntriesShown'
             /\ \A id \in ReviewIds :
                  row'[id] = IF e.id = id THEN ReviewRowAfter(v, row[id], e, reviews[id])
                             ELSE row[id]
  <2>1. /\ row \in [ReviewIds -> ReviewRows(v)]
        /\ \A id \in ReviewIds : \E y \in ReviewEntries(v) :
             /\ Leads(EntrySteps(v, id), EntryOf(v, row[id]), unread, y)
             /\ EntryTold(v, y, reviews[id])
    BY <1>v, <1>5 DEF ReviewViewInv, EntriesShown
  <2>2. ASSUME NEW id \in ReviewIds, NEW x, x = row[id], NEW z,
               z = IF e.id = id THEN ReviewRowAfter(v, x, e, reviews[id]) ELSE x
        PROVE  /\ e.id = id => Apt(v, EntryOf(v, x), e)
               /\ z \in ReviewRows(v)
               /\ \E y \in ReviewEntries(v) : /\ Leads(EntrySteps(v, id), EntryOf(v, z), unread', y)
                                              /\ EntryTold(v, y, reviews[id])
    <3>1. PICK y \in ReviewEntries(v) : /\ Leads(EntrySteps(v, id), EntryOf(v, x), unread, y)
                                        /\ EntryTold(v, y, reviews[id])
      BY <2>1, <2>2
    <3>2. PICK a \in ReviewType : a = reviews[id]
      BY <1>2
    <3>3. x \in ReviewRows(v) /\ z = IF Head(unread).id = id
                                     THEN ReviewRowAfter(v, x, Head(unread), a) ELSE x
      BY <1>e, <2>1, <2>2, <3>2
    <3>4. /\ Head(unread).id = id => Apt(v, EntryOf(v, x), Head(unread))
          /\ z \in ReviewRows(v)
          /\ Leads(EntrySteps(v, id), EntryOf(v, z), Tail(unread), y)
          /\ Leads(EntrySteps(v, id), EntryOf(v, z), unread, y)
      BY <1>1, <1>2, <1>5, <3>1, <3>3, ReadEntry
    <3> QED  BY <1>e, <1>1, <3>1, <3>4
  <2>3. Apt(v, EntryOf(v, row[e.id]), e)
    BY <1>3, <2>2
  <2>4. row' = [row EXCEPT ![e.id] = ReviewRowAfter(v, row[e.id], e, reviews[e.id])]
    BY <1>v, <1>1, <1>2, <1>3, <1>5, <2>1, <2>3, RowProjects
  <2>5. /\ DOMAIN row' = ReviewIds /\ row' = [id \in ReviewIds |-> row'[id]]
        /\ \A id \in ReviewIds :
             row'[id] = IF e.id = id THEN ReviewRowAfter(v, row[id], e, reviews[id]) ELSE row[id]
    BY <2>1, <2>4
  <2>6. ASSUME NEW id \in ReviewIds
        PROVE  /\ row'[id] \in ReviewRows(v)
               /\ \E y \in ReviewEntries(v) :
                    /\ Leads(EntrySteps(v, id), EntryOf(v, row'[id]), unread', y)
                    /\ EntryTold(v, y, reviews[id])
    BY <2>2, <2>5
  <2>7. row' \in [ReviewIds -> ReviewRows(v)]
    BY <2>5, <2>6
  <2>8. EntriesShown'
    BY <1>1, <2>6, <2>7, Zenon DEF EntriesShown
  <2> QED  BY <2>5, <2>8
<1>6. ASSUME v = "product_reviews"
      PROVE  \A id \in ReviewIds : ProductShown(unread', id, row'[id], reviews[id])
  <2> SUFFICES ASSUME NEW id \in ReviewIds
               PROVE  ProductShown(unread', id, row'[id], reviews[id])
    OBVIOUS
  <2>1. v \in ListingViews
    BY <1>6 DEF ListingViews
  <2>2. row[id] \in {NoReviewRow} \cup ProductEntry
    BY <1>v, <1>6, <2>1 DEF ReviewViewInv, EntriesShown, ReviewRows
  <2>3. row'[id] = IF e.id = id THEN ProductAfter(row[id], e, reviews[id]) ELSE row[id]
    BY <1>5, <1>6, <2>1 DEF ReviewRowAfter
  <2>4. PICK x, z, a : x = row[id] /\ z = row'[id] /\ a = reviews[id]
    OBVIOUS
  <2>5. /\ ProductShown(unread, id, x, a) /\ a \in ReviewType
        /\ x \in {NoReviewRow} \cup ProductEntry
        /\ z = IF Head(unread).id = id THEN ProductAfter(x, Head(unread), a) ELSE x
    BY <1>v, <1>e, <1>2, <1>6, <2>2, <2>3, <2>4 DEF ReviewViewInv
  <2>6. ProductShown(Tail(unread), id, z, a) /\ ProductShown(unread, id, z, a)
    BY <1>1, <1>2, <2>5, ProductReads
  <2> QED  BY <1>1, <2>4, <2>6
<1>7. ASSUME v = "product_rating", ~redelivered' PROVE StarsShown'
  <2>1. ~redelivered /\ unread' = Tail(unread)
    BY <1>1, <1>7
  <2>2. ReviewFacts /\ StarsShown
    BY <1>v, <1>7, <2>1 DEF ReviewViewInv
  <2>3. row' = on_product_rating(row, Head(unread))
    BY <1>v, <1>e, <1>1, <1>7 DEF ReviewProjected
  <2> QED  BY <1>1, <2>1, <2>2, <2>3, ReadStars
<1> QED  BY <1>1, <1>4, <1>5, <1>6, <1>7 DEF ReviewViewInv

(* Nothing is said of a review, and nothing is read.                       *)
LEMMA ReviewWaits ==
  ASSUME ReviewViewInv, ReviewsInv', UNCHANGED <<reviews, read_vars>>
  PROVE  ReviewViewInv'
<1>1. /\ reviews' = reviews /\ view' = view /\ row' = row /\ unread' = unread
      /\ redelivered' = redelivered
  BY DEF read_vars
<1>2. /\ Written' = Written /\ Published' = Published /\ Praised' = Praised
      /\ VerifiedApprovals' = VerifiedApprovals /\ \A g : Starred(g)' = Starred(g)
      /\ \A id : ReviewSane(reviews[id])' = ReviewSane(reviews[id])
  BY <1>1 DEF Written, Published, Praised, VerifiedApprovals, VerifiedIds, Starred, Approvals,
              ReviewSane, Votes
<1>3. ReviewFacts'
  BY <1>1, <1>2 DEF ReviewViewInv, ReviewFacts
<1>4. EntriesShown => EntriesShown'
  BY <1>1 DEF EntriesShown
<1>5. StarsShown => StarsShown'
  BY <1>1, <1>2 DEF StarsShown
<1>6. (\A id \in ReviewIds : ProductShown(unread, id, row[id], reviews[id])) =>
        \A id \in ReviewIds : ProductShown(unread', id, row'[id], reviews'[id])
  BY <1>1
<1> QED  BY <1>1, <1>3, <1>4, <1>5, <1>6 DEF ReviewViewInv

LEMMA ReviewWrites ==
  ASSUME ReviewViewInv, ReviewsInv', NEW id \in ReviewIds, NEW t \in ReviewEventType,
         ReviewActs(id, t)
  PROVE  ReviewViewInv'
<1>1. PICK e, b : ReviewTells(id, e, b)
  BY ActsTell DEF ReviewViewInv, ReviewFacts, ReviewsInv
<1>2. view' = view /\ redelivered' = redelivered
  BY <1>1 DEF ReviewTells
<1>3. ReviewFacts'
  BY <1>1, TellsFacts DEF ReviewViewInv
<1>4. view \in ListingViews => EntriesShown'
  BY <1>1, TellsEntries DEF ReviewViewInv
<1>5. view = "product_reviews" =>
        \A i \in ReviewIds : ProductShown(unread', i, row'[i], reviews'[i])
  BY <1>1, TellsVotes DEF ReviewViewInv
<1>6. view = "product_rating" /\ ~redelivered => StarsShown'
  BY <1>1, TellsStars DEF ReviewViewInv
<1> QED  BY <1>2, <1>3, <1>4, <1>5, <1>6 DEF ReviewViewInv

LEMMA ReviewViewStep == ReviewViewInv /\ [ReviewsNext]_reviews_vars => ReviewViewInv'
<1> SUFFICES ASSUME ReviewViewInv, [ReviewsNext]_reviews_vars PROVE ReviewViewInv'
  OBVIOUS
<1>1. ReviewsInv /\ ReviewsTyped /\ \A id \in ReviewIds : ReviewSane(reviews[id])
  BY DEF ReviewViewInv, ReviewFacts, ReviewsInv
<1>2. ReviewsInv'
  BY <1>1, ReviewsStepKeeps
<1>3. CASE OrderDeliveredToReviewer
  BY <1>2, <1>3, ReviewWaits DEF OrderDeliveredToReviewer
<1>4. CASE SubmitReview
  <2>1. PICK s \in Submissions : CheckReviews(s) \/ submit(s)
    BY <1>4 DEF SubmitReview
  <2>2. CASE CheckReviews(s)
    BY <1>2, <2>2, ReviewWaits DEF CheckReviews
  <2>3. CASE submit(s)
    <3>1. PICK id \in ReviewIds : ReviewActs(id, "ReviewSubmitted")
      BY <1>1, <2>3, SubmissionActs
    <3>2. "ReviewSubmitted" \in ReviewEventType
      BY DEF ReviewEventType
    <3> QED  BY <1>2, <3>1, <3>2, ReviewWrites
  <2> QED  BY <2>1, <2>2, <2>3
<1>5. CASE ReviewCommand
  <2>1. PICK id \in ReviewIds :
          \/ \E rating \in Ratings : edit(id, rating)
          \/ approve(id) \/ reject(id) \/ remove(id) \/ report(id) \/ add_seller_reply(id)
          \/ \E v \in Voters, vote_type \in {"Helpful", "Unhelpful"} : vote(id, v, vote_type)
    BY <1>5 DEF ReviewCommand
  <2>2. ReviewSane(reviews[id])
    BY <1>1
  <2>3. \E t \in ReviewEventType : ReviewActs(id, t)
    <3>1. CASE \/ \E rating \in Ratings : edit(id, rating)
               \/ approve(id) \/ reject(id) \/ remove(id) \/ report(id) \/ add_seller_reply(id)
      BY <1>1, <2>2, <3>1, CommandActs
    <3>2. ASSUME NEW v \in Voters, NEW cast \in {"Helpful", "Unhelpful"}, vote(id, v, cast)
          PROVE  \E t \in ReviewEventType : ReviewActs(id, t)
      <4>1. ReviewActs(id, "HelpfulVoteRecorded")
        BY <1>1, <2>2, <3>2, VoteActs
      <4> QED  BY <4>1 DEF ReviewEventType
    <3> QED  BY <2>1, <3>1, <3>2
  <2> QED  BY <1>2, <2>3, ReviewWrites
<1>6. CASE ReviewProjection
  BY <1>6, ReviewReads
<1>7. CASE UNCHANGED reviews_vars
  BY <1>2, <1>7, ReviewWaits DEF reviews_vars, review_vars
<1> QED  BY <1>3, <1>4, <1>5, <1>6, <1>7 DEF ReviewsNext

LEMMA ReviewViewStart == ReviewsInit => ReviewViewInv
<1> SUFFICES ASSUME ReviewsInit PROVE ReviewViewInv
  OBVIOUS
<1>1. /\ reviews = [id \in ReviewIds |-> NoReview] /\ view \in ReviewViews /\ row = ReviewRow
      /\ unread = << >>
  BY DEF ReviewsInit, ReviewsEmpty
<1>2. \A id \in ReviewIds : reviews[id] = NoReview
  BY <1>1
<1>3. NoReview.status = "None" /\ ~NoReview.replied
      /\ NoReview.helpful_count = 0 /\ NoReview.unhelpful_count = 0
  BY DEF NoReview
<1>4. Written = {} /\ Published = {} /\ Praised = {} /\ \A g : Starred(g) = {}
  BY <1>2, <1>3 DEF Written, Published, Praised, VerifiedIds, Starred
<1>5. ReviewFacts
  <2>1. ReviewsInv
    BY ReviewsInitKeeps
  <2>2. \A id \in ReviewIds : ReviewSane(reviews[id])
    BY <1>2, <1>3 DEF ReviewSane
  <2> QED  BY <1>1, <1>2, <1>4, <2>1, <2>2, FS_EmptySet DEF ReviewFacts
<1>6. ASSUME view \in ListingViews
      PROVE  /\ row = [id \in ReviewIds |-> NoReviewRow]
             /\ NoReviewRow \in ReviewRows(view) /\ NoReviewRow \in ReviewEntries(view)
             /\ EntryOf(view, NoReviewRow) = NoReviewRow /\ EntryTold(view, NoReviewRow, NoReview)
  <2>1. row = [id \in ReviewIds |-> NoReviewRow]
    BY <1>1, <1>6 DEF ReviewRow, ListingViews
  <2>2. NoReviewRow \in ReviewRows(view) /\ NoReviewRow \in ReviewEntries(view)
    BY DEF ReviewRows, ReviewEntries
  <2>3. EntryOf(view, NoReviewRow) = NoReviewRow
    BY DEF EntryOf
  <2>4. EntryTold(view, NoReviewRow, NoReview)
    BY <1>3, <1>6 DEF EntryTold, ListingViews
  <2> QED  BY <2>1, <2>2, <2>3, <2>4
<1>7. ASSUME view \in ListingViews PROVE EntriesShown
  <2>1. row \in [ReviewIds -> ReviewRows(view)]
    BY <1>6, <1>7
  <2>2. ASSUME NEW id \in ReviewIds
        PROVE  \E y \in ReviewEntries(view) :
                 /\ Leads(EntrySteps(view, id), EntryOf(view, row[id]), unread, y)
                 /\ EntryTold(view, y, reviews[id])
    <3>1. row[id] = NoReviewRow
      BY <1>6, <1>7
    <3>2. Leads(EntrySteps(view, id), EntryOf(view, row[id]), unread, NoReviewRow)
      BY <1>1, <1>6, <1>7, <3>1, LeadsNone
    <3> QED  BY <1>2, <1>6, <1>7, <3>2
  <2> QED  BY <2>1, <2>2 DEF EntriesShown
<1>8. ASSUME view = "product_reviews", NEW id \in ReviewIds
      PROVE  ProductShown(unread, id, row[id], reviews[id])
  <2>1. row[id] = NoReviewRow
    BY <1>6, <1>8 DEF ListingViews
  <2>2. NoReviewRow \in VotesShown(NoReview) /\ NoReviewRow \in ReplyShown(NoReview)
    BY DEF VotesShown, ReplyShown
  <2>3. 1..Len(unread) = {}
    BY <1>1
  <2> QED  BY <1>2, <2>1, <2>2, <2>3 DEF ProductShown, LastTells
<1>9. ASSUME view = "product_rating" PROVE StarsShown
  <2>1. row = [total |-> 0, distribution |-> [r \in Ratings |-> 0], verified |-> 0]
    BY <1>1, <1>9 DEF ReviewRow
  <2>2. /\ row \in RatingRow /\ row.total = 0 /\ row.verified = 0
        /\ \A g \in Ratings : row.distribution[g] = 0
    BY <2>1 DEF RatingRow
  <2>3. Cardinality(Published) = 0 /\ Cardinality(Praised) = 0
        /\ \A g : Cardinality(Starred(g)) = 0
    BY <1>4, FS_EmptySet
  <2> QED  BY <1>1, <2>2, <2>3, LeadsNone DEF StarsShown
<1> QED  BY <1>5, <1>7, <1>8, <1>9 DEF ReviewViewInv

------------------------------------------------------------------------------
(* With nothing left to read, what was to be said is what is shown.        *)
LEMMA ReviewViewTells == ReviewViewInv => ReviewViewsFollow
<1> SUFFICES ASSUME ReviewViewInv, unread = << >>
             PROVE  CASE view = "moderation_queue" -> QueueFollows
                      [] view = "product_rating" -> RatingFollows
                      [] view = "product_reviews" -> ProductReviewsFollow
                      [] view = "review_detail" -> ReviewDetailFollows
                      [] view = "customer_reviews" -> CustomerReviewsFollow
                      [] OTHER -> TRUE
  BY DEF ReviewViewsFollow, CaughtUp
<1>1. /\ view \in ReviewViews /\ reviews \in [ReviewIds -> ReviewType] /\ IsFiniteSet(Written)
      /\ \A id \in ReviewIds : ReviewSane(reviews[id])
  BY DEF ReviewViewInv, ReviewFacts, ReviewsInv, ReviewsTyped
<1>2. ASSUME view \in ListingViews, NEW id \in ReviewIds
      PROVE  /\ row[id] \in ReviewRows(view) /\ EntryTold(view, EntryOf(view, row[id]), reviews[id])
             /\ EntryOf(view, row[id]) \in ReviewEntries(view)
  <2>1. row \in [ReviewIds -> ReviewRows(view)]
    BY <1>2 DEF ReviewViewInv, EntriesShown
  <2>2. PICK y \in ReviewEntries(view) :
          /\ Leads(EntrySteps(view, id), EntryOf(view, row[id]), unread, y)
          /\ EntryTold(view, y, reviews[id])
    BY <1>2 DEF ReviewViewInv, EntriesShown
  <2>3. y = EntryOf(view, row[id])
    BY <2>2, LeadsNone
  <2> QED  BY <2>1, <2>2, <2>3
<1>3. ASSUME NEW id \in ReviewIds, reviews[id].status # "None"
      PROVE  /\ reviews[id].helpful_count = Cardinality(Votes(reviews[id], "Helpful"))
             /\ reviews[id].unhelpful_count = Cardinality(Votes(reviews[id], "Unhelpful"))
  BY <1>1, <1>3 DEF ReviewSane
<1>4. CASE view = "moderation_queue"
  <2> SUFFICES QueueFollows
    BY <1>4, Zenon
  <2> SUFFICES ASSUME NEW id \in ReviewIds
               PROVE  /\ reviews[id].status = "Pending" /\ ~reviews[id].notes =>
                           row[id] = [status |-> "Pending",
                                      report_count |-> reviews[id].report_count]
                      /\ Listed(id) /\ row[id].status = "Pending" =>
                           reviews[id].status = "Pending" /\ ~reviews[id].notes
                      /\ Listed(id) => row[id].report_count = reviews[id].report_count
                      /\ Listed(id) /\ row[id].status = "Reported" => row[id].report_count > 0
    BY Zenon DEF QueueFollows
  <2>1. EntryOf(view, row[id]) = row[id]
    BY <1>4 DEF EntryOf
  <2>2. EntryTold(view, row[id], reviews[id])
    BY <1>2, <1>4, <2>1 DEF ListingViews
  <2> QED  BY <1>4, <2>2 DEF EntryTold, Listed, IsListed
<1>5. CASE view = "product_rating"
  <2> SUFFICES ASSUME ~redelivered
               PROVE  /\ row.total = Cardinality(Published)
                      /\ \A r \in Ratings :
                           row.distribution[r] =
                             Cardinality({id \in Published : reviews[id].rating = r})
                      /\ row.verified >= Cardinality({id \in Published : reviews[id].verified})
                      /\ row.verified <= Cardinality({id \in Written : reviews[id].verified})
    BY <1>5, Zenon DEF RatingFollows
  <2>1. StarsShown
    BY <1>5 DEF ReviewViewInv
  <2>2. /\ row.total = Cardinality(Published) /\ row.verified = Cardinality(Praised)
        /\ \A g \in Ratings : row.distribution[g] = Cardinality(Starred(g))
    BY <2>1, LeadsNone DEF StarsShown
  <2>3. PICK P : P = {id \in Published : reviews[id].verified}
    OBVIOUS
  <2>4. P \subseteq Praised /\ Praised \subseteq VerifiedIds /\ VerifiedIds \subseteq Written
    BY <2>3 DEF Praised, VerifiedIds, Published
  <2>5. IsFiniteSet(VerifiedIds) /\ IsFiniteSet(Praised)
    BY <1>1, <2>4, FS_Subset
  <2>6. /\ Cardinality(P) <= Cardinality(Praised)
        /\ Cardinality(Praised) <= Cardinality(VerifiedIds)
        /\ Cardinality(P) \in Nat /\ Cardinality(Praised) \in Nat
    <3>1. IsFiniteSet(P) /\ Cardinality(P) <= Cardinality(Praised)
      BY <2>4, <2>5, FS_Subset
    <3>2. Cardinality(Praised) <= Cardinality(VerifiedIds)
      BY <2>4, <2>5, FS_Subset
    <3> QED  BY <2>5, <3>1, <3>2, FS_CardinalityType
  <2>7. VerifiedIds = {id \in Written : reviews[id].verified}
        /\ \A g : Starred(g) = {id \in Published : reviews[id].rating = g}
    BY DEF VerifiedIds, Starred
  <2> QED  BY <2>2, <2>3, <2>6, <2>7
<1>6. CASE view = "product_reviews"
  <2> SUFFICES ProductReviewsFollow
    BY <1>6, Zenon
  <2> SUFFICES ASSUME NEW id \in ReviewIds
               PROVE  /\ Listed(id) = (id \in Published)
                      /\ Listed(id) => row[id].rating = reviews[id].rating /\ SameVotes(id)
    BY DEF ProductReviewsFollow
  <2>x. PICK x : x = row[id]
    OBVIOUS
  <2>1. /\ x \in {NoReviewRow} \cup ProductEntry
        /\ EntryOf(view, x) = IF reviews[id].status = "Published"
                              THEN [status |-> "Published", rating |-> reviews[id].rating]
                              ELSE NoReviewRow
    BY <1>2, <1>6, <2>x DEF ListingViews, ReviewRows, EntryTold
  <2>2. Listed(id) <=> x # NoReviewRow
    BY <2>x DEF Listed, IsListed
  <2>3. id \in Published <=> reviews[id].status = "Published"
    BY DEF Published, Written
  <2>4. CASE x = NoReviewRow
    <3>1. EntryOf(view, x) = NoReviewRow
      BY <2>4 DEF EntryOf
    <3>2. PICK g : g = reviews[id].rating
      OBVIOUS
    <3>3. [status |-> "Published", rating |-> g] # NoReviewRow
      BY NoEntry, Zenon
    <3>4. EntryOf(view, x) = IF reviews[id].status = "Published"
                             THEN [status |-> "Published", rating |-> g] ELSE NoReviewRow
      BY <2>1, <3>2, Zenon
    <3>5. reviews[id].status # "Published"
      BY <3>1, <3>3, <3>4, Zenon
    <3>6. ~Listed(id) /\ id \notin Published
      BY <2>2, <2>3, <2>4, <3>5
    <3> QED  BY <3>6 DEF Listed, IsListed
  <2>5. CASE x # NoReviewRow
    <3>1. EntryOf(view, x) = [status |-> x.status, rating |-> x.rating]
      BY <1>6, <2>5 DEF EntryOf
    <3>2. reviews[id].status = "Published" /\ x.rating = reviews[id].rating
      BY <2>1, <3>1, NoEntry
    <3>3. LastTells(unread, VoteEvents(id), VotesTold(reviews[id]), x, VotesShown(reviews[id]))
          /\ LastTells(unread, ReplyEvents(id), ReplyTold(reviews[id]), x, ReplyShown(reviews[id]))
      BY <1>6, <2>x DEF ReviewViewInv, ProductShown
    <3>4. 1..Len(unread) = {}
      OBVIOUS
    <3>5. x \in VotesShown(reviews[id]) /\ x \in ReplyShown(reviews[id])
      BY <3>3, <3>4 DEF LastTells
    <3>6. /\ x.helpful_count = reviews[id].helpful_count
          /\ x.unhelpful_count = reviews[id].unhelpful_count /\ x.replied = reviews[id].replied
      BY <2>5, <3>5 DEF VotesShown, ReplyShown
    <3>7. SameVotes(id)
      BY <1>3, <2>x, <3>2, <3>6 DEF SameVotes
    <3> QED  BY <2>x, <2>2, <2>3, <2>5, <3>2, <3>7
  <2> QED  BY <2>4, <2>5
<1>7. CASE view = "review_detail"
  <2> SUFFICES ReviewDetailFollows
    BY <1>7, Zenon
  <2> SUFFICES ASSUME NEW id \in ReviewIds
               PROVE  /\ Listed(id) = (id \in Written)
                      /\ Listed(id) => /\ SameVotes(id)
                                       /\ row[id].status = reviews[id].status
                                       /\ row[id].rating = reviews[id].rating
                                       /\ row[id].report_count = reviews[id].report_count
                                       /\ row[id].is_edited = reviews[id].is_edited
    BY DEF ReviewDetailFollows
  <2>1. EntryOf(view, row[id]) = row[id]
    BY <1>7 DEF EntryOf
  <2>2. EntryTold(view, row[id], reviews[id])
    BY <1>2, <1>7, <2>1 DEF ListingViews
  <2>a. PICK a : a = reviews[id]
    OBVIOUS
  <2>3. row[id] = IF a.status = "None" THEN NoReviewRow
                  ELSE [status |-> a.status, rating |-> a.rating,
                        helpful_count |-> a.helpful_count, unhelpful_count |-> a.unhelpful_count,
                        report_count |-> a.report_count, replied |-> a.replied,
                        is_edited |-> a.is_edited]
    BY <1>7, <2>a, <2>2 DEF EntryTold
  <2>4. CASE a.status = "None"
    BY <2>a, <2>3, <2>4 DEF Listed, IsListed, Written
  <2>5. CASE a.status # "None"
    <3>1. row[id] = [status |-> a.status, rating |-> a.rating,
                     helpful_count |-> a.helpful_count, unhelpful_count |-> a.unhelpful_count,
                     report_count |-> a.report_count, replied |-> a.replied,
                     is_edited |-> a.is_edited]
      BY <2>3, <2>5
    <3>2. Listed(id) /\ id \in Written
      BY <2>a, <2>5, <3>1, NoEntry DEF Listed, IsListed, Written
    <3>3. /\ row[id].status = a.status /\ row[id].rating = a.rating
          /\ row[id].helpful_count = a.helpful_count
          /\ row[id].unhelpful_count = a.unhelpful_count
          /\ row[id].report_count = a.report_count /\ row[id].replied = a.replied
          /\ row[id].is_edited = a.is_edited
      BY <3>1
    <3>4. SameVotes(id)
      BY <1>3, <2>a, <2>5, <3>3 DEF SameVotes
    <3> QED  BY <2>a, <3>2, <3>3, <3>4
  <2> QED  BY <2>4, <2>5
<1>8. CASE view = "customer_reviews"
  <2> SUFFICES CustomerReviewsFollow
    BY <1>8, Zenon
  <2> SUFFICES ASSUME NEW id \in Written
               PROVE  row[id] = [status |-> reviews[id].status, rating |-> reviews[id].rating]
    BY DEF CustomerReviewsFollow
  <2>1. id \in ReviewIds /\ reviews[id].status # "None" /\ EntryOf(view, row[id]) = row[id]
    BY <1>8 DEF EntryOf, Written
  <2>2. EntryTold(view, row[id], reviews[id])
    BY <1>2, <1>8, <2>1 DEF ListingViews
  <2> QED  BY <1>8, <2>1, <2>2 DEF EntryTold
<1> QED  BY <1>1, <1>4, <1>5, <1>6, <1>7, <1>8 DEF ReviewViews

(* However reviews are written, moderated, voted on, reported and answered *)
(* while events wait, and however often an event is handled again, the     *)
(* projections of reviews that caught up tell the truth about them; stars  *)
(* do so as long as no event was handled twice (reviews/projections).      *)
THEOREM ReviewIsShown == ReviewsSpec => []ReviewViewsFollow
<1>1. ReviewsSpec => []ReviewViewInv
  BY ReviewViewStart, ReviewViewStep, PTL DEF ReviewsSpec
<1> QED  BY <1>1, ReviewViewTells, PTL
==============================================================================
