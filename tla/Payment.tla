------------------------------- MODULE Payment -------------------------------
(***************************************************************************)
(* The event-sourced Payment aggregate (payments/payment/payment.py) and   *)
(* its command handlers, for one payment: attempts at the gateway, retries *)
(* and refunds.  Every answer of the gateway arrives as a webhook that     *)
(* names the payment but not the attempt it is about, at any time and      *)
(* perhaps twice.  record_processing, which nothing calls, is left out.    *)
(***************************************************************************)
EXTENDS Integers, Sequences, UnitSums

CONSTANTS
  Amount,         \* what InitiatePayment charges, in whole units
  RefundIds,      \* uuid4 values refunds may get
  RefundAmounts   \* amounts a caller may ask back

ASSUME PaymentAssumption ==
  /\ Amount \in Nat \ {0}
  /\ RefundAmounts \subseteq Nat \ {0}

VARIABLES
  status,          \* PaymentStatus
  attempts,        \* status of every PaymentAttempt, oldest first
  attempt_count,
  refunds,         \* refund id -> Refund, NoRefund where there is none
  total_refunded,
  raised           \* events the last command raised

vars == <<status, attempts, attempt_count, refunds, total_refunded, raised>>

------------------------------------------------------------------------------
MAX_PAYMENT_ATTEMPTS == 3

PaymentStatus == {"Pending", "Processing", "Succeeded", "Failed",
                  "Refunded", "Partially_Refunded"}

AttemptStatus == {"processing", "succeeded", "failed"}

Refund == [status : {"None", "Requested", "Completed"}, amount : Nat]

NoRefund == [status |-> "None", amount |-> 0]

Event == [type : {"PaymentInitiated", "PaymentSucceeded", "PaymentRetryInitiated"}]
         \cup [type : {"PaymentFailed"}, can_retry : BOOLEAN]
         \cup [type : {"RefundRequested", "RefundCompleted"}, amount : Nat]

TypeOK == /\ status \in PaymentStatus
          /\ attempts \in Seq(AttemptStatus)
          /\ attempt_count \in Nat
          /\ refunds \in [RefundIds -> Refund]
          /\ total_refunded \in Nat
          /\ raised \in Seq(Event)

(* _VALID_TRANSITIONS. *)
ValidTransitions ==
  [s \in PaymentStatus |->
     CASE s = "Pending"            -> {"Processing", "Succeeded", "Failed"}
       [] s = "Processing"         -> {"Succeeded", "Failed"}
       [] s = "Failed"             -> {"Pending"}
       [] s = "Succeeded"          -> {"Refunded", "Partially_Refunded"}
       [] s = "Refunded"           -> {}
       [] s = "Partially_Refunded" -> {"Refunded"}]

CanTransition(target) == target \in ValidTransitions[status]

------------------------------------------------------------------------------
(* @apply handlers. *)
LatestAttempt(attempt_status) ==
  [attempts EXCEPT ![Len(attempts)] = attempt_status]

OnPaymentSucceeded ==
  /\ status' = "Succeeded"
  /\ attempts' = LatestAttempt("succeeded")
  /\ UNCHANGED <<attempt_count, refunds, total_refunded>>

OnPaymentFailed ==
  /\ status' = "Failed"
  /\ attempts' = LatestAttempt("failed")
  /\ UNCHANGED <<attempt_count, refunds, total_refunded>>

OnPaymentRetryInitiated(attempt_number) ==
  /\ status' = "Pending"
  /\ attempt_count' = attempt_number
  /\ attempts' = Append(attempts, "processing")
  /\ UNCHANGED <<refunds, total_refunded>>

OnRefundRequested(refund_id, amount) ==
  /\ refunds' = [refunds EXCEPT ![refund_id] = [status |-> "Requested", amount |-> amount]]
  /\ UNCHANGED <<status, attempts, attempt_count, total_refunded>>

OnRefundCompleted(refund_id, amount) ==
  /\ refunds' = [refunds EXCEPT ![refund_id].status = "Completed"]
  /\ total_refunded' = total_refunded + amount
  /\ status' = IF total_refunded' >= Amount THEN "Refunded" ELSE "Partially_Refunded"
  /\ UNCHANGED <<attempts, attempt_count>>

------------------------------------------------------------------------------
(* Command methods. *)
record_success ==
  /\ CanTransition("Succeeded")
  /\ OnPaymentSucceeded
  /\ raised' = <<[type |-> "PaymentSucceeded"]>>

(* Mutant: a failure webhook is accepted after the success, too.           *)
record_failure_AfterSuccess ==
  /\ CanTransition("Failed") \/ status = "Succeeded"
  /\ OnPaymentFailed
  /\ raised' = <<[type |-> "PaymentFailed",
                  can_retry |-> attempt_count < MAX_PAYMENT_ATTEMPTS]>>

(* Mutant: can_retry is judged by the next attempt, not by this one.       *)
record_failure_OffByOne ==
  /\ CanTransition("Failed")
  /\ OnPaymentFailed
  /\ raised' = <<[type |-> "PaymentFailed",
                  can_retry |-> attempt_count + 1 < MAX_PAYMENT_ATTEMPTS]>>

record_failure ==
  /\ CanTransition("Failed")
  /\ OnPaymentFailed
  /\ raised' = <<[type |-> "PaymentFailed",
                  can_retry |-> attempt_count < MAX_PAYMENT_ATTEMPTS]>>

can_retry == status = "Failed" /\ attempt_count < MAX_PAYMENT_ATTEMPTS

retry ==
  /\ can_retry
  /\ CanTransition("Pending")
  /\ OnPaymentRetryInitiated(attempt_count + 1)
  /\ raised' = <<[type |-> "PaymentRetryInitiated"]>>

request_refund(amount) ==
  /\ status \in {"Succeeded", "Partially_Refunded"}
  /\ total_refunded + amount <= Amount
  /\ \E refund_id \in RefundIds :
       /\ refunds[refund_id] = NoRefund
       /\ OnRefundRequested(refund_id, amount)
  /\ raised' = <<[type |-> "RefundRequested", amount |-> amount]>>

(* Mutant: a repeated refund webhook counts again.                         *)
complete_refund_Again(refund_id) ==
  LET refund == refunds[refund_id] IN
  /\ refund # NoRefund
  /\ total_refunded < Amount
  /\ OnRefundCompleted(refund_id, refund.amount)
  /\ raised' = <<[type |-> "RefundCompleted", amount |-> refund.amount]>>

complete_refund(refund_id) ==
  LET refund == refunds[refund_id] IN
  /\ refund.status = "Requested"
  /\ OnRefundCompleted(refund_id, refund.amount)
  /\ raised' = <<[type |-> "RefundCompleted", amount |-> refund.amount]>>

------------------------------------------------------------------------------
(* Command handlers. *)
InitiatePayment ==
  /\ status = "Pending"
  /\ attempts = <<"processing">>
  /\ attempt_count = 1
  /\ refunds = [r \in RefundIds |-> NoRefund]
  /\ total_refunded = 0
  /\ raised = <<[type |-> "PaymentInitiated"]>>

ProcessPaymentWebhook == record_success \/ record_failure

RetryPayment == retry

RequestRefund == \E amount \in RefundAmounts : request_refund(amount)

ProcessRefundWebhook == \E refund_id \in RefundIds : complete_refund(refund_id)

Next == ProcessPaymentWebhook \/ RetryPayment \/ RequestRefund \/ ProcessRefundWebhook

Init == InitiatePayment

Spec == Init /\ [][Next]_vars

------------------------------------------------------------------------------
(* PaymentFailed says can_retry exactly when RetryPayment will then be     *)
(* accepted: the checkout saga cancels the order on the strength of it.    *)
CanRetryIsTrue ==
  (\E k \in 1..Len(raised) : raised[k] = [type |-> "PaymentFailed", can_retry |-> TRUE])
    <=> can_retry

(* Attempts are made one after the other, at most three times, and their   *)
(* record explains the payment's status: all but the latest failed, and    *)
(* the latest is what the payment is.  attempt_count, which decides        *)
(* whether to retry, and the list of attempts are kept apart in the code,  *)
(* and what the event tells the saga of another attempt is true.           *)
AttemptsExplainStatus ==
  /\ attempt_count = Len(attempts)
  /\ attempt_count \in 1..MAX_PAYMENT_ATTEMPTS
  /\ \A k \in 1..(attempt_count - 1) : attempts[k] = "failed"
  /\ attempts[attempt_count] =
       CASE status = "Pending" -> "processing"
         [] status = "Failed" -> "failed"
         [] OTHER -> "succeeded"
  /\ CanRetryIsTrue

CompletedRefunds == {r \in RefundIds : refunds[r].status = "Completed"}

RefundAmount == [r \in RefundIds |-> refunds[r].amount]

(* total_refunded, kept by increments, is what the completed refunds add   *)
(* up to, and the status tells how far that is.  No refund exists for a    *)
(* payment that never succeeded.                                           *)
RefundsAddUp ==
  /\ total_refunded = Total(CompletedRefunds, RefundAmount)
  /\ status = "Partially_Refunded" => total_refunded \in 1..(Amount - 1)
  /\ status = "Refunded" => total_refunded >= Amount
  /\ status \notin {"Partially_Refunded", "Refunded"} => CompletedRefunds = {}
  /\ (\E r \in RefundIds : refunds[r] # NoRefund) => attempts[attempt_count] = "succeeded"

(* A captured payment stays captured: no late or repeated webhook, and no  *)
(* retry, adds or changes an attempt, and money once refunded in full is   *)
(* never "partially refunded" again.                                       *)
CapturedForGood ==
  [][/\ status \notin {"Pending", "Processing", "Failed"} =>
          /\ attempts' = attempts
          /\ status' \notin {"Pending", "Processing", "Failed"}
     /\ status = "Refunded" => status' = "Refunded"
     /\ total_refunded' >= total_refunded]_vars

(* docs/payments/scenarios/refund-flow.md:53, "Sum of all completed        *)
(* refunds + pending refund cannot exceed original payment amount".        *)
RefundsWithinAmount == total_refunded <= Amount
==============================================================================
