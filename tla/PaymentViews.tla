----------------------------- MODULE PaymentViews -----------------------------
(***************************************************************************)
(* The projections of Payment (payments/projections), for one payment on   *)
(* one day.  Transaction ids, reasons and dates are left out.              *)
(***************************************************************************)
EXTENDS Payment, ReadModel, FiniteSets

PaymentViewNames == {"payment_status", "failed_payments", "customer_payments",
                     "daily_revenue", "refund_report"}

RefundOf(r) == refunds'[r] # refunds[r]

(* What the command's event carries: type, attempt and, of a refund, its   *)
(* id and amount.                                                          *)
PaymentRaised ==
  [k \in 1..Len(raised') |->
     [type |-> raised'[k].type,
      attempt_number |-> attempt_count',
      refund_id |-> IF \E r \in RefundIds : RefundOf(r)
                    THEN CHOOSE r \in RefundIds : RefundOf(r) ELSE "None",
      amount |-> IF raised'[k].type \in {"RefundRequested", "RefundCompleted"}
                 THEN raised'[k].amount ELSE Amount]]

------------------------------------------------------------------------------
(* Projectors: what the row r of the projection v is after event e.        *)

(* Mutant: a retry does not reach the projection.                          *)
on_payment_status_NoRetry(r, e) ==
  CASE e.type = "PaymentSucceeded" -> [r EXCEPT !.status = "Succeeded"]
    [] e.type = "PaymentFailed" ->
         [r EXCEPT !.status = "Failed", !.attempt_count = e.attempt_number]
    [] OTHER -> r

on_payment_status(r, e) ==
  CASE e.type = "PaymentSucceeded" -> [r EXCEPT !.status = "Succeeded"]
    [] e.type = "PaymentFailed" ->
         [r EXCEPT !.status = "Failed", !.attempt_count = e.attempt_number]
    [] e.type = "PaymentRetryInitiated" ->
         [r EXCEPT !.status = "Pending", !.attempt_count = e.attempt_number]
    [] e.type = "RefundRequested" -> r
    [] e.type = "RefundCompleted" ->
         LET total == r.total_refunded + e.amount
         IN  [r EXCEPT !.total_refunded = total,
                         !.status = IF total >= Amount THEN "Refunded" ELSE "Partially_Refunded"]

(* A payment that never failed has no row ("none").                        *)
on_failed_payments(r, e) ==
  CASE e.type = "PaymentFailed" -> [status |-> "failed", attempt_number |-> e.attempt_number]
    [] e.type = "PaymentRetryInitiated" /\ r.status # "none" ->
         [status |-> "retrying", attempt_number |-> e.attempt_number]
    [] e.type = "PaymentSucceeded" /\ r.status # "none" -> [r EXCEPT !.status = "recovered"]
    [] OTHER -> r

(* Retries are not handled, and any refund counts as the full one.         *)
on_customer_payments(r, e) ==
  CASE e.type = "PaymentSucceeded" -> [status |-> "Succeeded"]
    [] e.type = "PaymentFailed" -> [status |-> "Failed"]
    [] e.type = "RefundCompleted" -> [status |-> "Refunded"]
    [] OTHER -> r

on_daily_revenue(r, e) ==
  LET revenue  == r.revenue + (IF e.type = "PaymentSucceeded" THEN e.amount ELSE 0)
      refunded == r.refunded + (IF e.type = "RefundCompleted" THEN e.amount ELSE 0)
  IN  [revenue |-> revenue, refunded |-> refunded, net |-> revenue - refunded,
       transactions |-> r.transactions + (IF e.type = "PaymentSucceeded" THEN 1 ELSE 0),
       refunds |-> r.refunds + (IF e.type = "RefundCompleted" THEN 1 ELSE 0)]

on_refund_report(r, e) ==
  CASE e.type = "RefundRequested" ->
         [r EXCEPT ![e.refund_id] = [status |-> "Requested", amount |-> e.amount]]
    [] e.type = "RefundCompleted" -> [r EXCEPT ![e.refund_id].status = "Completed"]
    [] OTHER -> r

PaymentProjected(v, r, e) ==
  CASE v = "payment_status" -> on_payment_status(r, e)
    [] v = "failed_payments" -> on_failed_payments(r, e)
    [] v = "customer_payments" -> on_customer_payments(r, e)
    [] v = "daily_revenue" -> on_daily_revenue(r, e)
    [] v = "refund_report" -> on_refund_report(r, e)

(* What the projectors make of PaymentInitiated.                           *)
PaymentRow ==
  CASE view = "payment_status" -> [status |-> "Pending", attempt_count |-> 1, total_refunded |-> 0]
    [] view = "failed_payments" -> [status |-> "none", attempt_number |-> 0]
    [] view = "customer_payments" -> [status |-> "Pending"]
    [] view = "daily_revenue" ->
         [revenue |-> 0, refunded |-> 0, net |-> 0, transactions |-> 0, refunds |-> 0]
    [] view = "refund_report" -> [r \in RefundIds |-> NoRefund]

------------------------------------------------------------------------------
(* What the projections tell of the payment, once they caught up with it.  *)

Captured == status \in {"Succeeded", "Partially_Refunded", "Refunded"}

StatusViewFollows ==
  /\ row.attempt_count = attempt_count
  /\ ~redelivered => row.status = status /\ row.total_refunded = total_refunded
  /\ row.total_refunded >= total_refunded

FailedViewFollows ==
  /\ row.status = CASE status = "Failed" -> "failed"
                    [] status = "Pending" /\ attempt_count > 1 -> "retrying"
                    [] status \notin {"Failed", "Pending"} /\ attempt_count > 1 -> "recovered"
                    [] OTHER -> "none"
  /\ row.status # "none" => row.attempt_number = attempt_count

CustomerViewFollows ==
  row.status = CASE status = "Pending" /\ attempt_count > 1 -> "Failed"
                 [] status = "Partially_Refunded" -> "Refunded"
                 [] OTHER -> status

RevenueFollows ==
  ~redelivered =>
    row = [revenue |-> IF Captured THEN Amount ELSE 0, refunded |-> total_refunded,
           net |-> (IF Captured THEN Amount ELSE 0) - total_refunded,
           transactions |-> IF Captured THEN 1 ELSE 0,
           refunds |-> Cardinality(CompletedRefunds)]

(* The projections that caught up tell the truth about the payment; those  *)
(* that add up do so unless an event was handled twice, and the customer's *)
(* list shows a retried payment as failed and a partial refund as the full *)
(* one.                                                                    *)
PaymentViewsFollow ==
  CaughtUp =>
    CASE view = "payment_status" -> StatusViewFollows
      [] view = "failed_payments" -> FailedViewFollows
      [] view = "customer_payments" -> CustomerViewFollows
      [] view = "daily_revenue" -> RevenueFollows
      [] view = "refund_report" -> row = refunds
      [] OTHER -> TRUE
==============================================================================
