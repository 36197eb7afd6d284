------------------------------- MODULE Returns -------------------------------
(***************************************************************************)
(* The refund of a returned order: OrderReturnedSubscriber                 *)
(* (payments/payment/ordering_subscriber.py) reads Ordering's stream,      *)
(* looks the order's payment up in the payment_status projection and asks  *)
(* for a refund of all of it.  The projection lags behind the payment, and *)
(* the message may come again.  The other projections of Payment are       *)
(* watched one at a time, as in PaymentViews.                              *)
(***************************************************************************)
EXTENDS PaymentViews

CONSTANT MaxCallerRefunds  \* bound of the model: ids the callers' refunds may use up

VARIABLES
  returned,  \* OrderReturned: "no", "published" or "acknowledged"
  repeated   \* the subscriber was given the message again

return_vars == <<returned, repeated>>

returns_vars == <<vars, read_vars, return_vars>>

ReturnsInit ==
  /\ Init
  /\ view \in PaymentViewNames
  /\ row = PaymentRow
  /\ unread = << >>
  /\ redelivered = FALSE
  /\ returned = "no"
  /\ repeated = FALSE

(* A command of any caller, an administrator's refunds among them.         *)
PaymentCommand ==
  /\ Next
  /\ Publish(PaymentRaised)
  /\ RequestRefund => Cardinality({r \in RefundIds : refunds'[r] # NoRefund}) <= MaxCallerRefunds
  /\ UNCHANGED return_vars

PaymentProjection ==
  /\ view \in PaymentViewNames
  /\ Project(PaymentProjected(view, row, Head(unread)))
  /\ UNCHANGED <<vars, return_vars>>

(* Only an order that was paid is ever returned.                           *)
OrderReturned ==
  /\ returned = "no"
  /\ Captured
  /\ returned' = "published"
  /\ UNCHANGED <<vars, read_vars, repeated>>

(* The subscriber acknowledges, or stops first and is given it again.      *)
Acknowledge == \/ returned' = "acknowledged" /\ UNCHANGED repeated
               \/ ~repeated /\ repeated' = TRUE /\ UNCHANGED returned

(* Mutant: the subscriber looks for a payment still to be refunded.        *)
OrderReturnedSubscriber_Pending ==
  /\ returned = "published"
  /\ view = "payment_status"
  /\ \/ /\ row.status = "Pending"
        /\ request_refund(Amount)
        /\ Publish(PaymentRaised)
     \/ /\ row.status # "Pending"
        /\ UNCHANGED <<vars, read_vars>>
  /\ Acknowledge

(* A refused RequestRefund is an error, after which the message is given   *)
(* again: no step.                                                         *)
OrderReturnedSubscriber ==
  /\ returned = "published"
  /\ view = "payment_status"
  /\ \/ /\ row.status = "Succeeded"
        /\ request_refund(Amount)
        /\ Publish(PaymentRaised)
     \/ /\ row.status # "Succeeded"
        /\ UNCHANGED <<vars, read_vars>>
  /\ Acknowledge

ReturnsNext == PaymentCommand \/ PaymentProjection \/ OrderReturned \/ OrderReturnedSubscriber

(* The engine keeps its consumers going; nobody has to send a command.     *)
ReturnsFairness == WF_returns_vars(PaymentProjection) /\ WF_returns_vars(OrderReturnedSubscriber)

ReturnsSpec == ReturnsInit /\ [][ReturnsNext]_returns_vars /\ ReturnsFairness

------------------------------------------------------------------------------
FullRefund == {r \in RefundIds : refunds[r].amount = Amount}

(* The message is there, and the projection shows a payment to refund.     *)
RefundDue ==
  /\ view = "payment_status"
  /\ returned = "published"
  /\ row.status = "Succeeded"

(* A customer who returned everything gets all of the money back, or part  *)
(* of it had been given back before, provided that the projection shows    *)
(* the payment as succeeded when the message comes: while it lags, or      *)
(* after a partial refund, the return is passed over.                      *)
ReturnIsRefunded == RefundDue ~> (FullRefund # {} \/ total_refunded > 0)
==============================================================================
