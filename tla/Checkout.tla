------------------------------- MODULE Checkout -------------------------------
(***************************************************************************)
(* One checkout: an Order, the InventoryItem it reserves units of, one     *)
(* Payment, and what connects them at run time: the OrderCheckoutSaga      *)
(* (ordering/checkout/saga.py), the ReservationStatus projection, the      *)
(* handler that releases the reservations of a cancelled order, and the    *)
(* job that expires reservations.                                          *)
(*                                                                         *)
(* A command is one atomic step of its aggregate.  Its events are          *)
(* published on the stream of that aggregate, see Streams.  Events raised  *)
(* with low priority go to a second, backfill lane, which a subscription   *)
(* reads only while the first is empty.  A handler that dies before its    *)
(* message is acknowledged gets the message again.                         *)
(*                                                                         *)
(* The commands that record a payment on the order come from the saga      *)
(* alone; shipping, returns and refunds are not part of this module.       *)
(***************************************************************************)
EXTENDS Integers, Sequences

CONSTANTS
  ReservationIds,  \* uuid4 values of the reservations made for the order
  Units,           \* units in stock at the start
  MaxRetries,      \* deliveries of a failing message before it is dead-lettered
  MaxCrashes,      \* bound of the model: handlers that die on the way
  MaxPayments,     \* bound of the model: payments initiated, at most one
  Callers          \* how callers order their requests, see below

ASSUME CheckoutAssumption ==
  /\ Units \in Nat /\ MaxRetries \in Nat /\ MaxCrashes \in Nat
  /\ MaxPayments \in {0, 1} /\ Callers \in {"any", "ordered", "waiting"}

VARIABLES
  order_status, order_payment, order_raised,        \* the Order
  levels, reservations, stock_raised,               \* the InventoryItem
  pay_status, attempts, attempt_count, pay_raised,  \* the Payment ("None": not initiated)
  saga,        \* the OrderCheckoutSaga of the order: status, retry_count
  view,        \* the ReservationStatus projection: status per reservation
  releasing,   \* reservations on_order_cancelled has found and not yet released
  failures,    \* failed deliveries of the OrderCancelled message so far
  queues,      \* messages each subscription has still to handle
  crashes      \* handlers that have died so far

order_vars == <<order_status, order_payment, order_raised>>
stock_vars == <<levels, reservations, stock_raised>>
pay_vars == <<pay_status, attempts, attempt_count, pay_raised>>
vars == <<order_vars, stock_vars, pay_vars, saga, view, releasing, failures, queues, crashes>>

------------------------------------------------------------------------------
(* The three aggregates.  The terms of the order play no part here.        *)
PaymentIds == {"saga-pay", "pay"}

Line == [quantity |-> 1, unit_price |-> 1, discount |-> 0, item_status |-> "Pending"]

Ord == INSTANCE Order WITH
  ItemIds <- {"item"}, Quantities <- {1}, UnitPrices <- {1}, Discounts <- {0},
  Amounts <- {1}, Charges <- {0}, ShipmentIds <- {},
  status <- order_status, items <- [i \in {"item"} |-> Line],
  pricing <- [subtotal |-> 1, charges |-> 0, grand_total |-> 1],
  payment <- order_payment, shipment_id <- "None", raised <- order_raised

Stock == INSTANCE Inventory WITH
  OrderIds <- {"order"}, Quantities <- {1}, InitialQuantity <- Units,
  ReorderPoint <- 1, MaxUnits <- Units, raised <- stock_raised

Pay == INSTANCE Payment WITH
  Amount <- 1, RefundIds <- {}, RefundAmounts <- {1}, status <- pay_status,
  refunds <- [r \in {} |-> 0], total_refunded <- 0, raised <- pay_raised

(* An aggregate that takes no part in a step raises nothing.               *)
OrderIdle == order_raised' = << >> /\ UNCHANGED <<order_status, order_payment>>
StockIdle == stock_raised' = << >> /\ UNCHANGED <<levels, reservations>>
PayIdle == pay_raised' = << >> /\ UNCHANGED <<pay_status, attempts, attempt_count>>

------------------------------------------------------------------------------
(* Streams and subscriptions.                                              *)
Primary == {"saga/order", "saga/stock", "saga/payment", "view/stock", "release/order"}

Backfill == {"saga/stock:backfill", "view/stock:backfill"}

Subscriptions == Primary \cup Backfill

Message ==
  [type : {"OrderConfirmed", "OrderCancelled", "PaymentSucceeded"}]
  \cup [type : {"StockReserved", "ReservationConfirmed", "ReservationReleased"},
        reservation_id : ReservationIds]
  \cup [type : {"PaymentFailed"}, can_retry : BOOLEAN, attempt_number : Nat]

(* The event types of every subscription's handlers; others are skipped.   *)
Handled == [s \in Subscriptions |->
  CASE s = "saga/order" -> {"OrderConfirmed"}
    [] s = "release/order" -> {"OrderCancelled"}
    [] s = "saga/payment" -> {"PaymentSucceeded", "PaymentFailed"}
    [] s \in {"saga/stock", "saga/stock:backfill"} -> {"StockReserved", "ReservationReleased"}
    [] OTHER -> {"StockReserved", "ReservationConfirmed", "ReservationReleased"}]

INSTANCE Streams

PublishOrder(q) ==
  IF order_raised' = << >> THEN q
  ELSE Publish(q, {"saga/order", "release/order"}, [type |-> Head(order_raised')])

(* LowStockDetected, which may follow, is for operators.                   *)
StockMessage == LET event == Head(stock_raised')
                IN [type |-> event.type, reservation_id |-> event.reservation_id]

PublishStock(q) == Publish(q, {"saga/stock", "view/stock"}, StockMessage)

PublishStockLow(q) == Publish(q, {"saga/stock:backfill", "view/stock:backfill"}, StockMessage)

PublishPayment(q) ==
  LET event == Head(pay_raised')
  IN Publish(q, {"saga/payment"},
             IF event.type = "PaymentFailed"
             THEN [type |-> event.type, can_retry |-> event.can_retry,
                   attempt_number |-> attempt_count']
             ELSE [type |-> event.type])

Lanes == [lane \in {"saga/stock", "view/stock"} |->
            IF lane = "saga/stock" THEN "saga/stock:backfill" ELSE "view/stock:backfill"]

(* The lane of a stream with two that is read from now.                    *)
Lane(stream) == IF queues[stream] # << >> THEN stream ELSE Lanes[stream]

------------------------------------------------------------------------------
(* Calls of the API, by customers, operators and the payment gateway.      *)
(* Nothing makes "any" caller follow the documented scenario: confirm,     *)
(* reserve, pay.  One whose calls are "ordered" makes them in that order;  *)
(* one who is "waiting" also lets the saga get there first.                *)
Waits(in_order, processed) == /\ Callers = "ordered" => in_order
                              /\ Callers = "waiting" => processed

OrderCall == /\ queues' = PublishOrder(queues)
             /\ StockIdle /\ PayIdle
             /\ UNCHANGED <<saga, view, releasing, failures, crashes>>

StockCall == /\ queues' = PublishStock(queues)
             /\ OrderIdle /\ PayIdle
             /\ UNCHANGED <<saga, view, releasing, failures, crashes>>

PayCall == /\ queues' = PublishPayment(queues)
           /\ OrderIdle /\ StockIdle
           /\ UNCHANGED <<saga, view, releasing, failures, crashes>>

(* ConfirmOrder is accepted in Payment_Pending, too, and starts over.      *)
ConfirmOrder == /\ LET first == order_status = "Created" IN Waits(first, first)
                /\ Ord!confirm
                /\ OrderCall

CancelOrder == Ord!cancel /\ order_raised' # << >> /\ OrderCall

ReserveStock == /\ Waits(order_status # "Created", saga.status = "awaiting_reservation")
                /\ Stock!reserve("order", 1)
                /\ StockCall

ConfirmReservation == Stock!ConfirmReservation /\ StockCall

ReleaseReservation == Stock!ReleaseReservation /\ StockCall

InitiatePayment == /\ Waits(\E r \in ReservationIds : reservations[r].status # "None",
                            saga.status = "awaiting_payment")
                   /\ pay_status = "None" /\ MaxPayments = 1
                   /\ pay_status' = "Pending"
                   /\ attempts' = <<"processing">>
                   /\ attempt_count' = 1
                   /\ pay_raised' = <<[type |-> "PaymentInitiated"]>>
                   /\ PayCall

ProcessPaymentWebhook == pay_status # "None" /\ Pay!ProcessPaymentWebhook /\ PayCall

RetryPayment == pay_status # "None" /\ Pay!RetryPayment /\ PayCall

(* The expiry job asks the projection for Active reservations past their   *)
(* time and releases each in a unit of work of its own; a refusal is       *)
(* logged.  Any reservation may be past its time.                          *)
ExpireStaleReservations ==
  /\ \E r \in ReservationIds : view[r] = "Active" /\ Stock!release_reservation(r)
  /\ queues' = PublishStockLow(queues)
  /\ OrderIdle /\ PayIdle
  /\ UNCHANGED <<saga, view, releasing, failures, crashes>>

------------------------------------------------------------------------------
(* The saga.  A completed process manager, or an order that has none yet,  *)
(* ignores what it is sent.                                                *)
Listening == saga.status \notin {"None", "completed", "failed"}

(* A command the order refuses is logged and forgotten.                    *)
RecordPaymentPending ==
  \/ Ord!record_payment_pending("saga-pay")
  \/ /\ order_status \notin {"Payment_Pending", "Cancelled", "Refunded"}
     /\ ~Ord!CanTransition("Payment_Pending")
     /\ OrderIdle

(* Mutant: the success is booked on the placeholder of the pending payment. *)
RecordPaymentSuccess_Placeholder ==
  \/ Ord!record_payment_success("saga-pay")
  \/ /\ order_status \notin {"Paid", "Cancelled", "Refunded"}
     /\ ~Ord!CanTransition("Paid")
     /\ OrderIdle

RecordPaymentSuccess ==
  \/ Ord!record_payment_success("pay")
  \/ /\ order_status \notin {"Paid", "Cancelled", "Refunded"}
     /\ ~Ord!CanTransition("Paid")
     /\ OrderIdle

CancelBySaga ==
  \/ Ord!cancel
  \/ order_status \notin Ord!CancellableStates \cup {"Cancelled"} /\ OrderIdle

(* The nested command commits before the saga is saved, and the saga is    *)
(* saved before the message is acknowledged; a crash in between leaves the *)
(* message to be handled again.                                            *)
SagaHandles(subscription, command, new_saga) ==
  /\ command
  /\ \/ /\ saga' = new_saga
        /\ queues' = PublishOrder(Take(subscription))
        /\ UNCHANGED crashes
     \/ /\ crashes < MaxCrashes
        /\ saga' \in {saga, new_saga}
        /\ queues' = PublishOrder(queues)
        /\ crashes' = crashes + 1
  /\ StockIdle /\ PayIdle
  /\ UNCHANGED <<view, releasing, failures>>

(* An order confirmed again starts its saga over, unless that is complete. *)
on_order_confirmed ==
  /\ Receives("saga/order", "OrderConfirmed")
  /\ SagaHandles("saga/order", OrderIdle,
       IF saga.status \in {"completed", "failed"} THEN saga
       ELSE [saga EXCEPT !.status = "awaiting_reservation"])

on_stock_reserved ==
  LET lane == Lane("saga/stock") IN
  /\ Listening
  /\ Receives(lane, "StockReserved")
  /\ SagaHandles(lane, RecordPaymentPending, [saga EXCEPT !.status = "awaiting_payment"])

(* Mutant: a saga that waits for a retry takes the success for a duplicate. *)
on_payment_succeeded_NotRetrying ==
  /\ Listening
  /\ Receives("saga/payment", "PaymentSucceeded")
  /\ SagaHandles("saga/payment",
       IF saga.status = "retrying" THEN OrderIdle ELSE RecordPaymentSuccess,
       [saga EXCEPT !.status = "completed"])

(* Mutant: the saga is not marked as complete.                             *)
on_payment_succeeded_StaysOpen ==
  /\ Listening
  /\ Receives("saga/payment", "PaymentSucceeded")
  /\ SagaHandles("saga/payment", RecordPaymentSuccess, saga)

on_payment_succeeded ==
  /\ Listening
  /\ Receives("saga/payment", "PaymentSucceeded")
  /\ SagaHandles("saga/payment", RecordPaymentSuccess, [saga EXCEPT !.status = "completed"])

(* Mutant: the saga gives up one attempt before the payment does.          *)
MAX_PAYMENT_RETRIES_Two == 2

(* Mutant: ... or goes on waiting after the payment's last attempt.        *)
Retries_Always(event) == event.attempt_number <= 3

MAX_PAYMENT_RETRIES == 3

Retries(event) == event.can_retry /\ event.attempt_number < MAX_PAYMENT_RETRIES

on_payment_failed ==
  LET event == Head(queues["saga/payment"])
      To(status) == [status |-> status, retry_count |-> event.attempt_number]
  IN /\ Listening
     /\ Receives("saga/payment", "PaymentFailed")
     /\ \/ Retries(event) /\ SagaHandles("saga/payment", OrderIdle, To("retrying"))
        \/ ~Retries(event) /\ SagaHandles("saga/payment", CancelBySaga, To("failed"))

on_reservation_released ==
  LET lane == Lane("saga/stock") IN
  /\ Listening
  /\ Receives(lane, "ReservationReleased")
  /\ SagaHandles(lane, CancelBySaga, [saga EXCEPT !.status = "failed"])

Ignored ==
  \E s \in {Lane("saga/stock"), "saga/payment"} :
    /\ ~Listening
    /\ queues[s] # << >>
    /\ SagaHandles(s, OrderIdle, saga)

Saga == on_order_confirmed \/ on_stock_reserved \/ on_payment_succeeded
        \/ on_payment_failed \/ on_reservation_released \/ Ignored

------------------------------------------------------------------------------
(* The ReservationStatus projector.                                        *)
(* Mutant: the confirmation is not projected.                              *)
ViewStatus_Unconfirmed(type) == IF type = "ReservationReleased" THEN "Released" ELSE "Active"

ViewStatus(type) == CASE type = "StockReserved" -> "Active"
                      [] type = "ReservationConfirmed" -> "Confirmed"
                      [] type = "ReservationReleased" -> "Released"

Projected(v, m) == [v EXCEPT ![m.reservation_id] = ViewStatus(m.type)]

ReservationStatusProjector ==
  LET lane == Lane("view/stock") IN
  /\ queues[lane] # << >>
  /\ view' = Projected(view, Head(queues[lane]))
  /\ \/ queues' = Take(lane) /\ UNCHANGED crashes
     \/ crashes < MaxCrashes /\ crashes' = crashes + 1 /\ UNCHANGED queues
  /\ OrderIdle /\ StockIdle /\ PayIdle
  /\ UNCHANGED <<saga, releasing, failures>>

------------------------------------------------------------------------------
(* The inventory's handler of OrderCancelled: it looks the reservations up *)
(* in the projection, then releases one after the other, each in a unit of *)
(* work of its own.                                                        *)
(* Mutant: only confirmed reservations are looked up.                      *)
Releasable_Confirmed == {r \in ReservationIds : view[r] = "Confirmed"}

Releasable == {r \in ReservationIds : view[r] \in {"Active", "Confirmed"}}

Acknowledged == queues' = Take("release/order") /\ failures' = 0

on_order_cancelled ==
  /\ Receives("release/order", "OrderCancelled")
  /\ releasing = {}
  /\ releasing' = Releasable
  /\ IF Releasable = {} THEN Acknowledged ELSE UNCHANGED <<queues, failures>>
  /\ OrderIdle /\ StockIdle /\ PayIdle
  /\ UNCHANGED <<saga, view, crashes>>

ReleaseNext ==
  \E r \in releasing :
    /\ Stock!release_reservation(r)
    /\ releasing' = releasing \ {r}
    /\ \/ /\ releasing' # {}
          /\ queues' = PublishStock(queues)
          /\ UNCHANGED <<failures, crashes>>
       \/ /\ releasing' = {}
          /\ queues' = PublishStock(Take("release/order"))
          /\ failures' = 0
          /\ UNCHANGED crashes
       \/ /\ releasing' = {}
          /\ crashes < MaxCrashes
          /\ queues' = PublishStock(queues)
          /\ crashes' = crashes + 1
          /\ UNCHANGED failures
    /\ OrderIdle /\ PayIdle
    /\ UNCHANGED <<saga, view>>

(* Mutant: the message is delivered again for ever.                        *)
ReleaseRefused_Forever ==
  /\ \E r \in releasing : reservations[r].status # "Active"
  /\ releasing' = {}
  /\ OrderIdle /\ StockIdle /\ PayIdle
  /\ UNCHANGED <<saga, view, failures, queues, crashes>>

(* A refused release ends the handler with an error: what it has not       *)
(* released yet waits for the message to be delivered again, and after the *)
(* last retry the message goes to the dead-letter queue.                   *)
ReleaseRefused ==
  /\ \E r \in releasing : reservations[r].status # "Active"
  /\ releasing' = {}
  /\ \/ failures < MaxRetries /\ failures' = failures + 1 /\ UNCHANGED queues
     \/ failures = MaxRetries /\ Acknowledged
  /\ OrderIdle /\ StockIdle /\ PayIdle
  /\ UNCHANGED <<saga, view, crashes>>

ReleaseCrashes ==
  /\ releasing # {}
  /\ crashes < MaxCrashes
  /\ releasing' = {}
  /\ crashes' = crashes + 1
  /\ OrderIdle /\ StockIdle /\ PayIdle
  /\ UNCHANGED <<saga, view, failures, queues>>

Release == on_order_cancelled \/ ReleaseNext \/ ReleaseRefused

------------------------------------------------------------------------------
Init == /\ order_status = "Created"
        /\ order_payment = [id |-> "None", status |-> "None"]
        /\ order_raised = << >>
        /\ Stock!Init
        /\ pay_status = "None" /\ attempts = << >> /\ attempt_count = 0 /\ pay_raised = << >>
        /\ saga = [status |-> "None", retry_count |-> 0]
        /\ view = [r \in ReservationIds |-> "None"]
        /\ releasing = {}
        /\ failures = 0
        /\ queues = [s \in Subscriptions |-> << >>]
        /\ crashes = 0

Calls == ConfirmOrder \/ CancelOrder
         \/ ReserveStock \/ ConfirmReservation \/ ReleaseReservation
         \/ InitiatePayment \/ ProcessPaymentWebhook \/ RetryPayment

Next == Calls \/ ExpireStaleReservations \/ Saga \/ ReservationStatusProjector
        \/ Release \/ ReleaseCrashes

(* The engine's workers poll their streams for ever; nobody has to call    *)
(* the API, answer a payment or run the expiry job.                        *)
Fairness == /\ WF_vars(Saga)
            /\ WF_vars(ReservationStatusProjector)
            /\ WF_vars(Release)

Spec == Init /\ [][Next]_vars /\ Fairness

------------------------------------------------------------------------------
TypeOK ==
  /\ Ord!TypeOK
  /\ Stock!TypeOK
  /\ pay_status = "None" \/ Pay!TypeOK
  /\ saga \in [status : {"None", "awaiting_reservation", "awaiting_payment", "retrying",
                         "completed", "failed"},
               retry_count : 0..MAX_PAYMENT_RETRIES]
  /\ view \in [ReservationIds -> {"None", "Active", "Confirmed", "Released"}]
  /\ releasing \subseteq ReservationIds
  /\ failures \in 0..MaxRetries
  /\ queues \in [Subscriptions -> Seq(Message)]
  /\ \A s \in Subscriptions : \A k \in DOMAIN queues[s] : queues[s][k].type \in Handled[s]
  /\ crashes \in 0..MaxCrashes

ReservationReleased == \E r \in ReservationIds : reservations[r].status = "Released"

Exhausted == pay_status = "Failed" /\ attempt_count = Pay!MAX_PAYMENT_ATTEMPTS

(* The saga's verdict is never against the facts, whatever overtakes what  *)
(* on the three streams it reads and whichever message it is given twice:  *)
(* it completes only on captured money, and fails only when the payment    *)
(* has no attempt left or a reservation is gone, and then the order is     *)
(* cancelled.                                                              *)
VerdictsGrounded ==
  /\ saga.status = "completed" => pay_status = "Succeeded"
  /\ saga.status = "failed" =>
       order_status = "Cancelled" /\ (Exhausted \/ ReservationReleased)

(* An order counts as paid only while the Payment says so, too.            *)
PaidIsCaptured ==
  order_status = "Paid" => pay_status = "Succeeded" /\ order_payment.id = "pay"

(* The projection is behind, never wrong: of every reservation the last    *)
(* event its subscription has still to handle, primary lane first, tells   *)
(* the status it has in the aggregate, and the projection itself when      *)
(* there is none, even when an event is projected a second time.           *)
ToProject == queues["view/stock"] \o queues["view/stock:backfill"]

LastOf(messages, r) ==
  {k \in DOMAIN messages :
     /\ messages[k].reservation_id = r
     /\ \A later \in (k + 1)..Len(messages) : messages[later].reservation_id # r}

Tells(messages, shown, r, status) ==
  /\ \A k \in LastOf(messages, r) : ViewStatus(messages[k].type) = status
  /\ (\A k \in DOMAIN messages : messages[k].reservation_id # r) => shown = status

ViewCatchesUp ==
  \A r \in ReservationIds : Tells(ToProject, view[r], r, reservations[r].status)

(* The saga does not cancel an order it has had marked as paid, unless a   *)
(* handler died between the order's unit of work and the saga's own: only  *)
(* the customer does.                                                      *)
PaidNotCancelledBySaga ==
  [][order_status = "Paid" /\ order_status' = "Cancelled" /\ crashes = 0 =>
       UNCHANGED <<saga, crashes>>]_vars

(* No message blocks its stream: every subscription gets to the end of     *)
(* what it was sent, the release of a cancelled order's reservations in    *)
(* spite of refusals, too.                                                 *)
StreamsDrain ==
  \A s \in Subscriptions : queues[s] # << >> ~> queues[s] = << >>

(* docs/payments/scenarios/payment-lifecycle.md:30-33, "Saga receives      *)
(* PaymentSucceeded ... Order status: Paid": captured money ends up on a   *)
(* paid order, or on one that was cancelled meanwhile.                     *)
CaptureSettlesOrder ==
  pay_status = "Succeeded" ~> order_status \in {"Paid", "Cancelled"}

(* docs/payments/README.md:199, "After exhaustion, the saga cancels the    *)
(* order".                                                                 *)
ExhaustionCancels == Exhausted ~> order_status = "Cancelled"

(* The cancellation of an order frees its stock: a reservation the         *)
(* projection knew as Active when it was cancelled is let go, and nothing  *)
(* but a reservation of the same order that was already confirmed or       *)
(* released, and whose release is therefore refused, keeps it from that.   *)
CancellationFreesStock ==
  \A r \in ReservationIds :
    queues["release/order"] # << >> /\ releasing = {} /\ view[r] = "Active" ~>
      \/ reservations[r].status # "Active"
      \/ \E other \in ReservationIds \ {r} :
           reservations[other].status \in {"Confirmed", "Released"}

(* inventory/stock/ordering_events.py:69, "Release active/confirmed        *)
(* reservations when an order is cancelled."                               *)
CancellationReleasesAll ==
  \A r \in ReservationIds :
    queues["release/order"] # << >> /\ Stock!Held(r) ~> ~Stock!Held(r)
===============================================================================
