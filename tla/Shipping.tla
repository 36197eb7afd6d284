------------------------------ MODULE Shipping ------------------------------
(***************************************************************************)
(* A paid order on its way to the customer: the Order, its Fulfillment,    *)
(* the InventoryItem its units are reserved in, and the event handlers     *)
(* that connect them: Ordering and Inventory follow the handoff and the    *)
(* delivery, Fulfillment follows the cancellation of the order, and the    *)
(* ReservationStatus projection tells Inventory what to commit.            *)
(*                                                                         *)
(* Begins when the stock is reserved and the payment is under way.  The    *)
(* order learns of its shipment from the Fulfillment alone; returns are    *)
(* not part of this module, and every event is of normal priority.         *)
(***************************************************************************)
EXTENDS Integers, Sequences, FiniteSets

CONSTANTS
  ItemIds,         \* items of the fulfillment
  ReservationIds,  \* reservations of the order, of one unit each
  MaxRetries,      \* deliveries of a failing message before it is dead-lettered
  MaxCrashes,      \* bound of the model: handlers that die on the way
  MaxFailedLookups \* bound of the model: lookups of the projection that fail

ASSUME ShippingAssumption ==
  IsFiniteSet(ReservationIds) /\ MaxRetries \in Nat
  /\ MaxCrashes \in Nat /\ MaxFailedLookups \in Nat

VARIABLES
  order_status, order_payment, order_shipment, order_raised,   \* the Order
  ff_status, ff_items, packed, shipment, ff_raised,            \* the Fulfillment
  levels, reservations, stock_raised,                          \* the InventoryItem
  view,        \* the ReservationStatus projection: status per reservation
  committing,  \* reservations found for the shipment and not yet committed
  failures,    \* failed deliveries of the message at the head of each queue
  queues,      \* messages each subscription has still to handle
  crashes,     \* handlers that have died so far
  failed_lookups  \* lookups of the projection that have failed so far

order_vars == <<order_status, order_payment, order_shipment, order_raised>>
ff_vars == <<ff_status, ff_items, packed, shipment, ff_raised>>
stock_vars == <<levels, reservations, stock_raised>>
vars == <<order_vars, ff_vars, stock_vars, view, committing, failures, queues, crashes,
          failed_lookups>>

------------------------------------------------------------------------------
(* The aggregates.  Without partial shipments and returns, the items of    *)
(* the order stand where the order stands (Order's ItemsFollowOrder).      *)
Line ==
  [quantity |-> 1, unit_price |-> 1, discount |-> 0,
   item_status |-> IF order_status \in {"Shipped", "Delivered"} THEN order_status ELSE "Pending"]

Ord == INSTANCE Order WITH
  ItemIds <- {"item"}, Quantities <- {1}, UnitPrices <- {1}, Discounts <- {0},
  Amounts <- {1}, Charges <- {0}, PaymentIds <- {"pay"}, ShipmentIds <- {"fulfillment"},
  status <- order_status, items <- [i \in {"item"} |-> Line],
  pricing <- [subtotal |-> 1, charges |-> 0, grand_total |-> 1],
  payment <- order_payment, shipment_id <- order_shipment, raised <- order_raised

Parcel == INSTANCE Fulfillment WITH
  status <- ff_status, items <- ff_items, raised <- ff_raised

Stock == INSTANCE Inventory WITH
  OrderIds <- {"order"}, Quantities <- {1}, InitialQuantity <- Cardinality(ReservationIds),
  ReorderPoint <- 1, MaxUnits <- Cardinality(ReservationIds), raised <- stock_raised

(* An aggregate that takes no part in a step raises nothing.               *)
OrderIdle == order_raised' = << >> /\ UNCHANGED <<order_status, order_payment, order_shipment>>
ParcelIdle == ff_raised' = << >> /\ UNCHANGED <<ff_status, ff_items, packed, shipment>>
StockIdle == stock_raised' = << >> /\ UNCHANGED <<levels, reservations>>

------------------------------------------------------------------------------
Subscriptions == {"fulfillment/order", "order/fulfillment", "stock/fulfillment", "view/stock"}

(* The handler of DeliveryException only logs it and is left out.          *)
Handled == [s \in Subscriptions |->
  CASE s = "fulfillment/order" -> {"OrderCancelled"}
    [] s = "order/fulfillment" -> {"ShipmentHandedOff", "DeliveryConfirmed"}
    [] s = "stock/fulfillment" -> {"ShipmentHandedOff"}
    [] s = "view/stock" -> {"ReservationConfirmed", "ReservationReleased", "StockCommitted"}]

INSTANCE Streams

Message ==
  [type : {"OrderCancelled", "ShipmentHandedOff", "DeliveryConfirmed"}]
  \cup [type : Handled["view/stock"], reservation_id : ReservationIds]

(* The units of work of the three aggregates, one of which acts in a step. *)
PublishedOrder(q) ==
  IF order_raised' = << >> THEN q
  ELSE Publish(q, {"fulfillment/order"}, [type |-> Head(order_raised')])

PublishedParcel(q) ==
  IF ff_raised' = << >> THEN q
  ELSE Publish(q, {"order/fulfillment", "stock/fulfillment"}, [type |-> Head(ff_raised')])

PublishedStock(q) ==
  IF stock_raised' = << >> THEN q
  ELSE LET event == Head(stock_raised')
       IN Publish(q, {"view/stock"}, [type |-> event.type, reservation_id |-> event.reservation_id])

Published(q) == PublishedStock(PublishedParcel(PublishedOrder(q)))

(* A command of the API is one unit of work.                               *)
Call == /\ queues' = Published(queues)
        /\ UNCHANGED <<view, committing, failures, crashes, failed_lookups>>

(* A handler that has done its work acknowledges the message, or dies      *)
(* before it does and is given the message again.                          *)
Done(s) ==
  \/ /\ queues' = Published(Take(s))
     /\ failures' = [failures EXCEPT ![s] = 0]
     /\ UNCHANGED crashes
  \/ /\ crashes < MaxCrashes
     /\ queues' = Published(queues)
     /\ crashes' = crashes + 1
     /\ UNCHANGED failures

(* A handler that fails is given the message again, and after the last     *)
(* retry the message goes to the dead-letter queue.                        *)
Failed(s) ==
  \/ /\ failures[s] < MaxRetries
     /\ failures' = [failures EXCEPT ![s] = @ + 1]
     /\ UNCHANGED <<queues, crashes>>
  \/ /\ failures[s] = MaxRetries
     /\ queues' = Take(s)
     /\ failures' = [failures EXCEPT ![s] = 0]
     /\ UNCHANGED crashes

------------------------------------------------------------------------------
(* Calls of the API, by the customer, the saga, the warehouse, the carrier *)
(* and whoever settles reservations.  Nothing checks that the order a      *)
(* fulfillment is created for is paid, or was not cancelled.               *)
OrderCall ==
  /\ \/ Ord!record_payment_success("pay")
     \/ Ord!cancel
     \/ Ord!mark_processing
  /\ order_raised' # << >>
  /\ ParcelIdle /\ StockIdle
  /\ Call

ParcelCall == Parcel!Next /\ OrderIdle /\ StockIdle /\ Call

StockCall ==
  /\ Stock!ConfirmReservation \/ Stock!ReleaseReservation
  /\ OrderIdle /\ ParcelIdle
  /\ Call

------------------------------------------------------------------------------
(* Fulfillment, on OrderCancelled: too late once the parcel is at the      *)
(* carrier.                                                                *)
(* Mutant: only a fulfillment nobody has started on is cancelled.          *)
on_order_cancelled_PendingOnly ==
  /\ Receives("fulfillment/order", "OrderCancelled")
  /\ \/ ff_status = "Pending" /\ Parcel!cancel
     \/ ff_status # "Pending" /\ ParcelIdle
  /\ OrderIdle /\ StockIdle
  /\ Done("fulfillment/order")
  /\ UNCHANGED <<view, committing, failed_lookups>>

on_order_cancelled ==
  /\ Receives("fulfillment/order", "OrderCancelled")
  /\ \/ Parcel!cancel
     \/ ff_status \notin Parcel!CancellableStatuses /\ ParcelIdle
  /\ OrderIdle /\ StockIdle
  /\ Done("fulfillment/order")
  /\ UNCHANGED <<view, committing, failed_lookups>>

(* Ordering, on ShipmentHandedOff and DeliveryConfirmed: a command the     *)
(* order refuses is an error of the handler.                               *)
Shippable == {"Paid", "Processing", "Partially_Shipped"}

(* Mutant: the order has to be in Processing.                              *)
on_shipment_handed_off_Processing ==
  /\ Receives("order/fulfillment", "ShipmentHandedOff")
  /\ ParcelIdle /\ StockIdle
  /\ \/ /\ order_status = "Processing"
        /\ Ord!record_shipment("fulfillment")
        /\ Done("order/fulfillment")
     \/ /\ order_status # "Processing"
        /\ OrderIdle
        /\ Failed("order/fulfillment")
  /\ UNCHANGED <<view, committing, failed_lookups>>

on_shipment_handed_off ==
  /\ Receives("order/fulfillment", "ShipmentHandedOff")
  /\ ParcelIdle /\ StockIdle
  /\ \/ Ord!record_shipment("fulfillment") /\ Done("order/fulfillment")
     \/ order_status \notin Shippable /\ OrderIdle /\ Failed("order/fulfillment")
  /\ UNCHANGED <<view, committing, failed_lookups>>

on_delivery_confirmed ==
  /\ Receives("order/fulfillment", "DeliveryConfirmed")
  /\ ParcelIdle /\ StockIdle
  /\ \/ Ord!record_delivery /\ Done("order/fulfillment")
     \/ ~Ord!CanTransition("Delivered") /\ OrderIdle /\ Failed("order/fulfillment")
  /\ UNCHANGED <<view, committing, failed_lookups>>

(* Mutant: the handler looks for what was not confirmed yet.               *)
confirmed_Active == {r \in ReservationIds : view[r] = "Active"}

(* Inventory, on ShipmentHandedOff: looks the confirmed reservations up in *)
(* the projection, then commits one after the other, each in a unit of     *)
(* work of its own.  A lookup that fails is taken for one that finds       *)
(* nothing: the message is acknowledged, and nothing is committed.         *)
confirmed == {r \in ReservationIds : view[r] = "Confirmed"}

commit_shipped ==
  /\ Receives("stock/fulfillment", "ShipmentHandedOff")
  /\ committing = {}
  /\ \/ committing' = confirmed /\ UNCHANGED failed_lookups
     \/ /\ failed_lookups < MaxFailedLookups
        /\ committing' = {}
        /\ failed_lookups' = failed_lookups + 1
  /\ OrderIdle /\ ParcelIdle /\ StockIdle
  /\ \/ committing' = {} /\ Done("stock/fulfillment")
     \/ committing' # {} /\ UNCHANGED <<queues, failures, crashes>>
  /\ UNCHANGED view

CommitNext ==
  \E r \in committing :
    /\ Stock!commit_stock(r)
    /\ committing' = committing \ {r}
    /\ OrderIdle /\ ParcelIdle
    /\ \/ committing = {r} /\ Done("stock/fulfillment")
       \/ committing # {r} /\ queues' = Published(queues) /\ UNCHANGED <<failures, crashes>>
    /\ UNCHANGED <<view, failed_lookups>>

CommitRefused ==
  /\ \E r \in committing : reservations[r].status # "Confirmed"
  /\ committing' = {}
  /\ Failed("stock/fulfillment")
  /\ OrderIdle /\ ParcelIdle /\ StockIdle
  /\ UNCHANGED <<view, failed_lookups>>

CommitCrashes ==
  /\ committing # {}
  /\ crashes < MaxCrashes
  /\ committing' = {}
  /\ crashes' = crashes + 1
  /\ OrderIdle /\ ParcelIdle /\ StockIdle
  /\ UNCHANGED <<view, failures, queues, failed_lookups>>

Commit == commit_shipped \/ CommitNext \/ CommitRefused

ViewStatus(type) == CASE type = "ReservationConfirmed" -> "Confirmed"
                      [] type = "ReservationReleased" -> "Released"
                      [] type = "StockCommitted" -> "Committed"

ReservationStatusProjector ==
  /\ queues["view/stock"] # << >>
  /\ LET event == Head(queues["view/stock"])
     IN view' = [view EXCEPT ![event.reservation_id] = ViewStatus(event.type)]
  /\ OrderIdle /\ ParcelIdle /\ StockIdle
  /\ Done("view/stock")
  /\ UNCHANGED <<committing, failed_lookups>>

------------------------------------------------------------------------------
Init ==
  /\ order_status = "Payment_Pending"
  /\ order_payment = [id |-> "pay", status |-> "pending"]
  /\ order_shipment = "None"
  /\ order_raised = << >>
  /\ Parcel!Init
  /\ LET n == Cardinality(ReservationIds)
     IN levels = [on_hand |-> n, reserved |-> n, available |-> 0, damaged |-> 0]
  /\ reservations = [r \in ReservationIds |->
       [status |-> "Active", quantity |-> 1, order_id |-> "order"]]
  /\ stock_raised = << >>
  /\ view = [r \in ReservationIds |-> "Active"]
  /\ committing = {}
  /\ failures = [s \in Subscriptions |-> 0]
  /\ queues = [s \in Subscriptions |-> << >>]
  /\ crashes = 0
  /\ failed_lookups = 0

OrderEvents == on_order_cancelled

FulfillmentEvents == on_shipment_handed_off \/ on_delivery_confirmed

Next == \/ OrderCall \/ ParcelCall \/ StockCall
        \/ OrderEvents \/ FulfillmentEvents \/ Commit \/ CommitCrashes
        \/ ReservationStatusProjector

(* The engine's workers poll their streams for ever; nobody has to call    *)
(* the API.                                                                *)
Fairness == /\ WF_vars(OrderEvents)
            /\ WF_vars(FulfillmentEvents)
            /\ WF_vars(Commit)
            /\ WF_vars(ReservationStatusProjector)

Spec == Init /\ [][Next]_vars /\ Fairness

------------------------------------------------------------------------------
TypeOK == /\ Ord!TypeOK /\ Parcel!TypeOK /\ Stock!TypeOK
          /\ view \in [ReservationIds -> {"Active", "Confirmed", "Released", "Committed"}]
          /\ committing \subseteq ReservationIds
          /\ failures \in [Subscriptions -> 0..MaxRetries]
          /\ queues \in [Subscriptions -> Seq(Message)]
          /\ crashes \in 0..MaxCrashes /\ failed_lookups \in 0..MaxFailedLookups

Pending(s, type) == \E k \in DOMAIN queues[s] : queues[s][k].type = type

(* No book is ahead of the parcel, whatever is lost or given twice: the    *)
(* order is Shipped, or stock committed, only when the carrier has it, and *)
(* Delivered only when the carrier says so; and a reservation leaves the   *)
(* stock once.                                                             *)
BooksFollowParcel ==
  /\ order_status \in {"Shipped", "Delivered"} =>
       ff_status \in Parcel!AtCarrier /\ order_shipment = "fulfillment"
  /\ order_status = "Delivered" => ff_status = "Delivered"
  /\ (\E r \in ReservationIds : reservations[r].status = "Committed") =>
       ff_status \in Parcel!AtCarrier
  /\ levels.on_hand = Cardinality({r \in ReservationIds : reservations[r].status # "Committed"})

(* A cancelled order stops the warehouse: a fulfillment that exists when   *)
(* the cancellation is handled, at whichever stage, is cancelled, unless   *)
(* the carrier is faster.                                                  *)
CancellationStopsWarehouse ==
  Pending("fulfillment/order", "OrderCancelled") /\ ff_status \in Parcel!CancellableStatuses
    ~> ff_status \in {"Cancelled"} \cup Parcel!AtCarrier

(* Handoff and delivery reach an order that can take them: neither is lost *)
(* to a crash, or to the error that its redelivery ends in.                *)
ParcelReachesOrder ==
  /\ Pending("order/fulfillment", "ShipmentHandedOff") /\ order_status \in Shippable
       ~> order_status \in {"Shipped", "Delivered", "Cancelled"}
  /\ ff_status = "Delivered" /\ order_status = "Shipped" ~> order_status = "Delivered"

(* A shipment commits the reservations the projection shows as Confirmed   *)
(* when it is handled, unless the lookup fails, or the handler dies when   *)
(* another reservation was committed: that commit, refused the next time,  *)
(* may use the retries up.                                                 *)
ShipmentCommitsStock ==
  \A r \in ReservationIds :
    /\ Pending("stock/fulfillment", "ShipmentHandedOff")
    /\ committing = {} /\ view[r] = "Confirmed" /\ reservations[r].status = "Confirmed"
    ~> \/ reservations[r].status = "Committed"
       \/ failed_lookups > 0
       \/ /\ crashes > 0
          /\ \E other \in ReservationIds \ {r} : reservations[other].status = "Committed"
===============================================================================
