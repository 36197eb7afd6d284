-------------------------------- MODULE Order --------------------------------
(***************************************************************************)
(* The event-sourced Order aggregate (ordering/order/order.py) and its     *)
(* command handlers, for one order.                                        *)
(*                                                                         *)
(* Commands may come from the customer, an administrator, the checkout     *)
(* saga or another context's event, in any order; a rejected command is    *)
(* no step.  An accepted one may be a no-op (the code returns early for    *)
(* commands it has already seen, or that lost a race against a             *)
(* cancellation): it raises no event.  Amounts are whole numbers here and  *)
(* floats in the code.                                                     *)
(***************************************************************************)
EXTENDS Integers, Sequences, FiniteSetsExt

CONSTANTS
  ItemIds,      \* uuid4 values items may get
  Quantities,   \* quantities a caller may order
  UnitPrices,   \* unit prices a caller may give
  Discounts,    \* discounts the items given to CreateOrder may carry
  Amounts,      \* subtotals and totals given to CreateOrder
  Charges,      \* shipping + tax - discounts given to CreateOrder
  PaymentIds,   \* payments that may be recorded against the order
  ShipmentIds   \* shipments that may be recorded

ASSUME OrderAssumption ==
  /\ Quantities \subseteq Nat \ {0}
  /\ UnitPrices \subseteq Nat
  /\ Discounts \subseteq Nat
  /\ Amounts \subseteq Int
  /\ Charges \subseteq Int
  /\ "None" \notin PaymentIds \cup ShipmentIds

VARIABLES
  status,       \* OrderStatus
  items,        \* the order's items: item id -> line, NoItem where there is none
  pricing,      \* OrderPricing: subtotal, charges, grand_total
  payment,      \* payment_id and payment_status of the order
  shipment_id,  \* last shipment recorded, or "None"
  raised        \* events the last command raised (none for a no-op)

vars == <<status, items, pricing, payment, shipment_id, raised>>

------------------------------------------------------------------------------
OrderStatus == {"Created", "Confirmed", "Payment_Pending", "Paid", "Processing",
                "Partially_Shipped", "Shipped", "Delivered", "Completed",
                "Return_Requested", "Return_Approved", "Returned",
                "Cancelled", "Refunded"}

ItemStatus == {"Pending", "Shipped", "Delivered", "Returned"}

OrderItem == [quantity : Nat \ {0}, unit_price : Nat, discount : Nat,
              item_status : ItemStatus]

NoItem == [item_status |-> "None"]

OrderPricing == [subtotal : Int, charges : Int, grand_total : Int]

EventType == {"OrderCreated", "ItemAdded", "ItemRemoved", "ItemQuantityUpdated",
              "CouponApplied", "OrderConfirmed", "PaymentPending",
              "PaymentSucceeded", "PaymentFailed", "OrderProcessing",
              "OrderShipped", "OrderPartiallyShipped", "OrderDelivered",
              "OrderCompleted", "ReturnRequested", "ReturnApproved",
              "OrderReturned", "OrderCancelled", "OrderRefunded"}

TypeOK == /\ status \in OrderStatus
          /\ items \in [ItemIds -> OrderItem \cup {NoItem}]
          /\ pricing \in OrderPricing
          /\ payment \in [id : PaymentIds \cup {"None"},
                          status : {"None", "pending", "succeeded", "failed"}]
          /\ shipment_id \in ShipmentIds \cup {"None"}
          /\ raised \in Seq(EventType)

(* _VALID_TRANSITIONS: what _assert_can_transition lets through.           *)
ValidTransitions ==
  [s \in OrderStatus |->
     CASE s = "Created"           -> {"Confirmed", "Cancelled"}
       [] s = "Confirmed"         -> {"Payment_Pending", "Cancelled"}
       [] s = "Payment_Pending"   -> {"Paid", "Confirmed", "Cancelled"}
       [] s = "Paid"              -> {"Processing", "Cancelled"}
       [] s = "Processing"        -> {"Shipped", "Partially_Shipped"}
       [] s = "Partially_Shipped" -> {"Shipped"}
       [] s = "Shipped"           -> {"Delivered"}
       [] s = "Delivered"         -> {"Completed", "Return_Requested"}
       [] s = "Return_Requested"  -> {"Return_Approved"}
       [] s = "Return_Approved"   -> {"Returned"}
       [] s \in {"Returned", "Cancelled"} -> {"Refunded"}
       [] s \in {"Completed", "Refunded"} -> {}]

CanTransition(target) == target \in ValidTransitions[status]

CancellableStates == {"Created", "Confirmed", "Payment_Pending", "Paid"}

------------------------------------------------------------------------------
(* Pricing.                                                                *)
Lines(lines) == {i \in ItemIds : lines[i] # NoItem}

LineTotal(line) == line.unit_price * line.quantity - line.discount

Subtotal(lines) == MapThenSumSet(LAMBDA i : LineTotal(lines[i]), Lines(lines))

(* _calculate_pricing: prices the lines a command is about to produce.     *)
calculate_pricing(lines) ==
  [subtotal |-> Subtotal(lines), charges |-> pricing.charges,
   grand_total |-> Subtotal(lines) + pricing.charges]

------------------------------------------------------------------------------
(* Shape of the steps: most events only move the status.                   *)
Raise(event) == raised' = <<event>>

Ignore == raised' = << >> /\ UNCHANGED <<status, items, pricing, payment, shipment_id>>

MoveTo(target, event) ==
  /\ status' = target
  /\ Raise(event)
  /\ UNCHANGED <<items, pricing, payment, shipment_id>>

Modify(lines, event) ==
  /\ items' = lines
  /\ pricing' = calculate_pricing(lines)
  /\ Raise(event)
  /\ UNCHANGED <<status, payment, shipment_id>>

WithStatus(ids, item_status) ==
  [i \in ItemIds |-> IF i \in ids /\ items[i] # NoItem
                     THEN [items[i] EXCEPT !.item_status = item_status]
                     ELSE items[i]]

------------------------------------------------------------------------------
(* Mutant: the lines stay open until payment starts.                       *)
Created_UntilPayment == status \in {"Created", "Confirmed"}

(* Command methods of the aggregate with the @apply handlers they trigger. *)
Created == status = "Created"

add_item(i, quantity, unit_price) ==
  /\ Created
  /\ items[i] = NoItem
  /\ Modify([items EXCEPT ![i] = [quantity |-> quantity, unit_price |-> unit_price,
                                  discount |-> 0, item_status |-> "Pending"]],
            "ItemAdded")

remove_item(i) ==
  /\ Created
  /\ items[i] # NoItem
  /\ Modify([items EXCEPT ![i] = NoItem], "ItemRemoved")

update_item_quantity(i, new_quantity) ==
  /\ Created
  /\ items[i] # NoItem
  /\ Modify([items EXCEPT ![i].quantity = new_quantity], "ItemQuantityUpdated")

(* The code is recorded; no price depends on it.                           *)
apply_coupon ==
  /\ Created
  /\ Raise("CouponApplied")
  /\ UNCHANGED <<status, items, pricing, payment, shipment_id>>

confirm == /\ CanTransition("Confirmed")
           /\ MoveTo("Confirmed", "OrderConfirmed")

record_payment_pending(payment_id) ==
  \/ /\ status \in {"Payment_Pending", "Cancelled", "Refunded"}
     /\ Ignore
  \/ /\ CanTransition("Payment_Pending")
     /\ status' = "Payment_Pending"
     /\ payment' = [id |-> payment_id, status |-> "pending"]
     /\ Raise("PaymentPending")
     /\ UNCHANGED <<items, pricing, shipment_id>>

(* The payment recorded need not be the one that was pending.              *)
record_payment_success(payment_id) ==
  \/ /\ status \in {"Paid", "Cancelled", "Refunded"}
     /\ Ignore
  \/ /\ CanTransition("Paid")
     /\ status' = "Paid"
     /\ payment' = [id |-> payment_id, status |-> "succeeded"]
     /\ Raise("PaymentSucceeded")
     /\ UNCHANGED <<items, pricing, shipment_id>>

(* Mutant: a late failure reopens a paid order.                            *)
record_payment_failure_Late(payment_id) ==
  /\ CanTransition("Confirmed") \/ status = "Paid"
  /\ status' = "Confirmed"
  /\ payment' = [payment EXCEPT !.status = "failed"]
  /\ Raise("PaymentFailed")
  /\ UNCHANGED <<items, pricing, shipment_id>>

(* Accepted in Created, too, where it confirms the order.                  *)
record_payment_failure(payment_id) ==
  \/ /\ status \in {"Cancelled", "Refunded"}
     /\ Ignore
  \/ /\ CanTransition("Confirmed")
     /\ status' = "Confirmed"
     /\ payment' = [payment EXCEPT !.status = "failed"]
     /\ Raise("PaymentFailed")
     /\ UNCHANGED <<items, pricing, shipment_id>>

(* Mutant: picking starts before the payment is captured.                  *)
mark_processing_Unpaid ==
  /\ CanTransition("Processing") \/ status = "Payment_Pending"
  /\ MoveTo("Processing", "OrderProcessing")

mark_processing == /\ CanTransition("Processing")
                   /\ MoveTo("Processing", "OrderProcessing")

(* Whatever ids the command names, every item is marked as shipped.        *)
record_shipment(shipment) ==
  /\ status \in {"Paid", "Processing", "Partially_Shipped"}
  /\ status' = "Shipped"
  /\ items' = WithStatus(ItemIds, "Shipped")
  /\ shipment_id' = shipment
  /\ Raise("OrderShipped")
  /\ UNCHANGED <<pricing, payment>>

record_partial_shipment(shipment, shipped_item_ids) ==
  /\ status = "Processing"
  /\ status' = "Partially_Shipped"
  /\ items' = WithStatus(shipped_item_ids, "Shipped")
  /\ shipment_id' = shipment
  /\ Raise("OrderPartiallyShipped")
  /\ UNCHANGED <<pricing, payment>>

(* Mutant: delivery does not reach the items.                              *)
record_delivery_OrderOnly ==
  /\ CanTransition("Delivered")
  /\ MoveTo("Delivered", "OrderDelivered")

record_delivery ==
  /\ CanTransition("Delivered")
  /\ status' = "Delivered"
  /\ items' = WithStatus(ItemIds, "Delivered")
  /\ Raise("OrderDelivered")
  /\ UNCHANGED <<pricing, payment, shipment_id>>

complete == /\ CanTransition("Completed")
            /\ MoveTo("Completed", "OrderCompleted")

request_return == /\ CanTransition("Return_Requested")
                  /\ MoveTo("Return_Requested", "ReturnRequested")

approve_return == /\ CanTransition("Return_Approved")
                  /\ MoveTo("Return_Approved", "ReturnApproved")

(* No ids, or an empty list, stands for all items.                         *)
record_return(returned_item_ids) ==
  /\ CanTransition("Returned")
  /\ status' = "Returned"
  /\ items' = WithStatus(IF returned_item_ids = {} THEN ItemIds ELSE returned_item_ids,
                         "Returned")
  /\ Raise("OrderReturned")
  /\ UNCHANGED <<pricing, payment, shipment_id>>

cancel ==
  \/ /\ status = "Cancelled"
     /\ Ignore
  \/ /\ status \in CancellableStates
     /\ MoveTo("Cancelled", "OrderCancelled")

(* Mutant: a paid order is refunded without being cancelled first.         *)
refund_Paid ==
  /\ status \in {"Paid", "Cancelled", "Returned"}
  /\ MoveTo("Refunded", "OrderRefunded")

refund ==
  \/ /\ status = "Refunded"
     /\ Ignore
  \/ /\ status \in {"Cancelled", "Returned"}
     /\ MoveTo("Refunded", "OrderRefunded")

------------------------------------------------------------------------------
(* Command handlers.  The machine starts with the order CreateOrder made:  *)
(* items, subtotal and total are taken from the caller as they are.        *)
CreateOrder ==
  /\ status = "Created"
  /\ items \in [ItemIds -> [quantity : Quantities, unit_price : UnitPrices,
                            discount : Discounts, item_status : {"Pending"}]
                           \cup {NoItem}]
  /\ Lines(items) # {}
  /\ pricing \in [subtotal : Amounts, charges : Charges, grand_total : Amounts]
  /\ payment = [id |-> "None", status |-> "None"]
  /\ shipment_id = "None"
  /\ raised = <<"OrderCreated">>

AddItem == \E i \in ItemIds, quantity \in Quantities, unit_price \in UnitPrices :
             add_item(i, quantity, unit_price)

RemoveItem == \E i \in ItemIds : remove_item(i)

UpdateItemQuantity == \E i \in ItemIds, new_quantity \in Quantities :
                        update_item_quantity(i, new_quantity)

ApplyCoupon == apply_coupon

ConfirmOrder == confirm

RecordPaymentPending == \E p \in PaymentIds : record_payment_pending(p)

RecordPaymentSuccess == \E p \in PaymentIds : record_payment_success(p)

RecordPaymentFailure == \E p \in PaymentIds : record_payment_failure(p)

MarkProcessing == mark_processing

RecordShipment == \E shipment \in ShipmentIds : record_shipment(shipment)

RecordPartialShipment ==
  \E shipment \in ShipmentIds, ids \in SUBSET ItemIds \ {{}} :
    record_partial_shipment(shipment, ids)

RecordDelivery == record_delivery

CompleteOrder == complete

RequestReturn == request_return

ApproveReturn == approve_return

RecordReturn == \E ids \in SUBSET ItemIds : record_return(ids)

CancelOrder == cancel

RefundOrder == refund

Modification == AddItem \/ RemoveItem \/ UpdateItemQuantity \/ ApplyCoupon

Payment == RecordPaymentPending \/ RecordPaymentSuccess \/ RecordPaymentFailure

Fulfillment == MarkProcessing \/ RecordShipment \/ RecordPartialShipment \/ RecordDelivery

Returns == RequestReturn \/ ApproveReturn \/ RecordReturn

Closing == CompleteOrder \/ CancelOrder \/ RefundOrder

Next == Modification \/ ConfirmOrder \/ Payment \/ Fulfillment \/ Returns \/ Closing

Init == CreateOrder

Spec == Init /\ [][Next]_vars

------------------------------------------------------------------------------
BeforeShipping == {"Created", "Confirmed", "Payment_Pending", "Paid", "Processing", "Cancelled"}

AtCustomer == {"Delivered", "Completed", "Return_Requested", "Return_Approved"}

(* "When the order transitions to Shipped, all item statuses must update": *)
(* on every path the items stand where the order stands.  Before any       *)
(* shipment none has left, in Shipped all have, at the customer all are    *)
(* delivered, and only a returned order, refunded or not, has items        *)
(* returned.                                                               *)
ItemsFollowOrder ==
  \A i \in Lines(items) :
    LET s == items[i].item_status IN
    /\ status \in BeforeShipping => s = "Pending"
    /\ status = "Partially_Shipped" => s \in {"Pending", "Shipped"}
    /\ status = "Shipped" => s = "Shipped"
    /\ status \in AtCustomer => s = "Delivered"
    /\ status = "Returned" => s \in {"Delivered", "Returned"}
    /\ status = "Refunded" => (s = "Pending" <=> shipment_id = "None")

(* An order that reached the warehouse was paid: none of the ways into     *)
(* Processing or beyond leads past a captured payment.                     *)
WarehousePaid ==
  status \notin {"Created", "Confirmed", "Payment_Pending", "Cancelled", "Refunded"}
    => payment.status = "succeeded" /\ payment.id \in PaymentIds

(* Money is captured once: after the first success no command, in whatever *)
(* order and for whichever payment it arrives, makes the order await,      *)
(* fail or capture a payment again.                                        *)
CapturedOnce ==
  [][payment.status = "succeeded" => payment' = payment
       /\ raised' \notin {<<"PaymentPending">>, <<"PaymentSucceeded">>, <<"PaymentFailed">>}]_vars

Terms == [i \in Lines(items) |-> <<items[i].quantity, items[i].unit_price, items[i].discount>>]

(* What the customer confirmed is what is charged and shipped: until then  *)
(* a modification leaves the totals right for the lines that result, even  *)
(* when the caller of CreateOrder had priced the order wrongly; once the   *)
(* order left Created, quantities, prices and totals stay fixed.           *)
TermsFixedOnceConfirmed ==
  [][/\ status # "Created" => Terms' = Terms /\ pricing' = pricing
     /\ items' # items /\ status = "Created" =>
          /\ pricing'.subtotal = Subtotal(items')
          /\ pricing'.grand_total = Subtotal(items') + pricing.charges]_vars

(* The status machine implements OrderPromise.                             *)
Money == IF payment.status = "succeeded" THEN "captured" ELSE "due"

Goods ==
  CASE status \in BeforeShipping -> "warehouse"
    [] status \in {"Partially_Shipped", "Shipped"} -> "carrier"
    [] status \in AtCustomer -> "customer"
    [] status = "Returned" -> "returned"
    [] status = "Refunded" -> IF shipment_id = "None" THEN "warehouse" ELSE "returned"

Closed ==
  CASE status = "Cancelled" -> "called_off"
    [] status = "Completed" -> "completed"
    [] status = "Refunded" -> "refunded"
    [] OTHER -> "no"

Promise == INSTANCE OrderPromise WITH money <- Money, goods <- Goods, closed <- Closed

KeepsPromise == Promise!Spec
==============================================================================
