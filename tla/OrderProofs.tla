----------------------------- MODULE OrderProofs -----------------------------
(***************************************************************************)
(* What is proved of Order for any items, prices, payments and shipments:  *)
(* paid before the warehouse, items in step with the order, captured       *)
(* once, terms fixed once confirmed, that it implements OrderPromise, and  *)
(* that its projections show it.  What a sum over the items amounts to     *)
(* plays no part in it.                                                    *)
(***************************************************************************)
EXTENDS OrderViews, SharedLemmas

(* The part of the type invariant the arguments below need.                *)
Shape == /\ status \in OrderStatus
         /\ \A i \in ItemIds : items[i] = NoItem \/ items[i] \in OrderItem
         /\ items = [i \in ItemIds |-> items[i]]
         /\ payment \in [id : PaymentIds \cup {"None"},
                         status : {"None", "pending", "succeeded", "failed"}]
         /\ shipment_id \in ShipmentIds \cup {"None"}

Unsettled == {"Created", "Confirmed", "Payment_Pending", "Cancelled", "Refunded"}

(* Money, goods and shipment stand where the status stands.  In a closed   *)
(* order the status no longer tells whether money was captured or goods    *)
(* were shipped: shipment_id does.                                         *)
StageInv ==
  /\ status \notin Unsettled => payment.status = "succeeded" /\ payment.id \in PaymentIds
  /\ status \in {"Created", "Confirmed", "Payment_Pending"} => payment.status # "succeeded"
  /\ status \in BeforeShipping => shipment_id = "None"
  /\ status \notin BeforeShipping \cup {"Refunded"} => shipment_id # "None"

OrderInv == Shape /\ StageInv /\ ItemsFollowOrder

(* Marking items changes the status of the lines named and nothing else.   *)
LEMMA MarkedItems ==
  ASSUME Shape, NEW ids, NEW s \in ItemStatus, NEW i \in ItemIds
  PROVE  /\ WithStatus(ids, s)[i] = NoItem <=> items[i] = NoItem
         /\ items[i] # NoItem /\ i \in ids => WithStatus(ids, s)[i].item_status = s
         /\ items[i] # NoItem => WithStatus(ids, s)[i] \in OrderItem
         /\ i \notin ids => WithStatus(ids, s)[i] = items[i]
<1>1. "None" \notin ItemStatus
  BY DEF ItemStatus
<1>2. \A line \in OrderItem : line # NoItem
  BY <1>1 DEF OrderItem, NoItem
<1>3. ASSUME items[i] \in OrderItem
      PROVE  /\ [items[i] EXCEPT !.item_status = s] \in OrderItem
             /\ [items[i] EXCEPT !.item_status = s].item_status = s
  BY <1>3 DEF OrderItem
<1> QED  BY <1>2, <1>3 DEF WithStatus, Shape

(* From where each status can be reached.                                  *)
LEMMA Sources ==
  ASSUME status \in OrderStatus
  PROVE  /\ CanTransition("Confirmed") => status \in {"Created", "Payment_Pending"}
         /\ CanTransition("Payment_Pending") => status = "Confirmed"
         /\ CanTransition("Paid") => status = "Payment_Pending"
         /\ CanTransition("Processing") => status = "Paid"
         /\ CanTransition("Delivered") => status = "Shipped"
         /\ CanTransition("Completed") => status = "Delivered"
         /\ CanTransition("Return_Requested") => status = "Delivered"
         /\ CanTransition("Return_Approved") => status = "Return_Requested"
         /\ CanTransition("Returned") => status = "Return_Approved"
  BY Zenon DEF CanTransition, ValidTransitions, OrderStatus

(* The order CreateOrder makes satisfies the invariant.                    *)
LEMMA InitKeeps == Init => OrderInv
<1> SUFFICES ASSUME Init PROVE OrderInv
  OBVIOUS
<1> USE OrderAssumption DEF Init, CreateOrder
<1>1. \A i \in ItemIds : items[i] = NoItem \/ (items[i] \in OrderItem /\ items[i].item_status = "Pending")
  BY DEF OrderItem, ItemStatus
<1>2. Shape
  BY <1>1 DEF Shape, OrderStatus
<1>3. StageInv
  BY DEF StageInv, Unsettled, BeforeShipping
<1>4. ItemsFollowOrder
  BY <1>1 DEF ItemsFollowOrder, Lines, BeforeShipping, AtCustomer
<1> QED  BY <1>2, <1>3, <1>4 DEF OrderInv

(* A step that leaves items, payment and shipment as they are.             *)
LEMMA MoveKeeps ==
  ASSUME OrderInv, NEW target \in OrderStatus, status' = target,
         UNCHANGED <<items, payment, shipment_id>>,
         \/ /\ target = "Confirmed" /\ status \in {"Created", "Payment_Pending"}
         \/ target = "Processing" /\ status = "Paid"
         \/ target \in {"Completed", "Return_Requested"} /\ status = "Delivered"
         \/ target = "Return_Approved" /\ status = "Return_Requested"
         \/ target = "Cancelled" /\ status \in CancellableStates
         \/ target = "Refunded" /\ status \in {"Cancelled", "Returned"}
  PROVE  OrderInv'
<1>1. Shape'
  BY DEF OrderInv, Shape
<1>2. StageInv'
  BY DEF OrderInv, StageInv, Unsettled, BeforeShipping, CancellableStates
<1>3. ItemsFollowOrder'
  BY DEF OrderInv, StageInv, ItemsFollowOrder, Lines, BeforeShipping, AtCustomer, CancellableStates
<1> QED  BY <1>1, <1>2, <1>3 DEF OrderInv

(* A step that only sets the payment along with the status.                *)
LEMMA PaymentKeeps ==
  ASSUME OrderInv, UNCHANGED <<items, shipment_id>>,
         payment' \in [id : PaymentIds \cup {"None"},
                       status : {"None", "pending", "succeeded", "failed"}],
         \/ /\ status' = "Payment_Pending" /\ status = "Confirmed"
            /\ payment'.status = "pending"
         \/ /\ status' = "Paid" /\ status = "Payment_Pending"
            /\ payment'.status = "succeeded" /\ payment'.id \in PaymentIds
         \/ /\ status' = "Confirmed" /\ status \in {"Created", "Payment_Pending"}
            /\ payment'.status = "failed"
  PROVE  OrderInv'
<1>1. Shape'
  BY DEF OrderInv, Shape, OrderStatus
<1>2. StageInv'
  BY DEF OrderInv, StageInv, Unsettled, BeforeShipping
<1>3. ItemsFollowOrder'
  BY DEF OrderInv, ItemsFollowOrder, Lines, BeforeShipping, AtCustomer
<1> QED  BY <1>1, <1>2, <1>3 DEF OrderInv

(* A step that marks items along with the status.                          *)
LEMMA MarkKeeps ==
  ASSUME OrderInv, NEW ids, NEW s \in ItemStatus,
         items' = WithStatus(ids, s), payment' = payment,
         shipment_id' \in ShipmentIds \cup {"None"},
         \/ /\ status' = "Partially_Shipped" /\ status = "Processing"
            /\ s = "Shipped" /\ shipment_id' # "None"
         \/ /\ status' = "Shipped" /\ status \in {"Paid", "Processing", "Partially_Shipped"}
            /\ s = "Shipped" /\ ids = ItemIds /\ shipment_id' # "None"
         \/ /\ status' = "Delivered" /\ status = "Shipped"
            /\ s = "Delivered" /\ ids = ItemIds /\ shipment_id' = shipment_id
         \/ /\ status' = "Returned" /\ status = "Return_Approved"
            /\ s = "Returned" /\ shipment_id' = shipment_id
  PROVE  OrderInv'
<1>1. \A i \in ItemIds :
        /\ items'[i] = NoItem <=> items[i] = NoItem
        /\ items[i] # NoItem /\ i \in ids => items'[i].item_status = s
        /\ items[i] # NoItem => items'[i] \in OrderItem
        /\ i \notin ids => items'[i] = items[i]
  BY MarkedItems DEF OrderInv
<1>2. items' = [i \in ItemIds |-> items'[i]]
  BY DEF WithStatus
<1>3. Shape'
  BY <1>1, <1>2 DEF OrderInv, Shape, OrderStatus
<1>4. StageInv'
  BY DEF OrderInv, StageInv, Unsettled, BeforeShipping
<1>5. ItemsFollowOrder'
  BY <1>1 DEF OrderInv, ItemsFollowOrder, Lines, BeforeShipping, AtCustomer
<1> QED  BY <1>3, <1>4, <1>5 DEF OrderInv

(* A modification: the order is still in Created, and so are its items.    *)
LEMMA ModifyKeeps ==
  ASSUME OrderInv, status = "Created", UNCHANGED <<status, payment, shipment_id>>,
         items' = [i \in ItemIds |-> items'[i]],
         \A i \in ItemIds : \/ items'[i] = NoItem
                            \/ items'[i] \in OrderItem /\ items'[i].item_status = "Pending"
  PROVE  OrderInv'
<1>1. Shape'
  BY DEF OrderInv, Shape
<1>2. StageInv'
  BY DEF OrderInv, StageInv
<1>3. ItemsFollowOrder'
  BY DEF ItemsFollowOrder, Lines, BeforeShipping, AtCustomer
<1> QED  BY <1>1, <1>2, <1>3 DEF OrderInv

(* The modifications of a Created order keep it.                           *)
LEMMA ModificationKeeps == OrderInv /\ Modification => OrderInv'
<1> SUFFICES ASSUME OrderInv, Modification PROVE OrderInv'
  OBVIOUS
<1>1. \A i \in ItemIds : \/ items[i] = NoItem
                        \/ /\ items[i] \in OrderItem
                           /\ status = "Created" => items[i].item_status = "Pending"
  BY DEF OrderInv, Shape, ItemsFollowOrder, Lines, BeforeShipping
<1>2. items = [i \in ItemIds |-> items[i]]
  BY DEF OrderInv, Shape
<1>3. CASE AddItem
  <2>1. PICK i \in ItemIds, quantity \in Quantities, unit_price \in UnitPrices :
          add_item(i, quantity, unit_price)
    BY <1>3 DEF AddItem
  <2> DEFINE line == [quantity |-> quantity, unit_price |-> unit_price,
                      discount |-> 0, item_status |-> "Pending"]
  <2>2. line \in OrderItem /\ line.item_status = "Pending"
    BY OrderAssumption DEF OrderItem, ItemStatus
  <2>3. /\ status = "Created" /\ items' = [items EXCEPT ![i] = line]
        /\ UNCHANGED <<status, payment, shipment_id>>
    BY <2>1 DEF add_item, Modify, Created
  <2> HIDE DEF line
  <2> QED  BY <1>1, <1>2, <2>2, <2>3, ModifyKeeps
<1>4. CASE RemoveItem
  BY <1>1, <1>2, <1>4, ModifyKeeps DEF RemoveItem, remove_item, Modify, Created
<1>5. CASE UpdateItemQuantity
  <2>1. PICK i \in ItemIds, new_quantity \in Quantities :
          update_item_quantity(i, new_quantity)
    BY <1>5 DEF UpdateItemQuantity
  <2>2. /\ status = "Created" /\ items[i] # NoItem
        /\ items' = [items EXCEPT ![i].quantity = new_quantity]
        /\ UNCHANGED <<status, payment, shipment_id>>
    BY <2>1 DEF update_item_quantity, Modify, Created
  <2>3. items'[i] \in OrderItem /\ items'[i].item_status = "Pending"
    BY <1>1, <1>2, <2>2, OrderAssumption DEF OrderItem
  <2> QED  BY <1>1, <1>2, <2>2, <2>3, ModifyKeeps
<1>6. CASE ApplyCoupon
  BY <1>1, <1>2, <1>6, ModifyKeeps DEF ApplyCoupon, apply_coupon, Created
<1> QED  BY <1>3, <1>4, <1>5, <1>6 DEF Modification

(* Every command keeps it.                                                 *)
LEMMA NextKeeps == OrderInv /\ [Next]_vars => OrderInv'
<1> SUFFICES ASSUME OrderInv, [Next]_vars PROVE OrderInv'
  OBVIOUS
<1>0. ASSUME UNCHANGED <<status, items, payment, shipment_id>> PROVE OrderInv'
  BY <1>0 DEF OrderInv, Shape, StageInv, ItemsFollowOrder, Lines
<1>s. status \in OrderStatus /\ payment.id \in PaymentIds \cup {"None"}
      /\ shipment_id \in ShipmentIds \cup {"None"}
  BY DEF OrderInv, Shape
<1>p. payment = [id |-> payment.id, status |-> payment.status]
  BY DEF OrderInv, Shape
<1>1. CASE Modification
  BY <1>1, ModificationKeeps
<1>2. CASE ConfirmOrder
  BY <1>2, <1>s, Sources, MoveKeeps DEF ConfirmOrder, confirm, MoveTo, OrderStatus
<1>3. CASE RecordPaymentPending
  <2>1. PICK p \in PaymentIds : record_payment_pending(p)
    BY <1>3 DEF RecordPaymentPending
  <2> QED  BY <1>0, <1>s, <2>1, Sources, PaymentKeeps DEF record_payment_pending, Ignore
<1>4. CASE RecordPaymentSuccess
  <2>1. PICK p \in PaymentIds : record_payment_success(p)
    BY <1>4 DEF RecordPaymentSuccess
  <2> QED  BY <1>0, <1>s, <2>1, Sources, PaymentKeeps DEF record_payment_success, Ignore
<1>5. CASE RecordPaymentFailure
  <2>1. PICK p \in PaymentIds : record_payment_failure(p)
    BY <1>5 DEF RecordPaymentFailure
  <2>2. CASE Ignore
    BY <1>0, <2>2 DEF Ignore
  <2>3. CASE /\ CanTransition("Confirmed") /\ status' = "Confirmed"
             /\ payment' = [payment EXCEPT !.status = "failed"]
             /\ UNCHANGED <<items, shipment_id>>
    <3>1. payment' = [id |-> payment.id, status |-> "failed"]
      BY <1>p, <2>3
    <3> QED  BY <1>s, <2>3, <3>1, Sources, PaymentKeeps
  <2> QED  BY <2>1, <2>2, <2>3 DEF record_payment_failure
<1>6. CASE MarkProcessing
  BY <1>6, <1>s, Sources, MoveKeeps DEF MarkProcessing, mark_processing, MoveTo, OrderStatus
<1>7. CASE RecordShipment
  BY <1>7, <1>s, MarkKeeps, OrderAssumption DEF RecordShipment, record_shipment, ItemStatus
<1>8. CASE RecordPartialShipment
  BY <1>8, <1>s, MarkKeeps, OrderAssumption
     DEF RecordPartialShipment, record_partial_shipment, ItemStatus
<1>9. CASE RecordDelivery
  BY <1>9, <1>s, Sources, MarkKeeps DEF RecordDelivery, record_delivery, ItemStatus
<1>10. CASE RequestReturn
  BY <1>10, <1>s, Sources, MoveKeeps DEF RequestReturn, request_return, MoveTo, OrderStatus
<1>11. CASE ApproveReturn
  BY <1>11, <1>s, Sources, MoveKeeps DEF ApproveReturn, approve_return, MoveTo, OrderStatus
<1>12. CASE RecordReturn
  <2>1. PICK ids \in SUBSET ItemIds : record_return(ids)
    BY <1>12 DEF RecordReturn
  <2> DEFINE marked == IF ids = {} THEN ItemIds ELSE ids
  <2>2. /\ CanTransition("Returned") /\ status' = "Returned"
        /\ items' = WithStatus(marked, "Returned")
        /\ payment' = payment /\ shipment_id' = shipment_id
    BY <2>1 DEF record_return
  <2> HIDE DEF marked
  <2> QED  BY <1>s, <2>2, Sources, MarkKeeps DEF ItemStatus
<1>13. CASE CompleteOrder
  BY <1>13, <1>s, Sources, MoveKeeps DEF CompleteOrder, complete, MoveTo, OrderStatus
<1>14. CASE CancelOrder
  BY <1>0, <1>14, MoveKeeps DEF CancelOrder, cancel, Ignore, MoveTo, OrderStatus
<1>15. CASE RefundOrder
  BY <1>0, <1>15, MoveKeeps DEF RefundOrder, refund, Ignore, MoveTo, OrderStatus
<1>16. CASE UNCHANGED vars
  BY <1>0, <1>16 DEF vars
<1> QED
  BY <1>1, <1>2, <1>3, <1>4, <1>5, <1>6, <1>7, <1>8, <1>9, <1>10, <1>11, <1>12, <1>13,
     <1>14, <1>15, <1>16 DEF Next, Payment, Fulfillment, Returns, Closing

(* An order is worked on in the warehouse, shipped, delivered or returned  *)
(* only if its payment was captured, and its items stand where it stands,  *)
(* for any number of items and any order of the commands.                  *)
THEOREM OrderInvariant == Spec => []OrderInv
  BY InitKeeps, NextKeeps, PTL DEF Spec

(* No order is processed, shipped, delivered or returned unpaid.           *)
THEOREM PaidBeforeWarehouse == Spec => []WarehousePaid
<1>1. OrderInv => WarehousePaid
  BY DEF OrderInv, StageInv, WarehousePaid, Unsettled
<1> QED  BY OrderInvariant, <1>1, PTL

(* The items of the order stand where the order stands.                    *)
THEOREM ItemsInStep == Spec => []ItemsFollowOrder
<1>1. OrderInv => ItemsFollowOrder
  BY DEF OrderInv
<1> QED  BY OrderInvariant, <1>1, PTL

------------------------------------------------------------------------------
(***************************************************************************)
(* Refinement.  Modifications, status moves inside one stage and no-ops    *)
(* are stuttering steps of the promise.                                    *)
(***************************************************************************)
LEMMA PromiseInit == Init => Promise!Init
<1>1. Init => status = "Created" /\ payment.status = "None"
  BY DEF Init, CreateOrder
<1>2. ASSUME Init PROVE Money = "due" /\ Goods = "warehouse" /\ Closed = "no"
  BY <1>1, <1>2 DEF Money, Goods, Closed, BeforeShipping, AtCustomer
<1> QED  BY <1>2 DEF Promise!Init

(* Every command is a step of the promise, or none at all.                 *)
LEMMA PromiseStep ==
  ASSUME OrderInv, OrderInv', [Next]_vars
  PROVE  [Promise!Next]_(Promise!order)
<1>s. status \in OrderStatus /\ status' \in OrderStatus
  BY DEF OrderInv, Shape
<1>i. StageInv /\ StageInv'
  BY DEF OrderInv
<1> USE DEF Money, Goods, Closed, BeforeShipping, AtCustomer
<1>0. ASSUME UNCHANGED <<status, payment, shipment_id>> PROVE UNCHANGED Promise!order
  BY <1>0 DEF Promise!order
<1>1. CASE Modification
  BY <1>0, <1>1 DEF Modification, AddItem, add_item, RemoveItem, remove_item,
     UpdateItemQuantity, update_item_quantity, ApplyCoupon, apply_coupon, Modify
<1>2. CASE ConfirmOrder
  BY <1>2, <1>s, Sources DEF ConfirmOrder, confirm, MoveTo, Promise!order
<1>3. CASE RecordPaymentPending
  <2>1. PICK p \in PaymentIds : record_payment_pending(p)
    BY <1>3 DEF RecordPaymentPending
  <2> QED  BY <1>0, <1>i, <1>s, <2>1, Sources
           DEF record_payment_pending, Ignore, Promise!order, StageInv
<1>4. CASE RecordPaymentSuccess
  <2>1. PICK p \in PaymentIds : record_payment_success(p)
    BY <1>4 DEF RecordPaymentSuccess
  <2>2. CASE Ignore
    BY <1>0, <2>2 DEF Ignore
  <2>3. CASE /\ CanTransition("Paid") /\ status' = "Paid"
             /\ payment' = [id |-> p, status |-> "succeeded"]
             /\ UNCHANGED shipment_id
    BY <1>i, <1>s, <2>3, Sources DEF Promise!Next, Promise!Capture, StageInv
  <2> QED  BY <2>1, <2>2, <2>3 DEF record_payment_success
<1>5. CASE RecordPaymentFailure
  <2>1. PICK p \in PaymentIds : record_payment_failure(p)
    BY <1>5 DEF RecordPaymentFailure
  <2> QED  BY <1>0, <1>i, <1>s, <2>1, Sources
           DEF record_payment_failure, Ignore, Promise!order, StageInv
<1>6. CASE MarkProcessing
  BY <1>6, <1>s, Sources DEF MarkProcessing, mark_processing, MoveTo, Promise!order
<1>7. CASE RecordShipment
  BY <1>7, <1>i DEF RecordShipment, record_shipment, Promise!order, Promise!Next,
     Promise!Dispatch, StageInv, Unsettled
<1>8. CASE RecordPartialShipment
  BY <1>8, <1>i DEF RecordPartialShipment, record_partial_shipment, Promise!Next,
     Promise!Dispatch, StageInv, Unsettled
<1>9. CASE RecordDelivery
  BY <1>9, <1>s, Sources DEF RecordDelivery, record_delivery, Promise!Next, Promise!Deliver
<1>10. CASE RequestReturn
  BY <1>10, <1>s, Sources DEF RequestReturn, request_return, MoveTo, Promise!order
<1>11. CASE ApproveReturn
  BY <1>11, <1>s, Sources DEF ApproveReturn, approve_return, MoveTo, Promise!order
<1>12. CASE RecordReturn
  <2>1. CanTransition("Returned") /\ status' = "Returned" /\ UNCHANGED <<payment, shipment_id>>
    BY <1>12 DEF RecordReturn, record_return
  <2> QED  BY <1>s, <2>1, Sources DEF Promise!Next, Promise!ComeBack
<1>13. CASE CompleteOrder
  BY <1>13, <1>s, Sources DEF CompleteOrder, complete, MoveTo, Promise!Next, Promise!Complete
<1>14. CASE CancelOrder
  BY <1>0, <1>14 DEF CancelOrder, cancel, Ignore, MoveTo, CancellableStates, Promise!Next,
     Promise!CallOff
<1>15. CASE RefundOrder
  BY <1>0, <1>15, <1>i DEF RefundOrder, refund, Ignore, MoveTo, Promise!Next,
     Promise!Refund, StageInv
<1>16. CASE UNCHANGED vars
  BY <1>0, <1>16 DEF vars
<1> QED
  BY <1>1, <1>2, <1>3, <1>4, <1>5, <1>6, <1>7, <1>8, <1>9, <1>10, <1>11, <1>12, <1>13,
     <1>14, <1>15, <1>16 DEF Next, Payment, Fulfillment, Returns, Closing

(* The order's status machine implements OrderPromise: goods only leave    *)
(* against captured money, and neither is called off, completed or         *)
(* refunded in a stage where it may not be.                                *)
THEOREM ImplementsPromise == Spec => KeepsPromise
<1>1. OrderInv /\ OrderInv' /\ [Next]_vars => [Promise!Next]_(Promise!order)
  BY PromiseStep
<1> QED  BY OrderInvariant, PromiseInit, <1>1, PTL DEF Spec, KeepsPromise, Promise!Spec

------------------------------------------------------------------------------
(* Once captured, the payment of an order is left alone by every command.  *)
LEMMA CapturedStep ==
  ASSUME OrderInv, Next, payment.status = "succeeded"
  PROVE  /\ payment' = payment
         /\ raised' \notin {<<"PaymentPending">>, <<"PaymentSucceeded">>, <<"PaymentFailed">>}
<1>s. status \in OrderStatus /\ status \notin {"Created", "Confirmed", "Payment_Pending"}
  BY DEF OrderInv, Shape, StageInv
<1>1. CASE Modification
  BY <1>1, <1>s DEF Modification, AddItem, add_item, RemoveItem, remove_item,
     UpdateItemQuantity, update_item_quantity, ApplyCoupon, apply_coupon, Created
<1>2. CASE RecordPaymentPending \/ RecordPaymentSuccess \/ RecordPaymentFailure
  <2>1. Ignore
    BY <1>2, <1>s, Sources DEF RecordPaymentPending, RecordPaymentSuccess,
       RecordPaymentFailure, record_payment_pending, record_payment_success,
       record_payment_failure
  <2> QED  BY <2>1 DEF Ignore
<1>3. CASE ConfirmOrder \/ Fulfillment \/ Returns \/ Closing
  <2>1. payment' = payment
    BY <1>3 DEF Fulfillment, Returns, Closing, ConfirmOrder, confirm, MarkProcessing,
       mark_processing, RecordShipment, record_shipment, RecordPartialShipment,
       record_partial_shipment, RecordDelivery, record_delivery, RequestReturn,
       request_return, ApproveReturn, approve_return, RecordReturn, record_return,
       CompleteOrder, complete, CancelOrder, cancel, RefundOrder, refund, MoveTo, Ignore
  <2>2. raised' \in {<< >>, <<"OrderConfirmed">>, <<"OrderProcessing">>, <<"OrderShipped">>,
                    <<"OrderPartiallyShipped">>, <<"OrderDelivered">>, <<"ReturnRequested">>,
                    <<"ReturnApproved">>, <<"OrderReturned">>, <<"OrderCompleted">>,
                    <<"OrderCancelled">>, <<"OrderRefunded">>}
    BY <1>3 DEF Fulfillment, Returns, Closing, ConfirmOrder, confirm, MarkProcessing,
       mark_processing, RecordShipment, record_shipment, RecordPartialShipment,
       record_partial_shipment, RecordDelivery, record_delivery, RequestReturn,
       request_return, ApproveReturn, approve_return, RecordReturn, record_return,
       CompleteOrder, complete, CancelOrder, cancel, RefundOrder, refund, MoveTo, Ignore, Raise
  <2> QED  BY <2>1, <2>2
<1> QED  BY <1>1, <1>2, <1>3 DEF Next, Payment

(* Once a payment is captured, no command touches the payment again.       *)
THEOREM CapturedAtMostOnce == Spec => CapturedOnce
<1>1. OrderInv /\ [Next]_vars =>
        [payment.status = "succeeded" => payment' = payment
           /\ raised' \notin {<<"PaymentPending">>, <<"PaymentSucceeded">>, <<"PaymentFailed">>}]_vars
  BY CapturedStep
<1> QED  BY OrderInvariant, <1>1, PTL DEF Spec, CapturedOnce

------------------------------------------------------------------------------
(* Marking items leaves their terms alone.                                 *)
LEMMA MarkingKeepsTerms ==
  ASSUME Shape, NEW ids, NEW s \in ItemStatus, items' = WithStatus(ids, s)
  PROVE  Terms' = Terms
<1>1. \A i \in ItemIds : items'[i] = NoItem <=> items[i] = NoItem
  BY MarkedItems
<1>2. Lines(items)' = Lines(items)
  BY <1>1 DEF Lines
<1>3. ASSUME NEW i \in Lines(items)
      PROVE  /\ items'[i].quantity = items[i].quantity
             /\ items'[i].unit_price = items[i].unit_price
             /\ items'[i].discount = items[i].discount
  <2>1. items[i] \in OrderItem /\ i \in ItemIds
    BY <1>3 DEF Shape, Lines
  <2>2. items'[i] = items[i] \/ items'[i] = [items[i] EXCEPT !.item_status = s]
    BY <2>1 DEF WithStatus
  <2> QED  BY <2>1, <2>2 DEF OrderItem
<1> QED  BY <1>2, <1>3 DEF Terms

(* What a command does to terms and prices.                                *)
LEMMA TermsStep ==
  ASSUME OrderInv, Next
  PROVE  /\ status # "Created" => Terms' = Terms /\ pricing' = pricing
         /\ items' # items /\ status = "Created" =>
              /\ pricing'.subtotal = Subtotal(items')
              /\ pricing'.grand_total = Subtotal(items') + pricing.charges
<1>1. CASE Modification
  <2>1. status = "Created"
    BY <1>1 DEF Modification, AddItem, add_item, RemoveItem, remove_item,
       UpdateItemQuantity, update_item_quantity, ApplyCoupon, apply_coupon, Created
  <2>2. CASE \E lines, event : Modify(lines, event)
    BY <2>1, <2>2 DEF Modify, calculate_pricing
  <2>3. CASE ApplyCoupon
    BY <2>1, <2>3 DEF ApplyCoupon, apply_coupon
  <2> QED
    BY <1>1, <2>2, <2>3 DEF Modification, AddItem, add_item, RemoveItem, remove_item,
       UpdateItemQuantity, update_item_quantity
<1>2. CASE UNCHANGED <<items, pricing>>
  BY <1>2 DEF Terms, Lines
<1>3. ASSUME NEW ids, NEW s \in ItemStatus,
             items' = WithStatus(ids, s), pricing' = pricing, status # "Created"
      PROVE  Terms' = Terms /\ pricing' = pricing
  BY <1>3, MarkingKeepsTerms DEF OrderInv
<1>4. CASE ConfirmOrder \/ Payment \/ Closing \/ MarkProcessing \/ RequestReturn \/ ApproveReturn
  <2>1. UNCHANGED <<items, pricing>>
    BY <1>4 DEF ConfirmOrder, confirm, Payment, RecordPaymentPending, record_payment_pending,
       RecordPaymentSuccess, record_payment_success, RecordPaymentFailure,
       record_payment_failure, Closing, CompleteOrder, complete, CancelOrder, cancel,
       RefundOrder, refund, MarkProcessing, mark_processing, RequestReturn, request_return,
       ApproveReturn, approve_return, MoveTo, Ignore
  <2> QED  BY <1>2, <2>1
<1>5. CASE RecordShipment \/ RecordPartialShipment \/ RecordDelivery \/ RecordReturn
  <2>1. /\ \E ids, s : s \in ItemStatus /\ items' = WithStatus(ids, s)
        /\ pricing' = pricing
    BY <1>5 DEF RecordShipment, record_shipment, RecordPartialShipment,
       record_partial_shipment, RecordDelivery, record_delivery, RecordReturn,
       record_return, ItemStatus
  <2>2. status # "Created"
    BY <1>5, Sources DEF OrderInv, Shape, RecordShipment, record_shipment,
       RecordPartialShipment, record_partial_shipment, RecordDelivery, record_delivery,
       RecordReturn, record_return
  <2> QED  BY <1>3, <2>1, <2>2
<1> QED  BY <1>1, <1>4, <1>5 DEF Next, Fulfillment, Returns

(* Until the customer confirms, every change of the lines reprices the     *)
(* order; from then on no command changes what was agreed.                 *)
THEOREM TermsAreFixed == Spec => TermsFixedOnceConfirmed
<1> DEFINE Agreed ==
      /\ status # "Created" => Terms' = Terms /\ pricing' = pricing
      /\ items' # items /\ status = "Created" =>
           /\ pricing'.subtotal = Subtotal(items')
           /\ pricing'.grand_total = Subtotal(items') + pricing.charges
<1>1. OrderInv /\ [Next]_vars => [Agreed]_vars
  BY TermsStep
<1> QED  BY OrderInvariant, <1>1, PTL DEF Spec, TermsFixedOnceConfirmed, Agreed

------------------------------------------------------------------------------
(***************************************************************************)
(* The projections.  Each is taken apart into facets that its projector    *)
(* reads one by one.  Of a facet the invariant says what it is to become   *)
(* when the events still unread are read; those that add up do so as long  *)
(* as nothing was handled twice.  The prices are whatever amounts came up  *)
(* so far: nothing is known of what a sum over the items amounts to.       *)
(***************************************************************************)
PaymentRecords == [id : PaymentIds \cup {"None"},
                   status : {"None", "pending", "succeeded", "failed"}]

Prices(P) == [subtotal : P, charges : P, grand_total : P]

OrderEvents(P) ==
  {e \in [type : EventType, item : ItemIds \cup {"unchanged"},
          items : [ItemIds -> OrderItem \cup {NoItem}], pricing : Prices(P),
          payment : PaymentRecords, shipment_id : ShipmentIds \cup {"None"}] :
     /\ e.type = "ItemAdded" => e.item \in ItemIds
     /\ e.type \in {"ItemAdded", "ItemQuantityUpdated"} /\ e.item \in ItemIds =>
          e.items[e.item] \in OrderItem}

DetailLine == [item_id : ItemIds, id : {"None"}, quantity : Nat \ {0}]
              \cup [item_id : {"None"}, id : ItemIds, quantity : Nat \ {0}]

(* A row that OrderCreated was written to.                                 *)
RowOK(v, r) ==
  CASE v = "order_detail" ->
         /\ r = [status |-> r.status, items |-> r.items, subtotal |-> r.subtotal,
                 grand_total |-> r.grand_total, payment |-> r.payment,
                 shipment_id |-> r.shipment_id]
         /\ r.items \in Seq(DetailLine)
         /\ r.payment \in PaymentRecords
    [] v = "order_summary" ->
         r = [status |-> r.status, item_count |-> r.item_count, grand_total |-> r.grand_total]
    [] v = "orders_by_status" -> r = [status |-> r.status, grand_total |-> r.grand_total]
    [] v = "customer_orders" ->
         r = [status |-> r.status, grand_total |-> r.grand_total, item_count |-> r.item_count]
    [] v = "abandoned_checkouts" -> r \in {NoRow, [status |-> "Created"]}
    [] v = "daily_order_stats" ->
         r = [created |-> r.created, completed |-> r.completed, cancelled |-> r.cancelled,
              refunded |-> r.refunded, revenue |-> r.revenue]
    [] v = "order_timeline" -> r = [status |-> r.status]

Facets(v) ==
  CASE v = "order_detail" -> {"status", "payment", "shipment", "subtotal", "grand_total"}
    [] v = "order_summary" -> {"status", "grand_total", "count"}
    [] v \in {"orders_by_status", "customer_orders", "order_timeline"} -> {"status"}
    [] v = "abandoned_checkouts" -> {"open"}
    [] v = "daily_order_stats" -> {"created", "completed", "cancelled", "refunded"}

Summed == {"count", "created", "completed", "cancelled", "refunded"}

Values(f, P) ==
  CASE f = "status" -> OrderStatus
    [] f = "payment" -> PaymentRecords
    [] f = "shipment" -> ShipmentIds \cup {"None"}
    [] f \in {"subtotal", "grand_total"} -> P
    [] f \in Summed -> Nat
    [] f = "open" -> {"Created", "None"}

(* A facet of the row r.                                                   *)
Part(f, r) ==
  CASE f \in {"status", "open"} -> r.status
    [] f = "payment" -> r.payment
    [] f = "shipment" -> r.shipment_id
    [] f = "subtotal" -> r.subtotal
    [] f = "grand_total" -> r.grand_total
    [] f = "count" -> r.item_count
    [] f = "created" -> r.created
    [] f = "completed" -> r.completed
    [] f = "cancelled" -> r.cancelled
    [] f = "refunded" -> r.refunded

(* How a facet is read: what becomes of it with event e.                   *)
StatusRead(x, e) == IF e.type \in DOMAIN StatusWritten THEN StatusWritten[e.type] ELSE x

PaymentRead(x, e) == IF e.type = "PaymentFailed" THEN [x EXCEPT !.status = "failed"]
                     ELSE IF e.type \in PaymentEvents \cup {"OrderCreated"} THEN e.payment
                     ELSE x

ShipmentRead(x, e) == IF e.type = "OrderCreated" THEN "None"
                      ELSE IF e.type \in ShipmentEvents THEN e.shipment_id ELSE x

Priced == ItemEvents \cup {"OrderCreated"}

SubtotalRead(x, e) == IF e.type \in Priced THEN e.pricing.subtotal ELSE x

GrandTotalRead(x, e) == IF e.type \in Priced THEN e.pricing.grand_total ELSE x

CountRead(x, e) == IF e.type = "OrderCreated" THEN Cardinality(Lines(e.items))
                   ELSE IF e.type = "ItemAdded" THEN x + 1
                   ELSE IF e.type = "ItemRemoved" THEN (IF x > 0 THEN x - 1 ELSE 0) ELSE x

OpenRead(x, e) == IF e.type = "OrderCreated" THEN "Created"
                  ELSE IF e.type \in {"OrderConfirmed", "OrderCancelled"} THEN "None" ELSE x

Counted(x, e, type) == IF e.type = type THEN x + 1 ELSE x

Read(f, x, e) ==
  CASE f = "status" -> StatusRead(x, e)
    [] f = "payment" -> PaymentRead(x, e)
    [] f = "shipment" -> ShipmentRead(x, e)
    [] f = "subtotal" -> SubtotalRead(x, e)
    [] f = "grand_total" -> GrandTotalRead(x, e)
    [] f = "count" -> CountRead(x, e)
    [] f = "open" -> OpenRead(x, e)
    [] f = "created" -> Counted(x, e, "OrderCreated")
    [] f = "completed" -> Counted(x, e, "OrderCompleted")
    [] f = "cancelled" -> Counted(x, e, "OrderCancelled")
    [] f = "refunded" -> Counted(x, e, "OrderRefunded")

Steps(f, P) == {t \in Values(f, P) \X OrderEvents(P) \X Values(f, P) : t[3] = Read(f, t[1], t[2])}

(* The value x of a facet tells of the order what it is to tell.           *)
Counts(x, condition) == x = (IF condition THEN 1 ELSE 0)

OpenTells(x) ==
  /\ status = "Created" => x = "Created"
  /\ status = "Cancelled" => x = "None"
  /\ x = "Created" => status = "Created" \/ payment.status # "None"
  /\ x = "Created" /\ status = "Confirmed" => payment.status = "failed"

Tells(f, x) ==
  CASE f = "status" -> x = status
    [] f = "payment" -> x = payment
    [] f = "shipment" -> x = shipment_id
    [] f = "subtotal" -> x = pricing.subtotal
    [] f = "grand_total" -> x = pricing.grand_total
    [] f = "count" -> x = Cardinality(Lines(items))
    [] f = "open" -> OpenTells(x)
    [] f = "created" -> x = 1
    [] f = "completed" -> Counts(x, status = "Completed")
    [] f = "cancelled" ->
         Counts(x, status = "Cancelled" \/ (status = "Refunded" /\ shipment_id = "None"))
    [] f = "refunded" -> Counts(x, status = "Refunded")

------------------------------------------------------------------------------
(* The line of item i in a list: whether the order was created with it,    *)
(* and the quantity of the first entry made for it since (0 if none).      *)
FirstLine(lines, i, quantity) ==
  \/ quantity = 0 /\ \A k \in 1..Len(lines) : lines[k].item_id # i
  \/ \E k \in 1..Len(lines) : /\ lines[k].item_id = i /\ lines[k].quantity = quantity
                              /\ \A j \in 1..(k - 1) : lines[j].item_id # i

ListsItem(lines, i, x) ==
  /\ x.original = (\E k \in 1..Len(lines) : lines[k].id = i)
  /\ FirstLine(lines, i, x.quantity)

LineValues == [original : BOOLEAN, quantity : Nat]

LineRead(i, x, e) ==
  IF e.type = "OrderCreated" THEN [original |-> e.items[i] # NoItem, quantity |-> 0]
  ELSE IF e.item # i THEN x
  ELSE IF e.type = "ItemAdded"
       THEN [x EXCEPT !.quantity = IF @ = 0 THEN e.items[i].quantity ELSE @]
  ELSE IF e.type = "ItemRemoved" THEN [x EXCEPT !.quantity = 0]
  ELSE IF e.type = "ItemQuantityUpdated"
       THEN [x EXCEPT !.quantity = IF @ = 0 THEN 0 ELSE e.items[i].quantity]
  ELSE x

------------------------------------------------------------------------------
(* A line is put at the end of the list. *)
LEMMA AppendLists ==
  ASSUME NEW lines \in Seq(DetailLine), NEW j \in ItemIds, NEW q \in Nat \ {0},
         NEW i \in ItemIds, NEW x \in LineValues, ListsItem(lines, i, x),
         NEW after, after = Append(lines, [item_id |-> j, id |-> "None", quantity |-> q])
  PROVE  /\ after \in Seq(DetailLine)
         /\ ListsItem(after, i, IF i # j THEN x
                                ELSE [x EXCEPT !.quantity = IF @ = 0 THEN q ELSE @])
<1> DEFINE line == [item_id |-> j, id |-> "None", quantity |-> q]
           n == Len(lines)
           y == IF i # j THEN x ELSE [x EXCEPT !.quantity = IF @ = 0 THEN q ELSE @]
<1>1. line \in DetailLine /\ line.item_id = j /\ line.id = "None" /\ line.quantity = q
  BY DEF DetailLine
<1> HIDE DEF line
<1>2. /\ after \in Seq(DetailLine) /\ Len(after) = n + 1 /\ n \in Nat /\ after[n + 1] = line
      /\ \A k \in 1..n : after[k] = lines[k] /\ k \in 1..(n + 1)
      /\ \A k \in 1..(n + 1) : k \in 1..n \/ k = n + 1
      /\ n + 1 \in 1..(n + 1) /\ (n + 1) - 1 = n
  BY <1>1 DEF line
<1>3. \A k \in 1..n : lines[k].quantity \in Nat \ {0}
  BY DEF DetailLine
<1>4. x.original = (\E k \in 1..n : lines[k].id = i) /\ FirstLine(lines, i, x.quantity)
  BY DEF ListsItem
<1>5. /\ y.original = x.original /\ x.quantity \in Nat
      /\ y.quantity = IF i # j THEN x.quantity ELSE IF x.quantity = 0 THEN q ELSE x.quantity
  BY DEF LineValues
<1> HIDE DEF y, n
<1>6. (\E k \in 1..Len(after) : after[k].id = i) <=> (\E k \in 1..n : lines[k].id = i)
  BY <1>1, <1>2, OrderViewsAssumption
<1>7. FirstLine(after, i, y.quantity)
  <2>1. CASE \E k \in 1..n : /\ lines[k].item_id = i /\ lines[k].quantity = x.quantity
                             /\ \A m \in 1..(k - 1) : lines[m].item_id # i
    <3>1. PICK k \in 1..n : /\ lines[k].item_id = i /\ lines[k].quantity = x.quantity
                            /\ \A m \in 1..(k - 1) : lines[m].item_id # i
      BY <2>1
    <3>2. \A m \in 1..(k - 1) : m \in 1..n
      BY <1>2
    <3>3. /\ k \in 1..Len(after) /\ after[k].item_id = i /\ after[k].quantity = x.quantity
          /\ \A m \in 1..(k - 1) : after[m].item_id # i
      BY <1>2, <3>1, <3>2
    <3>4. y.quantity = x.quantity
      BY <1>3, <1>5, <3>1
    <3> QED  BY <3>3, <3>4 DEF FirstLine
  <2>2. CASE x.quantity = 0 /\ \A k \in 1..n : lines[k].item_id # i
    <3>1. CASE i # j
      <4>1. y.quantity = 0 /\ \A k \in 1..Len(after) : after[k].item_id # i
        BY <1>1, <1>2, <1>5, <2>2, <3>1
      <4> QED  BY <4>1 DEF FirstLine
    <3>2. CASE i = j
      <4>1. /\ y.quantity = q /\ n + 1 \in 1..Len(after)
            /\ after[n + 1].item_id = i /\ after[n + 1].quantity = q
        BY <1>1, <1>2, <1>5, <2>2, <3>2
      <4>2. \A m \in 1..((n + 1) - 1) : after[m].item_id # i
        BY <1>2, <2>2
      <4> QED  BY <4>1, <4>2 DEF FirstLine
    <3> QED  BY <3>1, <3>2
  <2> QED  BY <1>4, <2>1, <2>2 DEF FirstLine, n
<1>8. ListsItem(after, i, y)
  BY <1>4, <1>5, <1>6, <1>7 DEF ListsItem
<1> QED  BY <1>2, <1>8 DEF y

(* The lines of an item are taken from the list. *)
LEMMA KeepingLists ==
  ASSUME NEW lines \in Seq(DetailLine), NEW j \in ItemIds \cup {"unchanged"},
         NEW i \in ItemIds, NEW x \in LineValues, ListsItem(lines, i, x),
         NEW kept, kept = {k \in 1..Len(lines) : lines[k].item_id # j},
         NEW after, after = Keeping(lines, kept)
  PROVE  /\ after \in Seq(DetailLine)
         /\ ListsItem(after, i, IF i # j THEN x ELSE [x EXCEPT !.quantity = 0])
<1> DEFINE n == Len(lines)
           y == IF i # j THEN x ELSE [x EXCEPT !.quantity = 0]
<1> DEFINE g(k) == Nth(kept, k)
<1>k. kept \in SUBSET (1..Len(lines))
  OBVIOUS
<1>1. /\ Len(after) = Cardinality(kept) /\ Len(after) \in Nat
      /\ \A k \in 1..Len(after) : g(k) \in kept /\ after[k] = lines[g(k)]
      /\ \A k, m \in 1..Len(after) : k < m => g(k) < g(m)
      /\ \A k \in kept : \E m \in 1..Len(after) : g(m) = k
      /\ after \in Seq(DetailLine)
  <2> DEFINE m == Cardinality(kept)
  <2>1. /\ m \in Nat /\ after \in Seq(DetailLine) /\ Len(after) = m
        /\ \A k \in 1..m : Nth(kept, k) \in kept /\ after[k] = lines[Nth(kept, k)]
    BY <1>k, KeepingKeeps
  <2>2. kept \in SUBSET Nat /\ IsFiniteSet(kept)
    <3>1. IsFiniteSet(1..Len(lines)) /\ Len(lines) \in Nat
      BY FS_Interval
    <3> QED  BY <1>k, <3>1, FS_Subset
  <2>3. /\ \A k, l \in 1..m : k < l => Nth(kept, k) < Nth(kept, l)
        /\ \A k \in kept : \E l \in 1..m : Nth(kept, l) = k
    BY <2>2, NthInOrder
  <2> HIDE DEF m
  <2> QED  BY <2>1, <2>3 DEF m
<1>2. /\ \A k \in kept : k \in 1..n /\ lines[k].item_id # j
      /\ \A k \in 1..n : lines[k].item_id # j => k \in kept
      /\ n \in Nat
  OBVIOUS
<1>3. x.original = (\E k \in 1..n : lines[k].id = i) /\ FirstLine(lines, i, x.quantity)
  BY DEF ListsItem
<1>4. y.original = x.original /\ y.quantity = IF i # j THEN x.quantity ELSE 0
  BY DEF LineValues
<1>5. \A k \in 1..n : lines[k].id = i => lines[k].item_id = "None"
  BY OrderViewsAssumption DEF DetailLine
<1>0. j # "None"
  BY OrderViewsAssumption
<1> HIDE DEF n, y, g
<1>6. (\E k \in 1..Len(after) : after[k].id = i) <=> (\E k \in 1..n : lines[k].id = i)
  <2>1. ASSUME NEW k \in 1..n, lines[k].id = i PROVE \E m \in 1..Len(after) : after[m].id = i
    <3>1. k \in kept
      BY <1>0, <1>2, <1>5, <2>1
    <3>2. PICK m \in 1..Len(after) : g(m) = k
      BY <1>1, <3>1
    <3>3. after[m] = lines[k]
      BY <1>1, <3>2
    <3> QED  BY <2>1, <3>3
  <2>2. ASSUME NEW m \in 1..Len(after), after[m].id = i PROVE \E k \in 1..n : lines[k].id = i
    BY <1>1, <1>2, <2>2
  <2> QED  BY <2>1, <2>2
<1>7. FirstLine(after, i, y.quantity)
  <2>1. CASE i = j
    <3>1. y.quantity = 0 /\ \A k \in 1..Len(after) : after[k].item_id # i
      BY <1>1, <1>2, <1>4, <2>1
    <3> QED  BY <3>1 DEF FirstLine
  <2>2. CASE i # j /\ x.quantity = 0 /\ \A k \in 1..n : lines[k].item_id # i
    <3>1. y.quantity = 0
      BY <1>4, <2>2
    <3>2. ASSUME NEW k \in 1..Len(after) PROVE after[k].item_id # i
      <4>1. g(k) \in 1..n /\ after[k] = lines[g(k)]
        BY <1>1, <1>2
      <4> QED  BY <2>2, <4>1
    <3> QED  BY <3>1, <3>2 DEF FirstLine
  <2>3. CASE i # j /\ \E k \in 1..n : /\ lines[k].item_id = i /\ lines[k].quantity = x.quantity
                                      /\ \A m \in 1..(k - 1) : lines[m].item_id # i
    <3>1. PICK k \in 1..n : /\ lines[k].item_id = i /\ lines[k].quantity = x.quantity
                            /\ \A m \in 1..(k - 1) : lines[m].item_id # i
      BY <2>3
    <3>2. k \in kept
      BY <1>2, <2>3, <3>1
    <3>3. PICK l \in 1..Len(after) : g(l) = k
      BY <1>1, <3>2
    <3>4. after[l].item_id = i /\ after[l].quantity = x.quantity
      BY <1>1, <3>1, <3>3
    <3>5. ASSUME NEW m \in 1..(l - 1) PROVE after[m].item_id # i
      <4>1. m \in 1..Len(after) /\ m < l /\ l \in 1..Len(after)
        BY <1>2
      <4>2. g(m) < k /\ g(m) \in 1..n /\ after[m] = lines[g(m)]
        BY <1>1, <1>2, <3>3, <4>1
      <4>3. g(m) \in 1..(k - 1)
        BY <1>2, <4>2
      <4> QED  BY <3>1, <4>2, <4>3
    <3> QED  BY <1>4, <2>3, <3>4, <3>5 DEF FirstLine
  <2> QED  BY <1>3, <2>1, <2>2, <2>3 DEF FirstLine, n
<1>8. ListsItem(after, i, y)
  BY <1>3, <1>4, <1>6, <1>7 DEF ListsItem
<1> QED  BY <1>1, <1>8 DEF y

(* The quantity of the first line of an item is set. *)
LEMMA UpdateLists ==
  ASSUME NEW lines \in Seq(DetailLine), NEW j \in ItemIds \cup {"unchanged"}, NEW q,
         j \in ItemIds => q \in Nat \ {0},
         NEW i \in ItemIds, NEW x \in LineValues, ListsItem(lines, i, x),
         NEW after, after = [k \in 1..Len(lines) |-> IF k \in FirstOf(lines, j)
                                                     THEN [lines[k] EXCEPT !.quantity = q]
                                                     ELSE lines[k]]
  PROVE  /\ after \in Seq(DetailLine)
         /\ ListsItem(after, i, IF i # j THEN x
                                ELSE [x EXCEPT !.quantity = IF @ = 0 THEN 0 ELSE q])
<1> DEFINE n == Len(lines)
           y == IF i # j THEN x ELSE [x EXCEPT !.quantity = IF @ = 0 THEN 0 ELSE q]
<1>1. n \in Nat /\ \A k \in 1..n : lines[k] \in DetailLine
  OBVIOUS
<1>2. ASSUME NEW k \in 1..n
      PROVE  /\ after[k] \in DetailLine /\ after[k].item_id = lines[k].item_id
             /\ after[k].id = lines[k].id
             /\ k \in FirstOf(lines, j) => after[k].quantity = q
             /\ k \notin FirstOf(lines, j) => after[k] = lines[k]
  <2>1. CASE k \in FirstOf(lines, j)
    <3>1. lines[k].item_id = j
      BY <2>1 DEF FirstOf
    <3>2. j \in ItemIds /\ q \in Nat \ {0}
      BY <1>1, <3>1, OrderViewsAssumption DEF DetailLine
    <3>3. after[k] = [lines[k] EXCEPT !.quantity = q]
      BY <2>1
    <3>4. lines[k] \in [item_id : ItemIds, id : {"None"}, quantity : Nat \ {0}]
          \/ lines[k] \in [item_id : {"None"}, id : ItemIds, quantity : Nat \ {0}]
      BY <1>1 DEF DetailLine
    <3>5. /\ after[k] \in [item_id : ItemIds, id : {"None"}, quantity : Nat \ {0}]
             \/ after[k] \in [item_id : {"None"}, id : ItemIds, quantity : Nat \ {0}]
          /\ after[k].item_id = lines[k].item_id
          /\ after[k].id = lines[k].id
          /\ after[k].quantity = q
      BY <3>2, <3>3, <3>4
    <3> QED  BY <2>1, <3>5 DEF DetailLine
  <2>2. CASE k \notin FirstOf(lines, j)
    <3>1. after[k] = lines[k]
      BY <2>2
    <3> QED  BY <1>1, <2>2, <3>1
  <2> QED  BY <2>1, <2>2
<1>3. after \in Seq(DetailLine) /\ Len(after) = n
  <2>1. after = [k \in 1..n |-> after[k]]
    OBVIOUS
  <2>2. \A k \in 1..n : after[k] \in DetailLine
    BY <1>2
  <2> HIDE DEF n
  <2>3. after \in [1..n -> DetailLine]
    BY <2>1, <2>2
  <2> QED  BY <1>1, <2>3
<1>4. x.original = (\E k \in 1..n : lines[k].id = i) /\ FirstLine(lines, i, x.quantity)
  BY DEF ListsItem
<1>5. /\ y.original = x.original
      /\ y.quantity = IF i # j THEN x.quantity ELSE IF x.quantity = 0 THEN 0 ELSE q
  BY DEF LineValues
<1> HIDE DEF n, y
<1>6. (\E k \in 1..Len(after) : after[k].id = i) <=> (\E k \in 1..n : lines[k].id = i)
  BY <1>2, <1>3
<1>7. FirstLine(after, i, y.quantity)
  <2>1. CASE x.quantity = 0 /\ \A k \in 1..n : lines[k].item_id # i
    <3>1. y.quantity = 0 /\ \A k \in 1..Len(after) : after[k].item_id # i
      BY <1>2, <1>3, <1>5, <2>1
    <3> QED  BY <3>1 DEF FirstLine
  <2>2. CASE \E k \in 1..n : /\ lines[k].item_id = i /\ lines[k].quantity = x.quantity
                             /\ \A m \in 1..(k - 1) : lines[m].item_id # i
    <3>1. PICK k \in 1..n : /\ lines[k].item_id = i /\ lines[k].quantity = x.quantity
                            /\ \A m \in 1..(k - 1) : lines[m].item_id # i
      BY <2>2
    <3>2. \A m \in 1..(k - 1) : m \in 1..n
      BY <1>1
    <3>3. k \in 1..Len(after) /\ after[k].item_id = i /\ \A m \in 1..(k - 1) : after[m].item_id # i
      BY <1>2, <1>3, <3>1, <3>2
    <3>4. after[k].quantity = y.quantity
      <4>1. CASE i = j
        <5>1. k \in FirstOf(lines, j)
          BY <3>1, <4>1 DEF FirstOf, n
        <5>2. x.quantity # 0
          BY <1>1, <3>1 DEF DetailLine
        <5> QED  BY <1>2, <1>5, <4>1, <5>1, <5>2
      <4>2. CASE i # j
        <5>1. k \notin FirstOf(lines, j)
          BY <3>1, <4>2 DEF FirstOf
        <5> QED  BY <1>2, <1>5, <3>1, <4>2, <5>1
      <4> QED  BY <4>1, <4>2
    <3> QED  BY <3>3, <3>4 DEF FirstLine
  <2> QED  BY <1>4, <2>1, <2>2 DEF FirstLine, n
<1>8. ListsItem(after, i, y)
  BY <1>4, <1>5, <1>6, <1>7 DEF ListsItem
<1> QED  BY <1>3, <1>8 DEF y

------------------------------------------------------------------------------
(* What a command says of the order in the one event it raises.  An event  *)
(* of an item changes the line of that item alone.                         *)
NewStatus(t) == IF t \in DOMAIN StatusWritten THEN StatusWritten[t] ELSE status

LineChanges(t, j) ==
  /\ \A i \in ItemIds \ {j} : items'[i] = items[i]
  /\ t = "ItemAdded" => items[j] = NoItem /\ items'[j] # NoItem
  /\ t = "ItemRemoved" => items[j] # NoItem /\ items'[j] = NoItem
  /\ t = "ItemQuantityUpdated" => items[j] # NoItem /\ items'[j] # NoItem

LinesKept == \A i \in ItemIds : /\ items'[i] = NoItem <=> items[i] = NoItem
                                /\ items'[i].quantity = items[i].quantity

PaymentChanges(t) ==
  /\ t \notin PaymentEvents => payment' = payment
  /\ t = "PaymentPending" => payment'.status = "pending"
  /\ t = "PaymentSucceeded" => payment'.status = "succeeded"
  /\ t = "PaymentFailed" => payment' = [payment EXCEPT !.status = "failed"]

(* The statuses an event may come from, as far as the projections care.    *)
ComesFrom(t) ==
  /\ status \notin {"Completed", "Refunded"}
  /\ status = "Cancelled" => t = "OrderRefunded"
  /\ t = "OrderRefunded" => status \in {"Cancelled", "Returned"}
  /\ t = "OrderCancelled" => status \in CancellableStates
  /\ t \in ItemEvents \cup {"CouponApplied"} => status = "Created"
  /\ status = "Created" => t \in ItemEvents \cup {"CouponApplied", "OrderConfirmed",
                                                  "OrderCancelled", "PaymentFailed"}

PricingChanges(t) ==
  /\ t \notin ItemEvents => pricing' = pricing
  /\ t \in ItemEvents => pricing' = [subtotal |-> pricing'.subtotal, charges |-> pricing.charges,
                                     grand_total |-> pricing'.grand_total]

Says(t) ==
  /\ t \in EventType \ {"OrderCreated"}
  /\ raised' = <<t>>
  /\ status' = NewStatus(t)
  /\ PaymentChanges(t)
  /\ t \notin ShipmentEvents => shipment_id' = shipment_id
  /\ PricingChanges(t)
  /\ t \in ItemEvents => \E j \in ItemIds : LineChanges(t, j)
  /\ t \notin ItemEvents => LinesKept
  /\ ComesFrom(t)

(* Marking items leaves the quantities alone.                              *)
LEMMA MarkingKeeps ==
  ASSUME OrderInv, NEW ids, NEW s \in ItemStatus, items' = WithStatus(ids, s)
  PROVE  LinesKept
<1>1. ASSUME NEW i \in ItemIds
      PROVE  /\ items'[i] = NoItem <=> items[i] = NoItem
             /\ items'[i].quantity = items[i].quantity
  <2>1. items'[i] = NoItem <=> items[i] = NoItem
    BY MarkedItems DEF OrderInv
  <2>2. items[i] = NoItem \/ items[i] \in OrderItem
    BY DEF OrderInv, Shape
  <2>3. items'[i] = IF i \in ids /\ items[i] # NoItem
                    THEN [items[i] EXCEPT !.item_status = s] ELSE items[i]
    BY DEF WithStatus
  <2>4. ASSUME items[i] \in OrderItem
        PROVE  [items[i] EXCEPT !.item_status = s].quantity = items[i].quantity
    BY <2>4 DEF OrderItem
  <2> QED  BY <2>1, <2>2, <2>3, <2>4
<1> QED  BY <1>1 DEF LinesKept

(* A command that only moves the status.                                   *)
LEMMA MovingSays ==
  ASSUME NEW target, NEW t \in EventType \ {"OrderCreated"}, MoveTo(target, t),
         t \notin ItemEvents \cup PaymentEvents \cup ShipmentEvents,
         t \in DOMAIN StatusWritten, StatusWritten[t] = target, ComesFrom(t)
  PROVE  Says(t)
<1>1. LinesKept
  BY DEF MoveTo, LinesKept
<1>2. raised' = <<t>> /\ status' = NewStatus(t) /\ shipment_id' = shipment_id
      /\ pricing' = pricing /\ payment' = payment
  BY DEF MoveTo, Raise, NewStatus
<1>3. PaymentChanges(t) /\ PricingChanges(t)
  BY <1>2 DEF PaymentChanges, PricingChanges, PaymentEvents
<1> QED  BY <1>1, <1>2, <1>3 DEF Says

LEMMA StatusesWritten ==
  /\ DOMAIN StatusWritten = EventType \ {"ItemAdded", "ItemRemoved", "ItemQuantityUpdated",
                                         "CouponApplied"}
  /\ StatusWritten["OrderCreated"] = "Created" /\ StatusWritten["OrderConfirmed"] = "Confirmed"
  /\ StatusWritten["PaymentPending"] = "Payment_Pending"
  /\ StatusWritten["PaymentSucceeded"] = "Paid" /\ StatusWritten["PaymentFailed"] = "Confirmed"
  /\ StatusWritten["OrderProcessing"] = "Processing" /\ StatusWritten["OrderShipped"] = "Shipped"
  /\ StatusWritten["OrderPartiallyShipped"] = "Partially_Shipped"
  /\ StatusWritten["OrderDelivered"] = "Delivered" /\ StatusWritten["OrderCompleted"] = "Completed"
  /\ StatusWritten["ReturnRequested"] = "Return_Requested"
  /\ StatusWritten["ReturnApproved"] = "Return_Approved"
  /\ StatusWritten["OrderReturned"] = "Returned" /\ StatusWritten["OrderCancelled"] = "Cancelled"
  /\ StatusWritten["OrderRefunded"] = "Refunded"
<1>1. DOMAIN StatusWritten = EventType \ {"ItemAdded", "ItemRemoved", "ItemQuantityUpdated",
                                         "CouponApplied"}
  BY DEF StatusWritten, EventType
<1>2. /\ StatusWritten["OrderCreated"] = "Created" /\ StatusWritten["OrderConfirmed"] = "Confirmed"
      /\ StatusWritten["PaymentPending"] = "Payment_Pending"
      /\ StatusWritten["PaymentSucceeded"] = "Paid" /\ StatusWritten["PaymentFailed"] = "Confirmed"
      /\ StatusWritten["OrderProcessing"] = "Processing"
      /\ StatusWritten["OrderShipped"] = "Shipped"
  BY DEF StatusWritten
<1>3. /\ StatusWritten["OrderPartiallyShipped"] = "Partially_Shipped"
      /\ StatusWritten["OrderDelivered"] = "Delivered"
      /\ StatusWritten["OrderCompleted"] = "Completed"
      /\ StatusWritten["ReturnRequested"] = "Return_Requested"
      /\ StatusWritten["ReturnApproved"] = "Return_Approved"
      /\ StatusWritten["OrderReturned"] = "Returned" /\ StatusWritten["OrderCancelled"] = "Cancelled"
      /\ StatusWritten["OrderRefunded"] = "Refunded"
  BY DEF StatusWritten
<1> QED  BY <1>1, <1>2, <1>3

(* A command that changes the line of one item.                            *)
LEMMA ModifyingSays ==
  ASSUME status = "Created", NEW j \in ItemIds, NEW lines, NEW t \in ItemEvents,
         Modify(lines, t), LineChanges(t, j)
  PROVE  Says(t)
<1>1. t \in EventType \ {"OrderCreated"} /\ t \notin PaymentEvents \cup ShipmentEvents
      /\ t \notin DOMAIN StatusWritten /\ t \notin {"OrderRefunded", "OrderCancelled"}
  BY StatusesWritten DEF ItemEvents, EventType, PaymentEvents, ShipmentEvents
<1>2. /\ raised' = <<t>> /\ UNCHANGED <<status, payment, shipment_id>>
      /\ pricing' = calculate_pricing(lines)
  BY DEF Modify, Raise
<1>3. status' = NewStatus(t)
  BY <1>1, <1>2 DEF NewStatus
<1>4. PaymentChanges(t)
  BY <1>1, <1>2 DEF PaymentChanges, PaymentEvents
<1>5. PricingChanges(t)
  BY <1>2 DEF PricingChanges, calculate_pricing
<1>6. ComesFrom(t)
  BY <1>1 DEF ComesFrom
<1> QED  BY <1>1, <1>2, <1>3, <1>4, <1>5, <1>6 DEF Says

(* A command that settles, awaits or fails a payment.                      *)
LEMMA PayingSays ==
  ASSUME NEW t \in PaymentEvents, raised' = <<t>>, status' = NewStatus(t),
         UNCHANGED <<items, pricing, shipment_id>>, PaymentChanges(t), ComesFrom(t)
  PROVE  Says(t)
<1>1. t \in EventType \ {"OrderCreated"} /\ t \notin ItemEvents \cup ShipmentEvents
  BY DEF ItemEvents, EventType, PaymentEvents, ShipmentEvents
<1>2. LinesKept /\ PricingChanges(t)
  BY <1>1 DEF LinesKept, PricingChanges
<1> QED  BY <1>1, <1>2 DEF Says

(* A command that marks items.                                             *)
LEMMA MarkingSays ==
  ASSUME OrderInv, NEW ids, NEW s \in ItemStatus, items' = WithStatus(ids, s),
         NEW t \in {"OrderShipped", "OrderPartiallyShipped", "OrderDelivered", "OrderReturned"},
         raised' = <<t>>, status' = NewStatus(t), UNCHANGED <<pricing, payment>>,
         t \notin ShipmentEvents => shipment_id' = shipment_id, ComesFrom(t)
  PROVE  Says(t)
<1>1. t \in EventType \ {"OrderCreated"} /\ t \notin ItemEvents \cup PaymentEvents
  BY DEF ItemEvents, EventType, PaymentEvents, ShipmentEvents
<1>2. LinesKept
  BY MarkingKeeps
<1>3. PricingChanges(t) /\ PaymentChanges(t)
  BY <1>1 DEF PaymentChanges, PaymentEvents, PricingChanges
<1> QED  BY <1>1, <1>2, <1>3 DEF Says

LEMMA ModificationSays ==
  ASSUME OrderInv, Modification
  PROVE  \E t \in EventType : Says(t)
<1>l. ItemEvents \subseteq EventType
  BY DEF ItemEvents, EventType
<1>i. items = [i \in ItemIds |-> items[i]]
  BY DEF OrderInv, Shape
<1>n. \A line \in OrderItem : line # NoItem
  BY DEF OrderItem, NoItem, ItemStatus
<1>1. CASE AddItem
  <2>1. PICK i \in ItemIds, quantity \in Quantities, unit_price \in UnitPrices :
          add_item(i, quantity, unit_price)
    BY <1>1 DEF AddItem
  <2> DEFINE line == [quantity |-> quantity, unit_price |-> unit_price,
                      discount |-> 0, item_status |-> "Pending"]
             lines == [items EXCEPT ![i] = line]
  <2>2. line \in OrderItem
    BY OrderAssumption DEF OrderItem, ItemStatus
  <2>3. status = "Created" /\ items[i] = NoItem /\ Modify(lines, "ItemAdded")
    BY <2>1 DEF add_item, Created
  <2> HIDE DEF line
  <2>4. LineChanges("ItemAdded", i)
    <3>1. items' = lines
      BY <2>3 DEF Modify
    <3>2. items'[i] = line /\ \A j \in ItemIds \ {i} : items'[j] = items[j]
      BY <1>i, <3>1
    <3> QED  BY <1>n, <2>2, <2>3, <3>2 DEF LineChanges
  <2> HIDE DEF lines
  <2>5. Says("ItemAdded")
    BY <2>3, <2>4, ModifyingSays DEF ItemEvents
  <2> QED  BY <1>l, <2>5 DEF ItemEvents
<1>2. CASE RemoveItem
  <2>1. PICK i \in ItemIds : remove_item(i)
    BY <1>2 DEF RemoveItem
  <2> DEFINE lines == [items EXCEPT ![i] = NoItem]
  <2>2. status = "Created" /\ items[i] # NoItem /\ Modify(lines, "ItemRemoved")
    BY <2>1 DEF remove_item, Created
  <2>3. LineChanges("ItemRemoved", i)
    <3>1. items' = lines
      BY <2>2 DEF Modify
    <3>2. items'[i] = NoItem /\ \A j \in ItemIds \ {i} : items'[j] = items[j]
      BY <1>i, <3>1
    <3> QED  BY <2>2, <3>2 DEF LineChanges
  <2> HIDE DEF lines
  <2>4. Says("ItemRemoved")
    BY <2>2, <2>3, ModifyingSays DEF ItemEvents
  <2> QED  BY <1>l, <2>4 DEF ItemEvents
<1>3. CASE UpdateItemQuantity
  <2>1. PICK i \in ItemIds, new_quantity \in Quantities :
          update_item_quantity(i, new_quantity)
    BY <1>3 DEF UpdateItemQuantity
  <2> DEFINE lines == [items EXCEPT ![i].quantity = new_quantity]
  <2>2. /\ status = "Created" /\ items[i] # NoItem /\ Modify(lines, "ItemQuantityUpdated")
    BY <2>1 DEF update_item_quantity, Created
  <2>3. LineChanges("ItemQuantityUpdated", i)
    <3>1. items' = lines
      BY <2>2 DEF Modify
    <3>2. items'[i] = [items[i] EXCEPT !.quantity = new_quantity]
          /\ \A j \in ItemIds \ {i} : items'[j] = items[j]
      BY <1>i, <3>1
    <3>3. items[i] \in OrderItem
      BY <2>2 DEF OrderInv, Shape
    <3>4. [items[i] EXCEPT !.quantity = new_quantity] \in OrderItem
      BY <3>3, OrderAssumption DEF OrderItem
    <3> QED  BY <1>n, <2>2, <3>2, <3>4 DEF LineChanges
  <2> HIDE DEF lines
  <2>4. Says("ItemQuantityUpdated")
    BY <2>2, <2>3, ModifyingSays DEF ItemEvents
  <2> QED  BY <1>l, <2>4 DEF ItemEvents
<1>4. CASE ApplyCoupon
  <2>1. /\ status = "Created" /\ raised' = <<"CouponApplied">>
        /\ UNCHANGED <<status, items, pricing, payment, shipment_id>>
    BY <1>4 DEF ApplyCoupon, apply_coupon, Created, Raise
  <2>2. /\ "CouponApplied" \notin DOMAIN StatusWritten /\ "CouponApplied" \in EventType
        /\ "CouponApplied" \notin ItemEvents /\ "CouponApplied" \notin PaymentEvents
    BY StatusesWritten DEF ItemEvents, PaymentEvents, EventType
  <2>3. /\ PaymentChanges("CouponApplied") /\ PricingChanges("CouponApplied") /\ LinesKept
        /\ status' = NewStatus("CouponApplied") /\ ComesFrom("CouponApplied")
    BY <2>1, <2>2 DEF PaymentChanges, PricingChanges, LinesKept, NewStatus, ComesFrom
  <2> QED  BY <2>1, <2>2, <2>3 DEF Says
<1> QED  BY <1>1, <1>2, <1>3, <1>4 DEF Modification

(* Every command that is not a no-op says in its event what it did.        *)
LEMMA CommandSays ==
  ASSUME OrderInv, Next
  PROVE  Ignore \/ \E t \in EventType : Says(t)
<1>s. status \in OrderStatus /\ payment.id \in PaymentIds \cup {"None"}
      /\ shipment_id \in ShipmentIds \cup {"None"}
  BY DEF OrderInv, Shape
<1>e. PaymentEvents \subseteq EventType
      /\ {"OrderShipped", "OrderPartiallyShipped", "OrderDelivered", "OrderReturned"}
         \subseteq EventType
      /\ {"OrderConfirmed", "OrderProcessing", "OrderCompleted", "ReturnRequested",
          "ReturnApproved", "OrderCancelled", "OrderRefunded"} \subseteq EventType
  BY DEF PaymentEvents, EventType
<1>m. \A t \in {"OrderConfirmed", "OrderProcessing", "OrderCompleted", "ReturnRequested",
                 "ReturnApproved", "OrderCancelled", "OrderRefunded"} :
        /\ t \in EventType \ {"OrderCreated"} /\ t \in DOMAIN StatusWritten
        /\ t \notin ItemEvents \cup PaymentEvents \cup ShipmentEvents
  BY StatusesWritten DEF ItemEvents, PaymentEvents, ShipmentEvents, EventType
<1>1. CASE Modification
  BY <1>1, ModificationSays
<1>2. CASE ConfirmOrder
  <2>1. MoveTo("Confirmed", "OrderConfirmed") /\ status \in {"Created", "Payment_Pending"}
    BY <1>2, <1>s, Sources DEF ConfirmOrder, confirm
  <2>2. ComesFrom("OrderConfirmed")
    BY <2>1 DEF ComesFrom, ItemEvents
  <2>3. Says("OrderConfirmed")
    BY <1>m, <2>1, <2>2, MovingSays, StatusesWritten
  <2> QED  BY <1>e, <2>3
<1>3. CASE RecordPaymentPending
  <2>1. PICK p \in PaymentIds : record_payment_pending(p)
    BY <1>3 DEF RecordPaymentPending
  <2>2. CASE /\ CanTransition("Payment_Pending") /\ status' = "Payment_Pending"
             /\ payment' = [id |-> p, status |-> "pending"] /\ Raise("PaymentPending")
             /\ UNCHANGED <<items, pricing, shipment_id>>
    <3>1. status = "Confirmed" /\ raised' = <<"PaymentPending">>
          /\ status' = NewStatus("PaymentPending")
      BY <1>s, <2>2, Sources, StatusesWritten DEF Raise, NewStatus, EventType
    <3>2. PaymentChanges("PaymentPending") /\ ComesFrom("PaymentPending")
      BY <2>2, <3>1 DEF PaymentChanges, ComesFrom, PaymentEvents, ItemEvents
    <3>3. Says("PaymentPending")
      BY <2>2, <3>1, <3>2, PayingSays DEF PaymentEvents
    <3> QED  BY <1>e, <3>3 DEF PaymentEvents
  <2> QED  BY <2>1, <2>2 DEF record_payment_pending
<1>4. CASE RecordPaymentSuccess
  <2>1. PICK p \in PaymentIds : record_payment_success(p)
    BY <1>4 DEF RecordPaymentSuccess
  <2>2. CASE /\ CanTransition("Paid") /\ status' = "Paid"
             /\ payment' = [id |-> p, status |-> "succeeded"] /\ Raise("PaymentSucceeded")
             /\ UNCHANGED <<items, pricing, shipment_id>>
    <3>1. status = "Payment_Pending" /\ raised' = <<"PaymentSucceeded">>
          /\ status' = NewStatus("PaymentSucceeded")
      BY <1>s, <2>2, Sources, StatusesWritten DEF Raise, NewStatus, EventType
    <3>2. PaymentChanges("PaymentSucceeded") /\ ComesFrom("PaymentSucceeded")
      BY <2>2, <3>1 DEF PaymentChanges, ComesFrom, PaymentEvents, ItemEvents
    <3>3. Says("PaymentSucceeded")
      BY <2>2, <3>1, <3>2, PayingSays DEF PaymentEvents
    <3> QED  BY <1>e, <3>3 DEF PaymentEvents
  <2> QED  BY <2>1, <2>2 DEF record_payment_success
<1>5. CASE RecordPaymentFailure
  <2>1. PICK p \in PaymentIds : record_payment_failure(p)
    BY <1>5 DEF RecordPaymentFailure
  <2>2. CASE /\ CanTransition("Confirmed") /\ status' = "Confirmed"
             /\ payment' = [payment EXCEPT !.status = "failed"] /\ Raise("PaymentFailed")
             /\ UNCHANGED <<items, pricing, shipment_id>>
    <3>1. status \in {"Created", "Payment_Pending"} /\ raised' = <<"PaymentFailed">>
          /\ status' = NewStatus("PaymentFailed")
      BY <1>s, <2>2, Sources, StatusesWritten DEF Raise, NewStatus, EventType
    <3>2. PaymentChanges("PaymentFailed") /\ ComesFrom("PaymentFailed")
      BY <2>2, <3>1 DEF PaymentChanges, ComesFrom, PaymentEvents, ItemEvents
    <3>3. Says("PaymentFailed")
      BY <2>2, <3>1, <3>2, PayingSays DEF PaymentEvents
    <3> QED  BY <1>e, <3>3 DEF PaymentEvents
  <2> QED  BY <2>1, <2>2 DEF record_payment_failure
<1>6. CASE MarkProcessing
  <2>1. MoveTo("Processing", "OrderProcessing") /\ status = "Paid"
    BY <1>6, <1>s, Sources DEF MarkProcessing, mark_processing
  <2>2. ComesFrom("OrderProcessing")
    BY <2>1 DEF ComesFrom, ItemEvents
  <2>3. Says("OrderProcessing")
    BY <1>m, <2>1, <2>2, MovingSays, StatusesWritten
  <2> QED  BY <1>e, <2>3
<1>7. CASE RecordShipment
  <2>1. PICK shipment \in ShipmentIds : record_shipment(shipment)
    BY <1>7 DEF RecordShipment
  <2>2. /\ raised' = <<"OrderShipped">> /\ status' = NewStatus("OrderShipped")
        /\ items' = WithStatus(ItemIds, "Shipped") /\ UNCHANGED <<pricing, payment>>
        /\ status \in {"Paid", "Processing", "Partially_Shipped"}
    BY <2>1, StatusesWritten DEF record_shipment, Raise, NewStatus, EventType
  <2>3. ComesFrom("OrderShipped") /\ "OrderShipped" \in ShipmentEvents
    BY <2>2 DEF ComesFrom, ShipmentEvents, ItemEvents
  <2>4. Says("OrderShipped")
    BY <2>2, <2>3, MarkingSays DEF ItemStatus
  <2> QED  BY <1>e, <2>4
<1>8. CASE RecordPartialShipment
  <2>1. PICK shipment \in ShipmentIds, ids \in SUBSET ItemIds \ {{}} :
          record_partial_shipment(shipment, ids)
    BY <1>8 DEF RecordPartialShipment
  <2>2. /\ raised' = <<"OrderPartiallyShipped">> /\ status' = NewStatus("OrderPartiallyShipped")
        /\ items' = WithStatus(ids, "Shipped") /\ UNCHANGED <<pricing, payment>>
        /\ status = "Processing"
    BY <2>1, StatusesWritten DEF record_partial_shipment, Raise, NewStatus, EventType
  <2>3. ComesFrom("OrderPartiallyShipped") /\ "OrderPartiallyShipped" \in ShipmentEvents
    BY <2>2 DEF ComesFrom, ShipmentEvents, ItemEvents
  <2>4. Says("OrderPartiallyShipped")
    BY <2>2, <2>3, MarkingSays DEF ItemStatus
  <2> QED  BY <1>e, <2>4
<1>9. CASE RecordDelivery
  <2>2. /\ raised' = <<"OrderDelivered">> /\ status' = NewStatus("OrderDelivered")
        /\ items' = WithStatus(ItemIds, "Delivered") /\ UNCHANGED <<pricing, payment, shipment_id>>
        /\ status = "Shipped"
    BY <1>9, <1>s, Sources, StatusesWritten
       DEF RecordDelivery, record_delivery, Raise, NewStatus, EventType
  <2>3. ComesFrom("OrderDelivered")
    BY <2>2 DEF ComesFrom, ItemEvents
  <2>4. Says("OrderDelivered")
    BY <2>2, <2>3, MarkingSays DEF ItemStatus
  <2> QED  BY <1>e, <2>4
<1>10. CASE RequestReturn
  <2>1. MoveTo("Return_Requested", "ReturnRequested") /\ status = "Delivered"
    BY <1>10, <1>s, Sources DEF RequestReturn, request_return
  <2>2. ComesFrom("ReturnRequested")
    BY <2>1 DEF ComesFrom, ItemEvents
  <2>3. Says("ReturnRequested")
    BY <1>m, <2>1, <2>2, MovingSays, StatusesWritten
  <2> QED  BY <1>e, <2>3
<1>11. CASE ApproveReturn
  <2>1. MoveTo("Return_Approved", "ReturnApproved") /\ status = "Return_Requested"
    BY <1>11, <1>s, Sources DEF ApproveReturn, approve_return
  <2>2. ComesFrom("ReturnApproved")
    BY <2>1 DEF ComesFrom, ItemEvents
  <2>3. Says("ReturnApproved")
    BY <1>m, <2>1, <2>2, MovingSays, StatusesWritten
  <2> QED  BY <1>e, <2>3
<1>12. CASE RecordReturn
  <2>1. PICK ids \in SUBSET ItemIds : record_return(ids)
    BY <1>12 DEF RecordReturn
  <2> DEFINE marked == IF ids = {} THEN ItemIds ELSE ids
  <2>2. /\ raised' = <<"OrderReturned">> /\ status' = NewStatus("OrderReturned")
        /\ items' = WithStatus(marked, "Returned") /\ UNCHANGED <<pricing, payment, shipment_id>>
        /\ status = "Return_Approved"
    BY <1>s, <2>1, Sources, StatusesWritten DEF record_return, Raise, NewStatus, EventType
  <2> HIDE DEF marked
  <2>3. ComesFrom("OrderReturned")
    BY <2>2 DEF ComesFrom, ItemEvents
  <2>4. Says("OrderReturned")
    BY <2>2, <2>3, MarkingSays DEF ItemStatus
  <2> QED  BY <1>e, <2>4
<1>13. CASE CompleteOrder
  <2>1. MoveTo("Completed", "OrderCompleted") /\ status = "Delivered"
    BY <1>13, <1>s, Sources DEF CompleteOrder, complete
  <2>2. ComesFrom("OrderCompleted")
    BY <2>1 DEF ComesFrom, ItemEvents
  <2>3. Says("OrderCompleted")
    BY <1>m, <2>1, <2>2, MovingSays, StatusesWritten
  <2> QED  BY <1>e, <2>3
<1>14. CASE CancelOrder
  <2>1. CASE MoveTo("Cancelled", "OrderCancelled") /\ status \in CancellableStates
    <3>1. ComesFrom("OrderCancelled")
      BY <2>1 DEF ComesFrom, CancellableStates, ItemEvents
    <3>2. Says("OrderCancelled")
      BY <1>m, <2>1, <3>1, MovingSays, StatusesWritten
    <3> QED  BY <1>e, <3>2
  <2> QED  BY <1>14, <2>1 DEF CancelOrder, cancel
<1>15. CASE RefundOrder
  <2>1. CASE MoveTo("Refunded", "OrderRefunded") /\ status \in {"Cancelled", "Returned"}
    <3>1. ComesFrom("OrderRefunded")
      BY <2>1 DEF ComesFrom, ItemEvents
    <3>2. Says("OrderRefunded")
      BY <1>m, <2>1, <3>1, MovingSays, StatusesWritten
    <3> QED  BY <1>e, <3>2
  <2> QED  BY <1>15, <2>1 DEF RefundOrder, refund
<1> QED
  BY <1>1, <1>2, <1>3, <1>4, <1>5, <1>6, <1>7, <1>8, <1>9, <1>10, <1>11, <1>12, <1>13,
     <1>14, <1>15 DEF Next, Payment, Fulfillment, Returns, Closing

------------------------------------------------------------------------------
(* Reading an event.                                                       *)
FacetNames == {"status", "payment", "shipment", "subtotal", "grand_total", "count", "open",
               "created", "completed", "cancelled", "refunded"}

LEMMA ReadIs ==
  ASSUME NEW x, NEW e
  PROVE  /\ Read("status", x, e) = StatusRead(x, e)
         /\ Read("payment", x, e) = PaymentRead(x, e)
         /\ Read("shipment", x, e) = ShipmentRead(x, e)
         /\ Read("subtotal", x, e) = SubtotalRead(x, e)
         /\ Read("grand_total", x, e) = GrandTotalRead(x, e)
         /\ Read("count", x, e) = CountRead(x, e)
         /\ Read("open", x, e) = OpenRead(x, e)
         /\ Read("created", x, e) = Counted(x, e, "OrderCreated")
         /\ Read("completed", x, e) = Counted(x, e, "OrderCompleted")
         /\ Read("cancelled", x, e) = Counted(x, e, "OrderCancelled")
         /\ Read("refunded", x, e) = Counted(x, e, "OrderRefunded")
  BY Zenon DEF Read

LEMMA ValuesAre ==
  ASSUME NEW P
  PROVE  /\ Values("status", P) = OrderStatus
         /\ Values("payment", P) = PaymentRecords
         /\ Values("shipment", P) = ShipmentIds \cup {"None"}
         /\ Values("subtotal", P) = P /\ Values("grand_total", P) = P
         /\ Values("count", P) = Nat /\ Values("created", P) = Nat
         /\ Values("completed", P) = Nat /\ Values("cancelled", P) = Nat
         /\ Values("refunded", P) = Nat
         /\ Values("open", P) = {"Created", "None"}
  BY Zenon DEF Values, Summed

LEMMA PartIs ==
  ASSUME NEW r
  PROVE  /\ Part("status", r) = r.status /\ Part("open", r) = r.status
         /\ Part("payment", r) = r.payment /\ Part("shipment", r) = r.shipment_id
         /\ Part("subtotal", r) = r.subtotal /\ Part("grand_total", r) = r.grand_total
         /\ Part("count", r) = r.item_count /\ Part("created", r) = r.created
         /\ Part("completed", r) = r.completed /\ Part("cancelled", r) = r.cancelled
         /\ Part("refunded", r) = r.refunded
  BY Zenon DEF Part

(* A set of items has a size.                                              *)
LEMMA LinesCounted ==
  ASSUME NEW lines
  PROVE  IsFiniteSet(Lines(lines)) /\ Cardinality(Lines(lines)) \in Nat
<1>1. Lines(lines) \in SUBSET ItemIds /\ IsFiniteSet(ItemIds)
  BY OrderViewsAssumption DEF Lines
<1>2. IsFiniteSet(Lines(lines))
  BY <1>1, FS_Subset
<1> QED  BY <1>2, FS_CardinalityType

LEMMA ReadTyped ==
  ASSUME NEW P, NEW f \in FacetNames, NEW x \in Values(f, P), NEW e \in OrderEvents(P)
  PROVE  Read(f, x, e) \in Values(f, P)
<1>e. /\ e.type \in EventType /\ e.pricing \in Prices(P) /\ e.payment \in PaymentRecords
      /\ e.shipment_id \in ShipmentIds \cup {"None"}
  BY DEF OrderEvents
<1>1. CASE f = "status"
  <2>1. x \in OrderStatus
    BY <1>1, ValuesAre
  <2>2. \A t \in DOMAIN StatusWritten : StatusWritten[t] \in OrderStatus
    BY StatusesWritten DEF OrderStatus, EventType
  <2>3. StatusRead(x, e) \in OrderStatus
    BY <2>1, <2>2 DEF StatusRead
  <2> QED  BY <1>1, <2>3, ReadIs, ValuesAre
<1>2. CASE f = "payment"
  <2>1. x \in PaymentRecords
    BY <1>2, ValuesAre
  <2>2. [x EXCEPT !.status = "failed"] \in PaymentRecords
    BY <2>1 DEF PaymentRecords
  <2>3. PaymentRead(x, e) \in PaymentRecords
    BY <1>e, <2>1, <2>2 DEF PaymentRead
  <2> QED  BY <1>2, <2>3, ReadIs, ValuesAre
<1>3. CASE f = "shipment"
  <2>1. x \in ShipmentIds \cup {"None"}
    BY <1>3, ValuesAre
  <2>2. ShipmentRead(x, e) \in ShipmentIds \cup {"None"}
    BY <1>e, <2>1 DEF ShipmentRead
  <2> QED  BY <1>3, <2>2, ReadIs, ValuesAre
<1>4. CASE f \in {"subtotal", "grand_total"}
  <2>1. x \in P
    BY <1>4, ValuesAre
  <2>2. e.pricing.subtotal \in P /\ e.pricing.grand_total \in P
    BY <1>e DEF Prices
  <2>3. SubtotalRead(x, e) \in P /\ GrandTotalRead(x, e) \in P
    BY <2>1, <2>2 DEF SubtotalRead, GrandTotalRead
  <2> QED  BY <1>4, <2>3, ReadIs, ValuesAre
<1>5. CASE f = "count"
  <2>1. x \in Nat
    BY <1>5, ValuesAre
  <2>2. Cardinality(Lines(e.items)) \in Nat
    BY LinesCounted
  <2>3. CountRead(x, e) \in Nat
    BY <2>1, <2>2 DEF CountRead
  <2> QED  BY <1>5, <2>3, ReadIs, ValuesAre
<1>6. CASE f = "open"
  <2>1. x \in {"Created", "None"}
    BY <1>6, ValuesAre
  <2>2. OpenRead(x, e) \in {"Created", "None"}
    BY <2>1 DEF OpenRead
  <2> QED  BY <1>6, <2>2, ReadIs, ValuesAre
<1>7. CASE f \in {"created", "completed", "cancelled", "refunded"}
  <2>1. x \in Nat
    BY <1>7, ValuesAre
  <2>2. \A t : Counted(x, e, t) \in Nat
    BY <2>1 DEF Counted
  <2>3. \/ f = "created" \/ f = "completed" \/ f = "cancelled" \/ f = "refunded"
    BY <1>7
  <2> QED  BY <2>2, <2>3, ReadIs, ValuesAre
<1> QED  BY <1>1, <1>2, <1>3, <1>4, <1>5, <1>6, <1>7 DEF FacetNames

(* A facet that is copied is the same after the event was read twice.      *)
LEMMA ReadTwice ==
  ASSUME NEW P, NEW f \in FacetNames \ Summed, NEW x \in Values(f, P), NEW e
  PROVE  Read(f, Read(f, x, e), e) = Read(f, x, e)
<1>1. f \in {"status", "payment", "shipment", "subtotal", "grand_total", "open"}
  BY DEF FacetNames, Summed
<1>2. CASE f = "status"
  BY <1>2, ReadIs DEF StatusRead
<1>3. CASE f = "payment"
  <2>1. x \in PaymentRecords
    BY <1>3, ValuesAre
  <2>2. [[x EXCEPT !.status = "failed"] EXCEPT !.status = "failed"] = [x EXCEPT !.status = "failed"]
    BY <2>1 DEF PaymentRecords
  <2>3. PaymentRead(PaymentRead(x, e), e) = PaymentRead(x, e)
    BY <2>2 DEF PaymentRead
  <2> QED  BY <1>3, <2>3, ReadIs
<1>4. CASE f = "shipment"
  BY <1>4, ReadIs DEF ShipmentRead
<1>5. CASE f = "subtotal"
  BY <1>5, ReadIs DEF SubtotalRead
<1>6. CASE f = "grand_total"
  BY <1>6, ReadIs DEF GrandTotalRead
<1>7. CASE f = "open"
  BY <1>7, ReadIs DEF OpenRead
<1> QED  BY <1>1, <1>2, <1>3, <1>4, <1>5, <1>6, <1>7

(* The rows of the projections, one at a time.                             *)
LEMMA DetailProjected ==
  ASSUME NEW P, NEW r, NEW e \in OrderEvents(P), NEW after, after = on_order_detail(r, e),
         \/ e.type = "OrderCreated"
         \/ r.payment \in PaymentRecords
  PROVE  /\ after = [status |-> after.status, items |-> after.items,
                     subtotal |-> after.subtotal, grand_total |-> after.grand_total,
                     payment |-> after.payment, shipment_id |-> after.shipment_id]
         /\ after.payment \in PaymentRecords
         /\ after.status = StatusRead(r.status, e)
         /\ after.payment = PaymentRead(r.payment, e)
         /\ after.shipment_id = ShipmentRead(r.shipment_id, e)
         /\ after.subtotal = SubtotalRead(r.subtotal, e)
         /\ after.grand_total = GrandTotalRead(r.grand_total, e)
         /\ e.type # "OrderCreated" => after.items = DetailLines(r, e)
<1>1. CASE e.type = "OrderCreated"
  <2>1. after = [status |-> "Created", payment |-> e.payment, shipment_id |-> "None",
                 items |-> after.items, subtotal |-> e.pricing.subtotal,
                 grand_total |-> e.pricing.grand_total]
    BY <1>1 DEF on_order_detail
  <2>2. /\ after.status = "Created" /\ after.payment = e.payment /\ after.shipment_id = "None"
        /\ after.subtotal = e.pricing.subtotal /\ after.grand_total = e.pricing.grand_total
    BY <2>1
  <2>3. e.payment \in PaymentRecords
    BY DEF OrderEvents
  <2>4. StatusRead(r.status, e) = "Created"
    BY <1>1, StatusesWritten DEF StatusRead, EventType
  <2> QED
    BY <1>1, <2>1, <2>2, <2>3, <2>4
       DEF PaymentRead, ShipmentRead, SubtotalRead, GrandTotalRead, Priced
<1>2. CASE e.type # "OrderCreated"
  <2> DEFINE paid == IF e.type = "PaymentFailed" THEN [r.payment EXCEPT !.status = "failed"]
                     ELSE IF e.type \in PaymentEvents THEN e.payment ELSE r.payment
             shipped == IF e.type \in ShipmentEvents THEN e.shipment_id ELSE r.shipment_id
             sub == IF e.type \in ItemEvents THEN e.pricing.subtotal ELSE r.subtotal
             grand == IF e.type \in ItemEvents THEN e.pricing.grand_total ELSE r.grand_total
  <2>1. after = [status |-> StatusAfter(r, e), items |-> DetailLines(r, e), subtotal |-> sub,
                 grand_total |-> grand, payment |-> paid, shipment_id |-> shipped]
    BY <1>2 DEF on_order_detail
  <2> HIDE DEF paid, shipped, sub, grand
  <2>2. /\ after.status = StatusAfter(r, e) /\ after.payment = paid
        /\ after.shipment_id = shipped /\ after.items = DetailLines(r, e)
        /\ after.subtotal = sub /\ after.grand_total = grand
    BY <2>1
  <2>3. paid \in PaymentRecords
    <3>1. e.payment \in PaymentRecords
      BY DEF OrderEvents
    <3>2. [r.payment EXCEPT !.status = "failed"] \in PaymentRecords
      BY <1>2 DEF PaymentRecords
    <3> QED  BY <1>2, <3>1, <3>2 DEF paid
  <2>4. StatusAfter(r, e) = StatusRead(r.status, e)
    BY DEF StatusAfter, StatusRead
  <2>5. paid = PaymentRead(r.payment, e)
    BY <1>2 DEF paid, PaymentRead
  <2>6. shipped = ShipmentRead(r.shipment_id, e)
    BY <1>2 DEF shipped, ShipmentRead
  <2>7. sub = SubtotalRead(r.subtotal, e) /\ grand = GrandTotalRead(r.grand_total, e)
    BY <1>2 DEF sub, grand, SubtotalRead, GrandTotalRead, Priced
  <2> QED  BY <1>2, <2>1, <2>2, <2>3, <2>4, <2>5, <2>6, <2>7
<1> QED  BY <1>1, <1>2

LEMMA SummaryProjected ==
  ASSUME NEW r, NEW e, NEW after, after = on_order_summary(r, e)
  PROVE  /\ after = [status |-> after.status, item_count |-> after.item_count,
                     grand_total |-> after.grand_total]
         /\ after.status = StatusRead(r.status, e)
         /\ after.item_count = CountRead(r.item_count, e)
         /\ after.grand_total = GrandTotalRead(r.grand_total, e)
<1>1. CASE e.type = "OrderCreated"
  <2>1. StatusRead(r.status, e) = "Created"
    BY <1>1, StatusesWritten DEF StatusRead, EventType
  <2> QED  BY <1>1, <2>1 DEF on_order_summary, CountRead, GrandTotalRead, Priced
<1>2. CASE e.type # "OrderCreated"
  <2>1. /\ StatusAfter(r, e) = StatusRead(r.status, e)
        /\ CountAfter(r, e) = CountRead(r.item_count, e)
    BY <1>2 DEF StatusAfter, StatusRead, CountAfter, CountRead
  <2> QED  BY <1>2, <2>1 DEF on_order_summary, GrandTotalRead, Priced
<1> QED  BY <1>1, <1>2

LEMMA ListingsProjected ==
  ASSUME NEW r, NEW e
  PROVE  /\ (e.type = "OrderCreated" \/ RowOK("orders_by_status", r)) =>
              /\ RowOK("orders_by_status", on_orders_by_status(r, e))
              /\ on_orders_by_status(r, e).status = StatusRead(r.status, e)
         /\ (e.type = "OrderCreated" \/ RowOK("customer_orders", r)) =>
              /\ RowOK("customer_orders", on_customer_orders(r, e))
              /\ on_customer_orders(r, e).status = StatusRead(r.status, e)
         /\ (e.type = "OrderCreated" \/ RowOK("order_timeline", r)) =>
              /\ RowOK("order_timeline", on_order_timeline(r, e))
              /\ on_order_timeline(r, e).status = StatusRead(r.status, e)
<1>r. \A s : /\ RowOK("orders_by_status", s) <=> s = [status |-> s.status, grand_total |-> s.grand_total]
             /\ RowOK("customer_orders", s) <=>
                  s = [status |-> s.status, grand_total |-> s.grand_total,
                       item_count |-> s.item_count]
             /\ RowOK("order_timeline", s) <=> s = [status |-> s.status]
  BY Zenon DEF RowOK
<1>s. /\ StatusAfter(r, e) = StatusRead(r.status, e)
      /\ e.type = "OrderCreated" => StatusRead(r.status, e) = "Created"
  BY StatusesWritten DEF StatusAfter, StatusRead, EventType
<1>1. ASSUME e.type = "OrderCreated" \/ r = [status |-> r.status, grand_total |-> r.grand_total],
             NEW after, after = on_orders_by_status(r, e)
      PROVE  /\ after = [status |-> after.status, grand_total |-> after.grand_total]
             /\ after.status = StatusRead(r.status, e)
  <2>1. CASE e.type = "OrderCreated"
    BY <1>1, <1>s, <2>1 DEF on_orders_by_status
  <2>2. CASE e.type # "OrderCreated"
    <3>1. after = [status |-> StatusAfter(r, e), grand_total |-> r.grand_total]
      BY <1>1, <2>2 DEF on_orders_by_status
    <3> QED  BY <1>s, <3>1
  <2> QED  BY <2>1, <2>2
<1>2. ASSUME e.type = "OrderCreated" \/ r = [status |-> r.status, grand_total |-> r.grand_total,
                                             item_count |-> r.item_count],
             NEW after, after = on_customer_orders(r, e)
      PROVE  /\ after = [status |-> after.status, grand_total |-> after.grand_total,
                         item_count |-> after.item_count]
             /\ after.status = StatusRead(r.status, e)
  <2>1. CASE e.type = "OrderCreated"
    BY <1>2, <1>s, <2>1 DEF on_customer_orders
  <2>2. CASE e.type # "OrderCreated"
    <3>1. after = [status |-> StatusAfter(r, e), grand_total |-> r.grand_total,
                   item_count |-> r.item_count]
      BY <1>2, <2>2 DEF on_customer_orders
    <3> QED  BY <1>s, <3>1
  <2> QED  BY <2>1, <2>2
<1>3. ASSUME e.type = "OrderCreated" \/ r = [status |-> r.status],
             NEW after, after = on_order_timeline(r, e)
      PROVE  after = [status |-> after.status] /\ after.status = StatusRead(r.status, e)
  <2>1. CASE e.type \in DOMAIN StatusWritten
    BY <1>3, <2>1 DEF on_order_timeline, StatusRead
  <2>2. CASE e.type \notin DOMAIN StatusWritten
    <3>1. e.type # "OrderCreated"
      BY <2>2, StatusesWritten DEF EventType
    <3> QED  BY <1>3, <2>2, <3>1 DEF on_order_timeline, StatusRead
  <2> QED  BY <2>1, <2>2
<1> QED  BY <1>r, <1>1, <1>2, <1>3

LEMMA OthersProjected ==
  ASSUME NEW r, NEW e
  PROVE  /\ (e.type = "OrderCreated" \/ RowOK("abandoned_checkouts", r)) =>
              /\ RowOK("abandoned_checkouts", on_abandoned_checkouts(r, e))
              /\ on_abandoned_checkouts(r, e).status = OpenRead(r.status, e)
         /\ RowOK("daily_order_stats", r) =>
              LET after == on_daily_order_stats(r, e) IN
              /\ RowOK("daily_order_stats", after)
              /\ after.created = Counted(r.created, e, "OrderCreated")
              /\ after.completed = Counted(r.completed, e, "OrderCompleted")
              /\ after.cancelled = Counted(r.cancelled, e, "OrderCancelled")
              /\ after.refunded = Counted(r.refunded, e, "OrderRefunded")
<1>r. \A s : /\ RowOK("abandoned_checkouts", s) <=> s \in {NoRow, [status |-> "Created"]}
             /\ RowOK("daily_order_stats", s) <=>
                  s = [created |-> s.created, completed |-> s.completed,
                       cancelled |-> s.cancelled, refunded |-> s.refunded, revenue |-> s.revenue]
  BY Zenon DEF RowOK
<1>1. ASSUME e.type = "OrderCreated" \/ r \in {NoRow, [status |-> "Created"]},
             NEW after, after = on_abandoned_checkouts(r, e)
      PROVE  after \in {NoRow, [status |-> "Created"]} /\ after.status = OpenRead(r.status, e)
  <2>1. CASE e.type = "OrderCreated"
    BY <1>1, <2>1 DEF on_abandoned_checkouts, OpenRead
  <2>2. CASE e.type \in {"OrderConfirmed", "OrderCancelled"}
    BY <1>1, <2>2 DEF on_abandoned_checkouts, OpenRead, NoRow
  <2>3. CASE e.type \notin {"OrderCreated", "OrderConfirmed", "OrderCancelled"}
    <3>1. after = r
      BY <1>1, <2>3 DEF on_abandoned_checkouts
    <3> QED  BY <1>1, <2>3, <3>1 DEF OpenRead
  <2> QED  BY <2>1, <2>2, <2>3
<1>2. ASSUME r = [created |-> r.created, completed |-> r.completed, cancelled |-> r.cancelled,
                  refunded |-> r.refunded, revenue |-> r.revenue],
             NEW after, after = on_daily_order_stats(r, e)
      PROVE  /\ after = [created |-> after.created, completed |-> after.completed,
                         cancelled |-> after.cancelled, refunded |-> after.refunded,
                         revenue |-> after.revenue]
             /\ after.created = Counted(r.created, e, "OrderCreated")
             /\ after.completed = Counted(r.completed, e, "OrderCompleted")
             /\ after.cancelled = Counted(r.cancelled, e, "OrderCancelled")
             /\ after.refunded = Counted(r.refunded, e, "OrderRefunded")
  <2>1. CASE e.type = "OrderCreated"
    <3>1. after = [created |-> r.created + 1, completed |-> r.completed,
                   cancelled |-> r.cancelled, refunded |-> r.refunded,
                   revenue |-> r.revenue + e.pricing.grand_total]
      BY <1>2, <2>1 DEF on_daily_order_stats
    <3> QED  BY <2>1, <3>1 DEF Counted
  <2>2. CASE e.type = "OrderCompleted"
    <3>1. after = [created |-> r.created, completed |-> r.completed + 1,
                   cancelled |-> r.cancelled, refunded |-> r.refunded, revenue |-> r.revenue]
      BY <1>2, <2>2 DEF on_daily_order_stats
    <3> QED  BY <2>2, <3>1 DEF Counted
  <2>3. CASE e.type = "OrderCancelled"
    <3>1. after = [created |-> r.created, completed |-> r.completed,
                   cancelled |-> r.cancelled + 1, refunded |-> r.refunded, revenue |-> r.revenue]
      BY <1>2, <2>3 DEF on_daily_order_stats
    <3> QED  BY <2>3, <3>1 DEF Counted
  <2>4. CASE e.type = "OrderRefunded"
    <3>1. after = [created |-> r.created, completed |-> r.completed,
                   cancelled |-> r.cancelled, refunded |-> r.refunded + 1, revenue |-> r.revenue]
      BY <1>2, <2>4 DEF on_daily_order_stats
    <3> QED  BY <2>4, <3>1 DEF Counted
  <2>5. CASE e.type \notin {"OrderCreated", "OrderCompleted", "OrderCancelled", "OrderRefunded"}
    <3>1. after = r
      BY <1>2, <2>5 DEF on_daily_order_stats
    <3> QED  BY <1>2, <2>5, <3>1 DEF Counted
  <2> QED  BY <2>1, <2>2, <2>3, <2>4, <2>5
<1> QED  BY <1>r, <1>1, <1>2

(* A function on 1..n is a list. *)
LEMMA ListOf ==
  ASSUME NEW E, NEW n \in Nat, NEW list \in [1..n -> E]
  PROVE  list \in Seq(E) /\ Len(list) = n
  OBVIOUS

(* The lines of the order as it was created are listed by their ids.       *)
LEMMA CreatedLines ==
  ASSUME NEW P, NEW e \in OrderEvents(P), NEW i \in ItemIds,
         NEW after, after = [k \in 1..Cardinality(Lines(e.items)) |->
                               OriginalLine(SetToSeq(Lines(e.items))[k], e)]
  PROVE  /\ after \in Seq(DetailLine)
         /\ ListsItem(after, i, [original |-> e.items[i] # NoItem, quantity |-> 0])
<1> DEFINE L == Lines(e.items)
           n == Cardinality(L)
           f == SetToSeq(L)
           y == [original |-> e.items[i] # NoItem, quantity |-> 0]
<1>1. n \in Nat /\ ExistsBijection(1..n, L) /\ IsFiniteSet(L)
  BY LinesCounted, FS_CardinalityType
<1>2. f \in [1..n -> L] /\ IsInjective(f)
  <2>1. \E g \in [1..n -> L] : IsInjective(g)
    BY <1>1 DEF ExistsBijection, Bijection, Injection
  <2> QED  BY <2>1 DEF SetToSeq
<1>3. \A j \in L : \E k \in 1..n : f[k] = j
  <2>1. f \in Injection(1..n, L)
    BY <1>2 DEF Injection
  <2>2. IsFiniteSet(1..n) /\ Cardinality(1..n) = n
    <3>1. IsFiniteSet(1..n) /\ Cardinality(1..n) = IF 1 > n THEN 0 ELSE n - 1 + 1
      BY <1>1, FS_Interval
    <3> HIDE DEF n
    <3> QED  BY <1>1, <3>1
  <2>3. f \in Surjection(1..n, L)
    <3> HIDE DEF f, L
    <3> QED  BY <1>1, <2>1, <2>2, FS_Injection DEF n
  <2> QED  BY <2>3 DEF Surjection
<1>4. \A j \in L : j \in ItemIds /\ e.items[j] \in OrderItem
  BY DEF Lines, OrderEvents
<1>5. \A k \in 1..n : after[k] = OriginalLine(f[k], e)
  OBVIOUS
<1> HIDE DEF f
<1>6. ASSUME NEW k \in 1..n
      PROVE  /\ after[k] \in DetailLine /\ after[k].item_id = "None" /\ after[k].id = f[k]
  <2>1. f[k] \in ItemIds /\ e.items[f[k]] \in OrderItem
    BY <1>2, <1>4
  <2>2. e.items[f[k]].quantity \in Nat \ {0}
    BY <2>1 DEF OrderItem
  <2> QED  BY <1>5, <2>1, <2>2 DEF OriginalLine, DetailLine
<1>7. after \in Seq(DetailLine) /\ Len(after) = n
  <2>1. after = [k \in 1..n |-> after[k]]
    OBVIOUS
  <2> HIDE DEF n
  <2>2. after \in [1..n -> DetailLine]
    BY <1>6, <2>1
  <2>3. n \in Nat
    BY <1>1
  <2> QED  BY <2>2, <2>3, ListOf
<1>8. (\E k \in 1..n : after[k].id = i) <=> e.items[i] # NoItem
  <2>1. i \in L <=> e.items[i] # NoItem
    BY DEF Lines
  <2> HIDE DEF L, n
  <2> QED  BY <1>2, <1>3, <1>6, <2>1
<1>9. FirstLine(after, i, 0)
  <2>1. \A k \in 1..Len(after) : after[k].item_id # i
    BY <1>6, <1>7, OrderViewsAssumption
  <2> QED  BY <2>1 DEF FirstLine
<1>10. y.original = (e.items[i] # NoItem) /\ y.quantity = 0
  OBVIOUS
<1> HIDE DEF y, L, n
<1>11. ListsItem(after, i, y)
  BY <1>7, <1>8, <1>9, <1>10 DEF ListsItem
<1> QED  BY <1>7, <1>11 DEF y

(* The list of an order's lines is read item by item.                      *)
LEMMA LinesProjected ==
  ASSUME NEW P, NEW e \in OrderEvents(P), NEW i \in ItemIds, NEW r, NEW x \in LineValues,
         e.type = "OrderCreated" \/ (r.items \in Seq(DetailLine) /\ ListsItem(r.items, i, x)),
         NEW after, after = on_order_detail(r, e).items
  PROVE  /\ after \in Seq(DetailLine)
         /\ ListsItem(after, i, LineRead(i, x, e))
<1>1. CASE e.type = "OrderCreated"
  <2>1. after = [k \in 1..Cardinality(Lines(e.items)) |->
                   OriginalLine(SetToSeq(Lines(e.items))[k], e)]
    BY <1>1 DEF on_order_detail
  <2>2. LineRead(i, x, e) = [original |-> e.items[i] # NoItem, quantity |-> 0]
    BY <1>1 DEF LineRead
  <2> QED  BY <2>1, <2>2, CreatedLines
<1>2. CASE e.type # "OrderCreated"
  <2> DEFINE lines == r.items
  <2>0. after = DetailLines(r, e) /\ lines \in Seq(DetailLine) /\ ListsItem(lines, i, x)
    BY <1>2 DEF on_order_detail
  <2>e. /\ e.item \in ItemIds \cup {"unchanged"}
        /\ e.type = "ItemAdded" => e.item \in ItemIds
        /\ e.type \in {"ItemAdded", "ItemQuantityUpdated"} /\ e.item \in ItemIds =>
             e.items[e.item] \in OrderItem
    BY DEF OrderEvents
  <2>1. CASE e.type = "ItemAdded"
    <3> DEFINE q == e.items[e.item].quantity
    <3>1. q \in Nat \ {0} /\ e.item \in ItemIds
      BY <2>1, <2>e DEF OrderItem
    <3>2. after = Append(lines, [item_id |-> e.item, id |-> "None", quantity |-> q])
      BY <2>0, <2>1 DEF DetailLines, Line
    <3>3. LineRead(i, x, e) = IF i # e.item THEN x
                              ELSE [x EXCEPT !.quantity = IF @ = 0 THEN q ELSE @]
      BY <2>1 DEF LineRead
    <3> HIDE DEF q, lines
    <3>4. /\ after \in Seq(DetailLine)
          /\ ListsItem(after, i, IF i # e.item THEN x
                                 ELSE [x EXCEPT !.quantity = IF @ = 0 THEN q ELSE @])
      BY <2>0, <3>1, <3>2, AppendLists
    <3> QED  BY <3>3, <3>4, Zenon
  <2>2. CASE e.type = "ItemRemoved"
    <3> DEFINE kept == {k \in 1..Len(lines) : lines[k].item_id # e.item}
    <3>1. after = Keeping(lines, kept)
      BY <2>0, <2>2 DEF DetailLines
    <3>2. LineRead(i, x, e) = IF i # e.item THEN x ELSE [x EXCEPT !.quantity = 0]
      BY <2>2 DEF LineRead
    <3> HIDE DEF lines
    <3>3. kept = {k \in 1..Len(lines) : lines[k].item_id # e.item}
      OBVIOUS
    <3> HIDE DEF kept
    <3> QED  BY <2>0, <2>e, <3>1, <3>2, <3>3, KeepingLists, SMTT(30)
  <2>3. CASE e.type = "ItemQuantityUpdated"
    <3> DEFINE q == e.items[e.item].quantity
    <3>1. e.item \in ItemIds => q \in Nat \ {0}
      BY <2>3, <2>e DEF OrderItem
    <3>2. after = [k \in 1..Len(lines) |-> IF k \in FirstOf(lines, e.item)
                                           THEN [lines[k] EXCEPT !.quantity = q]
                                           ELSE lines[k]]
      BY <2>0, <2>3 DEF DetailLines
    <3>3. LineRead(i, x, e) = IF i # e.item THEN x
                              ELSE [x EXCEPT !.quantity = IF @ = 0 THEN 0 ELSE q]
      <4>1. CASE i = e.item
        BY <2>3, <4>1 DEF LineRead
      <4>2. CASE i # e.item
        BY <2>3, <4>2 DEF LineRead
      <4> QED  BY <4>1, <4>2
    <3> HIDE DEF q, lines
    <3>4. /\ after \in Seq(DetailLine)
          /\ ListsItem(after, i, IF i # e.item THEN x
                                 ELSE [x EXCEPT !.quantity = IF @ = 0 THEN 0 ELSE q])
      BY <2>0, <2>e, <3>1, <3>2, UpdateLists
    <3> QED  BY <3>3, <3>4, Zenon
  <2>4. CASE e.type \notin ItemEvents
    <3>1. after = lines
      BY <2>0, <2>4 DEF DetailLines, ItemEvents
    <3>2. LineRead(i, x, e) = x
      BY <1>2, <2>4 DEF LineRead, ItemEvents
    <3> QED  BY <2>0, <3>1, <3>2
  <2> QED  BY <2>1, <2>2, <2>3, <2>4 DEF ItemEvents
<1> QED  BY <1>1, <1>2

LEMMA LineReadTwice ==
  ASSUME NEW P, NEW e \in OrderEvents(P), NEW i \in ItemIds, NEW x \in LineValues
  PROVE  /\ LineRead(i, x, e) \in LineValues
         /\ LineRead(i, LineRead(i, x, e), e) = LineRead(i, x, e)
<1>x. x = [original |-> x.original, quantity |-> x.quantity]
      /\ x.original \in BOOLEAN /\ x.quantity \in Nat
  BY DEF LineValues
<1>q. e.type \in {"ItemAdded", "ItemQuantityUpdated"} /\ e.item = i =>
        e.items[i].quantity \in Nat \ {0}
  BY DEF OrderEvents, OrderItem
<1>1. CASE e.type = "OrderCreated"
  <2>1. \A z : LineRead(i, z, e) = [original |-> e.items[i] # NoItem, quantity |-> 0]
    BY <1>1 DEF LineRead
  <2>2. [original |-> e.items[i] # NoItem, quantity |-> 0] \in LineValues
    BY DEF LineValues
  <2> QED  BY <2>1, <2>2
<1>2. CASE e.type # "OrderCreated" /\ (e.item # i \/ e.type \notin ItemEvents)
  <2>1. \A z : LineRead(i, z, e) = z
    BY <1>2 DEF LineRead, ItemEvents
  <2> QED  BY <2>1
<1>3. CASE e.item = i /\ e.type \in ItemEvents
  <2> DEFINE New(q) == IF e.type = "ItemRemoved" THEN 0
                       ELSE IF e.type = "ItemAdded"
                            THEN IF q = 0 THEN e.items[i].quantity ELSE q
                       ELSE IF q = 0 THEN 0 ELSE e.items[i].quantity
  <2>1. \A q \in Nat : New(q) \in Nat /\ New(New(q)) = New(q)
    BY <1>q, <1>3 DEF ItemEvents
  <2>2. \A q, o : LineRead(i, [original |-> o, quantity |-> q], e)
                   = [original |-> o, quantity |-> New(q)]
    BY <1>3 DEF LineRead, ItemEvents
  <2> HIDE DEF New
  <2>3. /\ LineRead(i, x, e) = [original |-> x.original, quantity |-> New(x.quantity)]
        /\ LineRead(i, [original |-> x.original, quantity |-> New(x.quantity)], e)
            = [original |-> x.original, quantity |-> New(New(x.quantity))]
    BY <1>x, <2>2
  <2>4. [original |-> x.original, quantity |-> New(x.quantity)] \in LineValues
    BY <1>x, <2>1 DEF LineValues
  <2>5. New(New(x.quantity)) = New(x.quantity)
    BY <1>x, <2>1
  <2> QED  BY <2>3, <2>4, <2>5
<1> QED  BY <1>1, <1>2, <1>3 DEF ItemEvents

------------------------------------------------------------------------------
(* What an event says keeps what the facets tell.                          *)
LEMMA TellsIs ==
  ASSUME NEW x
  PROVE  /\ Tells("status", x) <=> x = status
         /\ Tells("payment", x) <=> x = payment
         /\ Tells("shipment", x) <=> x = shipment_id
         /\ Tells("subtotal", x) <=> x = pricing.subtotal
         /\ Tells("grand_total", x) <=> x = pricing.grand_total
         /\ Tells("count", x) <=> x = Cardinality(Lines(items))
         /\ Tells("open", x) <=> OpenTells(x)
         /\ Tells("created", x) <=> x = 1
         /\ Tells("completed", x) <=> Counts(x, status = "Completed")
         /\ Tells("cancelled", x) <=>
              Counts(x, status = "Cancelled" \/ (status = "Refunded" /\ shipment_id = "None"))
         /\ Tells("refunded", x) <=> Counts(x, status = "Refunded")
  BY Zenon DEF Tells

LEMMA TellsIsNext ==
  ASSUME NEW x
  PROVE  /\ Tells("status", x)' <=> x = status'
         /\ Tells("payment", x)' <=> x = payment'
         /\ Tells("shipment", x)' <=> x = shipment_id'
         /\ Tells("subtotal", x)' <=> x = pricing'.subtotal
         /\ Tells("grand_total", x)' <=> x = pricing'.grand_total
         /\ Tells("count", x)' <=> x = Cardinality(Lines(items'))
         /\ Tells("open", x)' <=> OpenTells(x)'
         /\ Tells("created", x)' <=> x = 1
         /\ Tells("completed", x)' <=> Counts(x, status' = "Completed")
         /\ Tells("cancelled", x)' <=>
              Counts(x, status' = "Cancelled" \/ (status' = "Refunded" /\ shipment_id' = "None"))
         /\ Tells("refunded", x)' <=> Counts(x, status' = "Refunded")
  BY Zenon DEF Tells

(* The item a modification names.                                          *)
LEMMA ItemNamed ==
  ASSUME NEW t, NEW j \in ItemIds, LineChanges(t, j)
  PROVE  /\ items'[j] # items[j] => ItemChanged = j
         /\ items'[j] = items[j] => ItemChanged = "unchanged"
<1> DEFINE changed == {i \in ItemIds : items'[i] # items[i]}
<1>1. ItemChanged = IF Cardinality(changed) = 1 THEN CHOOSE i \in changed : TRUE ELSE "unchanged"
  BY Zenon DEF ItemChanged
<1>2. CASE items'[j] # items[j]
  <2>1. changed = {j}
    BY <1>2 DEF LineChanges
  <2> HIDE DEF changed
  <2>2. Cardinality({j}) = 1
    BY FS_Singleton
  <2>3. Cardinality(changed) = 1 /\ (CHOOSE i \in changed : TRUE) = j
    BY <2>1, <2>2
  <2> QED  BY <1>1, <1>2, <2>3
<1>3. CASE items'[j] = items[j]
  <2>1. changed = {}
    BY <1>3 DEF LineChanges
  <2> HIDE DEF changed
  <2>2. Cardinality(changed) # 1
    BY <2>1, FS_EmptySet
  <2> QED  BY <1>1, <1>3, <2>2
<1> QED  BY <1>2, <1>3

LEMMA ItemNamedTyped == ItemChanged \in ItemIds \cup {"unchanged"}
<1> DEFINE changed == {i \in ItemIds : items'[i] # items[i]}
<1>1. ItemChanged = IF Cardinality(changed) = 1 THEN CHOOSE i \in changed : TRUE ELSE "unchanged"
  BY Zenon DEF ItemChanged
<1>2. changed \in SUBSET ItemIds
  OBVIOUS
<1> HIDE DEF changed
<1>3. CASE Cardinality(changed) = 1
  <2>1. changed # {}
    BY <1>3, FS_EmptySet
  <2>2. (CHOOSE i \in changed : TRUE) \in changed
    BY <2>1
  <2> QED  BY <1>1, <1>2, <1>3, <2>2
<1> QED  BY <1>1, <1>3

(* The number of lines.                                                    *)
LEMMA CountTells ==
  ASSUME NEW t, Says(t)
  PROVE  Cardinality(Lines(items')) =
           IF t = "ItemAdded" THEN Cardinality(Lines(items)) + 1
           ELSE IF t = "ItemRemoved"
                THEN (IF Cardinality(Lines(items)) > 0 THEN Cardinality(Lines(items)) - 1 ELSE 0)
           ELSE Cardinality(Lines(items))
<1> DEFINE L == Lines(items)
           M == Lines(items')
<1>1. IsFiniteSet(L) /\ Cardinality(L) \in Nat
  BY LinesCounted
<1>2. CASE t \notin ItemEvents
  <2>1. M = L
    BY <1>2 DEF Says, LinesKept, Lines
  <2> QED  BY <1>2, <2>1 DEF ItemEvents
<1>3. CASE t \in ItemEvents
  <2>1. PICK j \in ItemIds : LineChanges(t, j)
    BY <1>3 DEF Says
  <2>2. CASE t = "ItemAdded"
    <3>1. M = L \cup {j} /\ j \notin L
      BY <2>1, <2>2 DEF LineChanges, Lines
    <3>2. Cardinality(L \cup {j}) = Cardinality(L) + 1
      BY <1>1, <3>1, FS_AddElement
    <3> QED  BY <2>2, <3>1, <3>2
  <2>3. CASE t = "ItemRemoved"
    <3>1. M = L \ {j} /\ j \in L
      BY <2>1, <2>3 DEF LineChanges, Lines
    <3>2. Cardinality(L \ {j}) = Cardinality(L) - 1
      BY <1>1, <3>1, FS_RemoveElement
    <3>3. Cardinality(L) # 0
      BY <1>1, <3>1, FS_EmptySet
    <3> HIDE DEF L, M
    <3>4. Cardinality(L) > 0
      BY <1>1, <3>3
    <3>5. Cardinality(M) = IF Cardinality(L) > 0 THEN Cardinality(L) - 1 ELSE 0
      BY <3>1, <3>2, <3>4
    <3> QED  BY <2>3, <3>5 DEF L, M
  <2>4. CASE t = "ItemQuantityUpdated"
    <3>1. M = L
      BY <2>1, <2>4 DEF LineChanges, Lines
    <3> QED  BY <2>4, <3>1
  <2> QED  BY <1>3, <2>2, <2>3, <2>4 DEF ItemEvents
<1> QED  BY <1>2, <1>3

(* What counts as abandoned.                                               *)
LEMMA OpenTold ==
  ASSUME OrderInv, NEW t, Says(t), NEW y \in {"Created", "None"}, OpenTells(y),
         NEW z, z = IF t \in {"OrderConfirmed", "OrderCancelled"} THEN "None" ELSE y
  PROVE  OpenTells(z)'
<1>1. /\ t \in EventType \ {"OrderCreated"} /\ status' = NewStatus(t) /\ PaymentChanges(t)
      /\ ComesFrom(t)
  BY DEF Says
<1>2. payment = [id |-> payment.id, status |-> payment.status]
  BY DEF OrderInv, Shape
<1>3. t = "PaymentFailed" => payment'.status = "failed"
  BY <1>1, <1>2 DEF PaymentChanges
<1>4. status' = "Created" => status = "Created" /\ t \in ItemEvents \cup {"CouponApplied"}
  BY <1>1, StatusesWritten DEF NewStatus, ComesFrom, EventType, ItemEvents
<1>5. status' = "Cancelled" => t = "OrderCancelled"
  BY <1>1, StatusesWritten DEF NewStatus, ComesFrom, EventType, ItemEvents
<1>6. status = "Created" => t \in ItemEvents \cup {"CouponApplied", "OrderConfirmed",
                                                  "OrderCancelled", "PaymentFailed"}
  BY <1>1 DEF ComesFrom
<1>7. t \in ItemEvents \cup {"CouponApplied"} =>
        status' = "Created" /\ status = "Created" /\ t \notin PaymentEvents
  BY <1>1, StatusesWritten DEF ComesFrom, NewStatus, ItemEvents, PaymentEvents
<1>8. status' = "Confirmed" => t \in {"OrderConfirmed", "PaymentFailed"}
  BY <1>1, <1>7, StatusesWritten DEF NewStatus, EventType, ItemEvents
<1>9. payment.status # "None" => payment'.status # "None"
  BY <1>1, <1>3 DEF PaymentChanges, PaymentEvents
<1>10. t \in ItemEvents \cup {"CouponApplied"} => t \notin {"OrderConfirmed", "OrderCancelled"}
  BY DEF ItemEvents
<1>11. z = "Created" => y = "Created" /\ t \notin {"OrderConfirmed", "OrderCancelled"}
  OBVIOUS
<1>12. status' = "Created" => z = "Created"
  BY <1>4, <1>10 DEF OpenTells
<1>13. status' = "Cancelled" => z = "None"
  BY <1>5
<1>14. z = "Created" => status' = "Created" \/ payment'.status # "None"
  BY <1>3, <1>6, <1>7, <1>9, <1>11 DEF OpenTells
<1>15. z = "Created" /\ status' = "Confirmed" => payment'.status = "failed"
  BY <1>3, <1>8, <1>11
<1> QED  BY <1>12, <1>13, <1>14, <1>15 DEF OpenTells

(* The day's counters.                                                     *)
LEMMA CounterTold ==
  ASSUME OrderInv, NEW t, Says(t), NEW y \in Nat
  PROVE  /\ Counts(y, status = "Completed") =>
              Counts(IF t = "OrderCompleted" THEN y + 1 ELSE y, status' = "Completed")
         /\ Counts(y, status = "Refunded") =>
              Counts(IF t = "OrderRefunded" THEN y + 1 ELSE y, status' = "Refunded")
         /\ Counts(y, status = "Cancelled" \/ (status = "Refunded" /\ shipment_id = "None")) =>
              Counts(IF t = "OrderCancelled" THEN y + 1 ELSE y,
                     status' = "Cancelled" \/ (status' = "Refunded" /\ shipment_id' = "None"))
<1>1. t \in EventType \ {"OrderCreated"} /\ status' = NewStatus(t) /\ ComesFrom(t)
  BY DEF Says
<1>2. /\ status' = "Completed" <=> t = "OrderCompleted"
      /\ status' = "Refunded" <=> t = "OrderRefunded"
      /\ status' = "Cancelled" <=> t = "OrderCancelled"
  BY <1>1, StatusesWritten DEF NewStatus, ComesFrom, EventType, ItemEvents
<1>3. /\ status \notin {"Completed", "Refunded"}
      /\ status = "Cancelled" => t = "OrderRefunded"
      /\ t = "OrderRefunded" => status \in {"Cancelled", "Returned"} /\ shipment_id' = shipment_id
      /\ t = "OrderCancelled" => status # "Cancelled"
  BY <1>1 DEF Says, ComesFrom, CancellableStates, ShipmentEvents
<1>4. /\ status = "Cancelled" => shipment_id = "None"
      /\ status = "Returned" => shipment_id # "None"
  BY DEF OrderInv, StageInv, BeforeShipping
<1> QED  BY <1>2, <1>3, <1>4 DEF Counts

(* What one facet tells it still tells after the event was read.           *)
LEMMA FacetTold ==
  ASSUME OrderInv, NEW t, Says(t), NEW P, NEW e \in OrderEvents(P), e.type = t,
         e.pricing = pricing', e.payment = payment', e.shipment_id = shipment_id',
         NEW f \in FacetNames, NEW y \in Values(f, P), Tells(f, y),
         NEW z, z = Read(f, y, e)
  PROVE  Tells(f, z)'
<1>t. t \in EventType \ {"OrderCreated"}
  BY DEF Says
<1>1. CASE f = "status"
  <2>1. z = StatusRead(y, e) /\ y = status
    BY <1>1, ReadIs, TellsIs
  <2>2. z = status'
    BY <2>1 DEF StatusRead, Says, NewStatus
  <2> QED  BY <1>1, <2>2, TellsIsNext
<1>2. CASE f = "payment"
  <2>1. z = PaymentRead(y, e) /\ y = payment
    BY <1>2, ReadIs, TellsIs
  <2>2. /\ t \notin PaymentEvents => payment' = payment
        /\ t = "PaymentFailed" => payment' = [payment EXCEPT !.status = "failed"]
    BY DEF Says, PaymentChanges
  <2>3. z = payment'
    BY <1>t, <2>1, <2>2 DEF PaymentRead, PaymentEvents
  <2> QED  BY <1>2, <2>3, TellsIsNext
<1>3. CASE f = "shipment"
  <2>1. z = ShipmentRead(y, e) /\ y = shipment_id
    BY <1>3, ReadIs, TellsIs
  <2>2. z = shipment_id'
    BY <1>t, <2>1 DEF ShipmentRead, Says
  <2> QED  BY <1>3, <2>2, TellsIsNext
<1>4. CASE f = "subtotal"
  <2>1. z = SubtotalRead(y, e) /\ y = pricing.subtotal
    BY <1>4, ReadIs, TellsIs
  <2>2. z = pricing'.subtotal
    BY <1>t, <2>1 DEF SubtotalRead, Says, PricingChanges, Priced
  <2> QED  BY <1>4, <2>2, TellsIsNext
<1>5. CASE f = "grand_total"
  <2>1. z = GrandTotalRead(y, e) /\ y = pricing.grand_total
    BY <1>5, ReadIs, TellsIs
  <2>2. z = pricing'.grand_total
    BY <1>t, <2>1 DEF GrandTotalRead, Says, PricingChanges, Priced
  <2> QED  BY <1>5, <2>2, TellsIsNext
<1>6. CASE f = "count"
  <2> DEFINE n == Cardinality(Lines(items))
             m == Cardinality(Lines(items'))
  <2>1. z = CountRead(y, e) /\ y = n
    BY <1>6, ReadIs, TellsIs
  <2>2. m = IF t = "ItemAdded" THEN n + 1
            ELSE IF t = "ItemRemoved" THEN (IF n > 0 THEN n - 1 ELSE 0) ELSE n
    BY CountTells
  <2> HIDE DEF n, m
  <2>3. z = m
    BY <1>t, <2>1, <2>2 DEF CountRead
  <2> QED  BY <1>6, <2>3, TellsIsNext DEF m
<1>7. CASE f = "open"
  <2>1. z = OpenRead(y, e) /\ OpenTells(y) /\ y \in {"Created", "None"}
    BY <1>7, ReadIs, TellsIs, ValuesAre
  <2>2. z = IF t \in {"OrderConfirmed", "OrderCancelled"} THEN "None" ELSE y
    BY <1>t, <2>1 DEF OpenRead
  <2>3. OpenTells(z)'
    BY <2>1, <2>2, OpenTold
  <2> QED  BY <1>7, <2>3, TellsIsNext
<1>8. CASE f = "created"
  <2>1. z = Counted(y, e, "OrderCreated") /\ y = 1
    BY <1>8, ReadIs, TellsIs
  <2>2. z = 1
    BY <1>t, <2>1 DEF Counted
  <2> QED  BY <1>8, <2>2, TellsIsNext
<1>9. CASE f = "completed"
  <2>1. z = Counted(y, e, "OrderCompleted") /\ Counts(y, status = "Completed") /\ y \in Nat
    BY <1>9, ReadIs, TellsIs, ValuesAre
  <2>2. z = IF t = "OrderCompleted" THEN y + 1 ELSE y
    BY <2>1 DEF Counted
  <2>3. Counts(IF t = "OrderCompleted" THEN y + 1 ELSE y, status' = "Completed")
    BY <2>1, CounterTold
  <2>4. Counts(z, status' = "Completed")
    BY <2>2, <2>3, Zenon
  <2> QED  BY <1>9, <2>4, TellsIsNext
<1>10. CASE f = "cancelled"
  <2>1. /\ z = Counted(y, e, "OrderCancelled") /\ y \in Nat
        /\ Counts(y, status = "Cancelled" \/ (status = "Refunded" /\ shipment_id = "None"))
    BY <1>10, ReadIs, TellsIs, ValuesAre
  <2>2. z = IF t = "OrderCancelled" THEN y + 1 ELSE y
    BY <2>1 DEF Counted
  <2>3. Counts(IF t = "OrderCancelled" THEN y + 1 ELSE y,
               status' = "Cancelled" \/ (status' = "Refunded" /\ shipment_id' = "None"))
    BY <2>1, CounterTold
  <2>4. Counts(z, status' = "Cancelled" \/ (status' = "Refunded" /\ shipment_id' = "None"))
    BY <2>2, <2>3, Zenon
  <2> QED  BY <1>10, <2>4, TellsIsNext
<1>11. CASE f = "refunded"
  <2>1. z = Counted(y, e, "OrderRefunded") /\ Counts(y, status = "Refunded") /\ y \in Nat
    BY <1>11, ReadIs, TellsIs, ValuesAre
  <2>2. z = IF t = "OrderRefunded" THEN y + 1 ELSE y
    BY <2>1 DEF Counted
  <2>3. Counts(IF t = "OrderRefunded" THEN y + 1 ELSE y, status' = "Refunded")
    BY <2>1, CounterTold
  <2>4. Counts(z, status' = "Refunded")
    BY <2>2, <2>3, Zenon
  <2> QED  BY <1>11, <2>4, TellsIsNext
<1> QED
  BY <1>1, <1>2, <1>3, <1>4, <1>5, <1>6, <1>7, <1>8, <1>9, <1>10, <1>11 DEF FacetNames

(* An item added since the order was created is listed with the quantity   *)
(* it has, and one that is listed is there.                                *)
LineTells(i, y) ==
  /\ y.quantity # 0 => items[i] # NoItem /\ y.quantity = items[i].quantity
  /\ items[i] # NoItem /\ ~y.original => y.quantity # 0

LEMMA LineTold ==
  ASSUME OrderInv, NEW t, Says(t), NEW P, NEW e \in OrderEvents(P), e.type = t,
         e.item = ItemChanged, e.items = items',
         NEW i \in ItemIds, NEW y \in LineValues, LineTells(i, y),
         NEW z, z = LineRead(i, y, e)
  PROVE  LineTells(i, z)'
<1>t. t \in EventType \ {"OrderCreated"}
  BY DEF Says
<1>y. y = [original |-> y.original, quantity |-> y.quantity] /\ y.quantity \in Nat
  BY DEF LineValues
<1>1. CASE t \notin ItemEvents
  <2>1. z = y
    BY <1>t, <1>1 DEF LineRead, ItemEvents
  <2>2. items'[i] = NoItem <=> items[i] = NoItem
    BY <1>1 DEF Says, LinesKept
  <2>3. items'[i].quantity = items[i].quantity
    BY <1>1 DEF Says, LinesKept
  <2> QED  BY <2>1, <2>2, <2>3 DEF LineTells
<1>2. CASE t \in ItemEvents
  <2>1. PICK j \in ItemIds : LineChanges(t, j)
    BY <1>2 DEF Says
  <2>2. /\ items'[j] # items[j] => e.item = j
        /\ items'[j] = items[j] => e.item = "unchanged"
    BY <2>1, ItemNamed
  <2>3. CASE i # j
    <3>1. items'[i] = items[i]
      BY <2>1, <2>3 DEF LineChanges
    <3>2. e.item # i
      BY <2>2, <2>3, OrderViewsAssumption
    <3>3. z = y
      BY <1>t, <3>2 DEF LineRead
    <3> QED  BY <3>1, <3>3 DEF LineTells
  <2>4. CASE i = j /\ t = "ItemAdded"
    <3>1. items[i] = NoItem /\ items'[i] # NoItem
      BY <2>1, <2>4 DEF LineChanges
    <3>2. e.item = i /\ y.quantity = 0
      BY <2>2, <2>4, <3>1 DEF LineTells
    <3>3. items'[i].quantity \in Nat \ {0}
      BY <2>4, <3>2 DEF OrderEvents, OrderItem
    <3>4. z.quantity = items'[i].quantity
      BY <1>y, <2>4, <3>2 DEF LineRead
    <3> QED  BY <3>1, <3>3, <3>4 DEF LineTells
  <2>5. CASE i = j /\ t = "ItemRemoved"
    <3>1. items[i] # NoItem /\ items'[i] = NoItem
      BY <2>1, <2>5 DEF LineChanges
    <3>2. e.item = i
      BY <2>2, <2>5, <3>1
    <3>3. z.quantity = 0
      BY <1>y, <2>5, <3>2 DEF LineRead
    <3> QED  BY <3>1, <3>3 DEF LineTells
  <2>6. CASE i = j /\ t = "ItemQuantityUpdated"
    <3>1. items[i] # NoItem /\ items'[i] # NoItem
      BY <2>1, <2>6 DEF LineChanges
    <3>2. CASE items'[i] = items[i]
      <4>1. e.item # i
        BY <2>2, <2>6, <3>2, OrderViewsAssumption
      <4>2. z = y
        BY <1>t, <4>1 DEF LineRead
      <4> QED  BY <3>2, <4>2 DEF LineTells
    <3>3. CASE items'[i] # items[i]
      <4>1. e.item = i
        BY <2>2, <2>6, <3>3
      <4>2. items'[i].quantity \in Nat \ {0}
        BY <2>6, <4>1 DEF OrderEvents, OrderItem
      <4>3. /\ z.quantity = IF y.quantity = 0 THEN 0 ELSE items'[i].quantity
            /\ z.original = y.original
        BY <1>y, <2>6, <4>1 DEF LineRead
      <4> QED  BY <1>y, <3>1, <4>2, <4>3 DEF LineTells
    <3> QED  BY <3>2, <3>3
  <2> QED  BY <1>2, <2>3, <2>4, <2>5, <2>6 DEF ItemEvents
<1> QED  BY <1>1, <1>2

------------------------------------------------------------------------------
(* The invariant.  Until its first event is read a projection may have no  *)
(* row, but the day's counters always do.                                  *)
Unwritten == /\ unread # << >> /\ Head(unread).type = "OrderCreated"
             /\ view # "daily_order_stats"

FacetFollows(f, P) ==
  \E x \in Values(f, P), y \in Values(f, P) :
    /\ Unwritten \/ x = Part(f, row)
    /\ Leads(Steps(f, P), x, unread, y)
    /\ Tells(f, y)

LineSteps(i, P) == {t \in LineValues \X OrderEvents(P) \X LineValues : t[3] = LineRead(i, t[1], t[2])}

LineFollows(i, P) ==
  \E x \in LineValues, y \in LineValues :
    /\ Unwritten \/ ListsItem(row.items, i, x)
    /\ Leads(LineSteps(i, P), x, unread, y)
    /\ LineTells(i, y)

Following(P) ==
  /\ pricing \in Prices(P)
  /\ unread \in Seq(OrderEvents(P))
  /\ \A f \in Facets(view) : (f \in Summed => ~redelivered) => FacetFollows(f, P)
  /\ view = "order_detail" => \A i \in ItemIds : LineFollows(i, P)

OrderViewInv ==
  /\ OrderInv /\ ItemIds # {}
  /\ view \in Views
  /\ Unwritten \/ RowOK(view, row)
  /\ \E P : Following(P)

LEMMA FacetsNamed == \A v \in Views : Facets(v) \subseteq FacetNames
  BY DEF Views, Facets, FacetNames

(* More prices may come up.                                                *)
LEMMA PricesWider ==
  ASSUME NEW P, NEW Q, P \subseteq Q
  PROVE  /\ Prices(P) \subseteq Prices(Q) /\ OrderEvents(P) \subseteq OrderEvents(Q)
         /\ \A f \in FacetNames : Values(f, P) \subseteq Values(f, Q)
         /\ \A f \in FacetNames : Steps(f, P) \subseteq Steps(f, Q)
         /\ \A i : LineSteps(i, P) \subseteq LineSteps(i, Q)
<1>1. Prices(P) \subseteq Prices(Q)
  BY DEF Prices
<1>2. OrderEvents(P) \subseteq OrderEvents(Q)
  <2>1. ASSUME NEW e \in OrderEvents(P) PROVE e \in OrderEvents(Q)
    <3>1. e \in [type : EventType, item : ItemIds \cup {"unchanged"},
                 items : [ItemIds -> OrderItem \cup {NoItem}], pricing : Prices(P),
                 payment : PaymentRecords, shipment_id : ShipmentIds \cup {"None"}]
      BY DEF OrderEvents
    <3>2. e \in [type : EventType, item : ItemIds \cup {"unchanged"},
                 items : [ItemIds -> OrderItem \cup {NoItem}], pricing : Prices(Q),
                 payment : PaymentRecords, shipment_id : ShipmentIds \cup {"None"}]
      BY <1>1, <3>1
    <3>3. /\ e.type = "ItemAdded" => e.item \in ItemIds
          /\ e.type \in {"ItemAdded", "ItemQuantityUpdated"} /\ e.item \in ItemIds =>
               e.items[e.item] \in OrderItem
      BY DEF OrderEvents
    <3> QED  BY <3>2, <3>3 DEF OrderEvents
  <2> QED  BY <2>1
<1>3. ASSUME NEW f \in FacetNames PROVE Values(f, P) \subseteq Values(f, Q)
  <2>1. f \notin {"subtotal", "grand_total"} => Values(f, P) = Values(f, Q)
    <3>1. /\ Values("status", P) = Values("status", Q) /\ Values("payment", P) = Values("payment", Q)
          /\ Values("shipment", P) = Values("shipment", Q) /\ Values("open", P) = Values("open", Q)
          /\ \A g \in Summed : Values(g, P) = Values(g, Q)
      <4>1. /\ Values("count", P) = Values("count", Q) /\ Values("created", P) = Values("created", Q)
            /\ Values("completed", P) = Values("completed", Q)
            /\ Values("cancelled", P) = Values("cancelled", Q)
            /\ Values("refunded", P) = Values("refunded", Q)
        BY ValuesAre
      <4>2. /\ Values("status", P) = Values("status", Q)
            /\ Values("payment", P) = Values("payment", Q)
            /\ Values("shipment", P) = Values("shipment", Q)
            /\ Values("open", P) = Values("open", Q)
        BY ValuesAre
      <4> QED  BY <4>1, <4>2 DEF Summed
    <3>2. f = "status" \/ f = "payment" \/ f = "shipment" \/ f = "open" \/ f \in Summed
          \/ f \in {"subtotal", "grand_total"}
      BY DEF FacetNames, Summed
    <3> QED  BY <3>1, <3>2
  <2>2. f \in {"subtotal", "grand_total"} => Values(f, P) = P /\ Values(f, Q) = Q
    BY ValuesAre
  <2> QED  BY <2>1, <2>2
<1>4. ASSUME NEW f \in FacetNames PROVE Steps(f, P) \subseteq Steps(f, Q)
  <2>1. Values(f, P) \X OrderEvents(P) \X Values(f, P)
        \subseteq Values(f, Q) \X OrderEvents(Q) \X Values(f, Q)
    BY <1>2, <1>3
  <2> QED  BY <2>1 DEF Steps
<1>5. ASSUME NEW i PROVE LineSteps(i, P) \subseteq LineSteps(i, Q)
  <2>1. LineValues \X OrderEvents(P) \X LineValues \subseteq LineValues \X OrderEvents(Q) \X LineValues
    BY <1>2
  <2> QED  BY <2>1 DEF LineSteps
<1> QED  BY <1>1, <1>2, <1>3, <1>4, <1>5

(* One event is published, and says what the command did.                  *)
LEMMA SaidFollows ==
  ASSUME OrderViewInv, OrderInv', NEW t, Says(t), Publish(Raised)
  PROVE  OrderViewInv'
<1>0. PICK P : Following(P)
  BY DEF OrderViewInv
<1>i. OrderInv /\ view \in Views
  BY DEF OrderViewInv
<1>q. PICK Q : Q = P \cup {pricing'.subtotal, pricing'.charges, pricing'.grand_total}
  OBVIOUS
<1>1. Raised = <<Carrying(t, ItemChanged, items', pricing', payment', shipment_id')>>
  BY DEF Says, Raised
<1>2. PICK e : e = Carrying(t, ItemChanged, items', pricing', payment', shipment_id')
  OBVIOUS
<1>3. /\ UNCHANGED <<view, row, redelivered>> /\ unread' = unread \o <<e>>
  <2>1. view # "none"
    BY <1>i DEF Views
  <2> QED  BY <1>1, <1>2, <2>1 DEF Publish
<1>4. /\ e.type = t /\ e.item = ItemChanged /\ e.items = items' /\ e.pricing = pricing'
      /\ e.payment = payment' /\ e.shipment_id = shipment_id'
  BY <1>2 DEF Carrying
<1>5. pricing' \in Prices(Q)
  <2>1. pricing \in Prices(P)
    BY <1>0 DEF Following
  <2>2. PricingChanges(t)
    BY DEF Says
  <2>3. pricing' = [subtotal |-> pricing'.subtotal, charges |-> pricing'.charges,
                    grand_total |-> pricing'.grand_total]
    BY <2>1, <2>2 DEF PricingChanges, Prices
  <2> QED  BY <1>q, <2>3 DEF Prices
<1>6. e \in OrderEvents(Q)
  <2>1. /\ \A i \in ItemIds : items'[i] = NoItem \/ items'[i] \in OrderItem
        /\ items' = [i \in ItemIds |-> items'[i]]
        /\ payment' \in PaymentRecords /\ shipment_id' \in ShipmentIds \cup {"None"}
    BY DEF OrderInv, Shape, PaymentRecords
  <2>2. items' \in [ItemIds -> OrderItem \cup {NoItem}]
    BY <2>1
  <2>3. t \in EventType /\ ItemChanged \in ItemIds \cup {"unchanged"}
    BY ItemNamedTyped DEF Says
  <2>4. e \in [type : EventType, item : ItemIds \cup {"unchanged"},
               items : [ItemIds -> OrderItem \cup {NoItem}], pricing : Prices(Q),
               payment : PaymentRecords, shipment_id : ShipmentIds \cup {"None"}]
    BY <1>2, <1>5, <2>1, <2>2, <2>3 DEF Carrying
  <2>5. ASSUME t \in {"ItemAdded", "ItemQuantityUpdated"}
        PROVE  /\ t = "ItemAdded" => ItemChanged \in ItemIds
               /\ ItemChanged \in ItemIds => items'[ItemChanged] \in OrderItem
    <3>1. PICK j \in ItemIds : LineChanges(t, j)
      BY <2>5 DEF Says, ItemEvents
    <3>2. /\ items'[j] # items[j] => ItemChanged = j
          /\ items'[j] = items[j] => ItemChanged = "unchanged"
      BY <3>1, ItemNamed
    <3>3. items'[j] # NoItem /\ (t = "ItemAdded" => items[j] = NoItem)
      BY <2>5, <3>1 DEF LineChanges
    <3> QED  BY <2>1, <3>2, <3>3, OrderViewsAssumption
  <2> QED  BY <1>4, <2>4, <2>5 DEF OrderEvents
<1>7. P \subseteq Q
  BY <1>q
<1>8. /\ OrderEvents(P) \subseteq OrderEvents(Q)
      /\ \A f \in FacetNames : Values(f, P) \subseteq Values(f, Q)
      /\ \A f \in FacetNames : Steps(f, P) \subseteq Steps(f, Q)
      /\ \A i : LineSteps(i, P) \subseteq LineSteps(i, Q)
  BY <1>7, PricesWider
<1>9. unread \in Seq(OrderEvents(P)) /\ unread \in Seq(OrderEvents(Q))
  <2>1. unread \in Seq(OrderEvents(P))
    BY <1>0 DEF Following
  <2> QED  BY <1>8, <2>1
<1>10. unread' \in Seq(OrderEvents(Q))
  BY <1>3, <1>6, <1>9
<1>11. Unwritten => Unwritten'
  <2>1. unread # << >> => unread' # << >> /\ Head(unread') = Head(unread)
    BY <1>3, <1>6, <1>9
  <2> QED  BY <1>3, <2>1 DEF Unwritten
<1>12. ASSUME NEW f \in FacetNames, FacetFollows(f, P) PROVE FacetFollows(f, Q)'
  <2>1. PICK x \in Values(f, P), y \in Values(f, P) :
          /\ Unwritten \/ x = Part(f, row)
          /\ Leads(Steps(f, P), x, unread, y)
          /\ Tells(f, y)
    BY <1>12 DEF FacetFollows
  <2>2. x \in Values(f, Q) /\ y \in Values(f, Q)
    BY <1>8
  <2>3. PICK z : z = Read(f, y, e)
    OBVIOUS
  <2>4. z \in Values(f, Q)
    BY <1>6, <2>2, <2>3, ReadTyped
  <2>5. <<y, e, z>> \in Steps(f, Q)
    BY <1>6, <2>2, <2>3, <2>4 DEF Steps
  <2>6. Leads(Steps(f, Q), x, unread, y)
    BY <1>8, <2>1, LeadsWider
  <2>7. Leads(Steps(f, Q), x, unread', z)
    <3>1. Leads(Steps(f, Q), x, unread \o <<e>>, z)
      BY <1>6, <1>9, <2>5, <2>6, LeadsMore
    <3> QED  BY <1>3, <3>1
  <2>8. Tells(f, z)'
    BY <1>4, <1>6, <1>i, <2>1, <2>2, <2>3, FacetTold
  <2>9. Unwritten' \/ x = Part(f, row')
    BY <1>3, <1>11, <2>1
  <2> QED  BY <2>2, <2>4, <2>7, <2>8, <2>9 DEF FacetFollows
<1>13. ASSUME NEW i \in ItemIds, LineFollows(i, P) PROVE LineFollows(i, Q)'
  <2>1. PICK x \in LineValues, y \in LineValues :
          /\ Unwritten \/ ListsItem(row.items, i, x)
          /\ Leads(LineSteps(i, P), x, unread, y)
          /\ LineTells(i, y)
    BY <1>13 DEF LineFollows
  <2>3. PICK z : z = LineRead(i, y, e)
    OBVIOUS
  <2>4. z \in LineValues
    BY <1>6, <2>3, LineReadTwice
  <2>5. <<y, e, z>> \in LineSteps(i, Q)
    BY <1>6, <2>3, <2>4 DEF LineSteps
  <2>6. Leads(LineSteps(i, Q), x, unread, y)
    BY <1>8, <2>1, LeadsWider
  <2>7. Leads(LineSteps(i, Q), x, unread', z)
    <3>1. Leads(LineSteps(i, Q), x, unread \o <<e>>, z)
      BY <1>6, <1>9, <2>5, <2>6, LeadsMore
    <3> QED  BY <1>3, <3>1
  <2>8. LineTells(i, z)'
    BY <1>4, <1>6, <1>i, <2>1, <2>3, LineTold
  <2>9. Unwritten' \/ ListsItem(row'.items, i, x)
    BY <1>3, <1>11, <2>1
  <2> QED  BY <2>4, <2>7, <2>8, <2>9 DEF LineFollows
<1>14. \A f \in Facets(view') : (f \in Summed => ~redelivered') => FacetFollows(f, Q)'
  <2>1. ASSUME NEW f \in Facets(view), f \in Summed => ~redelivered PROVE FacetFollows(f, Q)'
    <3>1. FacetFollows(f, P) /\ f \in FacetNames
      BY <1>0, <1>i, <2>1, FacetsNamed DEF Following
    <3> QED  BY <1>12, <3>1
  <2> QED  BY <1>3, <2>1
<1>15. view' = "order_detail" => \A i \in ItemIds : LineFollows(i, Q)'
  BY <1>0, <1>3, <1>13 DEF Following
<1>16. Following(Q)'
  BY <1>5, <1>10, <1>14, <1>15 DEF Following
<1>17. Unwritten' \/ RowOK(view', row')
  BY <1>3, <1>11 DEF OrderViewInv
<1> QED  BY <1>3, <1>i, <1>16, <1>17 DEF OrderViewInv

(* Nothing is published, and nothing changes.                              *)
LEMMA SilentFollows ==
  ASSUME OrderViewInv, OrderInv', UNCHANGED <<status, items, pricing, payment, shipment_id>>,
         UNCHANGED read_vars
  PROVE  OrderViewInv'
<1>1. PICK P : Following(P)
  BY DEF OrderViewInv
<1>2. UNCHANGED <<view, row, unread, redelivered>>
  BY DEF read_vars
<1>3. ASSUME NEW f, FacetFollows(f, P) PROVE FacetFollows(f, P)'
  <2>1. \A y : Tells(f, y) => Tells(f, y)'
    BY Zenon DEF Tells, OpenTells, Counts, Lines
  <2>2. Unwritten' <=> Unwritten
    BY <1>2 DEF Unwritten
  <2> QED  BY <1>2, <1>3, <2>1, <2>2 DEF FacetFollows
<1>4. ASSUME NEW i, LineFollows(i, P) PROVE LineFollows(i, P)'
  BY <1>2, <1>4 DEF LineFollows, LineTells, Unwritten
<1>5. Following(P)'
  BY <1>1, <1>2, <1>3, <1>4 DEF Following
<1>6. Unwritten' \/ RowOK(view', row')
  BY <1>2 DEF OrderViewInv, Unwritten
<1> QED  BY <1>2, <1>5, <1>6 DEF OrderViewInv

LEMMA RowIs ==
  ASSUME NEW r
  PROVE  /\ RowOK("order_detail", r) <=>
              /\ r = [status |-> r.status, items |-> r.items, subtotal |-> r.subtotal,
                      grand_total |-> r.grand_total, payment |-> r.payment,
                      shipment_id |-> r.shipment_id]
              /\ r.items \in Seq(DetailLine)
              /\ r.payment \in PaymentRecords
         /\ RowOK("order_summary", r) <=>
              r = [status |-> r.status, item_count |-> r.item_count, grand_total |-> r.grand_total]
  BY Zenon DEF RowOK

LEMMA FacetsAre ==
  /\ Facets("order_detail") = {"status", "payment", "shipment", "subtotal", "grand_total"}
  /\ Facets("order_summary") = {"status", "grand_total", "count"}
  /\ Facets("orders_by_status") = {"status"} /\ Facets("customer_orders") = {"status"}
  /\ Facets("order_timeline") = {"status"} /\ Facets("abandoned_checkouts") = {"open"}
  /\ Facets("daily_order_stats") = {"created", "completed", "cancelled", "refunded"}
  BY DEF Facets

LEMMA ProjectedIs ==
  ASSUME NEW r, NEW e
  PROVE  /\ Projected("order_detail", r, e) = on_order_detail(r, e)
         /\ Projected("order_summary", r, e) = on_order_summary(r, e)
         /\ Projected("orders_by_status", r, e) = on_orders_by_status(r, e)
         /\ Projected("customer_orders", r, e) = on_customer_orders(r, e)
         /\ Projected("abandoned_checkouts", r, e) = on_abandoned_checkouts(r, e)
         /\ Projected("daily_order_stats", r, e) = on_daily_order_stats(r, e)
         /\ Projected("order_timeline", r, e) = on_order_timeline(r, e)
  BY Zenon DEF Projected

(* The projectors read their events facet by facet.                        *)
LEMMA PartRead ==
  ASSUME NEW P, NEW v \in Views, NEW r, NEW e \in OrderEvents(P),
         RowOK(v, r) \/ (e.type = "OrderCreated" /\ v # "daily_order_stats"),
         v = "order_detail" => Projected(v, r, e).items \in Seq(DetailLine)
  PROVE  /\ RowOK(v, Projected(v, r, e))
         /\ \A f \in Facets(v) : Part(f, Projected(v, r, e)) = Read(f, Part(f, r), e)
<1> DEFINE after == Projected(v, r, e)
<1>0. /\ after = Projected(v, r, e)
      /\ v = "order_detail" => after.items \in Seq(DetailLine)
  OBVIOUS
<1> HIDE DEF after
<1> SUFFICES RowOK(v, after) /\ \A f \in Facets(v) : Part(f, after) = Read(f, Part(f, r), e)
  BY <1>0
<1>1. CASE v = "order_detail"
  <2>1. after = on_order_detail(r, e)
    BY <1>0, <1>1, ProjectedIs
  <2>2. e.type = "OrderCreated" \/ r.payment \in PaymentRecords
    BY <1>1, RowIs
  <2>3. /\ after = [status |-> after.status, items |-> after.items,
                    subtotal |-> after.subtotal, grand_total |-> after.grand_total,
                    payment |-> after.payment, shipment_id |-> after.shipment_id]
        /\ after.payment \in PaymentRecords
        /\ after.status = StatusRead(r.status, e)
        /\ after.payment = PaymentRead(r.payment, e)
        /\ after.shipment_id = ShipmentRead(r.shipment_id, e)
        /\ after.subtotal = SubtotalRead(r.subtotal, e)
        /\ after.grand_total = GrandTotalRead(r.grand_total, e)
    BY <2>1, <2>2, DetailProjected
  <2>4. RowOK("order_detail", after)
    BY <1>0, <1>1, <2>3, RowIs
  <2>5. \A f \in {"status", "payment", "shipment", "subtotal", "grand_total"} :
          Part(f, after) = Read(f, Part(f, r), e)
    BY <2>3, PartIs, ReadIs
  <2> QED  BY <1>1, <2>4, <2>5, FacetsAre
<1>2. CASE v = "order_summary"
  <2>1. after = on_order_summary(r, e)
    BY <1>0, <1>2, ProjectedIs
  <2>2. /\ after = [status |-> after.status, item_count |-> after.item_count,
                    grand_total |-> after.grand_total]
        /\ after.status = StatusRead(r.status, e)
        /\ after.item_count = CountRead(r.item_count, e)
        /\ after.grand_total = GrandTotalRead(r.grand_total, e)
    BY <2>1, SummaryProjected
  <2>3. RowOK("order_summary", after)
    BY <2>2, RowIs
  <2>4. \A f \in {"status", "grand_total", "count"} : Part(f, after) = Read(f, Part(f, r), e)
    BY <2>2, PartIs, ReadIs
  <2> QED  BY <1>2, <2>3, <2>4, FacetsAre
<1>3. CASE v \in {"orders_by_status", "customer_orders", "order_timeline"}
  <2>1. RowOK(v, after) /\ after.status = StatusRead(r.status, e)
    <3>1. CASE v = "orders_by_status"
      BY <3>1, ListingsProjected, ProjectedIs, <1>0
    <3>2. CASE v = "customer_orders"
      BY <3>2, ListingsProjected, ProjectedIs, <1>0
    <3>3. CASE v = "order_timeline"
      BY <3>3, ListingsProjected, ProjectedIs, <1>0
    <3> QED  BY <1>3, <3>1, <3>2, <3>3
  <2>2. Part("status", after) = Read("status", Part("status", r), e)
    BY <2>1, PartIs, ReadIs
  <2> QED  BY <1>3, <2>1, <2>2, FacetsAre
<1>4. CASE v = "abandoned_checkouts"
  <2>1. RowOK(v, after) /\ after.status = OpenRead(r.status, e)
    BY <1>4, OthersProjected, ProjectedIs, <1>0
  <2>2. Part("open", after) = Read("open", Part("open", r), e)
    BY <2>1, PartIs, ReadIs
  <2> QED  BY <1>4, <2>1, <2>2, FacetsAre
<1>5. CASE v = "daily_order_stats"
  <2>1. after = on_daily_order_stats(r, e) /\ RowOK("daily_order_stats", r)
    BY <1>0, <1>5, ProjectedIs
  <2>2. /\ RowOK("daily_order_stats", after)
        /\ after.created = Counted(r.created, e, "OrderCreated")
        /\ after.completed = Counted(r.completed, e, "OrderCompleted")
        /\ after.cancelled = Counted(r.cancelled, e, "OrderCancelled")
        /\ after.refunded = Counted(r.refunded, e, "OrderRefunded")
    BY <2>1, OthersProjected
  <2>3. \A f \in {"created", "completed", "cancelled", "refunded"} :
          Part(f, after) = Read(f, Part(f, r), e)
    BY <2>2, PartIs, ReadIs
  <2> QED  BY <1>5, <2>2, <2>3, FacetsAre
<1> QED  BY <1>1, <1>2, <1>3, <1>4, <1>5 DEF Views

(* OrderCreated is read the same whatever was there.                       *)
LEMMA ReadFresh ==
  ASSUME NEW v \in Views, v # "daily_order_stats", NEW f \in Facets(v), NEW e,
         e.type = "OrderCreated", NEW x, NEW z
  PROVE  Read(f, x, e) = Read(f, z, e)
<1>1. f \in {"status", "payment", "shipment", "subtotal", "grand_total", "count", "open"}
  BY FacetsAre DEF Views
<1>2. CASE f = "status"
  <2>1. "OrderCreated" \in DOMAIN StatusWritten
    BY StatusesWritten DEF EventType
  <2> QED  BY <1>2, <2>1, ReadIs DEF StatusRead
<1>3. CASE f = "payment"
  BY <1>3, ReadIs DEF PaymentRead
<1>4. CASE f = "shipment"
  BY <1>4, ReadIs DEF ShipmentRead
<1>5. CASE f = "subtotal"
  BY <1>5, ReadIs DEF SubtotalRead, Priced
<1>6. CASE f = "grand_total"
  BY <1>6, ReadIs DEF GrandTotalRead, Priced
<1>7. CASE f = "count"
  BY <1>7, ReadIs DEF CountRead
<1>8. CASE f = "open"
  BY <1>8, ReadIs DEF OpenRead
<1> QED  BY <1>1, <1>2, <1>3, <1>4, <1>5, <1>6, <1>7, <1>8

(* The projector reads the oldest event.                                   *)
LEMMA ProjectionFollows ==
  ASSUME OrderViewInv, Projection
  PROVE  OrderViewInv'
<1>0. PICK P : Following(P)
  BY DEF OrderViewInv
<1>1. /\ unread # << >> /\ row' = Projected(view, row, Head(unread)) /\ view' = view
      /\ UNCHANGED vars
      /\ \/ unread' = Tail(unread) /\ redelivered' = redelivered
         \/ redelivered' = TRUE /\ unread' = unread
  BY DEF Projection, Project
<1>2. PICK e : e = Head(unread)
  OBVIOUS
<1>3. PICK after : after = row'
  OBVIOUS
<1>4. unread \in Seq(OrderEvents(P)) /\ e \in OrderEvents(P) /\ Tail(unread) \in Seq(OrderEvents(P))
  <2>1. unread \in Seq(OrderEvents(P))
    BY <1>0 DEF Following
  <2> QED  BY <1>1, <1>2, <2>1
<1>5. view \in Views /\ OrderInv /\ ItemIds # {}
  BY DEF OrderViewInv
<1>6. RowOK(view, row) \/ (e.type = "OrderCreated" /\ view # "daily_order_stats")
  BY <1>2 DEF OrderViewInv, Unwritten
<1>u. Unwritten <=> e.type = "OrderCreated" /\ view # "daily_order_stats"
  BY <1>1, <1>2 DEF Unwritten
<1>7. ASSUME view = "order_detail", NEW i \in ItemIds
      PROVE  after.items \in Seq(DetailLine) /\ LineFollows(i, P)'
  <2>1. PICK x \in LineValues, y \in LineValues :
          /\ Unwritten \/ ListsItem(row.items, i, x)
          /\ Leads(LineSteps(i, P), x, unread, y)
          /\ LineTells(i, y)
    BY <1>0, <1>7 DEF Following, LineFollows
  <2>2. PICK z : z = LineRead(i, x, e)
    OBVIOUS
  <2>3. after = on_order_detail(row, e)
    BY <1>1, <1>2, <1>3, <1>7, ProjectedIs
  <2>4. e.type = "OrderCreated" \/ (row.items \in Seq(DetailLine) /\ ListsItem(row.items, i, x))
    <3>1. e.type # "OrderCreated" => row.items \in Seq(DetailLine)
      BY <1>6, <1>7, RowIs
    <3> QED  BY <1>u, <2>1, <3>1
  <2>5. after.items \in Seq(DetailLine) /\ ListsItem(after.items, i, z)
    BY <1>4, <2>2, <2>3, <2>4, LinesProjected
  <2>6. /\ z \in LineValues
        /\ LineRead(i, z, e) = z
    BY <1>4, <2>2, LineReadTwice
  <2>7. <<z, e, z>> \in LineSteps(i, P)
    BY <1>4, <2>6 DEF LineSteps
  <2>8. \A w : <<x, e, w>> \in LineSteps(i, P) => w = z
    BY <2>2 DEF LineSteps
  <2>9. /\ Leads(LineSteps(i, P), z, Tail(unread), y)
        /\ Leads(LineSteps(i, P), z, unread, y)
    BY <1>1, <1>2, <1>4, <2>1, <2>7, <2>8, LeadsProject
  <2>10. Leads(LineSteps(i, P), z, unread', y)
    BY <1>1, <2>9
  <2>11. LineTells(i, y)'
    BY <1>1, <2>1 DEF LineTells, vars
  <2>12. ListsItem(row'.items, i, z)
    BY <1>3, <2>5
  <2>13. LineFollows(i, P)'
    BY <2>6, <2>10, <2>11, <2>12 DEF LineFollows
  <2> QED  BY <2>5, <2>13
<1>8. view = "order_detail" => after.items \in Seq(DetailLine)
  BY <1>5, <1>7
<1>9. /\ RowOK(view, after)
      /\ \A f \in Facets(view) : Part(f, after) = Read(f, Part(f, row), e)
  <2>1. after = Projected(view, row, e)
    BY <1>1, <1>2, <1>3
  <2>2. view \in Views /\ e \in OrderEvents(P)
    BY <1>4, <1>5
  <2>3. view = "order_detail" => Projected(view, row, e).items \in Seq(DetailLine)
    BY <1>8, <2>1
  <2>4. /\ RowOK(view, Projected(view, row, e))
        /\ \A f \in Facets(view) :
             Part(f, Projected(view, row, e)) = Read(f, Part(f, row), e)
    BY <1>6, <2>2, <2>3, PartRead, SMTT(30)
  <2> QED  BY <2>1, <2>4
<1>10. ASSUME NEW f \in Facets(view), f \in Summed => ~redelivered' PROVE FacetFollows(f, P)'
  <2>0. (f \in Summed => ~redelivered) /\ f \in FacetNames
    <3>1. redelivered = TRUE => redelivered' = TRUE
      BY <1>1
    <3> QED  BY <1>1, <1>5, <1>10, <3>1, FacetsNamed
  <2>1. PICK x \in Values(f, P), y \in Values(f, P) :
          /\ Unwritten \/ x = Part(f, row)
          /\ Leads(Steps(f, P), x, unread, y)
          /\ Tells(f, y)
    BY <1>0, <2>0 DEF Following, FacetFollows
  <2>2. PICK z : z = Read(f, x, e)
    OBVIOUS
  <2>3. Part(f, after) = z
    <3>1. CASE x = Part(f, row)
      BY <1>9, <2>2, <3>1
    <3>2. CASE Unwritten
      <4>1. Read(f, Part(f, row), e) = Read(f, x, e)
        BY <1>5, <1>u, <3>2, ReadFresh
      <4> QED  BY <1>9, <2>2, <4>1
    <3> QED  BY <2>1, <3>1, <3>2
  <2>4. z \in Values(f, P)
    BY <1>4, <2>0, <2>2, ReadTyped
  <2>5. \A w : <<x, e, w>> \in Steps(f, P) => w = z
    BY <2>2 DEF Steps
  <2>6. /\ Leads(Steps(f, P), z, Tail(unread), y)
        /\ <<z, e, z>> \in Steps(f, P) => Leads(Steps(f, P), z, unread, y)
    BY <1>1, <1>2, <1>4, <2>1, <2>5, LeadsProject
  <2>7. Leads(Steps(f, P), z, unread', y)
    <3>1. CASE unread' = Tail(unread)
      BY <2>6, <3>1
    <3>2. CASE redelivered' = TRUE /\ unread' = unread
      <4>1. f \in FacetNames \ Summed
        BY <1>10, <2>0, <3>2
      <4>2. Read(f, z, e) = z
        BY <2>2, <4>1, ReadTwice
      <4>3. <<z, e, z>> \in Steps(f, P)
        BY <1>4, <2>4, <4>2 DEF Steps
      <4> QED  BY <2>6, <3>2, <4>3
    <3> QED  BY <1>1, <3>1, <3>2
  <2>8. Tells(f, y)'
    <3>1. UNCHANGED <<status, items, pricing, payment, shipment_id>>
      BY <1>1 DEF vars
    <3>2. \A v : Tells(f, v) => Tells(f, v)'
      BY <3>1, Zenon DEF Tells, OpenTells, Counts, Lines
    <3> QED  BY <2>1, <3>2
  <2>9. z = Part(f, row')
    BY <1>3, <2>3
  <2> QED  BY <2>1, <2>4, <2>7, <2>8, <2>9 DEF FacetFollows
<1>11. OrderInv'
  BY <1>1, <1>5, NextKeeps
<1>12. pricing' \in Prices(P)
  BY <1>0, <1>1 DEF Following, vars
<1>13. unread' \in Seq(OrderEvents(P))
  BY <1>1, <1>4
<1>14. Following(P)'
  <2>1. \A f \in Facets(view') : (f \in Summed => ~redelivered') => FacetFollows(f, P)'
    BY <1>1, <1>10
  <2>2. view' = "order_detail" => \A i \in ItemIds : LineFollows(i, P)'
    BY <1>1, <1>7
  <2> QED  BY <1>12, <1>13, <2>1, <2>2 DEF Following
<1>15. RowOK(view', row')
  BY <1>1, <1>3, <1>9
<1> QED  BY <1>1, <1>5, <1>11, <1>14, <1>15 DEF OrderViewInv

(* The order is created: its projection has that one event to read.        *)
LEMMA StartFollows == ViewsInit => OrderViewInv
<1> SUFFICES ASSUME ViewsInit PROVE OrderViewInv
  OBVIOUS
<1> DEFINE P == Amounts \cup Charges
<1>1. /\ Init /\ view \in Views /\ row = EmptyRow /\ redelivered = FALSE
      /\ unread = <<Carrying("OrderCreated", "unchanged", items, pricing, payment, shipment_id)>>
  BY DEF ViewsInit
<1>2. OrderInv
  BY <1>1, InitKeeps
<1>3. /\ status = "Created" /\ payment = [id |-> "None", status |-> "None"]
      /\ shipment_id = "None" /\ Lines(items) # {}
  BY <1>1 DEF Init, CreateOrder
<1>4. ItemIds # {}
  BY <1>3 DEF Lines
<1>5. pricing \in Prices(P)
  BY <1>1 DEF Init, CreateOrder, Prices
<1>6. PICK e : e = Carrying("OrderCreated", "unchanged", items, pricing, payment, shipment_id)
  OBVIOUS
<1>7. /\ unread = <<e>> /\ unread # << >> /\ Head(unread) = e /\ Len(unread) = 1
      /\ unread[1] = e
  BY <1>1, <1>6
<1>8. /\ e.type = "OrderCreated" /\ e.items = items /\ e.pricing = pricing
      /\ e.payment = payment /\ e.shipment_id = shipment_id
  BY <1>6 DEF Carrying
<1>9. e \in OrderEvents(P)
  <2>1. /\ \A i \in ItemIds : items[i] = NoItem \/ items[i] \in OrderItem
        /\ items = [i \in ItemIds |-> items[i]]
        /\ payment \in PaymentRecords /\ shipment_id \in ShipmentIds \cup {"None"}
    BY <1>2 DEF OrderInv, Shape, PaymentRecords
  <2>2. items \in [ItemIds -> OrderItem \cup {NoItem}]
    BY <2>1
  <2>3. "OrderCreated" \in EventType
    BY DEF EventType
  <2>4. e \in [type : EventType, item : ItemIds \cup {"unchanged"},
               items : [ItemIds -> OrderItem \cup {NoItem}], pricing : Prices(P),
               payment : PaymentRecords, shipment_id : ShipmentIds \cup {"None"}]
    BY <1>5, <1>6, <2>1, <2>2, <2>3 DEF Carrying
  <2> QED  BY <1>8, <2>4 DEF OrderEvents
<1>10. unread \in Seq(OrderEvents(P))
  BY <1>7, <1>9
<1>o. ASSUME NEW Steps1, NEW x, NEW z, <<x, e, z>> \in Steps1 PROVE Leads(Steps1, x, unread, z)
  <2>1. Leads(Steps1, x, << >>, x)
    BY LeadsNone
  <2>2. << >> \in Seq(OrderEvents(P))
    OBVIOUS
  <2>3. Leads(Steps1, x, << >> \o <<e>>, z)
    BY <1>9, <1>o, <2>1, <2>2, LeadsMore
  <2>4. << >> \o <<e>> = unread
    BY <1>7
  <2> QED  BY <2>3, <2>4
<1>11. CASE view = "daily_order_stats"
  <2>1. row = [created |-> 0, completed |-> 0, cancelled |-> 0, refunded |-> 0, revenue |-> 0]
    BY <1>1, <1>11 DEF EmptyRow
  <2>2. RowOK(view, row)
    BY <1>11, <2>1 DEF RowOK
  <2>3. ASSUME NEW f \in {"created", "completed", "cancelled", "refunded"}
        PROVE  FacetFollows(f, P)
    <3>1. Part(f, row) = 0
      BY <2>1, PartIs
    <3>2. PICK z : z = IF f = "created" THEN 1 ELSE 0
      OBVIOUS
    <3>3. Read(f, 0, e) = z
      <4>1. Counted(0, e, "OrderCreated") = 1 /\ Counted(0, e, "OrderCompleted") = 0
            /\ Counted(0, e, "OrderCancelled") = 0 /\ Counted(0, e, "OrderRefunded") = 0
        BY <1>8 DEF Counted
      <4> QED  BY <3>2, <4>1, ReadIs
    <3>4. 0 \in Values(f, P) /\ z \in Values(f, P)
      <4>1. Values(f, P) = Nat
        BY ValuesAre
      <4> QED  BY <3>2, <4>1
    <3>5. <<0, e, z>> \in Steps(f, P)
      BY <1>9, <3>3, <3>4 DEF Steps
    <3>6. Leads(Steps(f, P), 0, unread, z)
      BY <1>o, <3>5
    <3>7. Tells(f, z)
      BY <1>3, <3>2, TellsIs DEF Counts
    <3> QED  BY <3>1, <3>4, <3>6, <3>7 DEF FacetFollows
  <2>4. Following(P)
    <3>1. \A f \in Facets(view) : FacetFollows(f, P)
      BY <1>11, <2>3, FacetsAre
    <3> HIDE DEF P
    <3> QED  BY <1>5, <1>10, <1>11, <3>1 DEF Following
  <2> QED  BY <1>1, <1>2, <1>4, <2>2, <2>4 DEF OrderViewInv
<1>12. CASE view # "daily_order_stats"
  <2>1. Unwritten
    BY <1>7, <1>8, <1>12 DEF Unwritten
  <2>2. ASSUME NEW f \in Facets(view) PROVE FacetFollows(f, P)
    <3>0. f \in {"status", "payment", "shipment", "subtotal", "grand_total", "count", "open"}
      BY <1>1, <1>12, FacetsAre DEF Views
    <3>1. f \in FacetNames
      BY <3>0 DEF FacetNames
    <3>2. PICK x : x = IF f = "status" THEN status
                       ELSE IF f = "payment" THEN payment
                       ELSE IF f = "shipment" THEN shipment_id
                       ELSE IF f = "subtotal" THEN pricing.subtotal
                       ELSE IF f = "grand_total" THEN pricing.grand_total
                       ELSE IF f = "count" THEN Cardinality(Lines(items))
                       ELSE "Created"
      OBVIOUS
    <3>3. Read(f, x, e) = x
      <4>1. StatusRead(x, e) = "Created"
        BY <1>8, StatusesWritten DEF StatusRead, EventType
      <4>2. /\ PaymentRead(x, e) = payment /\ ShipmentRead(x, e) = "None"
            /\ CountRead(x, e) = Cardinality(Lines(items)) /\ OpenRead(x, e) = "Created"
        BY <1>8 DEF PaymentRead, ShipmentRead, CountRead, OpenRead
      <4>3. SubtotalRead(x, e) = pricing.subtotal /\ GrandTotalRead(x, e) = pricing.grand_total
        BY <1>8 DEF SubtotalRead, GrandTotalRead, Priced
      <4> QED  BY <1>3, <3>0, <3>2, <4>1, <4>2, <4>3, ReadIs
    <3>4. x \in Values(f, P)
      <4>1. status \in OrderStatus /\ payment \in PaymentRecords
            /\ shipment_id \in ShipmentIds \cup {"None"}
        BY <1>2 DEF OrderInv, Shape, PaymentRecords
      <4>2. pricing.subtotal \in P /\ pricing.grand_total \in P
        BY <1>5 DEF Prices
      <4>3. Cardinality(Lines(items)) \in Nat
        BY LinesCounted
      <4> HIDE DEF P
      <4> QED  BY <3>0, <3>2, <4>1, <4>2, <4>3, ValuesAre
    <3>5. <<x, e, x>> \in Steps(f, P)
      BY <1>9, <3>3, <3>4 DEF Steps
    <3>6. Leads(Steps(f, P), x, unread, x)
      BY <1>o, <3>5
    <3>7. Tells(f, x)
      <4>1. OpenTells("Created")
        BY <1>3 DEF OpenTells
      <4> QED  BY <3>0, <3>2, <4>1, TellsIs
    <3> QED  BY <2>1, <3>4, <3>6, <3>7 DEF FacetFollows
  <2>3. ASSUME NEW i \in ItemIds PROVE LineFollows(i, P)
    <3>1. PICK x : x = [original |-> items[i] # NoItem, quantity |-> 0]
      OBVIOUS
    <3>2. x \in LineValues
      BY <3>1 DEF LineValues
    <3>3. LineRead(i, x, e) = x
      BY <1>8, <3>1 DEF LineRead
    <3>4. <<x, e, x>> \in LineSteps(i, P)
      BY <1>9, <3>2, <3>3 DEF LineSteps
    <3>5. Leads(LineSteps(i, P), x, unread, x)
      BY <1>o, <3>4
    <3>6. LineTells(i, x)
      BY <3>1 DEF LineTells
    <3> QED  BY <2>1, <3>2, <3>5, <3>6 DEF LineFollows
  <2>4. Following(P)
    <3> HIDE DEF P
    <3> QED  BY <1>5, <1>10, <2>2, <2>3 DEF Following
  <2> QED  BY <1>1, <1>2, <1>4, <2>1, <2>4 DEF OrderViewInv
<1> QED  BY <1>11, <1>12

LEMMA OrderViewStep == OrderViewInv /\ [Command \/ Projection]_<<vars, read_vars>> => OrderViewInv'
<1> SUFFICES ASSUME OrderViewInv, [Command \/ Projection]_<<vars, read_vars>> PROVE OrderViewInv'
  OBVIOUS
<1>1. CASE Command
  <2>1. Next /\ Publish(Raised)
    BY <1>1 DEF Command
  <2>2. OrderInv /\ OrderInv'
    BY <2>1, NextKeeps DEF OrderViewInv
  <2>3. CASE Ignore
    <3>1. raised' = << >> /\ UNCHANGED <<status, items, pricing, payment, shipment_id>>
      BY <2>3 DEF Ignore
    <3>2. Raised = << >>
      BY <3>1 DEF Raised
    <3>3. PICK P : unread \in Seq(OrderEvents(P))
      BY DEF OrderViewInv, Following
    <3>4. unread \o << >> = unread
      BY <3>3
    <3>5. UNCHANGED read_vars
      <4>1. UNCHANGED <<view, row, redelivered>>
        BY <2>1 DEF Publish
      <4>2. unread' = IF view = "none" THEN unread ELSE unread \o << >>
        BY <2>1, <3>2 DEF Publish
      <4> QED  BY <3>4, <4>1, <4>2 DEF read_vars
    <3> QED  BY <2>2, <3>1, <3>5, SilentFollows
  <2>4. ASSUME NEW t, Says(t) PROVE OrderViewInv'
    BY <2>1, <2>2, <2>4, SaidFollows
  <2> QED  BY <2>1, <2>2, <2>3, <2>4, CommandSays
<1>2. CASE Projection
  BY <1>2, ProjectionFollows
<1>3. CASE UNCHANGED <<vars, read_vars>>
  <2>1. UNCHANGED <<status, items, pricing, payment, shipment_id>> /\ UNCHANGED read_vars
        /\ UNCHANGED vars
    BY <1>3 DEF vars
  <2>2. OrderInv'
    BY <2>1, NextKeeps DEF OrderViewInv
  <2> QED  BY <2>1, <2>2, SilentFollows
<1> QED  BY <1>1, <1>2, <1>3

(* What the invariant says of a projection that caught up.                 *)
LEMMA InvTellsOrder == OrderViewInv => OrderViewsFollow
<1> SUFFICES ASSUME OrderViewInv, CaughtUp
             PROVE  CASE view = "order_detail" -> DetailFollows
                      [] view = "order_summary" -> SummaryFollows
                      [] view = "abandoned_checkouts" -> AbandonedFollow
                      [] view = "daily_order_stats" -> StatsFollow
                      [] OTHER -> row.status = status
  BY DEF OrderViewsFollow
<1>0. PICK P : Following(P)
  BY DEF OrderViewInv
<1>1. unread = << >> /\ ~Unwritten /\ RowOK(view, row) /\ view \in Views
  BY DEF CaughtUp, Unwritten, OrderViewInv
<1>2. ASSUME NEW f \in Facets(view), f \in Summed => ~redelivered PROVE Tells(f, Part(f, row))
  <2>1. PICK x \in Values(f, P), y \in Values(f, P) :
          x = Part(f, row) /\ Leads(Steps(f, P), x, unread, y) /\ Tells(f, y)
    BY <1>0, <1>1, <1>2 DEF Following, FacetFollows
  <2>2. y = x
    BY <1>1, <2>1, LeadsNone
  <2> QED  BY <2>1, <2>2
<1>3. CASE view = "order_detail"
  <2>1. \A f \in {"status", "payment", "shipment", "subtotal", "grand_total"} :
          Tells(f, Part(f, row))
    BY <1>2, <1>3, FacetsAre DEF Summed
  <2>2. /\ row.status = status /\ row.payment = payment /\ row.shipment_id = shipment_id
        /\ row.subtotal = pricing.subtotal /\ row.grand_total = pricing.grand_total
    BY <2>1, PartIs, TellsIs
  <2>3. row.items \in Seq(DetailLine)
    BY <1>1, <1>3, RowIs
  <2>4. \A k \in 1..Len(row.items) : row.items[k] \in DetailLine
    BY <2>3
  <2>5. ASSUME NEW i \in ItemIds
        PROVE  \E x \in LineValues : ListsItem(row.items, i, x) /\ LineTells(i, x)
    <3>1. PICK x \in LineValues, y \in LineValues :
            ListsItem(row.items, i, x) /\ Leads(LineSteps(i, P), x, unread, y) /\ LineTells(i, y)
      BY <1>0, <1>1, <1>3 DEF Following, LineFollows
    <3>2. y = x
      BY <1>1, <3>1, LeadsNone
    <3> QED  BY <3>1, <3>2
  <2>6. ASSUME NEW i \in Lines(items), \A k \in 1..Len(row.items) : row.items[k].id # i
        PROVE  \E k \in 1..Len(row.items) :
                 row.items[k] = [item_id |-> i, id |-> "None", quantity |-> items[i].quantity]
    <3>1. i \in ItemIds /\ items[i] # NoItem
      BY DEF Lines
    <3>2. PICK x \in LineValues : ListsItem(row.items, i, x) /\ LineTells(i, x)
      BY <2>5, <3>1
    <3>3. x.quantity # 0 /\ x.quantity = items[i].quantity
      BY <2>6, <3>1, <3>2 DEF ListsItem, LineTells
    <3>4. PICK k \in 1..Len(row.items) : /\ row.items[k].item_id = i
                                         /\ row.items[k].quantity = x.quantity
      BY <3>2, <3>3 DEF ListsItem, FirstLine
    <3>5. row.items[k] = [item_id |-> i, id |-> "None", quantity |-> x.quantity]
      BY <2>4, <3>1, <3>4, OrderViewsAssumption DEF DetailLine
    <3> QED  BY <3>3, <3>5
  <2>7. ASSUME NEW k \in 1..Len(row.items), row.items[k].item_id \in ItemIds
        PROVE  items[row.items[k].item_id] # NoItem
    <3>1. PICK i \in ItemIds : i = row.items[k].item_id
      BY <2>7
    <3>2. PICK x \in LineValues : ListsItem(row.items, i, x) /\ LineTells(i, x)
      BY <2>5
    <3>3. PICK m \in 1..Len(row.items) : row.items[m].quantity = x.quantity
      BY <3>1, <3>2 DEF ListsItem, FirstLine
    <3>4. x.quantity # 0
      BY <2>4, <3>3 DEF DetailLine
    <3> QED  BY <3>1, <3>2, <3>4 DEF LineTells
  <2>8. DetailFollows
    BY <2>2, <2>6, <2>7 DEF DetailFollows
  <2> QED  BY <1>3, <2>8
<1>4. CASE view = "order_summary"
  <2>1. Tells("status", Part("status", row)) /\ Tells("grand_total", Part("grand_total", row))
        /\ (~redelivered => Tells("count", Part("count", row)))
    <3>1. {"status", "grand_total", "count"} = Facets(view)
      BY <1>4, FacetsAre
    <3>2. "status" \notin Summed /\ "grand_total" \notin Summed
      BY DEF Summed
    <3> QED  BY <1>2, <3>1, <3>2
  <2>2. SummaryFollows
    BY <2>1, PartIs, TellsIs DEF SummaryFollows
  <2> QED  BY <1>4, <2>2
<1>5. CASE view = "abandoned_checkouts"
  <2>1. Tells("open", Part("open", row))
    BY <1>2, <1>5, FacetsAre DEF Summed
  <2>2. OpenTells(row.status)
    BY <2>1, PartIs, TellsIs
  <2>3. row = NoRow \/ row = [status |-> "Created"]
    BY <1>1, <1>5 DEF RowOK
  <2>4. /\ row = NoRow => row.status = "None"
        /\ row # NoRow => row.status = "Created"
    BY <2>3 DEF NoRow
  <2>5. AbandonedFollow
    BY <2>2, <2>4 DEF OpenTells, AbandonedFollow
  <2> QED  BY <1>5, <2>5
<1>6. CASE view = "daily_order_stats"
  <2>1. ~redelivered => \A f \in {"created", "completed", "cancelled", "refunded"} :
                          Tells(f, Part(f, row))
    BY <1>2, <1>6, FacetsAre
  <2>2. StatsFollow
    BY <2>1, PartIs, TellsIs DEF StatsFollow, Counts
  <2> QED  BY <1>6, <2>2
<1>7. CASE view \in {"orders_by_status", "customer_orders", "order_timeline"}
  <2>1. Tells("status", Part("status", row))
    BY <1>2, <1>7, FacetsAre DEF Summed
  <2>2. row.status = status
    BY <2>1, PartIs, TellsIs
  <2> QED  BY <1>7, <2>2
<1> QED  BY <1>1, <1>3, <1>4, <1>5, <1>6, <1>7 DEF Views

(* Each of the seven projections of an order that caught up shows what the *)
(* order is, for any items, prices and payments: an event that is handled  *)
(* twice harms none but the counters.                                      *)
THEOREM OrderIsShown == ViewedOrder => []OrderViewsFollow
<1>1. ViewedOrder => []OrderViewInv
  BY StartFollows, OrderViewStep, PTL DEF ViewedOrder
<1> QED  BY <1>1, InvTellsOrder, PTL
==============================================================================
