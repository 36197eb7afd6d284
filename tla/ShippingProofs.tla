---------------------------- MODULE ShippingProofs ----------------------------
(***************************************************************************)
(* What is proved of a paid order on its way, for any items and any finite *)
(* number of reservations, of crashes and of retries: that no book is      *)
(* ahead of the parcel.                                                    *)
(***************************************************************************)
EXTENDS Shipping, FiniteSetTheorems, TLAPS

------------------------------------------------------------------------------
(* Why no book is ahead although messages come twice, late or after others *)
(* were lost: what a message says of the parcel was so when it was         *)
(* published, and the carrier never gives a parcel back.                   *)
CarrierHasIt == ff_status \in Parcel!AtCarrier

Holds(m) == /\ m.type = "ShipmentHandedOff" => CarrierHasIt
            /\ m.type = "DeliveryConfirmed" => ff_status = "Delivered"

(* The messages a subscription may have to handle.                         *)
Facts(s) == {m \in Message : m.type \in Handled[s] /\ Holds(m)}

StateOK ==
  /\ order_status \in {"Payment_Pending", "Paid", "Processing", "Shipped", "Delivered",
                       "Cancelled"}
  /\ ff_status \in Parcel!FulfillmentStatus \cup {"None"}
  /\ reservations \in [ReservationIds -> Stock!Reservation]
  /\ \A r \in ReservationIds : reservations[r].quantity = 1
  /\ committing \subseteq ReservationIds

QueuesOK == /\ queues \in [Subscriptions -> Seq(Message)]
            /\ \A s \in Subscriptions : queues[s] \in Seq(Facts(s))

(* The handler that commits the stock is busy with a message.              *)
CommitsShipment == committing # {} => CarrierHasIt /\ queues["stock/fulfillment"] # << >>

ShippingInv == StateOK /\ QueuesOK /\ CommitsShipment /\ BooksFollowParcel

------------------------------------------------------------------------------
(* What the parcel says is so, and stays so.                               *)
FactsStay == /\ CarrierHasIt => CarrierHasIt'
             /\ ff_status = "Delivered" => ff_status' = "Delivered"

ParcelActs ==
  /\ ff_status' \in Parcel!FulfillmentStatus \cup {"None"}
  /\ FactsStay
  /\ ff_raised' # << >> =>
       /\ Head(ff_raised') = "ShipmentHandedOff" => CarrierHasIt'
       /\ Head(ff_raised') = "DeliveryConfirmed" => ff_status' = "Delivered"

LEMMA ParcelNextActs == StateOK /\ Parcel!Next => ParcelActs
<1> SUFFICES ASSUME StateOK, Parcel!Next PROVE ParcelActs
  OBVIOUS
<1> USE DEF StateOK, ParcelActs, FactsStay, CarrierHasIt, Parcel!AtCarrier, Parcel!Raise,
            Parcel!MoveTo, Parcel!FulfillmentStatus
<1>0. /\ Parcel!CanTransition("Picking") => ff_status = "Pending"
      /\ Parcel!CanTransition("Shipped") => ff_status = "Ready_To_Ship"
      /\ Parcel!CanTransition("Delivered") => ff_status \in {"In_Transit", "Exception"}
      /\ Parcel!CanTransition("Exception") => ff_status = "In_Transit"
  BY DEF Parcel!CanTransition, Parcel!ValidTransitions
<1>1. CASE Parcel!CreateFulfillment
  BY <1>1 DEF Parcel!CreateFulfillment, Parcel!create
<1>2. CASE Parcel!AssignPicker
  BY <1>0, <1>2 DEF Parcel!AssignPicker, Parcel!assign_picker
<1>3. CASE Parcel!RecordItemPicked
  BY <1>3 DEF Parcel!RecordItemPicked, Parcel!record_item_picked
<1>4. CASE Parcel!CompletePickList
  BY <1>4 DEF Parcel!CompletePickList, Parcel!complete_pick_list
<1>5. CASE Parcel!RecordPacking
  BY <1>5 DEF Parcel!RecordPacking, Parcel!record_packing
<1>6. CASE Parcel!GenerateShippingLabel
  BY <1>6 DEF Parcel!GenerateShippingLabel, Parcel!generate_shipping_label
<1>7. CASE Parcel!RecordHandoff
  BY <1>0, <1>7 DEF Parcel!RecordHandoff, Parcel!record_handoff
<1>8. CASE Parcel!UpdateTrackingEvent
  BY <1>8 DEF Parcel!UpdateTrackingEvent, Parcel!add_tracking_event
<1>9. CASE Parcel!RecordDeliveryConfirmation
  BY <1>0, <1>9 DEF Parcel!RecordDeliveryConfirmation, Parcel!record_delivery
<1>10. CASE Parcel!RecordDeliveryException
  BY <1>0, <1>10 DEF Parcel!RecordDeliveryException, Parcel!record_exception
<1>11. CASE Parcel!CancelFulfillment
  BY <1>11 DEF Parcel!CancelFulfillment, Parcel!cancel, Parcel!CancellableStatuses
<1> QED
  BY <1>1, <1>2, <1>3, <1>4, <1>5, <1>6, <1>7, <1>8, <1>9, <1>10, <1>11 DEF Parcel!Next

LEMMA ParcelIdleActs == StateOK /\ ParcelIdle => ParcelActs
  BY DEF StateOK, ParcelIdle, ParcelActs, FactsStay, CarrierHasIt

(* The item counts what it holds: a commit takes one unit, once.           *)
StockActs ==
  /\ reservations' \in [ReservationIds -> Stock!Reservation]
  /\ \A r \in ReservationIds : reservations'[r].quantity = 1
  /\ stock_raised' # << >> => Head(stock_raised').reservation_id \in ReservationIds

InStock == {r \in ReservationIds : reservations[r].status # "Committed"}

LEMMA StockIdleActs ==
  StateOK /\ StockIdle => StockActs /\ UNCHANGED <<levels, reservations>>
  BY DEF StateOK, StockIdle, StockActs

LEMMA SettleActs ==
  ASSUME StateOK, Stock!ConfirmReservation \/ Stock!ReleaseReservation
  PROVE  StockActs /\ levels'.on_hand = levels.on_hand /\ InStock' = InStock
<1>1. PICK r \in ReservationIds, to \in {"Confirmed", "Released"} :
        /\ reservations[r].status = "Active"
        /\ reservations' = [reservations EXCEPT ![r].status = to]
        /\ levels'.on_hand = levels.on_hand
        /\ Head(stock_raised').reservation_id = r
  <2>1. CASE Stock!ConfirmReservation
    <3>1. PICK r \in ReservationIds : Stock!confirm_reservation(r)
      BY <2>1 DEF Stock!ConfirmReservation
    <3>2. /\ reservations[r].status = "Active"
          /\ reservations' = [reservations EXCEPT ![r].status = "Confirmed"]
          /\ levels'.on_hand = levels.on_hand
          /\ Head(stock_raised').reservation_id = r
      BY <3>1 DEF Stock!confirm_reservation, Stock!OnReservationConfirmed
    <3> QED  BY <3>2
  <2>2. CASE Stock!ReleaseReservation
    <3>1. PICK r \in ReservationIds : Stock!release_reservation(r)
      BY <2>2 DEF Stock!ReleaseReservation
    <3>2. /\ reservations[r].status = "Active"
          /\ reservations' = [reservations EXCEPT ![r].status = "Released"]
          /\ levels'.on_hand = levels.on_hand
          /\ Head(stock_raised').reservation_id = r
      BY <3>1 DEF Stock!release_reservation, Stock!OnReservationReleased
    <3> QED  BY <3>2
  <2> QED  BY <2>1, <2>2
<1>2. /\ [reservations[r] EXCEPT !.status = to] \in Stock!Reservation
      /\ [reservations[r] EXCEPT !.status = to].status = to
      /\ [reservations[r] EXCEPT !.status = to].quantity = 1
  BY DEF StateOK, Stock!Reservation, Stock!ReservationStatus
<1>3. /\ \A o \in ReservationIds \ {r} : reservations'[o] = reservations[o]
      /\ reservations'[r] = [reservations[r] EXCEPT !.status = to]
      /\ reservations' \in [ReservationIds -> Stock!Reservation]
  BY <1>1, <1>2 DEF StateOK
<1>4. InStock' = InStock
  BY <1>1, <1>2, <1>3 DEF InStock
<1>5. StockActs
  BY <1>1, <1>2, <1>3 DEF StockActs, StateOK
<1> QED  BY <1>1, <1>4, <1>5

LEMMA CommitActs ==
  ASSUME StateOK, levels.on_hand = Cardinality(InStock), NEW r \in ReservationIds,
         Stock!commit_stock(r)
  PROVE  StockActs /\ levels'.on_hand = Cardinality(InStock')
<1>1. /\ reservations[r].status = "Confirmed"
      /\ reservations' = [reservations EXCEPT ![r].status = "Committed"]
      /\ levels'.on_hand = levels.on_hand - 1
      /\ Head(stock_raised').reservation_id = r
  BY DEF StateOK, Stock!commit_stock, Stock!OnStockCommitted
<1>2. /\ [reservations[r] EXCEPT !.status = "Committed"] \in Stock!Reservation
      /\ [reservations[r] EXCEPT !.status = "Committed"].status = "Committed"
      /\ [reservations[r] EXCEPT !.status = "Committed"].quantity = 1
  BY DEF StateOK, Stock!Reservation, Stock!ReservationStatus
<1>3. /\ \A o \in ReservationIds \ {r} : reservations'[o] = reservations[o]
      /\ reservations'[r] = [reservations[r] EXCEPT !.status = "Committed"]
      /\ reservations' \in [ReservationIds -> Stock!Reservation]
  BY <1>1, <1>2 DEF StateOK
<1>4. InStock' = InStock \ {r} /\ r \in InStock
  BY <1>1, <1>2, <1>3 DEF InStock
<1>5. Cardinality(InStock \ {r}) = Cardinality(InStock) - 1
  <2>1. IsFiniteSet(InStock)
    BY ShippingAssumption, FS_Subset DEF InStock
  <2> QED  BY <1>4, <2>1, FS_RemoveElement
<1>6. StockActs
  BY <1>1, <1>2, <1>3 DEF StockActs, StateOK
<1> QED  BY <1>1, <1>4, <1>5, <1>6

------------------------------------------------------------------------------
(* Queues, as the next state sees what they hold.                          *)
LEMMA SeqGrows ==
  ASSUME NEW F, NEW G, F \subseteq G, NEW q \in Seq(F)
  PROVE  q \in Seq(G)
<1>1. Len(q) \in Nat /\ q \in [1..Len(q) -> F]
  OBVIOUS
<1>2. q \in [1..Len(q) -> G]
  BY <1>1
<1> QED  BY <1>1, <1>2

HoldFacts(q) == /\ q \in [Subscriptions -> Seq(Message)]
                /\ \A s \in Subscriptions : q[s] \in Seq(Facts(s)')

LEMMA KeptFacts ==
  ASSUME QueuesOK, FactsStay
  PROVE  /\ HoldFacts(queues)
         /\ \A s \in Subscriptions : queues[s] # << >> => HoldFacts(Take(s))
<1>1. \A s \in Subscriptions : queues[s] \in Seq(Facts(s)')
  <2>1. \A s : Facts(s) \subseteq Facts(s)'
    BY DEF Facts, Holds, FactsStay
  <2> QED  BY <2>1, SeqGrows DEF QueuesOK
<1>2. HoldFacts(queues)
  BY <1>1 DEF HoldFacts, QueuesOK
<1>3. ASSUME NEW s \in Subscriptions, queues[s] # << >>
      PROVE  HoldFacts(Take(s))
  <2>1. Tail(queues[s]) \in Seq(Message) /\ Tail(queues[s]) \in Seq(Facts(s)')
    BY <1>1, <1>3 DEF QueuesOK
  <2>2. Take(s) \in [Subscriptions -> Seq(Message)]
    BY <2>1 DEF Take, QueuesOK
  <2>3. \A t \in Subscriptions : Take(s)[t] = IF t = s THEN Tail(queues[s]) ELSE queues[t]
    BY DEF Take, QueuesOK
  <2> QED  BY <1>1, <2>1, <2>2, <2>3 DEF HoldFacts
<1> QED  BY <1>2, <1>3

LEMMA PublishedFacts ==
  ASSUME NEW q, HoldFacts(q), NEW subscriptions, NEW e,
         \A s \in subscriptions \cap Subscriptions :
           e.type \in Handled[s] => e \in Message /\ e \in Facts(s)'
  PROVE  HoldFacts(Publish(q, subscriptions, e))
<1> DEFINE p == Publish(q, subscriptions, e)
<1>1. DOMAIN q = Subscriptions
  BY DEF HoldFacts
<1>2. ASSUME NEW s \in Subscriptions
      PROVE  p[s] \in Seq(Message) /\ p[s] \in Seq(Facts(s)')
  <2>1. q[s] \in Seq(Message) /\ q[s] \in Seq(Facts(s)')
    BY DEF HoldFacts
  <2>2. CASE s \in subscriptions /\ e.type \in Handled[s]
    <3>1. e \in Message /\ e \in Facts(s)'
      BY <2>2
    <3>2. p[s] = Append(q[s], e)
      BY <1>1, <2>2 DEF Publish
    <3>3. \A F : q[s] \in Seq(F) /\ e \in F => Append(q[s], e) \in Seq(F)
      OBVIOUS
    <3> QED  BY <2>1, <3>1, <3>2, <3>3
  <2>3. CASE ~(s \in subscriptions /\ e.type \in Handled[s])
    <3>1. p[s] = q[s]
      BY <1>1, <2>3 DEF Publish
    <3> QED  BY <2>1, <3>1
  <2> QED  BY <2>2, <2>3
<1>3. p \in [Subscriptions -> Seq(Message)]
  BY <1>1, <1>2 DEF Publish
<1> QED  BY <1>2, <1>3 DEF HoldFacts

LEMMA StepPublishesFacts ==
  ASSUME NEW q, HoldFacts(q), ParcelActs, StockActs
  PROVE  HoldFacts(Published(q))
<1>1. /\ Handled["fulfillment/order"] = {"OrderCancelled"}
      /\ Handled["order/fulfillment"] = {"ShipmentHandedOff", "DeliveryConfirmed"}
      /\ Handled["stock/fulfillment"] = {"ShipmentHandedOff"}
      /\ Handled["view/stock"] = {"ReservationConfirmed", "ReservationReleased", "StockCommitted"}
  BY DEF Handled, Subscriptions
<1>2. HoldFacts(PublishedOrder(q))
  <2> DEFINE e == [type |-> Head(order_raised')]
  <2>1. e.type \in Handled["fulfillment/order"] => e \in Message /\ e \in Facts("fulfillment/order")'
    BY <1>1 DEF Message, Facts, Holds
  <2>2. HoldFacts(Publish(q, {"fulfillment/order"}, e))
    <3> HIDE DEF e
    <3> QED  BY <2>1, PublishedFacts
  <2> QED  BY <2>2 DEF PublishedOrder
<1>3. ASSUME NEW p, HoldFacts(p)
      PROVE  HoldFacts(PublishedParcel(p))
  <2> DEFINE e == [type |-> Head(ff_raised')]
  <2>1. ASSUME ff_raised' # << >>, NEW s \in {"order/fulfillment", "stock/fulfillment"},
               e.type \in Handled[s]
        PROVE  e \in Message /\ e \in Facts(s)'
    <3>1. e \in Message
      BY <1>1, <2>1 DEF Message
    <3>2. /\ e.type = "ShipmentHandedOff" => CarrierHasIt'
          /\ e.type = "DeliveryConfirmed" => ff_status' = "Delivered"
      BY <2>1 DEF ParcelActs
    <3> HIDE DEF e
    <3> QED  BY <2>1, <3>1, <3>2 DEF Facts, Holds
  <2>2. ff_raised' # << >> =>
          HoldFacts(Publish(p, {"order/fulfillment", "stock/fulfillment"}, e))
    <3> HIDE DEF e
    <3> QED  BY <1>3, <2>1, PublishedFacts
  <2> QED  BY <1>3, <2>2 DEF PublishedParcel
<1>4. ASSUME NEW p, HoldFacts(p)
      PROVE  HoldFacts(PublishedStock(p))
  <2> DEFINE event == Head(stock_raised')
             e == [type |-> event.type, reservation_id |-> event.reservation_id]
  <2>1. ASSUME stock_raised' # << >>, e.type \in Handled["view/stock"]
        PROVE  e \in Message /\ e \in Facts("view/stock")'
    <3>1. e \in Message
      BY <1>1, <2>1 DEF Message, StockActs
    <3> HIDE DEF e
    <3> QED  BY <1>1, <2>1, <3>1 DEF Facts, Holds
  <2>2. stock_raised' # << >> => HoldFacts(Publish(p, {"view/stock"}, e))
    <3> HIDE DEF e
    <3> QED  BY <1>4, <2>1, PublishedFacts
  <2> QED  BY <1>4, <2>2 DEF PublishedStock
<1> QED  BY <1>2, <1>3, <1>4 DEF Published

(* What is published never empties a queue.                                *)
LEMMA PublishKeepsWaiting ==
  ASSUME NEW q, HoldFacts(q), ParcelActs, StockActs, q["stock/fulfillment"] # << >>
  PROVE  Published(q)["stock/fulfillment"] # << >>
<1>1. "stock/fulfillment" \in Subscriptions
  BY DEF Subscriptions
<1> DEFINE Waiting(p) == DOMAIN p = Subscriptions /\ \E S : p["stock/fulfillment"] \in Seq(S) \ {<< >>}
<1>2. ASSUME NEW p, Waiting(p), NEW subscriptions, NEW e
      PROVE  Waiting(Publish(p, subscriptions, e))
  <2>1. PICK S : p["stock/fulfillment"] \in Seq(S) \ {<< >>}
    BY <1>2
  <2>2. p["stock/fulfillment"] \in Seq(S \cup {e})
    BY <2>1, SeqGrows
  <2>3. /\ Append(p["stock/fulfillment"], e) # << >>
        /\ Append(p["stock/fulfillment"], e) \in Seq(S \cup {e})
    BY <2>2
  <2> QED  BY <1>1, <1>2, <2>2, <2>3 DEF Publish
<1>3. Waiting(q)
  BY <1>1 DEF HoldFacts
<1> HIDE DEF Waiting
<1>4. Waiting(PublishedOrder(q))
  BY <1>2, <1>3 DEF PublishedOrder
<1>5. Waiting(PublishedParcel(PublishedOrder(q)))
  BY <1>2, <1>4 DEF PublishedParcel
<1>6. Waiting(Published(q))
  BY <1>2, <1>5 DEF PublishedStock, Published
<1> QED  BY <1>6 DEF Waiting

(* Whatever a step takes and publishes, the queues tell what is so, and    *)
(* the handler that is busy committing keeps its message.                  *)
LEMMA QueuesStay ==
  ASSUME ShippingInv, ParcelActs, StockActs, NEW s \in Subscriptions, queues[s] # << >>,
         \/ queues' \in {queues, Published(queues)}
         \/ /\ queues' \in {Take(s), Published(Take(s))}
            /\ s = "stock/fulfillment" => committing' = {},
         committing' # {} => committing # {} \/ s = "stock/fulfillment",
         committing' # {} => CarrierHasIt
  PROVE  QueuesOK' /\ CommitsShipment'
<1>1. HoldFacts(queues) /\ HoldFacts(Take(s))
  BY KeptFacts DEF ShippingInv, ParcelActs
<1>2. HoldFacts(queues')
  BY <1>1, StepPublishesFacts
<1>3. QueuesOK'
  BY <1>2 DEF HoldFacts, QueuesOK
<1>4. ASSUME committing' # {}
      PROVE  CarrierHasIt' /\ queues'["stock/fulfillment"] # << >>
  <2>1. queues["stock/fulfillment"] # << >>
    BY <1>4 DEF ShippingInv, CommitsShipment
  <2>2. s # "stock/fulfillment" => Take(s)["stock/fulfillment"] # << >>
    BY <2>1 DEF Take, ShippingInv, QueuesOK, Subscriptions
  <2>3. queues'["stock/fulfillment"] # << >>
    BY <1>1, <1>4, <2>1, <2>2, PublishKeepsWaiting
  <2> QED  BY <1>4, <2>3 DEF ParcelActs, FactsStay
<1> QED  BY <1>3, <1>4 DEF CommitsShipment

(* A command of the API takes no message.                                  *)
LEMMA QueuesStayOnCall ==
  ASSUME ShippingInv, ParcelActs, StockActs, queues' \in {queues, Published(queues)},
         committing' \subseteq committing
  PROVE  QueuesOK' /\ CommitsShipment'
<1>1. HoldFacts(queues')
  BY KeptFacts, StepPublishesFacts DEF ShippingInv, ParcelActs
<1>2. QueuesOK'
  BY <1>1 DEF HoldFacts, QueuesOK
<1>3. CommitsShipment'
  <2> SUFFICES ASSUME committing' # {}
               PROVE  CarrierHasIt' /\ queues'["stock/fulfillment"] # << >>
    BY DEF CommitsShipment
  <2>1. committing # {}
    OBVIOUS
  <2>2. HoldFacts(queues)
    BY KeptFacts DEF ShippingInv, ParcelActs
  <2> QED  BY <2>1, <2>2, PublishKeepsWaiting
           DEF ShippingInv, CommitsShipment, ParcelActs, FactsStay
<1> QED  BY <1>2, <1>3

(* The two aggregates behind the parcel catch up with it, or stay.         *)
LEMMA BooksStay ==
  ASSUME ShippingInv, ParcelActs, StockActs,
         \/ UNCHANGED <<order_status, order_shipment>>
         \/ order_status' \in {"Paid", "Processing", "Cancelled"}
         \/ /\ CarrierHasIt /\ order_status' = "Shipped" /\ order_shipment' = "fulfillment"
         \/ /\ ff_status = "Delivered" /\ order_status = "Shipped"
            /\ order_status' = "Delivered" /\ UNCHANGED order_shipment,
         \/ levels'.on_hand = levels.on_hand /\ InStock' = InStock
         \/ CarrierHasIt /\ levels'.on_hand = Cardinality(InStock'),
         committing' \subseteq ReservationIds
  PROVE  StateOK' /\ BooksFollowParcel'
<1>1. StateOK'
  BY DEF ShippingInv, StateOK, ParcelActs, StockActs
<1>2. /\ CarrierHasIt => CarrierHasIt'
      /\ ff_status = "Delivered" => ff_status' = "Delivered" /\ CarrierHasIt
  BY DEF ParcelActs, FactsStay, CarrierHasIt, Parcel!AtCarrier
<1>3. /\ order_status' \in {"Shipped", "Delivered"} =>
           CarrierHasIt' /\ order_shipment' = "fulfillment"
      /\ order_status' = "Delivered" => ff_status' = "Delivered"
  BY <1>2 DEF ShippingInv, BooksFollowParcel, CarrierHasIt
<1>4. levels'.on_hand = Cardinality(InStock')
  BY DEF ShippingInv, BooksFollowParcel, InStock
<1>5. (\E r \in ReservationIds : reservations'[r].status = "Committed") => CarrierHasIt'
  <2>1. CASE CarrierHasIt
    BY <1>2, <2>1
  <2>2. CASE ~CarrierHasIt
    <3>1. \A r \in ReservationIds : r \in InStock
      BY <2>2 DEF ShippingInv, BooksFollowParcel, InStock, CarrierHasIt
    <3>2. \A r \in ReservationIds : r \in InStock'
      BY <2>2, <3>1
    <3> QED  BY <3>2 DEF InStock
  <2> QED  BY <2>1, <2>2
<1> QED  BY <1>1, <1>3, <1>4, <1>5 DEF BooksFollowParcel, CarrierHasIt, InStock

------------------------------------------------------------------------------
(* The steps.                                                              *)
LEMMA CallKeeps ==
  ASSUME ShippingInv, OrderCall \/ ParcelCall \/ StockCall
  PROVE  ShippingInv'
<1>0. StateOK /\ queues' = Published(queues) /\ committing' = committing
  BY DEF ShippingInv, OrderCall, ParcelCall, StockCall, Call
<1>1. committing' \subseteq committing /\ committing' \subseteq ReservationIds
  BY <1>0 DEF StateOK
<1>2. CASE OrderCall
  <2>1. ParcelActs /\ StockActs /\ levels'.on_hand = levels.on_hand /\ InStock' = InStock
    BY <1>0, <1>2, ParcelIdleActs, StockIdleActs DEF OrderCall, InStock
  <2>2. order_status' \in {"Paid", "Processing", "Cancelled"}
    BY <1>2 DEF OrderCall, Ord!record_payment_success, Ord!cancel, Ord!mark_processing,
       Ord!Ignore, Ord!MoveTo
  <2> QED  BY <1>0, <1>1, <2>1, <2>2, BooksStay, QueuesStayOnCall DEF ShippingInv
<1>3. CASE ParcelCall
  <2>1. ParcelActs
    BY <1>0, <1>3, ParcelNextActs DEF ParcelCall
  <2>2. StockActs /\ levels'.on_hand = levels.on_hand /\ InStock' = InStock
    BY <1>0, <1>3, StockIdleActs DEF ParcelCall, InStock
  <2>3. UNCHANGED <<order_status, order_shipment>>
    BY <1>3 DEF ParcelCall, OrderIdle
  <2> QED  BY <1>0, <1>1, <2>1, <2>2, <2>3, BooksStay, QueuesStayOnCall DEF ShippingInv
<1>4. CASE StockCall
  <2>1. ParcelActs
    BY <1>0, <1>4, ParcelIdleActs DEF StockCall
  <2>2. StockActs /\ levels'.on_hand = levels.on_hand /\ InStock' = InStock
    BY <1>0, <1>4, SettleActs DEF StockCall
  <2>3. UNCHANGED <<order_status, order_shipment>>
    BY <1>4 DEF StockCall, OrderIdle
  <2> QED  BY <1>0, <1>1, <2>1, <2>2, <2>3, BooksStay, QueuesStayOnCall DEF ShippingInv
<1> QED  BY <1>2, <1>3, <1>4

(* The message at the head of a queue that has one.                        *)
LEMMA OldestIsFact ==
  ASSUME QueuesOK, NEW s \in Subscriptions, queues[s] # << >>
  PROVE  Head(queues[s]) \in Facts(s)
  BY DEF QueuesOK

LEMMA OrderEventKeeps ==
  ASSUME ShippingInv, on_order_cancelled
  PROVE  ShippingInv'
<1> DEFINE s == "fulfillment/order"
<1>0. StateOK /\ s \in Subscriptions /\ queues[s] # << >>
  BY DEF ShippingInv, on_order_cancelled, Receives, Subscriptions
<1>1. /\ OrderIdle /\ StockIdle /\ committing' = committing
      /\ queues' \in {Published(Take(s)), Published(queues)}
      /\ ParcelIdle \/ Parcel!cancel
  BY DEF on_order_cancelled, Done
<1>2. ParcelActs
  <2>1. Parcel!cancel => Parcel!Next
    BY DEF Parcel!Next, Parcel!CancelFulfillment
  <2> QED  BY <1>0, <1>1, <2>1, ParcelIdleActs, ParcelNextActs
<1>3. StockActs /\ levels'.on_hand = levels.on_hand /\ InStock' = InStock
  BY <1>0, <1>1, StockIdleActs DEF InStock
<1>4. UNCHANGED <<order_status, order_shipment>>
  BY <1>1 DEF OrderIdle
<1>5. committing' \subseteq ReservationIds /\ (committing' # {} => CarrierHasIt)
  BY <1>1 DEF ShippingInv, StateOK, CommitsShipment
<1>6. s # "stock/fulfillment"
  OBVIOUS
<1> HIDE DEF s
<1>7. StateOK' /\ BooksFollowParcel'
  BY <1>2, <1>3, <1>4, <1>5, BooksStay
<1>8. QueuesOK' /\ CommitsShipment'
  BY <1>0, <1>1, <1>2, <1>3, <1>5, <1>6, QueuesStay
<1> QED  BY <1>7, <1>8 DEF ShippingInv

LEMMA FulfillmentEventKeeps ==
  ASSUME ShippingInv, on_shipment_handed_off \/ on_delivery_confirmed
  PROVE  ShippingInv'
<1> DEFINE s == "order/fulfillment"
<1>0. StateOK /\ s \in Subscriptions /\ queues[s] # << >>
  BY DEF ShippingInv, on_shipment_handed_off, on_delivery_confirmed, Receives, Subscriptions
<1>1. /\ ParcelIdle /\ StockIdle /\ committing' = committing
      /\ queues' \in {queues, Published(queues), Take(s), Published(Take(s))}
  BY DEF on_shipment_handed_off, on_delivery_confirmed, Done, Failed
<1>2. ParcelActs /\ StockActs /\ levels'.on_hand = levels.on_hand /\ InStock' = InStock
  BY <1>0, <1>1, ParcelIdleActs, StockIdleActs DEF InStock
<1>3. Head(queues[s]) \in Facts(s)
  BY <1>0, OldestIsFact DEF ShippingInv
<1>4. \/ UNCHANGED <<order_status, order_shipment>>
      \/ /\ CarrierHasIt /\ order_status' = "Shipped" /\ order_shipment' = "fulfillment"
      \/ /\ ff_status = "Delivered" /\ order_status = "Shipped"
         /\ order_status' = "Delivered" /\ UNCHANGED order_shipment
  <2>1. CASE on_shipment_handed_off
    <3>1. CarrierHasIt
      BY <1>3, <2>1 DEF on_shipment_handed_off, Receives, Facts, Holds
    <3> QED  BY <2>1, <3>1 DEF on_shipment_handed_off, Ord!record_shipment, OrderIdle
  <2>2. CASE on_delivery_confirmed
    <3>1. ff_status = "Delivered"
      BY <1>3, <2>2 DEF on_delivery_confirmed, Receives, Facts, Holds
    <3>2. Ord!CanTransition("Delivered") => order_status = "Shipped"
      BY DEF ShippingInv, StateOK, Ord!CanTransition, Ord!ValidTransitions, Ord!OrderStatus
    <3> QED  BY <2>2, <3>1, <3>2 DEF on_delivery_confirmed, Ord!record_delivery, OrderIdle
  <2> QED  BY <2>1, <2>2
<1>5. committing' \subseteq ReservationIds /\ (committing' # {} => CarrierHasIt)
  BY <1>1 DEF ShippingInv, StateOK, CommitsShipment
<1>6. s # "stock/fulfillment"
  OBVIOUS
<1> HIDE DEF s
<1>7. StateOK' /\ BooksFollowParcel'
  BY <1>2, <1>4, <1>5, BooksStay
<1>8. QueuesOK' /\ CommitsShipment'
  BY <1>0, <1>1, <1>2, <1>5, <1>6, QueuesStay
<1> QED  BY <1>7, <1>8 DEF ShippingInv

(* Inventory commits while the message that tells of the handoff waits.    *)
LEMMA CommitKeeps ==
  ASSUME ShippingInv, Commit \/ CommitCrashes
  PROVE  ShippingInv'
<1> DEFINE s == "stock/fulfillment"
<1>0. /\ StateOK /\ s \in Subscriptions /\ queues[s] # << >>
      /\ OrderIdle /\ ParcelIdle
  BY DEF ShippingInv, CommitsShipment, Commit, CommitCrashes, commit_shipped, CommitNext,
     CommitRefused, Receives, Subscriptions
<1>1. CarrierHasIt
  <2>1. Head(queues[s]) \in Facts(s)
    BY <1>0, OldestIsFact DEF ShippingInv
  <2>2. commit_shipped => Head(queues[s]).type = "ShipmentHandedOff"
    BY DEF commit_shipped, Receives
  <2>3. CommitNext \/ CommitRefused \/ CommitCrashes => committing # {}
    BY DEF CommitNext, CommitRefused, CommitCrashes
  <2> QED  BY <2>1, <2>2, <2>3 DEF Commit, ShippingInv, CommitsShipment, Facts, Holds
<1>2. ParcelActs /\ UNCHANGED <<order_status, order_shipment>>
  BY <1>0, ParcelIdleActs DEF OrderIdle
<1>3. /\ StockActs
      /\ \/ levels'.on_hand = levels.on_hand /\ InStock' = InStock
         \/ levels'.on_hand = Cardinality(InStock')
  <2>1. StockIdle => StockActs /\ levels'.on_hand = levels.on_hand /\ InStock' = InStock
    BY <1>0, StockIdleActs DEF InStock
  <2>2. CASE CommitNext
    <3>1. PICK r \in ReservationIds : Stock!commit_stock(r)
      BY <1>0, <2>2 DEF CommitNext, StateOK
    <3>2. levels.on_hand = Cardinality(InStock)
      BY DEF ShippingInv, BooksFollowParcel, InStock
    <3> QED  BY <1>0, <3>1, <3>2, CommitActs
  <2> QED  BY <2>1, <2>2 DEF Commit, commit_shipped, CommitRefused, CommitCrashes
<1>4. /\ committing' \subseteq ReservationIds
      /\ \/ queues' \in {queues, Published(queues)}
         \/ queues' \in {Take(s), Published(Take(s))} /\ committing' = {}
  <2>1. CASE commit_shipped
    <3>1. confirmed \subseteq ReservationIds
      BY DEF confirmed
    <3> QED  BY <2>1, <3>1 DEF commit_shipped, Done
  <2>2. CASE CommitNext
    BY <1>0, <2>2 DEF CommitNext, Done, StateOK
  <2>3. CASE CommitRefused
    BY <2>3 DEF CommitRefused, Failed
  <2>4. CASE CommitCrashes
    BY <2>4 DEF CommitCrashes
  <2> QED  BY <2>1, <2>2, <2>3, <2>4 DEF Commit
<1>5. s = "stock/fulfillment"
  OBVIOUS
<1> HIDE DEF s
<1>6. StateOK' /\ BooksFollowParcel'
  BY <1>1, <1>2, <1>3, <1>4, BooksStay
<1>7. QueuesOK' /\ CommitsShipment'
  BY <1>0, <1>1, <1>2, <1>3, <1>4, <1>5, QueuesStay
<1> QED  BY <1>6, <1>7 DEF ShippingInv

LEMMA ProjectionKeeps ==
  ASSUME ShippingInv, ReservationStatusProjector
  PROVE  ShippingInv'
<1> DEFINE s == "view/stock"
<1>0. StateOK /\ s \in Subscriptions /\ queues[s] # << >>
  BY DEF ShippingInv, ReservationStatusProjector, Subscriptions
<1>1. /\ OrderIdle /\ ParcelIdle /\ StockIdle /\ committing' = committing
      /\ queues' \in {Published(Take(s)), Published(queues)}
  BY DEF ReservationStatusProjector, Done
<1>2. /\ ParcelActs /\ StockActs /\ levels'.on_hand = levels.on_hand /\ InStock' = InStock
      /\ UNCHANGED <<order_status, order_shipment>>
  BY <1>0, <1>1, ParcelIdleActs, StockIdleActs DEF InStock, OrderIdle
<1>3. committing' \subseteq ReservationIds /\ (committing' # {} => CarrierHasIt)
  BY <1>1 DEF ShippingInv, StateOK, CommitsShipment
<1>4. s # "stock/fulfillment"
  OBVIOUS
<1> HIDE DEF s
<1>5. StateOK' /\ BooksFollowParcel'
  BY <1>2, <1>3, BooksStay
<1>6. QueuesOK' /\ CommitsShipment'
  BY <1>0, <1>1, <1>2, <1>3, <1>4, QueuesStay
<1> QED  BY <1>5, <1>6 DEF ShippingInv

LEMMA StepKeeps == ShippingInv /\ [Next]_vars => ShippingInv'
<1> SUFFICES ASSUME ShippingInv, [Next]_vars PROVE ShippingInv'
  OBVIOUS
<1>1. CASE UNCHANGED vars
  <2>1. UNCHANGED <<order_status, order_shipment, ff_status, levels, reservations, committing,
                    queues>>
    BY <1>1 DEF vars, order_vars, ff_vars, stock_vars
  <2>2. \A s \in Subscriptions : Facts(s)' = Facts(s)
    BY <2>1 DEF Facts, Holds, CarrierHasIt
  <2> QED  BY <2>1, <2>2 DEF ShippingInv, StateOK, QueuesOK, CommitsShipment, CarrierHasIt,
              BooksFollowParcel
<1> QED  BY <1>1, CallKeeps, OrderEventKeeps, FulfillmentEventKeeps, CommitKeeps, ProjectionKeeps
         DEF Next, OrderEvents, FulfillmentEvents

LEMMA InitIsSafe == Init => ShippingInv
<1> SUFFICES ASSUME Init PROVE ShippingInv
  OBVIOUS
<1>1. \A r \in ReservationIds :
        reservations[r] = [status |-> "Active", quantity |-> 1, order_id |-> "order"]
  BY DEF Init
<1>2. StateOK
  <2>1. [status |-> "Active", quantity |-> 1, order_id |-> "order"] \in Stock!Reservation
    BY DEF Stock!Reservation, Stock!ReservationStatus
  <2>2. reservations \in [ReservationIds -> Stock!Reservation]
    BY <2>1 DEF Init
  <2> QED  BY <1>1, <2>2 DEF Init, StateOK, Parcel!Init
<1>3. QueuesOK
  BY DEF Init, QueuesOK
<1>4. BooksFollowParcel
  <2>1. InStock = ReservationIds
    BY <1>1 DEF InStock
  <2>2. levels.on_hand = Cardinality(InStock)
    BY <2>1 DEF Init
  <2> QED  BY <1>1, <2>2 DEF Init, BooksFollowParcel, InStock
<1> QED  BY <1>2, <1>3, <1>4 DEF Init, ShippingInv, CommitsShipment

(***************************************************************************)
(* The order is Shipped, and its stock committed, only when the carrier    *)
(* has the parcel, it is Delivered only when the carrier says so, and no   *)
(* reservation leaves the stock twice, whichever handlers die, fail or are *)
(* given their message again (fulfillment_events.py of Ordering and        *)
(* Inventory, order.py, stock.py, fulfillment.py).                         *)
(***************************************************************************)
THEOREM NoBookAheadOfParcel == Spec => []BooksFollowParcel
<1>1. Spec => []ShippingInv
  BY InitIsSafe, StepKeeps, PTL DEF Spec
<1>2. ShippingInv => BooksFollowParcel
  BY DEF ShippingInv
<1> QED  BY <1>1, <1>2, PTL
==============================================================================
