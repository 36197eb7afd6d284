----------------------------- MODULE Fulfillment -----------------------------
(***************************************************************************)
(* The Fulfillment aggregate (fulfillment/fulfillment/fulfillment.py): one *)
(* order on its way from the shelf to the customer, with its commands and  *)
(* their handlers.  Commands come from warehouse staff and the carrier's   *)
(* webhooks, in any order; a rejected one is no step.  Who picked and      *)
(* packed, and the packages, are data no command looks at, and are left    *)
(* out; so is the log of tracking events, which ParcelViews keeps.         *)
(***************************************************************************)
EXTENDS Sequences

CONSTANT ItemIds   \* uuid4 values the items may get

VARIABLES
  status,    \* FulfillmentStatus, "None" before the fulfillment is created
  items,     \* item id -> FulfillmentItemStatus, "None" where there is no item
  packed,    \* packing_info.packed_at is set
  shipment,  \* ShipmentInfo: which of its fields are set
  raised     \* events the last command raised

vars == <<status, items, packed, shipment, raised>>

------------------------------------------------------------------------------
FulfillmentStatus == {"Pending", "Picking", "Packing", "Ready_To_Ship", "Shipped",
                      "In_Transit", "Delivered", "Exception", "Cancelled"}

FulfillmentItemStatus == {"Pending", "Picked", "Packed"}

ShipmentInfo == SUBSET {"carrier", "tracking_number", "actual_delivery"}

EventType == {"FulfillmentCreated", "PickerAssigned", "ItemPicked", "PickingCompleted",
              "PackingCompleted", "ShippingLabelGenerated", "ShipmentHandedOff",
              "TrackingEventReceived", "DeliveryConfirmed", "DeliveryException",
              "FulfillmentCancelled"}

TypeOK == /\ status \in FulfillmentStatus \cup {"None"}
          /\ items \in [ItemIds -> FulfillmentItemStatus \cup {"None"}]
          /\ packed \in BOOLEAN
          /\ shipment \in ShipmentInfo
          /\ raised \in Seq(EventType)

(* _VALID_TRANSITIONS                                                      *)
ValidTransitions ==
  [s \in FulfillmentStatus |->
     CASE s = "Pending"       -> {"Picking", "Cancelled"}
       [] s = "Picking"       -> {"Packing", "Cancelled"}
       [] s = "Packing"       -> {"Ready_To_Ship", "Cancelled"}
       [] s = "Ready_To_Ship" -> {"Shipped", "Cancelled"}
       [] s = "Shipped"       -> {"In_Transit"}
       [] s = "In_Transit"    -> {"Delivered", "Exception"}
       [] s = "Exception"     -> {"In_Transit", "Delivered"}
       [] s = "Delivered"     -> {}
       [] s = "Cancelled"     -> {}]

CanTransition(target) == status # "None" /\ target \in ValidTransitions[status]

(* Mutant: a parcel the carrier has is cancelled as well.                  *)
CancellableStatuses_Shipped == {"Pending", "Picking", "Packing", "Ready_To_Ship", "Shipped"}

CancellableStatuses == {"Pending", "Picking", "Packing", "Ready_To_Ship"}

Present == {i \in ItemIds : items[i] # "None"}

Raise(event) == raised' = <<event>>

MoveTo(target, event) ==
  /\ status' = target
  /\ Raise(event)
  /\ UNCHANGED <<items, packed, shipment>>

------------------------------------------------------------------------------
(* One order may be given any number of items, but not none.               *)
create(ids) ==
  /\ status = "None"
  /\ ids # {}
  /\ status' = "Pending"
  /\ items' = [i \in ItemIds |-> IF i \in ids THEN "Pending" ELSE "None"]
  /\ Raise("FulfillmentCreated")
  /\ UNCHANGED <<packed, shipment>>

assign_picker == CanTransition("Picking") /\ MoveTo("Picking", "PickerAssigned")

record_item_picked(item_id) ==
  /\ status = "Picking"
  /\ items[item_id] = "Pending"
  /\ items' = [items EXCEPT ![item_id] = "Picked"]
  /\ Raise("ItemPicked")
  /\ UNCHANGED <<status, packed, shipment>>

(* Mutant: one item picked is enough.                                      *)
complete_pick_list_Any ==
  /\ status = "Picking"
  /\ \E i \in Present : items[i] = "Picked"
  /\ MoveTo("Packing", "PickingCompleted")

complete_pick_list ==
  /\ status = "Picking"
  /\ \A i \in Present : items[i] = "Picked"
  /\ MoveTo("Packing", "PickingCompleted")

(* May be repeated while the fulfillment is in Packing.                    *)
record_packing ==
  /\ status = "Packing"
  /\ items' = [i \in ItemIds |-> IF i \in Present THEN "Packed" ELSE "None"]
  /\ packed' = TRUE
  /\ Raise("PackingCompleted")
  /\ UNCHANGED <<status, shipment>>

generate_shipping_label ==
  /\ status = "Packing"
  /\ packed
  /\ status' = "Ready_To_Ship"
  /\ shipment' = {"carrier"}
  /\ Raise("ShippingLabelGenerated")
  /\ UNCHANGED <<items, packed>>

(* The event names every item, as ordered.                                 *)
record_handoff ==
  /\ CanTransition("Shipped")
  /\ status' = "Shipped"
  /\ shipment' = (shipment \cap {"carrier"}) \cup {"tracking_number"}
  /\ Raise("ShipmentHandedOff")
  /\ UNCHANGED <<items, packed>>

(* The first scan, and one after an exception, puts the parcel in transit. *)
add_tracking_event ==
  /\ status \in {"Shipped", "In_Transit", "Exception"}
  /\ MoveTo("In_Transit", "TrackingEventReceived")

record_delivery ==
  /\ CanTransition("Delivered")
  /\ status' = "Delivered"
  /\ shipment' = IF shipment = {} THEN {} ELSE shipment \cup {"actual_delivery"}
  /\ Raise("DeliveryConfirmed")
  /\ UNCHANGED <<items, packed>>

record_exception == CanTransition("Exception") /\ MoveTo("Exception", "DeliveryException")

cancel == status \in CancellableStatuses /\ MoveTo("Cancelled", "FulfillmentCancelled")

------------------------------------------------------------------------------
(* The command handlers.                                                   *)
CreateFulfillment == \E ids \in SUBSET ItemIds : create(ids)

AssignPicker == assign_picker

RecordItemPicked == \E i \in ItemIds : record_item_picked(i)

CompletePickList == complete_pick_list

RecordPacking == record_packing

GenerateShippingLabel == generate_shipping_label

RecordHandoff == record_handoff

UpdateTrackingEvent == add_tracking_event

RecordDeliveryConfirmation == record_delivery

RecordDeliveryException == record_exception

CancelFulfillment == cancel

Init == /\ status = "None"
        /\ items = [i \in ItemIds |-> "None"]
        /\ packed = FALSE
        /\ shipment = {}
        /\ raised = << >>

Next == \/ CreateFulfillment
        \/ AssignPicker \/ RecordItemPicked \/ CompletePickList
        \/ RecordPacking \/ GenerateShippingLabel
        \/ RecordHandoff \/ UpdateTrackingEvent
        \/ RecordDeliveryConfirmation \/ RecordDeliveryException
        \/ CancelFulfillment

Spec == Init /\ [][Next]_vars

------------------------------------------------------------------------------
AtCarrier == {"Shipped", "In_Transit", "Exception", "Delivered"}

(* Nothing leaves the warehouse that was not picked and packed: from the   *)
(* label on, every item went through the whole pipeline, the parcel at the *)
(* carrier bears the label's carrier and the handoff's tracking number,    *)
(* and no date of delivery is there before the delivery.                   *)
ParcelComplete ==
  /\ status \in AtCarrier \cup {"Ready_To_Ship"} =>
       Present # {} /\ \A i \in Present : items[i] = "Packed"
  /\ status \in {"Packing", "Ready_To_Ship"} \cup AtCarrier =>
       \A i \in Present : items[i] \in {"Picked", "Packed"}
  /\ status \in AtCarrier <=> "tracking_number" \in shipment
  /\ "tracking_number" \in shipment => "carrier" \in shipment
  /\ status = "Delivered" <=> "actual_delivery" \in shipment
==============================================================================
