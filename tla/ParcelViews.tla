----------------------------- MODULE ParcelViews -----------------------------
(***************************************************************************)
(* The projections of Fulfillment (fulfillment/projections), for one       *)
(* parcel on a few days, with what the carrier's scans say.  Locations,    *)
(* times and names are left out.                                           *)
(***************************************************************************)
EXTENDS Fulfillment, ReadModel, UnitSums

CONSTANTS
  Days,          \* dates on which something happens to the parcel
  MaxExceptions, \* bound of the model: failed deliveries of it
  Scans,         \* what the carrier may call the status of a parcel
  MaxTracked     \* bound of the model: of the log of tracking events

VARIABLES
  day,              \* today
  exceptions,       \* failed deliveries so far
  tracking_events   \* the fulfillment's own log: the status of every entry

parcel_vars == <<vars, day, exceptions, tracking_events>>

------------------------------------------------------------------------------
ParcelViewNames == {"fulfillment_status", "shipment_tracking", "warehouse_queue",
                    "daily_shipments", "delivery_performance"}

(* The scan is what UpdateTrackingEvent reports; other events carry none.  *)
ParcelRaised(scan) ==
  [k \in 1..Len(raised') |->
     [type |-> raised'[k], day |-> day,
      status |-> IF raised'[k] = "TrackingEventReceived" THEN scan ELSE "none"]]

(* What add_tracking_event and record_exception log.                       *)
Logged(scan) ==
  CASE status' = "In_Transit" -> Append(tracking_events, scan)
    [] status' = "Exception" -> Append(tracking_events, "EXCEPTION")
    [] OTHER -> tracking_events

Carriers == {"own", "other"}  \* the parcel's carrier and another one

------------------------------------------------------------------------------
(* Projectors: what the projection is after event e, if it was r before.   *)
StatusAfterEvent ==
  [FulfillmentCreated |-> "Pending", PickerAssigned |-> "Picking", PickingCompleted |-> "Packing",
   ShippingLabelGenerated |-> "Ready_To_Ship", ShipmentHandedOff |-> "Shipped",
   TrackingEventReceived |-> "In_Transit", DeliveryConfirmed |-> "Delivered",
   DeliveryException |-> "Exception", FulfillmentCancelled |-> "Cancelled"]

on_fulfillment_status(r, e) ==
  CASE e.type \notin DOMAIN StatusAfterEvent -> r
    [] e.type = "ShippingLabelGenerated" -> [r EXCEPT !.status = "Ready_To_Ship",
                                                      !.carrier = TRUE]
    [] e.type = "ShipmentHandedOff" -> [r EXCEPT !.status = "Shipped", !.carrier = TRUE,
                                                 !.tracking_number = TRUE]
    [] OTHER -> [r EXCEPT !.status = StatusAfterEvent[e.type]]

CarrierReports == {"TrackingEventReceived", "DeliveryConfirmed", "DeliveryException"}

(* A scan is shown as the carrier words it.                                *)
Reported(e) == IF e.type = "TrackingEventReceived" THEN e.status ELSE StatusAfterEvent[e.type]

(* The row is made at the handoff; what the warehouse does before is of no *)
(* interest.                                                               *)
on_shipment_tracking(r, e) ==
  CASE e.type = "ShipmentHandedOff" -> [current_status |-> "Shipped", events |-> << >>]
    [] e.type \in CarrierReports ->
         [current_status |-> Reported(e), events |-> Append(r.events, Reported(e))]
    [] OTHER -> r

(* Mutant: what was cancelled stays in the queue as it was.                *)
on_warehouse_queue_Kept(r, e) ==
  CASE e.type = "PackingCompleted" -> "Packed"
    [] e.type \in {"FulfillmentCreated", "PickerAssigned", "PickingCompleted",
                   "ShipmentHandedOff"} -> StatusAfterEvent[e.type]
    [] OTHER -> r

(* The label is not followed, nor what happens to a parcel that left.      *)
on_warehouse_queue(r, e) ==
  CASE e.type = "PackingCompleted" -> "Packed"
    [] e.type \in {"FulfillmentCreated", "PickerAssigned", "PickingCompleted",
                   "ShipmentHandedOff", "FulfillmentCancelled"} -> StatusAfterEvent[e.type]
    [] OTHER -> r

Counted == [FulfillmentCreated |-> "created", ShipmentHandedOff |-> "shipped",
            DeliveryConfirmed |-> "delivered", DeliveryException |-> "exceptions"]

on_daily_shipments(r, e) ==
  IF e.type \in DOMAIN Counted THEN [r EXCEPT ![e.day][Counted[e.type]] = @ + 1] ELSE r

(* A delivery, or a failed one, counts for whichever carrier the query of  *)
(* its day lists first, if any shipped something that day.                 *)
on_delivery_performance(r, e) ==
  LET rows == {c \in Carriers : r[c, e.day].shipped > 0} IN
  CASE e.type = "ShipmentHandedOff" -> {[r EXCEPT ![<<"own", e.day>>].shipped = @ + 1]}
    [] e.type \in {"DeliveryConfirmed", "DeliveryException"} /\ rows # {} ->
         {[r EXCEPT ![<<c, e.day>>][Counted[e.type]] = @ + 1] : c \in rows}
    [] OTHER -> {r}

ParcelProjected(r, e) ==
  CASE view = "fulfillment_status" -> {on_fulfillment_status(r, e)}
    [] view = "shipment_tracking" -> {on_shipment_tracking(r, e)}
    [] view = "warehouse_queue" -> {on_warehouse_queue(r, e)}
    [] view = "daily_shipments" -> {on_daily_shipments(r, e)}
    [] view = "delivery_performance" -> on_delivery_performance(r, e)

(* Before there is a fulfillment.  The other carrier may have parcels of   *)
(* its own on any day.                                                     *)
ParcelRows ==
  LET none == [shipped |-> 0, delivered |-> 0, exceptions |-> 0] IN
  CASE view = "fulfillment_status" ->
         {[status |-> "None", carrier |-> FALSE, tracking_number |-> FALSE]}
    [] view = "shipment_tracking" -> {[current_status |-> "none", events |-> << >>]}
    [] view = "warehouse_queue" -> {"none"}
    [] view = "daily_shipments" ->
         {[d \in Days |-> [created |-> 0, shipped |-> 0, delivered |-> 0, exceptions |-> 0]]}
    [] view = "delivery_performance" ->
         {[k \in Carriers \X Days |->
             IF k[1] = "other" /\ k[2] \in busy THEN [none EXCEPT !.shipped = 1] ELSE none]
            : busy \in SUBSET Days}

------------------------------------------------------------------------------
ParcelInit ==
  /\ Init
  /\ view \in ParcelViewNames
  /\ row \in ParcelRows
  /\ unread = << >>
  /\ redelivered = FALSE
  /\ day \in Days
  /\ exceptions = 0
  /\ tracking_events = << >>

ParcelCommand ==
  /\ Next
  /\ \E scan \in Scans : Publish(ParcelRaised(scan)) /\ tracking_events' = Logged(scan)
  /\ Len(tracking_events') <= MaxTracked
  /\ exceptions' = exceptions + (IF status' = "Exception" THEN 1 ELSE 0)
  /\ exceptions' <= MaxExceptions
  /\ UNCHANGED day

ParcelProjection ==
  /\ unread # << >>
  /\ \E after \in ParcelProjected(row, Head(unread)) : Project(after)
  /\ UNCHANGED parcel_vars

NextDay ==
  /\ day + 1 \in Days
  /\ day' = day + 1
  /\ UNCHANGED <<vars, exceptions, tracking_events, read_vars>>

ParcelNext == ParcelCommand \/ ParcelProjection \/ NextDay

ParcelSpec == ParcelInit /\ [][ParcelNext]_<<parcel_vars, read_vars>>

------------------------------------------------------------------------------
Once(condition) == IF condition THEN 1 ELSE 0

StatusRowFollows ==
  /\ row.status = status
  /\ row.carrier = ("carrier" \in shipment)
  /\ row.tracking_number = ("tracking_number" \in shipment)

(* The status is the fulfillment's until the carrier scans the parcel, and *)
(* the words of the last scan while it is in transit.  The entries are     *)
(* those of the fulfillment's log, where a failed delivery is spelled      *)
(* otherwise and a delivery has none.                                      *)
TrackingRowFollows ==
  /\ row.current_status = CASE status = "In_Transit" -> tracking_events[Len(tracking_events)]
                            [] status \in AtCarrier \ {"In_Transit"} -> status
                            [] OTHER -> "none"
  /\ ~redelivered =>
       /\ Len(row.events) = Len(tracking_events) + Once(status = "Delivered")
       /\ \A k \in 1..Len(tracking_events) :
            \/ row.events[k] = tracking_events[k]
            \/ row.events[k] = "Exception" /\ tracking_events[k] = "EXCEPTION"
       /\ row.events # << >> => row.events[Len(row.events)] = row.current_status

QueueRowFollows ==
  row = CASE status = "None" -> "none"
          [] status \in AtCarrier -> "Shipped"
          [] status = "Packing" /\ packed -> "Packed"
          [] status = "Ready_To_Ship" -> "Packed"
          [] OTHER -> status

OverDays(field) == Total(Days, [d \in Days |-> row[d][field]])

DailyFollows ==
  ~redelivered =>
    /\ OverDays("created") = Once(status # "None")
    /\ OverDays("shipped") = Once(status \in AtCarrier)
    /\ OverDays("delivered") = Once(status = "Delivered")
    /\ OverDays("exceptions") = exceptions

OverRows(carriers, field) ==
  Total(carriers \X Days, [k \in carriers \X Days |-> row[k][field]])

PerformanceFollows ==
  ~redelivered =>
    /\ OverRows({"own"}, "shipped") = Once(status \in AtCarrier)
    /\ OverRows(Carriers, "delivered") <= Once(status = "Delivered")
    /\ OverRows(Carriers, "exceptions") <= exceptions

(* The projections that caught up tell the truth about the parcel: its     *)
(* status, where it is in the warehouse, what the carrier reported last,   *)
(* in its own words, and before, and what was counted; of an event that    *)
(* was handled twice there are two entries, or it counts twice.  A         *)
(* delivery may be missing from the performance of its carrier, or count   *)
(* for another one, but never counts twice.                                *)
ParcelViewsFollow ==
  CaughtUp =>
    CASE view = "fulfillment_status" -> StatusRowFollows
      [] view = "shipment_tracking" -> TrackingRowFollows
      [] view = "warehouse_queue" -> QueueRowFollows
      [] view = "daily_shipments" -> DailyFollows
      [] view = "delivery_performance" -> PerformanceFollows
      [] OTHER -> TRUE
==============================================================================
