------------------------------ MODULE OrderViews ------------------------------
(***************************************************************************)
(* The projections of Order (ordering/projections), for one order.  They   *)
(* are written from the events alone, so an event carries what its         *)
(* projectors read of it.  Dates, addresses and reasons are left out.      *)
(***************************************************************************)
EXTENDS Order, ReadModel, Lists, SequencesExt

Views == {"order_detail", "order_summary", "orders_by_status", "customer_orders",
          "abandoned_checkouts", "daily_order_stats", "order_timeline"}

ASSUME OrderViewsAssumption == IsFiniteSet(ItemIds) /\ {"None", "unchanged"} \cap ItemIds = {}

NoRow == [status |-> "None"]

(* What the command's event carries (Order raises one at most).            *)
Carrying(type, item, lines, prices, payment_made, shipment) ==
  [type |-> type, item |-> item, items |-> lines, pricing |-> prices,
   payment |-> payment_made, shipment_id |-> shipment]

(* The item the command changed; an update to the same quantity changes    *)
(* none, and no projection.                                                *)
ItemChanged == LET changed == {i \in ItemIds : items'[i] # items[i]}
               IN  IF Cardinality(changed) = 1 THEN CHOOSE i \in changed : TRUE ELSE "unchanged"

Raised == [k \in 1..Len(raised') |->
             Carrying(raised'[k], ItemChanged, items', pricing', payment', shipment_id')]

(* The status the projectors write for an event, as literals of their own. *)
StatusWritten ==
  [OrderCreated |-> "Created", OrderConfirmed |-> "Confirmed",
   PaymentPending |-> "Payment_Pending", PaymentSucceeded |-> "Paid",
   PaymentFailed |-> "Confirmed", OrderProcessing |-> "Processing",
   OrderShipped |-> "Shipped", OrderPartiallyShipped |-> "Partially_Shipped",
   OrderDelivered |-> "Delivered", OrderCompleted |-> "Completed",
   ReturnRequested |-> "Return_Requested", ReturnApproved |-> "Return_Approved",
   OrderReturned |-> "Returned", OrderCancelled |-> "Cancelled",
   OrderRefunded |-> "Refunded"]

ItemEvents == {"ItemAdded", "ItemRemoved", "ItemQuantityUpdated"}

PaymentEvents == {"PaymentPending", "PaymentSucceeded", "PaymentFailed"}

ShipmentEvents == {"OrderShipped", "OrderPartiallyShipped"}

StatusAfter(r, e) == IF e.type \in DOMAIN StatusWritten THEN StatusWritten[e.type] ELSE r.status

------------------------------------------------------------------------------
(* Projectors: what the row r of the projection is after event e.          *)

(* The lines of OrderCreated name their item "id", those of ItemAdded      *)
(* "item_id", and the projector looks lines up by "item_id" only.          *)
Line(i, e) == [item_id |-> i, id |-> "None", quantity |-> e.items[i].quantity]

OriginalLine(i, e) == [item_id |-> "None", id |-> i, quantity |-> e.items[i].quantity]

FirstOf(lines, i) == {k \in 1..Len(lines) : /\ lines[k].item_id = i
                                            /\ \A j \in 1..(k - 1) : lines[j].item_id # i}

DetailLines(r, e) ==
  CASE e.type = "ItemAdded" -> Append(r.items, Line(e.item, e))
    [] e.type = "ItemRemoved" ->
         Keeping(r.items, {k \in 1..Len(r.items) : r.items[k].item_id # e.item})
    [] e.type = "ItemQuantityUpdated" ->
         [k \in 1..Len(r.items) |->
            IF k \in FirstOf(r.items, e.item)
            THEN [r.items[k] EXCEPT !.quantity = e.items[e.item].quantity]
            ELSE r.items[k]]
    [] OTHER -> r.items

on_order_detail(r, e) ==
  IF e.type = "OrderCreated"
  THEN [status |-> "Created", payment |-> e.payment, shipment_id |-> "None",
        items |-> [k \in 1..Cardinality(Lines(e.items)) |->
                     OriginalLine(SetToSeq(Lines(e.items))[k], e)],
        subtotal |-> e.pricing.subtotal, grand_total |-> e.pricing.grand_total]
  ELSE [status |-> StatusAfter(r, e),
        items |-> DetailLines(r, e),
        subtotal |-> IF e.type \in ItemEvents THEN e.pricing.subtotal ELSE r.subtotal,
        grand_total |-> IF e.type \in ItemEvents THEN e.pricing.grand_total ELSE r.grand_total,
        payment |-> IF e.type = "PaymentFailed" THEN [r.payment EXCEPT !.status = "failed"]
                    ELSE IF e.type \in PaymentEvents THEN e.payment ELSE r.payment,
        shipment_id |-> IF e.type \in ShipmentEvents THEN e.shipment_id ELSE r.shipment_id]

(* Mutant: removals are not counted.                                       *)
CountAfter_AddsOnly(r, e) ==
  IF e.type = "ItemAdded" THEN r.item_count + 1 ELSE r.item_count

CountAfter(r, e) ==
  CASE e.type = "ItemAdded" -> r.item_count + 1
    [] e.type = "ItemRemoved" -> IF r.item_count > 0 THEN r.item_count - 1 ELSE 0
    [] OTHER -> r.item_count

on_order_summary(r, e) ==
  IF e.type = "OrderCreated"
  THEN [status |-> "Created", item_count |-> Cardinality(Lines(e.items)),
        grand_total |-> e.pricing.grand_total]
  ELSE [status |-> StatusAfter(r, e), item_count |-> CountAfter(r, e),
        grand_total |-> IF e.type \in ItemEvents THEN e.pricing.grand_total
                        ELSE r.grand_total]

(* Neither listing handles the events of items: totals stay as created.    *)
on_orders_by_status(r, e) ==
  IF e.type = "OrderCreated" THEN [status |-> "Created", grand_total |-> e.pricing.grand_total]
  ELSE [r EXCEPT !.status = StatusAfter(r, e)]

on_customer_orders(r, e) ==
  IF e.type = "OrderCreated"
  THEN [status |-> "Created", grand_total |-> e.pricing.grand_total,
        item_count |-> Cardinality(Lines(e.items))]
  ELSE [r EXCEPT !.status = StatusAfter(r, e)]

(* A row for as long as the checkout counts as abandoned.                  *)
on_abandoned_checkouts(r, e) ==
  CASE e.type = "OrderCreated" -> [status |-> "Created"]
    [] e.type \in {"OrderConfirmed", "OrderCancelled"} -> NoRow
    [] OTHER -> r

(* Counters of the day; the order's whole life fits in one.                *)
on_daily_order_stats(r, e) ==
  CASE e.type = "OrderCreated" ->
         [r EXCEPT !.created = @ + 1, !.revenue = @ + e.pricing.grand_total]
    [] e.type = "OrderCompleted" -> [r EXCEPT !.completed = @ + 1]
    [] e.type = "OrderCancelled" -> [r EXCEPT !.cancelled = @ + 1]
    [] e.type = "OrderRefunded" -> [r EXCEPT !.refunded = @ + 1]
    [] OTHER -> r

(* One entry is appended per event: the model keeps the latest that tells  *)
(* a change of status.                                                     *)
on_order_timeline(r, e) ==
  IF e.type \in DOMAIN StatusWritten THEN [status |-> StatusWritten[e.type]] ELSE r

Projected(v, r, e) ==
  CASE v = "order_detail" -> on_order_detail(r, e)
    [] v = "order_summary" -> on_order_summary(r, e)
    [] v = "orders_by_status" -> on_orders_by_status(r, e)
    [] v = "customer_orders" -> on_customer_orders(r, e)
    [] v = "abandoned_checkouts" -> on_abandoned_checkouts(r, e)
    [] v = "daily_order_stats" -> on_daily_order_stats(r, e)
    [] v = "order_timeline" -> on_order_timeline(r, e)

------------------------------------------------------------------------------
(* The order with one of its projections.                                  *)
EmptyRow == IF view = "daily_order_stats"
            THEN [created |-> 0, completed |-> 0, cancelled |-> 0, refunded |-> 0, revenue |-> 0]
            ELSE NoRow

ViewsInit ==
  /\ Init
  /\ view \in Views
  /\ row = EmptyRow
  /\ unread = <<Carrying("OrderCreated", "unchanged", items, pricing, payment, shipment_id)>>
  /\ redelivered = FALSE

Command == Next /\ Publish(Raised)

Projection == /\ Project(Projected(view, row, Head(unread)))
              /\ UNCHANGED vars

ViewedOrder == /\ ViewsInit
               /\ [][Command \/ Projection]_<<vars, read_vars>>

------------------------------------------------------------------------------
(* What the projections tell of the order, once they caught up with it.    *)

(* The detail is the order, for payment, shipment and totals; of the items *)
(* it is so only for those added later (see DetailListsItems).             *)
DetailFollows ==
  /\ row.status = status
  /\ row.payment = payment
  /\ row.shipment_id = shipment_id
  /\ row.subtotal = pricing.subtotal /\ row.grand_total = pricing.grand_total
  /\ \A i \in Lines(items) :
       (\A k \in 1..Len(row.items) : row.items[k].id # i) =>
         \E k \in 1..Len(row.items) : row.items[k] = [item_id |-> i, id |-> "None",
                                                    quantity |-> items[i].quantity]
  /\ \A k \in 1..Len(row.items) :
       row.items[k].item_id \in ItemIds => items[row.items[k].item_id] # NoItem

SummaryFollows ==
  /\ row.status = status
  /\ row.grand_total = pricing.grand_total
  /\ ~redelivered => row.item_count = Cardinality(Lines(items))

(* Only a payment failure, which confirms an order without saying so,      *)
(* leaves a checkout that went on among the abandoned ones.                *)
AbandonedFollow ==
  /\ status = "Created" => row # NoRow
  /\ status = "Cancelled" => row = NoRow
  /\ row # NoRow => status = "Created" \/ payment.status # "None"
  /\ row # NoRow /\ status = "Confirmed" => payment.status = "failed"

(* The counters count every event, so twice one that came twice.           *)
StatsFollow ==
  ~redelivered =>
    /\ row.created = 1
    /\ row.completed = (IF status = "Completed" THEN 1 ELSE 0)
    /\ row.refunded = (IF status = "Refunded" THEN 1 ELSE 0)
    /\ row.cancelled = (IF status = "Cancelled" \/ (status = "Refunded" /\ shipment_id = "None")
                        THEN 1 ELSE 0)

(* Every projection that caught up tells the truth about the order, an     *)
(* event handled twice included, but for what is said above.  The          *)
(* projectors rebuild by themselves what the aggregate's own handlers      *)
(* compute, from what events carry.                                        *)
OrderViewsFollow ==
  CaughtUp =>
    CASE view = "order_detail" -> DetailFollows
      [] view = "order_summary" -> SummaryFollows
      [] view = "abandoned_checkouts" -> AbandonedFollow
      [] view = "daily_order_stats" -> StatsFollow
      [] OTHER -> row.status = status

(* docs/ordering/README.md:306, OrderDetail is the "Full order view:       *)
(* items, addresses, pricing, payment, shipment details".                  *)
DetailListsItems ==
  CaughtUp /\ ~redelivered /\ view = "order_detail" =>
    /\ Len(row.items) = Cardinality(Lines(items))
    /\ \A k \in 1..Len(row.items) :
         \E i \in Lines(items) : /\ i \in {row.items[k].id, row.items[k].item_id}
                                 /\ row.items[k].quantity = items[i].quantity
==============================================================================
