------------------------------ MODULE StockViews ------------------------------
(***************************************************************************)
(* The projections of InventoryItem (inventory/projections), for one item  *)
(* in its only warehouse.  ReservationStatus is in Checkout, which acts on *)
(* it.  Names, dates, reasons and unit costs are left out.                 *)
(***************************************************************************)
EXTENDS Inventory, ReadModel

VARIABLE level_row  \* of inventory_level, for product_availability to look up:
                    \* "written" before any event but the first, "awaited" or "late"

view_vars == <<read_vars, level_row>>

Views == {"inventory_level", "warehouse_stock", "product_availability",
          "inventory_valuation", "low_stock_report", "shrinkage_report",
          "stock_movement_log"}

OnHandEvents == {"StockReceived", "StockAdjusted", "StockReturned"}

(* The events a projector has handlers for; the others pass it by.         *)
HandledBy ==
  [inventory_level |-> OnHandEvents \cup
     {"StockReserved", "ReservationReleased", "StockCommitted", "StockMarkedDamaged",
      "DamagedStockWrittenOff"},
   warehouse_stock |-> OnHandEvents \cup
     {"StockReserved", "ReservationReleased", "StockCommitted", "StockMarkedDamaged",
      "DamagedStockWrittenOff"},
   product_availability |-> OnHandEvents \cup
     {"StockReserved", "ReservationReleased", "StockCommitted", "StockMarkedDamaged"},
   inventory_valuation |-> OnHandEvents \cup {"StockCommitted"},
   low_stock_report |-> {"LowStockDetected", "StockReceived", "StockReturned"},
   shrinkage_report |-> {"StockAdjusted", "StockMarkedDamaged", "DamagedStockWrittenOff"},
   stock_movement_log |-> OnHandEvents \cup {"StockCommitted", "StockMarkedDamaged"}]

(* No command raises two events that one of the projectors handles.        *)
HandledNow == {k \in 1..Len(raised') : raised'[k].type \in HandledBy[view]}

Raised == IF view = "none" \/ HandledNow = {} THEN << >>
          ELSE <<raised'[CHOOSE k \in HandledNow : TRUE]>>

------------------------------------------------------------------------------
(* Projectors: what the row r of the projection is after event e.          *)

(* Reserved is kept by increments, the other levels are copied.            *)
on_inventory_level(r, e) ==
  CASE e.type \in OnHandEvents ->
         [r EXCEPT !.on_hand = e.new_on_hand, !.available = e.new_available]
    [] e.type = "StockReserved" ->
         [r EXCEPT !.reserved = @ + e.quantity, !.available = e.new_available]
    [] e.type = "ReservationReleased" ->
         [r EXCEPT !.reserved = @ - e.quantity, !.available = e.new_available]
    [] e.type = "StockCommitted" ->
         [r EXCEPT !.on_hand = e.new_on_hand, !.reserved = e.new_reserved,
                     !.available = e.new_on_hand - e.new_reserved]
    [] e.type = "StockMarkedDamaged" ->
         [r EXCEPT !.on_hand = e.new_on_hand, !.available = e.new_available,
                     !.damaged = e.new_damaged]
    [] e.type = "DamagedStockWrittenOff" -> [r EXCEPT !.damaged = e.new_damaged]

on_warehouse_stock(r, e) == on_inventory_level(r, e)

(* Mutant: a release gives nothing back.                                   *)
on_product_availability_Kept(r, e) ==
  IF level_row = "awaited" THEN r ELSE
  CASE e.type \in OnHandEvents ->
         [r EXCEPT !.on_hand = @ + e.quantity, !.available = @ + e.quantity]
    [] e.type = "StockReserved" ->
         [r EXCEPT !.reserved = @ + e.quantity, !.available = @ - e.quantity]
    [] e.type = "ReservationReleased" -> r
    [] e.type = "StockCommitted" ->
         [r EXCEPT !.on_hand = @ - e.quantity, !.reserved = @ - e.quantity]
    [] e.type = "StockMarkedDamaged" ->
         [r EXCEPT !.on_hand = @ - e.quantity, !.available = @ - e.quantity]

(* Adds and subtracts only.  Which product an event is about it learns     *)
(* from inventory_level, another projector's; where that has no row yet    *)
(* the event is passed over.                                               *)
on_product_availability(r, e) ==
  IF level_row = "awaited" THEN r ELSE
  CASE e.type \in OnHandEvents ->
         [r EXCEPT !.on_hand = @ + e.quantity, !.available = @ + e.quantity]
    [] e.type = "StockReserved" ->
         [r EXCEPT !.reserved = @ + e.quantity, !.available = @ - e.quantity]
    [] e.type = "ReservationReleased" ->
         [r EXCEPT !.reserved = @ - e.quantity, !.available = @ + e.quantity]
    [] e.type = "StockCommitted" ->
         [r EXCEPT !.on_hand = @ - e.quantity, !.reserved = @ - e.quantity]
    [] e.type = "StockMarkedDamaged" ->
         [r EXCEPT !.on_hand = @ - e.quantity, !.available = @ - e.quantity]

(* Units taken off the shelf as damaged stay in the valuation.             *)
on_inventory_valuation(r, e) == [r EXCEPT !.on_hand = e.new_on_hand]

(* Goes in with an alert; comes out only when a receipt or a return takes  *)
(* the stock above the reorder point.                                      *)
on_low_stock_report(r, e) ==
  CASE e.type = "LowStockDetected" -> [listed |-> TRUE, available |-> e.current_available]
    [] e.type # "LowStockDetected" /\ r.listed ->
         IF e.new_available > EffectiveReorderPoint
         THEN [listed |-> FALSE, available |-> 0]
         ELSE [r EXCEPT !.available = e.new_available]
    [] OTHER -> r

on_shrinkage_report(r, e) ==
  CASE e.type = "StockAdjusted" ->
         [r EXCEPT !.adjustments = @ + (IF e.quantity < 0 THEN -e.quantity ELSE 0)]
    [] e.type = "StockMarkedDamaged" -> [r EXCEPT !.damaged = @ + e.quantity]
    [] e.type = "DamagedStockWrittenOff" -> [r EXCEPT !.written_off = @ + e.quantity]

(* Every event gets an entry; kept here is the latest that tells a level   *)
(* of stock on hand.                                                       *)
on_stock_movement_log(r, e) == [on_hand |-> e.new_on_hand]

Projected(v, r, e) ==
  CASE v = "inventory_level" -> on_inventory_level(r, e)
    [] v = "warehouse_stock" -> on_warehouse_stock(r, e)
    [] v = "product_availability" -> on_product_availability(r, e)
    [] v = "inventory_valuation" -> on_inventory_valuation(r, e)
    [] v = "low_stock_report" -> on_low_stock_report(r, e)
    [] v = "shrinkage_report" -> on_shrinkage_report(r, e)
    [] v = "stock_movement_log" -> on_stock_movement_log(r, e)

------------------------------------------------------------------------------
(* The item with one of its projections, or none.  What the projectors     *)
(* make of StockInitialized is there from the start.                       *)
InitialRow ==
  CASE view \in {"inventory_level", "warehouse_stock"} -> levels
    [] view = "product_availability" ->
         [on_hand |-> InitialQuantity, reserved |-> 0, available |-> InitialQuantity]
    [] view \in {"inventory_valuation", "stock_movement_log"} -> [on_hand |-> InitialQuantity]
    [] view = "low_stock_report" -> [listed |-> FALSE, available |-> 0]
    [] view = "shrinkage_report" -> [adjustments |-> 0, damaged |-> 0, written_off |-> 0]
    [] view = "none" -> [on_hand |-> 0]

ViewsInit ==
  /\ Init
  /\ view \in Views \cup {"none"}
  /\ row = InitialRow
  /\ unread = << >>
  /\ redelivered = FALSE
  /\ level_row \in IF view = "product_availability" THEN {"written", "awaited"} ELSE {"written"}

Command == Next /\ Publish(Raised) /\ UNCHANGED level_row

Projection == Project(Projected(view, row, Head(unread))) /\ UNCHANGED <<vars, level_row>>

(* The other projector gets to StockInitialized.                           *)
LevelWritten == /\ level_row = "awaited"
                /\ level_row' = "late"
                /\ UNCHANGED <<vars, read_vars>>

ViewedItem == /\ ViewsInit
              /\ [][Command \/ Projection \/ LevelWritten]_<<vars, view_vars>>

------------------------------------------------------------------------------
(* What the projections tell of the item, once they caught up with it.     *)

(* The copied levels survive an event that is handled twice; reserved, an  *)
(* increment, does not.                                                    *)
LevelFollows ==
  /\ [row EXCEPT !.reserved = 0] = [levels EXCEPT !.reserved = 0]
  /\ ~redelivered => row.reserved = levels.reserved

(* Sums of increments are right only as long as nothing was handled twice  *)
(* and nothing passed over.                                                *)
AvailabilityFollows ==
  ~redelivered /\ level_row = "written" =>
    row = [on_hand |-> levels.on_hand, reserved |-> levels.reserved,
           available |-> levels.available]

(* Damaged units are valued until the next receipt, commit, adjustment or  *)
(* return: the valuation is never below the stock, and equals it then.     *)
ValuationFollows ==
  /\ row.on_hand >= levels.on_hand
  /\ (\E k \in 1..Len(raised) : raised[k].type \in HandledBy.inventory_valuation) =>
        row.on_hand = levels.on_hand

(* Every item at or below its reorder point is in the report, though not   *)
(* every item of the report is: a release or an adjustment that lifts the  *)
(* stock takes none out.  The report never shows more than there is.       *)
ReportFollows ==
  /\ InitialQuantity > EffectiveReorderPoint /\ levels.available <= EffectiveReorderPoint =>
       row.listed
  /\ row.listed => row.available <= levels.available

(* Every damaged unit is still damaged or was written off.                 *)
ShrinkageFollows == ~redelivered => row.damaged - row.written_off = levels.damaged

(* The projectors rebuild the levels from the events; this is how far they *)
(* may be trusted when they caught up.                                     *)
StockViewsFollow ==
  CaughtUp =>
    CASE view \in {"inventory_level", "warehouse_stock"} -> LevelFollows
      [] view = "product_availability" -> AvailabilityFollows
      [] view = "inventory_valuation" -> ValuationFollows
      [] view = "low_stock_report" -> ReportFollows
      [] view = "shrinkage_report" -> ShrinkageFollows
      [] view = "stock_movement_log" -> row.on_hand = levels.on_hand
      [] OTHER -> TRUE
==============================================================================
