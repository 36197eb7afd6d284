------------------------------ MODULE Inventory ------------------------------
(***************************************************************************)
(* The event-sourced InventoryItem aggregate (inventory/stock/stock.py)    *)
(* for one product variant in one warehouse, with its command handlers.    *)
(*                                                                         *)
(* As in the code, a command method (lower-case, named as in the source)   *)
(* checks its guards and raises events, and all state changes are made by  *)
(* the @apply handler of each event (the On... operators below).  A        *)
(* rejected command raises a ValidationError and rolls its unit of work    *)
(* back, so it is no step.  The repository refuses a commit on a stale     *)
(* version, so a command is one atomic step.                               *)
(***************************************************************************)
EXTENDS Integers, FiniteSets, Sequences, UnitSums

CONSTANTS
  ReservationIds,   \* the uuid4 values reservations may get
  OrderIds,         \* orders that stock is reserved for
  Quantities,       \* quantities, changes and counts that commands may carry
  InitialQuantity,  \* initial_quantity of the InitializeStock command
  ReorderPoint,     \* reorder_point of the InitializeStock command
  MaxUnits          \* bound of the model: on-hand and damaged stay below it

ASSUME InventoryAssumption ==
  /\ Quantities \subseteq Int
  /\ InitialQuantity \in Nat
  /\ ReorderPoint \in Nat
  /\ MaxUnits \in Nat

VARIABLES
  levels,        \* StockLevels: on_hand, reserved, available, damaged
  reservations,  \* every reservation by id, see NoReservation below
  raised         \* the events the last command raised, in order

vars == <<levels, reservations, raised>>

------------------------------------------------------------------------------
(* A reservation that was never made is "None"; one that commit_stock      *)
(* removed from the aggregate is "Committed" (its id is never used again). *)
ReservationStatus == {"None", "Active", "Confirmed", "Released", "Committed"}

Reservation == [status : ReservationStatus, quantity : Nat,
                order_id : OrderIds \cup {"None"}]

NoReservation == [status |-> "None", quantity |-> 0, order_id |-> "None"]

StockLevels == [on_hand : Int, reserved : Int, available : Int, damaged : Int]

ReservationEvent ==
  [type : {"ReservationReleased", "ReservationConfirmed"},
   reservation_id : ReservationIds, order_id : OrderIds \cup {"None"},
   quantity : Int, new_available : Int]

Event ==
  [type : {"StockReceived", "StockAdjusted", "StockReturned"},
   quantity : Int, new_on_hand : Int, new_available : Int]
  \cup
  [type : {"StockReserved"}, reservation_id : ReservationIds,
   order_id : OrderIds, quantity : Int, new_available : Int]
  \cup ReservationEvent \cup
  [type : {"StockCommitted"}, reservation_id : ReservationIds,
   order_id : OrderIds \cup {"None"}, quantity : Int,
   new_on_hand : Int, new_reserved : Int]
  \cup
  [type : {"StockMarkedDamaged"}, quantity : Int,
   new_on_hand : Int, new_damaged : Int, new_available : Int]
  \cup
  [type : {"DamagedStockWrittenOff"}, quantity : Int, new_damaged : Int]
  \cup
  [type : {"StockCheckRecorded"}, discrepancy : Int]
  \cup
  [type : {"LowStockDetected"}, current_available : Int]

TypeOK == /\ levels \in StockLevels
          /\ reservations \in [ReservationIds -> Reservation]
          /\ raised \in Seq(Event)

------------------------------------------------------------------------------
(* @apply handlers: how an event changes the aggregate.  Each builds a new *)
(* StockLevels value from the event and the levels it does not touch.      *)

OnHandSetTo(on_hand, available) ==
  /\ levels' = [on_hand |-> on_hand, reserved |-> levels.reserved,
                available |-> available, damaged |-> levels.damaged]
  /\ UNCHANGED reservations

OnStockReceived(e) == OnHandSetTo(e.new_on_hand, e.new_available)

OnStockAdjusted(e) == OnHandSetTo(e.new_on_hand, e.new_available)

OnStockReturned(e) == OnHandSetTo(e.new_on_hand, e.new_available)

OnStockReserved(e) ==
  /\ reservations' = [reservations EXCEPT ![e.reservation_id] =
        [status |-> "Active", quantity |-> e.quantity, order_id |-> e.order_id]]
  /\ levels' = [on_hand |-> levels.on_hand,
                reserved |-> levels.reserved + e.quantity,
                available |-> e.new_available, damaged |-> levels.damaged]

(* Mutant: the released quantity stays counted as reserved. *)
OnReservationReleased_KeepsReserved(e) ==
  /\ reservations' = [reservations EXCEPT ![e.reservation_id].status = "Released"]
  /\ levels' = [on_hand |-> levels.on_hand, reserved |-> levels.reserved,
                available |-> e.new_available, damaged |-> levels.damaged]

OnReservationReleased(e) ==
  /\ reservations' = [reservations EXCEPT ![e.reservation_id].status = "Released"]
  /\ levels' = [on_hand |-> levels.on_hand,
                reserved |-> levels.reserved - e.quantity,
                available |-> e.new_available, damaged |-> levels.damaged]

OnReservationConfirmed(e) ==
  /\ reservations' = [reservations EXCEPT ![e.reservation_id].status = "Confirmed"]
  /\ UNCHANGED levels

OnStockCommitted(e) ==
  /\ reservations' = [reservations EXCEPT ![e.reservation_id].status = "Committed"]
  /\ levels' = [on_hand |-> e.new_on_hand, reserved |-> e.new_reserved,
                available |-> e.new_on_hand - e.new_reserved,
                damaged |-> levels.damaged]

OnStockMarkedDamaged(e) ==
  /\ levels' = [on_hand |-> e.new_on_hand, reserved |-> levels.reserved,
                available |-> e.new_available, damaged |-> e.new_damaged]
  /\ UNCHANGED reservations

OnDamagedStockWrittenOff(e) ==
  /\ levels' = [on_hand |-> levels.on_hand, reserved |-> levels.reserved,
                available |-> levels.available, damaged |-> e.new_damaged]
  /\ UNCHANGED reservations

------------------------------------------------------------------------------
(* Command methods of the aggregate.                                       *)

Held(r) == reservations[r].status \in {"Active", "Confirmed"}

EffectiveReorderPoint == IF ReorderPoint = 0 THEN 10 ELSE ReorderPoint

(* Mutant: at the reorder point itself no alert is raised yet. *)
check_low_stock_Below(stock) ==
  IF stock.available < EffectiveReorderPoint
  THEN <<[type |-> "LowStockDetected", current_available |-> stock.available]>>
  ELSE << >>

(* _check_low_stock: runs after the event was applied, so on levels'.      *)
check_low_stock(stock) ==
  IF stock.available <= EffectiveReorderPoint
  THEN <<[type |-> "LowStockDetected", current_available |-> stock.available]>>
  ELSE << >>

receive_stock(quantity) ==
  LET e == [type |-> "StockReceived", quantity |-> quantity,
            new_on_hand |-> levels.on_hand + quantity,
            new_available |-> levels.on_hand + quantity - levels.reserved]
  IN /\ quantity > 0
     /\ levels.on_hand + quantity <= MaxUnits
     /\ OnStockReceived(e)
     /\ raised' = <<e>>

reserve(order_id, quantity) ==
  /\ quantity > 0
  /\ levels.available >= quantity
  /\ \E r \in ReservationIds :
       /\ reservations[r] = NoReservation
       /\ LET e == [type |-> "StockReserved", reservation_id |-> r,
                    order_id |-> order_id, quantity |-> quantity,
                    new_available |-> levels.available - quantity]
          IN /\ OnStockReserved(e)
             /\ raised' = <<e>> \o check_low_stock(levels')

release_reservation(reservation_id) ==
  LET r == reservations[reservation_id]
      e == [type |-> "ReservationReleased", reservation_id |-> reservation_id,
            order_id |-> r.order_id, quantity |-> r.quantity,
            new_available |-> levels.available + r.quantity]
  IN /\ r.status = "Active"
     /\ OnReservationReleased(e)
     /\ raised' = <<e>>

confirm_reservation(reservation_id) ==
  LET r == reservations[reservation_id]
      e == [type |-> "ReservationConfirmed", reservation_id |-> reservation_id,
            order_id |-> r.order_id, quantity |-> r.quantity,
            new_available |-> levels.available]
  IN /\ r.status = "Active"
     /\ OnReservationConfirmed(e)
     /\ raised' = <<e>>

commit_stock(reservation_id) ==
  LET r == reservations[reservation_id]
      e == [type |-> "StockCommitted", reservation_id |-> reservation_id,
            order_id |-> r.order_id, quantity |-> r.quantity,
            new_on_hand |-> levels.on_hand - r.quantity,
            new_reserved |-> levels.reserved - r.quantity]
  IN /\ r.status = "Confirmed"
     /\ OnStockCommitted(e)
     /\ raised' = <<e>>

StockAdjustment(quantity_change) ==
  [type |-> "StockAdjusted", quantity |-> quantity_change,
   new_on_hand |-> levels.on_hand + quantity_change,
   new_available |-> levels.on_hand + quantity_change - levels.reserved]

adjust_stock(quantity_change) ==
  LET e == StockAdjustment(quantity_change)
  IN /\ e.new_on_hand >= 0
     /\ e.new_on_hand <= MaxUnits
     /\ OnStockAdjusted(e)
     /\ raised' = <<e>> \o check_low_stock(levels')

(* A count that differs from on-hand adjusts it in the same unit of work:  *)
(* if the adjustment is refused, nothing of the check is recorded either.  *)
record_stock_check(counted_quantity) ==
  LET discrepancy == counted_quantity - levels.on_hand
      check == [type |-> "StockCheckRecorded", discrepancy |-> discrepancy]
      e == StockAdjustment(discrepancy)
  IN \/ /\ discrepancy = 0
        /\ raised' = <<check>>
        /\ UNCHANGED <<levels, reservations>>
     \/ /\ discrepancy # 0
        /\ e.new_on_hand >= 0
        /\ e.new_on_hand <= MaxUnits
        /\ OnStockAdjusted(e)
        /\ raised' = <<check, e>> \o check_low_stock(levels')

(* Mutant: damage is checked against all stock on hand, reserved or not. *)
mark_damaged_IntoReserved(quantity) ==
  LET e == [type |-> "StockMarkedDamaged", quantity |-> quantity,
            new_on_hand |-> levels.on_hand - quantity,
            new_damaged |-> levels.damaged + quantity,
            new_available |-> levels.on_hand - quantity - levels.reserved]
  IN /\ quantity > 0
     /\ quantity <= levels.on_hand
     /\ e.new_damaged <= MaxUnits
     /\ OnStockMarkedDamaged(e)
     /\ raised' = <<e>> \o check_low_stock(levels')

(* Mutant: damaged units stay on the shelf, too. *)
mark_damaged_StillOnHand(quantity) ==
  LET e == [type |-> "StockMarkedDamaged", quantity |-> quantity,
            new_on_hand |-> levels.on_hand,
            new_damaged |-> levels.damaged + quantity,
            new_available |-> levels.on_hand - levels.reserved]
  IN /\ quantity > 0
     /\ quantity <= levels.on_hand - levels.reserved
     /\ e.new_damaged <= MaxUnits
     /\ OnStockMarkedDamaged(e)
     /\ raised' = <<e>> \o check_low_stock(levels')

mark_damaged(quantity) ==
  LET e == [type |-> "StockMarkedDamaged", quantity |-> quantity,
            new_on_hand |-> levels.on_hand - quantity,
            new_damaged |-> levels.damaged + quantity,
            new_available |-> levels.on_hand - quantity - levels.reserved]
  IN /\ quantity > 0
     /\ quantity <= levels.on_hand - levels.reserved
     /\ e.new_damaged <= MaxUnits
     /\ OnStockMarkedDamaged(e)
     /\ raised' = <<e>> \o check_low_stock(levels')

write_off_damaged(quantity) ==
  LET e == [type |-> "DamagedStockWrittenOff", quantity |-> quantity,
            new_damaged |-> levels.damaged - quantity]
  IN /\ quantity > 0
     /\ quantity <= levels.damaged
     /\ OnDamagedStockWrittenOff(e)
     /\ raised' = <<e>>

return_to_stock(quantity) ==
  LET e == [type |-> "StockReturned", quantity |-> quantity,
            new_on_hand |-> levels.on_hand + quantity,
            new_available |-> levels.on_hand + quantity - levels.reserved]
  IN /\ quantity > 0
     /\ levels.on_hand + quantity <= MaxUnits
     /\ OnStockReturned(e)
     /\ raised' = <<e>>

------------------------------------------------------------------------------
(* Command handlers: one step per command a caller may send.  The state    *)
(* machine starts right after InitializeStock created the record.          *)

InitializeStock ==
  /\ levels = [on_hand |-> InitialQuantity, reserved |-> 0,
               available |-> InitialQuantity, damaged |-> 0]
  /\ reservations = [r \in ReservationIds |-> NoReservation]
  /\ raised = << >>

ReceiveStock == \E quantity \in Quantities : receive_stock(quantity)

ReserveStock ==
  \E order_id \in OrderIds, quantity \in Quantities : reserve(order_id, quantity)

ReleaseReservation == \E r \in ReservationIds : release_reservation(r)

ConfirmReservation == \E r \in ReservationIds : confirm_reservation(r)

CommitStock == \E r \in ReservationIds : commit_stock(r)

AdjustStock == \E change \in Quantities : adjust_stock(change)

RecordStockCheck == \E count \in Quantities : record_stock_check(count)

MarkDamaged == \E quantity \in Quantities : mark_damaged(quantity)

WriteOffDamaged == \E quantity \in Quantities : write_off_damaged(quantity)

ReturnToStock == \E quantity \in Quantities : return_to_stock(quantity)

Next == \/ ReceiveStock \/ ReserveStock
        \/ ReleaseReservation \/ ConfirmReservation \/ CommitStock
        \/ AdjustStock \/ RecordStockCheck
        \/ MarkDamaged \/ WriteOffDamaged \/ ReturnToStock

Init == InitializeStock

Spec == Init /\ [][Next]_vars

------------------------------------------------------------------------------
(* The reservations whose units are still promised, and how many units.    *)
HeldIds == {r \in ReservationIds : Held(r)}

Quantity == [r \in ReservationIds |-> reservations[r].quantity]

(* The ledger balances.  "Available is always equal to on_hand - reserved" *)
(* although every command recomputes it on its own from whichever levels   *)
(* it has at hand; reserved, kept by increments, is exactly the number of  *)
(* units the Active and Confirmed reservations hold; and damaged units are *)
(* never written off twice.                                                *)
LedgerBalanced ==
  /\ levels.available = levels.on_hand - levels.reserved
  /\ levels.reserved = Total(HeldIds, Quantity)
  /\ levels.damaged >= 0

(* Only a manual adjustment or a stock count can promise more than there   *)
(* is: no reservation, damage report, commit or release may turn available *)
(* stock negative.                                                         *)
OnlyAdjustmentsOverdraw ==
  [][levels.available >= 0 /\ levels'.available < 0 =>
       \E i \in 1..Len(raised') : raised'[i].type = "StockAdjusted"]_vars

(* Whenever a command takes available stock down to the reorder point or   *)
(* further, the operator is told of it in the same unit of work, and the   *)
(* alert quotes the level that results.                                    *)
LowStockAnnounced ==
  [][levels'.available < levels.available
       /\ levels'.available <= EffectiveReorderPoint =>
       \E i \in 1..Len(raised') : raised'[i] =
         [type |-> "LowStockDetected", current_available |-> levels'.available]]_vars

(* The bookkeeping implements the three pools of StockLedger: shipping a   *)
(* reservation leaves the free stock alone, releasing one returns exactly  *)
(* what it took, and no hold is ever settled twice.                        *)
HeldAmount == [r \in ReservationIds |-> IF Held(r) THEN reservations[r].quantity ELSE 0]

Pools == INSTANCE StockLedger WITH
  Claims <- ReservationIds,
  free <- levels.available,
  held <- HeldAmount,
  damaged <- levels.damaged

ImplementsPools == Pools!Spec
==============================================================================
