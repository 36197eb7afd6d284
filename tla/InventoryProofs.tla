--------------------------- MODULE InventoryProofs ---------------------------
(***************************************************************************)
(* What is proved of Inventory for every set of reservations, orders and   *)
(* quantities: its types, that the ledger balances in every reachable      *)
(* state, that it implements StockLedger, which commands may overdraw it,  *)
(* that low stock is announced, and of StockViews what the projections     *)
(* tell of the item.                                                       *)
(***************************************************************************)
EXTENDS StockViews, SharedLemmas

------------------------------------------------------------------------------
(* The state part of TypeOK. *)
StateOK == /\ levels \in StockLevels
           /\ reservations \in [ReservationIds -> Reservation]

(* The low-stock alert is a sequence of events of its own, and so is       *)
(* whatever it follows.                                                    *)
LEMMA AlertIsBatch ==
  ASSUME NEW stock \in StockLevels
  PROVE  check_low_stock(stock) \in Seq(Event)
<1> DEFINE alert == [type |-> "LowStockDetected", current_available |-> stock.available]
<1>1. alert \in Event
  BY DEF Event, StockLevels
<1> HIDE DEF Event
<1>2. CASE stock.available <= EffectiveReorderPoint
  BY <1>1, <1>2 DEF check_low_stock
<1>3. CASE ~(stock.available <= EffectiveReorderPoint)
  BY <1>3 DEF check_low_stock
<1> QED  BY <1>2, <1>3

LEMMA LowStockBatch ==
  ASSUME NEW batch \in Seq(Event), NEW stock \in StockLevels
  PROVE  batch \o check_low_stock(stock) \in Seq(Event)
<1> HIDE DEF Event
<1> QED  BY AlertIsBatch

(* Every command keeps the levels integers and the reservations well       *)
(* formed.                                                                 *)
LEMMA NextKeepsState == TypeOK /\ [Next]_vars => StateOK'
<1> SUFFICES ASSUME TypeOK, [Next]_vars PROVE StateOK'
  OBVIOUS
<1>t. /\ levels.on_hand \in Int /\ levels.reserved \in Int
      /\ levels.available \in Int /\ levels.damaged \in Int
      /\ levels \in StockLevels
      /\ reservations \in [ReservationIds -> Reservation]
      /\ \A q \in Quantities : q \in Int
  BY InventoryAssumption DEF TypeOK, StockLevels
<1>l. ASSUME NEW on_hand \in Int, NEW reserved \in Int, NEW available \in Int, NEW damaged \in Int
      PROVE  [on_hand |-> on_hand, reserved |-> reserved,
              available |-> available, damaged |-> damaged] \in StockLevels
  BY DEF StockLevels
<1>h. ASSUME NEW on_hand \in Int, NEW available \in Int, OnHandSetTo(on_hand, available)
      PROVE  StateOK'
  BY <1>h, <1>l, <1>t DEF OnHandSetTo, StateOK
<1>s. ASSUME NEW r \in ReservationIds, NEW s \in ReservationStatus,
             reservations' = [reservations EXCEPT ![r].status = s]
      PROVE  /\ reservations' \in [ReservationIds -> Reservation]
             /\ reservations[r].quantity \in Int
  <2>1. [reservations[r] EXCEPT !.status = s] \in Reservation /\ reservations[r].quantity \in Int
    BY <1>t DEF Reservation
  <2> QED  BY <1>s, <1>t, <2>1
<1>1. CASE ReceiveStock
  BY <1>1, <1>h, <1>t DEF ReceiveStock, receive_stock, OnStockReceived
<1>2. CASE ReserveStock
  <2>1. PICK order_id \in OrderIds, quantity \in Quantities : reserve(order_id, quantity)
    BY <1>2 DEF ReserveStock
  <2> DEFINE made == [status |-> "Active", quantity |-> quantity, order_id |-> order_id]
  <2>2. PICK r \in ReservationIds :
          /\ reservations' = [reservations EXCEPT ![r] = made]
          /\ levels' = [on_hand |-> levels.on_hand, reserved |-> levels.reserved + quantity,
                        available |-> levels.available - quantity, damaged |-> levels.damaged]
    BY <2>1 DEF reserve, OnStockReserved
  <2>3. quantity \in Nat
    BY <1>t, <2>1 DEF reserve
  <2>4. made \in Reservation
    BY <2>3 DEF Reservation, ReservationStatus
  <2>5. reservations' \in [ReservationIds -> Reservation]
    <3> HIDE DEF made
    <3> QED  BY <1>t, <2>2, <2>4
  <2> QED  BY <1>l, <1>t, <2>2, <2>3, <2>5 DEF StateOK
<1>3. CASE ReleaseReservation
  <2>1. PICK r \in ReservationIds : release_reservation(r)
    BY <1>3 DEF ReleaseReservation
  <2>2. /\ reservations' = [reservations EXCEPT ![r].status = "Released"]
        /\ levels' = [on_hand |-> levels.on_hand,
                      reserved |-> levels.reserved - reservations[r].quantity,
                      available |-> levels.available + reservations[r].quantity,
                      damaged |-> levels.damaged]
    BY <2>1 DEF release_reservation, OnReservationReleased
  <2>3. /\ reservations' \in [ReservationIds -> Reservation]
        /\ reservations[r].quantity \in Int
    BY <1>s, <2>2 DEF ReservationStatus
  <2> QED  BY <1>l, <1>t, <2>2, <2>3 DEF StateOK
<1>4. CASE ConfirmReservation
  <2>1. PICK r \in ReservationIds : confirm_reservation(r)
    BY <1>4 DEF ConfirmReservation
  <2>2. levels' = levels /\ reservations' = [reservations EXCEPT ![r].status = "Confirmed"]
    BY <2>1 DEF confirm_reservation, OnReservationConfirmed
  <2> QED  BY <1>s, <1>t, <2>2 DEF StateOK, ReservationStatus
<1>5. CASE CommitStock
  <2>1. PICK r \in ReservationIds : commit_stock(r)
    BY <1>5 DEF CommitStock
  <2> DEFINE on_hand  == levels.on_hand - reservations[r].quantity
             reserved == levels.reserved - reservations[r].quantity
  <2>2. /\ reservations' = [reservations EXCEPT ![r].status = "Committed"]
        /\ levels' = [on_hand |-> on_hand, reserved |-> reserved,
                      available |-> on_hand - reserved, damaged |-> levels.damaged]
    BY <2>1 DEF commit_stock, OnStockCommitted
  <2>3. /\ reservations' \in [ReservationIds -> Reservation]
        /\ reservations[r].quantity \in Int
    BY <1>s, <2>2 DEF ReservationStatus
  <2>4. on_hand \in Int /\ reserved \in Int /\ on_hand - reserved \in Int
    BY <1>t, <2>3
  <2> HIDE DEF on_hand, reserved
  <2> QED  BY <1>l, <1>t, <2>2, <2>3, <2>4 DEF StateOK
<1>6. CASE AdjustStock
  BY <1>6, <1>h, <1>t DEF AdjustStock, adjust_stock, StockAdjustment, OnStockAdjusted
<1>7. CASE RecordStockCheck
  <2>1. PICK count \in Quantities : record_stock_check(count)
    BY <1>7 DEF RecordStockCheck
  <2>2. CASE UNCHANGED <<levels, reservations>>
    BY <1>t, <2>2 DEF StateOK
  <2>3. CASE OnHandSetTo(levels.on_hand + (count - levels.on_hand),
                         levels.on_hand + (count - levels.on_hand) - levels.reserved)
    BY <1>h, <1>t, <2>3
  <2> QED  BY <2>1, <2>2, <2>3 DEF record_stock_check, StockAdjustment, OnStockAdjusted
<1>8. CASE MarkDamaged
  <2>1. PICK quantity \in Quantities : mark_damaged(quantity)
    BY <1>8 DEF MarkDamaged
  <2>2. /\ reservations' = reservations
        /\ levels' = [on_hand |-> levels.on_hand - quantity, reserved |-> levels.reserved,
                      available |-> levels.on_hand - quantity - levels.reserved,
                      damaged |-> levels.damaged + quantity]
    BY <2>1 DEF mark_damaged, OnStockMarkedDamaged
  <2> QED  BY <1>l, <1>t, <2>2 DEF StateOK
<1>9. CASE WriteOffDamaged
  <2>1. PICK quantity \in Quantities : write_off_damaged(quantity)
    BY <1>9 DEF WriteOffDamaged
  <2>2. /\ reservations' = reservations
        /\ levels' = [on_hand |-> levels.on_hand, reserved |-> levels.reserved,
                      available |-> levels.available, damaged |-> levels.damaged - quantity]
    BY <2>1 DEF write_off_damaged, OnDamagedStockWrittenOff
  <2> QED  BY <1>l, <1>t, <2>2 DEF StateOK
<1>10. CASE ReturnToStock
  BY <1>10, <1>h, <1>t DEF ReturnToStock, return_to_stock, OnStockReturned
<1>11. CASE UNCHANGED vars
  BY <1>11, <1>t DEF vars, StateOK
<1> QED  BY <1>1, <1>2, <1>3, <1>4, <1>5, <1>6, <1>7, <1>8, <1>9, <1>10, <1>11 DEF Next

(* What a command raises is a sequence of events. *)
LEMMA NextRaisesEvents == TypeOK /\ [Next]_vars => (raised \in Seq(Event))'
<1> SUFFICES ASSUME TypeOK, [Next]_vars PROVE raised' \in Seq(Event)
  OBVIOUS
<1>s. StateOK'
  BY NextKeepsState
<1>l. levels' \in StockLevels
  BY <1>s DEF StateOK
<1> USE InventoryAssumption DEF TypeOK, StockLevels, Reservation, ReservationStatus
<1>1. CASE ReceiveStock
  BY <1>1 DEF ReceiveStock, receive_stock, Event
<1>2. CASE ReserveStock
  <2>1. PICK order_id \in OrderIds, quantity \in Quantities : reserve(order_id, quantity)
    BY <1>2 DEF ReserveStock
  <2> DEFINE Reserved(r) ==
        [type |-> "StockReserved", reservation_id |-> r, order_id |-> order_id,
         quantity |-> quantity, new_available |-> levels.available - quantity]
  <2>2. PICK r \in ReservationIds : raised' = <<Reserved(r)>> \o check_low_stock(levels')
    BY <2>1 DEF reserve
  <2>3. Reserved(r) \in Event
    BY DEF Event
  <2> HIDE DEF Reserved
  <2>4. <<Reserved(r)>> \in Seq(Event)
    BY <2>3
  <2> QED  BY <1>l, <2>2, <2>4, LowStockBatch
<1>3. CASE ReleaseReservation
  BY <1>3 DEF ReleaseReservation, release_reservation, Event, ReservationEvent
<1>4. CASE ConfirmReservation
  BY <1>4 DEF ConfirmReservation, confirm_reservation, Event, ReservationEvent
<1>5. CASE CommitStock
  BY <1>5 DEF CommitStock, commit_stock, Event
<1>6. CASE AdjustStock
  <2>1. PICK change \in Quantities : adjust_stock(change)
    BY <1>6 DEF AdjustStock
  <2>2. StockAdjustment(change) \in Event
    BY DEF StockAdjustment, Event
  <2>3. <<StockAdjustment(change)>> \in Seq(Event)
    BY <2>2
  <2>4. raised' = <<StockAdjustment(change)>> \o check_low_stock(levels')
    BY <2>1 DEF adjust_stock
  <2> QED  BY <1>l, <2>3, <2>4, LowStockBatch
<1>7. CASE RecordStockCheck
  <2>1. PICK count \in Quantities : record_stock_check(count)
    BY <1>7 DEF RecordStockCheck
  <2> DEFINE check == [type |-> "StockCheckRecorded", discrepancy |-> count - levels.on_hand]
             e == StockAdjustment(count - levels.on_hand)
  <2>2. check \in Event /\ e \in Event
    BY DEF StockAdjustment, Event
  <2>3. raised' = <<check>> \/ raised' = <<check, e>> \o check_low_stock(levels')
    BY <2>1 DEF record_stock_check
  <2>4. <<check>> \in Seq(Event) /\ <<check, e>> \in Seq(Event)
    BY <2>2
  <2>5. CASE raised' = <<check>>
    BY <2>4, <2>5
  <2>6. CASE raised' = <<check, e>> \o check_low_stock(levels')
    <3> HIDE DEF check, e
    <3> QED  BY <1>l, <2>4, <2>6, LowStockBatch
  <2> QED  BY <2>3, <2>5, <2>6
<1>8. CASE MarkDamaged
  <2>1. PICK quantity \in Quantities : mark_damaged(quantity)
    BY <1>8 DEF MarkDamaged
  <2> DEFINE e == [type |-> "StockMarkedDamaged", quantity |-> quantity,
                   new_on_hand |-> levels.on_hand - quantity,
                   new_damaged |-> levels.damaged + quantity,
                   new_available |-> levels.on_hand - quantity - levels.reserved]
  <2>2. e \in Event
    BY DEF Event
  <2>3. raised' = <<e>> \o check_low_stock(levels')
    BY <2>1 DEF mark_damaged
  <2> HIDE DEF e
  <2>4. <<e>> \in Seq(Event)
    BY <2>2
  <2> QED  BY <1>l, <2>3, <2>4, LowStockBatch
<1>9. CASE WriteOffDamaged
  BY <1>9 DEF WriteOffDamaged, write_off_damaged, Event
<1>10. CASE ReturnToStock
  BY <1>10 DEF ReturnToStock, return_to_stock, Event
<1>11. CASE UNCHANGED vars
  BY <1>11 DEF vars
<1> QED  BY <1>1, <1>2, <1>3, <1>4, <1>5, <1>6, <1>7, <1>8, <1>9, <1>10, <1>11 DEF Next

(* Type correctness of the aggregate, for all constants. *)
THEOREM TypeCorrect == Spec => []TypeOK
<1>1. Init => TypeOK
  BY InventoryAssumption DEF Init, InitializeStock, TypeOK, StockLevels,
     Reservation, ReservationStatus, NoReservation
<1>2. TypeOK /\ [Next]_vars => TypeOK'
  BY NextKeepsState, NextRaisesEvents DEF StateOK, TypeOK
<1> QED  BY <1>1, <1>2, PTL DEF Spec

------------------------------------------------------------------------------
(***************************************************************************)
(* The ledger.  Balance alone is not inductive: releasing or committing a  *)
(* reservation takes its quantity off levels.reserved, which only leaves a *)
(* sum of the remaining ones if the units held are finitely many.  Held    *)
(* reservations also hold at least one unit, which the pools need.         *)
(***************************************************************************)
LedgerInv == /\ LedgerBalanced
             /\ IsFiniteSet(UnitsOf(HeldIds, Quantity))
             /\ \A r \in HeldIds : Quantity[r] > 0

(* The three ways a command can touch the reservations.  First: it leaves  *)
(* what is held as it was.                                                 *)
LEMMA HeldUnchanged ==
  ASSUME TypeOK, LedgerInv, TypeOK', HeldIds' = HeldIds,
         \A r \in HeldIds : Quantity'[r] = Quantity[r],
         levels'.reserved = levels.reserved,
         levels'.available = levels'.on_hand - levels'.reserved,
         levels'.damaged >= 0
  PROVE  LedgerInv'
<1>1. /\ UnitsOf(HeldIds, Quantity') = UnitsOf(HeldIds, Quantity)
      /\ Total(HeldIds, Quantity') = Total(HeldIds, Quantity)
  BY TotalSame
<1> QED  BY <1>1 DEF LedgerInv, LedgerBalanced

(* Second: it adds one reservation. *)
LEMMA HeldGrows ==
  ASSUME TypeOK, LedgerInv, TypeOK', NEW r \in ReservationIds,
         r \notin HeldIds, HeldIds' = HeldIds \cup {r},
         \A s \in HeldIds : Quantity'[s] = Quantity[s],
         Quantity'[r] > 0,
         levels'.reserved = levels.reserved + Quantity'[r],
         levels'.available = levels'.on_hand - levels'.reserved,
         levels'.damaged >= 0
  PROVE  LedgerInv'
<1>1. Quantity'[r] \in Nat
  BY DEF TypeOK, Reservation, Quantity
<1>2. /\ UnitsOf(HeldIds, Quantity') = UnitsOf(HeldIds, Quantity)
      /\ Total(HeldIds, Quantity') = Total(HeldIds, Quantity)
  BY TotalSame
<1>3. IsFiniteSet(UnitsOf(HeldIds, Quantity'))
  BY <1>2 DEF LedgerInv
<1>4. /\ IsFiniteSet(UnitsOf(HeldIds \cup {r}, Quantity'))
      /\ Total(HeldIds \cup {r}, Quantity') = Total(HeldIds, Quantity') + Quantity'[r]
  BY <1>1, <1>3, TotalAdd
<1>5. \A s \in HeldIds' : Quantity'[s] > 0
  BY DEF LedgerInv
<1>6. LedgerBalanced'
  BY <1>2, <1>4 DEF LedgerInv, LedgerBalanced
<1> QED  BY <1>4, <1>5, <1>6 DEF LedgerInv

(* Third: it settles one reservation. *)
LEMMA HeldShrinks ==
  ASSUME TypeOK, LedgerInv, TypeOK', NEW r \in HeldIds,
         HeldIds' = HeldIds \ {r},
         \A s \in HeldIds \ {r} : Quantity'[s] = Quantity[s],
         levels'.reserved = levels.reserved - Quantity[r],
         levels'.available = levels'.on_hand - levels'.reserved,
         levels'.damaged >= 0
  PROVE  LedgerInv'
<1>1. Quantity[r] \in Nat
  BY DEF TypeOK, Reservation, Quantity, HeldIds
<1>2. /\ IsFiniteSet(UnitsOf(HeldIds', Quantity))
      /\ Total(HeldIds', Quantity) = Total(HeldIds, Quantity) - Quantity[r]
  BY <1>1, TotalRemove DEF LedgerInv
<1>3. /\ UnitsOf(HeldIds', Quantity') = UnitsOf(HeldIds', Quantity)
      /\ Total(HeldIds', Quantity') = Total(HeldIds', Quantity)
  BY TotalSame
<1>4. \A s \in HeldIds' : Quantity'[s] > 0
  BY DEF LedgerInv
<1>5. LedgerBalanced'
  BY <1>2, <1>3 DEF LedgerInv, LedgerBalanced
<1> QED  BY <1>2, <1>3, <1>4, <1>5 DEF LedgerInv

(* A new item holds nothing, and its ledger balances.                      *)
LEMMA LedgerInit == Init => LedgerInv
<1> SUFFICES ASSUME Init PROVE LedgerInv
  OBVIOUS
<1>1. HeldIds = {}
  BY DEF Init, InitializeStock, HeldIds, Held, NoReservation
<1>2. IsFiniteSet(UnitsOf(HeldIds, Quantity)) /\ Total(HeldIds, Quantity) = 0
  BY <1>1, TotalEmpty
<1> QED  BY <1>1, <1>2, InventoryAssumption DEF Init, InitializeStock, LedgerInv, LedgerBalanced

(* Every command keeps the ledger balanced: reserve adds one held          *)
(* reservation, release and commit take one away, the others keep them.    *)
LEMMA LedgerStep == TypeOK /\ TypeOK' /\ LedgerInv /\ [Next]_vars => LedgerInv'
<1> SUFFICES ASSUME TypeOK, TypeOK', LedgerInv, [Next]_vars PROVE LedgerInv'
  OBVIOUS
<1>k. /\ levels.available = levels.on_hand - levels.reserved
      /\ levels.damaged >= 0
  BY DEF LedgerInv, LedgerBalanced
<1>q. Quantity = [r \in ReservationIds |-> reservations[r].quantity]
      /\ Quantity' = [r \in ReservationIds |-> reservations'[r].quantity]
  BY DEF Quantity
<1>t. /\ levels.on_hand \in Int /\ levels.reserved \in Int
      /\ levels.available \in Int /\ levels.damaged \in Int
      /\ reservations \in [ReservationIds -> Reservation]
      /\ \A q \in Quantities : q \in Int
  BY InventoryAssumption DEF TypeOK, StockLevels
<1>0. ASSUME UNCHANGED reservations, levels'.reserved = levels.reserved,
             levels'.available = levels'.on_hand - levels'.reserved, levels'.damaged >= 0
      PROVE  LedgerInv'
  <2>1. HeldIds' = HeldIds /\ Quantity' = Quantity
    BY <1>0 DEF HeldIds, Held, Quantity
  <2> QED  BY <1>0, <2>1, HeldUnchanged
<1>h. ASSUME \E q : OnHandSetTo(q, q - levels.reserved)
      PROVE  LedgerInv'
  <2>1. PICK q : OnHandSetTo(q, q - levels.reserved)
    BY <1>h
  <2>2. /\ UNCHANGED reservations
        /\ levels'.reserved = levels.reserved
        /\ levels'.available = levels'.on_hand - levels'.reserved
        /\ levels'.damaged >= 0
    BY <1>k, <2>1 DEF OnHandSetTo
  <2> QED  BY <1>0, <2>2
<1>1. CASE ReceiveStock
  <2>1. PICK quantity \in Quantities : receive_stock(quantity)
    BY <1>1 DEF ReceiveStock
  <2> DEFINE q == levels.on_hand + quantity
  <2>2. OnHandSetTo(q, q - levels.reserved)
    BY <1>t, <2>1 DEF receive_stock, OnStockReceived, OnHandSetTo
  <2> HIDE DEF q
  <2> QED  BY <1>h, <2>2
<1>2. CASE ReserveStock
  <2>1. PICK order_id \in OrderIds, quantity \in Quantities : reserve(order_id, quantity)
    BY <1>2 DEF ReserveStock
  <2>2. PICK r \in ReservationIds :
          /\ reservations[r] = NoReservation
          /\ reservations' = [reservations EXCEPT ![r] =
               [status |-> "Active", quantity |-> quantity, order_id |-> order_id]]
          /\ levels' = [on_hand |-> levels.on_hand,
                        reserved |-> levels.reserved + quantity,
                        available |-> levels.available - quantity,
                        damaged |-> levels.damaged]
    BY <2>1 DEF reserve, OnStockReserved
  <2>3. r \notin HeldIds /\ HeldIds' = HeldIds \cup {r}
    BY <1>t, <2>2 DEF HeldIds, Held, NoReservation
  <2>4. Quantity'[r] = quantity /\ \A s \in HeldIds : Quantity'[s] = Quantity[s]
    BY <1>t, <2>2, <2>3, <1>q DEF HeldIds
  <2>5. quantity > 0 /\ quantity \in Int
    BY <1>t, <2>1 DEF reserve
  <2> QED  BY <1>k, <1>t, <2>2, <2>3, <2>4, <2>5, HeldGrows
<1>3. CASE ReleaseReservation
  <2>1. PICK r \in ReservationIds : release_reservation(r)
    BY <1>3 DEF ReleaseReservation
  <2>2. /\ reservations[r].status = "Active"
        /\ reservations' = [reservations EXCEPT ![r].status = "Released"]
        /\ levels' = [on_hand |-> levels.on_hand,
                      reserved |-> levels.reserved - reservations[r].quantity,
                      available |-> levels.available + reservations[r].quantity,
                      damaged |-> levels.damaged]
    BY <2>1 DEF release_reservation, OnReservationReleased
  <2>3. r \in HeldIds /\ HeldIds' = HeldIds \ {r}
    BY <1>t, <2>2 DEF HeldIds, Held, Reservation
  <2>4. Quantity' = Quantity /\ Quantity[r] = reservations[r].quantity
    BY <1>t, <2>2, <1>q DEF Reservation
  <2>5. /\ levels'.reserved = levels.reserved - Quantity[r]
        /\ levels'.available = levels'.on_hand - levels'.reserved
        /\ levels'.damaged >= 0
    BY <1>k, <1>t, <2>2, <2>4 DEF Reservation
  <2> QED  BY <2>3, <2>4, <2>5, HeldShrinks
<1>4. CASE ConfirmReservation
  <2>1. PICK r \in ReservationIds : confirm_reservation(r)
    BY <1>4 DEF ConfirmReservation
  <2>2. /\ reservations[r].status = "Active"
        /\ reservations' = [reservations EXCEPT ![r].status = "Confirmed"]
        /\ levels' = levels
    BY <2>1 DEF confirm_reservation, OnReservationConfirmed
  <2>3. HeldIds' = HeldIds /\ Quantity' = Quantity
    BY <1>t, <2>2, <1>q DEF HeldIds, Held, Reservation
  <2> QED  BY <1>k, <2>2, <2>3, HeldUnchanged
<1>5. CASE CommitStock
  <2>1. PICK r \in ReservationIds : commit_stock(r)
    BY <1>5 DEF CommitStock
  <2>2. /\ reservations[r].status = "Confirmed"
        /\ reservations' = [reservations EXCEPT ![r].status = "Committed"]
        /\ levels'.reserved = levels.reserved - reservations[r].quantity
        /\ levels'.available = levels'.on_hand - levels'.reserved
        /\ levels'.damaged = levels.damaged
    BY <2>1 DEF commit_stock, OnStockCommitted
  <2>3. r \in HeldIds /\ HeldIds' = HeldIds \ {r}
    BY <1>t, <2>2 DEF HeldIds, Held, Reservation
  <2>4. Quantity' = Quantity /\ Quantity[r] = reservations[r].quantity
    BY <1>t, <2>2, <1>q DEF Reservation
  <2> QED  BY <1>k, <1>t, <2>2, <2>3, <2>4, HeldShrinks
<1>6. CASE AdjustStock
  <2>1. PICK change \in Quantities : adjust_stock(change)
    BY <1>6 DEF AdjustStock
  <2> DEFINE q == levels.on_hand + change
  <2>2. OnHandSetTo(q, q - levels.reserved)
    BY <1>t, <2>1 DEF adjust_stock, StockAdjustment, OnStockAdjusted, OnHandSetTo
  <2> HIDE DEF q
  <2> QED  BY <1>h, <2>2
<1>7. CASE RecordStockCheck
  <2>1. PICK count \in Quantities : record_stock_check(count)
    BY <1>7 DEF RecordStockCheck
  <2> DEFINE q == levels.on_hand + (count - levels.on_hand)
  <2>2. UNCHANGED <<levels, reservations>> \/ OnHandSetTo(q, q - levels.reserved)
    BY <1>t, <2>1 DEF record_stock_check, StockAdjustment, OnStockAdjusted, OnHandSetTo
  <2> HIDE DEF q
  <2>3. CASE UNCHANGED <<levels, reservations>>
    BY <1>0, <1>k, <2>3
  <2> QED  BY <1>h, <2>2, <2>3
<1>8. CASE MarkDamaged
  <2>1. PICK quantity \in Quantities : mark_damaged(quantity)
    BY <1>8 DEF MarkDamaged
  <2>2. /\ UNCHANGED reservations
        /\ levels'.reserved = levels.reserved
        /\ levels'.available = levels'.on_hand - levels'.reserved
        /\ levels'.damaged = levels.damaged + quantity
        /\ quantity > 0
    BY <2>1 DEF mark_damaged, OnStockMarkedDamaged
  <2> QED  BY <1>0, <1>k, <1>t, <2>2
<1>9. CASE WriteOffDamaged
  <2>1. PICK quantity \in Quantities : write_off_damaged(quantity)
    BY <1>9 DEF WriteOffDamaged
  <2>2. /\ UNCHANGED reservations
        /\ levels'.reserved = levels.reserved
        /\ levels'.available = levels.available /\ levels'.on_hand = levels.on_hand
        /\ levels'.damaged = levels.damaged - quantity
        /\ quantity <= levels.damaged
    BY <2>1 DEF write_off_damaged, OnDamagedStockWrittenOff
  <2> QED  BY <1>0, <1>k, <1>t, <2>2
<1>10. CASE ReturnToStock
  <2>1. PICK quantity \in Quantities : return_to_stock(quantity)
    BY <1>10 DEF ReturnToStock
  <2> DEFINE q == levels.on_hand + quantity
  <2>2. OnHandSetTo(q, q - levels.reserved)
    BY <1>t, <2>1 DEF return_to_stock, OnStockReturned, OnHandSetTo
  <2> HIDE DEF q
  <2> QED  BY <1>h, <2>2
<1>11. CASE UNCHANGED vars
  BY <1>0, <1>11, <1>k DEF vars
<1> QED  BY <1>1, <1>2, <1>3, <1>4, <1>5, <1>6, <1>7, <1>8, <1>9, <1>10, <1>11 DEF Next

(* The ledger balances in every reachable state: available is on-hand less *)
(* reserved, reserved is what the live reservations hold, whatever the     *)
(* quantities, the number of reservations and the order of the commands.   *)
THEOREM LedgerAlwaysBalanced == Spec => []LedgerBalanced
<1>1. LedgerInv => LedgerBalanced
  BY DEF LedgerInv
<1> QED  BY TypeCorrect, LedgerInit, LedgerStep, <1>1, PTL DEF Spec

------------------------------------------------------------------------------
(***************************************************************************)
(* Refinement.  Every command is one step of the pools or none of them.    *)
(***************************************************************************)
LEMMA PoolsInit == Init => Pools!Init
  BY InventoryAssumption
     DEF Init, InitializeStock, Pools!Init, HeldAmount, Held, NoReservation

(* A reservation that is settled holds nothing any more, and the others    *)
(* hold what they held.                                                    *)
LEMMA HoldEnds ==
  ASSUME reservations \in [ReservationIds -> Reservation], NEW r \in ReservationIds,
         NEW s \in {"Released", "Committed"},
         reservations' = [reservations EXCEPT ![r].status = s]
  PROVE  HeldAmount' = [HeldAmount EXCEPT ![r] = 0]
<1>1. /\ reservations'[r].status = s
      /\ \A q \in ReservationIds \ {r} : reservations'[q] = reservations[q]
  BY DEF Reservation
<1>2. HeldAmount'[r] = 0 /\ \A q \in ReservationIds \ {r} : HeldAmount'[q] = HeldAmount[q]
  BY <1>1 DEF HeldAmount, Held
<1>3. /\ HeldAmount = [q \in ReservationIds |-> HeldAmount[q]]
      /\ HeldAmount' = [q \in ReservationIds |-> HeldAmount'[q]]
  BY DEF HeldAmount
<1> QED  BY <1>2, <1>3

(* Every command is a move between the pools, or no move at all.           *)
LEMMA PoolsStep ==
  ASSUME TypeOK, TypeOK', LedgerInv, LedgerInv', [Next]_vars
  PROVE  [Pools!Next]_(Pools!pools)
<1>t. /\ levels.on_hand \in Int /\ levels.reserved \in Int /\ levels.damaged \in Int
      /\ levels.available \in Int /\ levels'.available \in Int
      /\ reservations \in [ReservationIds -> Reservation]
      /\ \A r \in ReservationIds : reservations[r].quantity \in Nat
      /\ \A q \in Quantities : q \in Int
  BY InventoryAssumption DEF TypeOK, StockLevels, Reservation
<1>k. /\ levels.available = levels.on_hand - levels.reserved
      /\ levels'.available = levels'.on_hand - levels'.reserved
  BY DEF LedgerInv, LedgerBalanced
<1>q. /\ \A r \in HeldIds : HeldAmount[r] = reservations[r].quantity /\ HeldAmount[r] > 0
      /\ \A r \in ReservationIds \ HeldIds : HeldAmount[r] = 0
      /\ HeldAmount \in [ReservationIds -> Nat]
  BY <1>t DEF HeldAmount, HeldIds, LedgerInv, Quantity
<1>0. ASSUME UNCHANGED reservations
      PROVE  HeldAmount' = HeldAmount
  BY <1>0 DEF HeldAmount, Held
<1>c. ASSUME UNCHANGED reservations, levels'.damaged = levels.damaged
      PROVE  Pools!Correct
  BY <1>0, <1>c, <1>t DEF Pools!Correct
<1>1. CASE ReceiveStock
  BY <1>1, <1>c DEF ReceiveStock, receive_stock, OnStockReceived, OnHandSetTo, Pools!Next
<1>2. CASE ReserveStock
  <2>1. PICK order_id \in OrderIds, quantity \in Quantities : reserve(order_id, quantity)
    BY <1>2 DEF ReserveStock
  <2>2. PICK r \in ReservationIds :
          /\ reservations[r] = NoReservation
          /\ reservations' = [reservations EXCEPT ![r] =
               [status |-> "Active", quantity |-> quantity, order_id |-> order_id]]
          /\ levels' = [on_hand |-> levels.on_hand,
                        reserved |-> levels.reserved + quantity,
                        available |-> levels.available - quantity,
                        damaged |-> levels.damaged]
    BY <2>1 DEF reserve, OnStockReserved
  <2>3. quantity \in 1..levels.available
    BY <1>t, <2>1 DEF reserve
  <2>4. /\ reservations'[r].status = "Active" /\ reservations'[r].quantity = quantity
        /\ \A s \in ReservationIds \ {r} : reservations'[s] = reservations[s]
    BY <1>t, <2>2
  <2>5. HeldAmount'[r] = quantity
  /\ \A s \in ReservationIds \ {r} : HeldAmount'[s] = HeldAmount[s]
    BY <2>4 DEF HeldAmount, Held
  <2>6. HeldAmount' = [HeldAmount EXCEPT ![r] = quantity]
    <3>1. /\ HeldAmount = [s \in ReservationIds |-> HeldAmount[s]]
          /\ HeldAmount' = [s \in ReservationIds |-> HeldAmount'[s]]
      BY DEF HeldAmount
    <3> QED  BY <2>5, <3>1
  <2>7. HeldAmount[r] = 0
    BY <2>2 DEF HeldAmount, Held, NoReservation
  <2>8. HeldAmount'[r] = quantity
    BY <1>q, <2>6
  <2>9. Pools!Hold(r)
    BY <2>2, <2>3, <2>6, <2>8, <2>7 DEF Pools!Hold
  <2> QED  BY <2>9 DEF Pools!Next
<1>3. CASE ReleaseReservation
  <2>1. PICK r \in ReservationIds : release_reservation(r)
    BY <1>3 DEF ReleaseReservation
  <2>2. /\ reservations[r].status = "Active"
        /\ reservations' = [reservations EXCEPT ![r].status = "Released"]
        /\ levels'.available = levels.available + reservations[r].quantity
        /\ levels'.damaged = levels.damaged
    BY <2>1 DEF release_reservation, OnReservationReleased
  <2>3. r \in HeldIds
    BY <1>t, <2>2 DEF HeldIds, Held
  <2>4. HeldAmount' = [HeldAmount EXCEPT ![r] = 0]
    BY <1>t, <2>2, HoldEnds
  <2>5. Pools!GiveBack(r)
    BY <1>q, <2>2, <2>3, <2>4 DEF Pools!GiveBack
  <2> QED  BY <2>5 DEF Pools!Next
<1>4. CASE ConfirmReservation
  <2>1. PICK r \in ReservationIds : confirm_reservation(r)
    BY <1>4 DEF ConfirmReservation
  <2>2. /\ reservations[r].status = "Active"
        /\ reservations' = [reservations EXCEPT ![r].status = "Confirmed"]
        /\ levels' = levels
    BY <2>1 DEF confirm_reservation, OnReservationConfirmed
  <2>3. HeldAmount' = HeldAmount
    BY <1>t, <2>2 DEF HeldAmount, Held
  <2> QED  BY <2>2, <2>3 DEF Pools!pools
<1>5. CASE CommitStock
  <2>1. PICK r \in ReservationIds : commit_stock(r)
    BY <1>5 DEF CommitStock
  <2>2. /\ reservations[r].status = "Confirmed"
        /\ reservations' = [reservations EXCEPT ![r].status = "Committed"]
        /\ levels'.available = (levels.on_hand - reservations[r].quantity)
                                - (levels.reserved - reservations[r].quantity)
        /\ levels'.damaged = levels.damaged
    BY <2>1 DEF commit_stock, OnStockCommitted
  <2>3. r \in HeldIds
    BY <1>t, <2>2 DEF HeldIds, Held
  <2>4. HeldAmount' = [HeldAmount EXCEPT ![r] = 0]
    BY <1>t, <2>2, HoldEnds
  <2>5. levels'.available = levels.available
    BY <1>k, <1>t, <2>2
  <2>6. Pools!Ship(r)
    BY <1>q, <2>2, <2>3, <2>4, <2>5 DEF Pools!Ship
  <2> QED  BY <2>6 DEF Pools!Next
<1>6. CASE AdjustStock
  BY <1>6, <1>c DEF AdjustStock, adjust_stock, OnStockAdjusted, OnHandSetTo, Pools!Next
<1>7. CASE RecordStockCheck
  BY <1>7, <1>c DEF RecordStockCheck, record_stock_check, OnStockAdjusted, OnHandSetTo,
     Pools!Next
<1>8. CASE MarkDamaged
  <2>1. PICK quantity \in Quantities : mark_damaged(quantity)
    BY <1>8 DEF MarkDamaged
  <2>2. /\ quantity \in 1..levels.available
        /\ levels'.available = levels.available - quantity
        /\ levels'.damaged = levels.damaged + quantity
        /\ reservations' = reservations
    BY <1>k, <1>t, <2>1 DEF mark_damaged, OnStockMarkedDamaged
  <2>3. Pools!Damage
    BY <1>0, <1>t, <2>2 DEF Pools!Damage
  <2> QED  BY <2>3 DEF Pools!Next
<1>9. CASE WriteOffDamaged
  <2>1. PICK quantity \in Quantities : write_off_damaged(quantity)
    BY <1>9 DEF WriteOffDamaged
  <2>2. /\ quantity \in 1..levels.damaged
        /\ levels'.available = levels.available
        /\ levels'.damaged = levels.damaged - quantity
        /\ reservations' = reservations
    BY <1>t, <2>1 DEF write_off_damaged, OnDamagedStockWrittenOff
  <2>3. Pools!WriteOff
    BY <1>0, <1>t, <2>2 DEF Pools!WriteOff
  <2> QED  BY <2>3 DEF Pools!Next
<1>10. CASE ReturnToStock
  BY <1>10, <1>c DEF ReturnToStock, return_to_stock, OnStockReturned, OnHandSetTo, Pools!Next
<1>11. CASE UNCHANGED vars
  BY <1>0, <1>11 DEF vars, Pools!pools
<1> QED  BY <1>1, <1>2, <1>3, <1>4, <1>5, <1>6, <1>7, <1>8, <1>9, <1>10, <1>11 DEF Next

(* The event-sourced bookkeeping implements the three pools, for any       *)
(* number of reservations and any quantities: no unit is promised twice,   *)
(* shipped without having been held, or returned to sale while held.       *)
THEOREM RefinesPools == Spec => ImplementsPools
<1>1. TypeOK /\ TypeOK' /\ LedgerInv /\ LedgerInv' /\ [Next]_vars
        => [Pools!Next]_(Pools!pools)
  BY PoolsStep
<1> QED
  BY TypeCorrect, LedgerInit, LedgerStep, PoolsInit, <1>1, PTL
     DEF Spec, ImplementsPools, Pools!Spec

------------------------------------------------------------------------------
(***************************************************************************)
(* What may overdraw an item.                                              *)
(***************************************************************************)
LEMMA FirstOfBatch ==
  ASSUME NEW e, NEW more \in Seq(Event), e \in Event
  PROVE  Len(<<e>> \o more) >= 1 /\ (<<e>> \o more)[1] = e
<1> HIDE DEF Event
<1> QED  OBVIOUS

(* A count that changes the levels records the check and an adjustment.    *)
LEMMA CountAdjusts ==
  ASSUME NEW count, record_stock_check(count), levels'.available # levels.available
  PROVE  raised' = <<[type |-> "StockCheckRecorded", discrepancy |-> count - levels.on_hand],
                     StockAdjustment(count - levels.on_hand)>> \o check_low_stock(levels')
  BY DEF record_stock_check

(* A command that takes available stock below zero raised StockAdjusted.   *)
LEMMA OverdrawStep ==
  ASSUME TypeOK, TypeOK', LedgerInv, LedgerInv', Next,
         levels.available >= 0, levels'.available < 0
  PROVE  \E i \in 1..Len(raised') : raised'[i].type = "StockAdjusted"
<1>t. /\ levels.on_hand \in Int /\ levels.reserved \in Int
      /\ levels.available \in Int /\ levels'.available \in Int
      /\ levels.damaged \in Int
      /\ levels' \in StockLevels
      /\ \A r \in ReservationIds : reservations[r].quantity \in Nat
      /\ \A q \in Quantities : q \in Int
  BY InventoryAssumption DEF TypeOK, StockLevels, Reservation
<1>k. /\ levels.available = levels.on_hand - levels.reserved
      /\ levels'.available = levels'.on_hand - levels'.reserved
      /\ \A r \in HeldIds : reservations[r].quantity > 0
  BY DEF LedgerInv, LedgerBalanced, HeldIds, Quantity
<1>l. check_low_stock(levels') \in Seq(Event)
  BY <1>t, AlertIsBatch
<1>1. CASE ReceiveStock
  <2>1. PICK quantity \in Quantities : receive_stock(quantity)
    BY <1>1 DEF ReceiveStock
  <2>2. /\ quantity > 0
        /\ levels'.available = levels.on_hand + quantity - levels.reserved
    BY <2>1 DEF receive_stock, OnStockReceived, OnHandSetTo
  <2> QED  BY <1>t, <1>k, <2>2
<1>2. CASE ReserveStock
  <2>1. PICK order_id \in OrderIds, quantity \in Quantities : reserve(order_id, quantity)
    BY <1>2 DEF ReserveStock
  <2>2. /\ levels.available >= quantity
        /\ levels'.available = levels.available - quantity
    BY <2>1 DEF reserve, OnStockReserved
  <2> QED  BY <1>t, <2>2
<1>3. CASE ReleaseReservation
  <2>1. PICK r \in ReservationIds : release_reservation(r)
    BY <1>3 DEF ReleaseReservation
  <2>2. levels'.available = levels.available + reservations[r].quantity
    BY <2>1 DEF release_reservation, OnReservationReleased
  <2> QED  BY <1>t, <2>2
<1>4. CASE ConfirmReservation
  BY <1>t, <1>4, <1>k DEF ConfirmReservation, confirm_reservation, OnReservationConfirmed
<1>5. CASE CommitStock
  <2>1. PICK r \in ReservationIds : commit_stock(r)
    BY <1>5 DEF CommitStock
  <2>2. levels'.available = (levels.on_hand - reservations[r].quantity)
                            - (levels.reserved - reservations[r].quantity)
    BY <2>1 DEF commit_stock, OnStockCommitted
  <2> QED  BY <1>t, <1>k, <2>2 DEF Reservation
<1>6. CASE AdjustStock
  <2>1. PICK change \in Quantities : adjust_stock(change)
    BY <1>6 DEF AdjustStock
  <2>2. raised' = <<StockAdjustment(change)>> \o check_low_stock(levels')
    BY <2>1 DEF adjust_stock
  <2>3. /\ StockAdjustment(change).type = "StockAdjusted"
        /\ StockAdjustment(change) \in Event
    BY <1>t DEF StockAdjustment, Event
  <2>4. Len(raised') >= 1 /\ raised'[1] = StockAdjustment(change)
    BY <1>l, <2>2, <2>3, FirstOfBatch
  <2>5. 1 \in 1..Len(raised')
    <3> HIDE DEF Event
    <3> QED  BY <2>4
  <2> QED  BY <2>3, <2>4, <2>5
<1>7. CASE RecordStockCheck
  <2>1. PICK count \in Quantities : record_stock_check(count)
    BY <1>7 DEF RecordStockCheck
  <2> DEFINE change == count - levels.on_hand
             check == [type |-> "StockCheckRecorded", discrepancy |-> change]
             e == StockAdjustment(change)
  <2>2. raised' = <<check, e>> \o check_low_stock(levels')
    BY <1>t, <2>1, CountAdjusts
  <2>3. /\ change \in Int
        /\ levels.on_hand + change \in Int
        /\ levels.on_hand + change - levels.reserved \in Int
    BY <1>t
  <2>4. check \in Event
    BY <1>t, <2>3 DEF Event
  <2>5. e \in Event
    BY <1>t, <2>3 DEF StockAdjustment, Event
  <2>6. e.type = "StockAdjusted"
    BY <1>t DEF StockAdjustment
  <2> HIDE DEF check, e
  <2>7. Len(raised') >= 2 /\ raised'[2] = e
    <3> HIDE DEF Event
    <3> QED  BY <1>l, <2>2, <2>4, <2>5
  <2>8. Len(raised') \in Nat
    BY <1>t
  <2>9. 2 \in 1..Len(raised')
    BY <2>7, <2>8
  <2> QED  BY <2>6, <2>7, <2>9
<1>8. CASE MarkDamaged
  <2>1. PICK quantity \in Quantities : mark_damaged(quantity)
    BY <1>8 DEF MarkDamaged
  <2>2. /\ quantity <= levels.on_hand - levels.reserved
        /\ levels'.available = levels.on_hand - quantity - levels.reserved
    BY <2>1 DEF mark_damaged, OnStockMarkedDamaged
  <2> QED  BY <1>t, <2>2
<1>9. CASE WriteOffDamaged
  BY <1>t, <1>9, <1>k DEF WriteOffDamaged, write_off_damaged, OnDamagedStockWrittenOff
<1>10. CASE ReturnToStock
  <2>1. PICK quantity \in Quantities : return_to_stock(quantity)
    BY <1>10 DEF ReturnToStock
  <2>2. /\ quantity > 0
        /\ levels'.available = levels.on_hand + quantity - levels.reserved
    BY <2>1 DEF return_to_stock, OnStockReturned, OnHandSetTo
  <2> QED  BY <1>t, <1>k, <2>2
<1> QED  BY <1>1, <1>2, <1>3, <1>4, <1>5, <1>6, <1>7, <1>8, <1>9, <1>10 DEF Next

(* Only a manual adjustment or a count can take available stock below      *)
(* zero: this is what the code guarantees of "available cannot be          *)
(* negative".                                                              *)
THEOREM AdjustmentsAloneOverdraw == Spec => OnlyAdjustmentsOverdraw
<1> DEFINE Allowed == levels.available >= 0 /\ levels'.available < 0 =>
                        \E i \in 1..Len(raised') : raised'[i].type = "StockAdjusted"
<1>1. TypeOK /\ TypeOK' /\ LedgerInv /\ LedgerInv' /\ [Next]_vars => [Allowed]_vars
  BY OverdrawStep
<1> QED
  BY TypeCorrect, LedgerInit, LedgerStep, <1>1, PTL
     DEF Spec, OnlyAdjustmentsOverdraw, Allowed

------------------------------------------------------------------------------
(***************************************************************************)
(* Which commands announce low stock.                                      *)
(***************************************************************************)
LEMMA AlertLast ==
  ASSUME NEW batch \in Seq(Event), NEW stock \in StockLevels,
         stock.available <= EffectiveReorderPoint
  PROVE  LET announced == batch \o check_low_stock(stock)
         IN  \E i \in 1..Len(announced) :
               announced[i] = [type |-> "LowStockDetected", current_available |-> stock.available]
<1> DEFINE alert == [type |-> "LowStockDetected", current_available |-> stock.available]
           announced == batch \o check_low_stock(stock)
<1>1. alert \in Event
  BY DEF Event, StockLevels
<1>2. announced = batch \o <<alert>>
  BY DEF check_low_stock
<1> HIDE DEF alert, announced
<1>3. /\ Len(announced) \in Nat /\ Len(announced) >= 1
      /\ announced[Len(announced)] = alert
  <2> HIDE DEF Event
  <2> QED  BY <1>1, <1>2
<1>4. Len(announced) \in 1..Len(announced)
  BY <1>3
<1> QED  BY <1>3, <1>4 DEF alert, announced

(* A command that takes available stock down, to the reorder point or      *)
(* below, ends with _check_low_stock.                                      *)
LEMMA AlertStep ==
  ASSUME TypeOK, TypeOK', LedgerInv, LedgerInv', Next,
         levels'.available < levels.available,
         levels'.available <= EffectiveReorderPoint
  PROVE  \E i \in 1..Len(raised') : raised'[i] =
           [type |-> "LowStockDetected", current_available |-> levels'.available]
<1>t. /\ levels.on_hand \in Int /\ levels.reserved \in Int
      /\ levels.available \in Int /\ levels'.available \in Int
      /\ levels.damaged \in Int
      /\ levels' \in StockLevels
      /\ \A r \in ReservationIds : reservations[r].quantity \in Nat
      /\ \A q \in Quantities : q \in Int
  BY InventoryAssumption DEF TypeOK, StockLevels, Reservation
<1>k. /\ levels.available = levels.on_hand - levels.reserved
      /\ levels'.available = levels'.on_hand - levels'.reserved
      /\ \A r \in HeldIds : reservations[r].quantity > 0
  BY DEF LedgerInv, LedgerBalanced, HeldIds, Quantity
<1>a. ASSUME NEW batch \in Seq(Event), raised' = batch \o check_low_stock(levels')
      PROVE  \E i \in 1..Len(raised') : raised'[i] =
               [type |-> "LowStockDetected", current_available |-> levels'.available]
  BY <1>a, <1>t, AlertLast
<1>1. CASE ReceiveStock
  <2>1. PICK quantity \in Quantities : receive_stock(quantity)
    BY <1>1 DEF ReceiveStock
  <2>2. /\ quantity > 0
        /\ levels'.available = levels.on_hand + quantity - levels.reserved
    BY <2>1 DEF receive_stock, OnStockReceived, OnHandSetTo
  <2> QED  BY <1>t, <1>k, <2>2
<1>2. CASE ReserveStock
  <2>1. PICK order_id \in OrderIds, quantity \in Quantities : reserve(order_id, quantity)
    BY <1>2 DEF ReserveStock
  <2> DEFINE Reserved(r) ==
        [type |-> "StockReserved", reservation_id |-> r, order_id |-> order_id,
         quantity |-> quantity, new_available |-> levels.available - quantity]
  <2>2. PICK r \in ReservationIds : raised' = <<Reserved(r)>> \o check_low_stock(levels')
    BY <2>1 DEF reserve
  <2>3. Reserved(r) \in Event
    BY <1>t DEF Event
  <2>4. <<Reserved(r)>> \in Seq(Event)
    <3> HIDE DEF Event, Reserved
    <3> QED  BY <2>3
  <2> QED  BY <1>a, <2>2, <2>4
<1>3. CASE ReleaseReservation
  <2>1. PICK r \in ReservationIds : release_reservation(r)
    BY <1>3 DEF ReleaseReservation
  <2>2. levels'.available = levels.available + reservations[r].quantity
    BY <2>1 DEF release_reservation, OnReservationReleased
  <2> QED  BY <1>t, <2>2
<1>4. CASE ConfirmReservation
  BY <1>t, <1>4, <1>k DEF ConfirmReservation, confirm_reservation, OnReservationConfirmed
<1>5. CASE CommitStock
  <2>1. PICK r \in ReservationIds : commit_stock(r)
    BY <1>5 DEF CommitStock
  <2>2. levels'.available = (levels.on_hand - reservations[r].quantity)
                            - (levels.reserved - reservations[r].quantity)
    BY <2>1 DEF commit_stock, OnStockCommitted
  <2> QED  BY <1>t, <1>k, <2>2 DEF Reservation
<1>6. CASE AdjustStock
  <2>1. PICK change \in Quantities : adjust_stock(change)
    BY <1>6 DEF AdjustStock
  <2>2. raised' = <<StockAdjustment(change)>> \o check_low_stock(levels')
    BY <2>1 DEF adjust_stock
  <2>3. StockAdjustment(change) \in Event
    BY <1>t DEF StockAdjustment, Event
  <2>4. <<StockAdjustment(change)>> \in Seq(Event)
    <3> HIDE DEF Event
    <3> QED  BY <2>3
  <2> QED  BY <1>a, <2>2, <2>4
<1>7. CASE RecordStockCheck
  <2>1. PICK count \in Quantities : record_stock_check(count)
    BY <1>7 DEF RecordStockCheck
  <2> DEFINE change == count - levels.on_hand
             check == [type |-> "StockCheckRecorded", discrepancy |-> change]
             e == StockAdjustment(change)
  <2>2. raised' = <<check, e>> \o check_low_stock(levels')
    BY <1>t, <2>1, CountAdjusts
  <2>3. /\ change \in Int
        /\ levels.on_hand + change \in Int
        /\ levels.on_hand + change - levels.reserved \in Int
    BY <1>t
  <2>4. check \in Event
    BY <1>t, <2>3 DEF Event
  <2>5. e \in Event
    BY <1>t, <2>3 DEF StockAdjustment, Event
  <2> HIDE DEF check, e
  <2>6. <<check, e>> \in Seq(Event)
    <3> HIDE DEF Event
    <3> QED  BY <2>4, <2>5
  <2> QED  BY <1>a, <2>2, <2>6
<1>8. CASE MarkDamaged
  <2>1. PICK quantity \in Quantities : mark_damaged(quantity)
    BY <1>8 DEF MarkDamaged
  <2> DEFINE e == [type |-> "StockMarkedDamaged", quantity |-> quantity,
                   new_on_hand |-> levels.on_hand - quantity,
                   new_damaged |-> levels.damaged + quantity,
                   new_available |-> levels.on_hand - quantity - levels.reserved]
  <2>2. raised' = <<e>> \o check_low_stock(levels')
    BY <2>1 DEF mark_damaged
  <2>3. e \in Event
    BY <1>t DEF Event
  <2>4. <<e>> \in Seq(Event)
    <3> HIDE DEF Event, e
    <3> QED  BY <2>3
  <2> QED  BY <1>a, <2>2, <2>4
<1>9. CASE WriteOffDamaged
  BY <1>t, <1>9, <1>k DEF WriteOffDamaged, write_off_damaged, OnDamagedStockWrittenOff
<1>10. CASE ReturnToStock
  <2>1. PICK quantity \in Quantities : return_to_stock(quantity)
    BY <1>10 DEF ReturnToStock
  <2>2. /\ quantity > 0
        /\ levels'.available = levels.on_hand + quantity - levels.reserved
    BY <2>1 DEF return_to_stock, OnStockReturned, OnHandSetTo
  <2> QED  BY <1>t, <1>k, <2>2
<1> QED  BY <1>1, <1>2, <1>3, <1>4, <1>5, <1>6, <1>7, <1>8, <1>9, <1>10 DEF Next

(* No command takes stock to the reorder point or below without an alert   *)
(* that quotes the resulting level: _check_low_stock is called, after the  *)
(* event was applied, wherever available stock may shrink.                 *)
THEOREM LowStockAlwaysAnnounced == Spec => LowStockAnnounced
<1> DEFINE Announced ==
      levels'.available < levels.available /\ levels'.available <= EffectiveReorderPoint =>
        \E i \in 1..Len(raised') : raised'[i] =
          [type |-> "LowStockDetected", current_available |-> levels'.available]
<1>1. TypeOK /\ TypeOK' /\ LedgerInv /\ LedgerInv' /\ [Next]_vars => [Announced]_vars
  BY AlertStep
<1> QED
  BY TypeCorrect, LedgerInit, LedgerStep, <1>1, PTL
     DEF Spec, LowStockAnnounced, Announced

------------------------------------------------------------------------------
(***************************************************************************)
(* The projections of the item.  What a projection is to tell in the end   *)
(* is one or more facets; each is read out of the events on its own.  The  *)
(* facets that are copied out of an event survive its being handled twice. *)
(***************************************************************************)
LevelViews == {"inventory_level", "warehouse_stock"}

Facets(v) ==
  CASE v \in LevelViews -> {"on_hand", "available", "damaged", "reserved"}
    [] v = "product_availability" -> {"on_hand_sum", "reserved_sum", "available_sum"}
    [] v = "inventory_valuation" -> {"valued"}
    [] v = "low_stock_report" -> {"report"}
    [] v = "shrinkage_report" -> {"shrinkage"}
    [] v = "stock_movement_log" -> {"on_hand"}

Copied == {"on_hand", "available", "damaged", "valued", "report"}

Rows(v) ==
  CASE v \in LevelViews -> StockLevels
    [] v = "product_availability" -> [on_hand : Int, reserved : Int, available : Int]
    [] v \in {"inventory_valuation", "stock_movement_log"} -> [on_hand : Int]
    [] v = "low_stock_report" -> [listed : BOOLEAN, available : Int]
    [] v = "shrinkage_report" -> [adjustments : Int, damaged : Int, written_off : Int]

Values(f) == IF f = "report" THEN [listed : BOOLEAN, available : Int] ELSE Int

(* A facet of the row r. *)
Part(f, r) ==
  CASE f \in {"on_hand", "on_hand_sum", "valued"} -> r.on_hand
    [] f \in {"available", "available_sum"} -> r.available
    [] f \in {"reserved", "reserved_sum"} -> r.reserved
    [] f = "damaged" -> r.damaged
    [] f = "shrinkage" -> r.damaged - r.written_off
    [] f = "report" -> r

HandledEvents(v) == {e \in Event : e.type \in HandledBy[v]}

(* How a facet is read: what becomes of it with event e. *)
OnHandRead(x, e) == IF e.type \in OnHandEvents \cup {"StockCommitted", "StockMarkedDamaged"}
                    THEN e.new_on_hand ELSE x

AvailableRead(x, e) == IF e.type = "StockCommitted" THEN e.new_on_hand - e.new_reserved
                       ELSE IF e.type = "DamagedStockWrittenOff" THEN x ELSE e.new_available

DamagedRead(x, e) == IF e.type \in {"StockMarkedDamaged", "DamagedStockWrittenOff"}
                     THEN e.new_damaged ELSE x

ReservedRead(x, e) == IF e.type = "StockReserved" THEN x + e.quantity
                      ELSE IF e.type = "ReservationReleased" THEN x - e.quantity
                      ELSE IF e.type = "StockCommitted" THEN e.new_reserved ELSE x

Sum(x, e, added, taken) == IF e.type \in added THEN x + e.quantity
                           ELSE IF e.type \in taken THEN x - e.quantity ELSE x

OnHandSum(x, e) == Sum(x, e, OnHandEvents, {"StockCommitted", "StockMarkedDamaged"})

ReservedSum(x, e) == Sum(x, e, {"StockReserved"}, {"ReservationReleased", "StockCommitted"})

AvailableSum(x, e) == Sum(x, e, OnHandEvents \cup {"ReservationReleased"},
                          {"StockReserved", "StockMarkedDamaged"})

ShrinkageSum(x, e) == Sum(x, e, {"StockMarkedDamaged"}, {"DamagedStockWrittenOff"})

Read(f, x, e) ==
  CASE f \in {"on_hand", "valued"} -> OnHandRead(x, e)
    [] f = "available" -> AvailableRead(x, e)
    [] f = "damaged" -> DamagedRead(x, e)
    [] f = "reserved" -> ReservedRead(x, e)
    [] f = "on_hand_sum" -> OnHandSum(x, e)
    [] f = "reserved_sum" -> ReservedSum(x, e)
    [] f = "available_sum" -> AvailableSum(x, e)
    [] f = "shrinkage" -> ShrinkageSum(x, e)
    [] f = "report" -> on_low_stock_report(x, e)

Steps(v, f) == {t \in Values(f) \X HandledEvents(v) \X Values(f) : t[3] = Read(f, t[1], t[2])}

(* The value x of a facet tells of the item what it is to tell.  The       *)
(* report quotes what is not above the reorder point either, or an         *)
(* adjustment that lifts the stock past it could leave it below the quote. *)
Tells(f, x) ==
  CASE f \in {"on_hand", "on_hand_sum"} -> x = levels.on_hand
    [] f \in {"available", "available_sum"} -> x = levels.available
    [] f \in {"reserved", "reserved_sum"} -> x = levels.reserved
    [] f \in {"damaged", "shrinkage"} -> x = levels.damaged
    [] f = "valued" ->
         /\ x >= levels.on_hand
         /\ (\E k \in 1..Len(raised) : raised[k].type \in HandledBy.inventory_valuation) =>
               x = levels.on_hand
    [] f = "report" ->
         /\ InitialQuantity > EffectiveReorderPoint
              /\ levels.available <= EffectiveReorderPoint => x.listed
         /\ x.listed => /\ x.available <= levels.available
                        /\ x.available <= EffectiveReorderPoint

Ahead(v, f) == \E x \in Values(f) : Tells(f, x) /\ Leads(Steps(v, f), Part(f, row), unread, x)

(* What is summed up is right as long as nothing was handled twice, and    *)
(* nothing was passed over for want of the row of inventory_level.         *)
Trusted(v, f) ==
  f \in Copied \/ (~redelivered /\ (v = "product_availability" => level_row = "written"))

StockViewInv ==
  /\ TypeOK /\ LedgerInv
  /\ view \in Views \cup {"none"}
  /\ view \in Views => /\ row \in Rows(view)
                       /\ unread \in Seq(HandledEvents(view))
                       /\ \A f \in Facets(view) : Trusted(view, f) => Ahead(view, f)

------------------------------------------------------------------------------
(* The fields of the events, by their type. *)
LEMMA EventFields ==
  ASSUME NEW e \in Event
  PROVE  /\ e.type \in OnHandEvents =>
              e.quantity \in Int /\ e.new_on_hand \in Int /\ e.new_available \in Int
         /\ e.type \in {"StockReserved", "ReservationReleased"} =>
              e.quantity \in Int /\ e.new_available \in Int
         /\ e.type = "StockCommitted" =>
              e.quantity \in Int /\ e.new_on_hand \in Int /\ e.new_reserved \in Int
         /\ e.type = "StockMarkedDamaged" =>
              /\ e.quantity \in Int /\ e.new_on_hand \in Int
              /\ e.new_damaged \in Int /\ e.new_available \in Int
         /\ e.type = "DamagedStockWrittenOff" => e.quantity \in Int /\ e.new_damaged \in Int
         /\ e.type = "LowStockDetected" => e.current_available \in Int
<1>1. e.type \in OnHandEvents =>
        e.quantity \in Int /\ e.new_on_hand \in Int /\ e.new_available \in Int
  BY DEF Event, ReservationEvent, OnHandEvents
<1>2. e.type \in {"StockReserved", "ReservationReleased"} =>
        e.quantity \in Int /\ e.new_available \in Int
  BY DEF Event, ReservationEvent
<1>3. e.type = "StockCommitted" =>
        e.quantity \in Int /\ e.new_on_hand \in Int /\ e.new_reserved \in Int
  BY DEF Event, ReservationEvent
<1>4. e.type = "StockMarkedDamaged" =>
        /\ e.quantity \in Int /\ e.new_on_hand \in Int
        /\ e.new_damaged \in Int /\ e.new_available \in Int
  BY DEF Event, ReservationEvent
<1>5. e.type = "DamagedStockWrittenOff" => e.quantity \in Int /\ e.new_damaged \in Int
  BY DEF Event, ReservationEvent
<1>6. e.type = "LowStockDetected" => e.current_available \in Int
  BY DEF Event, ReservationEvent
<1> QED  BY <1>1, <1>2, <1>3, <1>4, <1>5, <1>6

(* How each of the facets is read. *)
LEMMA ReadIs ==
  ASSUME NEW x, NEW e
  PROVE  /\ Read("on_hand", x, e) = OnHandRead(x, e)
         /\ Read("valued", x, e) = OnHandRead(x, e)
         /\ Read("available", x, e) = AvailableRead(x, e)
         /\ Read("damaged", x, e) = DamagedRead(x, e)
         /\ Read("reserved", x, e) = ReservedRead(x, e)
         /\ Read("on_hand_sum", x, e) = OnHandSum(x, e)
         /\ Read("reserved_sum", x, e) = ReservedSum(x, e)
         /\ Read("available_sum", x, e) = AvailableSum(x, e)
         /\ Read("shrinkage", x, e) = ShrinkageSum(x, e)
         /\ Read("report", x, e) = on_low_stock_report(x, e)
  BY Zenon DEF Read

(* Which facets a projection has, and where they are in its row. *)
LEMMA FacetsAre ==
  ASSUME NEW v \in Views, NEW f \in Facets(v)
  PROVE  /\ v \in LevelViews => f \in {"on_hand", "available", "damaged", "reserved"}
         /\ v = "product_availability" =>
              f \in {"on_hand_sum", "reserved_sum", "available_sum"}
         /\ v = "inventory_valuation" => f = "valued"
         /\ v = "low_stock_report" => f = "report"
         /\ v = "shrinkage_report" => f = "shrinkage"
         /\ v = "stock_movement_log" => f = "on_hand"
  BY DEF Facets, Views, LevelViews

LEMMA PartIs ==
  ASSUME NEW r
  PROVE  /\ \A f \in {"on_hand", "on_hand_sum", "valued"} : Part(f, r) = r.on_hand
         /\ \A f \in {"available", "available_sum"} : Part(f, r) = r.available
         /\ \A f \in {"reserved", "reserved_sum"} : Part(f, r) = r.reserved
         /\ Part("damaged", r) = r.damaged
         /\ Part("shrinkage", r) = r.damaged - r.written_off
         /\ Part("report", r) = r
  BY DEF Part

(* A projector reads every facet of its projection, and what it copies it  *)
(* copies again when it reads the event again. *)
LEMMA StockRowKept ==
  ASSUME NEW v \in Views, NEW r \in Rows(v), NEW e \in HandledEvents(v),
         v = "product_availability" => level_row # "awaited"
  PROVE  /\ Projected(v, r, e) \in Rows(v)
         /\ \A f \in Facets(v) : /\ Part(f, r) \in Values(f)
                                 /\ Part(f, Projected(v, r, e)) = Read(f, Part(f, r), e)
<1>1. e \in Event /\ e.type \in HandledBy[v]
  BY DEF HandledEvents
<1>f. /\ e.type \in OnHandEvents =>
            e.quantity \in Int /\ e.new_on_hand \in Int /\ e.new_available \in Int
      /\ e.type \in {"StockReserved", "ReservationReleased"} =>
           e.quantity \in Int /\ e.new_available \in Int
      /\ e.type = "StockCommitted" =>
           e.quantity \in Int /\ e.new_on_hand \in Int /\ e.new_reserved \in Int
      /\ e.type = "StockMarkedDamaged" =>
           /\ e.quantity \in Int /\ e.new_on_hand \in Int
           /\ e.new_damaged \in Int /\ e.new_available \in Int
      /\ e.type = "DamagedStockWrittenOff" => e.quantity \in Int /\ e.new_damaged \in Int
      /\ e.type = "LowStockDetected" => e.current_available \in Int
  BY <1>1, EventFields
<1>2. CASE v \in LevelViews
  <2>1. r \in StockLevels /\ Projected(v, r, e) = on_inventory_level(r, e)
    BY <1>2 DEF Rows, Projected, on_warehouse_stock, LevelViews
  <2>2. e.type \in OnHandEvents \cup {"StockReserved", "ReservationReleased", "StockCommitted",
                                      "StockMarkedDamaged", "DamagedStockWrittenOff"}
    BY <1>1, <1>2 DEF HandledBy, LevelViews
  <2> DEFINE after == on_inventory_level(r, e)
             Kept == /\ after \in StockLevels
                     /\ after.on_hand = OnHandRead(r.on_hand, e)
                     /\ after.available = AvailableRead(r.available, e)
                     /\ after.damaged = DamagedRead(r.damaged, e)
                     /\ after.reserved = ReservedRead(r.reserved, e)
  <2>i. /\ r.on_hand \in Int /\ r.available \in Int /\ r.damaged \in Int /\ r.reserved \in Int
        /\ r = [on_hand |-> r.on_hand, reserved |-> r.reserved,
                available |-> r.available, damaged |-> r.damaged]
    BY <2>1 DEF StockLevels
  <2>3. Kept
    <3>k. ASSUME NEW n_on_hand \in Int, NEW n_reserved \in Int, NEW n_available \in Int,
                 NEW n_damaged \in Int,
                 after = [on_hand |-> n_on_hand, reserved |-> n_reserved,
                          available |-> n_available, damaged |-> n_damaged],
                 n_on_hand = OnHandRead(r.on_hand, e),
                 n_reserved = ReservedRead(r.reserved, e),
                 n_available = AvailableRead(r.available, e),
                 n_damaged = DamagedRead(r.damaged, e)
          PROVE  Kept
      BY <3>k DEF StockLevels
    <3>1. CASE e.type \in OnHandEvents
      <4>1. after = [r EXCEPT !.on_hand = e.new_on_hand, !.available = e.new_available]
        BY <2>1, <3>1 DEF on_inventory_level, OnHandEvents
      <4>2. after = [on_hand |-> e.new_on_hand, reserved |-> r.reserved,
                     available |-> e.new_available, damaged |-> r.damaged]
        BY <2>i, <4>1
      <4>3. /\ e.new_on_hand = OnHandRead(r.on_hand, e)
            /\ r.reserved = ReservedRead(r.reserved, e)
            /\ e.new_available = AvailableRead(r.available, e)
            /\ r.damaged = DamagedRead(r.damaged, e)
        BY <3>1 DEF OnHandEvents, OnHandRead, AvailableRead, DamagedRead, ReservedRead
      <4>4. e.new_on_hand \in Int /\ r.reserved \in Int /\ e.new_available \in Int
            /\ r.damaged \in Int
        BY <1>f, <2>i, <3>1
      <4> HIDE DEF after, Kept
      <4> QED  BY <3>k, <4>2, <4>3, <4>4
    <3>2. CASE e.type = "StockReserved"
      <4>1. after = [r EXCEPT !.reserved = @ + e.quantity, !.available = e.new_available]
        BY <2>1, <3>2 DEF on_inventory_level, OnHandEvents
      <4>2. after = [on_hand |-> r.on_hand, reserved |-> r.reserved + e.quantity,
                     available |-> e.new_available, damaged |-> r.damaged]
        BY <2>i, <4>1
      <4>3. /\ r.on_hand = OnHandRead(r.on_hand, e)
            /\ r.reserved + e.quantity = ReservedRead(r.reserved, e)
            /\ e.new_available = AvailableRead(r.available, e)
            /\ r.damaged = DamagedRead(r.damaged, e)
        BY <3>2 DEF OnHandEvents, OnHandRead, AvailableRead, DamagedRead, ReservedRead
      <4>4. r.on_hand \in Int /\ r.reserved + e.quantity \in Int /\ e.new_available \in Int
            /\ r.damaged \in Int
        BY <1>f, <2>i, <3>2
      <4> HIDE DEF after, Kept
      <4> QED  BY <3>k, <4>2, <4>3, <4>4
    <3>3. CASE e.type = "ReservationReleased"
      <4>1. after = [r EXCEPT !.reserved = @ - e.quantity, !.available = e.new_available]
        BY <2>1, <3>3 DEF on_inventory_level, OnHandEvents
      <4>2. after = [on_hand |-> r.on_hand, reserved |-> r.reserved - e.quantity,
                     available |-> e.new_available, damaged |-> r.damaged]
        BY <2>i, <4>1
      <4>3. /\ r.on_hand = OnHandRead(r.on_hand, e)
            /\ r.reserved - e.quantity = ReservedRead(r.reserved, e)
            /\ e.new_available = AvailableRead(r.available, e)
            /\ r.damaged = DamagedRead(r.damaged, e)
        BY <3>3 DEF OnHandEvents, OnHandRead, AvailableRead, DamagedRead, ReservedRead
      <4>4. r.on_hand \in Int /\ r.reserved - e.quantity \in Int /\ e.new_available \in Int
            /\ r.damaged \in Int
        BY <1>f, <2>i, <3>3
      <4> HIDE DEF after, Kept
      <4> QED  BY <3>k, <4>2, <4>3, <4>4
    <3>4. CASE e.type = "StockCommitted"
      <4>1. after = [r EXCEPT !.on_hand = e.new_on_hand, !.reserved = e.new_reserved,
      !.available = e.new_on_hand - e.new_reserved]
        BY <2>1, <3>4 DEF on_inventory_level, OnHandEvents
      <4>2. after = [on_hand |-> e.new_on_hand, reserved |-> e.new_reserved,
                     available |-> e.new_on_hand - e.new_reserved, damaged |-> r.damaged]
        BY <2>i, <4>1
      <4>3. /\ e.new_on_hand = OnHandRead(r.on_hand, e)
            /\ e.new_reserved = ReservedRead(r.reserved, e)
            /\ e.new_on_hand - e.new_reserved = AvailableRead(r.available, e)
            /\ r.damaged = DamagedRead(r.damaged, e)
        BY <3>4 DEF OnHandEvents, OnHandRead, AvailableRead, DamagedRead, ReservedRead
      <4>4. e.new_on_hand \in Int /\ e.new_reserved \in Int
            /\ e.new_on_hand - e.new_reserved \in Int /\ r.damaged \in Int
        BY <1>f, <2>i, <3>4
      <4> HIDE DEF after, Kept
      <4> QED  BY <3>k, <4>2, <4>3, <4>4
    <3>5. CASE e.type = "StockMarkedDamaged"
      <4>1. after = [r EXCEPT !.on_hand = e.new_on_hand, !.available = e.new_available,
      !.damaged = e.new_damaged]
        BY <2>1, <3>5 DEF on_inventory_level, OnHandEvents
      <4>2. after = [on_hand |-> e.new_on_hand, reserved |-> r.reserved,
                     available |-> e.new_available, damaged |-> e.new_damaged]
        BY <2>i, <4>1
      <4>3. /\ e.new_on_hand = OnHandRead(r.on_hand, e)
            /\ r.reserved = ReservedRead(r.reserved, e)
            /\ e.new_available = AvailableRead(r.available, e)
            /\ e.new_damaged = DamagedRead(r.damaged, e)
        BY <3>5 DEF OnHandEvents, OnHandRead, AvailableRead, DamagedRead, ReservedRead
      <4>4. e.new_on_hand \in Int /\ r.reserved \in Int /\ e.new_available \in Int
            /\ e.new_damaged \in Int
        BY <1>f, <2>i, <3>5
      <4> HIDE DEF after, Kept
      <4> QED  BY <3>k, <4>2, <4>3, <4>4
    <3>6. CASE e.type = "DamagedStockWrittenOff"
      <4>1. after = [r EXCEPT !.damaged = e.new_damaged]
        BY <2>1, <3>6 DEF on_inventory_level, OnHandEvents
      <4>2. after = [on_hand |-> r.on_hand, reserved |-> r.reserved, available |-> r.available,
                     damaged |-> e.new_damaged]
        BY <2>i, <4>1
      <4>3. /\ r.on_hand = OnHandRead(r.on_hand, e)
            /\ r.reserved = ReservedRead(r.reserved, e)
            /\ r.available = AvailableRead(r.available, e)
            /\ e.new_damaged = DamagedRead(r.damaged, e)
        BY <3>6 DEF OnHandEvents, OnHandRead, AvailableRead, DamagedRead, ReservedRead
      <4>4. r.on_hand \in Int /\ r.reserved \in Int /\ r.available \in Int
            /\ e.new_damaged \in Int
        BY <1>f, <2>i, <3>6
      <4> HIDE DEF after, Kept
      <4> QED  BY <3>k, <4>2, <4>3, <4>4
    <3> HIDE DEF Kept
    <3> QED  BY <2>2, <3>1, <3>2, <3>3, <3>4, <3>5, <3>6
  <2> HIDE DEF after
  <2>4. \A f \in Facets(v) : Part(f, r) \in Values(f) /\ Part(f, after) = Read(f, Part(f, r), e)
    <3> SUFFICES ASSUME NEW f \in Facets(v)
                 PROVE  Part(f, r) \in Values(f) /\ Part(f, after) = Read(f, Part(f, r), e)
      OBVIOUS
    <3>1. f \in {"on_hand", "available", "damaged", "reserved"}
      BY <1>2, FacetsAre
    <3>2. Values(f) = Int
      BY <3>1 DEF Values
    <3>3. Part(f, r) \in Int
      BY <2>i, <3>1, PartIs
    <3>4. Part(f, after) = Read(f, Part(f, r), e)
      <4>1. CASE f = "on_hand"
        BY <2>3, <4>1, PartIs, ReadIs
      <4>2. CASE f = "available"
        BY <2>3, <4>2, PartIs, ReadIs
      <4>3. CASE f = "damaged"
        BY <2>3, <4>3, PartIs, ReadIs
      <4>4. CASE f = "reserved"
        BY <2>3, <4>4, PartIs, ReadIs
      <4> QED  BY <3>1, <4>1, <4>2, <4>3, <4>4
    <3> QED  BY <3>2, <3>3, <3>4, Zenon
  <2>5. Rows(v) = StockLevels /\ Projected(v, r, e) = after /\ after \in StockLevels
    <3>1. Rows(v) = StockLevels
      BY <1>2 DEF Rows, LevelViews
    <3>2. Projected(v, r, e) = after
      BY <2>1 DEF after
    <3> QED  BY <2>3, <3>1, <3>2
  <2> HIDE DEF Kept
  <2> QED  BY <2>4, <2>5
<1>3. CASE v = "product_availability"
  <2> DEFINE R == [on_hand : Int, reserved : Int, available : Int]
  <2>1. r \in R /\ Projected(v, r, e) = on_product_availability(r, e) /\ level_row # "awaited"
    BY <1>3 DEF Rows, Projected, LevelViews
  <2>2. e.type \in OnHandEvents \cup {"StockReserved", "ReservationReleased", "StockCommitted",
                                      "StockMarkedDamaged"}
    BY <1>1, <1>3 DEF HandledBy
  <2> DEFINE after == on_product_availability(r, e)
             Kept == /\ after \in R
                     /\ after.on_hand = OnHandSum(r.on_hand, e)
                     /\ after.available = AvailableSum(r.available, e)
                     /\ after.reserved = ReservedSum(r.reserved, e)
  <2>i. /\ r.on_hand \in Int /\ r.available \in Int /\ r.reserved \in Int
        /\ r = [on_hand |-> r.on_hand, reserved |-> r.reserved, available |-> r.available]
    BY <2>1
  <2>3. Kept
    <3>k. ASSUME NEW n_on_hand \in Int, NEW n_reserved \in Int, NEW n_available \in Int,
                 after = [on_hand |-> n_on_hand, reserved |-> n_reserved,
                          available |-> n_available],
                 n_on_hand = OnHandSum(r.on_hand, e),
                 n_reserved = ReservedSum(r.reserved, e),
                 n_available = AvailableSum(r.available, e)
          PROVE  Kept
      BY <3>k
    <3>1. CASE e.type \in OnHandEvents
      <4>1. after = [r EXCEPT !.on_hand = @ + e.quantity, !.available = @ + e.quantity]
        BY <2>1, <3>1 DEF on_product_availability, OnHandEvents
      <4>2. after = [on_hand |-> r.on_hand + e.quantity, reserved |-> r.reserved,
                     available |-> r.available + e.quantity]
        BY <2>i, <4>1
      <4>3. /\ r.on_hand + e.quantity = OnHandSum(r.on_hand, e)
            /\ r.reserved = ReservedSum(r.reserved, e)
            /\ r.available + e.quantity = AvailableSum(r.available, e)
        BY <3>1 DEF OnHandEvents, Sum, OnHandSum, AvailableSum, ReservedSum
      <4>4. r.on_hand + e.quantity \in Int /\ r.reserved \in Int
            /\ r.available + e.quantity \in Int
        BY <1>f, <2>i, <3>1
      <4> HIDE DEF after, Kept
      <4> QED  BY <3>k, <4>2, <4>3, <4>4
    <3>2. CASE e.type = "StockReserved"
      <4>1. after = [r EXCEPT !.reserved = @ + e.quantity, !.available = @ - e.quantity]
        BY <2>1, <3>2 DEF on_product_availability, OnHandEvents
      <4>2. after = [on_hand |-> r.on_hand, reserved |-> r.reserved + e.quantity,
                     available |-> r.available - e.quantity]
        BY <2>i, <4>1
      <4>3. /\ r.on_hand = OnHandSum(r.on_hand, e)
            /\ r.reserved + e.quantity = ReservedSum(r.reserved, e)
            /\ r.available - e.quantity = AvailableSum(r.available, e)
        BY <3>2 DEF OnHandEvents, Sum, OnHandSum, AvailableSum, ReservedSum
      <4>4. r.on_hand \in Int /\ r.reserved + e.quantity \in Int
            /\ r.available - e.quantity \in Int
        BY <1>f, <2>i, <3>2
      <4> HIDE DEF after, Kept
      <4> QED  BY <3>k, <4>2, <4>3, <4>4
    <3>3. CASE e.type = "ReservationReleased"
      <4>1. after = [r EXCEPT !.reserved = @ - e.quantity, !.available = @ + e.quantity]
        BY <2>1, <3>3 DEF on_product_availability, OnHandEvents
      <4>2. after = [on_hand |-> r.on_hand, reserved |-> r.reserved - e.quantity,
                     available |-> r.available + e.quantity]
        BY <2>i, <4>1
      <4>3. /\ r.on_hand = OnHandSum(r.on_hand, e)
            /\ r.reserved - e.quantity = ReservedSum(r.reserved, e)
            /\ r.available + e.quantity = AvailableSum(r.available, e)
        BY <3>3 DEF OnHandEvents, Sum, OnHandSum, AvailableSum, ReservedSum
      <4>4. r.on_hand \in Int /\ r.reserved - e.quantity \in Int
            /\ r.available + e.quantity \in Int
        BY <1>f, <2>i, <3>3
      <4> HIDE DEF after, Kept
      <4> QED  BY <3>k, <4>2, <4>3, <4>4
    <3>4. CASE e.type = "StockCommitted"
      <4>1. after = [r EXCEPT !.on_hand = @ - e.quantity, !.reserved = @ - e.quantity]
        BY <2>1, <3>4 DEF on_product_availability, OnHandEvents
      <4>2. after = [on_hand |-> r.on_hand - e.quantity, reserved |-> r.reserved - e.quantity,
                     available |-> r.available]
        BY <2>i, <4>1
      <4>3. /\ r.on_hand - e.quantity = OnHandSum(r.on_hand, e)
            /\ r.reserved - e.quantity = ReservedSum(r.reserved, e)
            /\ r.available = AvailableSum(r.available, e)
        BY <3>4 DEF OnHandEvents, Sum, OnHandSum, AvailableSum, ReservedSum
      <4>4. r.on_hand - e.quantity \in Int /\ r.reserved - e.quantity \in Int
            /\ r.available \in Int
        BY <1>f, <2>i, <3>4
      <4> HIDE DEF after, Kept
      <4> QED  BY <3>k, <4>2, <4>3, <4>4
    <3>5. CASE e.type = "StockMarkedDamaged"
      <4>1. after = [r EXCEPT !.on_hand = @ - e.quantity, !.available = @ - e.quantity]
        BY <2>1, <3>5 DEF on_product_availability, OnHandEvents
      <4>2. after = [on_hand |-> r.on_hand - e.quantity, reserved |-> r.reserved,
                     available |-> r.available - e.quantity]
        BY <2>i, <4>1
      <4>3. /\ r.on_hand - e.quantity = OnHandSum(r.on_hand, e)
            /\ r.reserved = ReservedSum(r.reserved, e)
            /\ r.available - e.quantity = AvailableSum(r.available, e)
        BY <3>5 DEF OnHandEvents, Sum, OnHandSum, AvailableSum, ReservedSum
      <4>4. r.on_hand - e.quantity \in Int /\ r.reserved \in Int
            /\ r.available - e.quantity \in Int
        BY <1>f, <2>i, <3>5
      <4> HIDE DEF after, Kept
      <4> QED  BY <3>k, <4>2, <4>3, <4>4
    <3> HIDE DEF Kept
    <3> QED  BY <2>2, <3>1, <3>2, <3>3, <3>4, <3>5
  <2> HIDE DEF after
  <2>4. \A f \in Facets(v) : Part(f, r) \in Values(f) /\ Part(f, after) = Read(f, Part(f, r), e)
    BY <1>3, <2>1, <2>3, FacetsAre, PartIs, ReadIs DEF Values
  <2> QED  BY <1>3, <2>1, <2>3, <2>4 DEF Rows, after, LevelViews
<1>4. CASE v = "inventory_valuation"
  <2>1. /\ r \in [on_hand : Int]
        /\ Projected(v, r, e) = [r EXCEPT !.on_hand = e.new_on_hand]
        /\ e.type \in OnHandEvents \cup {"StockCommitted"}
    BY <1>1, <1>4 DEF Rows, Projected, LevelViews, on_inventory_valuation, HandledBy
  <2>2. /\ Projected(v, r, e) \in [on_hand : Int]
        /\ Projected(v, r, e).on_hand = OnHandRead(r.on_hand, e)
    BY <1>f, <2>1 DEF OnHandRead
  <2>3. \A f \in Facets(v) : /\ Part(f, r) \in Values(f)
                             /\ Part(f, Projected(v, r, e)) = Read(f, Part(f, r), e)
    BY <1>4, <2>1, <2>2, FacetsAre, PartIs, ReadIs DEF Values
  <2> QED  BY <1>4, <2>2, <2>3 DEF Rows, LevelViews
<1>5. CASE v = "low_stock_report"
  <2> DEFINE R == [listed : BOOLEAN, available : Int]
  <2>1. /\ r \in R
        /\ Projected(v, r, e) = on_low_stock_report(r, e)
        /\ e.type \in {"LowStockDetected", "StockReceived", "StockReturned"}
    BY <1>1, <1>5 DEF Rows, Projected, LevelViews, HandledBy
  <2>2. on_low_stock_report(r, e) \in R
    BY <1>f, <2>1 DEF on_low_stock_report, OnHandEvents
  <2>3. \A f \in Facets(v) : /\ Part(f, r) \in Values(f)
                             /\ Part(f, Projected(v, r, e)) = Read(f, Part(f, r), e)
    BY <1>5, <2>1, <2>2, FacetsAre, PartIs, ReadIs DEF Values
  <2> QED  BY <1>5, <2>1, <2>2, <2>3 DEF Rows, LevelViews
<1>6. CASE v = "shrinkage_report"
  <2> DEFINE R == [adjustments : Int, damaged : Int, written_off : Int]
  <2>1. /\ r \in R
        /\ Projected(v, r, e) = on_shrinkage_report(r, e)
        /\ e.type \in {"StockAdjusted", "StockMarkedDamaged", "DamagedStockWrittenOff"}
    BY <1>1, <1>6 DEF Rows, Projected, LevelViews, HandledBy
  <2> DEFINE after == on_shrinkage_report(r, e)
             Kept == after \in R /\ after.damaged - after.written_off
                                    = ShrinkageSum(r.damaged - r.written_off, e)
  <2>2. Kept
    <3>1. CASE e.type = "StockAdjusted"
      <4> DEFINE lost == IF e.quantity < 0 THEN -e.quantity ELSE 0
      <4>1. after = [r EXCEPT !.adjustments = @ + lost]
        BY <3>1 DEF on_shrinkage_report
      <4>2. lost \in Int
        BY <1>f, <3>1 DEF OnHandEvents
      <4> HIDE DEF lost, after
      <4> QED  BY <2>1, <3>1, <4>1, <4>2 DEF ShrinkageSum, Sum
    <3>2. CASE e.type \in {"StockMarkedDamaged", "DamagedStockWrittenOff"}
      BY <1>f, <2>1, <3>2 DEF on_shrinkage_report, ShrinkageSum, Sum
    <3> QED  BY <2>1, <3>1, <3>2
  <2> HIDE DEF after
  <2>3. \A f \in Facets(v) : Part(f, r) \in Values(f) /\ Part(f, after) = Read(f, Part(f, r), e)
    BY <1>6, <2>1, <2>2, FacetsAre, PartIs, ReadIs DEF Values
  <2> QED  BY <1>6, <2>1, <2>2, <2>3 DEF Rows, LevelViews, after
<1>7. CASE v = "stock_movement_log"
  <2>1. /\ r \in [on_hand : Int]
        /\ Projected(v, r, e) = [on_hand |-> e.new_on_hand]
        /\ e.type \in OnHandEvents \cup {"StockCommitted", "StockMarkedDamaged"}
    BY <1>1, <1>7 DEF Rows, Projected, LevelViews, on_stock_movement_log, HandledBy
  <2>2. /\ Projected(v, r, e) \in [on_hand : Int]
        /\ Projected(v, r, e).on_hand = OnHandRead(r.on_hand, e)
    BY <1>f, <2>1 DEF OnHandRead
  <2>3. \A f \in Facets(v) : /\ Part(f, r) \in Values(f)
                             /\ Part(f, Projected(v, r, e)) = Read(f, Part(f, r), e)
    BY <1>7, <2>1, <2>2, FacetsAre, PartIs, ReadIs DEF Values
  <2> QED  BY <1>7, <2>2, <2>3 DEF Rows, LevelViews
<1> QED  BY <1>2, <1>3, <1>4, <1>5, <1>6, <1>7 DEF Views, LevelViews

(* A facet keeps its kind, and what is copied is copied again. *)
LEMMA FacetRead ==
  ASSUME NEW v \in Views, NEW f \in Facets(v), NEW x \in Values(f), NEW e \in HandledEvents(v)
  PROVE  /\ Read(f, x, e) \in Values(f)
         /\ f \in Copied => Read(f, Read(f, x, e), e) = Read(f, x, e)
<1>1. e \in Event /\ e.type \in HandledBy[v]
  BY DEF HandledEvents
<1>f. /\ e.type \in OnHandEvents =>
            e.quantity \in Int /\ e.new_on_hand \in Int /\ e.new_available \in Int
      /\ e.type \in {"StockReserved", "ReservationReleased"} =>
           e.quantity \in Int /\ e.new_available \in Int
      /\ e.type = "StockCommitted" =>
           e.quantity \in Int /\ e.new_on_hand \in Int /\ e.new_reserved \in Int
      /\ e.type = "StockMarkedDamaged" =>
           /\ e.quantity \in Int /\ e.new_on_hand \in Int
           /\ e.new_damaged \in Int /\ e.new_available \in Int
      /\ e.type = "DamagedStockWrittenOff" => e.quantity \in Int /\ e.new_damaged \in Int
      /\ e.type = "LowStockDetected" => e.current_available \in Int
  BY <1>1, EventFields
<1>h. /\ f = "available" => e.type \in OnHandEvents \cup
                             {"StockReserved", "ReservationReleased", "StockCommitted",
                              "StockMarkedDamaged", "DamagedStockWrittenOff"}
      /\ f = "report" => e.type \in {"LowStockDetected", "StockReceived", "StockReturned"}
  BY <1>1, FacetsAre DEF HandledBy, LevelViews, Views
<1>i. f # "report" => x \in Int /\ Values(f) = Int
  BY DEF Values
<1>2. CASE f \in {"on_hand", "valued"}
  <2>1. /\ \A y : Read(f, y, e) = OnHandRead(y, e)
        /\ f # "report"
    BY <1>2, ReadIs
  <2> QED  BY <1>f, <1>i, <2>1 DEF OnHandRead, OnHandEvents
<1>3. CASE f = "available"
  <2>1. \A y : Read(f, y, e) = AvailableRead(y, e)
    BY <1>3, ReadIs
  <2> QED  BY <1>3, <1>f, <1>h, <1>i, <2>1 DEF AvailableRead, OnHandEvents
<1>4. CASE f = "damaged"
  <2>1. \A y : Read(f, y, e) = DamagedRead(y, e)
    BY <1>4, ReadIs
  <2> QED  BY <1>4, <1>f, <1>i, <2>1 DEF DamagedRead
<1>5. CASE f = "reserved"
  BY <1>5, <1>f, <1>i, ReadIs DEF ReservedRead, Copied
<1>s. ASSUME NEW added, NEW taken, e.type \in added \cup taken => e.quantity \in Int, x \in Int
      PROVE  Sum(x, e, added, taken) \in Int
  BY <1>s DEF Sum
<1>6. CASE f \in {"on_hand_sum", "reserved_sum", "available_sum", "shrinkage"}
  <2>1. x \in Int /\ Values(f) = Int /\ f \notin Copied
    BY <1>6, <1>i DEF Copied
  <2>2. e.type \in OnHandEvents \cup {"StockReserved", "ReservationReleased", "StockCommitted",
                    "StockMarkedDamaged", "DamagedStockWrittenOff"} => e.quantity \in Int
    BY <1>f
  <2>3. /\ OnHandSum(x, e) \in Int /\ ReservedSum(x, e) \in Int
        /\ AvailableSum(x, e) \in Int /\ ShrinkageSum(x, e) \in Int
    BY <1>s, <2>1, <2>2 DEF OnHandSum, ReservedSum, AvailableSum, ShrinkageSum
  <2> QED  BY <1>6, <2>1, <2>3, ReadIs
<1>10. CASE f = "report"
  <2> DEFINE R == [listed : BOOLEAN, available : Int]
             after == on_low_stock_report(x, e)
  <2>2. x \in R /\ Values(f) = R /\ \A y : Read(f, y, e) = on_low_stock_report(y, e)
    BY <1>10, ReadIs DEF Values
  <2>3. after \in R
    BY <1>10, <1>f, <1>h, <2>2 DEF on_low_stock_report, OnHandEvents
  <2>4. on_low_stock_report(after, e) = after
    BY <1>10, <1>f, <1>h, <2>2 DEF on_low_stock_report, OnHandEvents
  <2> HIDE DEF after
  <2>5. Read(f, x, e) = after /\ Read(f, after, e) = after
    BY <2>2, <2>4 DEF after
  <2> QED  BY <2>2, <2>3, <2>5
<1> QED
  BY <1>2, <1>3, <1>4, <1>5, <1>6, <1>10, FacetsAre DEF Views, LevelViews

------------------------------------------------------------------------------
(* The events of a command.  One of them, m, says what becomes of the      *)
(* levels; a count may come before it, and an alert after it.              *)
Alerting == {"StockReserved", "StockAdjusted", "StockMarkedDamaged"}

Alert == [type |-> "LowStockDetected", current_available |-> levels'.available]

OnShelf(m) == /\ levels'.on_hand = m.new_on_hand
              /\ levels'.reserved = levels.reserved
              /\ levels'.available = m.new_available

Says(m) ==
  /\ m.type \in OnHandEvents =>
       /\ OnShelf(m) /\ levels'.damaged = levels.damaged
       /\ m.new_on_hand = levels.on_hand + m.quantity
       /\ m.new_available = levels.available + m.quantity
       /\ m.type # "StockAdjusted" => m.quantity > 0
  /\ m.type = "StockMarkedDamaged" =>
       /\ OnShelf(m) /\ levels'.damaged = m.new_damaged
       /\ m.new_on_hand = levels.on_hand - m.quantity
       /\ m.new_available = levels.available - m.quantity
       /\ m.new_damaged = levels.damaged + m.quantity
       /\ m.quantity > 0
  /\ m.type \notin OnHandEvents \cup {"StockMarkedDamaged", "StockCommitted"} =>
       levels'.on_hand = levels.on_hand
  /\ m.type \notin {"StockMarkedDamaged", "DamagedStockWrittenOff"} =>
       levels'.damaged = levels.damaged
  /\ m.type = "StockReserved" =>
       /\ levels'.reserved = levels.reserved + m.quantity
       /\ levels'.available = m.new_available
       /\ m.new_available = levels.available - m.quantity
  /\ m.type = "ReservationReleased" =>
       /\ levels'.reserved = levels.reserved - m.quantity
       /\ levels'.available = m.new_available
       /\ m.new_available = levels.available + m.quantity
       /\ m.quantity >= 0
  /\ m.type = "StockCommitted" =>
       /\ levels'.on_hand = m.new_on_hand /\ levels'.reserved = m.new_reserved
       /\ m.new_on_hand = levels.on_hand - m.quantity
       /\ m.new_reserved = levels.reserved - m.quantity
       /\ levels'.available = levels.available
       /\ levels'.available = m.new_on_hand - m.new_reserved
  /\ m.type = "DamagedStockWrittenOff" =>
       /\ levels'.damaged = m.new_damaged
       /\ m.new_damaged = levels.damaged - m.quantity
  /\ m.type \in {"DamagedStockWrittenOff", "ReservationConfirmed", "StockCheckRecorded"} =>
       levels'.reserved = levels.reserved /\ levels'.available = levels.available

RaisedWith(m) ==
  \/ m.type \notin Alerting /\ raised' = <<m>>
  \/ m.type \in Alerting /\ raised' = <<m>> \o check_low_stock(levels')
  \/ \E c \in Event : /\ m.type = "StockAdjusted" /\ c.type = "StockCheckRecorded"
                      /\ raised' = <<c, m>> \o check_low_stock(levels')

Types == OnHandEvents \cup {"StockReserved", "ReservationReleased", "ReservationConfirmed",
         "StockCommitted", "StockMarkedDamaged", "DamagedStockWrittenOff", "StockCheckRecorded"}

(* Every command has such an event. *)
LEMMA CommandSays ==
  ASSUME TypeOK, TypeOK', LedgerInv, Next
  PROVE  \E m \in Event : m.type \in Types /\ Says(m) /\ RaisedWith(m)
<1>t. /\ levels.on_hand \in Int /\ levels.reserved \in Int
      /\ levels.available \in Int /\ levels.damaged \in Int
      /\ \A r \in ReservationIds : /\ reservations[r].quantity \in Nat
                                   /\ reservations[r].order_id \in OrderIds \cup {"None"}
      /\ \A q \in Quantities : q \in Int
      /\ levels.available = levels.on_hand - levels.reserved
  BY InventoryAssumption DEF TypeOK, StockLevels, Reservation, LedgerInv, LedgerBalanced
<1>o. ASSUME NEW type \in OnHandEvents, NEW quantity \in Int,
             OnHandSetTo(levels.on_hand + quantity, levels.on_hand + quantity - levels.reserved),
             type # "StockAdjusted" => quantity > 0,
             NEW m, m = [type |-> type, quantity |-> quantity,
                         new_on_hand |-> levels.on_hand + quantity,
                         new_available |-> levels.on_hand + quantity - levels.reserved]
      PROVE  m \in Event /\ m.type = type /\ Says(m)
  <2>1. m \in Event
    BY <1>o, <1>t DEF Event, OnHandEvents
  <2>2. /\ levels'.on_hand = levels.on_hand + quantity /\ levels'.reserved = levels.reserved
        /\ levels'.available = levels.on_hand + quantity - levels.reserved
        /\ levels'.damaged = levels.damaged
    BY <1>o DEF OnHandSetTo
  <2>3. Says(m)
    BY <1>o, <1>t, <2>2 DEF Says, OnShelf, OnHandEvents
  <2> QED  BY <1>o, <2>1, <2>3
<1>1. CASE ReceiveStock
  <2>1. PICK quantity \in Quantities : receive_stock(quantity)
    BY <1>1 DEF ReceiveStock
  <2> DEFINE m == [type |-> "StockReceived", quantity |-> quantity,
                   new_on_hand |-> levels.on_hand + quantity,
                   new_available |-> levels.on_hand + quantity - levels.reserved]
  <2>2. /\ quantity > 0 /\ raised' = <<m>>
        /\ OnHandSetTo(levels.on_hand + quantity, levels.on_hand + quantity - levels.reserved)
    BY <2>1 DEF receive_stock, OnStockReceived
  <2>3. m \in Event /\ m.type = "StockReceived" /\ Says(m)
    BY <1>o, <1>t, <2>2 DEF OnHandEvents
  <2> HIDE DEF m
  <2> QED  BY <2>2, <2>3 DEF RaisedWith, Alerting, Types, OnHandEvents
<1>2. CASE ReserveStock
  <2>1. PICK order_id \in OrderIds, quantity \in Quantities : reserve(order_id, quantity)
    BY <1>2 DEF ReserveStock
  <2> DEFINE Reserved(r) ==
        [type |-> "StockReserved", reservation_id |-> r, order_id |-> order_id,
         quantity |-> quantity, new_available |-> levels.available - quantity]
  <2>2. PICK r \in ReservationIds :
          /\ raised' = <<Reserved(r)>> \o check_low_stock(levels')
          /\ levels' = [on_hand |-> levels.on_hand, reserved |-> levels.reserved + quantity,
                        available |-> levels.available - quantity, damaged |-> levels.damaged]
    BY <2>1 DEF reserve, OnStockReserved
  <2> DEFINE m == Reserved(r)
  <2>3. m \in Event /\ m.type = "StockReserved"
    BY <1>t DEF Event
  <2>4. Says(m)
    BY <1>t, <2>2 DEF Says, OnHandEvents
  <2> HIDE DEF m
  <2> QED  BY <2>2, <2>3, <2>4 DEF RaisedWith, Alerting, Types, m
<1>3. CASE ReleaseReservation
  <2>1. PICK r \in ReservationIds : release_reservation(r)
    BY <1>3 DEF ReleaseReservation
  <2> DEFINE q == reservations[r].quantity
             m == [type |-> "ReservationReleased", reservation_id |-> r,
                   order_id |-> reservations[r].order_id, quantity |-> q,
                   new_available |-> levels.available + q]
  <2>2. /\ raised' = <<m>>
        /\ levels' = [on_hand |-> levels.on_hand, reserved |-> levels.reserved - q,
                      available |-> levels.available + q, damaged |-> levels.damaged]
    BY <2>1 DEF release_reservation, OnReservationReleased
  <2>q. q \in Nat /\ reservations[r].order_id \in OrderIds \cup {"None"}
    BY <1>t
  <2> HIDE DEF q
  <2>3. m \in Event /\ m.type = "ReservationReleased"
    BY <1>t, <2>q DEF Event, ReservationEvent
  <2>4. Says(m)
    BY <1>t, <2>2, <2>q DEF Says, OnHandEvents
  <2> HIDE DEF m
  <2> QED  BY <2>2, <2>3, <2>4 DEF RaisedWith, Alerting, Types
<1>4. CASE ConfirmReservation
  <2>1. PICK r \in ReservationIds : confirm_reservation(r)
    BY <1>4 DEF ConfirmReservation
  <2> DEFINE q == reservations[r].quantity
             m == [type |-> "ReservationConfirmed", reservation_id |-> r,
                   order_id |-> reservations[r].order_id, quantity |-> q,
                   new_available |-> levels.available]
  <2>2. raised' = <<m>> /\ levels' = levels
    BY <2>1 DEF confirm_reservation, OnReservationConfirmed
  <2>q. q \in Nat /\ reservations[r].order_id \in OrderIds \cup {"None"}
    BY <1>t
  <2> HIDE DEF q
  <2>3. m \in Event /\ m.type = "ReservationConfirmed"
    BY <1>t, <2>q DEF Event, ReservationEvent
  <2>4. Says(m)
    BY <1>t, <2>2, <2>q DEF Says, OnHandEvents
  <2> HIDE DEF m
  <2> QED  BY <2>2, <2>3, <2>4 DEF RaisedWith, Alerting, Types
<1>5. CASE CommitStock
  <2>1. PICK r \in ReservationIds : commit_stock(r)
    BY <1>5 DEF CommitStock
  <2> DEFINE q == reservations[r].quantity
             m == [type |-> "StockCommitted", reservation_id |-> r,
                   order_id |-> reservations[r].order_id, quantity |-> q,
                   new_on_hand |-> levels.on_hand - q, new_reserved |-> levels.reserved - q]
  <2>2. /\ raised' = <<m>>
        /\ levels' = [on_hand |-> levels.on_hand - q, reserved |-> levels.reserved - q,
                      available |-> (levels.on_hand - q) - (levels.reserved - q),
                      damaged |-> levels.damaged]
    BY <2>1 DEF commit_stock, OnStockCommitted
  <2>q. q \in Nat /\ reservations[r].order_id \in OrderIds \cup {"None"}
    BY <1>t
  <2> HIDE DEF q
  <2>3. m \in Event /\ m.type = "StockCommitted"
    BY <1>t, <2>q DEF Event, ReservationEvent
  <2>4. Says(m)
    BY <1>t, <2>2, <2>q DEF Says, OnHandEvents
  <2> HIDE DEF m
  <2> QED  BY <2>2, <2>3, <2>4 DEF RaisedWith, Alerting, Types
<1>6. CASE AdjustStock
  <2>1. PICK change \in Quantities : adjust_stock(change)
    BY <1>6 DEF AdjustStock
  <2> DEFINE m == StockAdjustment(change)
  <2>2. /\ raised' = <<m>> \o check_low_stock(levels')
        /\ OnHandSetTo(levels.on_hand + change, levels.on_hand + change - levels.reserved)
    BY <2>1 DEF adjust_stock, OnStockAdjusted, StockAdjustment
  <2>3. m \in Event /\ m.type = "StockAdjusted" /\ Says(m)
    BY <1>o, <1>t, <2>2 DEF OnHandEvents, StockAdjustment
  <2> HIDE DEF m
  <2> QED  BY <2>2, <2>3 DEF RaisedWith, Alerting, Types, OnHandEvents
<1>7. CASE RecordStockCheck
  <2>1. PICK count \in Quantities : record_stock_check(count)
    BY <1>7 DEF RecordStockCheck
  <2> DEFINE change == count - levels.on_hand
             check == [type |-> "StockCheckRecorded", discrepancy |-> change]
             m == StockAdjustment(change)
  <2>c. change \in Int /\ check \in Event /\ check.type = "StockCheckRecorded"
    BY <1>t DEF Event
  <2>2. CASE raised' = <<check>> /\ UNCHANGED <<levels, reservations>>
    <3>1. Says(check)
      BY <1>t, <2>2 DEF Says, OnHandEvents
    <3> HIDE DEF check
    <3> QED  BY <2>2, <2>c, <3>1 DEF RaisedWith, Alerting, Types
  <2>3. CASE /\ raised' = <<check, m>> \o check_low_stock(levels')
             /\ OnHandSetTo(levels.on_hand + change, levels.on_hand + change - levels.reserved)
    <3> HIDE DEF change
    <3>1. m \in Event /\ m.type = "StockAdjusted" /\ Says(m)
      BY <1>o, <2>3, <2>c DEF OnHandEvents, StockAdjustment
    <3> HIDE DEF m, check
    <3> QED  BY <2>3, <2>c, <3>1 DEF RaisedWith, Types, OnHandEvents
  <2> QED  BY <2>1, <2>2, <2>3 DEF record_stock_check, StockAdjustment, OnStockAdjusted
<1>8. CASE MarkDamaged
  <2>1. PICK quantity \in Quantities : mark_damaged(quantity)
    BY <1>8 DEF MarkDamaged
  <2> DEFINE m == [type |-> "StockMarkedDamaged", quantity |-> quantity,
                   new_on_hand |-> levels.on_hand - quantity,
                   new_damaged |-> levels.damaged + quantity,
                   new_available |-> levels.on_hand - quantity - levels.reserved]
  <2>2. /\ quantity > 0 /\ raised' = <<m>> \o check_low_stock(levels')
        /\ levels' = [on_hand |-> levels.on_hand - quantity, reserved |-> levels.reserved,
                      available |-> levels.on_hand - quantity - levels.reserved,
                      damaged |-> levels.damaged + quantity]
    BY <2>1 DEF mark_damaged, OnStockMarkedDamaged
  <2>3. m \in Event /\ m.type = "StockMarkedDamaged"
    BY <1>t DEF Event
  <2>4. Says(m)
    BY <1>t, <2>2 DEF Says, OnShelf, OnHandEvents
  <2> HIDE DEF m
  <2> QED  BY <2>2, <2>3, <2>4 DEF RaisedWith, Alerting, Types
<1>9. CASE WriteOffDamaged
  <2>1. PICK quantity \in Quantities : write_off_damaged(quantity)
    BY <1>9 DEF WriteOffDamaged
  <2> DEFINE m == [type |-> "DamagedStockWrittenOff", quantity |-> quantity,
                   new_damaged |-> levels.damaged - quantity]
  <2>2. /\ raised' = <<m>>
        /\ levels' = [on_hand |-> levels.on_hand, reserved |-> levels.reserved,
                      available |-> levels.available, damaged |-> levels.damaged - quantity]
    BY <2>1 DEF write_off_damaged, OnDamagedStockWrittenOff
  <2>3. m \in Event /\ m.type = "DamagedStockWrittenOff"
    BY <1>t DEF Event
  <2>4. Says(m)
    BY <1>t, <2>2 DEF Says, OnHandEvents
  <2> HIDE DEF m
  <2> QED  BY <2>2, <2>3, <2>4 DEF RaisedWith, Alerting, Types
<1>10. CASE ReturnToStock
  <2>1. PICK quantity \in Quantities : return_to_stock(quantity)
    BY <1>10 DEF ReturnToStock
  <2> DEFINE m == [type |-> "StockReturned", quantity |-> quantity,
                   new_on_hand |-> levels.on_hand + quantity,
                   new_available |-> levels.on_hand + quantity - levels.reserved]
  <2>2. /\ quantity > 0 /\ raised' = <<m>>
        /\ OnHandSetTo(levels.on_hand + quantity, levels.on_hand + quantity - levels.reserved)
    BY <2>1 DEF return_to_stock, OnStockReturned
  <2>3. m \in Event /\ m.type = "StockReturned" /\ Says(m)
    BY <1>o, <1>t, <2>2 DEF OnHandEvents
  <2> HIDE DEF m
  <2> QED  BY <2>2, <2>3 DEF RaisedWith, Alerting, Types, OnHandEvents
<1> QED  BY <1>1, <1>2, <1>3, <1>4, <1>5, <1>6, <1>7, <1>8, <1>9, <1>10 DEF Next

(* Where m is among the events, and what the others are. *)
LEMMA BatchIs ==
  ASSUME NEW m \in Event, m.type \in Types, RaisedWith(m), TypeOK'
  PROVE  \E p \in 1..Len(raised') :
           /\ raised'[p] = m
           /\ \/ /\ m.type \in Alerting /\ levels'.available <= EffectiveReorderPoint
                 /\ \E k \in 1..Len(raised') :
                      /\ k # p /\ raised'[k] = Alert
                      /\ \A j \in (1..Len(raised')) \ {p, k} :
                           raised'[j].type = "StockCheckRecorded"
              \/ /\ ~(m.type \in Alerting /\ levels'.available <= EffectiveReorderPoint)
                 /\ \A j \in (1..Len(raised')) \ {p} : raised'[j].type = "StockCheckRecorded"
<1> DEFINE low == levels'.available <= EffectiveReorderPoint
<1>a. PICK alert \in Event : alert = Alert
  BY DEF Event, Alert, TypeOK, StockLevels
<1> HIDE DEF Event
<1>1. check_low_stock(levels') = IF low THEN <<alert>> ELSE << >>
  BY <1>a DEF check_low_stock, Alert
<1>2. m.type = "StockAdjusted" => m.type \in Alerting
  BY DEF Alerting
<1> HIDE DEF low
<1>3. CASE m.type \notin Alerting /\ raised' = <<m>>
  <2>1. Len(raised') = 1 /\ raised'[1] = m /\ 1..1 = {1}
    BY <1>3
  <2> QED  BY <1>3, <2>1
<1>4. CASE m.type \in Alerting /\ raised' = <<m>> \o check_low_stock(levels')
  <2>1. CASE low
    <3>1. raised' = <<m>> \o <<alert>>
      BY <1>1, <1>4, <2>1
    <3>2. Len(raised') = 2 /\ raised'[1] = m /\ raised'[2] = alert
      BY <1>a, <3>1
    <3>3. 1 \in 1..2 /\ 2 \in 1..2 /\ (1..2) \ {1, 2} = {}
      OBVIOUS
    <3> QED  BY <1>4, <1>a, <2>1, <3>2, <3>3 DEF low
  <2>2. CASE ~low
    <3>1. raised' = <<m>>
      BY <1>1, <1>4, <2>2
    <3>2. Len(raised') = 1 /\ raised'[1] = m /\ 1..1 = {1}
      BY <3>1
    <3> QED  BY <2>2, <3>2 DEF low
  <2> QED  BY <2>1, <2>2
<1>5. CASE \E c \in Event : /\ m.type = "StockAdjusted" /\ c.type = "StockCheckRecorded"
                            /\ raised' = <<c, m>> \o check_low_stock(levels')
  <2>0. PICK c \in Event : /\ m.type = "StockAdjusted" /\ c.type = "StockCheckRecorded"
                           /\ raised' = <<c, m>> \o check_low_stock(levels')
    BY <1>5
  <2>1. CASE low
    <3>1. raised' = <<c, m>> \o <<alert>>
      BY <1>1, <2>0, <2>1
    <3> DEFINE batch == <<c, m>> \o <<alert>>
    <3>a. Len(batch) = 3 /\ batch[1] = c /\ batch[2] = m /\ batch[3] = alert
      OBVIOUS
    <3> HIDE DEF batch
    <3>2. Len(raised') = 3 /\ raised'[1] = c /\ raised'[2] = m /\ raised'[3] = alert
      BY <3>1, <3>a DEF batch
    <3>3. 2 \in 1..3 /\ 3 \in 1..3 /\ (1..3) \ {2, 3} = {1}
      OBVIOUS
    <3> QED  BY <1>2, <1>a, <2>0, <2>1, <3>2, <3>3 DEF low
  <2>2. CASE ~low
    <3>1. raised' = <<c, m>>
      BY <1>1, <2>0, <2>2
    <3>2. Len(raised') = 2 /\ raised'[1] = c /\ raised'[2] = m
      BY <3>1
    <3>3. 2 \in 1..2 /\ (1..2) \ {2} = {1}
      OBVIOUS
    <3> QED  BY <2>0, <2>2, <3>2, <3>3 DEF low
  <2> QED  BY <2>1, <2>2
<1> QED  BY <1>3, <1>4, <1>5 DEF RaisedWith

(* What a watched projector is given of a command: the event m if it has a *)
(* handler for it, the alert if it has one for that, never both.           *)
LEMMA RaisedIs ==
  ASSUME NEW m \in Event, m.type \in Types, RaisedWith(m), TypeOK', NEW v \in Views, v = view
  PROVE  /\ m.type \in HandledBy[v] => Raised = <<m>>
         /\ (v = "low_stock_report" /\ m.type \in Alerting
               /\ levels'.available <= EffectiveReorderPoint) => Raised = <<Alert>>
         /\ (m.type \notin HandledBy[v]
               /\ ~(v = "low_stock_report" /\ m.type \in Alerting
                    /\ levels'.available <= EffectiveReorderPoint)) =>
              /\ Raised = << >>
              /\ \A j \in 1..Len(raised') : raised'[j].type \notin HandledBy[v]
<1> DEFINE low == m.type \in Alerting /\ levels'.available <= EffectiveReorderPoint
           N == 1..Len(raised')
           H == HandledBy[v]
<1>1. PICK p \in N :
        /\ raised'[p] = m
        /\ \/ /\ low
              /\ \E k \in N : /\ k # p /\ raised'[k] = Alert
                              /\ \A j \in N \ {p, k} : raised'[j].type = "StockCheckRecorded"
           \/ ~low /\ \A j \in N \ {p} : raised'[j].type = "StockCheckRecorded"
  BY BatchIs
<1>2. /\ "StockCheckRecorded" \notin H
      /\ "LowStockDetected" \in H <=> v = "low_stock_report"
      /\ v = "low_stock_report" /\ m.type \in Alerting => m.type \notin H
  BY DEF HandledBy, Views, OnHandEvents, Alerting
<1>3. Alert.type = "LowStockDetected"
  BY DEF Alert
<1>4. v # "none" /\ HandledNow = {k \in N : raised'[k].type \in H}
  BY DEF HandledNow, Views
<1>5. ASSUME NEW k \in N, raised'[k].type \in H, \A j \in N \ {k} : raised'[j].type \notin H
      PROVE  Raised = <<raised'[k]>>
  <2>1. \A j \in HandledNow : j = k
    BY <1>4, <1>5
  <2>2. k \in HandledNow
    BY <1>4, <1>5
  <2>3. (CHOOSE j \in HandledNow : TRUE) = k /\ HandledNow # {}
    BY <2>1, <2>2
  <2> QED  BY <1>4, <2>3 DEF Raised
<1>6. ASSUME \A j \in N : raised'[j].type \notin H
      PROVE  Raised = << >>
  BY <1>4, <1>6 DEF Raised
<1> HIDE DEF low, N, H
<1>7. CASE low
  <2>1. PICK k \in N : /\ k # p /\ raised'[k] = Alert
                       /\ \A j \in N \ {p, k} : raised'[j].type = "StockCheckRecorded"
    BY <1>1, <1>7
  <2>2. m.type \in H => v # "low_stock_report"
    BY <1>2, <1>7 DEF low
  <2>3. m.type \in H => Raised = <<m>>
    <3>1. m.type \in H => \A j \in N \ {p} : raised'[j].type \notin H
      BY <1>2, <1>3, <2>1, <2>2
    <3> QED  BY <1>1, <1>5, <3>1
  <2>4. v = "low_stock_report" => Raised = <<Alert>>
    <3>1. v = "low_stock_report" =>
            raised'[k].type \in H /\ \A j \in N \ {k} : raised'[j].type \notin H
      BY <1>1, <1>2, <1>3, <2>1, <2>2
    <3> QED  BY <1>5, <2>1, <3>1
  <2>5. m.type \notin H /\ v # "low_stock_report" => \A j \in N : raised'[j].type \notin H
    BY <1>1, <1>2, <1>3, <2>1
  <2> QED  BY <1>6, <1>7, <2>3, <2>4, <2>5 DEF low, N, H
<1>8. CASE ~low
  <2>1. \A j \in N \ {p} : raised'[j].type = "StockCheckRecorded"
    BY <1>1, <1>8
  <2>2. m.type \in H => Raised = <<m>>
    BY <1>1, <1>2, <1>5, <2>1
  <2>3. m.type \notin H => \A j \in N : raised'[j].type \notin H
    BY <1>1, <1>2, <2>1
  <2> QED  BY <1>6, <1>8, <2>2, <2>3 DEF low, N, H
<1> QED  BY <1>7, <1>8

(* What every facet is to tell. *)
LEMMA TellsIs ==
  ASSUME NEW x
  PROVE  /\ \A f \in {"on_hand", "on_hand_sum"} :
              (Tells(f, x) <=> x = levels.on_hand) /\ (Tells(f, x)' <=> x = levels'.on_hand)
         /\ \A f \in {"available", "available_sum"} :
              (Tells(f, x) <=> x = levels.available) /\ (Tells(f, x)' <=> x = levels'.available)
         /\ \A f \in {"reserved", "reserved_sum"} :
              (Tells(f, x) <=> x = levels.reserved) /\ (Tells(f, x)' <=> x = levels'.reserved)
         /\ \A f \in {"damaged", "shrinkage"} :
              (Tells(f, x) <=> x = levels.damaged) /\ (Tells(f, x)' <=> x = levels'.damaged)
  BY DEF Tells

(* The event of a command takes a facet from what it was to tell to what   *)
(* it is to tell now, and so does the alert; a facet that no event of the  *)
(* command is about need not change. *)
LEMMA IntegerFacetTells ==
  ASSUME TypeOK, TypeOK', NEW m \in Event, m.type \in Types, Says(m),
         NEW v \in Views, NEW f \in Facets(v), f \notin {"valued", "report"}, NEW x, Tells(f, x)
  PROVE  /\ m.type \in HandledBy[v] => \A y : y = Read(f, x, m) => Tells(f, y)'
         /\ m.type \notin HandledBy[v] => Tells(f, x)'
<1>t. /\ levels.on_hand \in Int /\ levels.reserved \in Int
      /\ levels.available \in Int /\ levels.damaged \in Int
  BY DEF TypeOK, StockLevels
<1>1. CASE v \in LevelViews
  <2>1. f \in {"on_hand", "available", "damaged", "reserved"}
    BY <1>1, FacetsAre
  <2>2. HandledBy[v] = OnHandEvents \cup {"StockReserved", "ReservationReleased",
                          "StockCommitted", "StockMarkedDamaged", "DamagedStockWrittenOff"}
    BY <1>1 DEF HandledBy, LevelViews
  <2>3. CASE f = "on_hand"
    <3>1. x = levels.on_hand /\ Read(f, x, m) = OnHandRead(x, m)
      BY <2>3, ReadIs, TellsIs
    <3>2. levels'.on_hand = OnHandRead(levels.on_hand, m)
      BY DEF OnHandRead, Says, OnShelf, OnHandEvents, Types
    <3>3. m.type \notin HandledBy[v] => levels'.on_hand = levels.on_hand
      BY <2>2 DEF Says, Types
    <3> QED  BY <2>3, <3>1, <3>2, <3>3, TellsIs
  <2>4. CASE f = "available"
    <3>1. x = levels.available /\ Read(f, x, m) = AvailableRead(x, m)
      BY <2>4, ReadIs, TellsIs
    <3>2. m.type \in HandledBy[v] => levels'.available = AvailableRead(levels.available, m)
      BY <2>2 DEF AvailableRead, Says, OnShelf, OnHandEvents, Types
    <3>3. m.type \notin HandledBy[v] => levels'.available = levels.available
      BY <2>2 DEF Says, Types
    <3> QED  BY <2>4, <3>1, <3>2, <3>3, TellsIs
  <2>5. CASE f = "damaged"
    <3>1. x = levels.damaged /\ Read(f, x, m) = DamagedRead(x, m)
      BY <2>5, ReadIs, TellsIs
    <3>2. levels'.damaged = DamagedRead(levels.damaged, m)
      BY DEF DamagedRead, Says, Types
    <3>3. m.type \notin HandledBy[v] => levels'.damaged = levels.damaged
      BY <2>2 DEF Says, Types
    <3> QED  BY <2>5, <3>1, <3>2, <3>3, TellsIs
  <2>6. CASE f = "reserved"
    <3>1. x = levels.reserved /\ Read(f, x, m) = ReservedRead(x, m)
      BY <2>6, ReadIs, TellsIs
    <3>2. levels'.reserved = ReservedRead(levels.reserved, m)
      BY DEF ReservedRead, Says, OnShelf, OnHandEvents, Types
    <3>3. m.type \notin HandledBy[v] => levels'.reserved = levels.reserved
      BY <2>2 DEF Says, Types
    <3> QED  BY <2>6, <3>1, <3>2, <3>3, TellsIs
  <2> QED  BY <2>1, <2>3, <2>4, <2>5, <2>6
<1>2. CASE v = "product_availability"
  <2>1. f \in {"on_hand_sum", "available_sum", "reserved_sum"}
    BY <1>2, FacetsAre
  <2>2. HandledBy[v] = OnHandEvents \cup {"StockReserved", "ReservationReleased",
                          "StockCommitted", "StockMarkedDamaged"}
    BY <1>2 DEF HandledBy
  <2>3. CASE f = "on_hand_sum"
    <3>1. x = levels.on_hand /\ Read(f, x, m) = OnHandSum(x, m)
      BY <2>3, ReadIs, TellsIs
    <3>2. levels'.on_hand = OnHandSum(levels.on_hand, m)
      BY DEF OnHandSum, Sum, Says, OnShelf, OnHandEvents, Types
    <3>3. m.type \notin HandledBy[v] => levels'.on_hand = levels.on_hand
      BY <2>2 DEF Says, Types
    <3> QED  BY <2>3, <3>1, <3>2, <3>3, TellsIs
  <2>4. CASE f = "available_sum"
    <3>1. x = levels.available /\ Read(f, x, m) = AvailableSum(x, m)
      BY <2>4, ReadIs, TellsIs
    <3>2. levels'.available = AvailableSum(levels.available, m)
      BY DEF AvailableSum, Sum, Says, OnShelf, OnHandEvents, Types
    <3>3. m.type \notin HandledBy[v] => levels'.available = levels.available
      BY <2>2 DEF Says, Types
    <3> QED  BY <2>4, <3>1, <3>2, <3>3, TellsIs
  <2>5. CASE f = "reserved_sum"
    <3>1. x = levels.reserved /\ Read(f, x, m) = ReservedSum(x, m)
      BY <2>5, ReadIs, TellsIs
    <3>2. levels'.reserved = ReservedSum(levels.reserved, m)
      BY DEF ReservedSum, Sum, Says, OnShelf, OnHandEvents, Types
    <3>3. m.type \notin HandledBy[v] => levels'.reserved = levels.reserved
      BY <2>2 DEF Says, Types
    <3> QED  BY <2>5, <3>1, <3>2, <3>3, TellsIs
  <2> QED  BY <2>1, <2>3, <2>4, <2>5
<1>3. CASE v = "shrinkage_report"
  <2>1. f = "shrinkage"
    BY <1>3, FacetsAre
  <2>2. HandledBy[v] = {"StockAdjusted", "StockMarkedDamaged", "DamagedStockWrittenOff"}
    BY <1>3 DEF HandledBy
  <2>3. x = levels.damaged /\ Read(f, x, m) = ShrinkageSum(x, m)
    BY <2>1, ReadIs, TellsIs
  <2>4. levels'.damaged = ShrinkageSum(levels.damaged, m)
    BY DEF ShrinkageSum, Sum, Says, OnHandEvents, Types
  <2>5. m.type \notin HandledBy[v] => levels'.damaged = levels.damaged
    BY <2>2 DEF Says, Types
  <2> QED  BY <2>1, <2>3, <2>4, <2>5, TellsIs
<1>4. CASE v = "stock_movement_log"
  <2>1. f = "on_hand"
    BY <1>4, FacetsAre
  <2>2. HandledBy[v] = OnHandEvents \cup {"StockCommitted", "StockMarkedDamaged"}
    BY <1>4 DEF HandledBy
  <2>3. x = levels.on_hand /\ Read(f, x, m) = OnHandRead(x, m)
    BY <2>1, ReadIs, TellsIs
  <2>4. levels'.on_hand = OnHandRead(levels.on_hand, m)
    BY DEF OnHandRead, Says, OnShelf, OnHandEvents, Types
  <2>5. m.type \notin HandledBy[v] => levels'.on_hand = levels.on_hand
    BY <2>2 DEF Says, Types
  <2> QED  BY <2>1, <2>3, <2>4, <2>5, TellsIs
<1> QED  BY <1>1, <1>2, <1>3, <1>4, FacetsAre DEF Views, LevelViews

(* The valuation is never below the stock, and quotes it as soon as an     *)
(* event it handles is raised. *)
LEMMA ValuationTells ==
  ASSUME TypeOK, TypeOK', NEW m \in Event, m.type \in Types, Says(m), NEW x \in Int,
         Tells("valued", x)
  PROVE  /\ m.type \in HandledBy.inventory_valuation =>
              \A y : y = Read("valued", x, m) => Tells("valued", y)'
         /\ (\A k \in 1..Len(raised') : raised'[k].type \notin HandledBy.inventory_valuation)
              /\ m.type \notin HandledBy.inventory_valuation => Tells("valued", x)'
<1>1. /\ levels.on_hand \in Int /\ levels'.on_hand \in Int
      /\ m.type = "StockMarkedDamaged" => m.quantity \in Int /\ m.quantity > 0
  BY EventFields DEF TypeOK, StockLevels, Says
<1>2. x >= levels.on_hand
  BY DEF Tells
<1>h. HandledBy.inventory_valuation = OnHandEvents \cup {"StockCommitted"}
  BY DEF HandledBy
<1>3. ASSUME m.type \in HandledBy.inventory_valuation
      PROVE  Read("valued", x, m) = levels'.on_hand
  <2>1. Read("valued", x, m) = OnHandRead(x, m)
    BY ReadIs
  <2> QED  BY <1>3, <1>h, <2>1 DEF OnHandRead, Says, OnShelf, OnHandEvents
<1>4. ASSUME m.type \notin HandledBy.inventory_valuation
      PROVE  x >= levels'.on_hand
  <2>1. CASE m.type = "StockMarkedDamaged"
    BY <1>1, <1>2, <2>1 DEF Says, OnShelf
  <2>2. CASE m.type # "StockMarkedDamaged"
    BY <1>1, <1>2, <1>4, <1>h, <2>2 DEF Says
  <2> QED  BY <2>1, <2>2
<1>5. ASSUME m.type \in HandledBy.inventory_valuation, NEW y, y = Read("valued", x, m)
      PROVE  Tells("valued", y)'
  <2>1. y = levels'.on_hand /\ y >= levels'.on_hand
    BY <1>1, <1>3, <1>5
  <2> QED  BY <2>1 DEF Tells
<1>6. ASSUME m.type \notin HandledBy.inventory_valuation,
             \A k \in 1..Len(raised') : raised'[k].type \notin HandledBy.inventory_valuation
      PROVE  Tells("valued", x)'
  BY <1>4, <1>6 DEF Tells
<1> QED  BY <1>5, <1>6

(* The report lists what is at its reorder point or below, and never       *)
(* quotes more than there is. *)
LEMMA ReportTells ==
  ASSUME TypeOK, TypeOK', NEW m \in Event, m.type \in Types, Says(m),
         NEW x \in Values("report"), Tells("report", x)
  PROVE  /\ m.type \in {"StockReceived", "StockReturned"} =>
              \A y : y = Read("report", x, m) => Tells("report", y)'
         /\ m.type \in Alerting /\ levels'.available <= EffectiveReorderPoint =>
              \A y : y = Read("report", x, Alert) => Tells("report", y)'
         /\ m.type \notin {"StockReceived", "StockReturned"}
              /\ ~(m.type \in Alerting /\ levels'.available <= EffectiveReorderPoint) =>
              Tells("report", x)'
<1> DEFINE old == levels.available
           new == levels'.available
           point == EffectiveReorderPoint
           low == InitialQuantity > point
<1>1. /\ old \in Int /\ new \in Int /\ point \in Int
      /\ x \in [listed : BOOLEAN, available : Int]
  BY InventoryAssumption DEF TypeOK, StockLevels, EffectiveReorderPoint, Values
<1>q. /\ m.type \in {"StockReceived", "StockReturned"} =>
           m.quantity \in Int /\ m.quantity > 0 /\ new = old + m.quantity /\ m.new_available = new
      /\ m.type = "ReservationReleased" =>
           m.quantity \in Int /\ m.quantity >= 0 /\ new = old + m.quantity
      /\ m.type \in {"StockCommitted", "DamagedStockWrittenOff", "ReservationConfirmed",
                     "StockCheckRecorded"} => new = old
  BY EventFields DEF Says, OnShelf, OnHandEvents
<1>2. /\ low /\ old <= point => x.listed
      /\ x.listed => x.available <= old /\ x.available <= point
  BY DEF Tells
<1>r. \A e : Read("report", x, e) = on_low_stock_report(x, e)
  BY ReadIs
<1>a. Alert.type = "LowStockDetected" /\ Alert.current_available = new
  BY DEF Alert
<1>d. \A y : /\ low /\ new <= point => y.listed
             /\ y.listed => y.available <= new /\ y.available <= point
             => Tells("report", y)'
  BY DEF Tells
<1> HIDE DEF old, new, point, low
<1>3. ASSUME m.type \in {"StockReceived", "StockReturned"}, NEW y, y = Read("report", x, m)
      PROVE  Tells("report", y)'
  <2>0. m.type # "LowStockDetected"
    BY <1>3
  <2>1. new > old /\ m.new_available = new
    BY <1>1, <1>3, <1>q
  <2>2. CASE x.listed /\ new > point
    <3>1. y = [listed |-> FALSE, available |-> 0]
      BY <1>3, <1>r, <2>0, <2>1, <2>2 DEF on_low_stock_report, point
    <3>2. ~y.listed /\ ~(new <= point)
      BY <1>1, <2>2, <3>1
    <3> QED  BY <1>d, <3>2
  <2>3. CASE x.listed /\ ~(new > point)
    <3>1. y = [x EXCEPT !.available = new]
      BY <1>3, <1>r, <2>0, <2>1, <2>3 DEF on_low_stock_report, point
    <3>2. y.listed /\ y.available = new
      BY <1>1, <2>3, <3>1
    <3>3. y.available <= new /\ y.available <= point
      BY <1>1, <2>3, <3>2
    <3> QED  BY <1>d, <3>2, <3>3
  <2>4. CASE ~x.listed
    <3>1. y = x
      BY <1>3, <1>r, <2>0, <2>4 DEF on_low_stock_report
    <3>2. ~(low /\ new <= point)
      BY <1>1, <1>2, <2>1, <2>4
    <3> QED  BY <1>d, <2>4, <3>1, <3>2
  <2> QED  BY <2>2, <2>3, <2>4
<1>4. ASSUME new <= point, NEW y, y = Read("report", x, Alert)
      PROVE  Tells("report", y)'
  <2>1. y = [listed |-> TRUE, available |-> new]
    BY <1>4, <1>a, <1>r DEF on_low_stock_report
  <2>2. y.listed /\ y.available <= new /\ y.available <= point
    BY <1>1, <1>4, <2>1
  <2> QED  BY <1>d, <2>2
<1>5. ASSUME m.type \notin {"StockReceived", "StockReturned"},
             ~(m.type \in Alerting /\ new <= point)
      PROVE  Tells("report", x)'
  <2>1. CASE m.type \in Alerting
    <3>1. ~(new <= point) /\ (x.listed => x.available <= new /\ x.available <= point)
      BY <1>1, <1>2, <1>5, <2>1
    <3> QED  BY <1>d, <3>1
  <2>2. CASE m.type \notin Alerting
    <3>1. m.type \in {"ReservationReleased", "StockCommitted", "DamagedStockWrittenOff",
                      "ReservationConfirmed", "StockCheckRecorded"}
      BY <1>5, <2>2 DEF Types, OnHandEvents, Alerting
    <3>2. new >= old
      BY <1>1, <1>q, <3>1
    <3>3. /\ low /\ new <= point => x.listed
          /\ x.listed => x.available <= new /\ x.available <= point
      BY <1>1, <1>2, <3>2
    <3> QED  BY <1>d, <3>3
  <2> QED  BY <2>1, <2>2
<1> QED  BY <1>3, <1>4, <1>5 DEF new, point

------------------------------------------------------------------------------
(* One event of a command reaches the projector of v. *)
LEMMA StockPublishes ==
  ASSUME StockViewInv, TypeOK', LedgerInv', NEW v \in Views, v = view,
         NEW e \in HandledEvents(v), Raised = <<e>>, Publish(Raised), UNCHANGED level_row,
         \A f \in Facets(v) : \A x \in Values(f) :
           Tells(f, x) => \A y : y = Read(f, x, e) => Tells(f, y)'
  PROVE  StockViewInv'
<1>1. /\ v # "none" /\ UNCHANGED <<view, row, redelivered, level_row>>
      /\ unread' = unread \o <<e>>
      /\ unread \in Seq(HandledEvents(v)) /\ row \in Rows(v)
  BY DEF Publish, StockViewInv, Views
<1>2. unread' \in Seq(HandledEvents(v))
  <2> HIDE DEF HandledEvents
  <2> QED  BY <1>1
<1>3. ASSUME NEW f \in Facets(v), Trusted(v, f)'
      PROVE  Ahead(v, f)'
  <2>1. Trusted(v, f)
    BY <1>1, <1>3 DEF Trusted
  <2>2. PICK x \in Values(f) : Tells(f, x) /\ Leads(Steps(v, f), Part(f, row), unread, x)
    BY <2>1 DEF StockViewInv, Ahead
  <2>3. PICK y : y = Read(f, x, e)
    OBVIOUS
  <2>4. y \in Values(f) /\ Tells(f, y)'
    BY <2>2, <2>3, FacetRead
  <2>5. <<x, e, y>> \in Steps(v, f)
    BY <2>3, <2>4 DEF Steps
  <2>6. Leads(Steps(v, f), Part(f, row), unread \o <<e>>, y)
    BY <1>1, <2>2, <2>5, LeadsMore
  <2>7. Leads(Steps(v, f), Part(f, row'), unread', y)
    BY <1>1, <2>6
  <2> QED  BY <2>4, <2>7 DEF Ahead
<1> QED  BY <1>1, <1>2, <1>3 DEF StockViewInv

(* No event of a command reaches it. *)
LEMMA StockPasses ==
  ASSUME StockViewInv, TypeOK', LedgerInv', NEW v \in Views, v = view,
         UNCHANGED read_vars, level_row' = level_row \/ level_row' = "late",
         \A f \in Facets(v) : \A x \in Values(f) : Tells(f, x) => Tells(f, x)'
  PROVE  StockViewInv'
<1>1. UNCHANGED <<view, row, unread, redelivered>>
  BY DEF read_vars
<1>2. ASSUME NEW f \in Facets(v), Trusted(v, f)'
      PROVE  Ahead(v, f)'
  <2>1. Trusted(v, f)
    BY <1>1, <1>2 DEF Trusted
  <2>2. PICK x \in Values(f) : Tells(f, x) /\ Leads(Steps(v, f), Part(f, row), unread, x)
    BY <2>1 DEF StockViewInv, Ahead
  <2> QED  BY <1>1, <2>2 DEF Ahead
<1> QED  BY <1>1, <1>2 DEF StockViewInv

(* Nothing to do with a view that is not watched. *)
LEMMA StockUnwatched ==
  ASSUME TypeOK', LedgerInv', view = "none", UNCHANGED view
  PROVE  StockViewInv'
  BY DEF StockViewInv, Views

LEMMA StockCommand ==
  ASSUME StockViewInv, Command
  PROVE  StockViewInv'
<1>1. /\ TypeOK /\ LedgerInv /\ Next /\ Publish(Raised) /\ UNCHANGED <<view, level_row>>
      /\ view \in Views \cup {"none"}
  BY DEF StockViewInv, Command, Publish
<1>2. TypeOK'
  BY <1>1, NextKeepsState, NextRaisesEvents DEF StateOK, TypeOK
<1>3. LedgerInv'
  BY <1>1, <1>2, LedgerStep
<1>4. CASE view = "none"
  BY <1>1, <1>2, <1>3, <1>4, StockUnwatched
<1>5. CASE view \in Views
  <2>1. PICK v \in Views : v = view
    BY <1>5
  <2>2. PICK m \in Event : m.type \in Types /\ Says(m) /\ RaisedWith(m)
    BY <1>1, <1>2, CommandSays
  <2> DEFINE low == /\ v = "low_stock_report" /\ m.type \in Alerting
                    /\ levels'.available <= EffectiveReorderPoint
  <2>3. CASE m.type \in HandledBy[v]
    <3>1. Raised = <<m>> /\ m \in HandledEvents(v)
      BY <1>2, <2>1, <2>2, <2>3, RaisedIs DEF HandledEvents
    <3>2. ASSUME NEW f \in Facets(v), NEW x \in Values(f), Tells(f, x)
          PROVE  \A y : y = Read(f, x, m) => Tells(f, y)'
      <4>1. CASE f \notin {"valued", "report"}
        BY <1>1, <1>2, <2>2, <2>3, <3>2, <4>1, IntegerFacetTells
      <4>2. CASE f = "valued"
        <5>1. v = "inventory_valuation"
          BY <4>2, FacetsAre DEF Views, LevelViews
        <5>2. m.type \in HandledBy.inventory_valuation /\ x \in Int
          BY <2>3, <3>2, <4>2, <5>1 DEF Values
        <5> QED  BY <1>1, <1>2, <2>2, <3>2, <4>2, <5>2, ValuationTells
      <4>3. CASE f = "report"
        <5>1. v = "low_stock_report"
          BY <4>3, FacetsAre DEF Views, LevelViews
        <5>2. m.type \in {"StockReceived", "StockReturned"}
          BY <2>2, <2>3, <5>1 DEF HandledBy, Types, OnHandEvents
        <5> QED  BY <1>1, <1>2, <2>2, <3>2, <4>3, <5>2, ReportTells
      <4> QED  BY <4>1, <4>2, <4>3
    <3> QED  BY <1>1, <1>2, <1>3, <2>1, <3>1, <3>2, StockPublishes
  <2>4. CASE low
    <3>1. PICK a \in Event : a = Alert
      BY <1>2 DEF Event, Alert, TypeOK, StockLevels
    <3>2. Raised = <<a>> /\ a \in HandledEvents(v)
      <4>1. Raised = <<Alert>>
        BY <1>2, <2>1, <2>2, <2>4, RaisedIs
      <4>2. a.type = "LowStockDetected" /\ "LowStockDetected" \in HandledBy[v]
        BY <2>4, <3>1 DEF Alert, HandledBy
      <4> QED  BY <3>1, <4>1, <4>2 DEF HandledEvents
    <3>3. ASSUME NEW f \in Facets(v), NEW x \in Values(f), Tells(f, x)
          PROVE  \A y : y = Read(f, x, a) => Tells(f, y)'
      <4>1. f = "report"
        BY <2>4, FacetsAre
      <4> QED  BY <1>1, <1>2, <2>2, <2>4, <3>1, <3>3, <4>1, ReportTells
    <3> QED  BY <1>1, <1>2, <1>3, <2>1, <3>2, <3>3, StockPublishes
  <2>5. CASE m.type \notin HandledBy[v] /\ ~low
    <3>1. Raised = << >> /\ \A j \in 1..Len(raised') : raised'[j].type \notin HandledBy[v]
      BY <1>2, <2>1, <2>2, <2>5, RaisedIs
    <3>2. UNCHANGED read_vars
      <4>1. unread' = unread
        <5>1. unread \in Seq(HandledEvents(v)) /\ unread' = unread \o Raised
          BY <1>1, <2>1 DEF Publish, StockViewInv, Views
        <5> HIDE DEF HandledEvents
        <5> QED  BY <3>1, <5>1
      <4> QED  BY <1>1, <4>1 DEF Publish, read_vars
    <3>3. ASSUME NEW f \in Facets(v), NEW x \in Values(f), Tells(f, x)
          PROVE  Tells(f, x)'
      <4>1. CASE f \notin {"valued", "report"}
        BY <1>1, <1>2, <2>2, <2>5, <3>3, <4>1, IntegerFacetTells
      <4>2. CASE f = "valued"
        <5>1. v = "inventory_valuation"
          BY <4>2, FacetsAre DEF Views, LevelViews
        <5>2. /\ m.type \notin HandledBy.inventory_valuation /\ x \in Int
              /\ \A j \in 1..Len(raised') : raised'[j].type \notin HandledBy.inventory_valuation
          BY <2>5, <3>1, <3>3, <4>2, <5>1 DEF Values
        <5> QED  BY <1>1, <1>2, <2>2, <3>3, <4>2, <5>2, ValuationTells
      <4>3. CASE f = "report"
        <5>1. v = "low_stock_report"
          BY <4>3, FacetsAre DEF Views, LevelViews
        <5>2. /\ m.type \notin {"StockReceived", "StockReturned"}
              /\ ~(m.type \in Alerting /\ levels'.available <= EffectiveReorderPoint)
          BY <2>5, <5>1 DEF HandledBy
        <5> QED  BY <1>1, <1>2, <2>2, <3>3, <4>3, <5>2, ReportTells
      <4> QED  BY <4>1, <4>2, <4>3
    <3> QED  BY <1>1, <1>2, <1>3, <2>1, <3>2, <3>3, StockPasses
  <2> QED  BY <2>3, <2>4, <2>5
<1> QED  BY <1>1, <1>4, <1>5

LEMMA StockProjects ==
  ASSUME StockViewInv, Projection
  PROVE  StockViewInv'
<1>1. /\ unread # << >> /\ row' = Projected(view, row, Head(unread))
      /\ UNCHANGED <<view, levels, reservations, raised, level_row>>
      /\ \/ unread' = Tail(unread) /\ UNCHANGED redelivered
         \/ redelivered' = TRUE /\ UNCHANGED unread
  BY DEF Projection, Project, vars
<1>2. TypeOK' /\ LedgerInv'
  BY <1>1, NextKeepsState, NextRaisesEvents, LedgerStep DEF StateOK, TypeOK, StockViewInv, vars
<1>3. CASE view = "none"
  BY <1>1, <1>2, <1>3, StockUnwatched
<1>4. CASE view \in Views
  <2>1. PICK v \in Views : v = view
    BY <1>4
  <2> DEFINE E == HandledEvents(v)
             after == Projected(v, row, Head(unread))
  <2>2. unread \in Seq(E) /\ row \in Rows(v) /\ row' = after
    BY <1>1, <2>1 DEF StockViewInv
  <2>3. PICK e \in E : e = Head(unread)
    <3> HIDE DEF E
    <3> QED  BY <1>1, <2>2
  <2>4. unread' \in Seq(E)
    <3> HIDE DEF E
    <3> QED  BY <1>1, <2>2
  <2>5. after \in Rows(v)
    <3>1. CASE v = "product_availability" /\ level_row = "awaited"
      <4>1. after = row
        BY <3>1 DEF Projected, on_product_availability, LevelViews
      <4> QED  BY <2>2, <4>1
    <3>2. CASE v = "product_availability" => level_row # "awaited"
      BY <2>2, <2>3, <3>2, StockRowKept
    <3> QED  BY <3>1, <3>2
  <2>6. ASSUME NEW f \in Facets(v), Trusted(v, f)'
        PROVE  Ahead(v, f)'
    <3>1. Trusted(v, f) /\ (unread' = Tail(unread) \/ (f \in Copied /\ unread' = unread))
      BY <1>1, <2>6 DEF Trusted
    <3>2. PICK x \in Values(f) : Tells(f, x) /\ Leads(Steps(v, f), Part(f, row), unread, x)
      BY <2>1, <3>1 DEF StockViewInv, Ahead
    <3>3. v = "product_availability" => level_row # "awaited"
      BY <3>1, FacetsAre DEF Trusted, Copied
    <3> DEFINE p == Part(f, row)
               q == Read(f, p, e)
    <3>4. p \in Values(f) /\ Part(f, after) = q
      BY <2>2, <2>3, <3>3, StockRowKept
    <3>5. q \in Values(f) /\ (f \in Copied => Read(f, q, e) = q)
      BY <2>3, <3>4, FacetRead
    <3>6. \A w : <<p, Head(unread), w>> \in Steps(v, f) => w = q
      BY <2>3 DEF Steps
    <3>7. f \in Copied => <<q, Head(unread), q>> \in Steps(v, f)
      BY <2>3, <3>5 DEF Steps
    <3> HIDE DEF p, q, E
    <3>8. /\ Leads(Steps(v, f), q, Tail(unread), x)
          /\ f \in Copied => Leads(Steps(v, f), q, unread, x)
      BY <1>1, <2>2, <3>2, <3>6, <3>7, LeadsProject DEF p
    <3>9. Leads(Steps(v, f), Part(f, row'), unread', x)
      BY <2>2, <3>1, <3>4, <3>8
    <3>10. Tells(f, x)'
      BY <1>1, <3>2 DEF Tells
    <3> QED  BY <3>9, <3>10 DEF Ahead
  <2> HIDE DEF after
  <2> QED  BY <1>1, <1>2, <2>1, <2>2, <2>4, <2>5, <2>6 DEF StockViewInv
<1> QED  BY <1>3, <1>4 DEF StockViewInv

(* The item's other projector writes its first row, or nothing happens. *)
LEMMA StockRests ==
  ASSUME StockViewInv, UNCHANGED <<vars, read_vars>>,
             level_row' = level_row \/ level_row' = "late"
  PROVE  StockViewInv'
<1>1. /\ UNCHANGED <<levels, reservations, raised, view>>
      /\ TypeOK' /\ LedgerInv'
  BY NextKeepsState, NextRaisesEvents, LedgerStep
     DEF StateOK, TypeOK, StockViewInv, vars, read_vars
<1>2. \A f, x : Tells(f, x) => Tells(f, x)'
  BY <1>1 DEF Tells
<1>3. CASE view = "none"
  BY <1>1, <1>3, StockUnwatched
<1>4. CASE view \in Views
  <2>1. PICK v \in Views : v = view
    BY <1>4
  <2> QED  BY <1>1, <1>2, <2>1, StockPasses
<1> QED  BY <1>3, <1>4 DEF StockViewInv

(* A new item, with the rows StockInitialized makes. *)
LEMMA StockViewStart ==
  ASSUME ViewsInit
  PROVE  StockViewInv
<1>1. /\ Init /\ view \in Views \cup {"none"} /\ row = InitialRow /\ unread = << >>
      /\ levels = [on_hand |-> InitialQuantity, reserved |-> 0,
                   available |-> InitialQuantity, damaged |-> 0]
      /\ raised = << >>
  BY DEF ViewsInit, Init, InitializeStock
<1>2. TypeOK /\ LedgerInv
  <2>1. TypeOK
    BY InventoryAssumption DEF ViewsInit, Init, InitializeStock, TypeOK, StockLevels,
       Reservation, ReservationStatus, NoReservation
  <2> QED  BY <1>1, <2>1, LedgerInit
<1>3. InitialQuantity \in Int /\ EffectiveReorderPoint \in Int /\ levels \in StockLevels
  BY <1>2, InventoryAssumption DEF EffectiveReorderPoint, TypeOK
<1>4. ASSUME view \in Views
      PROVE  /\ row \in Rows(view)
             /\ \A f \in Facets(view) : Part(f, row) \in Values(f) /\ Tells(f, Part(f, row))
  <2>1. PICK v \in Views : v = view
    BY <1>4
  <2>2. CASE v \in LevelViews
    <3>1. row = levels /\ row \in Rows(v)
      BY <1>1, <1>3, <2>1, <2>2 DEF InitialRow, Rows, LevelViews
    <3>2. ASSUME NEW f \in Facets(v) PROVE Part(f, row) \in Values(f) /\ Tells(f, Part(f, row))
      <4>1. f \in {"on_hand", "available", "damaged", "reserved"}
        BY <2>2, FacetsAre
      <4>2. Part(f, row) \in Int /\ Tells(f, Part(f, row))
        BY <1>3, <3>1, <4>1, PartIs, TellsIs DEF StockLevels
      <4> QED  BY <4>1, <4>2 DEF Values
    <3> QED  BY <2>1, <3>1, <3>2
  <2>3. CASE v = "product_availability"
    <3>1. row = [on_hand |-> InitialQuantity, reserved |-> 0, available |-> InitialQuantity]
      BY <1>1, <2>1, <2>3 DEF InitialRow
    <3>2. row \in Rows(v)
      BY <1>3, <2>3, <3>1 DEF Rows, LevelViews
    <3>3. ASSUME NEW f \in Facets(v) PROVE Part(f, row) \in Values(f) /\ Tells(f, Part(f, row))
      <4>1. f \in {"on_hand_sum", "available_sum", "reserved_sum"}
        BY <2>3, FacetsAre
      <4>2. Part(f, row) \in Int /\ Tells(f, Part(f, row))
        BY <1>1, <1>3, <3>1, <4>1, PartIs, TellsIs
      <4> QED  BY <4>1, <4>2 DEF Values
    <3> QED  BY <2>1, <3>2, <3>3
  <2>4. CASE v = "inventory_valuation"
    <3>1. row = [on_hand |-> InitialQuantity]
      BY <1>1, <2>1, <2>4 DEF InitialRow
    <3>2. row \in Rows(v)
      BY <1>3, <2>4, <3>1 DEF Rows, LevelViews
    <3>3. row.on_hand \in Int /\ Tells("valued", row.on_hand)
      BY <1>1, <1>3, <3>1 DEF Tells
    <3>4. \A f \in Facets(v) : Part(f, row) \in Values(f) /\ Tells(f, Part(f, row))
      BY <2>4, <3>3, FacetsAre, PartIs DEF Values
    <3> QED  BY <2>1, <3>2, <3>4
  <2>5. CASE v = "low_stock_report"
    <3>1. row = [listed |-> FALSE, available |-> 0]
      BY <1>1, <2>1, <2>5 DEF InitialRow
    <3>2. row \in [listed : BOOLEAN, available : Int] /\ row \in Rows(v)
      BY <2>5, <3>1 DEF Rows, LevelViews
    <3>3. Tells("report", row)
      BY <1>1, <1>3, <3>1 DEF Tells
    <3>4. \A f \in Facets(v) : Part(f, row) \in Values(f) /\ Tells(f, Part(f, row))
      BY <2>5, <3>2, <3>3, FacetsAre, PartIs DEF Values
    <3> QED  BY <2>1, <3>2, <3>4
  <2>6. CASE v = "shrinkage_report"
    <3>1. row = [adjustments |-> 0, damaged |-> 0, written_off |-> 0]
      BY <1>1, <2>1, <2>6 DEF InitialRow
    <3>2. row \in Rows(v) /\ row.damaged - row.written_off = 0
      BY <2>6, <3>1 DEF Rows, LevelViews
    <3>3. levels.damaged = 0
      BY <1>1
    <3>4. \A f \in Facets(v) : Part(f, row) \in Values(f) /\ Tells(f, Part(f, row))
      BY <2>6, <3>2, <3>3, FacetsAre, PartIs, TellsIs DEF Values
    <3> QED  BY <2>1, <3>2, <3>4
  <2>7. CASE v = "stock_movement_log"
    <3>1. row = [on_hand |-> InitialQuantity]
      BY <1>1, <2>1, <2>7 DEF InitialRow
    <3>2. row \in Rows(v) /\ row.on_hand \in Int /\ row.on_hand = levels.on_hand
      BY <1>1, <1>3, <2>7, <3>1 DEF Rows, LevelViews
    <3>3. \A f \in Facets(v) : Part(f, row) \in Values(f) /\ Tells(f, Part(f, row))
      BY <2>7, <3>2, FacetsAre, PartIs, TellsIs DEF Values
    <3> QED  BY <2>1, <3>2, <3>3
  <2> QED  BY <2>2, <2>3, <2>4, <2>5, <2>6, <2>7 DEF Views, LevelViews
<1>5. unread \in Seq(HandledEvents(view))
  BY <1>1
<1>6. ASSUME view \in Views, NEW f \in Facets(view) PROVE Ahead(view, f)
  <2>1. Part(f, row) \in Values(f) /\ Tells(f, Part(f, row))
    BY <1>4, <1>6
  <2>2. Leads(Steps(view, f), Part(f, row), unread, Part(f, row))
    BY <1>1, LeadsNone
  <2> QED  BY <2>1, <2>2 DEF Ahead
<1> QED  BY <1>1, <1>2, <1>4, <1>5, <1>6 DEF StockViewInv

LEMMA StockViewInvariant == ViewedItem => []StockViewInv
<1>1. ViewsInit => StockViewInv
  BY StockViewStart
<1>2. StockViewInv /\ [Command \/ Projection \/ LevelWritten]_<<vars, view_vars>> => StockViewInv'
  <2> SUFFICES ASSUME StockViewInv, [Command \/ Projection \/ LevelWritten]_<<vars, view_vars>>
               PROVE  StockViewInv'
    OBVIOUS
  <2>1. CASE LevelWritten
    BY <2>1, StockRests DEF LevelWritten
  <2>2. CASE UNCHANGED <<vars, view_vars>>
    BY <2>2, StockRests DEF view_vars
  <2> QED  BY <2>1, <2>2, StockCommand, StockProjects
<1> QED  BY <1>1, <1>2, PTL DEF ViewedItem

(* What each of the seven projections tells of the item once it caught up  *)
(* with it, for any quantities and any number of unread events: copied     *)
(* levels even when an event was handled twice, sums when none was and     *)
(* none was passed over, the valuation and the low-stock report within     *)
(* their bounds. *)
THEOREM StockIsShown == ViewedItem => []StockViewsFollow
<1>1. ASSUME StockViewInv PROVE StockViewsFollow
  <2> SUFFICES ASSUME CaughtUp, view \in Views
               PROVE  StockViewsFollow
    BY <1>1 DEF StockViewsFollow, StockViewInv, Views
  <2>1. PICK v \in Views : v = view
    OBVIOUS
  <2>2. unread = << >> /\ row \in Rows(v)
    BY <1>1, <2>1 DEF CaughtUp, StockViewInv
  <2>3. ASSUME NEW f \in Facets(v), Trusted(v, f)
        PROVE  Tells(f, Part(f, row))
    <3>1. PICK x \in Values(f) : Tells(f, x) /\ Leads(Steps(v, f), Part(f, row), unread, x)
      BY <1>1, <2>1, <2>3 DEF StockViewInv, Ahead
    <3>2. x = Part(f, row)
      BY <2>2, <3>1, LeadsNone
    <3> QED  BY <3>1, <3>2
  <2>4. \A f \in Facets(v) \cap Copied : Tells(f, Part(f, row))
    BY <2>3 DEF Trusted
  <2>5. CASE v \in LevelViews
    <3>1. /\ "on_hand" \in Facets(v) \cap Copied /\ "available" \in Facets(v) \cap Copied
          /\ "damaged" \in Facets(v) \cap Copied /\ "reserved" \in Facets(v)
      BY <2>5 DEF Facets, Copied, LevelViews
    <3>2. /\ Tells("on_hand", Part("on_hand", row)) /\ Tells("available", Part("available", row))
          /\ Tells("damaged", Part("damaged", row))
          /\ ~redelivered => Tells("reserved", Part("reserved", row))
      BY <2>3, <2>4, <2>5, <3>1 DEF Trusted, LevelViews
    <3>3. /\ row.on_hand = levels.on_hand /\ row.available = levels.available
          /\ row.damaged = levels.damaged
          /\ ~redelivered => row.reserved = levels.reserved
      BY <3>2, PartIs, TellsIs
    <3>4. row \in StockLevels /\ levels \in StockLevels
      BY <1>1, <2>2, <2>5 DEF Rows, LevelViews, StockViewInv, TypeOK
    <3>5. [row EXCEPT !.reserved = 0] = [levels EXCEPT !.reserved = 0]
      BY <3>3, <3>4 DEF StockLevels
    <3>6. LevelFollows
      BY <3>3, <3>5 DEF LevelFollows
    <3> QED  BY <2>1, <2>5, <3>6 DEF StockViewsFollow, LevelViews
  <2>6. CASE v = "product_availability"
    <3>1. Facets(v) = {"on_hand_sum", "available_sum", "reserved_sum"}
      BY <2>6 DEF Facets, LevelViews
    <3>2. ~redelivered /\ level_row = "written" =>
            /\ Tells("on_hand_sum", Part("on_hand_sum", row))
            /\ Tells("available_sum", Part("available_sum", row))
            /\ Tells("reserved_sum", Part("reserved_sum", row))
      BY <2>3, <3>1 DEF Trusted
    <3>3. ~redelivered /\ level_row = "written" =>
            /\ row.on_hand = levels.on_hand /\ row.available = levels.available
            /\ row.reserved = levels.reserved
      BY <3>2, PartIs, TellsIs
    <3>4. row \in [on_hand : Int, reserved : Int, available : Int]
      BY <2>2, <2>6 DEF Rows, LevelViews
    <3>5. AvailabilityFollows
      BY <3>3, <3>4 DEF AvailabilityFollows
    <3> QED  BY <2>1, <2>6, <3>5 DEF StockViewsFollow
  <2>7. CASE v = "inventory_valuation"
    <3>1. "valued" \in Facets(v) \cap Copied
      BY <2>7 DEF Facets, Copied, LevelViews
    <3>2. Tells("valued", row.on_hand)
      BY <2>4, <3>1, PartIs
    <3>3. ValuationFollows
      BY <3>2 DEF Tells, ValuationFollows
    <3> QED  BY <2>1, <2>7, <3>3 DEF StockViewsFollow
  <2>8. CASE v = "low_stock_report"
    <3>1. "report" \in Facets(v) \cap Copied
      BY <2>8 DEF Facets, Copied, LevelViews
    <3>2. Tells("report", row)
      BY <2>4, <3>1, PartIs
    <3>3. ReportFollows
      BY <3>2 DEF Tells, ReportFollows
    <3> QED  BY <2>1, <2>8, <3>3 DEF StockViewsFollow
  <2>9. CASE v = "shrinkage_report"
    <3>1. "shrinkage" \in Facets(v)
      BY <2>9 DEF Facets, LevelViews
    <3>2. ~redelivered => row.damaged - row.written_off = levels.damaged
      BY <2>3, <2>9, <3>1, PartIs, TellsIs DEF Trusted
    <3> QED  BY <2>1, <2>9, <3>2 DEF StockViewsFollow, ShrinkageFollows
  <2>10. CASE v = "stock_movement_log"
    <3>1. "on_hand" \in Facets(v) \cap Copied
      BY <2>10 DEF Facets, Copied, LevelViews
    <3>2. row.on_hand = levels.on_hand
      BY <2>4, <3>1, PartIs, TellsIs
    <3> QED  BY <2>1, <2>10, <3>2 DEF StockViewsFollow
  <2> QED  BY <2>5, <2>6, <2>7, <2>8, <2>9, <2>10 DEF Views, LevelViews
<1> QED  BY <1>1, StockViewInvariant, PTL
==============================================================================
