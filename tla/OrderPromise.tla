---------------------------- MODULE OrderPromise ----------------------------
(***************************************************************************)
(* What an order promises about money and goods, without its status        *)
(* machine: goods leave the warehouse only against captured money, money   *)
(* is captured once, an order is called off only while all its goods are   *)
(* still in the warehouse, and it is closed as refunded only when the      *)
(* goods never left or came back.                                          *)
(***************************************************************************)
VARIABLES money,    \* "due" or "captured"
          goods,    \* "warehouse", "carrier", "customer" or "returned"
          closed    \* "no", "called_off", "completed" or "refunded"

order == <<money, goods, closed>>

Init == money = "due" /\ goods = "warehouse" /\ closed = "no"

Capture == /\ closed = "no"
           /\ money = "due"
           /\ money' = "captured"
           /\ UNCHANGED <<goods, closed>>

Dispatch == /\ closed = "no"
            /\ money = "captured"
            /\ goods = "warehouse"
            /\ goods' = "carrier"
            /\ UNCHANGED <<money, closed>>

Deliver == /\ closed = "no"
           /\ goods = "carrier"
           /\ goods' = "customer"
           /\ UNCHANGED <<money, closed>>

ComeBack == /\ closed = "no"
            /\ goods = "customer"
            /\ goods' = "returned"
            /\ UNCHANGED <<money, closed>>

CallOff == /\ closed = "no"
           /\ goods = "warehouse"
           /\ closed' = "called_off"
           /\ UNCHANGED <<money, goods>>

Complete == /\ closed = "no"
            /\ goods = "customer"
            /\ closed' = "completed"
            /\ UNCHANGED <<money, goods>>

Refund == /\ closed = "called_off" \/ (closed = "no" /\ goods = "returned")
          /\ closed' = "refunded"
          /\ UNCHANGED <<money, goods>>

Next == Capture \/ Dispatch \/ Deliver \/ ComeBack \/ CallOff \/ Complete \/ Refund

Spec == Init /\ [][Next]_order
=============================================================================
