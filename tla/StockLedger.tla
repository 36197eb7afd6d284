----------------------------- MODULE StockLedger -----------------------------
(***************************************************************************)
(* What an inventory item promises, stated without its bookkeeping: units  *)
(* are either free to promise, held by a claim, or damaged, and they only  *)
(* move between those pools in the ways below.  Held units leave a claim   *)
(* all at once, either back to the free pool or out of the warehouse;      *)
(* damage and write-off never reach into held units.  A manual correction  *)
(* may shrink the free pool without limit: held units stay promised even   *)
(* when the shelf turns out to be short.                                   *)
(***************************************************************************)
EXTENDS Integers

CONSTANT Claims      \* names of the holds on this item

VARIABLES free,      \* units that may still be promised (Int)
          held,      \* units promised to each claim: [Claims -> Nat]
          damaged    \* units set aside as unsellable

pools == <<free, held, damaged>>

Init == /\ free \in Nat
        /\ held = [c \in Claims |-> 0]
        /\ damaged = 0

(* Receipts, customer returns and corrections change only the free pool.   *)
Correct == /\ free' \in Int
           /\ UNCHANGED <<held, damaged>>

Hold(c) == /\ held[c] = 0
           /\ held'[c] \in 1..free
           /\ held' = [held EXCEPT ![c] = held'[c]]
           /\ free' = free - held'[c]
           /\ UNCHANGED damaged

GiveBack(c) == /\ held[c] > 0
               /\ free' = free + held[c]
               /\ held' = [held EXCEPT ![c] = 0]
               /\ UNCHANGED damaged

Ship(c) == /\ held[c] > 0
           /\ held' = [held EXCEPT ![c] = 0]
           /\ UNCHANGED <<free, damaged>>

Damage == /\ damaged' - damaged \in 1..free
          /\ free' = free - (damaged' - damaged)
          /\ UNCHANGED held

WriteOff == /\ damaged' \in 0..(damaged - 1)
            /\ UNCHANGED <<free, held>>

Next == \/ Correct \/ Damage \/ WriteOff
        \/ \E c \in Claims : Hold(c) \/ GiveBack(c) \/ Ship(c)

Spec == Init /\ [][Next]_pools
==============================================================================
