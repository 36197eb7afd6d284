----------------------------- MODULE MCCheckout -----------------------------
(* Instances of Checkout for TLC. *)
EXTENDS Checkout, TLC

CONSTANTS r1, r2

(* Reservations are interchangeable. *)
Symmetry == Permutations(ReservationIds)
=============================================================================
