----------------------------- MODULE MCShipping -----------------------------
(* An instance of Shipping for TLC. *)
EXTENDS Shipping

CONSTANTS i1, r1, r2
=============================================================================
