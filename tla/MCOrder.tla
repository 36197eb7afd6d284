------------------------------ MODULE MCOrder ------------------------------
(* Instances of OrderViews for TLC. *)
EXTENDS OrderViews

CONSTANTS i1, i2, p1, p2, s1, s2
=============================================================================
