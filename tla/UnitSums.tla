------------------------------ MODULE UnitSums ------------------------------
(***************************************************************************)
(* Sums of natural numbers over a set, as the number of units they stand   *)
(* for: amount[x] units <<x, 1>>, <<x, 2>>, ... for each x.  Counting      *)
(* units instead of folding lets a sum be reasoned about with what is      *)
(* known of finite sets.                                                   *)
(***************************************************************************)
EXTENDS Integers, FiniteSets

UnitsOf(S, amount) == UNION {{x} \X (1..amount[x]) : x \in S}

Total(S, amount) == Cardinality(UnitsOf(S, amount))
=============================================================================
