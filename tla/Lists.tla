-------------------------------- MODULE Lists --------------------------------
(***************************************************************************)
(* Lists from which entries are taken, as the comprehensions of the        *)
(* projectors do.  The entries that stay are found by counting, so that    *)
(* their order can be reasoned about.                                      *)
(***************************************************************************)
EXTENDS Naturals, Sequences, FiniteSets

(* The n-th smallest of a set of numbers.                                  *)
Nth(S, n) == CHOOSE k \in S : Cardinality({j \in S : j <= k}) = n

(* The entries of the list at the positions that are kept, in their order. *)
Keeping(list, kept) == [n \in 1..Cardinality(kept) |-> list[Nth(kept, n)]]
==============================================================================
