---------------------------- MODULE MCInventory ----------------------------
(* Instances of StockViews for TLC. *)
EXTENDS StockViews, SequencesExt

CONSTANTS r1, r2, r3, o1

(* Reservations are interchangeable. *)
Symmetry == Permutations(ReservationIds)

SmallQuantities == -2..3

(* With a projection to follow the item is a smaller one, and what the     *)
(* shrinkage report sums up is bounded.                                    *)
Reservations == {r \in ReservationIds : reservations[r] # NoReservation}

ViewBound ==
  /\ view # "none" => /\ Cardinality(Reservations) <= 1
                      /\ levels.damaged <= 1
                      /\ levels.on_hand <= 3
  /\ view = "shrinkage_report" =>
       /\ Reservations = {}
       /\ \A e \in ToSet(unread) : /\ e.type = "StockAdjusted" => row.adjustments = 0
                                   /\ e.type = "StockMarkedDamaged" => row.damaged <= 1

MCNext == (Command /\ ViewBound') \/ Projection \/ LevelWritten

MCSpec == ViewsInit /\ [][MCNext]_<<vars, view_vars>>
=============================================================================
