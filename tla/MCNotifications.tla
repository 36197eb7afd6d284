--------------------------- MODULE MCNotifications ---------------------------
(***************************************************************************)
(* An instance of Notifications, with its projections, for TLC.  While a   *)
(* projection is watched no handler dies but its own, and the customer     *)
(* has the default preferences, or none: both vary with none watched.      *)
(***************************************************************************)
EXTENDS NotificationViews

Bound == view # "none" => crashes' = 0 /\ preference' \in {preference, create_default}

MCSpec ==
  /\ NotificationViewsInit /\ [][NotificationViewsNext /\ Bound]_read_and_vars
  /\ Fairness /\ WF_read_and_vars(NotificationProjection)
==============================================================================
