------------------------------ MODULE ReadModel ------------------------------
(***************************************************************************)
(* A read model as Protean keeps it.  Every projection has its projector,  *)
(* a subscription that is given the events of one aggregate in the order   *)
(* they were committed, some time after the commands that raised them, and *)
(* that is given an event again when it stops between writing the          *)
(* projection and acknowledging the event.                                 *)
(*                                                                         *)
(* The modules that extend this one watch one projection at a time: view   *)
(* names it, and never changes.                                            *)
(***************************************************************************)
EXTENDS Naturals, Sequences

CONSTANT MaxUnread  \* a command waits when the projector is this far behind

ASSUME ReadModelAssumption == MaxUnread \in Nat \ {0}

VARIABLES
  view,         \* the projection that is watched, or "none"
  row,          \* what it holds
  unread,       \* events its projector has not acknowledged
  redelivered   \* an event was handled twice (at most one is)

read_vars == <<view, row, unread, redelivered>>

Unwatched == UNCHANGED read_vars

(* A unit of work commits: its events reach the projector's stream.        *)
Publish(events) ==
  /\ events # << >> => Len(unread) < MaxUnread
  /\ unread' = IF view = "none" THEN unread ELSE unread \o events
  /\ UNCHANGED <<view, row, redelivered>>

(* The projector writes what the oldest event makes of the projection, and *)
(* acknowledges the event unless it stops first.                           *)
Project(after) ==
  /\ unread # << >>
  /\ row' = after
  /\ \/ /\ unread' = Tail(unread)
        /\ UNCHANGED redelivered
     \/ /\ ~redelivered
        /\ redelivered' = TRUE
        /\ UNCHANGED unread
  /\ UNCHANGED view

CaughtUp == unread = << >>
==============================================================================
