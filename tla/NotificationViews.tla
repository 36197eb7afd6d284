--------------------------- MODULE NotificationViews ---------------------------
(***************************************************************************)
(* The projections of Notification (notifications/projections), on one     *)
(* day.  A projection has a row, or a counter, per notification, or per    *)
(* type and channel: row is a function.  Subjects, templates, reasons and  *)
(* dates are left out.                                                     *)
(***************************************************************************)
EXTENDS Notifications, ReadModel, Lists

NotificationViewNames == {"notification_log", "customer_notifications",
                          "failed_notifications", "notification_stats"}

read_and_vars == <<vars, read_vars>>

(* The event with which a notification comes to each status.               *)
EventOf == [Sent |-> "NotificationSent", Failed |-> "NotificationFailed",
            Cancelled |-> "NotificationCancelled", Pending |-> "NotificationRetried"]

(* What a notification that is new or has another status raises.           *)
RaisedBy(n) ==
  LET note == notifications'[n]
  IN [type |-> IF n > Len(notifications) THEN "NotificationCreated" ELSE EventOf[note.status],
      id |-> n, channel |-> note.channel, notification_type |-> note.type,
      retry_count |-> note.retry_count]

Changed == {n \in DOMAIN notifications' :
              n > Len(notifications) \/ notifications'[n].status # notifications[n].status}

NotificationsRaised == Keeping([n \in DOMAIN notifications' |-> RaisedBy(n)], Changed)

------------------------------------------------------------------------------
(* Projectors: what the projection is after event e, if it was r before.   *)
(* The row of key is put in its place.                                      *)
Put(r, key, value) == [k \in DOMAIN r \cup {key} |-> IF k = key THEN value ELSE r[k]]

Entry(e, status) == [status |-> status, retry_count |-> e.retry_count]

(* Only its creation is written where the notification has no row yet.     *)
Written(r, e) == e.id \in DOMAIN r

on_notification_log(r, e) ==
  CASE e.type = "NotificationCreated" -> Put(r, e.id, Entry(e, "Pending"))
    [] e.type = "NotificationSent" /\ Written(r, e) -> [r EXCEPT ![e.id].status = "Sent"]
    [] e.type = "NotificationFailed" /\ Written(r, e) -> Put(r, e.id, Entry(e, "Failed"))
    [] e.type = "NotificationCancelled" /\ Written(r, e) ->
         [r EXCEPT ![e.id].status = "Cancelled"]
    [] e.type = "NotificationRetried" /\ Written(r, e) -> Put(r, e.id, Entry(e, "Pending"))
    [] OTHER -> r

(* Notifications to operators are not listed; cancellations and retries    *)
(* are not handled.                                                        *)
Internal(e) == e.notification_type = "LowStockAlert"

on_customer_notifications(r, e) ==
  CASE e.type = "NotificationCreated" -> IF Internal(e) THEN r ELSE Put(r, e.id, "Pending")
    [] e.type = "NotificationSent" /\ Written(r, e) -> [r EXCEPT ![e.id] = "Sent"]
    [] e.type = "NotificationFailed" /\ Written(r, e) -> [r EXCEPT ![e.id] = "Failed"]
    [] OTHER -> r

(* The rows but the event's.                                               *)
Others(r, e) == [n \in DOMAIN r \ {e.id} |-> r[n]]

(* Mutant: what is retried stays in the queue until it is sent.            *)
on_failed_notifications_Keeps(r, e) ==
  CASE e.type = "NotificationFailed" -> Put(r, e.id, e.retry_count)
    [] e.type = "NotificationSent" -> Others(r, e)
    [] OTHER -> r

on_failed_notifications(r, e) ==
  CASE e.type = "NotificationFailed" -> Put(r, e.id, e.retry_count)
    [] e.type \in {"NotificationRetried", "NotificationSent"} -> Others(r, e)
    [] OTHER -> r

(* The type is read from the aggregate, the channel is the event's.        *)
on_notification_stats(r, e) ==
  LET key == <<e.notification_type, e.channel>> IN
  IF e.type # "NotificationSent" THEN r
  ELSE IF key \in DOMAIN r THEN [r EXCEPT ![key] = @ + 1]
  ELSE Put(r, key, 1)

NotificationProjected(r, e) ==
  CASE view = "notification_log" -> on_notification_log(r, e)
    [] view = "customer_notifications" -> on_customer_notifications(r, e)
    [] view = "failed_notifications" -> on_failed_notifications(r, e)
    [] view = "notification_stats" -> on_notification_stats(r, e)

------------------------------------------------------------------------------
NotificationViewsInit ==
  /\ Init
  /\ view \in NotificationViewNames \cup {"none"}
  /\ row = << >>
  /\ unread = << >>
  /\ redelivered = FALSE

NotificationCommand ==
  Next /\ IF view = "none" THEN Unwatched ELSE Publish(NotificationsRaised)

NotificationProjection == Project(NotificationProjected(row, Head(unread))) /\ UNCHANGED vars

NotificationViewsNext == NotificationCommand \/ NotificationProjection

NotificationViewsSpec ==
  /\ NotificationViewsInit /\ [][NotificationViewsNext]_read_and_vars
  /\ Fairness /\ WF_read_and_vars(NotificationProjection)

------------------------------------------------------------------------------
ForCustomer == {n \in DOMAIN notifications : notifications[n].type # "LowStockAlert"}

(* What a customer's list says of a notification: one that was cancelled,  *)
(* or retried, is shown as it was before.                                  *)
ShownAs(note) ==
  IF note.status = "Sent" THEN "Sent"
  ELSE IF note.retry_count > 0 THEN "Failed" ELSE "Pending"

SentOf(key) ==
  {n \in DOMAIN notifications :
     notifications[n].status = "Sent" /\ key = <<notifications[n].type, notifications[n].channel>>}

(* Staff retry what failed_notifications shows: caught up, it shows all    *)
(* that failed and nothing that was retried, sent or cancelled since.  The *)
(* log agrees with every notification, the customer's list as ShownAs      *)
(* says, and the counters with what was sent, unless an event was counted  *)
(* twice.                                                                  *)
NotificationViewsFollow ==
  CaughtUp =>
    CASE view = "notification_log" ->
           /\ DOMAIN row = DOMAIN notifications
           /\ \A n \in DOMAIN row : /\ row[n].status = notifications[n].status
                                    /\ row[n].retry_count = notifications[n].retry_count
      [] view = "customer_notifications" ->
           row = [n \in ForCustomer |-> ShownAs(notifications[n])]
      [] view = "failed_notifications" ->
           LET failed == {n \in DOMAIN notifications : notifications[n].status = "Failed"} IN
           row = [n \in failed |-> notifications[n].retry_count]
      [] view = "notification_stats" ->
           \A key \in DOMAIN row \cup {<<notifications[n].type, notifications[n].channel>> :
                                         n \in DOMAIN notifications} :
             LET counted == IF key \in DOMAIN row THEN row[key] ELSE 0
                 sent    == Cardinality(SentOf(key))
             IN  counted = sent \/ (redelivered /\ counted = sent + 1)
      [] OTHER -> TRUE
==============================================================================
