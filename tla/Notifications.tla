---------------------------- MODULE Notifications ----------------------------
(***************************************************************************)
(* The Notifications domain: events of the other domains become one        *)
(* Notification per channel the customer's preferences allow; the          *)
(* dispatcher sends those that are due at once, a job calls the scheduler  *)
(* for the others, and staff retry and cancel.                             *)
(*                                                                         *)
(* Dispatcher and scheduler load a notification, send it, and save it      *)
(* afterwards: others may change it in between, or the process may die.  A *)
(* save that finds another version than was loaded is refused.             *)
(*                                                                         *)
(* There is one customer, and the job makes one call at a time.  Nothing   *)
(* marks a notification as delivered or bounced, and nothing reads the     *)
(* quiet hours: both are left out.                                         *)
(***************************************************************************)
EXTENDS Integers, Sequences, SequencesExt, FiniteSets

CONSTANTS
  Events,      \* events of other domains that reach the handlers, each once
  Channels,    \* channels a customer may enable
  MaxRetries,  \* max_retries of a notification
  MaxCrashes   \* bound of the model: handlers that die on the way

ASSUME NotificationsAssumption == MaxRetries \in Nat \ {0} /\ MaxCrashes \in Nat

VARIABLES
  preference,    \* the customer's NotificationPreference, NoPreference before it exists
  notifications, \* the Notification aggregates, in the order they were created
  inbox,         \* events the notification handlers have still to handle
  created,       \* NotificationCreated events the dispatcher has still to handle
  sending,       \* notifications loaded by the dispatcher or the scheduler
  messages,      \* messages the channel has taken for each notification
  lost,          \* notifications with a message whose sending was never saved
  crashes        \* handlers that have died so far

vars == <<preference, notifications, inbox, created, sending, messages, lost, crashes>>

------------------------------------------------------------------------------
(* What the handlers of each stream make of its events.  Those that lack   *)
(* the customer's id (OrderCancelled, the events of Fulfillment) are only  *)
(* logged and have no entry; nor has CartAbandoned, which the cart raises  *)
(* without it and in a stream the handler does not read.                   *)
OrderingEvents == [OrderCreated   |-> [type |-> "OrderConfirmation", timing |-> "now"],
                   OrderDelivered |-> [type |-> "ReviewPrompt", timing |-> "later"]]

PaymentEvents == [PaymentSucceeded |-> [type |-> "PaymentReceipt", timing |-> "now"],
                  RefundCompleted  |-> [type |-> "RefundNotification", timing |-> "now"]]

IdentityEvents == [CustomerRegistered |-> [type |-> "Welcome", timing |-> "now"]]

ReviewEvents == [ReviewApproved |-> [type |-> "ReviewPublished", timing |-> "now"],
                 ReviewRejected |-> [type |-> "ReviewRejected", timing |-> "now"]]

InventoryEvents == [LowStockDetected |-> [type |-> "LowStockAlert", timing |-> "now"]]

CustomerEvents == OrderingEvents @@ PaymentEvents @@ IdentityEvents @@ ReviewEvents

Reactions == CustomerEvents @@ InventoryEvents

DefaultChannels(type) ==
  CASE type = "ReviewPrompt"  -> {"Email", "Push"}
    [] type = "LowStockAlert" -> {"Slack"}
    [] OTHER                  -> {"Email"}

------------------------------------------------------------------------------
(* NotificationPreference and its commands.                                *)
NoPreference == [channels |-> {}, unsubscribed |-> {}, exists |-> FALSE]

create_default == [channels |-> {"Email"}, unsubscribed |-> {}, exists |-> TRUE]

(* _get_or_create_preference                                               *)
GetOrCreate == IF preference.exists THEN preference ELSE create_default

OnlyPreference == UNCHANGED <<notifications, inbox, created, sending, messages, lost, crashes>>

UpdateNotificationPreferences ==
  /\ \E enabled \in SUBSET Channels : preference' = [GetOrCreate EXCEPT !.channels = enabled]
  /\ OnlyPreference

(* Setting or clearing them creates the preference.                        *)
QuietHours == preference' = GetOrCreate /\ OnlyPreference

CustomerTypes == {CustomerEvents[e].type : e \in Events \cap DOMAIN CustomerEvents}

UnsubscribeFromType ==
  /\ preference.exists
  /\ \E type \in CustomerTypes \ preference.unsubscribed :
       preference' = [preference EXCEPT !.unsubscribed = @ \cup {type}]
  /\ OnlyPreference

ResubscribeToType ==
  /\ \E type \in preference.unsubscribed :
       preference' = [preference EXCEPT !.unsubscribed = @ \ {type}]
  /\ OnlyPreference

(* The preferences' own handler of CustomerRegistered, which leaves        *)
(* preferences that exist alone, however often it is given the event.      *)
on_customer_registered == preference' = GetOrCreate /\ OnlyPreference

------------------------------------------------------------------------------
(* create_notifications_for_customer: without preferences only by email.   *)
EnabledChannels(type) ==
  IF ~preference.exists THEN {"Email"}
  ELSE IF type \in preference.unsubscribed THEN {} ELSE preference.channels

(* Mutant: so does an alert to the operators.                              *)
ChannelsFor_Preferences(event) ==
  DefaultChannels(Reactions[event].type) \cap EnabledChannels(Reactions[event].type)

(* create_internal_notification skips the preferences.                     *)
ChannelsFor(event) ==
  LET type == Reactions[event].type
  IN IF event \in DOMAIN InventoryEvents THEN DefaultChannels(type)
     ELSE DefaultChannels(type) \cap EnabledChannels(type)

(* Notification.create                                                     *)
NewNotification(event, channel) ==
  [type |-> Reactions[event].type, channel |-> channel, timing |-> Reactions[event].timing,
   status |-> "Pending", retry_count |-> 0]

(* All in one unit of work; an event handled twice is notified twice.      *)
HandleEvent ==
  \E event \in inbox :
    LET channels == SetToSeq(ChannelsFor(event))
        new == [k \in DOMAIN channels |-> NewNotification(event, channels[k])]
    IN /\ notifications' = notifications \o new
       /\ created' = created \o [k \in DOMAIN channels |-> Len(notifications) + k]
       /\ messages' = messages \o [k \in DOMAIN channels |-> 0]
       /\ \/ inbox' = inbox \ {event} /\ UNCHANGED crashes
          \/ crashes < MaxCrashes /\ crashes' = crashes + 1 /\ UNCHANGED inbox
       /\ UNCHANGED <<preference, sending, lost>>

(* The time a notification is scheduled for comes.                         *)
Clock ==
  /\ \E n \in DOMAIN notifications :
       /\ notifications[n].timing = "later"
       /\ notifications' = [notifications EXCEPT ![n].timing = "due"]
  /\ UNCHANGED <<preference, inbox, created, sending, messages, lost, crashes>>

------------------------------------------------------------------------------
(* The aggregate: what becomes of a notification that was sent, or not.    *)
mark_sent(note) == [note EXCEPT !.status = "Sent"]

mark_failed(note) == [note EXCEPT !.status = "Failed", !.retry_count = @ + 1]

OnlyStatus == UNCHANGED <<preference, inbox, created, sending, messages, lost, crashes>>

CancelNotification ==
  /\ \E n \in DOMAIN notifications :
       /\ notifications[n].status = "Pending"
       /\ notifications' = [notifications EXCEPT ![n].status = "Cancelled"]
  /\ OnlyStatus

RetryNotification ==
  /\ \E n \in DOMAIN notifications :
       /\ notifications[n].status = "Failed"
       /\ notifications[n].retry_count < MaxRetries
       /\ notifications' = [notifications EXCEPT ![n].status = "Pending"]
  /\ OnlyStatus

------------------------------------------------------------------------------
(* Sending.  An attempt keeps the notification as it was loaded.           *)
Attempt(by, n) == [by |-> by, id |-> n, loaded |-> notifications[n], outcome |-> "None"]

Attempts(by) == {a \in sending : a.by = by}

(* _dispatch_via_channel: the adapter takes the message, or fails.         *)
Send ==
  /\ \E a \in sending, outcome \in {"Sent", "Failed"} :
       /\ a.outcome = "None"
       /\ sending' = (sending \ {a}) \cup {[a EXCEPT !.outcome = outcome]}
       /\ messages' = IF outcome = "Sent" THEN [messages EXCEPT ![a.id] = @ + 1] ELSE messages
  /\ UNCHANGED <<preference, notifications, inbox, created, lost, crashes>>

(* The end of the unit of work the attempts belong to: all saved, or none. *)
Unsaved(by) ==
  /\ sending' = sending \ Attempts(by)
  /\ lost' = lost \cup {a.id : a \in {b \in Attempts(by) : b.outcome = "Sent"}}
  /\ UNCHANGED notifications

Saved(by) ==
  /\ \A a \in Attempts(by) : notifications[a.id] = a.loaded
  /\ sending' = sending \ Attempts(by)
  /\ notifications' =
       [n \in DOMAIN notifications |->
          IF \E a \in Attempts(by) : a.id = n
          THEN IF \E a \in Attempts(by) : a.id = n /\ a.outcome = "Sent"
               THEN mark_sent(notifications[n]) ELSE mark_failed(notifications[n])
          ELSE notifications[n]]
  /\ UNCHANGED lost

Conflict(by) == \E a \in Attempts(by) : notifications[a.id] # a.loaded

Completed(by) == Attempts(by) # {} /\ \A a \in Attempts(by) : a.outcome # "None"

Skipped(n) == notifications[n].timing # "now" \/ notifications[n].status # "Pending"

(* NotificationDispatcher: skips scheduled notifications and those that    *)
(* are not Pending.                                                        *)
(* Mutant: sends again what was sent before.                               *)
on_notification_created_Resends ==
  /\ created # << >>
  /\ Attempts("dispatcher") = {}
  /\ LET n == Head(created) IN
     \/ /\ notifications[n].timing # "now" \/ notifications[n].status = "Cancelled"
        /\ created' = Tail(created)
        /\ UNCHANGED sending
     \/ /\ notifications[n].timing = "now" /\ notifications[n].status # "Cancelled"
        /\ sending' = sending \cup {Attempt("dispatcher", n)}
        /\ UNCHANGED created
  /\ UNCHANGED <<preference, notifications, inbox, messages, lost, crashes>>

on_notification_created ==
  /\ created # << >>
  /\ Attempts("dispatcher") = {}
  /\ \/ /\ Skipped(Head(created))
        /\ created' = Tail(created)
        /\ UNCHANGED sending
     \/ /\ ~Skipped(Head(created))
        /\ sending' = sending \cup {Attempt("dispatcher", Head(created))}
        /\ UNCHANGED created
  /\ UNCHANGED <<preference, notifications, inbox, messages, lost, crashes>>

(* A crash may come after the save and before the acknowledgement; a       *)
(* refused save is an error of the handler, which is given the event again.*)
DispatcherSaves ==
  /\ Completed("dispatcher")
  /\ \/ /\ Saved("dispatcher")
        /\ \/ created' = Tail(created) /\ UNCHANGED crashes
           \/ crashes < MaxCrashes /\ crashes' = crashes + 1 /\ UNCHANGED created
     \/ /\ Conflict("dispatcher")
        /\ Unsaved("dispatcher")
        /\ UNCHANGED <<created, crashes>>
  /\ UNCHANGED <<preference, inbox, messages>>

(* Mutant: what has failed before is left alone.                           *)
Due_FirstTime ==
  {n \in DOMAIN notifications :
     /\ notifications[n].timing = "due" /\ notifications[n].status = "Pending"
     /\ notifications[n].retry_count = 0}

(* ProcessScheduledNotifications: loads everything that is due, and saves  *)
(* everything it has sent in one unit of work.                             *)
Due == {n \in DOMAIN notifications :
          notifications[n].timing = "due" /\ notifications[n].status = "Pending"}

process_scheduled ==
  /\ Attempts("scheduler") = {}
  /\ Due # {}
  /\ sending' = sending \cup {Attempt("scheduler", n) : n \in Due}
  /\ UNCHANGED <<preference, notifications, inbox, created, messages, lost, crashes>>

SchedulerSaves ==
  /\ Completed("scheduler")
  /\ Saved("scheduler") \/ (Conflict("scheduler") /\ Unsaved("scheduler"))
  /\ UNCHANGED <<preference, inbox, created, messages, crashes>>

Crash ==
  /\ crashes < MaxCrashes
  /\ crashes' = crashes + 1
  /\ \E by \in {"dispatcher", "scheduler"} : Attempts(by) # {} /\ Unsaved(by)
  /\ UNCHANGED <<preference, inbox, created, messages>>

------------------------------------------------------------------------------
Init == /\ preference = NoPreference
        /\ notifications = << >>
        /\ inbox = Events
        /\ created = << >>
        /\ sending = {}
        /\ messages = << >>
        /\ lost = {}
        /\ crashes = 0

Preferences == \/ UpdateNotificationPreferences \/ QuietHours
               \/ UnsubscribeFromType \/ ResubscribeToType
               \/ on_customer_registered

Dispatch == on_notification_created \/ DispatcherSaves

Schedule == process_scheduled \/ SchedulerSaves

Next == \/ Preferences
        \/ HandleEvent
        \/ Clock
        \/ CancelNotification \/ RetryNotification
        \/ Dispatch \/ Schedule \/ Send \/ Crash

(* The engine's workers poll for ever, time passes, and a job calls        *)
(* /maintenance/process-scheduled every so often.  Nobody has to retry.    *)
Fairness == WF_vars(HandleEvent) /\ WF_vars(Dispatch) /\ WF_vars(Schedule) /\ WF_vars(Send)

Spec == Init /\ [][Next]_vars /\ Fairness

------------------------------------------------------------------------------
Status == {"Pending", "Sent", "Failed", "Cancelled"}

Types == {Reactions[e].type : e \in Events}

Notification == [type : Types, channel : Channels \cup {"Email", "Slack"},
                 timing : {"now", "later", "due"}, status : Status, retry_count : 0..MaxRetries]

TypeOK ==
  LET Ids == 1..Len(notifications) IN
  /\ preference \in [channels : SUBSET (Channels \cup {"Email"}),
                     unsubscribed : SUBSET CustomerTypes, exists : BOOLEAN]
  /\ notifications \in Seq(Notification)
  /\ inbox \subseteq Events
  /\ created \in Seq(Ids)
  /\ sending \subseteq [by : {"dispatcher", "scheduler"}, id : Ids, loaded : Notification,
                        outcome : {"None", "Sent", "Failed"}]
  /\ messages \in [Ids -> Nat] /\ lost \subseteq Ids /\ crashes \in 0..MaxCrashes

MessagesAccounted ==
  \A n \in DOMAIN notifications :
    LET underway == Cardinality({a \in sending : a.id = n /\ a.outcome = "Sent"})
        recorded == IF notifications[n].status = "Sent" THEN 1 ELSE 0
    IN IF n \in lost THEN messages[n] > recorded + underway - 1
       ELSE messages[n] = recorded + underway

RetryBudget ==
  \A n \in DOMAIN notifications :
    LET note == notifications[n] IN
    /\ note.status = "Failed" => note.retry_count \in 1..MaxRetries
    /\ note.status = "Pending" => note.retry_count < MaxRetries
    /\ note.timing = "now" => note.retry_count <= 1 + crashes
    /\ note.timing = "later" => note.retry_count = 0

(* The record agrees with what the customer got: a Sent notification was   *)
(* taken by its channel, once unless the save of an earlier message was    *)
(* lost; one that is not Sent was not taken, unless so, or its save is     *)
(* still to come.  And however failures, retries, conflicts and            *)
(* redeliveries alternate, no notification fails more often than           *)
(* max_retries allows, none waits for a further attempt beyond it, and an  *)
(* immediate one fails once, for only the scheduler sends what was         *)
(* retried: more takes an event given twice.                               *)
SendsAccounted == MessagesAccounted /\ RetryBudget

(* Every notification is acted on: at some point, and from then on, no     *)
(* event is unhandled, nothing is under way, no scheduled notification is  *)
(* overdue, retried or not, and no immediate one waits for its first       *)
(* dispatch.                                                               *)
Dispatched ==
  <>[](/\ inbox = {} /\ created = << >> /\ sending = {}
       /\ \A n \in DOMAIN notifications :
            notifications[n].status = "Pending" =>
              \/ notifications[n].timing = "later"
              \/ notifications[n].timing = "now" /\ notifications[n].retry_count > 0)

(* The operators hear of low stock, whatever the customer's preferences    *)
(* are: every alert ends in a message to Slack, or one that failed or was  *)
(* cancelled.                                                              *)
AlertsReachOperators ==
  "LowStockDetected" \in inbox ~>
    \E n \in DOMAIN notifications :
      notifications[n].channel = "Slack" /\ notifications[n].status # "Pending"
==============================================================================
