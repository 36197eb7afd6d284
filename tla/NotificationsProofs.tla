-------------------------- MODULE NotificationsProofs --------------------------
(***************************************************************************)
(* What is proved of Notifications for any events, channels, limits and    *)
(* number of crashes: records agree with the messages channels took,       *)
(* failures stay within the retry budget, and the projections follow.      *)
(***************************************************************************)
EXTENDS NotificationViews, SharedLemmas, SequenceTheorems

------------------------------------------------------------------------------
(* The types the arguments below need.                                     *)
AllChannels == {"Email", "Push", "Slack"}

Note == [type : {Reactions[e].type : e \in Events}, channel : AllChannels,
         timing : {Reactions[e].timing : e \in Events} \cup {"due"},
         status : Status, retry_count : Nat]

NoteIds == 1..Len(notifications)

Typed ==
  /\ notifications \in Seq(Note)
  /\ created \in Seq(NoteIds)
  /\ messages \in Seq(Nat) /\ Len(messages) = Len(notifications)
  /\ sending \subseteq [by : {"dispatcher", "scheduler"}, id : NoteIds, loaded : Note,
                        outcome : {"None", "Sent", "Failed"}]
  /\ lost \subseteq NoteIds
  /\ crashes \in Nat
  /\ inbox \subseteq Events

(* A notification is sent by one at a time: the dispatcher takes those     *)
(* without a schedule, the oldest event first, the scheduler the others.   *)
AttemptsApart ==
  /\ \A a, b \in sending : a.id = b.id => a = b
  /\ \A a \in sending :
       /\ a.loaded.status = "Pending"
       /\ notifications[a.id].timing = a.loaded.timing
       /\ a.by = "dispatcher" =>
            a.loaded.timing = "now" /\ created # << >> /\ a.id = Head(created)
       /\ a.by = "scheduler" => a.loaded.timing = "due"

(* What a notification's record and the attempt under way account for.     *)
Taken(n) == \E a \in sending : a.id = n /\ a.outcome = "Sent"

Owed(n) == (IF notifications[n].status = "Sent" THEN 1 ELSE 0) + (IF Taken(n) THEN 1 ELSE 0)

Accounted == \A n \in NoteIds : /\ messages[n] >= Owed(n)
                                /\ n \notin lost => messages[n] = Owed(n)

(* A notification is queued once, and what is queued has failed only in    *)
(* handlers that died.                                                     *)
Queued ==
  /\ \A i, j \in 1..Len(created) : created[i] = created[j] => i = j
  /\ \A i \in 1..Len(created) :
       notifications[created[i]].timing = "now" =>
         notifications[created[i]].retry_count <= crashes

SendsInv == Typed /\ AttemptsApart /\ Accounted /\ Queued /\ RetryBudget
Untouched == UNCHANGED <<notifications, created, messages, sending, lost, crashes>>

(* Nothing has been created at first.                                      *)
LEMMA InitKeeps == Init => SendsInv
<1> SUFFICES ASSUME Init PROVE SendsInv
  OBVIOUS
<1>1. /\ notifications = << >> /\ created = << >> /\ messages = << >> /\ NoteIds = {}
      /\ Len(created) = 0 /\ DOMAIN notifications = {}
  BY DEF Init, NoteIds
<1>2. Typed
  <2>1. /\ << >> \in Seq(Note) /\ << >> \in Seq(NoteIds) /\ << >> \in Seq(Nat)
    BY EmptySeq
  <2> QED  BY <1>1, <2>1 DEF Init, Typed
<1>3. AttemptsApart
  BY DEF Init, AttemptsApart
<1>4. Accounted /\ Queued /\ RetryBudget
  BY <1>1 DEF Accounted, Queued, RetryBudget
<1> QED  BY <1>2, <1>3, <1>4 DEF SendsInv

(* The types again, of one notification, message or attempt at a time.     *)
LEMMA Facts ==
  ASSUME Typed
  PROVE  /\ Len(notifications) \in Nat /\ DOMAIN notifications = NoteIds
         /\ \A n \in NoteIds : notifications[n] \in Note /\ messages[n] \in Nat
         /\ DOMAIN messages = NoteIds
         /\ Len(created) \in Nat
         /\ \A i \in 1..Len(created) : created[i] \in NoteIds
         /\ \A a \in sending : a.id \in NoteIds /\ a.loaded \in Note
         /\ crashes \in Nat /\ \A k \in NoteIds : k \in Nat
<1>1. /\ Len(notifications) \in Nat /\ DOMAIN notifications = NoteIds
      /\ \A n \in NoteIds : notifications[n] \in Note
  BY LenProperties, ElementOfSeq DEF Typed, NoteIds
<1>2. /\ DOMAIN messages = NoteIds /\ \A n \in NoteIds : messages[n] \in Nat
  BY LenProperties, ElementOfSeq DEF Typed, NoteIds
<1>3. Len(created) \in Nat /\ \A i \in 1..Len(created) : created[i] \in NoteIds
  BY LenProperties, ElementOfSeq DEF Typed
<1>4. /\ \A a \in sending : a.id \in NoteIds /\ a.loaded \in Note
      /\ crashes \in Nat /\ \A k \in NoteIds : k \in Nat
  BY <1>1 DEF Typed, NoteIds
<1> QED  BY <1>1, <1>2, <1>3, <1>4

(* A step that changes preferences alone, or no variable.                  *)
LEMMA UntouchedKeeps == ASSUME SendsInv, Untouched, inbox' \subseteq Events PROVE SendsInv'
  BY DEF SendsInv, Untouched, Typed, NoteIds, AttemptsApart, Accounted, Owed, Taken, Queued,
         RetryBudget

(* A step that rewrites one notification without counting a failure: its   *)
(* time comes, or it is cancelled or retried.                              *)
LEMMA RewriteKeeps ==
  ASSUME SendsInv, NEW n \in NoteIds, NEW note \in Note,
         notifications' = [notifications EXCEPT ![n] = note],
         UNCHANGED <<inbox, created, messages, sending, lost, crashes>>,
         note.retry_count = notifications[n].retry_count,
         \/ note.timing = notifications[n].timing
         \/ note.timing = "due" /\ notifications[n].timing = "later",
         note.status = "Sent" <=> notifications[n].status = "Sent",
         note.status = "Failed" => notifications[n].status = "Failed",
         note.status = "Pending" => \/ notifications[n].status = "Pending"
                                    \/ note.retry_count < MaxRetries
  PROVE  SendsInv'
<1>f. /\ Typed /\ DOMAIN notifications = NoteIds
      /\ \A a \in sending : a.id \in NoteIds
      /\ \A i \in 1..Len(created) : created[i] \in NoteIds
  BY Facts DEF SendsInv
<1>1. /\ notifications' \in Seq(Note) /\ Len(notifications') = Len(notifications)
      /\ \A j \in NoteIds : notifications'[j] = IF j = n THEN note ELSE notifications[j]
  BY <1>f, ExceptSeq DEF Typed, NoteIds
<1>2. NoteIds' = NoteIds /\ DOMAIN notifications' = NoteIds
  BY <1>1, LenProperties DEF NoteIds
<1>3. Typed'
  BY <1>1, <1>2, <1>f DEF Typed
<1>4. AttemptsApart'
  <2>1. \A a \in sending : /\ a.by \in {"dispatcher", "scheduler"} /\ a.id \in NoteIds
                           /\ notifications[a.id].timing # "later"
    BY DEF SendsInv, Typed, AttemptsApart
  <2>2. \A a \in sending : notifications'[a.id].timing = notifications[a.id].timing
    BY <1>1, <2>1
  <2> QED  BY <2>2 DEF SendsInv, AttemptsApart
<1>5. Accounted'
  <2>1. \A j \in NoteIds : Owed(j)' = Owed(j)
    BY <1>1 DEF Owed, Taken
  <2> QED  BY <1>2, <2>1 DEF SendsInv, Accounted
<1>6. Queued'
  BY <1>1, <1>f DEF SendsInv, Queued
<1>7. RetryBudget'
  BY <1>1, <1>2, <1>f DEF SendsInv, RetryBudget
<1> QED  BY <1>3, <1>4, <1>5, <1>6, <1>7 DEF SendsInv

(* What time, customers and staff do to one notification.                  *)
LEMMA StaffKeep ==
  ASSUME SendsInv, Clock \/ CancelNotification \/ RetryNotification
  PROVE  SendsInv'
<1>f. DOMAIN notifications = NoteIds /\ \A n \in NoteIds : notifications[n] \in Note
  BY Facts DEF SendsInv
<1>1. CASE Clock
  <2>1. PICK n \in NoteIds :
          /\ notifications[n].timing = "later"
          /\ notifications' = [notifications EXCEPT ![n].timing = "due"]
    BY <1>1, <1>f DEF Clock
  <2> DEFINE note == [notifications[n] EXCEPT !.timing = "due"]
  <2>2. /\ note \in Note /\ note.timing = "due"
        /\ note.status = notifications[n].status
        /\ note.retry_count = notifications[n].retry_count
    BY <1>f DEF Note
  <2>3. notifications' = [notifications EXCEPT ![n] = note]
    BY <2>1
  <2> HIDE DEF note
  <2>4. UNCHANGED <<inbox, created, messages, sending, lost, crashes>>
    BY <1>1 DEF Clock
  <2>5. /\ note.status = "Sent" <=> notifications[n].status = "Sent"
        /\ note.status = "Failed" => notifications[n].status = "Failed"
        /\ note.status = "Pending" => \/ notifications[n].status = "Pending"
                                     \/ note.retry_count < MaxRetries
    BY <2>2
  <2> QED  BY <2>1, <2>2, <2>3, <2>4, <2>5, RewriteKeeps
<1>2. CASE CancelNotification
  <2>1. PICK n \in NoteIds :
          /\ notifications[n].status = "Pending"
          /\ notifications' = [notifications EXCEPT ![n].status = "Cancelled"]
    BY <1>2, <1>f DEF CancelNotification
  <2> DEFINE note == [notifications[n] EXCEPT !.status = "Cancelled"]
  <2>2. /\ note \in Note /\ note.status = "Cancelled"
        /\ note.timing = notifications[n].timing
        /\ note.retry_count = notifications[n].retry_count
    BY <1>f DEF Note, Status
  <2>3. notifications' = [notifications EXCEPT ![n] = note]
    BY <2>1
  <2> HIDE DEF note
  <2> QED  BY <1>2, <2>1, <2>2, <2>3, RewriteKeeps DEF CancelNotification, OnlyStatus
<1>3. CASE RetryNotification
  <2>1. PICK n \in NoteIds :
          /\ notifications[n].status = "Failed"
          /\ notifications[n].retry_count < MaxRetries
          /\ notifications' = [notifications EXCEPT ![n].status = "Pending"]
    BY <1>3, <1>f DEF RetryNotification
  <2> DEFINE note == [notifications[n] EXCEPT !.status = "Pending"]
  <2>2. /\ note \in Note /\ note.status = "Pending"
        /\ note.timing = notifications[n].timing
        /\ note.retry_count = notifications[n].retry_count
    BY <1>f DEF Note, Status
  <2>3. notifications' = [notifications EXCEPT ![n] = note]
    BY <2>1
  <2> HIDE DEF note
  <2> QED  BY <1>3, <2>1, <2>2, <2>3, RewriteKeeps DEF RetryNotification, OnlyStatus
<1> QED  BY <1>1, <1>2, <1>3

(* The channel takes a message, or fails: of the one attempt that has not  *)
(* been made yet.                                                          *)
LEMMA SendKeeps == ASSUME SendsInv, Send PROVE SendsInv'
<1>f. /\ \A n \in NoteIds : messages[n] \in Nat
      /\ \A a \in sending : a.id \in NoteIds
      /\ Len(messages) = Len(notifications) /\ messages \in Seq(Nat)
  BY Facts DEF SendsInv, Typed
<1>1. PICK a \in sending, outcome \in {"Sent", "Failed"} :
        /\ a.outcome = "None"
        /\ sending' = (sending \ {a}) \cup {[a EXCEPT !.outcome = outcome]}
        /\ messages' = IF outcome = "Sent" THEN [messages EXCEPT ![a.id] = @ + 1] ELSE messages
  BY DEF Send
<1> DEFINE made == [a EXCEPT !.outcome = outcome]
           Attempted == [by : {"dispatcher", "scheduler"}, id : NoteIds, loaded : Note,
                         outcome : {"None", "Sent", "Failed"}]
<1>2. /\ made.id = a.id /\ made.by = a.by /\ made.loaded = a.loaded /\ made.outcome = outcome
      /\ made \in Attempted /\ a \in Attempted
  BY DEF SendsInv, Typed
<1>3. sending' = (sending \ {a}) \cup {made}
  BY <1>1
<1> HIDE DEF made
<1>4. UNCHANGED <<notifications, inbox, created, lost, crashes>> /\ NoteIds' = NoteIds
  BY DEF Send, NoteIds
<1>5. /\ messages' \in Seq(Nat) /\ Len(messages') = Len(messages)
      /\ \A n \in NoteIds : messages'[n] = IF n = a.id /\ outcome = "Sent"
                                           THEN messages[n] + 1 ELSE messages[n]
  <2>1. CASE outcome = "Sent"
    <3>1. a.id \in 1..Len(messages) /\ messages[a.id] + 1 \in Nat
      BY <1>f DEF NoteIds
    <3>2. messages' = [messages EXCEPT ![a.id] = messages[a.id] + 1]
      BY <1>1, <2>1
    <3> QED  BY <1>f, <2>1, <3>1, <3>2, ExceptSeq DEF NoteIds
  <2>2. CASE outcome = "Failed"
    BY <1>1, <1>f, <2>2
  <2> QED  BY <2>1, <2>2
<1>6. Typed'
  <2>1. sending' \subseteq Attempted
    BY <1>2, <1>3 DEF SendsInv, Typed
  <2> HIDE DEF Attempted
  <2> QED  BY <1>4, <1>5, <2>1, <1>f DEF SendsInv, Typed, Attempted
<1>7. AttemptsApart'
  BY <1>2, <1>3, <1>4 DEF SendsInv, AttemptsApart
<1>8. Accounted'
  <2>1. ~Taken(a.id) /\ (Taken(a.id)' <=> outcome = "Sent")
    BY <1>1, <1>2, <1>3 DEF SendsInv, AttemptsApart, Taken
  <2>2. \A n \in NoteIds : n # a.id => (Taken(n)' <=> Taken(n))
    BY <1>2, <1>3 DEF Taken
  <2>3. \A n \in NoteIds : Owed(n)' = IF n = a.id /\ outcome = "Sent" THEN Owed(n) + 1 ELSE Owed(n)
    BY <1>4, <2>1, <2>2 DEF Owed
  <2>4. \A n \in NoteIds : Owed(n) \in Nat
    BY DEF Owed
  <2>5. ASSUME NEW n \in NoteIds
        PROVE  /\ messages'[n] >= Owed(n)'
               /\ n \notin lost => messages'[n] = Owed(n)'
    <3>1. messages[n] \in Nat /\ messages[n] >= Owed(n) /\ (n \notin lost => messages[n] = Owed(n))
      BY <1>f DEF SendsInv, Accounted
    <3> QED  BY <1>5, <2>3, <2>4, <3>1
  <2> QED  BY <1>4, <2>5, Zenon DEF Accounted
<1>9. Queued' /\ RetryBudget'
  BY <1>4 DEF SendsInv, Queued, RetryBudget
<1> QED  BY <1>6, <1>7, <1>8, <1>9 DEF SendsInv

(* Attempts that begin, on Pending notifications nobody else attempts.     *)
LEMMA BegunKeeps ==
  ASSUME SendsInv, NEW by \in {"dispatcher", "scheduler"}, NEW S \in SUBSET NoteIds,
         sending' = sending \cup {Attempt(by, n) : n \in S},
         UNCHANGED <<notifications, inbox, created, messages, lost, crashes>>,
         \A n \in S : notifications[n].status = "Pending" /\ \A a \in sending : a.id # n,
         by = "dispatcher" => \A n \in S : /\ notifications[n].timing = "now"
                                           /\ created # << >> /\ n = Head(created),
         by = "scheduler" => \A n \in S : notifications[n].timing = "due"
  PROVE  SendsInv'
<1>f. \A n \in NoteIds : notifications[n] \in Note
  BY Facts DEF SendsInv
<1>1. NoteIds' = NoteIds
  BY DEF NoteIds
<1>2. \A n \in S : /\ Attempt(by, n).by = by /\ Attempt(by, n).id = n
                   /\ Attempt(by, n).loaded = notifications[n]
                   /\ Attempt(by, n).outcome = "None"
                   /\ Attempt(by, n) \in [by : {"dispatcher", "scheduler"}, id : NoteIds,
                                          loaded : Note, outcome : {"None", "Sent", "Failed"}]
  BY <1>f DEF Attempt
<1>3. Typed'
  BY <1>1, <1>2 DEF SendsInv, Typed
<1>4. AttemptsApart'
  <2>1. \A a, b \in sending' : a.id = b.id => a = b
    BY <1>2 DEF SendsInv, AttemptsApart
  <2>2. ASSUME NEW a \in sending'
        PROVE  /\ a.loaded.status = "Pending"
               /\ notifications[a.id].timing = a.loaded.timing
               /\ a.by = "dispatcher" =>
                    a.loaded.timing = "now" /\ created # << >> /\ a.id = Head(created)
               /\ a.by = "scheduler" => a.loaded.timing = "due"
    <3>1. CASE a \in sending
      BY <3>1 DEF SendsInv, AttemptsApart
    <3>2. CASE \E n \in S : a = Attempt(by, n)
      BY <1>2, <3>2
    <3> QED  BY <3>1, <3>2
  <2> QED  BY <2>1, <2>2 DEF AttemptsApart
<1>5. Accounted'
  <2>1. \A n : Taken(n)' <=> Taken(n)
    BY <1>2 DEF Taken
  <2> QED  BY <1>1, <2>1 DEF SendsInv, Accounted, Owed
<1>6. Queued' /\ RetryBudget'
  BY DEF SendsInv, Queued, RetryBudget
<1> QED  BY <1>3, <1>4, <1>5, <1>6 DEF SendsInv

(* The scheduler loads what is due, which the dispatcher never touches.    *)
LEMMA ScheduledKeeps == ASSUME SendsInv, process_scheduled PROVE SendsInv'
<1>1. /\ Due \subseteq NoteIds
      /\ \A n \in Due : notifications[n].status = "Pending" /\ notifications[n].timing = "due"
  BY Facts DEF Due, SendsInv
<1>2. ASSUME NEW n \in Due, NEW a \in sending PROVE a.id # n
  <2>1. a.by \in {"dispatcher", "scheduler"} /\ a.by # "scheduler"
    BY DEF process_scheduled, Attempts, SendsInv, Typed
  <2>2. a.by = "dispatcher" /\ notifications[a.id].timing = "now"
    BY <2>1 DEF SendsInv, AttemptsApart
  <2> QED  BY <1>1, <2>2
<1>3. \A n \in Due : notifications[n].status = "Pending" /\ \A a \in sending : a.id # n
  BY <1>1, <1>2
<1>4. /\ sending' = sending \cup {Attempt("scheduler", n) : n \in Due}
      /\ UNCHANGED <<notifications, inbox, created, messages, lost, crashes>>
  BY DEF process_scheduled
<1> QED  BY <1>1, <1>3, <1>4, BegunKeeps

(* The tail of the queue is about notifications that were in it.           *)
LEMMA Acknowledged ==
  ASSUME Typed, created # << >>, created' = Tail(created), UNCHANGED NoteIds
  PROVE  /\ created' \in Seq(NoteIds') /\ Len(created') = Len(created) - 1
         /\ \A i \in 1..Len(created') : i + 1 \in 1..Len(created) /\ created'[i] = created[i + 1]
         /\ Queued => \A i, j \in 1..Len(created') : created'[i] = created'[j] => i = j
<1>1. /\ Tail(created) \in Seq(NoteIds) /\ Len(Tail(created)) = Len(created) - 1
      /\ \A i \in 1..Len(Tail(created)) : Tail(created)[i] = created[i + 1]
  BY HeadTailProperties DEF Typed
<1>2. Len(created) \in Nat
  BY Facts
<1>3. /\ Len(created') = Len(created) - 1
      /\ \A i \in 1..Len(created') : i + 1 \in 1..Len(created) /\ created'[i] = created[i + 1]
  BY <1>1, <1>2
<1>4. ASSUME Queued, NEW i \in 1..Len(created'), NEW j \in 1..Len(created'),
             created'[i] = created'[j]
      PROVE  i = j
  <2>1. i + 1 = j + 1
    BY <1>3, <1>4, Zenon DEF Queued
  <2> QED  BY <2>1
<1> QED  BY <1>1, <1>3, <1>4

(* The dispatcher skips the oldest event, or begins an attempt.            *)
LEMMA CreatedKeeps == ASSUME SendsInv, on_notification_created PROVE SendsInv'
<1>f. /\ Len(created) \in Nat /\ \A i \in 1..Len(created) : created[i] \in NoteIds
      /\ created \in Seq(NoteIds)
  BY Facts DEF SendsInv, Typed
<1>1. /\ created # << >> /\ Attempts("dispatcher") = {}
      /\ UNCHANGED <<notifications, inbox, messages, lost, crashes>> /\ UNCHANGED NoteIds
  BY DEF on_notification_created, NoteIds
<1>2. Head(created) \in NoteIds
  BY <1>1, <1>f, HeadTailProperties
<1>3. \A a \in sending : a.by = "scheduler"
  BY <1>1 DEF Attempts, SendsInv, Typed
<1>4. CASE Skipped(Head(created)) /\ created' = Tail(created) /\ UNCHANGED sending
  <2>1. /\ created' \in Seq(NoteIds') /\ Len(created') = Len(created) - 1
        /\ \A i \in 1..Len(created') : i + 1 \in 1..Len(created) /\ created'[i] = created[i + 1]
        /\ \A i, j \in 1..Len(created') : created'[i] = created'[j] => i = j
    <3>1. Typed /\ Queued
      BY DEF SendsInv
    <3> QED  BY <1>1, <1>4, <3>1, Acknowledged
  <2>2. Typed'
    BY <1>1, <1>4, <2>1 DEF SendsInv, Typed
  <2>3. AttemptsApart'
    BY <1>1, <1>3, <1>4 DEF SendsInv, AttemptsApart
  <2>4. Accounted' /\ RetryBudget'
    BY <1>1, <1>4 DEF SendsInv, Accounted, Owed, Taken, RetryBudget
  <2>5. Queued'
    <3>1. \A i \in 1..Len(created') : notifications'[created'[i]].timing = "now" =>
            notifications'[created'[i]].retry_count <= crashes'
      BY <1>1, <2>1 DEF SendsInv, Queued
    <3> QED  BY <2>1, <3>1, Zenon DEF Queued
  <2> QED  BY <2>2, <2>3, <2>4, <2>5 DEF SendsInv
<1>5. CASE /\ ~Skipped(Head(created)) /\ UNCHANGED created
           /\ sending' = sending \cup {Attempt("dispatcher", Head(created))}
  <2> DEFINE S == {Head(created)}
  <2>1. sending' = sending \cup {Attempt("dispatcher", n) : n \in S}
    BY <1>5
  <2>2. \A n \in S : /\ n \in NoteIds /\ notifications[n].status = "Pending"
                     /\ notifications[n].timing = "now"
                     /\ created # << >> /\ n = Head(created)
    BY <1>1, <1>2, <1>5 DEF Skipped
  <2>3. \A n \in S : \A a \in sending : a.id # n
    BY <1>3, <2>2 DEF SendsInv, AttemptsApart
  <2>4. S \in SUBSET NoteIds
    BY <2>2
  <2> HIDE DEF S
  <2> QED  BY <1>1, <1>5, <2>1, <2>2, <2>3, <2>4, BegunKeeps
<1> QED  BY <1>4, <1>5 DEF on_notification_created

(* Attempts that end unsaved: their messages count as lost.                *)
LEMMA UnsavedKeeps ==
  ASSUME SendsInv, NEW by \in {"dispatcher", "scheduler"}, Unsaved(by),
         UNCHANGED <<inbox, created, messages>>, crashes' = crashes \/ crashes' = crashes + 1
  PROVE  SendsInv'
<1>f. /\ crashes \in Nat /\ \A n \in NoteIds : messages[n] \in Nat
      /\ \A n \in NoteIds : notifications[n] \in Note
      /\ DOMAIN notifications = NoteIds /\ \A i \in 1..Len(created) : created[i] \in NoteIds
      /\ \A a \in sending : a.id \in NoteIds
  BY Facts DEF SendsInv
<1>1. /\ UNCHANGED <<notifications, inbox, created, messages>> /\ NoteIds' = NoteIds
      /\ sending' \subseteq sending
      /\ lost \subseteq lost'
      /\ \A a \in sending \ sending' : a.outcome = "Sent" => a.id \in lost'
      /\ lost' \subseteq NoteIds
  BY <1>f DEF Unsaved, Attempts, NoteIds, SendsInv, Typed
<1>2. Typed'
  BY <1>1, <1>f DEF SendsInv, Typed
<1>3. AttemptsApart'
  BY <1>1 DEF SendsInv, AttemptsApart
<1>4. Accounted'
  <2>1. ASSUME NEW n \in NoteIds
        PROVE  /\ Taken(n)' => Taken(n)
               /\ n \notin lost' => (Taken(n) => Taken(n)')
    BY <1>1 DEF Taken
  <2>2. ASSUME NEW n \in NoteIds
        PROVE  /\ Owed(n)' <= Owed(n) /\ Owed(n)' \in Nat /\ Owed(n) \in Nat
               /\ n \notin lost' => Owed(n)' = Owed(n)
    BY <1>1, <2>1 DEF Owed
  <2>3. ASSUME NEW n \in NoteIds
        PROVE  messages[n] >= Owed(n)' /\ (n \notin lost' => messages[n] = Owed(n)')
    <3>1. messages[n] >= Owed(n) /\ (n \notin lost => messages[n] = Owed(n))
      BY DEF SendsInv, Accounted
    <3> QED  BY <1>1, <1>f, <2>2, <3>1
  <2> QED  BY <1>1, <2>3 DEF Accounted
<1>5. Queued' /\ RetryBudget'
  <2>1. crashes' \in Nat /\ crashes <= crashes'
    BY <1>f
  <2>2. \A n \in NoteIds : notifications[n].retry_count \in Nat
    BY <1>f DEF Note
  <2>3. Queued'
    BY <1>1, <1>f, <2>1, <2>2 DEF SendsInv, Queued
  <2>4. RetryBudget'
    BY <1>1, <1>f, <2>1, <2>2 DEF SendsInv, RetryBudget
  <2> QED  BY <2>3, <2>4
<1> QED  BY <1>2, <1>3, <1>4, <1>5 DEF SendsInv

(* What an attempt's end makes of a record.                                *)
LEMMA Marks ==
  ASSUME NEW note \in Note
  PROVE  /\ mark_sent(note) \in Note /\ mark_failed(note) \in Note
         /\ mark_sent(note).timing = note.timing /\ mark_failed(note).timing = note.timing
         /\ mark_sent(note).status = "Sent" /\ mark_sent(note).retry_count = note.retry_count
         /\ mark_failed(note).status = "Failed"
         /\ mark_failed(note).retry_count = note.retry_count + 1
<1> DEFINE sent == [note EXCEPT !.status = "Sent"]
           failed == [note EXCEPT !.status = "Failed", !.retry_count = note.retry_count + 1]
<1>1. note.retry_count \in Nat /\ note.retry_count + 1 \in Nat
  BY DEF Note
<1>2. /\ sent \in Note /\ sent.timing = note.timing /\ sent.status = "Sent"
      /\ sent.retry_count = note.retry_count
  BY DEF Note, Status
<1>3. /\ failed \in Note /\ failed.timing = note.timing /\ failed.status = "Failed"
      /\ failed.retry_count = note.retry_count + 1
  BY <1>1 DEF Note, Status
<1>4. mark_sent(note) = sent /\ mark_failed(note) = failed
  BY DEF mark_sent, mark_failed
<1> QED  BY <1>2, <1>3, <1>4

(* Attempts that are saved: each record takes over from its attempt, and   *)
(* counts its failure.                                                     *)
LEMMA SavedKeeps ==
  ASSUME SendsInv, NEW by \in {"dispatcher", "scheduler"}, Completed(by), Saved(by),
         UNCHANGED <<inbox, messages>>,
         \/ by = "scheduler" /\ UNCHANGED <<created, crashes>>
         \/ by = "dispatcher" /\ created' = Tail(created) /\ UNCHANGED crashes
         \/ by = "dispatcher" /\ UNCHANGED created /\ crashes' = crashes + 1
  PROVE  SendsInv'
<1> DEFINE Ended(n) == \E a \in Attempts(by) : a.id = n
           EndedSent(n) == \E a \in Attempts(by) : a.id = n /\ a.outcome = "Sent"
<1>f. /\ crashes \in Nat /\ Len(created) \in Nat /\ Len(notifications) \in Nat
      /\ \A n \in NoteIds : messages[n] \in Nat /\ notifications[n] \in Note
      /\ DOMAIN notifications = NoteIds /\ \A i \in 1..Len(created) : created[i] \in NoteIds
      /\ created \in Seq(NoteIds)
      /\ \A a \in sending : a.id \in NoteIds
      /\ \A a \in sending : a.by \in {"dispatcher", "scheduler"}
  BY Facts DEF SendsInv, Typed
<1>1. /\ notifications' = [n \in NoteIds |->
             IF Ended(n)
             THEN IF EndedSent(n) THEN mark_sent(notifications[n]) ELSE mark_failed(notifications[n])
             ELSE notifications[n]]
      /\ sending' = sending \ Attempts(by)
      /\ UNCHANGED <<inbox, messages, lost>>
  BY <1>f DEF Saved
<1>2. /\ \A a \in Attempts(by) : /\ a \in sending /\ a.by = by /\ a.outcome # "None"
                                 /\ notifications[a.id] = a.loaded
      /\ \A a \in sending : a \notin Attempts(by) => a.by # by
  BY DEF Saved, Completed, Attempts
<1>3. \A n \in NoteIds : Ended(n) => /\ notifications[n].status = "Pending"
                                     /\ notifications[n].timing \in {"now", "due"}
                                     /\ by = "scheduler" => notifications[n].timing = "due"
                                     /\ by = "dispatcher" => n = Head(created)
  BY <1>2 DEF SendsInv, AttemptsApart
<1>4. by = "dispatcher" => created # << >>
  BY <1>2 DEF SendsInv, AttemptsApart, Completed
<1>5. ASSUME NEW n \in NoteIds
      PROVE  /\ notifications'[n] \in Note /\ notifications'[n].timing = notifications[n].timing
             /\ ~Ended(n) => notifications'[n] = notifications[n]
             /\ EndedSent(n) => /\ notifications'[n].status = "Sent"
                                /\ notifications'[n].retry_count = notifications[n].retry_count
             /\ Ended(n) /\ ~EndedSent(n) =>
                  /\ notifications'[n].status = "Failed"
                  /\ notifications'[n].retry_count = notifications[n].retry_count + 1
  <2>1. notifications[n] \in Note
    BY <1>f
  <2>2. EndedSent(n) => Ended(n)
    OBVIOUS
  <2>3. CASE ~Ended(n)
    BY <1>1, <2>1, <2>2, <2>3
  <2>4. CASE EndedSent(n)
    <3> HIDE DEF Ended, EndedSent
    <3>1. notifications'[n] = mark_sent(notifications[n])
      BY <1>1, <2>2, <2>4
    <3> QED  BY <2>1, <2>2, <2>4, <3>1, Marks
  <2>5. CASE Ended(n) /\ ~EndedSent(n)
    <3> HIDE DEF Ended, EndedSent
    <3>1. notifications'[n] = mark_failed(notifications[n])
      BY <1>1, <2>5
    <3> QED  BY <2>1, <2>5, <3>1, Marks
  <2> QED  BY <2>3, <2>4, <2>5
<1>6. /\ notifications' \in Seq(Note) /\ Len(notifications') = Len(notifications)
      /\ NoteIds' = NoteIds /\ DOMAIN notifications' = NoteIds
  <2>1. notifications' \in [1..Len(notifications) -> Note]
    BY <1>1, <1>5 DEF NoteIds
  <2>2. notifications' \in Seq(Note) /\ Len(notifications') = Len(notifications)
    <3>1. Len(notifications) \in Nat
      BY <1>f
    <3> QED  BY <2>1, <3>1
  <2> QED  BY <2>2, <1>1 DEF NoteIds
<1>7. crashes \in Nat /\ crashes' \in Nat /\ crashes <= crashes'
  <2>1. crashes \in Nat /\ (crashes' = crashes \/ crashes' = crashes + 1)
    BY <1>f, Zenon
  <2> QED  BY <2>1
<1>8. /\ created' \in Seq(NoteIds')
      /\ \/ created' = created /\ (by = "scheduler" \/ crashes' = crashes + 1)
         \/ /\ by = "dispatcher" /\ Len(created') = Len(created) - 1
            /\ \A i \in 1..Len(created') : i + 1 \in 1..Len(created) /\ created'[i] = created[i + 1]
      /\ \A i, j \in 1..Len(created') : created'[i] = created'[j] => i = j
  <2>1. CASE by = "dispatcher" /\ created' = Tail(created)
    <3>1. /\ created' \in Seq(NoteIds') /\ Len(created') = Len(created) - 1
          /\ \A i \in 1..Len(created') : i + 1 \in 1..Len(created) /\ created'[i] = created[i + 1]
          /\ \A i, j \in 1..Len(created') : created'[i] = created'[j] => i = j
      BY <1>4, <1>6, <2>1, Acknowledged, Zenon DEF SendsInv
    <3> QED  BY <2>1, <3>1, Zenon
  <2>2. CASE created' = created /\ (by = "scheduler" \/ crashes' = crashes + 1)
    <3>1. \A i, j \in 1..Len(created) : created[i] = created[j] => i = j
      BY DEF SendsInv, Queued
    <3> QED  BY <1>6, <1>f, <2>2, <3>1, Zenon
  <2> QED  BY <2>1, <2>2
<1> HIDE DEF Ended, EndedSent
<1>9. Typed'
  <2>1. sending' \subseteq [by : {"dispatcher", "scheduler"}, id : NoteIds', loaded : Note,
                            outcome : {"None", "Sent", "Failed"}]
    BY <1>1, <1>6 DEF SendsInv, Typed
  <2>2. lost' \subseteq NoteIds' /\ inbox' \subseteq Events
        /\ messages' \in Seq(Nat) /\ Len(messages') = Len(notifications')
    BY <1>1, <1>6 DEF SendsInv, Typed
  <2> QED  BY <1>6, <1>7, <1>8, <2>1, <2>2 DEF Typed
<1>10. AttemptsApart'
  <2>1. ASSUME NEW a \in sending'
        PROVE  a \in sending /\ a.by # by /\ ~Ended(a.id)
    BY <1>1, <1>2 DEF SendsInv, AttemptsApart, Ended
  <2>2. \A a \in sending' : notifications'[a.id].timing = notifications[a.id].timing
    BY <1>5, <1>f, <2>1
  <2>3. \A a \in sending' : a.by = "dispatcher" => created' = created
    BY <2>1
  <2> QED  BY <2>1, <2>2, <2>3 DEF SendsInv, AttemptsApart
<1>11. Accounted'
  <2>1. ASSUME NEW n \in NoteIds, ~Ended(n) PROVE Taken(n)' <=> Taken(n)
    BY <1>1, <2>1 DEF Taken, Ended
  <2>2. ASSUME NEW n \in NoteIds, Ended(n) PROVE ~Taken(n)' /\ (Taken(n) <=> EndedSent(n))
    BY <1>1, <1>2, <2>2 DEF SendsInv, AttemptsApart, Taken, Ended, EndedSent
  <2>3. ASSUME NEW n \in NoteIds PROVE Owed(n)' = Owed(n)
    <3>1. CASE ~Ended(n)
      BY <1>5, <2>1, <3>1 DEF Owed
    <3>2. CASE Ended(n) /\ EndedSent(n)
      BY <1>3, <1>5, <2>2, <3>2 DEF Owed
    <3>3. CASE Ended(n) /\ ~EndedSent(n)
      BY <1>3, <1>5, <2>2, <3>3 DEF Owed
    <3> QED  BY <3>1, <3>2, <3>3
  <2> QED  BY <1>1, <1>6, <2>3, Zenon DEF SendsInv, Accounted
<1>12. ASSUME NEW n \in NoteIds
       PROVE  /\ notifications[n].retry_count \in Nat
              /\ notifications'[n].timing = notifications[n].timing
              /\ notifications'[n].retry_count \in Nat
              /\ notifications'[n].retry_count <= notifications[n].retry_count + 1
              /\ ~Ended(n) => notifications'[n].retry_count = notifications[n].retry_count
  <2>1. notifications[n].retry_count \in Nat
    BY <1>f DEF Note
  <2>2. \/ notifications'[n].retry_count = notifications[n].retry_count
        \/ Ended(n) /\ notifications'[n].retry_count = notifications[n].retry_count + 1
    BY <1>5, Zenon
  <2> QED  BY <1>5, <2>1, <2>2
<1>13. Queued'
  <2>1. \A i, j \in 1..Len(created') : created'[i] = created'[j] => i = j
    BY <1>8, Zenon
  <2>2. ASSUME NEW i \in 1..Len(created'), notifications'[created'[i]].timing = "now"
        PROVE  notifications'[created'[i]].retry_count <= crashes'
    <3> DEFINE n == created'[i]
    <3>1. PICK k \in 1..Len(created) :
            /\ n = created[k]
            /\ \/ by = "scheduler" \/ crashes' = crashes + 1
               \/ by = "dispatcher" /\ k # 1
      <4>1. CASE created' = created /\ (by = "scheduler" \/ crashes' = crashes + 1)
        BY <4>1
      <4>2. CASE /\ by = "dispatcher"
                 /\ \A j \in 1..Len(created') : j + 1 \in 1..Len(created)
                                                /\ created'[j] = created[j + 1]
        <5>1. i + 1 \in 1..Len(created) /\ n = created[i + 1] /\ i + 1 # 1
          BY <4>2
        <5> QED  BY <4>2, <5>1
      <4> QED  BY <1>8, <4>1, <4>2
    <3> HIDE DEF n
    <3>2. n \in NoteIds /\ notifications[n].timing = "now" /\ notifications[n].retry_count <= crashes
      BY <1>12, <1>f, <2>2, <3>1 DEF SendsInv, Queued, n
    <3>3. ASSUME crashes' = crashes + 1 PROVE notifications'[n].retry_count <= crashes'
      <4>1. /\ notifications[n].retry_count \in Nat /\ notifications'[n].retry_count \in Nat
            /\ notifications'[n].retry_count <= notifications[n].retry_count + 1
        BY <1>12, <3>2
      <4> QED  BY <1>7, <3>2, <3>3, <4>1
    <3>4. ASSUME by = "scheduler" \/ k # 1 PROVE notifications'[n].retry_count <= crashes'
      <4>1. k # 1 => created[k] # Head(created)
        <5>1. created # << >> => Head(created) = created[1] /\ 1 \in 1..Len(created)
          BY <1>f, HeadTailProperties
        <5>2. created # << >>
          BY <1>f, <3>1
        <5> QED  BY <3>1, <5>1, <5>2 DEF SendsInv, Queued
      <4>2. ~Ended(n)
        BY <1>3, <3>1, <3>2, <3>4, <4>1
      <4>3. /\ notifications[n].retry_count \in Nat
            /\ notifications'[n].retry_count = notifications[n].retry_count
        BY <1>12, <3>2, <4>2
      <4> QED  BY <1>7, <3>2, <4>3
    <3> QED  BY <3>1, <3>3, <3>4 DEF n
  <2> QED  BY <2>1, <2>2 DEF Queued
<1>14. RetryBudget'
  <2>1. ASSUME NEW n \in NoteIds
        PROVE  LET note == notifications'[n] IN
               /\ note.status = "Failed" => note.retry_count \in 1..MaxRetries
               /\ note.status = "Pending" => note.retry_count < MaxRetries
               /\ note.timing = "now" => note.retry_count <= 1 + crashes'
               /\ note.timing = "later" => note.retry_count = 0
    <3>0. /\ notifications[n].status = "Failed" => notifications[n].retry_count \in 1..MaxRetries
          /\ notifications[n].status = "Pending" => notifications[n].retry_count < MaxRetries
          /\ notifications[n].timing = "now" => notifications[n].retry_count <= 1 + crashes
          /\ notifications[n].timing = "later" => notifications[n].retry_count = 0
      BY <1>f DEF SendsInv, RetryBudget
    <3>1. CASE ~Ended(n)
      <4>1. notifications'[n] = notifications[n]
        BY <1>5, <3>1
      <4> QED  BY <1>7, <1>12, <1>f, <3>0, <4>1
    <3>2. CASE Ended(n)
      <4>1. /\ notifications[n].status = "Pending"
            /\ notifications'[n].timing \in {"now", "due"}
            /\ notifications'[n].status \in {"Sent", "Failed"}
            /\ notifications'[n].status = "Failed" =>
                 notifications'[n].retry_count = notifications[n].retry_count + 1
        BY <1>3, <1>5, <3>2
      <4>2. notifications'[n].timing = "now" => notifications[n].retry_count <= crashes
        <5>1. CASE notifications[n].timing = "now"
          <6>1. by = "dispatcher" /\ n = Head(created)
            BY <1>3, <3>2, <5>1
          <6>2. 1 \in 1..Len(created) /\ n = created[1]
            BY <1>4, <1>f, <6>1, HeadTailProperties
          <6> QED  BY <5>1, <6>2 DEF SendsInv, Queued
        <5> QED  BY <1>12, <5>1
      <4>3. notifications'[n].status = "Failed" => notifications'[n].retry_count \in 1..MaxRetries
        BY <1>12, <3>0, <4>1, NotificationsAssumption
      <4>4. notifications'[n].timing = "now" => notifications'[n].retry_count <= 1 + crashes'
        BY <1>7, <1>12, <4>2
      <4> QED  BY <4>1, <4>3, <4>4
    <3> QED  BY <3>1, <3>2
  <2> QED  BY <1>6, <2>1 DEF RetryBudget
<1> QED  BY <1>9, <1>10, <1>11, <1>13, <1>14 DEF SendsInv

(* Every unit of work ends saved or unsaved.                               *)
LEMMA EndKeeps ==
  ASSUME SendsInv, DispatcherSaves \/ SchedulerSaves \/ Crash
  PROVE  SendsInv'
<1>1. CASE DispatcherSaves
  <2>1. CASE /\ Saved("dispatcher")
             /\ \/ created' = Tail(created) /\ UNCHANGED crashes
                \/ crashes' = crashes + 1 /\ UNCHANGED created
    <3>1. Completed("dispatcher") /\ UNCHANGED <<inbox, messages>>
      BY <1>1 DEF DispatcherSaves
    <3> QED  BY <2>1, <3>1, SavedKeeps, Zenon
  <2>2. CASE Unsaved("dispatcher") /\ UNCHANGED <<created, crashes>>
    BY <1>1, <2>2, UnsavedKeeps DEF DispatcherSaves
  <2> QED  BY <1>1, <2>1, <2>2 DEF DispatcherSaves
<1>2. CASE SchedulerSaves
  <2>1. CASE Saved("scheduler")
    BY <1>2, <2>1, SavedKeeps DEF SchedulerSaves
  <2>2. CASE Unsaved("scheduler")
    BY <1>2, <2>2, UnsavedKeeps DEF SchedulerSaves
  <2> QED  BY <1>2, <2>1, <2>2 DEF SchedulerSaves
<1>3. CASE Crash
  BY <1>3, UnsavedKeeps DEF Crash
<1> QED  BY <1>1, <1>2, <1>3

(* The channels of an event, in some order.                                *)
LEMMA ChannelSeq ==
  ASSUME NEW event
  PROVE  SetToSeq(ChannelsFor(event)) \in Seq(AllChannels)
<1> DEFINE S == ChannelsFor(event)
<1>1. S \subseteq AllChannels
  BY DEF ChannelsFor, DefaultChannels, AllChannels
<1>2. IsFiniteSet(AllChannels)
  <2>1. AllChannels = ({"Email"} \cup {"Push"}) \cup {"Slack"}
    BY DEF AllChannels
  <2>2. IsFiniteSet({"Email"} \cup {"Push"})
    BY FS_AddElement, FS_Singleton
  <2> QED  BY <2>1, <2>2, FS_AddElement
<1> HIDE DEF S
<1>3. Cardinality(S) \in Nat /\ ExistsBijection(1..Cardinality(S), S)
  BY <1>1, <1>2, FS_Subset, FS_CardinalityType
<1>4. \E f \in [1..Cardinality(S) -> S] : IsInjective(f)
  BY <1>3 DEF ExistsBijection, Bijection, Injection
<1>5. SetToSeq(S) \in [1..Cardinality(S) -> S]
  BY <1>4 DEF SetToSeq
<1>6. SetToSeq(S) \in [1..Cardinality(S) -> AllChannels]
  BY <1>1, <1>5
<1> QED  BY <1>3, <1>6 DEF S

(* What is created has no attempt, no message, and is queued once.         *)
LEMMA HandleKeeps == ASSUME SendsInv, HandleEvent PROVE SendsInv'
<1>f. /\ Len(notifications) \in Nat /\ Len(created) \in Nat /\ crashes \in Nat
      /\ DOMAIN notifications = NoteIds /\ notifications \in Seq(Note)
      /\ messages \in Seq(Nat) /\ Len(messages) = Len(notifications)
      /\ created \in Seq(NoteIds)
      /\ \A i \in 1..Len(created) : created[i] \in NoteIds
      /\ \A n \in NoteIds : n \in Nat /\ messages[n] \in Nat
      /\ \A a \in sending : a.id \in NoteIds
  BY Facts DEF SendsInv, Typed
<1>n. /\ Len(notifications) \in Nat /\ Len(created) \in Nat
      /\ Len(messages) = Len(notifications)
  BY <1>f
<1>1. PICK event \in Events :
        LET channels == SetToSeq(ChannelsFor(event))
            new == [k \in DOMAIN channels |-> NewNotification(event, channels[k])]
        IN /\ notifications' = notifications \o new
           /\ created' = created \o [k \in DOMAIN channels |-> Len(notifications) + k]
           /\ messages' = messages \o [k \in DOMAIN channels |-> 0]
  BY DEF HandleEvent, SendsInv, Typed
<1>2. /\ inbox' \subseteq Events /\ crashes' \in Nat /\ crashes <= crashes'
      /\ UNCHANGED <<sending, lost>>
  BY <1>f DEF HandleEvent, SendsInv, Typed
<1> DEFINE channels == SetToSeq(ChannelsFor(event))
           L == Len(channels)
           new == [k \in 1..L |-> NewNotification(event, channels[k])]
           ids == [k \in 1..L |-> Len(notifications) + k]
           none == [k \in 1..L |-> 0]
           More == 1..(Len(notifications) + L)
<1>3. L \in Nat /\ DOMAIN channels = 1..L /\ \A k \in 1..L : channels[k] \in AllChannels
  BY ChannelSeq, LenProperties, ElementOfSeq
<1>4. /\ notifications' = notifications \o new
      /\ created' = created \o ids
      /\ messages' = messages \o none
  BY <1>1, <1>3, Zenon
<1> HIDE DEF channels, L
<1>5. /\ new \in Seq(Note) /\ Len(new) = L
      /\ \A k \in 1..L : new[k].status = "Pending" /\ new[k].retry_count = 0
  <2>1. ASSUME NEW k \in 1..L PROVE NewNotification(event, channels[k]) \in Note
    <3>1. /\ Reactions[event].type \in {Reactions[e].type : e \in Events}
          /\ Reactions[event].timing \in {Reactions[e].timing : e \in Events}
      OBVIOUS
    <3> QED  BY <1>3, <3>1 DEF NewNotification, Note, Status
  <2>2. new \in [1..L -> Note]
    BY <2>1
  <2>3. \A k \in 1..L : new[k].status = "Pending" /\ new[k].retry_count = 0
    BY DEF NewNotification
  <2> QED  BY <1>3, <2>2, <2>3, LenProperties
<1>6. ids \in Seq(More) /\ Len(ids) = L /\ \A k \in 1..L : ids[k] = Len(notifications) + k
  <2>1. ids \in [1..L -> More]
    BY <1>3, <1>f
  <2> QED  BY <1>3, <2>1, LenProperties
<1>7. none \in Seq(Nat) /\ Len(none) = L /\ \A k \in 1..L : none[k] = 0
  <2>1. none \in [1..L -> Nat]
    OBVIOUS
  <2> QED  BY <1>3, <2>1, LenProperties
<1> HIDE DEF new, ids, none, More
<1>8. /\ notifications' \in Seq(Note) /\ Len(notifications') = Len(notifications) + L
      /\ NoteIds' = More /\ NoteIds \subseteq More
      /\ \A n \in NoteIds : notifications'[n] = notifications[n]
      /\ \A n \in More : n \in NoteIds \/ (notifications'[n].status = "Pending"
                                           /\ notifications'[n].retry_count = 0)
  <2>1. /\ notifications \o new \in Seq(Note)
        /\ Len(notifications \o new) = Len(notifications) + L
        /\ \A i \in 1..(Len(notifications) + L) : (notifications \o new)[i] =
             IF i <= Len(notifications) THEN notifications[i] ELSE new[i - Len(notifications)]
    BY <1>5, <1>f, ConcatProperties
  <2>2. NoteIds' = More
    BY <1>4, <2>1 DEF More, NoteIds
  <2>3. \A n \in NoteIds : n \in More /\ n <= Len(notifications)
    BY <1>3, <1>n DEF More, NoteIds
  <2>4. ASSUME NEW n \in More, n \notin NoteIds
        PROVE  n - Len(notifications) \in 1..L /\ ~(n <= Len(notifications))
    BY <1>3, <1>n, <2>4 DEF More, NoteIds
  <2> QED  BY <1>4, <1>5, <2>1, <2>2, <2>3, <2>4 DEF More
<1>9. /\ messages' \in Seq(Nat) /\ Len(messages') = Len(messages) + L
      /\ \A n \in NoteIds : messages'[n] = messages[n]
      /\ \A n \in More : n \in NoteIds \/ messages'[n] = 0
  <2>1. /\ messages \o none \in Seq(Nat)
        /\ Len(messages \o none) = Len(messages) + L
        /\ \A i \in 1..(Len(messages) + L) : (messages \o none)[i] =
             IF i <= Len(messages) THEN messages[i] ELSE none[i - Len(messages)]
    <3>1. messages \in Seq(Nat)
      BY <1>f
    <3> QED  BY <1>7, <3>1, ConcatProperties
  <2>3. \A n \in NoteIds : n \in More /\ n <= Len(notifications)
    BY <1>3, <1>n DEF More, NoteIds
  <2>4. ASSUME NEW n \in More, n \notin NoteIds
        PROVE  n - Len(notifications) \in 1..L /\ ~(n <= Len(notifications))
    BY <1>3, <1>n, <2>4 DEF More, NoteIds
  <2> QED  BY <1>4, <1>7, <1>n, <2>1, <2>3, <2>4 DEF More
<1>10. /\ created' \in Seq(NoteIds') /\ Len(created') = Len(created) + L
       /\ \A i \in 1..Len(created) : created'[i] = created[i]
       /\ \A i \in 1..Len(created') :
            \/ i \in 1..Len(created)
            \/ created'[i] = Len(notifications) + (i - Len(created))
               /\ created'[i] \in More /\ created'[i] \notin NoteIds
  <2>1. created \in Seq(More)
    <3>1. created \in [1..Len(created) -> NoteIds]
      BY <1>f, LenProperties
    <3>2. created \in [1..Len(created) -> More]
      BY <1>8, <3>1
    <3> HIDE DEF More
    <3> QED  BY <1>n, <3>2
  <2>2. /\ created \o ids \in Seq(More)
        /\ Len(created \o ids) = Len(created) + L
        /\ \A i \in 1..(Len(created) + L) : (created \o ids)[i] =
             IF i <= Len(created) THEN created[i] ELSE ids[i - Len(created)]
    BY <1>6, <2>1, ConcatProperties
  <2>3. ASSUME NEW i \in 1..(Len(created) + L), i \notin 1..Len(created)
        PROVE  i - Len(created) \in 1..L /\ ~(i <= Len(created))
    BY <1>3, <1>n, <2>3
  <2>4. \A k \in 1..L : Len(notifications) + k \in More /\ Len(notifications) + k \notin NoteIds
    BY <1>3, <1>n DEF More, NoteIds
  <2>5. \A i \in 1..Len(created) : i \in 1..(Len(created) + L) /\ i <= Len(created)
    BY <1>3, <1>n
  <2> QED  BY <1>4, <1>6, <1>8, <2>2, <2>3, <2>4, <2>5
<1>11. Typed'
  <2>1. sending' \subseteq [by : {"dispatcher", "scheduler"}, id : NoteIds', loaded : Note,
                            outcome : {"None", "Sent", "Failed"}]
    BY <1>2, <1>8 DEF SendsInv, Typed
  <2>2. lost' \subseteq NoteIds'
    BY <1>2, <1>8 DEF SendsInv, Typed
  <2> QED  BY <1>2, <1>8, <1>9, <1>10, <1>f, <2>1, <2>2 DEF Typed
<1>12. AttemptsApart'
  <2>1. created # << >> => created' # << >> /\ Head(created') = Head(created)
    <3>1. CASE created # << >>
      <4>1. Head(created) = created[1] /\ 1 \in 1..Len(created)
        BY <1>f, <3>1, HeadTailProperties
      <4>2. created' # << >>
        BY <1>3, <1>10, <1>f, <4>1
      <4>3. Head(created') = created'[1]
        BY <1>10, <4>2, HeadTailProperties
      <4> QED  BY <1>10, <4>1, <4>2, <4>3
    <3> QED  BY <3>1
  <2> QED  BY <1>2, <1>8, <1>f, <2>1 DEF SendsInv, AttemptsApart
<1>13. Accounted'
  <2>1. \A n \in More : n \in NoteIds \/ ~Taken(n)'
    BY <1>2, <1>f DEF Taken
  <2>2. \A n \in NoteIds : Owed(n)' = Owed(n)
    BY <1>2, <1>8 DEF Owed, Taken
  <2>3. \A n \in More : n \in NoteIds \/ Owed(n)' = 0
    BY <1>8, <2>1 DEF Owed
  <2>4. ASSUME NEW n \in More
        PROVE  /\ messages'[n] >= Owed(n)'
               /\ n \notin lost' => messages'[n] = Owed(n)'
    <3>1. CASE n \in NoteIds
      <4>1. messages[n] >= Owed(n) /\ (n \notin lost => messages[n] = Owed(n))
        BY <3>1 DEF SendsInv, Accounted
      <4>2. messages'[n] = messages[n] /\ Owed(n)' = Owed(n) /\ lost' = lost
        BY <1>2, <1>9, <2>2, <3>1
      <4> QED  BY <4>1, <4>2
    <3>2. CASE n \notin NoteIds
      BY <1>9, <2>3, <3>2
    <3> QED  BY <3>1, <3>2
  <2> QED  BY <1>8, <2>4, Zenon DEF Accounted
<1>14. Queued'
  <2>1. ASSUME NEW i \in 1..Len(created'), NEW j \in 1..Len(created'), created'[i] = created'[j]
        PROVE  i = j
    <3>1. CASE i \in 1..Len(created) /\ j \in 1..Len(created)
      BY <1>10, <2>1, <3>1 DEF SendsInv, Queued
    <3>2. CASE i \notin 1..Len(created) /\ j \notin 1..Len(created)
      <4>1. Len(notifications) + (i - Len(created)) = Len(notifications) + (j - Len(created))
        BY <1>10, <2>1, <3>2
      <4> QED  BY <1>f, <4>1
    <3>3. (i \in 1..Len(created)) <=> (j \in 1..Len(created))
      BY <1>10, <1>f, <2>1
    <3> QED  BY <3>1, <3>2, <3>3
  <2>2. ASSUME NEW i \in 1..Len(created'), notifications'[created'[i]].timing = "now"
        PROVE  notifications'[created'[i]].retry_count <= crashes'
    <3>1. CASE i \in 1..Len(created)
      <4>1. created'[i] = created[i] /\ created[i] \in NoteIds
        BY <1>10, <1>f, <3>1
      <4>2. notifications'[created'[i]] = notifications[created[i]]
        BY <1>8, <4>1
      <4>3. notifications[created[i]].retry_count \in Nat
        BY <4>1, Facts DEF SendsInv, Note
      <4>4. notifications[created[i]].retry_count <= crashes
        BY <2>2, <3>1, <4>2 DEF SendsInv, Queued
      <4>5. crashes \in Nat
        BY <1>f
      <4> QED  BY <1>2, <4>2, <4>3, <4>4, <4>5
    <3>2. CASE i \notin 1..Len(created)
      <4>1. notifications'[created'[i]].retry_count = 0
        BY <1>8, <1>10, <3>2
      <4> QED  BY <1>2, <4>1
    <3> QED  BY <3>1, <3>2
  <2> QED  BY <2>1, <2>2 DEF Queued
<1>15. RetryBudget'
  <2>1. \A n \in NoteIds : notifications[n].retry_count \in Nat
    BY Facts DEF SendsInv, Note
  <2>2. DOMAIN notifications' = More
    BY <1>8, LenProperties DEF More
  <2>3. ASSUME NEW n \in NoteIds
        PROVE  LET note == notifications'[n] IN
               /\ note.status = "Failed" => note.retry_count \in 1..MaxRetries
               /\ note.status = "Pending" => note.retry_count < MaxRetries
               /\ note.timing = "now" => note.retry_count <= 1 + crashes'
               /\ note.timing = "later" => note.retry_count = 0
    <3>1. notifications'[n] = notifications[n]
      BY <1>8
    <3>2. notifications[n].timing = "now" => notifications[n].retry_count <= 1 + crashes
      BY <1>f DEF SendsInv, RetryBudget
    <3>3. notifications[n].timing = "now" => notifications[n].retry_count <= 1 + crashes'
      BY <1>2, <1>f, <2>1, <3>2
    <3> QED  BY <1>f, <3>1, <3>3 DEF SendsInv, RetryBudget
  <2>4. \A n \in More : n \in NoteIds \/
               /\ notifications'[n].status = "Pending"
               /\ notifications'[n].retry_count < MaxRetries
               /\ notifications'[n].retry_count <= 1 + crashes'
               /\ notifications'[n].retry_count = 0
    BY <1>2, <1>8, NotificationsAssumption
  <2> QED  BY <2>2, <2>3, <2>4 DEF RetryBudget
<1> QED  BY <1>11, <1>12, <1>13, <1>14, <1>15 DEF SendsInv

(* Every step keeps the invariant.                                         *)
LEMMA StepKeeps == ASSUME SendsInv, [Next]_vars PROVE SendsInv'
<1>1. CASE Preferences
  <2>1. Untouched /\ UNCHANGED inbox
    BY <1>1 DEF Preferences, UpdateNotificationPreferences, QuietHours, UnsubscribeFromType,
                ResubscribeToType, on_customer_registered, OnlyPreference, Untouched
  <2> QED  BY <2>1, UntouchedKeeps DEF SendsInv, Typed
<1>2. CASE UNCHANGED vars
  <2>1. Untouched /\ UNCHANGED inbox
    BY <1>2 DEF vars, Untouched
  <2> QED  BY <2>1, UntouchedKeeps DEF SendsInv, Typed
<1>3. CASE Dispatch \/ Schedule \/ Send \/ Crash
  BY <1>3, CreatedKeeps, ScheduledKeeps, EndKeeps, SendKeeps, Zenon DEF Dispatch, Schedule
<1> QED  BY <1>1, <1>2, <1>3, HandleKeeps, StaffKeep, Zenon DEF Next

(* What the records and the attempts account for is what was sent.         *)
LEMMA RecordsAgree == ASSUME SendsInv PROVE SendsAccounted
<1>f. DOMAIN notifications = NoteIds /\ \A n \in NoteIds : messages[n] \in Nat
  BY Facts DEF SendsInv
<1>1. ASSUME NEW n \in NoteIds
      PROVE  Cardinality({a \in sending : a.id = n /\ a.outcome = "Sent"}) =
               IF Taken(n) THEN 1 ELSE 0
  <2> DEFINE underway == {a \in sending : a.id = n /\ a.outcome = "Sent"}
  <2>1. CASE Taken(n)
    <3>1. PICK a \in sending : a.id = n /\ a.outcome = "Sent"
      BY <2>1 DEF Taken
    <3>2. underway = {a}
      BY <3>1 DEF SendsInv, AttemptsApart
    <3> QED  BY <2>1, <3>2, FS_Singleton
  <2>2. CASE ~Taken(n)
    <3>1. underway = {}
      BY <2>2 DEF Taken
    <3> QED  BY <2>2, <3>1, FS_EmptySet
  <2> QED  BY <2>1, <2>2
<1>2. ASSUME NEW n \in NoteIds
      PROVE  LET underway == Cardinality({a \in sending : a.id = n /\ a.outcome = "Sent"})
                 recorded == IF notifications[n].status = "Sent" THEN 1 ELSE 0
             IN IF n \in lost THEN messages[n] > recorded + underway - 1
                ELSE messages[n] = recorded + underway
  <2>1. messages[n] \in Nat /\ messages[n] >= Owed(n) /\ (n \notin lost => messages[n] = Owed(n))
    BY <1>f DEF SendsInv, Accounted
  <2> QED  BY <1>1, <2>1 DEF Owed
<1>3. MessagesAccounted
  BY <1>2, <1>f DEF MessagesAccounted
<1> QED  BY <1>3 DEF SendsInv, SendsAccounted

(* What the records say was sent is what channels took, but for messages   *)
(* whose save was lost, and failures stay within the retry budget: for any *)
(* number of notifications, channels, crashes and retries.                 *)
THEOREM SendsAlwaysAccounted == Spec => []SendsAccounted
<1>1. Init => SendsInv
  BY InitKeeps
<1>2. SendsInv /\ [Next]_vars => SendsInv'
  BY StepKeeps
<1>3. SendsInv => SendsAccounted
  BY RecordsAgree
<1> QED  BY <1>1, <1>2, <1>3, PTL DEF Spec
------------------------------------------------------------------------------
(* What a step makes of a notification a: b.                               *)
NoteMoves(a, b) ==
  /\ b.type = a.type /\ b.channel = a.channel
  /\ \/ b.status = a.status /\ b.retry_count = a.retry_count
     \/ a.status = "Pending" /\ b.status \in {"Sent", "Cancelled"} /\ b.retry_count = a.retry_count
     \/ a.status = "Pending" /\ b.status = "Failed" /\ b.retry_count = a.retry_count + 1
     \/ a.status = "Failed" /\ b.status = "Pending" /\ b.retry_count = a.retry_count

NotesMove ==
  /\ Len(notifications) \in Nat /\ Len(notifications') \in Nat
  /\ NoteIds \subseteq NoteIds'
  /\ \A n \in NoteIds : NoteMoves(notifications[n], notifications'[n])
  /\ \A n \in NoteIds' \ NoteIds : /\ notifications'[n].status = "Pending"
                                   /\ notifications'[n].retry_count = 0

LEMMA SameNotes == ASSUME SendsInv, UNCHANGED notifications PROVE NotesMove
  BY Facts DEF SendsInv, NotesMove, NoteMoves, NoteIds

LEMMA HandleMoves == ASSUME SendsInv, HandleEvent PROVE NotesMove
<1>1. Len(notifications) \in Nat /\ notifications \in Seq(Note)
  BY Facts DEF SendsInv, Typed
<1>2. PICK event \in Events :
        LET channels == SetToSeq(ChannelsFor(event))
            new == [k \in DOMAIN channels |-> NewNotification(event, channels[k])]
        IN notifications' = notifications \o new
  BY DEF HandleEvent, SendsInv, Typed
<1> DEFINE channels == SetToSeq(ChannelsFor(event))
           L == Len(channels)
           new == [k \in 1..L |-> NewNotification(event, channels[k])]
<1>3. L \in Nat /\ DOMAIN channels = 1..L /\ \A k \in 1..L : channels[k] \in AllChannels
  BY ChannelSeq, LenProperties, ElementOfSeq
<1>4. notifications' = notifications \o new
  BY <1>2, <1>3, Zenon
<1> HIDE DEF channels, L
<1>5. /\ new \in Seq(Note) /\ Len(new) = L
      /\ \A k \in 1..L : new[k].status = "Pending" /\ new[k].retry_count = 0
  <2>1. ASSUME NEW k \in 1..L PROVE NewNotification(event, channels[k]) \in Note
    <3>1. /\ Reactions[event].type \in {Reactions[e].type : e \in Events}
          /\ Reactions[event].timing \in {Reactions[e].timing : e \in Events}
      OBVIOUS
    <3> QED  BY <1>3, <3>1 DEF NewNotification, Note, Status
  <2>2. new \in [1..L -> Note]
    BY <2>1
  <2>3. \A k \in 1..L : new[k].status = "Pending" /\ new[k].retry_count = 0
    BY DEF NewNotification
  <2> QED  BY <1>3, <2>2, <2>3, LenProperties
<1> HIDE DEF new
<1>6. /\ Len(notifications') = Len(notifications) + L
      /\ \A n \in 1..(Len(notifications) + L) :
           notifications'[n] = IF n <= Len(notifications) THEN notifications[n]
                               ELSE new[n - Len(notifications)]
  BY <1>1, <1>4, <1>5, ConcatProperties
<1>7. ASSUME NEW n \in NoteIds PROVE n \in NoteIds' /\ notifications'[n] = notifications[n]
  BY <1>1, <1>3, <1>6 DEF NoteIds
<1>8. ASSUME NEW n \in NoteIds', n \notin NoteIds
      PROVE  notifications'[n].status = "Pending" /\ notifications'[n].retry_count = 0
  <2>1. n \in 1..(Len(notifications) + L) /\ ~(n <= Len(notifications))
        /\ n - Len(notifications) \in 1..L
    BY <1>1, <1>3, <1>6, <1>8 DEF NoteIds
  <2> QED  BY <1>5, <1>6, <2>1
<1>9. Len(notifications') \in Nat
  BY <1>1, <1>3, <1>6
<1> QED  BY <1>1, <1>7, <1>8, <1>9, Zenon DEF NotesMove, NoteMoves

(* Time, customers and staff rewrite one notification.                     *)
LEMMA StaffMoves ==
  ASSUME SendsInv, Clock \/ CancelNotification \/ RetryNotification
  PROVE  NotesMove
<1>1. /\ DOMAIN notifications = NoteIds /\ \A n \in NoteIds : notifications[n] \in Note
      /\ Len(notifications) \in Nat /\ notifications \in Seq(Note)
  BY Facts DEF SendsInv, Typed
<1>2. PICK n \in NoteIds :
        \/ notifications' = [notifications EXCEPT ![n].timing = "due"]
        \/ /\ notifications[n].status = "Pending"
           /\ notifications' = [notifications EXCEPT ![n].status = "Cancelled"]
        \/ /\ notifications[n].status = "Failed"
           /\ notifications' = [notifications EXCEPT ![n].status = "Pending"]
  BY <1>1 DEF Clock, CancelNotification, RetryNotification
<1> DEFINE note == notifications'[n]
<1>a. \A m \in NoteIds : m # n => notifications'[m] = notifications[m]
  BY <1>1, <1>2
<1>b. \/ note = [notifications[n] EXCEPT !.timing = "due"]
      \/ /\ notifications[n].status = "Pending"
         /\ note = [notifications[n] EXCEPT !.status = "Cancelled"]
      \/ /\ notifications[n].status = "Failed"
         /\ note = [notifications[n] EXCEPT !.status = "Pending"]
  BY <1>1, <1>2
<1>3. Len(notifications') = Len(notifications)
  BY <1>1, <1>2
<1>4. NoteIds' = NoteIds
  BY <1>3 DEF NoteIds
<1>5. ASSUME NEW m \in NoteIds PROVE NoteMoves(notifications[m], notifications'[m])
  <2>1. NoteMoves(notifications[n], note)
    <3>1. PICK a \in Note : a = notifications[n]
      BY <1>1
    <3>2. /\ note.type = a.type /\ note.channel = a.channel /\ note.retry_count = a.retry_count
          /\ \/ note.status = a.status
             \/ a.status = "Pending" /\ note.status = "Cancelled"
             \/ a.status = "Failed" /\ note.status = "Pending"
      BY <1>b, <3>1 DEF Note
    <3> QED  BY <3>1, <3>2 DEF NoteMoves
  <2> QED  BY <1>a, <2>1 DEF NoteMoves
<1> QED  BY <1>1, <1>3, <1>4, <1>5, Zenon DEF NotesMove

(* What is saved was Pending when it was loaded, and nobody has changed it.*)
LEMMA SavedMoves ==
  ASSUME SendsInv, NEW by \in {"dispatcher", "scheduler"}, Saved(by)
  PROVE  NotesMove
<1>1. /\ DOMAIN notifications = NoteIds /\ \A n \in NoteIds : notifications[n] \in Note
      /\ Len(notifications) \in Nat
  BY Facts DEF SendsInv
<1>2. notifications' =
        [n \in NoteIds |->
           IF \E a \in Attempts(by) : a.id = n
           THEN IF \E a \in Attempts(by) : a.id = n /\ a.outcome = "Sent"
                THEN mark_sent(notifications[n]) ELSE mark_failed(notifications[n])
           ELSE notifications[n]]
  BY <1>1 DEF Saved
<1>3. Len(notifications') = Len(notifications)
  <2>1. \A n \in NoteIds :
          mark_sent(notifications[n]) \in Note /\ mark_failed(notifications[n]) \in Note
    BY <1>1, Marks
  <2>2. notifications' \in [NoteIds -> Note]
    BY <1>1, <1>2, <2>1
  <2> QED  BY <1>1, <2>2, LenProperties DEF NoteIds
<1>4. NoteIds' = NoteIds
  BY <1>3 DEF NoteIds
<1>5. ASSUME NEW n \in NoteIds PROVE NoteMoves(notifications[n], notifications'[n])
  <2>1. CASE \E a \in Attempts(by) : a.id = n
    <3>1. notifications[n].status = "Pending"
      BY <2>1 DEF Saved, Attempts, SendsInv, AttemptsApart
    <3>2. notifications'[n] \in {mark_sent(notifications[n]), mark_failed(notifications[n])}
      BY <1>2, <2>1
    <3>3. notifications[n] \in Note
      BY <1>1
    <3> QED  BY <3>1, <3>2, <3>3 DEF NoteMoves, mark_sent, mark_failed, Note
  <2>2. CASE ~ \E a \in Attempts(by) : a.id = n
    <3>1. notifications'[n] = notifications[n]
      BY <1>2, <2>2
    <3> QED  BY <3>1 DEF NoteMoves
  <2> QED  BY <2>1, <2>2
<1> QED  BY <1>1, <1>3, <1>4, <1>5, Zenon DEF NotesMove

LEMMA StepMoves == ASSUME SendsInv, Next PROVE NotesMove
<1>1. CASE Preferences \/ on_notification_created \/ process_scheduled \/ Send
  <2>1. UNCHANGED notifications
    BY <1>1 DEF Preferences, UpdateNotificationPreferences, QuietHours, UnsubscribeFromType,
         ResubscribeToType, on_customer_registered, OnlyPreference, on_notification_created,
         process_scheduled, Send
  <2> QED  BY <2>1, SameNotes
<1>2. CASE DispatcherSaves \/ SchedulerSaves \/ Crash
  <2>1. \/ UNCHANGED notifications
        \/ \E by \in {"dispatcher", "scheduler"} : Saved(by)
    BY <1>2, Zenon DEF DispatcherSaves, SchedulerSaves, Crash, Unsaved
  <2> QED  BY <2>1, SameNotes, SavedMoves, Zenon
<1> QED  BY <1>1, <1>2, HandleMoves, StaffMoves, Zenon DEF Next, Dispatch, Schedule
------------------------------------------------------------------------------
(* The events of a step, in the order of the notifications.                *)
NotificationEventType == {"NotificationCreated", "NotificationSent", "NotificationFailed",
                          "NotificationCancelled", "NotificationRetried"}

NotificationEvent ==
  [type : NotificationEventType, id : Nat, channel : AllChannels,
   notification_type : {Reactions[e].type : e \in Events}, retry_count : Nat]

RaisedInOrder(m) ==
  /\ m \in Nat /\ Changed \subseteq Nat
  /\ NotificationsRaised \in Seq(NotificationEvent) /\ Len(NotificationsRaised) = m
  /\ \A k \in 1..m : /\ Nth(Changed, k) \in Changed
                     /\ NotificationsRaised[k] = RaisedBy(Nth(Changed, k))
  /\ \A k, j \in 1..m : k < j => Nth(Changed, k) < Nth(Changed, j)
  /\ \A n \in Changed : \E k \in 1..m : Nth(Changed, k) = n

LEMMA RaisedIsTyped ==
  ASSUME SendsInv', Len(notifications) \in Nat
  PROVE  /\ Len(notifications') \in Nat /\ DOMAIN notifications' = NoteIds'
         /\ \A n \in NoteIds' : /\ notifications'[n] \in Note /\ n \in Nat
                                /\ RaisedBy(n) \in NotificationEvent /\ RaisedBy(n).id = n
                                /\ RaisedBy(n).notification_type = notifications'[n].type
                                /\ RaisedBy(n).channel = notifications'[n].channel
                                /\ RaisedBy(n).retry_count = notifications'[n].retry_count
                                /\ RaisedBy(n).type = IF n > Len(notifications)
                                                      THEN "NotificationCreated"
                                                      ELSE EventOf[notifications'[n].status]
<1>1. notifications' \in Seq(Note)
  BY DEF SendsInv, Typed
<1>2. /\ Len(notifications') \in Nat /\ DOMAIN notifications' = NoteIds'
      /\ \A n \in NoteIds' : notifications'[n] \in Note /\ n \in Nat
  BY <1>1, LenProperties, ElementOfSeq DEF NoteIds
<1>3. ASSUME NEW n \in NoteIds'
      PROVE  /\ RaisedBy(n) \in NotificationEvent /\ RaisedBy(n).id = n
             /\ RaisedBy(n).notification_type = notifications'[n].type
             /\ RaisedBy(n).channel = notifications'[n].channel
             /\ RaisedBy(n).retry_count = notifications'[n].retry_count
             /\ RaisedBy(n).type = IF n > Len(notifications) THEN "NotificationCreated"
                                   ELSE EventOf[notifications'[n].status]
  <2>1. PICK b \in Note : b = notifications'[n]
    BY <1>2
  <2>2. PICK t : t = IF n > Len(notifications) THEN "NotificationCreated" ELSE EventOf[b.status]
    OBVIOUS
  <2>3. t \in NotificationEventType
    BY <2>1, <2>2 DEF NotificationEventType, EventOf, Note, Status
  <2>4. RaisedBy(n) = [type |-> t, id |-> n, channel |-> b.channel,
                       notification_type |-> b.type, retry_count |-> b.retry_count]
    BY <2>1, <2>2 DEF RaisedBy
  <2>5. /\ b.channel \in AllChannels /\ b.type \in {Reactions[e].type : e \in Events}
        /\ b.retry_count \in Nat /\ n \in Nat
    BY <1>2, <2>1 DEF Note
  <2> QED  BY <2>1, <2>2, <2>3, <2>4, <2>5 DEF NotificationEvent
<1> QED  BY <1>2, <1>3

LEMMA RaisedOrder ==
  ASSUME SendsInv', Len(notifications) \in Nat
  PROVE  RaisedInOrder(Cardinality(Changed))
<1>1. /\ Len(notifications') \in Nat /\ DOMAIN notifications' = NoteIds'
      /\ \A n \in NoteIds' : RaisedBy(n) \in NotificationEvent
  BY RaisedIsTyped
<1> DEFINE list == [n \in DOMAIN notifications' |-> RaisedBy(n)]
<1>2. list \in [1..Len(notifications') -> NotificationEvent]
  BY <1>1 DEF NoteIds
<1>3. list \in Seq(NotificationEvent) /\ Len(list) = Len(notifications')
  BY <1>1, <1>2, LenProperties
<1>4. Changed \subseteq 1..Len(list) /\ \A n \in Changed : list[n] = RaisedBy(n)
  BY <1>1, <1>3 DEF Changed, NoteIds
<1>5. NotificationsRaised = Keeping(list, Changed)
  BY DEF NotificationsRaised
<1> HIDE DEF list
<1>6. PICK kept, l : kept = Changed /\ l = list
  OBVIOUS
<1>7. l \in Seq(NotificationEvent) /\ kept \in SUBSET (1..Len(l))
  BY <1>3, <1>4, <1>6
<1> DEFINE m == Cardinality(kept)
<1>8. /\ m \in Nat /\ Keeping(l, kept) \in Seq(NotificationEvent) /\ Len(Keeping(l, kept)) = m
      /\ \A k \in 1..m : Nth(kept, k) \in kept /\ Keeping(l, kept)[k] = l[Nth(kept, k)]
  BY <1>7, KeepingKeeps
<1>a. /\ \A k, j \in 1..m : k < j => Nth(kept, k) < Nth(kept, j)
      /\ \A k \in kept : \E j \in 1..m : Nth(kept, j) = k
  <2>1. kept \in SUBSET Nat /\ IsFiniteSet(kept)
    <3>1. kept \in SUBSET Nat /\ IsFiniteSet(1..Len(l))
      BY <1>7, FS_Interval
    <3> QED  BY <1>7, <3>1, FS_Subset
  <2> QED  BY <2>1, NthInOrder
<1>9. Changed \subseteq Nat
  BY <1>3, <1>4
<1> QED  BY <1>4, <1>5, <1>6, <1>8, <1>a, <1>9 DEF RaisedInOrder

(* What is told of one notification, by the one event it may have raised.  *)
LEMMA LeadsRaised ==
  ASSUME NEW Steps, NEW n, NEW x, NEW y, NEW m, RaisedInOrder(m),
         n \in Changed => <<x, RaisedBy(n), y>> \in Steps,
         n \notin Changed => y = x,
         \A i \in Changed : i # n => <<x, RaisedBy(i), x>> \in Steps /\ <<y, RaisedBy(i), y>> \in Steps
  PROVE  Leads(Steps, x, NotificationsRaised, y)
<1> DEFINE Before(k) == \E j \in 1..k : Nth(Changed, j) = n
           rows == [k \in 0..m |-> IF Before(k) THEN y ELSE x]
<1>1. /\ m \in Nat /\ Len(NotificationsRaised) = m
      /\ \A k \in 1..m : /\ Nth(Changed, k) \in Changed
                         /\ NotificationsRaised[k] = RaisedBy(Nth(Changed, k))
      /\ \A k, j \in 1..m : k < j => Nth(Changed, k) < Nth(Changed, j)
      /\ \A i \in Changed : \E k \in 1..m : Nth(Changed, k) = i
  BY DEF RaisedInOrder
<1>i. \A i \in Changed : i \in Int
  BY DEF RaisedInOrder
<1>2. ~Before(0)
  OBVIOUS
<1>3. Before(m) <=> n \in Changed
  BY <1>1
<1>4. ASSUME NEW k \in 1..m
      PROVE  /\ k \in 0..m /\ k - 1 \in 0..m
             /\ Nth(Changed, k) = n => Before(k) /\ ~Before(k - 1)
             /\ Nth(Changed, k) # n => (Before(k) <=> Before(k - 1))
  <2>1. k \in 0..m /\ k - 1 \in 0..m /\ 1..k = (1..(k - 1)) \cup {k}
    BY <1>1
  <2>2. ASSUME NEW j \in 1..(k - 1) PROVE Nth(Changed, j) # Nth(Changed, k)
    <3>1. j \in 1..m /\ j < k
      BY <1>1, <2>2
    <3>2. Nth(Changed, j) < Nth(Changed, k)
      BY <1>1, <3>1
    <3>3. Nth(Changed, j) \in Int /\ Nth(Changed, k) \in Int
      BY <1>1, <1>i, <3>1
    <3> QED  BY <3>2, <3>3
  <2>3. Before(k) <=> Before(k - 1) \/ Nth(Changed, k) = n
    BY <2>1
  <2>4. Nth(Changed, k) = n => ~Before(k - 1)
    BY <2>2
  <2> QED  BY <2>1, <2>3, <2>4
<1> HIDE DEF Before
<1>5. rows[0] = x /\ rows[m] = y
  BY <1>1, <1>2, <1>3
<1>6. ASSUME NEW k \in 1..m
      PROVE  <<rows[k - 1], NotificationsRaised[k], rows[k]>> \in Steps
  <2>1. /\ rows[k] = IF Before(k) THEN y ELSE x
        /\ rows[k - 1] = IF Before(k - 1) THEN y ELSE x
    BY <1>4
  <2> HIDE DEF rows
  <2>2. NotificationsRaised[k] = RaisedBy(Nth(Changed, k)) /\ Nth(Changed, k) \in Changed
    BY <1>1
  <2>3. CASE Nth(Changed, k) = n
    BY <1>4, <2>1, <2>2, <2>3
  <2>4. CASE Nth(Changed, k) # n
    BY <1>4, <2>1, <2>2, <2>4
  <2> QED  BY <2>3, <2>4
<1> HIDE DEF rows
<1> QED  BY <1>1, <1>5, <1>6, Zenon DEF Leads
------------------------------------------------------------------------------
(* The projections that have a row per notification: what the row shows of *)
(* a notification, what it shows after an event, and what it is to show.   *)
NoteViews == {"notification_log", "customer_notifications", "failed_notifications"}

NoEntry == [status |-> "None", retry_count |-> 0]

NoteEntry == [status : Status \cup {"None"}, retry_count : Nat]

NoteRows(v) ==
  CASE v = "notification_log" -> [status : Status, retry_count : Nat]
    [] v = "customer_notifications" -> Status
    [] v = "failed_notifications" -> Nat

EntryOf(v, x) ==
  CASE v = "notification_log" -> x
    [] v = "customer_notifications" -> [status |-> x, retry_count |-> 0]
    [] v = "failed_notifications" -> [status |-> "Failed", retry_count |-> x]

EntryShown(v, r, n) == IF n \in DOMAIN r THEN EntryOf(v, r[n]) ELSE NoEntry

StatusAfter(t) == CASE t \in {"NotificationCreated", "NotificationRetried"} -> "Pending"
                    [] t = "NotificationSent" -> "Sent"
                    [] t = "NotificationFailed" -> "Failed"
                    [] t = "NotificationCancelled" -> "Cancelled"

LogRead(x, e) ==
  IF e.type = "NotificationCreated"
     \/ (x.status # "None" /\ e.type \in {"NotificationFailed", "NotificationRetried"})
  THEN [status |-> StatusAfter(e.type), retry_count |-> e.retry_count]
  ELSE IF x.status # "None" THEN [status |-> StatusAfter(e.type), retry_count |-> x.retry_count]
  ELSE x

CustomerRead(x, e) ==
  IF \/ e.type = "NotificationCreated" /\ ~Internal(e)
     \/ e.type \in {"NotificationSent", "NotificationFailed"} /\ x.status # "None"
  THEN [status |-> StatusAfter(e.type), retry_count |-> 0] ELSE x

FailedRead(x, e) ==
  IF e.type = "NotificationFailed" THEN [status |-> "Failed", retry_count |-> e.retry_count]
  ELSE IF e.type \in {"NotificationRetried", "NotificationSent"} THEN NoEntry ELSE x

EntryRead(v, x, e) ==
  CASE v = "notification_log" -> LogRead(x, e)
    [] v = "customer_notifications" -> CustomerRead(x, e)
    [] v = "failed_notifications" -> FailedRead(x, e)

EntrySteps(v, n) ==
  {t \in NoteEntry \X NotificationEvent \X NoteEntry :
     t[3] = IF t[2].id = n THEN EntryRead(v, t[1], t[2]) ELSE t[1]}

EntryTold(v, a) ==
  CASE v = "notification_log" -> [status |-> a.status, retry_count |-> a.retry_count]
    [] v = "customer_notifications" ->
         IF a.type = "LowStockAlert" THEN NoEntry ELSE [status |-> ShownAs(a), retry_count |-> 0]
    [] v = "failed_notifications" ->
         IF a.status = "Failed" THEN [status |-> "Failed", retry_count |-> a.retry_count]
         ELSE NoEntry

NoteTold(v, n) == IF n \in NoteIds THEN EntryTold(v, notifications[n]) ELSE NoEntry

LEMMA EntryReadTyped ==
  ASSUME NEW v \in NoteViews, NEW x \in NoteEntry, NEW e \in NotificationEvent
  PROVE  EntryRead(v, x, e) \in NoteEntry
<1>1. PICK t \in NotificationEventType : t = e.type
  BY DEF NotificationEvent
<1>2. PICK c \in Nat : c = e.retry_count
  BY DEF NotificationEvent
<1>3. StatusAfter(t) \in Status /\ NoEntry \in NoteEntry
  BY <1>1 DEF StatusAfter, NotificationEventType, Status, NoEntry, NoteEntry
<1>4. LogRead(x, e) \in NoteEntry
  BY <1>1, <1>2, <1>3 DEF LogRead, NoteEntry
<1>5. CustomerRead(x, e) \in NoteEntry
  BY <1>1, <1>3 DEF CustomerRead, NoteEntry
<1>6. FailedRead(x, e) \in NoteEntry
  BY <1>1, <1>2, <1>3 DEF FailedRead, NoteEntry, Status
<1> QED  BY <1>4, <1>5, <1>6 DEF EntryRead, NoteViews

(* An event that is handled again changes nothing more.                    *)
LEMMA EntryReadAgain ==
  ASSUME NEW v \in NoteViews, NEW x \in NoteEntry, NEW e \in NotificationEvent
  PROVE  EntryRead(v, EntryRead(v, x, e), e) = EntryRead(v, x, e)
<1>1. PICK t \in NotificationEventType : t = e.type
  BY DEF NotificationEvent
<1>2. PICK c \in Nat : c = e.retry_count
  BY DEF NotificationEvent
<1>3. PICK s : s = StatusAfter(t)
  OBVIOUS
<1>4. s # "None"
  BY <1>1, <1>3 DEF StatusAfter, NotificationEventType
<1>5. CASE v = "notification_log"
  <2>1. PICK y : y = LogRead(x, e)
    OBVIOUS
  <2>2. LogRead(y, e) = y
    BY <1>1, <1>2, <1>3, <1>4, <2>1 DEF LogRead
  <2> QED  BY <1>5, <2>1, <2>2 DEF EntryRead
<1>6. CASE v = "customer_notifications"
  <2>1. PICK y : y = CustomerRead(x, e)
    OBVIOUS
  <2>2. CustomerRead(y, e) = y
    BY <1>1, <1>3, <1>4, <2>1 DEF CustomerRead
  <2> QED  BY <1>6, <2>1, <2>2 DEF EntryRead
<1>7. CASE v = "failed_notifications"
  <2>1. PICK y : y = FailedRead(x, e)
    OBVIOUS
  <2>2. FailedRead(y, e) = y
    BY <2>1 DEF FailedRead
  <2> QED  BY <1>7, <2>1, <2>2 DEF EntryRead
<1> QED  BY <1>5, <1>6, <1>7 DEF NoteViews

LEMMA EntryToldTyped ==
  ASSUME NEW v \in NoteViews, NEW a \in Note
  PROVE  EntryTold(v, a) \in NoteEntry
<1>1. a.status \in Status /\ a.retry_count \in Nat /\ ShownAs(a) \in Status
  BY DEF Note, ShownAs, Status
<1> QED  BY <1>1 DEF EntryTold, NoteViews, NoteEntry, NoEntry, Status

(* What is told of a notification moves with its event.                    *)
LEMMA ToldMoves ==
  ASSUME NEW v \in NoteViews, NEW a \in Note, NEW b \in Note, NoteMoves(a, b),
         a.status = "Failed" => a.retry_count > 0
  PROVE  /\ b.status = a.status => EntryTold(v, b) = EntryTold(v, a)
         /\ b.status # a.status =>
              \A e \in NotificationEvent :
                /\ e.type = EventOf[b.status] /\ e.retry_count = b.retry_count
                /\ e.notification_type = b.type
                => EntryTold(v, b) = EntryRead(v, EntryTold(v, a), e)
<1>1. /\ a.retry_count \in Nat /\ b.retry_count \in Nat /\ a.status \in Status /\ b.status \in Status
      /\ b.type = a.type
  BY DEF Note, NoteMoves
<1>2. CASE b.status = a.status
  BY <1>1, <1>2 DEF NoteMoves, EntryTold, ShownAs, NoteViews
<1>3. ASSUME b.status # a.status, NEW e \in NotificationEvent,
             e.type = EventOf[b.status], e.retry_count = b.retry_count,
             e.notification_type = b.type
      PROVE  EntryTold(v, b) = EntryRead(v, EntryTold(v, a), e)
  <2>1. /\ \/ a.status = "Pending" /\ b.status = "Sent" /\ b.retry_count = a.retry_count
           \/ a.status = "Pending" /\ b.status = "Cancelled" /\ b.retry_count = a.retry_count
           \/ a.status = "Pending" /\ b.status = "Failed" /\ b.retry_count = a.retry_count + 1
           \/ a.status = "Failed" /\ b.status = "Pending" /\ b.retry_count = a.retry_count
        /\ EventOf["Sent"] = "NotificationSent" /\ EventOf["Failed"] = "NotificationFailed"
        /\ EventOf["Cancelled"] = "NotificationCancelled"
        /\ EventOf["Pending"] = "NotificationRetried"
    BY <1>3 DEF NoteMoves, EventOf
  <2>2. StatusAfter(e.type) = b.status
    BY <1>1, <1>3, <2>1 DEF StatusAfter
  <2>3. CASE v = "notification_log"
    <3>1. EntryTold(v, a) = [status |-> a.status, retry_count |-> a.retry_count]
          /\ EntryTold(v, b) = [status |-> b.status, retry_count |-> b.retry_count]
      BY <2>3 DEF EntryTold
    <3>2. a.status # "None"
      BY <2>1
    <3>3. LogRead(EntryTold(v, a), e) = [status |-> b.status, retry_count |-> b.retry_count]
      BY <1>3, <2>1, <2>2, <3>1, <3>2 DEF LogRead
    <3> QED  BY <2>3, <3>1, <3>3 DEF EntryRead
  <2>4. CASE v = "customer_notifications"
    <3>1. EntryRead(v, EntryTold(v, a), e) = CustomerRead(EntryTold(v, a), e)
      BY <2>4 DEF EntryRead
    <3>2. CASE a.type = "LowStockAlert"
      <4>1. EntryTold(v, a) = NoEntry /\ EntryTold(v, b) = NoEntry
        BY <1>1, <2>4, <3>2 DEF EntryTold
      <4>2. e.type # "NotificationCreated" /\ NoEntry.status = "None"
        BY <1>3, <2>1 DEF NoEntry
      <4> QED  BY <3>1, <4>1, <4>2 DEF CustomerRead
    <3>3. CASE a.type # "LowStockAlert"
      <4>1. EntryTold(v, a) = [status |-> ShownAs(a), retry_count |-> 0]
            /\ EntryTold(v, b) = [status |-> ShownAs(b), retry_count |-> 0]
        BY <1>1, <2>4, <3>3 DEF EntryTold
      <4>2. ShownAs(a) # "None"
        BY DEF ShownAs
      <4>3. ShownAs(b) = IF b.status \in {"Sent", "Failed"} THEN b.status ELSE ShownAs(a)
        BY <1>1, <2>1 DEF ShownAs
      <4>4. e.type \in {"NotificationSent", "NotificationFailed"} <=> b.status \in {"Sent", "Failed"}
        BY <1>3, <2>1
      <4>5. e.type # "NotificationCreated"
        BY <1>3, <2>1
      <4> QED  BY <2>2, <3>1, <4>1, <4>2, <4>3, <4>4, <4>5 DEF CustomerRead
    <3> QED  BY <3>2, <3>3
  <2>5. CASE v = "failed_notifications"
    <3>1. EntryRead(v, EntryTold(v, a), e) = FailedRead(EntryTold(v, a), e)
      BY <2>5 DEF EntryRead
    <3>2. /\ EntryTold(v, b) = IF b.status = "Failed"
                               THEN [status |-> "Failed", retry_count |-> b.retry_count] ELSE NoEntry
          /\ a.status # "Failed" => EntryTold(v, a) = NoEntry
      BY <2>5 DEF EntryTold
    <3> QED  BY <1>3, <2>1, <3>1, <3>2 DEF FailedRead
  <2> QED  BY <2>3, <2>4, <2>5 DEF NoteViews
<1> QED  BY <1>2, <1>3

LEMMA ToldFirst ==
  ASSUME NEW v \in NoteViews, NEW b \in Note, b.status = "Pending", b.retry_count = 0,
         NEW e \in NotificationEvent, e.type = "NotificationCreated", e.retry_count = 0,
         e.notification_type = b.type
  PROVE  EntryTold(v, b) = EntryRead(v, NoEntry, e)
<1>1. StatusAfter(e.type) = "Pending" /\ ShownAs(b) = "Pending"
  BY DEF StatusAfter, ShownAs
<1>2. CASE v = "notification_log"
  BY <1>1, <1>2 DEF EntryTold, EntryRead, LogRead
<1>3. CASE v = "customer_notifications"
  BY <1>1, <1>3 DEF EntryTold, EntryRead, CustomerRead, Internal
<1>4. CASE v = "failed_notifications"
  BY <1>4 DEF EntryTold, EntryRead, FailedRead
<1> QED  BY <1>2, <1>3, <1>4 DEF NoteViews
------------------------------------------------------------------------------
(* What a projector writes of one notification.                            *)
RowTyped(v, r) == DOMAIN r \subseteq Nat /\ r \in [DOMAIN r -> NoteRows(v)]

Writes(v, r, k, x, after) ==
  /\ RowTyped(v, after) /\ DOMAIN after = DOMAIN r \cup {k}
  /\ after[k] = x /\ \A n \in DOMAIN r : n # k => after[n] = r[n]

LEMMA PutWrites ==
  ASSUME NEW v, NEW r, RowTyped(v, r), NEW k \in Nat, NEW x \in NoteRows(v)
  PROVE  Writes(v, r, k, x, Put(r, k, x))
<1>1. PICK S : S = NoteRows(v)
  OBVIOUS
<1>2. Put(r, k, x) = [n \in DOMAIN r \cup {k} |-> IF n = k THEN x ELSE r[n]]
  BY DEF Put
<1>3. DOMAIN r \subseteq Nat /\ r \in [DOMAIN r -> S] /\ x \in S
  BY <1>1 DEF RowTyped
<1>4. PICK after : after = Put(r, k, x)
  OBVIOUS
<1>5. after \in [{k} \cup DOMAIN r -> S]
  BY <1>2, <1>3, <1>4
<1>6. DOMAIN after = {k} \cup DOMAIN r /\ after[k] = x
      /\ \A n \in DOMAIN r : n # k => after[n] = r[n]
  BY <1>2, <1>4
<1>7. RowTyped(v, after)
  BY <1>1, <1>3, <1>5, <1>6 DEF RowTyped
<1> QED  BY <1>4, <1>6, <1>7 DEF Writes

LEMMA ExceptWrites ==
  ASSUME NEW v, NEW r, RowTyped(v, r), NEW k \in DOMAIN r, NEW x \in NoteRows(v)
  PROVE  Writes(v, r, k, x, [r EXCEPT ![k] = x])
  BY DEF Writes, RowTyped

(* Seen through its entries.                                               *)
ReadsOnly(v, r, k, y, after) ==
  /\ RowTyped(v, after)
  /\ \A n : EntryShown(v, after, n) = IF n = k THEN y ELSE EntryShown(v, r, n)

LEMMA WritesRead ==
  ASSUME NEW v, NEW r, NEW k, NEW x, NEW after, Writes(v, r, k, x, after)
  PROVE  ReadsOnly(v, r, k, EntryOf(v, x), after)
  BY DEF Writes, ReadsOnly, EntryShown

LEMMA SameRead ==
  ASSUME NEW v, NEW r, RowTyped(v, r), NEW k
  PROVE  ReadsOnly(v, r, k, EntryShown(v, r, k), r)
  BY DEF ReadsOnly

LEMMA LogReads ==
  ASSUME NEW v, v = "notification_log", NEW r, RowTyped(v, r), NEW e \in NotificationEvent
  PROVE  ReadsOnly(v, r, e.id, LogRead(EntryShown(v, r, e.id), e), on_notification_log(r, e))
<1>1. PICK k \in Nat, t \in NotificationEventType, c \in Nat :
        k = e.id /\ t = e.type /\ c = e.retry_count
  BY DEF NotificationEvent
<1>2. PICK x : x = EntryShown(v, r, k)
  OBVIOUS
<1>3. NoteRows(v) = [status : Status, retry_count : Nat] /\ \A y : EntryOf(v, y) = y
  BY DEF NoteRows, EntryOf
<1>4. /\ k \in DOMAIN r => x = r[k] /\ x \in [status : Status, retry_count : Nat]
      /\ k \notin DOMAIN r => x = NoEntry
  BY <1>2, <1>3 DEF EntryShown, RowTyped
<1>5. x.status # "None" <=> k \in DOMAIN r
  BY <1>4 DEF NoEntry, Status
<1>6. StatusAfter(t) \in Status
  BY DEF StatusAfter, NotificationEventType, Status
<1>7. CASE t = "NotificationCreated" \/ (k \in DOMAIN r /\ t \in {"NotificationFailed", "NotificationRetried"})
  <2>1. PICK y : y = [status |-> StatusAfter(t), retry_count |-> c]
    OBVIOUS
  <2>2. on_notification_log(r, e) = Put(r, k, y)
    BY <1>1, <1>7, <2>1 DEF on_notification_log, Entry, Written, StatusAfter
  <2>3. y \in NoteRows(v)
    BY <1>3, <1>6, <2>1
  <2>4. ReadsOnly(v, r, k, EntryOf(v, y), on_notification_log(r, e))
    BY <2>2, <2>3, PutWrites, WritesRead
  <2>5. LogRead(x, e) = y
    BY <1>1, <1>5, <1>7, <2>1 DEF LogRead
  <2> QED  BY <1>1, <1>2, <1>3, <2>4, <2>5
<1>8. CASE k \in DOMAIN r /\ t \in {"NotificationSent", "NotificationCancelled"}
  <2>1. PICK y : y = [status |-> StatusAfter(t), retry_count |-> x.retry_count]
    OBVIOUS
  <2>2. on_notification_log(r, e) = [r EXCEPT ![k].status = StatusAfter(t)]
    BY <1>1, <1>8 DEF on_notification_log, Written, StatusAfter
  <2>3. [r[k] EXCEPT !.status = StatusAfter(t)] = y
    BY <1>4, <1>8, <2>1
  <2>4. on_notification_log(r, e) = [r EXCEPT ![k] = y]
    BY <2>2, <2>3
  <2>5. y \in NoteRows(v)
    BY <1>3, <1>4, <1>6, <1>8, <2>1
  <2>6. ReadsOnly(v, r, k, EntryOf(v, y), on_notification_log(r, e))
    BY <1>8, <2>4, <2>5, ExceptWrites, WritesRead
  <2>7. LogRead(x, e) = y
    BY <1>1, <1>5, <1>8, <2>1 DEF LogRead
  <2> QED  BY <1>1, <1>2, <1>3, <2>6, <2>7
<1>9. CASE k \notin DOMAIN r /\ t # "NotificationCreated"
  <2>1. on_notification_log(r, e) = r
    BY <1>1, <1>9 DEF on_notification_log, Written
  <2>2. LogRead(x, e) = x
    BY <1>1, <1>5, <1>9 DEF LogRead
  <2> QED  BY <1>1, <1>2, <2>1, <2>2, SameRead
<1> QED  BY <1>7, <1>8, <1>9 DEF NotificationEventType

LEMMA CustomerReads ==
  ASSUME NEW v, v = "customer_notifications", NEW r, RowTyped(v, r), NEW e \in NotificationEvent
  PROVE  ReadsOnly(v, r, e.id, CustomerRead(EntryShown(v, r, e.id), e),
                   on_customer_notifications(r, e))
<1>1. PICK k \in Nat, t \in NotificationEventType : k = e.id /\ t = e.type
  BY DEF NotificationEvent
<1>2. PICK x : x = EntryShown(v, r, k)
  OBVIOUS
<1>3. NoteRows(v) = Status /\ \A s : EntryOf(v, s) = [status |-> s, retry_count |-> 0]
  BY DEF NoteRows, EntryOf
<1>4. x.status # "None" <=> k \in DOMAIN r
  <2>1. CASE k \in DOMAIN r
    <3>1. r[k] \in Status
      BY <1>3, <2>1 DEF RowTyped
    <3>2. x = [status |-> r[k], retry_count |-> 0]
      BY <1>2, <1>3, <2>1 DEF EntryShown
    <3> QED  BY <2>1, <3>1, <3>2 DEF Status
  <2>2. CASE k \notin DOMAIN r
    BY <1>2, <2>2 DEF EntryShown, NoEntry
  <2> QED  BY <2>1, <2>2
<1>5. PICK s \in Status : s = StatusAfter(t)
  BY DEF StatusAfter, NotificationEventType, Status
<1>6. CASE t = "NotificationCreated" /\ ~Internal(e)
  <2>1. on_customer_notifications(r, e) = Put(r, k, s)
    BY <1>1, <1>5, <1>6 DEF on_customer_notifications, StatusAfter
  <2>2. ReadsOnly(v, r, k, EntryOf(v, s), on_customer_notifications(r, e))
    BY <1>3, <1>5, <2>1, PutWrites, WritesRead
  <2>3. CustomerRead(x, e) = EntryOf(v, s)
    BY <1>1, <1>3, <1>5, <1>6 DEF CustomerRead
  <2> QED  BY <1>1, <1>2, <2>2, <2>3
<1>7. CASE t \in {"NotificationSent", "NotificationFailed"} /\ k \in DOMAIN r
  <2>1. on_customer_notifications(r, e) = [r EXCEPT ![k] = s]
    BY <1>1, <1>5, <1>7 DEF on_customer_notifications, StatusAfter, Written
  <2>2. ReadsOnly(v, r, k, EntryOf(v, s), on_customer_notifications(r, e))
    BY <1>3, <1>5, <1>7, <2>1, ExceptWrites, WritesRead
  <2>3. CustomerRead(x, e) = EntryOf(v, s)
    BY <1>1, <1>3, <1>4, <1>5, <1>7 DEF CustomerRead
  <2> QED  BY <1>1, <1>2, <2>2, <2>3
<1>8. CASE /\ ~(t = "NotificationCreated" /\ ~Internal(e))
           /\ ~(t \in {"NotificationSent", "NotificationFailed"} /\ k \in DOMAIN r)
  <2>1. on_customer_notifications(r, e) = r
    BY <1>1, <1>8 DEF on_customer_notifications, Written
  <2>2. CustomerRead(x, e) = x
    BY <1>1, <1>4, <1>8 DEF CustomerRead
  <2> QED  BY <1>1, <1>2, <2>1, <2>2, SameRead
<1> QED  BY <1>6, <1>7, <1>8

LEMMA FailedReads ==
  ASSUME NEW v, v = "failed_notifications", NEW r, RowTyped(v, r), NEW e \in NotificationEvent
  PROVE  ReadsOnly(v, r, e.id, FailedRead(EntryShown(v, r, e.id), e),
                   on_failed_notifications(r, e))
<1>1. PICK k \in Nat, c \in Nat : k = e.id /\ c = e.retry_count
  BY DEF NotificationEvent
<1>3. NoteRows(v) = Nat /\ \A x : EntryOf(v, x) = [status |-> "Failed", retry_count |-> x]
  BY DEF NoteRows, EntryOf
<1>4. CASE e.type = "NotificationFailed"
  <2>1. on_failed_notifications(r, e) = Put(r, k, c)
    BY <1>1, <1>4 DEF on_failed_notifications
  <2>2. ReadsOnly(v, r, k, EntryOf(v, c), on_failed_notifications(r, e))
    BY <1>3, <2>1, PutWrites, WritesRead
  <2> QED  BY <1>1, <1>3, <1>4, <2>2 DEF FailedRead
<1>5. CASE e.type \in {"NotificationRetried", "NotificationSent"}
  <2>1. PICK after : after = [n \in DOMAIN r \ {k} |-> r[n]]
    OBVIOUS
  <2>2. on_failed_notifications(r, e) = after
    BY <1>1, <1>5, <2>1 DEF on_failed_notifications, Others
  <2>3. DOMAIN after = DOMAIN r \ {k} /\ \A n \in DOMAIN r \ {k} : after[n] = r[n]
    BY <2>1
  <2>4. RowTyped(v, after)
    BY <2>1, <2>3 DEF RowTyped
  <2>5. ReadsOnly(v, r, k, NoEntry, after)
    BY <2>3, <2>4 DEF ReadsOnly, EntryShown
  <2> QED  BY <1>1, <1>5, <2>2, <2>5 DEF FailedRead
<1>6. CASE e.type \notin {"NotificationFailed", "NotificationRetried", "NotificationSent"}
  BY <1>6, SameRead DEF on_failed_notifications, FailedRead
<1> QED  BY <1>4, <1>5, <1>6

LEMMA NoteViewReads ==
  ASSUME NEW v \in NoteViews, view = v, NEW r, RowTyped(v, r), NEW e \in NotificationEvent
  PROVE  ReadsOnly(v, r, e.id, EntryRead(v, EntryShown(v, r, e.id), e),
                   NotificationProjected(r, e))
<1>1. CASE v = "notification_log"
  BY <1>1, LogReads DEF NotificationProjected, EntryRead
<1>2. CASE v = "customer_notifications"
  BY <1>2, CustomerReads DEF NotificationProjected, EntryRead
<1>3. CASE v = "failed_notifications"
  BY <1>3, FailedReads DEF NotificationProjected, EntryRead
<1> QED  BY <1>1, <1>2, <1>3 DEF NoteViews

LEMMA EntryShownTyped ==
  ASSUME NEW v \in NoteViews, NEW r, RowTyped(v, r), NEW n
  PROVE  EntryShown(v, r, n) \in NoteEntry
<1>1. NoEntry \in NoteEntry /\ "Failed" \in Status /\ 0 \in Nat
  BY DEF NoEntry, NoteEntry, Status
<1>2. CASE n \in DOMAIN r
  <2>1. r[n] \in NoteRows(v)
    BY <1>2 DEF RowTyped
  <2> QED  BY <1>1, <1>2, <2>1 DEF EntryShown, EntryOf, NoteRows, NoteViews, NoteEntry
<1> QED  BY <1>1, <1>2 DEF EntryShown
------------------------------------------------------------------------------
(* The counters of what was sent.                                          *)
CounterOf(r, key) == IF key \in DOMAIN r THEN r[key] ELSE 0

StatsTyped(r) == r \in [DOMAIN r -> Nat]

Counts(key, e) == e.type = "NotificationSent" /\ key = <<e.notification_type, e.channel>>

StatSteps(key) ==
  {t \in Nat \X NotificationEvent \X Nat :
     t[3] = IF Counts(key, t[2]) THEN t[1] + 1 ELSE t[1]}

StatsRead(r, e, after) ==
  /\ StatsTyped(after)
  /\ \A key : CounterOf(after, key) =
                IF Counts(key, e) THEN CounterOf(r, key) + 1 ELSE CounterOf(r, key)

LEMMA StatsReads ==
  ASSUME NEW r, StatsTyped(r), NEW e \in NotificationEvent
  PROVE  StatsRead(r, e, on_notification_stats(r, e))
<1>1. PICK key : key = <<e.notification_type, e.channel>>
  OBVIOUS
<1>2. on_notification_stats(r, e) =
        IF e.type # "NotificationSent" THEN r
        ELSE IF key \in DOMAIN r THEN [r EXCEPT ![key] = r[key] + 1]
        ELSE Put(r, key, 1)
  BY <1>1 DEF on_notification_stats
<1>3. \A j : Counts(j, e) <=> e.type = "NotificationSent" /\ j = key
  BY <1>1 DEF Counts
<1>4. CASE e.type # "NotificationSent"
  BY <1>2, <1>3, <1>4 DEF StatsRead
<1>5. CASE e.type = "NotificationSent" /\ key \in DOMAIN r
  <2>1. PICK after : after = [r EXCEPT ![key] = r[key] + 1]
    OBVIOUS
  <2>2. /\ DOMAIN after = DOMAIN r /\ StatsTyped(after)
        /\ \A j \in DOMAIN r : after[j] = IF j = key THEN r[j] + 1 ELSE r[j]
    BY <1>5, <2>1 DEF StatsTyped
  <2>3. StatsRead(r, e, after)
    BY <1>3, <1>5, <2>2 DEF StatsRead, CounterOf
  <2> QED  BY <1>2, <1>5, <2>1, <2>3
<1>6. CASE e.type = "NotificationSent" /\ key \notin DOMAIN r
  <2>1. PICK after : after = Put(r, key, 1)
    OBVIOUS
  <2>2. /\ DOMAIN after = DOMAIN r \cup {key} /\ StatsTyped(after)
        /\ \A j \in DOMAIN after : after[j] = IF j = key THEN 1 ELSE r[j]
    BY <1>6, <2>1 DEF StatsTyped, Put
  <2>3. StatsRead(r, e, after)
    BY <1>3, <1>6, <2>2 DEF StatsRead, CounterOf
  <2> QED  BY <1>2, <1>6, <2>1, <2>3
<1> QED  BY <1>4, <1>5, <1>6

LEMMA CounterTyped ==
  ASSUME NEW r, StatsTyped(r), NEW key
  PROVE  CounterOf(r, key) \in Nat
  BY DEF CounterOf, StatsTyped

(* One more at the start is one more in the end.                           *)
LEMMA LeadsShift ==
  ASSUME NEW key, NEW events \in Seq(NotificationEvent), NEW c \in Nat, NEW d \in Nat,
         Leads(StatSteps(key), c, events, d)
  PROVE  Leads(StatSteps(key), c + 1, events, d + 1)
<1>1. PICK rows : /\ rows[0] = c
                  /\ rows[Len(events)] = d
                  /\ \A k \in 1..Len(events) :
                       <<rows[k - 1], events[k], rows[k]>> \in StatSteps(key)
  BY Zenon DEF Leads
<1> DEFINE n == Len(events)
           more == [k \in 0..n |-> rows[k] + 1]
<1>2. n \in Nat
  OBVIOUS
<1>3. more[0] = c + 1 /\ more[n] = d + 1
  BY <1>1, <1>2
<1>4. ASSUME NEW k \in 1..n PROVE <<more[k - 1], events[k], more[k]>> \in StatSteps(key)
  <2>1. more[k - 1] = rows[k - 1] + 1 /\ more[k] = rows[k] + 1
    BY <1>2
  <2>2. <<rows[k - 1], events[k], rows[k]>> \in StatSteps(key)
    BY <1>1
  <2> HIDE DEF more
  <2>3. PICK a, b, e : a = rows[k - 1] /\ b = rows[k] /\ e = events[k]
    OBVIOUS
  <2>4. /\ a \in Nat /\ b \in Nat /\ e \in NotificationEvent
        /\ b = IF Counts(key, e) THEN a + 1 ELSE a
    BY <2>2, <2>3 DEF StatSteps
  <2>5. <<a + 1, e, b + 1>> \in StatSteps(key)
    BY <2>4 DEF StatSteps
  <2> QED  BY <2>1, <2>3, <2>5
<1> HIDE DEF more
<1> QED  BY <1>3, <1>4, Zenon DEF Leads

(* Who was sent becomes more by those that say so.                         *)
LEMMA SentMore ==
  ASSUME SendsInv, SendsInv', NotesMove, NEW key
  PROVE  /\ IsFiniteSet(SentOf(key)) /\ SentOf(key) \cap Changed = {}
         /\ SentOf(key)' = SentOf(key) \cup {n \in Changed : Counts(key, RaisedBy(n))}
<1>1. /\ Len(notifications) \in Nat /\ DOMAIN notifications = NoteIds
      /\ Len(notifications') \in Nat /\ DOMAIN notifications' = NoteIds'
      /\ NoteIds \subseteq NoteIds' /\ \A n \in NoteIds' : n \in Nat
      /\ \A n \in NoteIds : n <= Len(notifications)
      /\ \A n \in NoteIds' : n > Len(notifications) <=> n \notin NoteIds
  BY Facts, RaisedIsTyped DEF SendsInv, NotesMove, NoteIds
<1>2. \A n \in NoteIds' : /\ notifications'[n] \in Note
                          /\ RaisedBy(n).notification_type = notifications'[n].type
                          /\ RaisedBy(n).channel = notifications'[n].channel
                          /\ RaisedBy(n).type = IF n \notin NoteIds THEN "NotificationCreated"
                                                ELSE EventOf[notifications'[n].status]
  BY <1>1, RaisedIsTyped
<1>3. Changed = {n \in NoteIds' : \/ n \notin NoteIds
                                  \/ notifications'[n].status # notifications[n].status}
  BY <1>1 DEF Changed
<1>4. /\ \A n \in NoteIds : NoteMoves(notifications[n], notifications'[n])
      /\ \A n \in NoteIds' \ NoteIds : notifications'[n].status = "Pending"
  BY DEF NotesMove
<1>5. IsFiniteSet(SentOf(key))
  <2>1. SentOf(key) \subseteq 1..Len(notifications) /\ IsFiniteSet(1..Len(notifications))
    BY <1>1, FS_Interval DEF SentOf, NoteIds
  <2> QED  BY <2>1, FS_Subset
<1>6. ASSUME NEW n \in SentOf(key)
      PROVE  n \notin Changed /\ n \in SentOf(key)'
  <2>1. n \in NoteIds /\ n \in NoteIds' /\ notifications[n].status = "Sent"
    BY <1>1 DEF SentOf
  <2>2. /\ notifications'[n].status = "Sent" /\ notifications'[n].type = notifications[n].type
        /\ notifications'[n].channel = notifications[n].channel
    BY <1>4, <2>1 DEF NoteMoves
  <2> QED  BY <1>1, <1>3, <2>1, <2>2 DEF SentOf
<1>7. ASSUME NEW n \in NoteIds'
      PROVE  n \in SentOf(key)' <=> n \in SentOf(key) \/ (n \in Changed /\ Counts(key, RaisedBy(n)))
  <2>1. n \in SentOf(key)' <=> /\ notifications'[n].status = "Sent"
                               /\ key = <<notifications'[n].type, notifications'[n].channel>>
    BY <1>1 DEF SentOf
  <2>2. CASE n \notin NoteIds
    <3>1. notifications'[n].status # "Sent" /\ RaisedBy(n).type # "NotificationSent"
      BY <1>2, <1>4, <2>2
    <3> QED  BY <1>1, <2>1, <2>2, <3>1 DEF SentOf, Counts
  <2>3. CASE n \in NoteIds /\ notifications'[n].status = notifications[n].status
    <3>1. n \notin Changed /\ NoteMoves(notifications[n], notifications'[n])
      BY <1>3, <1>4, <2>3
    <3> QED  BY <1>1, <2>1, <2>3, <3>1 DEF SentOf, NoteMoves
  <2>4. CASE n \in NoteIds /\ notifications'[n].status # notifications[n].status
    <3>1. n \in Changed /\ n \notin SentOf(key)
      BY <1>3, <1>6, <2>4
    <3>2. RaisedBy(n).type = "NotificationSent" <=> notifications'[n].status = "Sent"
      BY <1>2, <2>4 DEF EventOf, Note, Status
    <3>3. RaisedBy(n).notification_type = notifications'[n].type
          /\ RaisedBy(n).channel = notifications'[n].channel
      BY <1>2
    <3> QED  BY <2>1, <3>1, <3>2, <3>3 DEF Counts
  <2> QED  BY <2>2, <2>3, <2>4
<1>8. SentOf(key)' \subseteq NoteIds' /\ SentOf(key) \subseteq NoteIds' /\ Changed \subseteq NoteIds'
  BY <1>1, <1>3 DEF SentOf
<1> QED  BY <1>5, <1>6, <1>7, <1>8

LEMMA SentIsFinite ==
  ASSUME SendsInv, NEW key
  PROVE  IsFiniteSet(SentOf(key))
<1>1. DOMAIN notifications = 1..Len(notifications) /\ Len(notifications) \in Nat
  BY Facts DEF SendsInv, NoteIds
<1>2. SentOf(key) \subseteq 1..Len(notifications) /\ IsFiniteSet(1..Len(notifications))
  BY <1>1, FS_Interval DEF SentOf
<1> QED  BY <1>2, FS_Subset

LEMMA SentStaysFinite ==
  ASSUME SendsInv', NotesMove, NEW key
  PROVE  IsFiniteSet(SentOf(key)')
<1>1. DOMAIN notifications' = 1..Len(notifications') /\ Len(notifications') \in Nat
  BY RaisedIsTyped DEF NotesMove, NoteIds
<1>2. SentOf(key)' \subseteq 1..Len(notifications') /\ IsFiniteSet(1..Len(notifications'))
  BY <1>1, FS_Interval DEF SentOf
<1> QED  BY <1>2, FS_Subset

LEMMA SentLeads ==
  ASSUME SendsInv, SendsInv', NotesMove, NEW key
  PROVE  Leads(StatSteps(key), Cardinality(SentOf(key)), NotificationsRaised,
               Cardinality(SentOf(key)'))
<1>1. PICK m : m = Cardinality(Changed)
  OBVIOUS
<1>2. RaisedInOrder(m)
  BY <1>1, RaisedOrder DEF NotesMove
<1>3. /\ m \in Nat /\ Len(NotificationsRaised) = m /\ Changed \subseteq Nat
      /\ NotificationsRaised \in Seq(NotificationEvent)
      /\ \A k \in 1..m : /\ Nth(Changed, k) \in Changed
                         /\ NotificationsRaised[k] = RaisedBy(Nth(Changed, k))
      /\ \A k, j \in 1..m : k < j => Nth(Changed, k) < Nth(Changed, j)
      /\ \A i \in Changed : \E k \in 1..m : Nth(Changed, k) = i
  BY <1>2 DEF RaisedInOrder
<1>4. PICK S : S = SentOf(key)
  OBVIOUS
<1>5. /\ IsFiniteSet(S) /\ S \cap Changed = {}
      /\ SentOf(key)' = S \cup {n \in Changed : Counts(key, RaisedBy(n))}
  BY <1>4, SentMore
<1> DEFINE Upto(k) == {n \in Changed : /\ Counts(key, RaisedBy(n))
                                       /\ \E j \in 1..k : Nth(Changed, j) = n}
           rows == [k \in 0..m |-> Cardinality(S \cup Upto(k))]
<1>6. Upto(0) = {} /\ Upto(m) = {n \in Changed : Counts(key, RaisedBy(n))}
  <2>1. 1..0 = {}
    OBVIOUS
  <2>2. \A n \in Changed : \E j \in 1..m : Nth(Changed, j) = n
    BY <1>3
  <2> QED  BY <2>1, <2>2, Zenon
<1>7. ASSUME NEW k \in 1..m
      PROVE  /\ Counts(key, NotificationsRaised[k]) =>
                  /\ Upto(k) = Upto(k - 1) \cup {Nth(Changed, k)}
                  /\ Nth(Changed, k) \notin Upto(k - 1)
             /\ ~Counts(key, NotificationsRaised[k]) => Upto(k) = Upto(k - 1)
  <2>1. 1..k = (1..(k - 1)) \cup {k}
    BY <1>3
  <2>2. ASSUME NEW j \in 1..(k - 1) PROVE Nth(Changed, j) # Nth(Changed, k)
    <3>1. j \in 1..m /\ j < k
      BY <1>3, <2>2
    <3>2. Nth(Changed, j) < Nth(Changed, k)
      BY <1>3, <3>1
    <3>3. Nth(Changed, j) \in Nat /\ Nth(Changed, k) \in Nat
      BY <1>3, <3>1
    <3> QED  BY <3>2, <3>3
  <2>3. NotificationsRaised[k] = RaisedBy(Nth(Changed, k)) /\ Nth(Changed, k) \in Changed
    BY <1>3
  <2> QED  BY <2>1, <2>2, <2>3
<1>8. \A k \in 0..m : Upto(k) \subseteq Changed
  OBVIOUS
<1>9. rows[0] = Cardinality(S) /\ rows[m] = Cardinality(SentOf(key)')
  <2>1. 0 \in 0..m /\ m \in 0..m /\ S \cup {} = S
    BY <1>3
  <2> QED  BY <1>5, <1>6, <2>1
<1>10. \A k \in 0..m : IsFiniteSet(S \cup Upto(k))
  <2>1. S \cup Upto(m) = SentOf(key)'
    BY <1>5, <1>6
  <2>2. IsFiniteSet(SentOf(key)')
    BY SentStaysFinite
  <2>3. \A k \in 0..m : S \cup Upto(k) \subseteq S \cup Upto(m)
    BY <1>3
  <2> HIDE DEF Upto
  <2> QED  BY <2>1, <2>2, <2>3, FS_Subset
<1> HIDE DEF Upto
<1>11. ASSUME NEW k \in 1..m
       PROVE  <<rows[k - 1], NotificationsRaised[k], rows[k]>> \in StatSteps(key)
  <2>1. k \in 0..m /\ k - 1 \in 0..m
    BY <1>3
  <2>2. rows[k] = Cardinality(S \cup Upto(k)) /\ rows[k - 1] = Cardinality(S \cup Upto(k - 1))
    BY <2>1
  <2> HIDE DEF rows
  <2>3. /\ IsFiniteSet(S \cup Upto(k - 1)) /\ rows[k - 1] \in Nat /\ rows[k] \in Nat
        /\ NotificationsRaised[k] \in NotificationEvent
    <3>1. NotificationsRaised[k] \in NotificationEvent
      BY <1>3, ElementOfSeq
    <3> QED  BY <1>10, <2>1, <2>2, <3>1, FS_CardinalityType
  <2>4. CASE Counts(key, NotificationsRaised[k])
    <3>1. PICK i : i = Nth(Changed, k)
      OBVIOUS
    <3>2. /\ i \notin S \cup Upto(k - 1)
          /\ S \cup Upto(k) = (S \cup Upto(k - 1)) \cup {i}
      BY <1>3, <1>5, <1>7, <2>4, <3>1
    <3>3. rows[k] = rows[k - 1] + 1
      <4>1. PICK T : T = S \cup Upto(k - 1)
        OBVIOUS
      <4>2. Cardinality(T \cup {i}) = Cardinality(T) + 1
        BY <2>3, <3>2, <4>1, FS_AddElement
      <4> QED  BY <2>2, <3>2, <4>1, <4>2
    <3> QED  BY <2>3, <2>4, <3>3 DEF StatSteps
  <2>5. CASE ~Counts(key, NotificationsRaised[k])
    <3>1. rows[k] = rows[k - 1]
      BY <1>7, <2>2, <2>5
    <3> QED  BY <2>3, <2>5, <3>1 DEF StatSteps
  <2> QED  BY <2>4, <2>5
<1> HIDE DEF rows
<1> QED  BY <1>3, <1>4, <1>9, <1>11, Zenon DEF Leads
------------------------------------------------------------------------------
(* What the unread events lead to: for a projection with rows, what each   *)
(* notification is to show; for the counters, what was sent, and one more  *)
(* at most if an event was handled twice.                                  *)
CounterLeads(key) ==
  \E extra \in {0, 1} :
    /\ extra = 1 => redelivered
    /\ Leads(StatSteps(key), CounterOf(row, key), unread, Cardinality(SentOf(key)) + extra)

RowsLead ==
  /\ RowTyped(view, row)
  /\ \A n \in Nat : Leads(EntrySteps(view, n), EntryShown(view, row, n), unread, NoteTold(view, n))

StatsLead == StatsTyped(row) /\ \A key : CounterLeads(key)

NotificationViewInv ==
  /\ SendsInv
  /\ view \in NotificationViewNames \cup {"none"}
  /\ unread \in Seq(NotificationEvent)
  /\ view \in NoteViews => RowsLead
  /\ view = "notification_stats" => StatsLead

LEMMA ToldLeads ==
  ASSUME SendsInv, SendsInv', NotesMove, NEW v \in NoteViews, NEW n \in Nat
  PROVE  Leads(EntrySteps(v, n), NoteTold(v, n), NotificationsRaised, NoteTold(v, n)')
<1>1. PICK m : m = Cardinality(Changed)
  OBVIOUS
<1>2. RaisedInOrder(m)
  BY <1>1, RaisedOrder DEF NotesMove
<1>3. /\ Len(notifications) \in Nat /\ NoteIds \subseteq NoteIds'
      /\ \A k \in NoteIds : notifications[k] \in Note /\ k <= Len(notifications)
      /\ \A k \in NoteIds' : k > Len(notifications) <=> k \notin NoteIds
      /\ DOMAIN notifications' = NoteIds'
  BY Facts, RaisedIsTyped DEF SendsInv, NotesMove, NoteIds
<1>4. \A k \in NoteIds' : /\ notifications'[k] \in Note
                          /\ RaisedBy(k) \in NotificationEvent /\ RaisedBy(k).id = k
                          /\ RaisedBy(k).notification_type = notifications'[k].type
                          /\ RaisedBy(k).retry_count = notifications'[k].retry_count
                          /\ RaisedBy(k).type = IF k \notin NoteIds THEN "NotificationCreated"
                                                ELSE EventOf[notifications'[k].status]
  BY <1>3, RaisedIsTyped
<1>5. Changed = {k \in NoteIds' : \/ k \notin NoteIds
                                  \/ notifications'[k].status # notifications[k].status}
  BY <1>3 DEF Changed
<1>6. PICK x, y : x = NoteTold(v, n) /\ y = NoteTold(v, n)'
  OBVIOUS
<1>7. NoEntry \in NoteEntry
  BY DEF NoEntry, NoteEntry
<1>8. x = IF n \in NoteIds THEN EntryTold(v, notifications[n]) ELSE NoEntry
  BY <1>6 DEF NoteTold
<1>9. y = IF n \in NoteIds' THEN EntryTold(v, notifications'[n]) ELSE NoEntry
  BY <1>6 DEF NoteTold
<1>10. x \in NoteEntry /\ y \in NoteEntry
  BY <1>3, <1>4, <1>7, <1>8, <1>9, EntryToldTyped
<1>11. ASSUME NEW k \in NoteIds
       PROVE  /\ NoteMoves(notifications[k], notifications'[k])
              /\ notifications[k].status = "Failed" => notifications[k].retry_count > 0
  <2>1. notifications[k].status = "Failed" => notifications[k].retry_count \in 1..MaxRetries
    BY Facts DEF SendsInv, RetryBudget
  <2> QED  BY <2>1, NotificationsAssumption DEF NotesMove
<1>12. ASSUME n \in Changed PROVE <<x, RaisedBy(n), y>> \in EntrySteps(v, n)
  <2>1. PICK e \in NotificationEvent : e = RaisedBy(n)
    BY <1>4, <1>5, <1>12
  <2>2. PICK b \in Note : b = notifications'[n]
    BY <1>4, <1>5, <1>12
  <2>3. /\ e.id = n /\ e.notification_type = b.type /\ e.retry_count = b.retry_count
        /\ e.type = IF n \notin NoteIds THEN "NotificationCreated" ELSE EventOf[b.status]
    BY <1>4, <1>5, <1>12, <2>1, <2>2
  <2>4. y = EntryRead(v, x, e)
    <3>1. CASE n \in NoteIds
      <4>1. PICK a \in Note : a = notifications[n]
        BY <1>3, <3>1
      <4>2. NoteMoves(a, b) /\ (a.status = "Failed" => a.retry_count > 0) /\ b.status # a.status
        BY <1>5, <1>11, <1>12, <2>2, <3>1, <4>1
      <4>3. EntryTold(v, b) = EntryRead(v, EntryTold(v, a), e)
        BY <2>3, <3>1, <4>2, ToldMoves
      <4> QED  BY <1>3, <1>8, <1>9, <2>2, <3>1, <4>1, <4>3
    <3>2. CASE n \notin NoteIds
      <4>1. b.status = "Pending" /\ b.retry_count = 0 /\ n \in NoteIds'
        BY <1>5, <1>12, <2>2, <3>2 DEF NotesMove
      <4>2. EntryTold(v, b) = EntryRead(v, NoEntry, e)
        BY <2>3, <3>2, <4>1, ToldFirst
      <4> QED  BY <1>8, <1>9, <2>2, <3>2, <4>1, <4>2
    <3> QED  BY <3>1, <3>2
  <2>5. <<x, e, y>> \in EntrySteps(v, n)
    BY <1>10, <2>3, <2>4 DEF EntrySteps
  <2> QED  BY <2>1, <2>5
<1>13. ASSUME n \notin Changed PROVE y = x
  <2>1. CASE n \in NoteIds
    <3>1. PICK a \in Note, b \in Note : a = notifications[n] /\ b = notifications'[n]
      BY <1>3, <1>4, <2>1
    <3>2. NoteMoves(a, b) /\ (a.status = "Failed" => a.retry_count > 0) /\ b.status = a.status
      BY <1>3, <1>5, <1>11, <1>13, <2>1, <3>1
    <3>3. EntryTold(v, b) = EntryTold(v, a)
      BY <3>2, ToldMoves
    <3> QED  BY <1>3, <1>8, <1>9, <2>1, <3>1, <3>3
  <2>2. CASE n \notin NoteIds
    <3>1. n \notin NoteIds'
      BY <1>5, <1>13, <2>2
    <3> QED  BY <1>8, <1>9, <2>2, <3>1
  <2> QED  BY <2>1, <2>2
<1>14. ASSUME NEW i \in Changed, i # n
       PROVE  /\ <<x, RaisedBy(i), x>> \in EntrySteps(v, n)
              /\ <<y, RaisedBy(i), y>> \in EntrySteps(v, n)
  <2>1. PICK e \in NotificationEvent : e = RaisedBy(i) /\ e.id = i
    BY <1>4, <1>5
  <2>2. <<x, e, x>> \in EntrySteps(v, n) /\ <<y, e, y>> \in EntrySteps(v, n)
    BY <1>10, <1>14, <2>1 DEF EntrySteps
  <2> QED  BY <2>1, <2>2
<1>15. Leads(EntrySteps(v, n), x, NotificationsRaised, y)
  BY <1>2, <1>12, <1>13, <1>14, LeadsRaised, Zenon
<1> QED  BY <1>6, <1>15

LEMMA CommandKeepsViews ==
  ASSUME NotificationViewInv, NotificationCommand
  PROVE  NotificationViewInv'
<1>1. SendsInv /\ Next /\ view \in NotificationViewNames \cup {"none"}
      /\ unread \in Seq(NotificationEvent)
  BY DEF NotificationViewInv, NotificationCommand
<1>2. SendsInv' /\ NotesMove
  BY <1>1, StepKeeps, StepMoves
<1>3. CASE view = "none"
  BY <1>1, <1>2, <1>3 DEF NotificationViewInv, NotificationCommand, Unwatched, read_vars, NoteViews
<1>4. CASE view # "none"
  <2>1. /\ unread' = unread \o NotificationsRaised
        /\ UNCHANGED <<view, row, redelivered>>
    BY <1>4 DEF NotificationCommand, Publish
  <2>2. NotificationsRaised \in Seq(NotificationEvent)
    <3>1. RaisedInOrder(Cardinality(Changed))
      BY <1>2, RaisedOrder DEF NotesMove
    <3> QED  BY <3>1 DEF RaisedInOrder
  <2>3. unread' \in Seq(NotificationEvent)
    BY <1>1, <2>1, <2>2, ConcatProperties
  <2>4. ASSUME view \in NoteViews PROVE RowsLead'
    <3>1. PICK v \in NoteViews : v = view
      BY <2>4
    <3>2. ASSUME NEW n \in Nat
          PROVE  Leads(EntrySteps(v, n), EntryShown(v, row, n), unread', NoteTold(v, n)')
      <4>1. Leads(EntrySteps(v, n), EntryShown(v, row, n), unread, NoteTold(v, n))
        BY <2>4, <3>1 DEF NotificationViewInv, RowsLead
      <4>2. Leads(EntrySteps(v, n), NoteTold(v, n), NotificationsRaised, NoteTold(v, n)')
        BY <1>1, <1>2, ToldLeads
      <4> QED  BY <1>1, <2>1, <2>2, <4>1, <4>2, LeadsJoin
    <3>3. RowTyped(v, row)
      BY <2>4, <3>1 DEF NotificationViewInv, RowsLead
    <3>4. view' = v /\ row' = row /\ \A n : NoteTold(view, n)' = NoteTold(v, n)'
      BY <2>1, <3>1 DEF NoteTold
    <3> QED  BY <3>2, <3>3, <3>4 DEF RowsLead
  <2>5. ASSUME view = "notification_stats" PROVE StatsLead'
    <3>1. StatsTyped(row)'
      BY <2>1, <2>5 DEF NotificationViewInv, StatsLead
    <3>2. ASSUME NEW key PROVE CounterLeads(key)'
      <4>1. PICK extra \in {0, 1} :
              /\ extra = 1 => redelivered
              /\ Leads(StatSteps(key), CounterOf(row, key), unread, Cardinality(SentOf(key)) + extra)
        BY <2>5 DEF NotificationViewInv, StatsLead, CounterLeads
      <4>2. PICK c, d : c = Cardinality(SentOf(key)) /\ d = Cardinality(SentOf(key)')
        OBVIOUS
      <4>3. Leads(StatSteps(key), c, NotificationsRaised, d)
        BY <1>1, <1>2, <4>2, SentLeads
      <4>4. c \in Nat /\ d \in Nat
        <5>1. IsFiniteSet(SentOf(key))
          BY <1>1, <1>2, SentMore
        <5>2. IsFiniteSet(SentOf(key)')
          BY <1>2, SentStaysFinite
        <5> QED  BY <4>2, <5>1, <5>2, FS_CardinalityType
      <4>5. Leads(StatSteps(key), c + extra, NotificationsRaised, d + extra)
        <5>1. CASE extra = 0
          <6>1. c + extra = c /\ d + extra = d
            BY <4>4, <5>1
          <6> QED  BY <4>3, <6>1, Zenon
        <5>2. CASE extra = 1
          BY <2>2, <4>3, <4>4, <5>2, LeadsShift
        <5> QED  BY <5>1, <5>2
      <4>6. Leads(StatSteps(key), CounterOf(row, key), unread', d + extra)
        BY <1>1, <2>1, <2>2, <4>1, <4>2, <4>5, LeadsJoin
      <4>7. (Cardinality(SentOf(key)))' = d /\ CounterOf(row, key)' = CounterOf(row, key)
        BY <2>1, <4>2 DEF CounterOf
      <4>8. extra = 1 => redelivered'
        BY <2>1, <4>1
      <4> QED  BY <4>6, <4>7, <4>8 DEF CounterLeads
    <3> QED  BY <3>1, <3>2 DEF StatsLead
  <2> QED  BY <1>1, <1>2, <2>1, <2>3, <2>4, <2>5, Zenon DEF NotificationViewInv
<1> QED  BY <1>3, <1>4

LEMMA ProjectionKeepsViews ==
  ASSUME NotificationViewInv, NotificationProjection
  PROVE  NotificationViewInv'
<1>1. /\ SendsInv /\ view \in NotificationViewNames \cup {"none"}
      /\ unread \in Seq(NotificationEvent)
  BY DEF NotificationViewInv
<1>2. /\ unread # << >> /\ row' = NotificationProjected(row, Head(unread))
      /\ \/ unread' = Tail(unread) /\ UNCHANGED redelivered
         \/ unread' = unread /\ redelivered' = TRUE /\ ~redelivered
      /\ UNCHANGED view /\ UNCHANGED vars
  BY DEF NotificationProjection, Project
<1>3. SendsInv'
  BY <1>1, <1>2, StepKeeps
<1>4. Head(unread) \in NotificationEvent /\ unread' \in Seq(NotificationEvent)
  BY <1>1, <1>2, HeadTailProperties
<1>5. PICK e \in NotificationEvent : e = Head(unread)
  BY <1>4
<1>6. ASSUME view \in NoteViews PROVE RowsLead'
  <2>1. PICK v \in NoteViews : v = view
    BY <1>6
  <2>2. RowTyped(v, row) /\ \A n \in Nat : Leads(EntrySteps(v, n), EntryShown(v, row, n), unread,
                                                 NoteTold(v, n))
    BY <1>6, <2>1 DEF NotificationViewInv, RowsLead
  <2>3. ReadsOnly(v, row, e.id, EntryRead(v, EntryShown(v, row, e.id), e), row')
    BY <1>2, <1>5, <2>1, <2>2, NoteViewReads
  <2>4. ASSUME NEW n \in Nat
        PROVE  Leads(EntrySteps(v, n), EntryShown(v, row', n), unread', NoteTold(v, n))
    <3>1. PICK x, z, y : /\ x = EntryShown(v, row, n) /\ z = EntryShown(v, row', n)
                         /\ y = NoteTold(v, n)
      OBVIOUS
    <3>2. x \in NoteEntry
      BY <2>2, <3>1, EntryShownTyped
    <3>3. z = IF e.id = n THEN EntryRead(v, x, e) ELSE x
      BY <2>3, <3>1 DEF ReadsOnly
    <3>4. \A w : <<x, e, w>> \in EntrySteps(v, n) => w = z
      BY <3>3 DEF EntrySteps
    <3>5. <<z, e, z>> \in EntrySteps(v, n)
      <4>1. z \in NoteEntry /\ (e.id = n => EntryRead(v, z, e) = z)
        BY <3>2, <3>3, EntryReadTyped, EntryReadAgain
      <4> QED  BY <4>1 DEF EntrySteps
    <3>6. Leads(EntrySteps(v, n), x, unread, y)
      BY <2>2, <3>1
    <3>7. /\ Leads(EntrySteps(v, n), z, Tail(unread), y)
          /\ <<z, Head(unread), z>> \in EntrySteps(v, n) => Leads(EntrySteps(v, n), z, unread, y)
      BY <1>1, <1>2, <1>5, <3>4, <3>6, LeadsProject
    <3> QED  BY <1>2, <1>5, <3>1, <3>5, <3>7
  <2>5. RowTyped(v, row')
    BY <2>3 DEF ReadsOnly
  <2>6. view' = v /\ \A n : NoteTold(view, n)' = NoteTold(v, n)
    BY <1>2, <2>1 DEF NoteTold, vars, NoteIds
  <2> QED  BY <2>4, <2>5, <2>6 DEF RowsLead
<1>7. ASSUME view = "notification_stats" PROVE StatsLead'
  <2>1. StatsTyped(row) /\ \A key : CounterLeads(key)
    BY <1>7 DEF NotificationViewInv, StatsLead
  <2>2. StatsRead(row, e, row')
    BY <1>2, <1>5, <1>7, <2>1, StatsReads DEF NotificationProjected
  <2>3. ASSUME NEW key PROVE CounterLeads(key)'
    <3>1. PICK extra \in {0, 1} :
            /\ extra = 1 => redelivered
            /\ Leads(StatSteps(key), CounterOf(row, key), unread, Cardinality(SentOf(key)) + extra)
      BY <2>1 DEF CounterLeads
    <3>2. PICK c, d, t : /\ c = CounterOf(row, key) /\ d = CounterOf(row', key)
                         /\ t = Cardinality(SentOf(key))
      OBVIOUS
    <3>3. d = IF Counts(key, e) THEN c + 1 ELSE c
      BY <2>2, <3>2 DEF StatsRead
    <3>4. c \in Nat /\ d \in Nat /\ t \in Nat
      <4>1. IsFiniteSet(SentOf(key))
        BY <1>1, SentIsFinite
      <4> QED  BY <2>1, <2>2, <3>2, <4>1, CounterTyped, FS_CardinalityType DEF StatsRead
    <3>5. \A w : <<c, e, w>> \in StatSteps(key) => w = d
      BY <3>3 DEF StatSteps
    <3>6. Leads(StatSteps(key), c, unread, t + extra)
      BY <3>1, <3>2
    <3>7. Leads(StatSteps(key), d, Tail(unread), t + extra)
      BY <1>1, <1>2, <1>5, <3>5, <3>6, LeadsProject
    <3>8. (Cardinality(SentOf(key)))' = t /\ CounterOf(row, key)' = d
      BY <1>2, <3>2 DEF CounterOf, SentOf, vars
    <3>9. CASE unread' = Tail(unread) /\ UNCHANGED redelivered
      <4>1. extra = 1 => redelivered'
        BY <3>1, <3>9
      <4> QED  BY <3>7, <3>8, <3>9, <4>1 DEF CounterLeads
    <3>10. CASE unread' = unread /\ redelivered' = TRUE /\ ~redelivered
      <4>1. Leads(StatSteps(key), c, unread, t)
        <5>1. t + extra = t
          BY <3>1, <3>4, <3>10
        <5> QED  BY <3>6, <5>1, Zenon
      <4>2. CASE Counts(key, e)
        <5>1. Leads(StatSteps(key), d, unread, t + 1)
          BY <1>1, <3>3, <3>4, <4>1, <4>2, LeadsShift
        <5> QED  BY <3>8, <3>10, <5>1 DEF CounterLeads
      <4>3. CASE ~Counts(key, e)
        <5>1. Leads(StatSteps(key), d, unread, t + 0)
          BY <3>3, <3>4, <4>1, <4>3
        <5> QED  BY <3>8, <3>10, <5>1 DEF CounterLeads
      <4> QED  BY <4>2, <4>3
    <3> QED  BY <1>2, <3>9, <3>10
  <2> QED  BY <2>2, <2>3 DEF StatsLead, StatsRead
<1>8. view' = view
  BY <1>2
<1> QED  BY <1>1, <1>3, <1>4, <1>6, <1>7, <1>8, Zenon DEF NotificationViewInv

LEMMA ViewsStart == ASSUME NotificationViewsInit PROVE NotificationViewInv
<1>1. /\ SendsInv /\ view \in NotificationViewNames \cup {"none"}
      /\ row = << >> /\ unread = << >> /\ notifications = << >>
  BY InitKeeps DEF NotificationViewsInit, Init
<1>2. DOMAIN row = {} /\ NoteIds = {} /\ DOMAIN notifications = {}
  BY <1>1 DEF NoteIds
<1>3. unread \in Seq(NotificationEvent)
  BY <1>1, EmptySeq
<1>4. ASSUME view \in NoteViews PROVE RowsLead
  <2>1. RowTyped(view, row)
    BY <1>1, <1>2 DEF RowTyped
  <2>2. \A n : EntryShown(view, row, n) = NoEntry /\ NoteTold(view, n) = NoEntry
    BY <1>2 DEF EntryShown, NoteTold
  <2> QED  BY <1>1, <2>1, <2>2, LeadsNone DEF RowsLead
<1>5. ASSUME view = "notification_stats" PROVE StatsLead
  <2>1. StatsTyped(row)
    BY <1>1, <1>2 DEF StatsTyped
  <2>2. ASSUME NEW key PROVE CounterLeads(key)
    <3>1. SentOf(key) = {} /\ CounterOf(row, key) = 0
      BY <1>2 DEF SentOf, CounterOf
    <3>2. Cardinality(SentOf(key)) + 0 = 0
      BY <3>1, FS_EmptySet
    <3>3. Leads(StatSteps(key), 0, << >>, 0)
      BY LeadsNone
    <3> QED  BY <1>1, <3>1, <3>2, <3>3 DEF CounterLeads
  <2> QED  BY <2>1, <2>2 DEF StatsLead
<1> QED  BY <1>1, <1>3, <1>4, <1>5, Zenon DEF NotificationViewInv

(* With nothing left to read, what was to be said is what is shown.        *)
LEMMA ViewsTell == ASSUME NotificationViewInv PROVE NotificationViewsFollow
<1> SUFFICES ASSUME CaughtUp PROVE NotificationViewsFollow
  BY DEF NotificationViewsFollow
<1>1. /\ SendsInv /\ unread = << >> /\ DOMAIN notifications = NoteIds
      /\ \A n \in NoteIds : notifications[n] \in Note /\ n \in Nat
  BY Facts DEF NotificationViewInv, CaughtUp, SendsInv
<1>2. ASSUME NEW v \in NoteViews, view = v
      PROVE  /\ RowTyped(v, row)
             /\ \A n \in Nat : EntryShown(v, row, n) = NoteTold(v, n)
  <2>1. /\ RowTyped(v, row)
        /\ \A n \in Nat : Leads(EntrySteps(v, n), EntryShown(v, row, n), << >>, NoteTold(v, n))
    BY <1>1, <1>2 DEF NotificationViewInv, RowsLead
  <2> QED  BY <2>1, LeadsNone
<1>3. NoEntry.status = "None"
  BY DEF NoEntry
<1>4. ASSUME view = "notification_log"
      PROVE  /\ DOMAIN row = DOMAIN notifications
             /\ \A n \in DOMAIN row : /\ row[n].status = notifications[n].status
                                      /\ row[n].retry_count = notifications[n].retry_count
  <2>1. /\ DOMAIN row \subseteq Nat /\ row \in [DOMAIN row -> [status : Status, retry_count : Nat]]
        /\ \A n \in Nat : EntryShown(view, row, n) = NoteTold(view, n)
    BY <1>2, <1>4 DEF NoteViews, RowTyped, NoteRows
  <2>2. ASSUME NEW n \in Nat
        PROVE  /\ n \in DOMAIN row <=> n \in NoteIds
               /\ n \in DOMAIN row => row[n].status = notifications[n].status
                                      /\ row[n].retry_count = notifications[n].retry_count
    <3>1. /\ n \in DOMAIN row => /\ EntryShown(view, row, n) = row[n]
                                 /\ row[n].status \in Status
          /\ n \notin DOMAIN row => EntryShown(view, row, n) = NoEntry
      BY <1>4, <2>1 DEF EntryShown, EntryOf
    <3>2. /\ n \in NoteIds => NoteTold(view, n) = [status |-> notifications[n].status,
                                                   retry_count |-> notifications[n].retry_count]
          /\ n \notin NoteIds => NoteTold(view, n) = NoEntry
      BY <1>4 DEF NoteTold, EntryTold
    <3>3. n \in NoteIds => notifications[n].status \in Status
      BY <1>1 DEF Note
    <3>4. "None" \notin Status
      BY DEF Status
    <3>5. EntryShown(view, row, n) = NoteTold(view, n)
      BY <2>1
    <3> QED  BY <1>3, <3>1, <3>2, <3>3, <3>4, <3>5
  <2> QED  BY <1>1, <2>1, <2>2
<1>5. ASSUME view = "customer_notifications"
      PROVE  row = [n \in ForCustomer |-> ShownAs(notifications[n])]
  <2>1. /\ DOMAIN row \subseteq Nat /\ row \in [DOMAIN row -> Status]
        /\ \A n \in Nat : EntryShown(view, row, n) = NoteTold(view, n)
    BY <1>2, <1>5 DEF NoteViews, RowTyped, NoteRows
  <2>2. ASSUME NEW n \in Nat
        PROVE  /\ n \in DOMAIN row <=> n \in ForCustomer
               /\ n \in DOMAIN row => row[n] = ShownAs(notifications[n])
    <3>1. /\ n \in DOMAIN row => /\ EntryShown(view, row, n) = [status |-> row[n], retry_count |-> 0]
                                 /\ row[n] \in Status
          /\ n \notin DOMAIN row => EntryShown(view, row, n) = NoEntry
      BY <1>5, <2>1 DEF EntryShown, EntryOf
    <3>2. n \in ForCustomer <=> n \in NoteIds /\ notifications[n].type # "LowStockAlert"
      BY <1>1 DEF ForCustomer
    <3>3. /\ n \in ForCustomer => NoteTold(view, n) = [status |-> ShownAs(notifications[n]),
                                                       retry_count |-> 0]
          /\ n \notin ForCustomer => NoteTold(view, n) = NoEntry
      BY <1>5, <3>2 DEF NoteTold, EntryTold
    <3>4. "None" \notin Status /\ ShownAs(notifications[n]) # "None"
      BY DEF Status, ShownAs
    <3>5. EntryShown(view, row, n) = NoteTold(view, n)
      BY <2>1
    <3> QED  BY <1>3, <3>1, <3>3, <3>4, <3>5
  <2>3. ForCustomer \subseteq Nat
    BY <1>1 DEF ForCustomer
  <2>4. DOMAIN row = ForCustomer
    BY <2>1, <2>2, <2>3
  <2>5. row = [n \in DOMAIN row |-> row[n]]
    BY <2>1
  <2> QED  BY <2>1, <2>2, <2>4, <2>5
<1>6. ASSUME view = "failed_notifications"
      PROVE  LET failed == {n \in DOMAIN notifications : notifications[n].status = "Failed"} IN
             row = [n \in failed |-> notifications[n].retry_count]
  <2> DEFINE failed == {n \in DOMAIN notifications : notifications[n].status = "Failed"}
  <2>1. /\ DOMAIN row \subseteq Nat /\ row \in [DOMAIN row -> Nat]
        /\ \A n \in Nat : EntryShown(view, row, n) = NoteTold(view, n)
    BY <1>2, <1>6 DEF NoteViews, RowTyped, NoteRows
  <2>2. ASSUME NEW n \in Nat
        PROVE  /\ n \in DOMAIN row <=> n \in failed
               /\ n \in DOMAIN row => row[n] = notifications[n].retry_count
    <3>1. /\ n \in DOMAIN row => EntryShown(view, row, n) = [status |-> "Failed", retry_count |-> row[n]]
          /\ n \notin DOMAIN row => EntryShown(view, row, n) = NoEntry
      BY <1>6 DEF EntryShown, EntryOf
    <3>2. /\ n \in failed => NoteTold(view, n) = [status |-> "Failed",
                                                  retry_count |-> notifications[n].retry_count]
          /\ n \notin failed => NoteTold(view, n) = NoEntry
      BY <1>1, <1>6 DEF NoteTold, EntryTold
    <3>3. EntryShown(view, row, n) = NoteTold(view, n)
      BY <2>1
    <3> HIDE DEF failed
    <3> QED  BY <1>3, <3>1, <3>2, <3>3
  <2>3. failed \subseteq Nat
    BY <1>1
  <2> HIDE DEF failed
  <2>4. DOMAIN row = failed
    BY <2>1, <2>2, <2>3
  <2>5. row = [n \in DOMAIN row |-> row[n]]
    BY <2>1
  <2>6. row = [n \in failed |-> notifications[n].retry_count]
    BY <2>1, <2>2, <2>4, <2>5
  <2> QED  BY <2>6 DEF failed
<1>7. ASSUME view = "notification_stats", NEW key
      PROVE  LET counted == IF key \in DOMAIN row THEN row[key] ELSE 0
                 sent    == Cardinality(SentOf(key))
             IN  counted = sent \/ (redelivered /\ counted = sent + 1)
  <2>1. PICK c, t : c = CounterOf(row, key) /\ t = Cardinality(SentOf(key))
    OBVIOUS
  <2>2. PICK extra \in {0, 1} :
          (extra = 1 => redelivered) /\ Leads(StatSteps(key), c, << >>, t + extra)
    BY <1>1, <1>7, <2>1 DEF NotificationViewInv, StatsLead, CounterLeads
  <2>3. t + extra = c /\ t \in Nat
    BY <1>1, <2>1, <2>2, LeadsNone, SentIsFinite, FS_CardinalityType
  <2>4. c = t \/ (redelivered /\ c = t + 1)
    BY <2>2, <2>3
  <2> QED  BY <2>1, <2>4 DEF CounterOf
<1> QED  BY <1>4, <1>5, <1>6, <1>7, Zenon DEF NotificationViewsFollow

(* However many notifications are sent, fail, are cancelled and retried,   *)
(* and whatever waits to be read, the four projections of notifications    *)
(* that caught up follow, an event handled twice included; of the counters *)
(* none is then more than one ahead (notifications/projections).           *)
THEOREM NotificationIsShown == NotificationViewsSpec => []NotificationViewsFollow
<1>1. NotificationViewsInit => NotificationViewInv
  BY ViewsStart
<1>2. NotificationViewInv /\ [NotificationViewsNext]_read_and_vars => NotificationViewInv'
  <2> SUFFICES ASSUME NotificationViewInv, [NotificationViewsNext]_read_and_vars
               PROVE  NotificationViewInv'
    OBVIOUS
  <2>1. CASE NotificationViewsNext
    BY <2>1, CommandKeepsViews, ProjectionKeepsViews DEF NotificationViewsNext
  <2>2. CASE UNCHANGED read_and_vars
    <3>1. SendsInv'
      BY <2>2, StepKeeps DEF NotificationViewInv, read_and_vars
    <3>2. UNCHANGED <<view, row, unread, redelivered, notifications>>
      BY <2>2 DEF read_and_vars, read_vars, vars
    <3> QED  BY <3>1, <3>2 DEF NotificationViewInv, RowsLead, StatsLead, CounterLeads, SentOf,
                               NoteTold, NoteIds
  <2> QED  BY <2>1, <2>2
<1>3. NotificationViewInv => NotificationViewsFollow
  BY ViewsTell
<1> QED  BY <1>1, <1>2, <1>3, PTL DEF NotificationViewsSpec
================================================================================
