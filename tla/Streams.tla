------------------------------- MODULE Streams -------------------------------
(***************************************************************************)
(* Redis Streams as the Protean engine reads them.  The events of a unit   *)
(* of work are appended to the stream of their aggregate when it commits;  *)
(* every subscription reads that stream in order and at its own pace, and  *)
(* skips the events its handlers do not handle.  Its queue is what it has  *)
(* still to handle, up to and including the message it is busy with, which *)
(* it is given again unless it acknowledges it.                            *)
(***************************************************************************)
LOCAL INSTANCE Sequences

CONSTANT Handled    \* subscription -> the event types its handlers handle

VARIABLE queues     \* subscription -> messages it has still to handle

(* An event reaches the subscriptions of its stream that handle it.  No     *)
(* unit of work here raises two events that any of them handles.           *)
Publish(q, subscriptions, event) ==
  [s \in DOMAIN q |-> IF s \in subscriptions /\ event.type \in Handled[s]
                     THEN Append(q[s], event) ELSE q[s]]

Take(subscription) == [queues EXCEPT ![subscription] = Tail(@)]

(* The subscription has this message to handle next.                       *)
Receives(subscription, type) ==
  queues[subscription] # << >> /\ Head(queues[subscription]).type = type
===============================================================================
