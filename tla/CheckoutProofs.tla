---------------------------- MODULE CheckoutProofs ----------------------------
(***************************************************************************)
(* What is proved of a checkout for any reservations, any stock and any    *)
(* number of crashes and redeliveries: that the saga's verdicts are        *)
(* grounded, that a paid order has its captured payment, that the          *)
(* ReservationStatus projection is behind but never wrong, and that the    *)
(* saga leaves a paid order alone unless a handler died.                   *)
(***************************************************************************)
EXTENDS Checkout, SequenceTheorems, TLAPS

------------------------------------------------------------------------------
(* Why the saga's verdicts are grounded although its three streams         *)
(* overtake each other and messages come twice: what a message says was so *)
(* when it was published, and is never undone.                             *)
Holds(m) ==
  /\ m.type = "PaymentSucceeded" => pay_status = "Succeeded"
  /\ m.type = "PaymentFailed" /\ ~Retries(m) => Exhausted
  /\ m.type = "ReservationReleased" => reservations[m.reservation_id].status = "Released"

(* The messages a subscription may have to handle.  Only releases take the *)
(* backfill lane: nothing that happens to a reservation later overtakes    *)
(* one.                                                                    *)
Facts(s) ==
  {m \in Message : /\ m.type \in Handled[s]
                   /\ s \in Backfill => m.type = "ReservationReleased"
                   /\ Holds(m)}

SagaStatus == {"None", "awaiting_reservation", "awaiting_payment", "retrying",
               "completed", "failed"}

ViewStatuses == {"None", "Active", "Confirmed", "Released"}

StateOK ==
  /\ order_status \in {"Created", "Confirmed", "Payment_Pending", "Paid", "Cancelled"}
  /\ pay_status \in {"None", "Pending", "Succeeded", "Failed"}
  /\ attempt_count \in 0..Pay!MAX_PAYMENT_ATTEMPTS
  /\ reservations \in [ReservationIds -> Stock!Reservation]
  /\ saga \in [status : SagaStatus, retry_count : Nat]
  /\ view \in [ReservationIds -> ViewStatuses]
  /\ releasing \subseteq ReservationIds
  /\ crashes \in Nat

QueuesOK == /\ queues \in [Subscriptions -> Seq(Message)]
            /\ \A s \in Subscriptions : queues[s] \in Seq(Facts(s))

(* Until a handler dies, the order and its saga learn of the capture in    *)
(* one go.                                                                 *)
CompletedOncePaid == order_status = "Paid" /\ crashes = 0 => saga.status = "completed"

(* The message is not acknowledged before the last release.                *)
StillToRelease == releasing # {} => queues["release/order"] # << >>

CheckoutInv == /\ StateOK /\ QueuesOK /\ StillToRelease /\ CompletedOncePaid
               /\ VerdictsGrounded /\ PaidIsCaptured /\ ViewCatchesUp

------------------------------------------------------------------------------
(* What the commands do, as far as the proof is concerned.                 *)

StockEvents == {"StockReserved", "ReservationConfirmed", "ReservationReleased"}

(* A command of the item moves one reservation on, and says so.            *)
StockMoves(r, type) ==
  /\ reservations' \in [ReservationIds -> Stock!Reservation]
  /\ \A other \in ReservationIds \ {r} : reservations'[other] = reservations[other]
  /\ reservations[r].status # "Released"
  /\ reservations'[r].status = ViewStatus(type)
  /\ StockMessage = [type |-> type, reservation_id |-> r]

StockActs == \E r \in ReservationIds :
               \E type \in StockEvents :
                 StockMoves(r, type)

LEMMA ReserveMoves ==
  ASSUME StateOK, Stock!reserve("order", 1)
  PROVE  StockActs
<1> DEFINE made == [status |-> "Active", quantity |-> 1, order_id |-> "order"]
<1>1. PICK r \in ReservationIds :
        /\ reservations[r] = Stock!NoReservation
        /\ reservations' = [reservations EXCEPT ![r] = made]
        /\ stock_raised' =
             <<[type |-> "StockReserved", reservation_id |-> r, order_id |-> "order",
                quantity |-> 1, new_available |-> levels.available - 1]>>
             \o Stock!check_low_stock(levels')
  BY DEF Stock!reserve, Stock!OnStockReserved
<1>2. StockMessage = [type |-> "StockReserved", reservation_id |-> r]
  <2>1. PICK alert : Stock!check_low_stock(levels') \in {<< >>, <<alert>>}
    BY DEF Stock!check_low_stock
  <2>2. Head(stock_raised') =
          [type |-> "StockReserved", reservation_id |-> r, order_id |-> "order",
           quantity |-> 1, new_available |-> levels.available - 1]
    BY <1>1, <2>1
  <2> QED  BY <2>2 DEF StockMessage
<1>3. made \in Stock!Reservation
  BY DEF Stock!Reservation, Stock!ReservationStatus
<1>4. reservations' \in [ReservationIds -> Stock!Reservation]
  <2> HIDE DEF made
  <2> QED  BY <1>1, <1>3 DEF StateOK
<1>5. reservations[r].status # "Released" /\ reservations'[r].status = "Active"
  BY <1>1 DEF StateOK, Stock!NoReservation
<1>6. StockMoves(r, "StockReserved")
  BY <1>1, <1>2, <1>4, <1>5 DEF StockMoves, StateOK, ViewStatus
<1> QED  BY <1>6 DEF StockActs, StockEvents

LEMMA ReleaseMoves ==
  ASSUME StateOK, NEW r \in ReservationIds, Stock!release_reservation(r)
  PROVE  StockMoves(r, "ReservationReleased")
<1>1. /\ reservations[r].status = "Active"
      /\ reservations' = [reservations EXCEPT ![r].status = "Released"]
  BY DEF Stock!release_reservation, Stock!OnReservationReleased
<1>2. StockMessage = [type |-> "ReservationReleased", reservation_id |-> r]
  BY DEF Stock!release_reservation, StockMessage
<1>3. [reservations[r] EXCEPT !.status = "Released"] \in Stock!Reservation
  BY DEF StateOK, Stock!Reservation, Stock!ReservationStatus
<1>4. reservations' \in [ReservationIds -> Stock!Reservation]
  BY <1>1, <1>3 DEF StateOK
<1>5. reservations'[r].status = "Released"
  BY <1>1 DEF StateOK, Stock!Reservation
<1> QED  BY <1>1, <1>2, <1>4, <1>5 DEF StockMoves, StateOK, ViewStatus

LEMMA ConfirmMoves ==
  ASSUME StateOK, NEW r \in ReservationIds, Stock!confirm_reservation(r)
  PROVE  StockMoves(r, "ReservationConfirmed")
<1>1. /\ reservations[r].status = "Active"
      /\ reservations' = [reservations EXCEPT ![r].status = "Confirmed"]
  BY DEF Stock!confirm_reservation, Stock!OnReservationConfirmed
<1>2. StockMessage = [type |-> "ReservationConfirmed", reservation_id |-> r]
  BY DEF Stock!confirm_reservation, StockMessage
<1>3. [reservations[r] EXCEPT !.status = "Confirmed"] \in Stock!Reservation
  BY DEF StateOK, Stock!Reservation, Stock!ReservationStatus
<1>4. reservations' \in [ReservationIds -> Stock!Reservation]
  BY <1>1, <1>3 DEF StateOK
<1>5. reservations'[r].status = "Confirmed"
  BY <1>1 DEF StateOK, Stock!Reservation
<1> QED  BY <1>1, <1>2, <1>4, <1>5 DEF StockMoves, StateOK, ViewStatus
(* A command of the payment never takes back a capture, nor the last       *)
(* attempt's failure, and the event it raises says what is so.             *)
PayActs ==
  /\ pay_status' \in {"Pending", "Succeeded", "Failed"}
  /\ attempt_count' \in 0..Pay!MAX_PAYMENT_ATTEMPTS
  /\ pay_status # "Succeeded" /\ ~Exhausted
  /\ \/ Head(pay_raised').type \in {"PaymentInitiated", "PaymentRetryInitiated"}
     \/ Head(pay_raised') = [type |-> "PaymentSucceeded"] /\ pay_status' = "Succeeded"
     \/ /\ Head(pay_raised') = [type |-> "PaymentFailed",
                                can_retry |-> attempt_count < Pay!MAX_PAYMENT_ATTEMPTS]
        /\ pay_status' = "Failed" /\ attempt_count' = attempt_count

LEMMA InitiateActs == StateOK /\ InitiatePayment => PayActs
  BY DEF StateOK, InitiatePayment, PayActs, Exhausted, Pay!MAX_PAYMENT_ATTEMPTS

LEMMA WebhookActs == StateOK /\ ProcessPaymentWebhook => PayActs
<1> SUFFICES ASSUME StateOK, ProcessPaymentWebhook PROVE PayActs
  OBVIOUS
<1>0. pay_status = "Pending"
  BY DEF StateOK, ProcessPaymentWebhook, Pay!ProcessPaymentWebhook, Pay!record_success,
     Pay!record_failure, Pay!CanTransition, Pay!ValidTransitions, Pay!PaymentStatus
<1>1. CASE Pay!record_success
  BY <1>0, <1>1 DEF StateOK, PayActs, Exhausted, Pay!record_success, Pay!OnPaymentSucceeded
<1>2. CASE Pay!record_failure
  BY <1>0, <1>2 DEF StateOK, PayActs, Exhausted, Pay!record_failure, Pay!OnPaymentFailed
<1> QED  BY <1>1, <1>2 DEF ProcessPaymentWebhook, Pay!ProcessPaymentWebhook

LEMMA RetryActs == StateOK /\ RetryPayment => PayActs
  BY DEF StateOK, RetryPayment, PayActs, Exhausted, Pay!RetryPayment, Pay!retry, Pay!can_retry,
     Pay!OnPaymentRetryInitiated, Pay!MAX_PAYMENT_ATTEMPTS

(* The order ends up where its state machine allows, and Cancelled is      *)
(* final: none of the commands given here refunds it.                      *)
OrderActs ==
  /\ order_status' \in {"Created", "Confirmed", "Payment_Pending", "Paid", "Cancelled"}
  /\ order_status = "Cancelled" => order_status' = "Cancelled"

OrderMoves == OrderActs /\ order_status' # "Paid"

LEMMA ConfirmActs == StateOK /\ Ord!confirm => OrderMoves
  BY DEF StateOK, OrderActs, OrderMoves, Ord!confirm, Ord!CanTransition, Ord!ValidTransitions,
     Ord!OrderStatus, Ord!MoveTo

LEMMA CancelActs ==
  StateOK /\ CancelBySaga => OrderMoves /\ order_status' = "Cancelled"
  BY DEF StateOK, OrderActs, OrderMoves, CancelBySaga, Ord!cancel, Ord!CancellableStates,
     Ord!Ignore, Ord!MoveTo

LEMMA PendingActs ==
  StateOK /\ RecordPaymentPending =>
    OrderActs /\ (order_status' = "Paid" => UNCHANGED <<order_status, order_payment>>)
  BY DEF StateOK, OrderActs, RecordPaymentPending, Ord!record_payment_pending, Ord!Ignore,
     Ord!CanTransition, Ord!ValidTransitions, Ord!OrderStatus, OrderIdle

LEMMA SuccessActs ==
  StateOK /\ RecordPaymentSuccess =>
    /\ OrderActs
    /\ order_status' = "Paid" =>
         order_payment'.id = "pay" \/ UNCHANGED <<order_status, order_payment>>
  BY DEF StateOK, OrderActs, RecordPaymentSuccess, Ord!record_payment_success, Ord!Ignore,
     Ord!CanTransition, Ord!ValidTransitions, Ord!OrderStatus, OrderIdle

------------------------------------------------------------------------------
(* Queues.                                                                 *)

(* A queue of facts stays one when an older fact is taken from it or a new *)
(* one is put in.                                                          *)
LEMMA QueueOfFacts ==
  ASSUME NEW F, NEW G, F \subseteq G, NEW q \in Seq(F)
  PROVE  /\ q \in Seq(G)
         /\ q # << >> => Head(q) \in F /\ Tail(q) \in Seq(F)
         /\ \A e \in G : Append(q, e) \in Seq(G)
<1>1. q \in Seq(G)
  <2>1. Len(q) \in Nat /\ q \in [1..Len(q) -> F]
    OBVIOUS
  <2>2. q \in [1..Len(q) -> G]
    BY <2>1
  <2> QED  BY <2>1, <2>2
<1>2. q # << >> => Head(q) \in F /\ Tail(q) \in Seq(F)
  OBVIOUS
<1> QED  BY <1>1, <1>2

(* Every step keeps the facts it finds.                                    *)
FactsStay ==
  /\ pay_status = "Succeeded" => pay_status' = "Succeeded"
  /\ Exhausted => Exhausted'
  /\ \A r \in ReservationIds :
       reservations[r].status = "Released" => reservations'[r].status = "Released"

LEMMA FactsGrow ==
  ASSUME FactsStay, NEW s
  PROVE  Facts(s) \subseteq Facts(s)'
<1> SUFFICES ASSUME NEW m \in Message, Holds(m) PROVE Holds(m)'
  BY DEF Facts
<1>1. m.type = "ReservationReleased" => m.reservation_id \in ReservationIds
  BY DEF Message
<1> QED  BY <1>1 DEF Holds, FactsStay, Retries

(* A list of queues holds facts only, as the next state sees them.         *)
HoldFacts(q) == /\ q \in [Subscriptions -> Seq(Message)]
                /\ \A s \in Subscriptions : q[s] \in Seq(Facts(s)')

LEMMA KeptFacts ==
  ASSUME QueuesOK, FactsStay
  PROVE  /\ HoldFacts(queues)
         /\ \A s \in Subscriptions : queues[s] # << >> => HoldFacts(Take(s))
<1>1. \A s \in Subscriptions : queues[s] \in Seq(Facts(s)')
  BY FactsGrow, QueueOfFacts DEF QueuesOK
<1>2. HoldFacts(queues)
  BY <1>1 DEF HoldFacts, QueuesOK
<1>3. ASSUME NEW s \in Subscriptions, queues[s] # << >>
      PROVE  HoldFacts(Take(s))
  <2>1. Tail(queues[s]) \in Seq(Message) /\ Tail(queues[s]) \in Seq(Facts(s)')
    BY <1>1, <1>3, QueueOfFacts DEF QueuesOK
  <2>2. Take(s) \in [Subscriptions -> Seq(Message)]
    BY <2>1 DEF Take, QueuesOK
  <2>3. \A t \in Subscriptions : Take(s)[t] = IF t = s THEN Tail(queues[s]) ELSE queues[t]
    BY DEF Take, QueuesOK
  <2> QED  BY <1>1, <2>1, <2>2, <2>3 DEF HoldFacts
<1> QED  BY <1>2, <1>3

LEMMA PublishedFacts ==
  ASSUME NEW q, HoldFacts(q), NEW subscriptions, NEW e,
         \A s \in subscriptions \cap Subscriptions :
           e.type \in Handled[s] => e \in Message /\ e \in Facts(s)'
  PROVE  HoldFacts(Publish(q, subscriptions, e))
<1> DEFINE p == Publish(q, subscriptions, e)
<1>1. DOMAIN q = Subscriptions
  BY DEF HoldFacts
<1>2. ASSUME NEW s \in Subscriptions
      PROVE  p[s] \in Seq(Message) /\ p[s] \in Seq(Facts(s)')
  <2>1. q[s] \in Seq(Message) /\ q[s] \in Seq(Facts(s)')
    BY DEF HoldFacts
  <2>2. CASE s \in subscriptions /\ e.type \in Handled[s]
    <3>1. e \in Message /\ e \in Facts(s)'
      BY <2>2
    <3>2. p[s] = Append(q[s], e)
      BY <1>1, <2>2 DEF Publish
    <3> QED  BY <2>1, <3>1, <3>2, QueueOfFacts
  <2>3. CASE ~(s \in subscriptions /\ e.type \in Handled[s])
    <3>1. p[s] = q[s]
      BY <1>1, <2>3 DEF Publish
    <3> QED  BY <2>1, <3>1
  <2> QED  BY <2>2, <2>3
<1>3. p \in [Subscriptions -> Seq(Message)]
  BY <1>1, <1>2 DEF Publish
<1> QED  BY <1>2, <1>3 DEF HoldFacts

LEMMA OrderPublishes ==
  ASSUME NEW q, HoldFacts(q)
  PROVE  HoldFacts(PublishOrder(q))
<1> DEFINE e == [type |-> Head(order_raised')]
<1>1. ASSUME NEW s \in {"saga/order", "release/order"}, e.type \in Handled[s]
      PROVE  e \in Message /\ e \in Facts(s)'
  <2>1. e \in Message /\ s \notin Backfill /\ e.type \in {"OrderConfirmed", "OrderCancelled"}
    BY <1>1 DEF Handled, Subscriptions, Primary, Backfill, Message
  <2> HIDE DEF e
  <2> QED  BY <1>1, <2>1 DEF Facts, Holds
<1>2. HoldFacts(Publish(q, {"saga/order", "release/order"}, e))
  <2> HIDE DEF e
  <2> QED  BY <1>1, PublishedFacts
<1> QED  BY <1>2 DEF PublishOrder

LEMMA StockPublishes ==
  ASSUME NEW q, HoldFacts(q), NEW r \in ReservationIds,
         NEW type \in StockEvents,
         StockMoves(r, type)
  PROVE  /\ HoldFacts(PublishStock(q))
         /\ type = "ReservationReleased" => HoldFacts(PublishStockLow(q))
<1> DEFINE e == StockMessage
<1>1. e \in Message /\ e.type = type /\ e.reservation_id = r
  BY DEF StockMoves, StockEvents, Message
<1>2. type = "ReservationReleased" => reservations'[r].status = "Released"
  BY DEF StockMoves, ViewStatus
<1> HIDE DEF e
<1>3. ASSUME NEW s, e.type \in Handled[s], s \in Backfill => type = "ReservationReleased"
      PROVE  e \in Facts(s)'
  BY <1>1, <1>2, <1>3 DEF Facts, Holds, StockEvents
<1>4. HoldFacts(Publish(q, {"saga/stock", "view/stock"}, e))
  <2>1. {"saga/stock", "view/stock"} \cap Backfill = {}
    BY DEF Backfill
  <2> QED  BY <1>1, <1>3, <2>1, PublishedFacts
<1>5. ASSUME type = "ReservationReleased"
      PROVE  HoldFacts(Publish(q, {"saga/stock:backfill", "view/stock:backfill"}, e))
  BY <1>1, <1>3, <1>5, PublishedFacts
<1> QED  BY <1>4, <1>5 DEF PublishStock, PublishStockLow, e

LEMMA PaymentPublishes ==
  ASSUME NEW q, HoldFacts(q), StateOK, PayActs
  PROVE  HoldFacts(PublishPayment(q))
<1> DEFINE event == Head(pay_raised')
           e == IF event.type = "PaymentFailed"
                THEN [type |-> event.type, can_retry |-> event.can_retry,
                      attempt_number |-> attempt_count']
                ELSE [type |-> event.type]
<1>2. "saga/payment" \notin Backfill
  BY DEF Backfill
<1>1. e.type \in Handled["saga/payment"] => e \in Message /\ e \in Facts("saga/payment")'
  <2>1. CASE event.type \in {"PaymentInitiated", "PaymentRetryInitiated"}
    BY <2>1 DEF Handled, Subscriptions, Primary
  <2>2. CASE event = [type |-> "PaymentSucceeded"] /\ pay_status' = "Succeeded"
    <3>1. e = [type |-> "PaymentSucceeded"]
      BY <2>2
    <3> QED  BY <2>2, <3>1, <1>2 DEF Message, Facts, Holds
  <2>3. CASE /\ event = [type |-> "PaymentFailed",
                         can_retry |-> attempt_count < Pay!MAX_PAYMENT_ATTEMPTS]
             /\ pay_status' = "Failed" /\ attempt_count' = attempt_count
    <3>1. e = [type |-> "PaymentFailed", can_retry |-> attempt_count < Pay!MAX_PAYMENT_ATTEMPTS,
               attempt_number |-> attempt_count]
      BY <2>3
    <3> DEFINE told == attempt_count < Pay!MAX_PAYMENT_ATTEMPTS
    <3>2. attempt_count \in 0..3 /\ told \in BOOLEAN
      BY DEF StateOK, Pay!MAX_PAYMENT_ATTEMPTS
    <3>3. ~told => attempt_count = Pay!MAX_PAYMENT_ATTEMPTS
      BY <3>2 DEF Pay!MAX_PAYMENT_ATTEMPTS
    <3>a. ~(attempt_count < 3) => ~told
      BY DEF Pay!MAX_PAYMENT_ATTEMPTS
    <3> HIDE DEF told
    <3>4. e = [type |-> "PaymentFailed", can_retry |-> told, attempt_number |-> attempt_count]
      BY <3>1 DEF told
    <3>b. e.type = "PaymentFailed" /\ e.can_retry = told /\ e.attempt_number = attempt_count
      BY <3>4
    <3>c. e \in Message
      BY <3>2, <3>4 DEF Message
    <3> HIDE DEF e
    <3>d. ~Retries(e) => ~told
      BY <3>a, <3>b DEF Retries, MAX_PAYMENT_RETRIES
    <3>5. ~Retries(e) => Exhausted'
      BY <2>3, <3>3, <3>d DEF Exhausted
    <3> QED  BY <1>2, <3>b, <3>c, <3>5 DEF Facts, Holds, Retries
  <2> QED  BY <2>1, <2>2, <2>3 DEF PayActs
<1>3. HoldFacts(Publish(q, {"saga/payment"}, e))
  <2> HIDE DEF e
  <2> QED  BY <1>1, <1>2, PublishedFacts
<1> QED  BY <1>3 DEF PublishPayment

------------------------------------------------------------------------------
(* The projection and what it has still to read.                           *)

(* Projecting the oldest event, once or twice, keeps what they tell.       *)
LEMMA TellsOnceProjected ==
  ASSUME NEW S, NEW q \in Seq(S), q # << >>,
         NEW v, v \in [ReservationIds -> ViewStatuses],
         Head(q).reservation_id \in ReservationIds,
         NEW r \in ReservationIds, NEW s, Tells(q, v[r], r, s)
  PROVE  /\ Tells(Tail(q), Projected(v, Head(q))[r], r, s)
         /\ Tells(q, Projected(v, Head(q))[r], r, s)
<1> DEFINE t == Tail(q)
           w == Projected(v, Head(q))[r]
<1>1. /\ Len(q) \in Nat /\ Len(q) >= 1 /\ DOMAIN q = 1..Len(q) /\ Head(q) = q[1]
      /\ Len(t) = Len(q) - 1 /\ DOMAIN t = 1..(Len(q) - 1)
      /\ \A k \in DOMAIN t : t[k] = q[k + 1]
  OBVIOUS
<1>2. w = IF q[1].reservation_id = r THEN ViewStatus(q[1].type) ELSE v[r]
  BY <1>1 DEF Projected
<1> HIDE DEF t, w
<1>3. ASSUME NEW k \in LastOf(t, r)
      PROVE  ViewStatus(t[k].type) = s
  <2>1. k + 1 \in LastOf(q, r)
    <3>1. k \in DOMAIN t /\ k + 1 \in DOMAIN q /\ q[k + 1].reservation_id = r
      BY <1>1 DEF LastOf
    <3>2. ASSUME NEW later \in ((k + 1) + 1)..Len(q)
          PROVE  q[later].reservation_id # r
      <4>1. later - 1 \in (k + 1)..Len(t) /\ later - 1 \in DOMAIN t /\ (later - 1) + 1 = later
        BY <1>1, <3>1
      <4> QED  BY <1>1, <4>1 DEF LastOf
    <3> QED  BY <3>1, <3>2 DEF LastOf
  <2>2. t[k] = q[k + 1]
    BY <1>1 DEF LastOf
  <2> QED  BY <2>1, <2>2 DEF Tells
<1>4. ASSUME \A k \in DOMAIN t : t[k].reservation_id # r
      PROVE  w = s
  <2>1. \A k \in 2..Len(q) : k - 1 \in DOMAIN t /\ q[k] = t[k - 1]
    BY <1>1
  <2>2. CASE q[1].reservation_id = r
    <3>1. 1 \in LastOf(q, r)
      BY <1>1, <1>4, <2>1, <2>2 DEF LastOf
    <3> QED  BY <1>2, <2>2, <3>1 DEF Tells
  <2>3. CASE q[1].reservation_id # r
    <3>1. \A k \in DOMAIN q : q[k].reservation_id # r
      <4>1. \A k \in DOMAIN q : k = 1 \/ k \in 2..Len(q)
        BY <1>1
      <4> QED  BY <1>4, <2>1, <2>3, <4>1
    <3> QED  BY <1>2, <2>3, <3>1 DEF Tells
  <2> QED  BY <2>2, <2>3
<1>5. (\A k \in DOMAIN q : q[k].reservation_id # r) => w = s
  BY <1>1, <1>2 DEF Tells
<1>6. \A k \in LastOf(q, r) : ViewStatus(q[k].type) = s
  BY DEF Tells
<1> QED  BY <1>3, <1>4, <1>5, <1>6 DEF Tells, t, w

(* A new event goes before those of the backfill lane.  About another      *)
(* reservation it tells nothing, about this one it is the last word unless *)
(* the backfill lane has one.                                              *)
LEMMA TellsOncePublished ==
  ASSUME NEW S, NEW p \in Seq(S), NEW b \in Seq(S), NEW e \in S,
         NEW shown, NEW r, NEW s
  PROVE  /\ e.reservation_id # r /\ Tells(p \o b, shown, r, s)
            => Tells(Append(p, e) \o b, shown, r, s)
         /\ e.reservation_id = r /\ (\A k \in DOMAIN b : b[k].reservation_id # r)
            => Tells(Append(p, e) \o b, shown, r, ViewStatus(e.type))
<1> DEFINE o == p \o b
           n == Append(p, e) \o b
<1>1. /\ Len(p) \in Nat /\ Len(b) \in Nat
      /\ DOMAIN b = 1..Len(b)
      /\ Len(o) = Len(p) + Len(b) /\ DOMAIN o = 1..Len(o)
      /\ Len(n) = Len(p) + 1 + Len(b) /\ DOMAIN n = 1..Len(n)
  OBVIOUS
<1>2. /\ \A k \in 1..Len(p) : o[k] = p[k] /\ n[k] = p[k]
      /\ n[Len(p) + 1] = e
      /\ \A k \in 1..Len(b) : o[Len(p) + k] = b[k] /\ n[Len(p) + 1 + k] = b[k]
  OBVIOUS
<1> HIDE DEF o, n
<1>3. /\ \A k \in 1..Len(p) : n[k] = o[k]
      /\ \A k \in (Len(p) + 2)..Len(n) : /\ k - 1 \in (Len(p) + 1)..Len(o)
                                         /\ n[k] = o[k - 1]
                                         /\ k - (Len(p) + 1) \in DOMAIN b
                                         /\ n[k] = b[k - (Len(p) + 1)]
  <2>0. Len(p) \in Nat /\ Len(b) \in Nat /\ Len(n) = Len(p) + 1 + Len(b)
    BY <1>1
  <2>1. \A k \in (Len(p) + 2)..Len(n) :
           /\ k - (Len(p) + 1) \in 1..Len(b)
           /\ Len(p) + 1 + (k - (Len(p) + 1)) = k
           /\ Len(p) + (k - (Len(p) + 1)) = k - 1
    <3> HIDE DEF n
    <3> QED  BY <2>0
  <2>2. ASSUME NEW k \in (Len(p) + 2)..Len(n)
        PROVE  /\ k - 1 \in (Len(p) + 1)..Len(o)
               /\ n[k] = o[k - 1] /\ n[k] = b[k - (Len(p) + 1)]
    <3> DEFINE j == k - (Len(p) + 1)
    <3>1. j \in 1..Len(b) /\ Len(p) + 1 + j = k /\ Len(p) + j = k - 1
      BY <2>1
    <3> HIDE DEF j
    <3>2. n[k] = b[j] /\ o[k - 1] = b[j]
      <4>1. n[Len(p) + 1 + j] = b[j] /\ o[Len(p) + j] = b[j]
        BY <1>2, <3>1
      <4> QED  BY <3>1, <4>1, Zenon
    <3>3. k - 1 \in (Len(p) + 1)..Len(o)
      BY <1>1
    <3> QED  BY <3>2, <3>3 DEF j
  <2> QED  BY <1>1, <1>2, <2>1, <2>2
<1>4. \A k \in DOMAIN n : k \in 1..Len(p) \/ k = Len(p) + 1 \/ k \in (Len(p) + 2)..Len(n)
  BY <1>1
<1>5. \A k \in (Len(p) + 1)..Len(o) :
        k + 1 \in (Len(p) + 2)..Len(n) /\ (k + 1) - 1 = k /\ n[k + 1] = o[k]
  <2>1. \A k \in (Len(p) + 1)..Len(o) : k + 1 \in (Len(p) + 2)..Len(n) /\ (k + 1) - 1 = k
    BY <1>1
  <2> QED  BY <1>3, <2>1
<1>6. ASSUME e.reservation_id # r, Tells(o, shown, r, s)
      PROVE  Tells(n, shown, r, s)
  <2>1. ASSUME NEW k \in LastOf(n, r)
        PROVE  ViewStatus(n[k].type) = s
    <3>0. /\ k \in DOMAIN n /\ n[k].reservation_id = r
          /\ \A later \in (k + 1)..Len(n) : n[later].reservation_id # r
      BY DEF LastOf
    <3>1. CASE k \in 1..Len(p)
      <4>1. ASSUME NEW later \in (k + 1)..Len(o)
            PROVE  o[later].reservation_id # r
        <5>1. CASE later \in 1..Len(p)
          <6>1. later \in (k + 1)..Len(n) /\ n[later] = o[later]
            BY <1>1, <1>3, <3>1, <5>1
          <6> QED  BY <3>0, <6>1
        <5>2. CASE later \in (Len(p) + 1)..Len(o)
          <6>1. later + 1 \in (k + 1)..Len(n) /\ n[later + 1] = o[later]
            BY <1>1, <1>5, <3>1, <5>2
          <6> QED  BY <3>0, <6>1
        <5> QED  BY <1>1, <3>1, <5>1, <5>2
      <4>2. k \in DOMAIN o /\ n[k] = o[k]
        BY <1>1, <1>3, <3>1
      <4>3. k \in LastOf(o, r)
        BY <3>0, <4>1, <4>2 DEF LastOf
      <4> QED  BY <1>6, <4>2, <4>3 DEF Tells
    <3>2. CASE k \in (Len(p) + 2)..Len(n)
      <4>1. ASSUME NEW later \in ((k - 1) + 1)..Len(o)
            PROVE  o[later].reservation_id # r
        <5>1. later \in (Len(p) + 1)..Len(o) /\ later + 1 \in (k + 1)..Len(n)
          BY <1>1, <3>2
        <5> QED  BY <1>5, <3>0, <5>1
      <4>2. k - 1 \in DOMAIN o /\ n[k] = o[k - 1]
        BY <1>1, <1>3, <3>2
      <4>3. k - 1 \in LastOf(o, r)
        BY <3>0, <4>1, <4>2 DEF LastOf
      <4> QED  BY <1>6, <4>2, <4>3 DEF Tells
    <3>3. k # Len(p) + 1
      BY <1>2, <1>6, <3>0
    <3> QED  BY <1>4, <3>0, <3>1, <3>2, <3>3
  <2>2. ASSUME \A k \in DOMAIN n : n[k].reservation_id # r
        PROVE  shown = s
    <3>1. ASSUME NEW k \in DOMAIN o
          PROVE  o[k].reservation_id # r
      <4>1. CASE k \in 1..Len(p)
        BY <1>1, <1>3, <2>2, <4>1
      <4>2. CASE k \in (Len(p) + 1)..Len(o)
        <5>1. k + 1 \in DOMAIN n
          BY <1>1, <1>5, <4>2
        <5> QED  BY <1>5, <2>2, <4>2, <5>1
      <4> QED  BY <1>1, <4>1, <4>2
    <3> QED  BY <1>6, <3>1 DEF Tells
  <2> QED  BY <2>1, <2>2 DEF Tells
<1>7. ASSUME e.reservation_id = r, \A k \in DOMAIN b : b[k].reservation_id # r
      PROVE  Tells(n, shown, r, ViewStatus(e.type))
  <2>1. Len(p) + 1 \in DOMAIN n /\ n[Len(p) + 1].reservation_id = r
    BY <1>1, <1>2, <1>7
  <2>2. ASSUME NEW k \in LastOf(n, r)
        PROVE  k = Len(p) + 1
    <3>0. /\ k \in DOMAIN n /\ n[k].reservation_id = r
          /\ \A later \in (k + 1)..Len(n) : n[later].reservation_id # r
      BY DEF LastOf
    <3>1. k \notin 1..Len(p)
      <4>1. k \in 1..Len(p) => Len(p) + 1 \in (k + 1)..Len(n)
        BY <1>1
      <4> QED  BY <2>1, <3>0, <4>1
    <3>2. k \notin (Len(p) + 2)..Len(n)
      <4>1. k \in (Len(p) + 2)..Len(n) => k - (Len(p) + 1) \in DOMAIN b
        BY <1>1
      <4> QED  BY <1>3, <1>7, <3>0, <4>1
    <3> QED  BY <1>4, <3>0, <3>1, <3>2
  <2> QED  BY <1>2, <2>1, <2>2 DEF Tells
<1> QED  BY <1>6, <1>7 DEF o, n

LEMMA OldestOf ==
  ASSUME NEW S, NEW q \in Seq(S), q # << >>
  PROVE  Head(q) = q[1] /\ 1 \in DOMAIN q
  OBVIOUS

(* The oldest event of the two lanes is the oldest of the first lane, and  *)
(* the newest of the second lane is the newest.                            *)
LEMMA EndsOfLanes ==
  ASSUME NEW S, NEW p \in Seq(S), NEW b \in Seq(S)
  PROVE  /\ p # << >> => /\ p \o b # << >> /\ Head(p \o b) = Head(p)
                        /\ Tail(p \o b) = Tail(p) \o b
         /\ \A e \in S : p \o Append(b, e) = Append(p \o b, e)
<1>1. /\ Len(p) \in Nat /\ Len(b) \in Nat /\ p \o b \in Seq(S)
      /\ Len(p \o b) = Len(p) + Len(b)
      /\ \A i \in 1..Len(p) : (p \o b)[i] = p[i]
      /\ \A i \in 1..Len(b) : (p \o b)[Len(p) + i] = b[i]
  OBVIOUS
<1>2. ASSUME p # << >>
      PROVE  /\ p \o b # << >> /\ Head(p \o b) = Head(p)
             /\ Tail(p \o b) = Tail(p) \o b
  <2>1. Len(p) >= 1 /\ Len(p \o b) >= 1
    BY <1>1, <1>2
  <2>2. p \o b # << >> /\ Head(p \o b) = Head(p)
    BY <1>1, <2>1
  <2>3. Tail(p \o b) \in Seq(S) /\ Len(Tail(p \o b)) = Len(p) + Len(b) - 1
        /\ Tail(p) \o b \in Seq(S) /\ Len(Tail(p) \o b) = Len(p) - 1 + Len(b)
    BY <1>1, <1>2, <2>2
  <2>4. \A i \in 1..Len(Tail(p \o b)) : Tail(p \o b)[i] = (p \o b)[i + 1]
    BY <1>1, <2>2, HeadTailProperties
  <2>5. \A i \in 1..Len(Tail(p \o b)) :
          (Tail(p) \o b)[i] = IF i <= Len(p) - 1 THEN p[i + 1] ELSE b[i - (Len(p) - 1)]
    <3>1. /\ Tail(p) \in Seq(S) /\ Len(Tail(p)) = Len(p) - 1
          /\ \A i \in 1..Len(Tail(p)) : Tail(p)[i] = p[i + 1]
      BY <1>2, HeadTailProperties
    <3> QED  BY <1>1, <2>3, <3>1, ConcatProperties
  <2>6. \A i \in 1..Len(Tail(p \o b)) :
          (p \o b)[i + 1] = IF i <= Len(p) - 1 THEN p[i + 1] ELSE b[i - (Len(p) - 1)]
    <3>1. \A i \in 1..Len(p \o b) : (p \o b)[i] = IF i <= Len(p) THEN p[i] ELSE b[i - Len(p)]
      BY <1>1, ConcatProperties
    <3> QED  BY <1>1, <2>3, <3>1
  <2>7. Tail(p \o b) = Tail(p) \o b
    BY <2>3, <2>4, <2>5, <2>6, SeqEqual
  <2> QED  BY <2>2, <2>7
<1>3. ASSUME NEW e \in S
      PROVE  p \o Append(b, e) = Append(p \o b, e)
  OBVIOUS
<1> QED  BY <1>2, <1>3

(* What the two lanes of the projection hold.                              *)
LEMMA LaneFacts ==
  ASSUME StateOK, QueuesOK
  PROVE  LET p == queues["view/stock"]
             b == queues["view/stock:backfill"]
         IN /\ p \in Seq(Message) /\ b \in Seq(Message)
            /\ \A k \in DOMAIN p : /\ p[k].reservation_id \in ReservationIds
                                   /\ p[k].type \in StockEvents
            /\ \A k \in DOMAIN b : /\ b[k].reservation_id \in ReservationIds
                                   /\ b[k].type \in StockEvents
                                   /\ reservations[b[k].reservation_id].status = "Released"
<1>1. ASSUME NEW s \in {"view/stock", "view/stock:backfill"}
      PROVE  /\ s \in Subscriptions /\ (s \in Backfill <=> s = "view/stock:backfill")
             /\ Handled[s] = StockEvents
  BY DEF Handled, Subscriptions, Primary, Backfill, StockEvents
<1>2. ASSUME NEW s \in {"view/stock", "view/stock:backfill"}, NEW m \in Facts(s)
      PROVE  /\ m.reservation_id \in ReservationIds /\ m.type \in StockEvents
             /\ s = "view/stock:backfill" => reservations[m.reservation_id].status = "Released"
  <2>1. m \in Message /\ m.type \in StockEvents
    BY <1>1 DEF Facts
  <2>2. m.reservation_id \in ReservationIds
    BY <2>1 DEF Message, StockEvents
  <2> QED  BY <1>1, <2>1, <2>2 DEF Facts, Holds
<1>3. ASSUME NEW s \in {"view/stock", "view/stock:backfill"}, NEW k \in DOMAIN queues[s]
      PROVE  queues[s][k] \in Facts(s)
  BY <1>1 DEF QueuesOK
<1> QED  BY <1>1, <1>2, <1>3 DEF QueuesOK

LEMMA ProjectorKeeps ==
  ASSUME StateOK, QueuesOK, ViewCatchesUp, ReservationStatusProjector
  PROVE  view' \in [ReservationIds -> ViewStatuses] /\ ViewCatchesUp'
<1> DEFINE p == queues["view/stock"]
           b == queues["view/stock:backfill"]
           lane == Lane("view/stock")
           e == Head(queues[lane])
<1>0. /\ p \in Seq(Message) /\ b \in Seq(Message)
      /\ \A k \in DOMAIN p : p[k].reservation_id \in ReservationIds /\ p[k].type \in StockEvents
      /\ \A k \in DOMAIN b : b[k].reservation_id \in ReservationIds /\ b[k].type \in StockEvents
  BY LaneFacts
<1>1. /\ queues[lane] # << >>
      /\ lane = IF p # << >> THEN "view/stock" ELSE "view/stock:backfill"
      /\ view' = Projected(view, e)
      /\ queues' = queues \/ queues' = Take(lane)
      /\ reservations' = reservations
  BY DEF ReservationStatusProjector, Lane, Lanes, StockIdle
<1>2. ToProject \in Seq(Message) /\ ToProject # << >> /\ Head(ToProject) = e
      /\ e.reservation_id \in ReservationIds /\ e.type \in StockEvents
  <2>1. CASE p # << >>
    <3>1. e = Head(p)
      BY <1>1, <2>1
    <3>a. Head(p) = p[1] /\ 1 \in DOMAIN p
      BY <1>0, <2>1, OldestOf
    <3>2. ToProject \in Seq(Message) /\ ToProject # << >> /\ Head(ToProject) = Head(p)
      <4>1. p \o b \in Seq(Message) /\ ToProject = p \o b
        BY <1>0 DEF ToProject
      <4>2. p \o b # << >> /\ Head(p \o b) = Head(p)
        BY <1>0, <2>1, EndsOfLanes
      <4> QED  BY <4>1, <4>2
    <3> QED  BY <1>0, <3>1, <3>a, <3>2
  <2>2. CASE p = << >>
    <3>1. ToProject = b /\ b # << >>
      BY <1>0, <1>1, <2>2 DEF ToProject
    <3>2. e = Head(b) /\ Head(b) = b[1] /\ 1 \in DOMAIN b
      BY <1>0, <1>1, <2>2, <3>1
    <3> QED  BY <1>0, <3>1, <3>2
  <2> QED  BY <2>1, <2>2
<1>3. ToProject' = ToProject \/ ToProject' = Tail(ToProject)
  <2>1. CASE queues' = queues
    BY <2>1 DEF ToProject
  <2>2. CASE queues' = Take("view/stock") /\ p # << >>
    <3>1. queues'["view/stock"] = Tail(p) /\ queues'["view/stock:backfill"] = b
      BY <2>2 DEF Take, QueuesOK, Subscriptions, Primary, Backfill
    <3>2. Tail(p) \o b = Tail(p \o b)
      BY <1>0, <2>2, EndsOfLanes
    <3> QED  BY <3>1, <3>2 DEF ToProject
  <2>3. CASE queues' = Take("view/stock:backfill") /\ p = << >>
    <3>1. queues'["view/stock"] = p /\ queues'["view/stock:backfill"] = Tail(b)
      BY <2>3 DEF Take, QueuesOK, Subscriptions, Primary, Backfill
    <3>2. p \o Tail(b) = Tail(p \o b)
      BY <1>0, <1>1, <2>3
    <3> QED  BY <3>1, <3>2 DEF ToProject
  <2> QED  BY <1>1, <2>1, <2>2, <2>3
<1>4. ViewStatus(e.type) \in ViewStatuses
  BY <1>2 DEF ViewStatus, ViewStatuses, StockEvents
<1>5. view \in [ReservationIds -> ViewStatuses]
  BY DEF StateOK
<1>6. view' \in [ReservationIds -> ViewStatuses]
  BY <1>1, <1>4, <1>5 DEF Projected
<1>7. ASSUME NEW r \in ReservationIds
      PROVE  Tells(ToProject, view[r], r, reservations[r].status)'
  <2>1. /\ Tells(Tail(ToProject), Projected(view, e)[r], r, reservations[r].status)
        /\ Tells(ToProject, Projected(view, e)[r], r, reservations[r].status)
    BY <1>2, <1>5, TellsOnceProjected DEF ViewCatchesUp
  <2> QED  BY <1>1, <1>3, <2>1 DEF Tells, LastOf
<1> QED  BY <1>6, <1>7 DEF ViewCatchesUp

(* A reservation moves on: the event goes last in either lane, and nothing *)
(* of the reservation is in the backfill lane yet.                         *)
LEMMA StockKeepsView ==
  ASSUME StateOK, QueuesOK, ViewCatchesUp, NEW r \in ReservationIds,
         NEW type \in StockEvents,
         StockMoves(r, type), view' = view,
         ToProject' = Append(queues["view/stock"], StockMessage) \o queues["view/stock:backfill"]
           \/ ToProject' = Append(ToProject, StockMessage)
  PROVE  ViewCatchesUp'
<1> DEFINE p == queues["view/stock"]
           b == queues["view/stock:backfill"]
           e == StockMessage
<1>0. /\ p \in Seq(Message) /\ b \in Seq(Message)
      /\ \A k \in DOMAIN b : /\ b[k].reservation_id \in ReservationIds
                             /\ reservations[b[k].reservation_id].status = "Released"
  BY LaneFacts
<1>1. /\ e \in Message /\ e.type = type /\ e.reservation_id = r
      /\ reservations'[r].status = ViewStatus(e.type)
      /\ \A other \in ReservationIds \ {r} : reservations'[other] = reservations[other]
      /\ reservations[r].status # "Released"
  BY DEF StockMoves, StockEvents, Message
<1> HIDE DEF e
<1>2. \A k \in DOMAIN b : b[k].reservation_id # r
  BY <1>0, <1>1
<1>3. ToProject \in Seq(Message) /\ Append(ToProject, e) = Append(ToProject, e) \o << >>
      /\ << >> \in Seq(Message) /\ ToProject = ToProject \o << >>
  BY <1>0 DEF ToProject
<1>4. ASSUME NEW o \in ReservationIds
      PROVE  Tells(ToProject, view[o], o, reservations[o].status)'
  <2>0. Tells(ToProject, view[o], o, reservations[o].status)
    BY DEF ViewCatchesUp
  <2>1. /\ Tells(Append(p, e) \o b, view[o], o, reservations'[o].status)
        /\ Tells(Append(ToProject, e), view[o], o, reservations'[o].status)
    <3>1. CASE o = r
      <4>1. Tells(Append(p, e) \o b, view[o], o, ViewStatus(e.type))
        BY <1>0, <1>1, <1>2, <3>1, TellsOncePublished
      <4>2. Tells(Append(ToProject, e) \o << >>, view[o], o, ViewStatus(e.type))
        <5>1. \A k \in DOMAIN << >> : << >>[k].reservation_id # r
          OBVIOUS
        <5> QED  BY <1>1, <1>3, <3>1, <5>1, TellsOncePublished
      <4> QED  BY <1>1, <1>3, <3>1, <4>1, <4>2
    <3>2. CASE o # r
      <4>1. Tells(Append(p, e) \o b, view[o], o, reservations[o].status)
        BY <1>0, <1>1, <2>0, <3>2, TellsOncePublished DEF ToProject
      <4>2. Tells(Append(ToProject, e) \o << >>, view[o], o, reservations[o].status)
        BY <1>1, <1>3, <2>0, <3>2, TellsOncePublished
      <4> QED  BY <1>1, <1>3, <3>2, <4>1, <4>2
    <3> QED  BY <3>1, <3>2
  <2>2. ToProject' = Append(p, e) \o b \/ ToProject' = Append(ToProject, e)
    BY DEF e
  <2> QED  BY <2>1, <2>2 DEF Tells, LastOf
<1> QED  BY <1>4 DEF ViewCatchesUp

------------------------------------------------------------------------------
(* The steps, by who takes them.                                           *)

LEMMA OldestIsFact ==
  ASSUME QueuesOK, NEW s \in Subscriptions, queues[s] # << >>
  PROVE  Head(queues[s]) \in Facts(s)
  BY QueueOfFacts DEF QueuesOK

LEMMA ViewStays ==
  ASSUME ViewCatchesUp, view' = view, reservations' = reservations,
         queues'["view/stock"] = queues["view/stock"],
         queues'["view/stock:backfill"] = queues["view/stock:backfill"]
  PROVE  ViewCatchesUp'
<1>1. ToProject' = ToProject
  BY DEF ToProject
<1> QED  BY <1>1 DEF ViewCatchesUp, Tells, LastOf

(* No other subscription has a part in the projection's two lanes.         *)
LEMMA QuietLanes ==
  ASSUME NEW q, DOMAIN q = Subscriptions, NEW s \in {"view/stock", "view/stock:backfill"}
  PROVE  PublishOrder(q)[s] = q[s] /\ PublishPayment(q)[s] = q[s]
<1>1. s \in DOMAIN q /\ s \notin {"saga/order", "release/order"} /\ s \notin {"saga/payment"}
  BY DEF Subscriptions, Primary, Backfill
<1>2. \A subscriptions, e : s \notin subscriptions => Publish(q, subscriptions, e)[s] = q[s]
  BY <1>1 DEF Publish
<1> QED  BY <1>1, <1>2 DEF PublishOrder, PublishPayment

(* What is published never empties a queue.                                *)
LEMMA PublishKeepsWaiting ==
  ASSUME NEW q, q \in [Subscriptions -> Seq(Message)], q["release/order"] # << >>
  PROVE  /\ PublishOrder(q)["release/order"] # << >>
         /\ PublishPayment(q)["release/order"] # << >>
         /\ PublishStock(q)["release/order"] # << >>
         /\ PublishStockLow(q)["release/order"] # << >>
<1>1. "release/order" \in Subscriptions
  BY DEF Subscriptions, Primary
<1>2. ASSUME NEW subscriptions, NEW e
      PROVE  Publish(q, subscriptions, e)["release/order"] # << >>
  <2>1. q["release/order"] \in Seq(Message \cup {e})
    BY <1>1, QueueOfFacts
  <2>2. Append(q["release/order"], e) # << >>
    BY <2>1
  <2> QED  BY <1>1, <2>2 DEF Publish
<1> QED  BY <1>2 DEF PublishOrder, PublishPayment, PublishStock, PublishStockLow

LEMMA TakeElsewhere ==
  ASSUME QueuesOK, NEW s \in {"saga/order", "saga/payment", "saga/stock",
                              "saga/stock:backfill", "release/order"}
  PROVE  /\ DOMAIN Take(s) = Subscriptions
         /\ \A t \in {"view/stock", "view/stock:backfill"} : Take(s)[t] = queues[t]
         /\ s # "release/order" => Take(s)["release/order"] = queues["release/order"]
  BY DEF Take, QueuesOK, Subscriptions, Primary, Backfill

(* What was decided stays decided while the saga takes no step.            *)
LEMMA VerdictsStay ==
  ASSUME CheckoutInv, FactsStay, OrderActs, saga' = saga, crashes' \in {crashes, crashes + 1},
         order_status' = "Paid" => UNCHANGED <<order_status, order_payment>>
  PROVE  CompletedOncePaid' /\ VerdictsGrounded' /\ PaidIsCaptured'
<1>1. crashes' = 0 => crashes = 0
  BY DEF CheckoutInv, StateOK
<1>2. ReservationReleased => ReservationReleased'
  BY DEF ReservationReleased, FactsStay
<1> QED  BY <1>1, <1>2 DEF CheckoutInv, CompletedOncePaid, VerdictsGrounded, PaidIsCaptured,
            FactsStay, OrderActs

(* Nobody but the order acts: a customer, or the saga on their behalf.     *)
LEMMA IdleKeepsFacts == StockIdle /\ PayIdle => FactsStay
  BY DEF StockIdle, PayIdle, FactsStay, Exhausted

LEMMA OrderCallKeeps ==
  ASSUME CheckoutInv, OrderMoves, OrderCall
  PROVE  CheckoutInv'
<1>1. FactsStay
  BY IdleKeepsFacts DEF OrderCall
<1>2. QueuesOK'
  BY <1>1, KeptFacts, OrderPublishes DEF CheckoutInv, OrderCall, HoldFacts, QueuesOK
<1>3. ViewCatchesUp'
  <2>1. \A s \in {"view/stock", "view/stock:backfill"} : queues'[s] = queues[s]
    BY QuietLanes DEF OrderCall, CheckoutInv, QueuesOK
  <2> QED  BY <2>1, ViewStays DEF CheckoutInv, OrderCall, StockIdle
<1>4. StateOK'
  BY DEF CheckoutInv, StateOK, OrderMoves, OrderActs, OrderCall, StockIdle, PayIdle
<1>5. CompletedOncePaid' /\ VerdictsGrounded' /\ PaidIsCaptured'
  BY <1>1, VerdictsStay DEF OrderCall, OrderMoves
<1>6. StillToRelease'
  BY PublishKeepsWaiting DEF CheckoutInv, QueuesOK, StillToRelease, OrderCall
<1> QED  BY <1>2, <1>3, <1>4, <1>5, <1>6 DEF CheckoutInv

LEMMA PayCallKeeps ==
  ASSUME CheckoutInv, PayActs, PayCall
  PROVE  CheckoutInv'
<1>1. FactsStay
  BY DEF PayActs, PayCall, StockIdle, FactsStay
<1>2. QueuesOK'
  BY <1>1, KeptFacts, PaymentPublishes DEF CheckoutInv, PayCall, HoldFacts, QueuesOK
<1>3. ViewCatchesUp'
  <2>1. \A s \in {"view/stock", "view/stock:backfill"} : queues'[s] = queues[s]
    BY QuietLanes DEF PayCall, CheckoutInv, QueuesOK
  <2> QED  BY <2>1, ViewStays DEF CheckoutInv, PayCall, StockIdle
<1>4. StateOK'
  BY DEF CheckoutInv, StateOK, PayActs, PayCall, StockIdle, OrderIdle
<1>5. CompletedOncePaid' /\ VerdictsGrounded' /\ PaidIsCaptured'
  <2>1. OrderActs /\ UNCHANGED <<order_status, order_payment>>
    BY DEF PayCall, OrderIdle, OrderActs, CheckoutInv, StateOK
  <2> QED  BY <1>1, <2>1, VerdictsStay DEF PayCall
<1>6. StillToRelease'
  BY PublishKeepsWaiting DEF CheckoutInv, QueuesOK, StillToRelease, PayCall
<1> QED  BY <1>2, <1>3, <1>4, <1>5, <1>6 DEF CheckoutInv

(* A reservation moves on, by a caller, the expiry job or the handler that *)
(* releases them.                                                          *)
LEMMA StockStepKeeps ==
  ASSUME CheckoutInv, NEW r \in ReservationIds, NEW type \in StockEvents, StockMoves(r, type),
         OrderIdle, PayIdle, UNCHANGED <<saga, view>>,
         releasing' \subseteq releasing, crashes' \in {crashes, crashes + 1},
         \/ queues' = PublishStock(queues)
         \/ /\ queues["release/order"] # << >> /\ releasing' = {}
            /\ queues' = PublishStock(Take("release/order"))
         \/ type = "ReservationReleased" /\ queues' = PublishStockLow(queues)
  PROVE  CheckoutInv'
<1> DEFINE p == queues["view/stock"]
           b == queues["view/stock:backfill"]
           e == StockMessage
<1>1. FactsStay
  <2>1. \A o \in ReservationIds :
          reservations[o].status = "Released" => reservations'[o].status = "Released"
    BY DEF StockMoves
  <2> QED  BY <2>1 DEF PayIdle, FactsStay, Exhausted
<1>2. "release/order" \in Subscriptions
  BY DEF Subscriptions, Primary
<1>3. QueuesOK'
  BY <1>1, <1>2, KeptFacts, StockPublishes DEF CheckoutInv, HoldFacts, QueuesOK
<1>4. ViewCatchesUp'
  <2>1. /\ {"view/stock", "view/stock:backfill"} \subseteq Subscriptions
        /\ StockEvents = Handled["view/stock"] /\ StockEvents = Handled["view/stock:backfill"]
    BY DEF Handled, Subscriptions, Primary, Backfill, StockEvents
  <2>2. e.type \in StockEvents /\ e \in Message
    BY DEF StockMoves, StockEvents, Message
  <2>3. ASSUME NEW q, DOMAIN q = Subscriptions, q["view/stock"] = p,
               q["view/stock:backfill"] = b, queues' = PublishStock(q)
        PROVE  ToProject' = Append(p, e) \o b
    <3>1. queues'["view/stock"] = Append(p, e) /\ queues'["view/stock:backfill"] = b
      <4> HIDE DEF e
      <4>1. queues' = Publish(q, {"saga/stock", "view/stock"}, e)
        BY <2>3 DEF PublishStock, e
      <4> QED  BY <2>1, <2>2, <2>3, <4>1 DEF Publish
    <3> QED  BY <3>1 DEF ToProject
  <2>4. ASSUME queues' = PublishStockLow(queues)
        PROVE  ToProject' = Append(ToProject, e)
    <3>1. queues'["view/stock"] = p /\ queues'["view/stock:backfill"] = Append(b, e)
      <4> HIDE DEF e
      <4>1. queues' = Publish(queues, {"saga/stock:backfill", "view/stock:backfill"}, e)
        BY <2>4 DEF PublishStockLow, e
      <4> QED  BY <2>1, <2>2, <4>1 DEF Publish, CheckoutInv, QueuesOK
    <3>2. p \in Seq(Message) /\ b \in Seq(Message)
      BY <2>1 DEF CheckoutInv, QueuesOK
    <3>3. p \o Append(b, e) = Append(p \o b, e)
      <4> HIDE DEF e, p, b
      <4>1. \A x \in Message : p \o Append(b, x) = Append(p \o b, x)
        BY <3>2, EndsOfLanes
      <4> QED  BY <2>2, <4>1, Zenon
    <3> QED  BY <3>1, <3>3 DEF ToProject
  <2>5. ToProject' = Append(p, e) \o b \/ ToProject' = Append(ToProject, e)
    <3>1. CASE queues' = PublishStock(queues)
      BY <2>3, <3>1 DEF CheckoutInv, QueuesOK
    <3>2. CASE queues' = PublishStock(Take("release/order"))
      BY <2>3, <3>2, TakeElsewhere DEF CheckoutInv
    <3> QED  BY <2>4, <3>1, <3>2
  <2> QED  BY <2>5, StockKeepsView DEF CheckoutInv
<1>5. StateOK'
  BY DEF CheckoutInv, StateOK, StockMoves, OrderIdle, PayIdle
<1>6. CompletedOncePaid' /\ VerdictsGrounded' /\ PaidIsCaptured'
  <2>1. OrderActs /\ UNCHANGED <<order_status, order_payment>>
    BY DEF OrderIdle, OrderActs, CheckoutInv, StateOK
  <2> QED  BY <1>1, <2>1, VerdictsStay
<1>7. StillToRelease'
  BY PublishKeepsWaiting DEF CheckoutInv, QueuesOK, StillToRelease
<1> QED  BY <1>3, <1>4, <1>5, <1>6, <1>7 DEF CheckoutInv

LEMMA StockCallKeeps ==
  ASSUME CheckoutInv, StockActs, StockCall
  PROVE  CheckoutInv'
<1>1. PICK r \in ReservationIds, type \in StockEvents : StockMoves(r, type)
  BY DEF StockActs
<1> QED  BY <1>1, StockStepKeeps DEF StockCall

LEMMA ReleaseStepKeeps ==
  ASSUME CheckoutInv, ReleaseNext
  PROVE  CheckoutInv'
<1>1. PICK r \in releasing :
        /\ Stock!release_reservation(r)
        /\ releasing' = releasing \ {r}
        /\ \/ queues' = PublishStock(queues) /\ crashes' = crashes
           \/ /\ releasing' = {} /\ queues' = PublishStock(Take("release/order"))
              /\ crashes' = crashes
           \/ queues' = PublishStock(queues) /\ crashes' = crashes + 1
        /\ OrderIdle /\ PayIdle /\ UNCHANGED <<saga, view>>
  BY DEF ReleaseNext
<1>2. r \in ReservationIds /\ "ReservationReleased" \in StockEvents
  BY DEF CheckoutInv, StateOK, StockEvents
<1>3. StockMoves(r, "ReservationReleased")
  BY <1>1, <1>2, ReleaseMoves DEF CheckoutInv
<1>4. queues["release/order"] # << >>
  BY DEF CheckoutInv, StillToRelease
<1> QED  BY <1>1, <1>2, <1>3, <1>4, StockStepKeeps

LEMMA ExpiryKeeps ==
  ASSUME CheckoutInv, ExpireStaleReservations
  PROVE  CheckoutInv'
<1>1. PICK r \in ReservationIds : Stock!release_reservation(r)
  BY DEF ExpireStaleReservations
<1>2. StockMoves(r, "ReservationReleased") /\ "ReservationReleased" \in StockEvents
  BY <1>1, ReleaseMoves DEF CheckoutInv, StockEvents
<1> QED  BY <1>2, StockStepKeeps DEF ExpireStaleReservations

(* The handler of OrderCancelled looks up what to release, or gives up.    *)
LEMMA QuietReleaseKeeps ==
  ASSUME CheckoutInv, on_order_cancelled \/ ReleaseRefused \/ ReleaseCrashes
  PROVE  CheckoutInv'
<1>0. /\ OrderIdle /\ StockIdle /\ PayIdle /\ UNCHANGED <<saga, view>>
      /\ crashes' \in {crashes, crashes + 1}
      /\ releasing' \in SUBSET ReservationIds
      /\ queues["release/order"] # << >>
      /\ queues' = queues \/ (queues' = Take("release/order") /\ releasing' = {})
  <2>1. CASE on_order_cancelled
    <3>1. Releasable \in SUBSET ReservationIds
      BY DEF Releasable
    <3>2. /\ queues["release/order"] # << >> /\ releasing' = Releasable
          /\ OrderIdle /\ StockIdle /\ PayIdle /\ UNCHANGED <<saga, view, crashes>>
          /\ IF Releasable = {} THEN Acknowledged ELSE UNCHANGED <<queues, failures>>
      BY <2>1 DEF on_order_cancelled, Receives
    <3>3. queues' = queues \/ (queues' = Take("release/order") /\ Releasable = {})
      BY <3>2 DEF Acknowledged
    <3> QED  BY <3>1, <3>2, <3>3
  <2>2. CASE ReleaseRefused
    BY <2>2 DEF ReleaseRefused, Acknowledged, CheckoutInv, StateOK, StillToRelease
  <2>3. CASE ReleaseCrashes
    BY <2>3 DEF ReleaseCrashes, CheckoutInv, StateOK, StillToRelease
  <2> QED  BY <2>1, <2>2, <2>3
<1>1. FactsStay
  BY <1>0, IdleKeepsFacts
<1>2. "release/order" \in Subscriptions
  BY DEF Subscriptions, Primary
<1>3. QueuesOK'
  BY <1>0, <1>1, <1>2, KeptFacts DEF CheckoutInv, HoldFacts, QueuesOK
<1>4. ViewCatchesUp'
  BY <1>0, TakeElsewhere, ViewStays DEF CheckoutInv, StockIdle
<1>5. StateOK'
  BY <1>0 DEF CheckoutInv, StateOK, OrderIdle, StockIdle, PayIdle
<1>6. CompletedOncePaid' /\ VerdictsGrounded' /\ PaidIsCaptured'
  <2>1. OrderActs /\ UNCHANGED <<order_status, order_payment>>
    BY <1>0 DEF OrderIdle, OrderActs, CheckoutInv, StateOK
  <2> QED  BY <1>0, <1>1, <2>1, VerdictsStay
<1>7. StillToRelease'
  BY <1>0 DEF StillToRelease
<1> QED  BY <1>3, <1>4, <1>5, <1>6, <1>7 DEF CheckoutInv

(* The projector takes an event of its own lanes, and nothing else moves.  *)
LEMMA ProjectionKeeps ==
  ASSUME CheckoutInv, ReservationStatusProjector
  PROVE  CheckoutInv'
<1> DEFINE lane == Lane("view/stock")
<1>0. /\ OrderIdle /\ StockIdle /\ PayIdle /\ UNCHANGED <<saga, releasing>>
      /\ crashes' \in {crashes, crashes + 1}
      /\ queues[lane] # << >>
      /\ queues' = queues \/ queues' = Take(lane)
      /\ lane \in {"view/stock", "view/stock:backfill"}
  BY DEF ReservationStatusProjector, Lane, Lanes
<1>1. FactsStay
  BY <1>0, IdleKeepsFacts
<1>2. {"release/order", "view/stock", "view/stock:backfill"} \subseteq Subscriptions
  BY DEF Subscriptions, Primary, Backfill
<1> HIDE DEF lane
<1>3. QueuesOK'
  BY <1>0, <1>1, <1>2, KeptFacts DEF CheckoutInv, HoldFacts, QueuesOK
<1>4. view' \in [ReservationIds -> ViewStatuses] /\ ViewCatchesUp'
  BY ProjectorKeeps DEF CheckoutInv
<1>5. StateOK'
  BY <1>0, <1>4 DEF CheckoutInv, StateOK, OrderIdle, StockIdle, PayIdle
<1>6. CompletedOncePaid' /\ VerdictsGrounded' /\ PaidIsCaptured'
  <2>1. OrderActs /\ UNCHANGED <<order_status, order_payment>>
    BY <1>0 DEF OrderIdle, OrderActs, CheckoutInv, StateOK
  <2> QED  BY <1>0, <1>1, <2>1, VerdictsStay
<1>7. StillToRelease'
  <2>1. Take(lane)["release/order"] = queues["release/order"]
    BY <1>0, <1>2 DEF Take, CheckoutInv, QueuesOK
  <2> QED  BY <1>0, <2>1 DEF CheckoutInv, StillToRelease
<1> QED  BY <1>3, <1>4, <1>5, <1>6, <1>7 DEF CheckoutInv

------------------------------------------------------------------------------
(* The saga.  It completes on a message that tells of the capture, and     *)
(* fails on one that tells of the last attempt or of a release, together   *)
(* with the cancellation.  The order it has just had marked as paid it     *)
(* leaves alone, having completed; only a crash in between opens a gap.    *)
LEMMA SagaStepKeeps ==
  ASSUME CheckoutInv, NEW s \in {"saga/order", "saga/payment", "saga/stock",
                                 "saga/stock:backfill"},
         queues[s] # << >>, OrderActs,
         NEW new \in [status : SagaStatus, retry_count : Nat],
         SagaHandles(s, TRUE, new),
         new.status = "completed" => pay_status = "Succeeded",
         new.status = "failed" =>
           order_status' = "Cancelled" /\ (Exhausted \/ ReservationReleased),
         order_status' = "Paid" =>
           /\ \/ UNCHANGED <<order_status, order_payment>>
              \/ order_payment'.id = "pay" /\ pay_status = "Succeeded"
           /\ new.status = "completed" \/ crashes # 0
  PROVE  CheckoutInv'
<1>0. /\ StockIdle /\ PayIdle /\ UNCHANGED <<view, releasing>>
      /\ crashes' \in {crashes, crashes + 1}
      /\ saga' \in {saga, new}
      /\ saga' = new \/ crashes' = crashes + 1
      /\ queues' = PublishOrder(Take(s)) \/ queues' = PublishOrder(queues)
  BY DEF SagaHandles
<1>1. FactsStay
  BY <1>0, IdleKeepsFacts
<1>2. s \in Subscriptions
  BY DEF Subscriptions, Primary, Backfill
<1>3. QueuesOK'
  BY <1>0, <1>1, <1>2, KeptFacts, OrderPublishes DEF CheckoutInv, HoldFacts, QueuesOK
<1>4. ViewCatchesUp'
  <2>1. \A t \in {"view/stock", "view/stock:backfill"} : queues'[t] = queues[t]
    BY <1>0, QuietLanes, TakeElsewhere DEF CheckoutInv, QueuesOK
  <2> QED  BY <1>0, <2>1, ViewStays DEF CheckoutInv, StockIdle
<1>5. StateOK'
  BY <1>0 DEF CheckoutInv, StateOK, OrderActs, StockIdle, PayIdle
<1>6. VerdictsGrounded'
  <2>1. ReservationReleased => ReservationReleased'
    BY <1>1 DEF ReservationReleased, FactsStay
  <2> QED  BY <1>0, <1>1, <2>1 DEF CheckoutInv, VerdictsGrounded, FactsStay, OrderActs
<1>7. CompletedOncePaid' /\ PaidIsCaptured'
  <2>1. crashes' = 0 => crashes = 0 /\ saga' = new
    BY <1>0 DEF CheckoutInv, StateOK
  <2> QED  BY <1>0, <1>1, <2>1 DEF CheckoutInv, CompletedOncePaid, PaidIsCaptured, FactsStay
<1>8. StillToRelease'
  <2>1. Take(s) \in [Subscriptions -> Seq(Message)]
    BY <1>1, <1>2, KeptFacts DEF CheckoutInv, HoldFacts
  <2> QED  BY <1>0, <2>1, TakeElsewhere, PublishKeepsWaiting
           DEF CheckoutInv, QueuesOK, StillToRelease
<1> QED  BY <1>3, <1>4, <1>5, <1>6, <1>7, <1>8 DEF CheckoutInv

LEMMA SagaKeeps ==
  ASSUME CheckoutInv, Saga
  PROVE  CheckoutInv'
<1> DEFINE lane == Lane("saga/stock")
           event == Head(queues["saga/payment"])
<1>0. /\ saga.status \in SagaStatus /\ saga.retry_count \in Nat
      /\ saga \in [status : SagaStatus, retry_count : Nat]
      /\ lane \in {"saga/stock", "saga/stock:backfill"} /\ lane \in Subscriptions
      /\ {"saga/order", "saga/payment"} \subseteq Subscriptions
      /\ Exhausted \in BOOLEAN
  BY DEF CheckoutInv, StateOK, Lane, Lanes, Subscriptions, Primary, Backfill, Exhausted
<1>1. Listening => order_status # "Paid" \/ crashes # 0
  BY DEF Listening, CheckoutInv, CompletedOncePaid
<1>2. OrderIdle => OrderActs
  BY DEF OrderIdle, OrderActs, CheckoutInv, StateOK
<1>3. \A status \in SagaStatus :
        [saga EXCEPT !.status = status] \in [status : SagaStatus, retry_count : Nat]
        /\ [saga EXCEPT !.status = status].status = status
  BY <1>0
<1>4. CASE on_order_confirmed
  <2> DEFINE new == IF saga.status \in {"completed", "failed"} THEN saga
                    ELSE [saga EXCEPT !.status = "awaiting_reservation"]
  <2>1. /\ queues["saga/order"] # << >> /\ OrderIdle
        /\ SagaHandles("saga/order", TRUE, new)
    BY <1>4 DEF on_order_confirmed, Receives, SagaHandles
  <2>2. /\ new \in [status : SagaStatus, retry_count : Nat]
        /\ new.status \in {"completed", "failed"} => new = saga
        /\ saga.status = "completed" => new.status = "completed"
    BY <1>0, <1>3 DEF SagaStatus
  <2> HIDE DEF new
  <2>3. order_status' = "Paid" => new.status = "completed" \/ crashes # 0
    BY <2>1, <2>2 DEF OrderIdle, CheckoutInv, CompletedOncePaid
  <2> QED  BY <1>2, <2>1, <2>2, <2>3, SagaStepKeeps
           DEF OrderIdle, CheckoutInv, VerdictsGrounded
<1>5. CASE on_stock_reserved
  <2> DEFINE new == [saga EXCEPT !.status = "awaiting_payment"]
  <2>1. /\ queues[lane] # << >> /\ RecordPaymentPending /\ Listening
        /\ SagaHandles(lane, TRUE, new)
    BY <1>5 DEF on_stock_reserved, Receives, SagaHandles
  <2>2. new \in [status : SagaStatus, retry_count : Nat] /\ new.status = "awaiting_payment"
    BY <1>3 DEF SagaStatus
  <2>3. OrderActs /\ (order_status' = "Paid" => UNCHANGED <<order_status, order_payment>>)
    BY <2>1, PendingActs DEF CheckoutInv
  <2> HIDE DEF new, lane
  <2> QED  BY <1>0, <1>1, <2>1, <2>2, <2>3, SagaStepKeeps
<1>6. CASE on_payment_succeeded
  <2> DEFINE new == [saga EXCEPT !.status = "completed"]
  <2>1. /\ queues["saga/payment"] # << >> /\ event.type = "PaymentSucceeded"
        /\ RecordPaymentSuccess /\ SagaHandles("saga/payment", TRUE, new)
    BY <1>6 DEF on_payment_succeeded, Receives, SagaHandles
  <2>2. new \in [status : SagaStatus, retry_count : Nat] /\ new.status = "completed"
    BY <1>3 DEF SagaStatus
  <2>3. pay_status = "Succeeded"
    BY <1>0, <2>1, OldestIsFact DEF CheckoutInv, Facts, Holds
  <2>4. /\ OrderActs
        /\ order_status' = "Paid" =>
             order_payment'.id = "pay" \/ UNCHANGED <<order_status, order_payment>>
    BY <2>1, SuccessActs DEF CheckoutInv
  <2> HIDE DEF new, event
  <2> QED  BY <2>1, <2>2, <2>3, <2>4, SagaStepKeeps
<1>7. CASE on_payment_failed
  <2> DEFINE To(status) == [status |-> status, retry_count |-> event.attempt_number]
  <2>1. /\ queues["saga/payment"] # << >> /\ event.type = "PaymentFailed" /\ Listening
        /\ \/ OrderIdle /\ SagaHandles("saga/payment", TRUE, To("retrying"))
           \/ ~Retries(event) /\ CancelBySaga /\ SagaHandles("saga/payment", TRUE, To("failed"))
    BY <1>7 DEF on_payment_failed, Receives, SagaHandles
  <2>2. event \in Facts("saga/payment")
    BY <1>0, <2>1, OldestIsFact DEF CheckoutInv
  <2>3. event.attempt_number \in Nat
    BY <2>1, <2>2 DEF Facts, Message
  <2>4. ~Retries(event) => Exhausted
    BY <2>1, <2>2 DEF Facts, Holds
  <2> HIDE DEF event
  <2>5. \A status \in SagaStatus : /\ To(status) \in [status : SagaStatus, retry_count : Nat]
                                   /\ To(status).status = status
    BY <2>3
  <2>6. "retrying" \in SagaStatus /\ "failed" \in SagaStatus
    BY DEF SagaStatus
  <2> HIDE DEF To
  <2>7. CASE OrderIdle /\ SagaHandles("saga/payment", TRUE, To("retrying"))
    BY <1>1, <1>2, <2>1, <2>5, <2>6, <2>7, SagaStepKeeps DEF OrderIdle
  <2>8. CASE ~Retries(event) /\ CancelBySaga /\ SagaHandles("saga/payment", TRUE, To("failed"))
    <3>1. OrderActs /\ order_status' = "Cancelled"
      BY <2>8, CancelActs DEF CheckoutInv, OrderMoves
    <3> QED  BY <2>1, <2>4, <2>5, <2>6, <2>8, <3>1, SagaStepKeeps
  <2> QED  BY <2>1, <2>7, <2>8
<1>8. CASE on_reservation_released
  <2> DEFINE new == [saga EXCEPT !.status = "failed"]
  <2>1. /\ queues[lane] # << >> /\ Head(queues[lane]).type = "ReservationReleased"
        /\ CancelBySaga /\ SagaHandles(lane, TRUE, new)
    BY <1>8 DEF on_reservation_released, Receives, SagaHandles
  <2>2. new \in [status : SagaStatus, retry_count : Nat] /\ new.status = "failed"
    BY <1>3 DEF SagaStatus
  <2>3. ReservationReleased
    <3>1. Head(queues[lane]) \in Facts(lane)
      BY <1>0, <2>1, OldestIsFact DEF CheckoutInv
    <3> HIDE DEF lane
    <3>2. Head(queues[lane]).reservation_id \in ReservationIds
      BY <2>1, <3>1 DEF Facts, Message
    <3> QED  BY <2>1, <3>1, <3>2 DEF Facts, Holds, ReservationReleased
  <2>4. OrderActs /\ order_status' = "Cancelled"
    BY <2>1, CancelActs DEF CheckoutInv, OrderMoves
  <2> HIDE DEF new, lane
  <2> QED  BY <1>0, <2>1, <2>2, <2>3, <2>4, SagaStepKeeps
<1>9. CASE Ignored
  <2>1. PICK s \in {lane, "saga/payment"} :
          queues[s] # << >> /\ OrderIdle /\ SagaHandles(s, TRUE, saga)
    BY <1>9 DEF Ignored, SagaHandles
  <2> HIDE DEF lane
  <2> QED  BY <1>0, <1>2, <2>1, SagaStepKeeps
           DEF OrderIdle, CheckoutInv, VerdictsGrounded, CompletedOncePaid
<1> QED  BY <1>4, <1>5, <1>6, <1>7, <1>8, <1>9 DEF Saga

------------------------------------------------------------------------------
LEMMA InitIsSafe == Init => CheckoutInv
<1> SUFFICES ASSUME Init PROVE CheckoutInv
  OBVIOUS
<1>1. StateOK
  <2>1. Stock!NoReservation \in Stock!Reservation
    BY DEF Stock!NoReservation, Stock!Reservation, Stock!ReservationStatus
  <2>2. reservations \in [ReservationIds -> Stock!Reservation]
    BY <2>1 DEF Init, Stock!Init, Stock!InitializeStock
  <2> QED  BY <2>2 DEF Init, StateOK, SagaStatus, ViewStatuses, Pay!MAX_PAYMENT_ATTEMPTS
<1>2. QueuesOK
  BY DEF Init, QueuesOK
<1>3. ViewCatchesUp
  <2>1. DOMAIN ToProject = {}
    <3>1. queues["view/stock"] = << >> /\ queues["view/stock:backfill"] = << >>
      BY DEF Init, Subscriptions, Primary, Backfill
    <3> QED  BY <3>1 DEF ToProject
  <2>2. \A r \in ReservationIds : view[r] = reservations[r].status
    BY DEF Init, Stock!Init, Stock!InitializeStock, Stock!NoReservation
  <2>3. \A r \in ReservationIds : LastOf(ToProject, r) = {}
    BY <2>1 DEF LastOf
  <2> QED  BY <2>1, <2>2, <2>3 DEF ViewCatchesUp, Tells
<1> QED  BY <1>1, <1>2, <1>3 DEF Init, CheckoutInv, StillToRelease, CompletedOncePaid,
            VerdictsGrounded, PaidIsCaptured

LEMMA StepKeeps ==
  ASSUME CheckoutInv, [Next]_vars
  PROVE  CheckoutInv'
<1>0. StateOK
  BY DEF CheckoutInv
<1>1. CASE ConfirmOrder
  BY <1>0, <1>1, ConfirmActs, OrderCallKeeps DEF ConfirmOrder
<1>2. CASE CancelOrder
  BY <1>0, <1>2, CancelActs, OrderCallKeeps DEF CancelOrder, CancelBySaga
<1>3. CASE ReserveStock
  BY <1>0, <1>3, ReserveMoves, StockCallKeeps DEF ReserveStock
<1>4. CASE ConfirmReservation
  <2>1. PICK r \in ReservationIds : Stock!confirm_reservation(r)
    BY <1>4 DEF ConfirmReservation, Stock!ConfirmReservation
  <2>2. StockActs
    BY <1>0, <2>1, ConfirmMoves DEF StockActs, StockEvents
  <2> QED  BY <1>4, <2>2, StockCallKeeps DEF ConfirmReservation
<1>5. CASE ReleaseReservation
  <2>1. PICK r \in ReservationIds : Stock!release_reservation(r)
    BY <1>5 DEF ReleaseReservation, Stock!ReleaseReservation
  <2>2. StockActs
    BY <1>0, <2>1, ReleaseMoves DEF StockActs, StockEvents
  <2> QED  BY <1>5, <2>2, StockCallKeeps DEF ReleaseReservation
<1>6. CASE InitiatePayment
  BY <1>0, <1>6, InitiateActs, PayCallKeeps DEF InitiatePayment
<1>7. CASE ProcessPaymentWebhook
  BY <1>0, <1>7, WebhookActs, PayCallKeeps DEF ProcessPaymentWebhook
<1>8. CASE RetryPayment
  BY <1>0, <1>8, RetryActs, PayCallKeeps DEF RetryPayment
<1>9. CASE UNCHANGED vars
  <2>1. /\ UNCHANGED <<order_status, order_payment, order_raised, levels, reservations,
                       stock_raised, pay_status, attempts, attempt_count, pay_raised, saga,
                       view, releasing, failures, queues, crashes>>
    BY <1>9 DEF vars, order_vars, stock_vars, pay_vars
  <2>2. \A s \in Subscriptions : Facts(s)' = Facts(s)
    BY <2>1 DEF Facts, Holds, Exhausted
  <2>3. StateOK' /\ QueuesOK' /\ StillToRelease'
    BY <2>1, <2>2 DEF CheckoutInv, StateOK, QueuesOK, StillToRelease
  <2>4. CompletedOncePaid' /\ VerdictsGrounded' /\ PaidIsCaptured'
    BY <2>1 DEF CheckoutInv, CompletedOncePaid, VerdictsGrounded, PaidIsCaptured, Exhausted,
       ReservationReleased
  <2>5. ViewCatchesUp'
    BY <2>1, ViewStays DEF CheckoutInv
  <2> QED  BY <2>3, <2>4, <2>5 DEF CheckoutInv
<1> QED  BY <1>1, <1>2, <1>3, <1>4, <1>5, <1>6, <1>7, <1>8, <1>9, ExpiryKeeps, SagaKeeps,
            ProjectionKeeps, QuietReleaseKeeps, ReleaseStepKeeps
         DEF Next, Calls, Release

(***************************************************************************)
(* In every reachable state of a checkout the queues hold nothing that is  *)
(* not so, whatever crashed or came twice.                                 *)
(***************************************************************************)
THEOREM CheckoutSafe == Spec => []CheckoutInv
<1>1. Init => CheckoutInv
  BY InitIsSafe
<1>2. CheckoutInv /\ [Next]_vars => CheckoutInv'
  BY StepKeeps
<1> QED  BY <1>1, <1>2, PTL DEF Spec

(***************************************************************************)
(* The saga completes only on captured money, and fails only together with *)
(* the cancellation of an order whose payment is exhausted or one of whose *)
(* reservations is gone (checkout/saga.py).                                *)
(***************************************************************************)
THEOREM SagaVerdicts == Spec => []VerdictsGrounded
<1>1. CheckoutInv => VerdictsGrounded
  BY DEF CheckoutInv
<1> QED  BY <1>1, CheckoutSafe, PTL

(***************************************************************************)
(* An order is paid only by the payment, and only once that has succeeded  *)
(* (checkout/saga.py on_payment_succeeded, order.py                        *)
(* record_payment_success).                                                *)
(***************************************************************************)
THEOREM PaidOrdersAreCaptured == Spec => []PaidIsCaptured
<1>1. CheckoutInv => PaidIsCaptured
  BY DEF CheckoutInv
<1> QED  BY <1>1, CheckoutSafe, PTL

(***************************************************************************)
(* The ReservationStatus projection, read by the release of cancelled      *)
(* orders and by the expiry job, is behind, never wrong, although the      *)
(* backfill lane is read only while the other is empty.                    *)
(***************************************************************************)
THEOREM ViewNeverWrong == Spec => []ViewCatchesUp
<1>1. CheckoutInv => ViewCatchesUp
  BY DEF CheckoutInv
<1> QED  BY <1>1, CheckoutSafe, PTL

(***************************************************************************)
(* Unless a handler died, no step of the saga cancels an order that it has *)
(* had marked as paid: it completed then, and listens no more.             *)
(***************************************************************************)
THEOREM PaidOrdersSpared == Spec => PaidNotCancelledBySaga
<1>1. ASSUME CheckoutInv, [Next]_vars
      PROVE  [order_status = "Paid" /\ order_status' = "Cancelled" /\ crashes = 0 =>
                UNCHANGED <<saga, crashes>>]_vars
  <2> SUFFICES ASSUME Next, order_status = "Paid", order_status' = "Cancelled", crashes = 0
               PROVE  UNCHANGED <<saga, crashes>>
    BY <1>1
  <2>1. saga.status = "completed"
    BY <1>1 DEF CheckoutInv, CompletedOncePaid
  <2>2. ~OrderIdle
    BY DEF OrderIdle
  <2>3. CASE Calls
    BY <2>2, <2>3 DEF Calls, ConfirmOrder, CancelOrder, OrderCall, ReserveStock,
       ConfirmReservation, ReleaseReservation, StockCall, InitiatePayment,
       ProcessPaymentWebhook, RetryPayment, PayCall
  <2>4. ~Saga
    BY <2>1, <2>2 DEF Saga, Listening, on_order_confirmed, on_stock_reserved,
       on_payment_succeeded, on_payment_failed, on_reservation_released, Ignored, SagaHandles
  <2>5. ~ExpireStaleReservations /\ ~ReservationStatusProjector /\ ~Release /\ ~ReleaseCrashes
    BY <2>2 DEF ExpireStaleReservations, ReservationStatusProjector, Release,
       on_order_cancelled, ReleaseNext, ReleaseRefused, ReleaseCrashes
  <2> QED  BY <2>3, <2>4, <2>5 DEF Next
<1> QED  BY <1>1, CheckoutSafe, PTL DEF Spec, PaidNotCancelledBySaga
==============================================================================
