# ShopStream in TLA+

ShopStream is a shop made of eight bounded contexts, each a set of Protean aggregates
with commands, events, projections and event handlers, connected by event streams
(paths below are relative to `src/src/`, the Python packages; `docs/` is `src/docs/`).
This directory holds TLA+ models of these contexts, the TLC configurations that check them
on small instances, and proofs, checked by TLAPS, about every instance.

    tlasany M.tla                      parse a module
    tlc -config MCOrder.cfg MCOrder    check a model
    tlapm OrderProofs.tla              check proofs

`PROJECT.json` lists components, runs, mutants, the source lines behind every
definition, findings, hazards and theorems.

## 1. The system

### How the parts work together

A command is handled in one unit of work: it loads one aggregate, calls a method, and
saves. The save compares the aggregate's version, so two commands on one aggregate do
not overlap. Events raised by the aggregate are appended to its stream in the same unit
of work. Event handlers, process managers and projectors subscribe to streams; the engine
gives each of them the messages of a stream in order, again when a handler fails or dies,
and after the last retry puts a failing message aside (dead letters). Messages of low
priority (the reservation expiry job publishes so) go to a backfill lane that is read only
while the primary one is empty. *There is no order between streams.*

A handler that issues further commands commits each of them in a unit of work of its own,
before its own state is saved and its message is acknowledged. A projection is written
some time after the aggregate. Most of what can go wrong comes from these two facts.

### Components

Every component, with what is modelled of it, is in `PROJECT.json`. The ones that carry
behaviour:

| Component (source) | State | Operations | Talks to | What is hard | What makes it correct |
|---|---|---|---|---|---|
| InventoryItem (`inventory/stock/stock.py` and the command modules beside it) | five levels, reservations with status | receive, reserve, confirm, release, commit, adjust, count, damage, write off, return | raises events for its projections, Checkout, Notifications | levels recomputed by each command; holds settled twice; adjustments below what is reserved; alert at the boundary | ledger balances; every unit is free, held or damaged; low stock is announced |
| ReservationStatus projection (`inventory/projections/reservation_status.py`) | status per reservation | one handler per event | read by the release, commit and expiry code | late; two lanes; redelivery | late, never wrong |
| Release, commit, expiry (`inventory/stock/ordering_events.py`, `fulfillment_events.py`, `expiry.py`) | none | handlers and a job that look up the projection and command the aggregate | projection to aggregate | stale lookups; one unit of work per reservation; refusals | cancelled orders free stock; shipped ones leave the books |
| Order (`ordering/order/`) | status, lines, pricing, payment, shipment | eighteen commands | events to Inventory, Fulfillment, Notifications, Payments | ConfirmOrder goes back; items follow three different rules; duplicates and late results of payments | paid before shipped; captured once; items in step; terms fixed |
| OrderCheckoutSaga (`ordering/checkout/saga.py`) | status, retry_count | five handlers | three streams in, commands to Order out | order between streams, redelivery between nested commit and save, swallowed refusals | verdicts grounded in facts; captured money settles the order |
| Payment (`payments/payment/`) | status, attempts, refunds, total | initiate, webhooks, retry, request and complete refunds | gateway webhooks in, events to saga | webhooks name a payment, not an attempt; repeated and late ones; pending refunds | attempts explain status; refunds add up; captured stays captured |
| Fulfillment (`fulfillment/fulfillment/`) | status, items, packing, shipment | eleven commands | warehouse, carrier in; events to Order and Inventory | guards of different kinds along the pipeline | nothing leaves unpicked or unpacked |
| Ordering handlers of fulfilment (`ordering/order/fulfillment_events.py`), Fulfillment handler of cancellations (`fulfillment/fulfillment/order_events.py`) | none | one handler per event | between Order and Fulfillment | races of handoff with cancellation; refusals | each side learns of the other |
| Notifications (`notifications/`) | notifications, preferences | creation per event, dispatcher, scheduler, retry, cancel, preferences | events of all contexts in, channels out | sends before saving; batches in one unit of work; retries nobody dispatches | what is recorded as sent was sent; retries limited; all due acted upon |
| Cart and checkout route (`ordering/cart/`, `ordering/api/routes.py`) | cart items, coupons, status | cart commands, abandonment job; a route of two commands | creates orders | crash or repetition between the two commands, calls side by side | one call at most converts the cart, and it alone may be answered |
| Refund of returned orders (`payments/payment/ordering_subscriber.py`) | none | subscriber | reads the `payment_status` projection, requests refunds | redelivery; stale projection | a return is refunded once |
| Review, verified purchases (`reviews/review/`) | review status, votes; purchases | submit, edit, moderate, vote, report, reply, remove | reads repository before adding | concurrent submissions | one review per product and customer; verified only when delivered |
| Product, Category (`catalogue/`) | products, variants, prices, images; category tree | life cycle, variants, prices, images, categories | VariantAdded initializes stock | limits, levels, a second VariantAdded | one primary image; levels follow the tree |
| Customer account (`identity/customer/`) | profile, addresses, tier, status | register, suspend, reactivate, close, addresses, tiers | Ordering's list of suspended accounts | the default address moves | one default address |
| Projections (`*/projections/`, 47 of them) | a row per aggregate, day, product | one handler per event | written from events alone | behind; given an event twice; deltas; rows of other projections looked up | what caught up tells the truth |
| Warehouse, Invoice, API, gateway, carrier, channels | | | | master data, documents, I/O | |

## 2. Plan

1. *Done.* The three aggregates that hold stock, money and goods, each with an abstract
   specification or invariants, and proofs: Inventory, Order, Payment.
2. *Done.* What connects them: Checkout (saga, projection, release, expiry) and Shipping
   (Fulfillment, handlers in Ordering, Inventory and Fulfillment).
3. *Done.* Notifications, with a proof.
4. *Done.* Storefront (cart and checkout route) and Returns (refund subscriber composed with
   Payment and its projection), the former with a proof.
5. *Done.* Reviews, with a proof; Accounts; Catalogue and Categories with the initialization
   of stock for variants.
6. *Done.* The projections, beside the aggregate they follow: OrderViews, StockViews,
   PaymentViews, ParcelViews, NotificationViews and those within the modules of steps 4 and 5.
7. *Left.* Warehouse, Invoice and `customer_lookup`, which decide nothing.
8. *Done.* Proofs of the compositions (Checkout, Shipping) and of every component's
   projections: each safety property that a run checks is a theorem (section 5).

Aggregates that do not act on each other share a run, `platform`: one MC module instantiates
them all.

## 3. Modules

| Module | Models | Variables | Actions |
|---|---|---|---|
| `UnitSums` | sums over a set of holds, refunds or rows, as the number of the units they stand for | | |
| `Lists` | the n-th number of a set, and what is left of a list when entries are taken from it | | |
| `StockLedger` | *abstract*: free, held and damaged units | `free`, `held`, `damaged` | Correct, Hold, GiveBack, Ship, Damage, WriteOff |
| `Inventory` | InventoryItem | `levels`, `reservations`, `raised` | one per command, named as in the code; `On...` operators are the event appliers |
| `OrderPromise` | *abstract*: money, goods, closing | `money`, `goods`, `closed` | Capture, Dispatch, Deliver, ComeBack, CallOff, Complete, Refund |
| `Order` | Order | `status`, `items`, `pricing`, `payment`, `shipment_id`, `raised` | one per command |
| `Payment` | Payment | `status`, `attempts`, `attempt_count`, `refunds`, `total_refunded`, `raised` | one per command |
| `Streams` | what handlers rely on in the event streams | `queues` | operators Publish, Take, Receives |
| `Checkout` | one Order, InventoryItem and Payment, saga, projection, release, expiry | those of the aggregates, `saga`, `view`, `releasing`, `failures`, `queues`, `crashes` | API calls, one per saga handler, projector, release steps, expiry |
| `Fulfillment` | Fulfillment | `status`, `items`, `packed`, `shipment`, `raised` | one per command |
| `Shipping` | one Order, Fulfillment, InventoryItem and the handlers between them | as in Checkout, with `committing`, `failed_lookups` | API calls, one per handler, commit steps, projector |
| `ReadModel` | a projection and its projector | `view`, `row`, `unread`, `redelivered` | operators Publish, Project |
| `OrderViews`, `StockViews`, `PaymentViews`, `ParcelViews` | the projections of Order, Inventory, Payment, Fulfillment | those of the aggregate and of ReadModel; `level_row`; `day`, `exceptions`, `tracking_events` | the aggregate's, and Projection |
| `NotificationViews` | the projections of Notifications | those of both | those of both |
| `Returns` | PaymentViews with the subscriber of OrderReturned | with `returned`, `repeated` | PaymentCommand, PaymentProjection, OrderReturned, OrderReturnedSubscriber |
| `Storefront` | cart, CartView, checkout route, abandonment job | `cart_status`, `cart_items`, `coupon`, `calls`, `cart_orders`, `merged` | cart commands, the checkout call in four steps (load, create the order, convert the cart, answer), stop |
| `Reviews` | Review, VerifiedPurchases and their projections | `reviews`, `submissions`, `purchased`, `overlapped` | one per command; SubmitReview in two steps (look, add) |
| `Accounts` | Customer, its projections, Ordering's list of suspended accounts | `account`, `tier`, `profile`, `addresses` | one per command |
| `Catalogue` | Product, its projections, initialization of stock | `product`, `title`, `variants`, `images` | one per command |
| `Categories` | Category, the projections that follow categories and products | `categories`, `category_of`, `category_unread`, `overtook` | one per command, two projectors side by side |
| `Notifications` | notifications, preferences, dispatcher, scheduler | `preference`, `notifications`, `inbox`, `created`, `sending`, `messages`, `lost`, `crashes` | handlers, dispatcher and scheduler in three steps (load, send, save), retry, cancel, preferences |
| `MC*` | instances for TLC | | |
| `SharedLemmas` | lemmas on sums, lists and projections that several proofs cite | | |
| `InventoryProofs`, `OrderProofs`, `NotificationsProofs`, `CatalogueProofs`, `CheckoutProofs`, `ShippingProofs` | proofs about the component, its projections included | | |
| `PlatformProofs` | proofs about Payment, Storefront, Reviews, Accounts, and Fulfillment, each with its projections, as MCPlatform instantiates them | | |

Projections are modelled in one way. `view` names the one that is watched and never changes:
TLC takes every projection in turn, as an initial state. `row` is what it holds, `unread`
the events its projector has not acknowledged, `MaxUnread` at most (a command waits
otherwise, which only bounds the lag), and `redelivered` says that an event was handled
twice. The operator named as the projector's module says what an event `e` makes of a row `r`,
with the literals, defaults and lookups of the code; it is applied to `row`, and the proofs
apply it to rows the projection does not hold yet. What an event carries is recorded when it is
raised, not looked up when it is handled. `...ViewsFollow` then states, per projection, what
a projection that caught up has in common with its aggregate, and what it has not.

A lower-case operator (`reserve`, `record_packing`, `on_payment_failed`) is the method or
handler of that name; its conjuncts follow the code: guards that raise or return first,
then the changes. A command that is rejected raises an exception, the unit of work is
rolled back, and nothing happens: it is no step. Where a *handler* is refused, the refusal
is a step of its own, because it counts against the retries or is swallowed by the code.
`raised` holds the events of the last command: they are what subscribers see, and what
action properties speak about. A definition named `X_Something` is a mutated form of `X`
that no specification uses: it keeps the properties honest, for TLC must find each property
violated with one of them in place.

`Checkout` and `Shipping` use the *same* aggregates as the single runs, by INSTANCE: a
composed step is a command of one aggregate, with its events appended to the queues of
the subscriptions that handle them. Both work with lines, prices and quantities reduced
to one value, since nothing there depends on them, and `Shipping` derives the items'
status from the order's (Order's invariant ItemsFollowOrder makes that sound).

A subscription's queue contains only the messages its handlers handle, the message at its
head included until it is acknowledged: "dies before the acknowledgement" is a step that
leaves the message where it is.

### Assumptions about the framework

From how the repository uses Protean, whose own code is not part of it:

- commands on one aggregate are atomic (version check on save);
- one worker per subscription: messages of a stream in order, a redelivered one before
  its successor; retries, then dead letters;
- a process manager without an instance, or a complete one, ignores an event;
- a nested `current_domain.process(..., asynchronous=False)` commits on its own.

### What the compositions leave out

- One order has one payment and one fulfillment. Endpoints that let a caller record
  payments or shipments directly on an order are in `Order`'s own run, not in `Checkout`
  and `Shipping`, where those commands come from the saga and from Fulfillment.
- `Checkout` ends where shipping starts; `Shipping` starts with stock reserved and the
  payment under way, and leaves returns to `Order`.
- `Notifications` has one customer and one scheduler call at a time.
- Much of the code reads a row in `try: ... except Exception:`, which treats a database that
  fails like a row that is not there. `Shipping` models both
  (`inventory/stock/fulfillment_events.py:65-76`: with the lookup, the commit is lost).
  Everywhere else *a lookup that fails is not modelled, only a row that is missing*. Left out is
  - what a handler then does: a notification that cannot be loaded stays
    Pending and its event is acknowledged (`notifications/notification/dispatch.py:44`), a
    scheduler call that cannot list what is pending does nothing
    (`notifications/notification/scheduler.py:41`), unread preferences mean email only
    (`notifications/notification/helpers.py:46`) or a second set of defaults
    (`notifications/preference/identity_events.py:61`), an unread purchase makes a review
    unverified (`reviews/review/submission.py:64`), and a purchase that cannot be written is lost
    (`reviews/review/ordering_subscriber.py:69`);
  - that a projector then starts a row anew, or leaves it as it is:
    `catalogue/projections/category_tree.py:45` (a breadcrumb cut short) and `:96` (a product not
    counted), `identity/projections/address_book.py:31` (a book with one address),
    `ordering/projections/cart_view.py:40` and `:134`,
    `fulfillment/projections/delivery_performance.py:49`, `low_stock_report` and
    `product_availability` of Inventory, `failed_payments` and `daily_revenue` of Payments, and
    the projections of Notifications and Reviews.

  `Dispatched`, `AlertsReachOperators` and the `...ViewsFollow` of these projections hold of a
  database that answers.
- Projections are watched one at a time, and follow one aggregate: totals over several
  (revenue of a day, ratings over all customers) are sums over rows like the one watched.
  Where the code looks up another projection's row (`product_availability`, `payment_status`)
  that row is part of the model.

## 4. Runs

Twelve: eight must pass, four find the disagreements of section 6.

| Run | Question | Bounds, and why they are enough |
|---|---|---|
| `inventory` | Do the ten commands, interleaved, keep the ledger, announce low stock and implement StockLedger? Do the projections follow? | 3 reservations, 3 units at the start, at most 4, quantities from SmallQuantities (adjustments in both directions). A hold settled twice, two holds that exceed the stock, an adjustment below what is held, and both sides of the reorder point all occur. With a projection watched (ViewBound): 1 reservation, 3 units, 1 damaged, which is every event and every pair of neighbouring events. |
| `order` | Do the eighteen commands keep items, payment and terms in step and implement OrderPromise? Do the projections follow? | 2 items, 2 payments, 2 shipments, 2 quantities, 2 discounts: partial shipments and returns, a second payment, a second shipment, changed lines. |
| `platform` | Do payments, carts, reviews, products, categories and accounts keep their rules under all of their commands, do the projections follow, and is a return refunded? | The watched projection says which component acts, so that states add up (1.15 million) instead of multiplying. Payments: amount 3 and 3 refunds of 1 to 3, for partial refunds that add up, or exceed. Cart: 2 variants, 2 checkout calls, 1 stop (between two steps, or before the answer), 1 merged cart. Reviews: 2 submissions, 2 ratings, 1 voter, 2 reactions. Catalogue: 2 variants, 2 prices, 3 images with a limit of 2, so that the limit refuses one. Categories: 3, 2 levels, so that the level refuses one. Accounts: 4 addresses with a limit of 3. Parcel: 2 items, 2 days, 2 failed deliveries, a log of 4 entries, 2 wordings of a scan, of which one is also a status ("Delivered"). `StorefrontBound`, `ReviewsBound`, `CatalogueBound`, `CategoriesBound` and `AccountsBound` keep apart what no property relates, and say what. |
| `checkout` | With callers in any order and one handler that dies: are the saga's verdicts grounded, is the projection right? | 1 reservation, 1 payment, 1 retry, 1 crash. |
| `checkout_waiting` | If callers let the saga catch up: does captured money settle the order, do exhausted payments cancel it, does every queue drain? | as above. The order of calls is the documented scenario's. |
| `checkout_release` | Does the cancellation of an order let go of what the projection knew? | 2 reservations, without payments: one refusal blocks another only with two. |
| `shipping` | Are the books never ahead of the parcel, do cancellation, handoff and delivery arrive, does a shipment commit every confirmed reservation? | 1 item, 2 reservations, 1 crash, 1 failed lookup, no retry: a crash between two commits, a refusal after one, a lookup that fails at first or after a crash. A parcel with an item missing needs two items and is in `platform`. |
| `notifications` | Do records agree with messages, are retries limited, is everything due acted on? Do the projections follow? | a scheduled and an immediate event, MaxRetries 2, 1 crash. Batches of two arise from an event handled twice. MaxRetries is 3 in the code; 2 already separates first, middle and last. Only email can be enabled here; a customer with two channels (ReviewPrompt by email and push) is beyond this instance. With a projection watched, only its own projector dies, and the customer has the default preferences or none. |

Everywhere a projection is one event behind, and one event is given twice (`MaxUnread` 1).
`payment_over_refund` has 2, for the redelivery to come before the first refund completes.

`inventory` uses symmetry over interchangeable reservations; it has no liveness property.
`CHECK_DEADLOCK FALSE` is set where the system may stop (all but `inventory` and
`notifications`): an order in a final state, streams that are empty while nobody calls.

Each property is stated, with the behaviour it is about, above its definition. In short:

- *Inventory*: `LedgerBalanced` (available = on hand - reserved; reserved is the sum of
  the held reservations), `OnlyAdjustmentsOverdraw`, `LowStockAnnounced`, `ImplementsPools`,
  `StockViewsFollow`.
- *Order*: `ItemsFollowOrder`, `WarehousePaid`, `CapturedOnce`, `TermsFixedOnceConfirmed`
  (and, before, that a modification reprices), `KeepsPromise`, `OrderViewsFollow`.
- *Payment*: `AttemptsExplainStatus` (retries included), `RefundsAddUp`, `CapturedForGood`,
  `PaymentViewsFollow`, `ReturnIsRefunded`.
- *Storefront*: `CheckoutAnswersOnce`, `CartViewFollows`.
- *Reviews*: `OneReviewStands`, `ReviewViewsFollow`.
- *Catalogue, Categories, Accounts*: `CatalogueViewsFollow`, `AccountFollows`, which
  state what the aggregate guarantees together with what its projections show of it.
- *Checkout*: `VerdictsGrounded`, `PaidIsCaptured`, `ViewCatchesUp`,
  `PaidNotCancelledBySaga`, `CaptureSettlesOrder`, `ExhaustionCancels`, `StreamsDrain`,
  `CancellationFreesStock`.
- *Shipping*: `BooksFollowParcel`, `CancellationStopsWarehouse`, `ParcelReachesOrder`,
  `ShipmentCommitsStock`; of Fulfillment itself `ParcelComplete`, `ParcelViewsFollow`.
- *Notifications*: `SendsAccounted` (retry limit included), `Dispatched`,
  `AlertsReachOperators`, `NotificationViewsFollow`.

Some hold only with an exception the code makes necessary, and say so: a reservation may
survive a cancellation when another of the same order is refused (CancellationFreesStock);
a crash between two commits may use up the retries, and a lookup that fails commits nothing
(ShipmentCommitsStock); a crash between
the order's unit of work and the saga's lets the saga cancel a paid order
(PaidNotCancelledBySaga); a message may be sent twice when its save was lost (SendsAccounted);
submissions that overlap may add two reviews (OneReviewStands); a checkout call that is
refused or stops leaves its order behind, and one that stops after its commit has converted the
cart without an answer (CheckoutAnswersOnce); a projection that adds
counts an event twice when it is given twice (the `...ViewsFollow`).

### Fairness

Weak fairness on handlers only: the engine's workers poll their streams for ever, so a
message that stays at the head of a queue is handled. In Notifications also on the
scheduler, which "is designed to be called periodically by an external scheduler"
(`notifications/api/routes.py:202`), and of the projectors where something waits for them
(Returns, NotificationViews). Nothing is assumed of customers, warehouse staff, the
carrier, the payment gateway, the expiry job, retries by staff, or crashes. Crashes are
bounded: no system gets anywhere if every handler always dies.

`Callers` in `Checkout` says how requests are ordered: "any", "ordered" (the documented
order), or "waiting" (that order, each request after the saga has processed the one
before). Safety is checked for "any". CaptureSettlesOrder holds for "waiting" and fails
for "ordered", which is finding 2.

## 5. Proofs

For every value of the constants, from the modules' ASSUMEs and nothing else: quantities are
integers, amounts, prices and limits natural numbers, "None" and the other literals of the
code are no ids, and the reservations of Shipping, the items of an order, the variants of a
cart and the submissions of a review are finitely many.

| Theorem | States |
|---|---|
| `InventoryProofs!TypeCorrect`, `LedgerAlwaysBalanced` | `Spec => []TypeOK`, `Spec => []LedgerBalanced` |
| `InventoryProofs!RefinesPools` | Inventory implements StockLedger |
| `InventoryProofs!AdjustmentsAloneOverdraw` | only StockAdjusted takes available stock below zero |
| `InventoryProofs!LowStockAlwaysAnnounced` | a step that takes available stock to the reorder point says so, exactly then |
| `InventoryProofs!StockIsShown` | the projections of stock follow |
| `OrderProofs!OrderInvariant`, `PaidBeforeWarehouse`, `ItemsInStep` | the inductive invariant and its two safety consequences |
| `OrderProofs!CapturedAtMostOnce` | money is captured once |
| `OrderProofs!TermsAreFixed` | lines and prices are fixed from confirmation on |
| `OrderProofs!ImplementsPromise` | Order implements OrderPromise |
| `OrderProofs!OrderIsShown` | the seven projections of an order follow |
| `PlatformProofs!PaymentInvariant`, `TypeCorrect`, `AttemptsCoherent`, `RefundTotalIsSum`, `CapturedStays` | Payment's invariants and its action property |
| `PlatformProofs!PaymentIsShown` | the projections of payments follow, with the subscriber that refunds returned orders |
| `CheckoutProofs!CheckoutSafe`, `SagaVerdicts`, `PaidOrdersAreCaptured`, `ViewNeverWrong`, `PaidOrdersSpared` | the inductive invariant of Checkout, its three safety consequences, and that the saga cancels no paid order unless a handler died |
| `ShippingProofs!NoBookAheadOfParcel` | neither the order nor the stock is ahead of the parcel |
| `NotificationsProofs!SendsAlwaysAccounted` | records agree with the messages channels took; failures stay within the retry budget |
| `NotificationsProofs!NotificationIsShown` | the four projections of notifications follow |
| `PlatformProofs!OneCallSucceeds`, `CartIsShown` | however many checkout calls there are and wherever they stop, one at most converts the cart and it alone may be answered, and every order is one call's cart; CartView follows |
| `PlatformProofs!OneReviewStandsAlways` | a customer has one review, as long as submissions do not overlap |
| `PlatformProofs!AccountIsShown` | the projections of a customer and Ordering's list of suspended accounts follow, and there is one default address |
| `PlatformProofs!ParcelIsComplete`, `ParcelIsShown` | a labelled parcel holds every item, picked and packed; the five projections of a parcel follow |
| `PlatformProofs!ReviewIsShown` | the five projections of the reviews of a product follow |
| `CatalogueProofs!CatalogueIsShown` | the six projections of products and categories follow, and the stock initialized for variants; one primary image, levels that follow the tree |

The arguments, aggregates first:

- *Inventory.* Events may be raised in pairs (a change and an alert), so typing of `raised`
  is proved apart from the rest. `LedgerInv` is the ledger with two more facts: the units held
  are finitely many, without which taking one reservation's units away says nothing of the
  sum that remains, and every hold is of at least one unit. Three lemmas say
  how the sum changes when a hold is unchanged, grows by one reservation, or loses one; each
  command is one of the three. They rest on `SharedLemmas`: a sum is the
  cardinality of a set of single units, of which the library's theorems on finite sets
  speak, because induction over data is not available (below). The refinement is a case split
  over commands: receipts, returns and corrections are Correct, and every settled reservation
  is a Ship or a GiveBack.
- *Order.* The invariant is `OrderInv`. ItemsFollowOrder and WarehousePaid are not inductive:
  once an order is closed its status no longer tells whether goods left (`shipment_id` does), and a second capture is
  only ruled out by where the status stands. `StageInv` ties payment, shipment and status
  together. Commands fall in four groups (move, payment, mark items, modify), with a lemma
  each.
- *Payment.* `attempt_count`, attempts and status imply each other, so they are proved as
  one invariant (`Attempted`), refunds as another (`Refunded`); each command touches one of
  them, and two lemmas say it leaves the other alone.
- *Fulfillment.* `packed` is what connects picking to the label: everything picked when
  packing, nothing unpacked afterwards.
- *Storefront.* `CheckoutInv`: what a call loaded is what its order contains, and it was
  not empty; a call that has converted (`HasConverted`: still to be answered, answered or
  stopped before that) is the only one. Only the conversion takes a call there, it is refused
  unless the cart is still active, and answering or stopping moves no call in or out
  (`EndKeeps`).
- *Reviews.* `ReviewsInv` counts the submissions under way together with the reviews that
  stand: without overlap there is one at most, of either. The step that adds a review takes
  one from the first count to the second; rejected and edited reviews still stand.

What connects them:

- *Checkout.* The verdicts of the saga are true although its three streams overtake each
  other and every message may come twice, because what a message says (`Holds`) was so when
  it was published and is never undone: a payment that succeeded stays so, one that used up
  its attempts stays failed, a released reservation stays released. `CheckoutInv` says of every
  queue that its messages hold. The projection is never wrong because only releases take the
  backfill lane, and nothing that happens to a reservation later can be overtaken by one.
  A paid order is cancelled by its saga only if the saga forgot, that is, if its handler died
  between the order's unit of work and its own (`CompletedOncePaid`).
- *Shipping.* The same argument: the carrier never gives a parcel back, so a message that
  speaks of a handoff or a delivery is true for ever; the handler that commits stock holds such
  a message until its last commit (`CommitsShipment`).
- *Notifications.* `SendsInv`: a notification is attempted by one at a time (the dispatcher
  those without a schedule, in the order of its queue, the scheduler the others), what an
  attempt has sent and what a record says add up to the messages, and what is queued has
  failed only in handlers that died. Without the queue the last attempt's failure could
  exceed the budget, without the separation two attempts could account for one message.

Projections:

- `...ViewsFollow` speaks of a projection that caught up, and is not inductive: while events
  are unread nothing in it ties the row to the aggregate. The invariants (`CartViewInv`,
  `StockViewInv`, `OrderViewInv`, `PaymentViewInv`, `AccountViewInv`, `ParcelViewInv`, `ReviewViewInv`,
  `ProductViewInv`, `CategoryViewInv`, `NotificationViewInv`) say that
  the unread events *lead* from the row to a row that tells the truth: `Leads(Steps, row,
  unread, x)` of `SharedLemmas` is a run of the projector over all that is unread, from what
  the projection holds to some `x`. A command appends its event and moves `x` on by the same
  projector (`LeadsMore`), a projector's step consumes the first event (`LeadsRead`); with
  nothing unread, `x` is the row (`LeadsNone`). No induction over the queue is needed.
- An event that is handled again leads on to the same `x` if its projector makes nothing new of
  a row that has it (`LeadsProject`). Where one field has that property and another has
  not (a status and a counter), each has its own `Steps`: what is counted follows while
  `redelivered` is FALSE, the rest always.
- The rest is what each row needs. Rows of *orders* are followed facet by facet (status, amounts,
  shipment, counters) and each line of `order_detail` on its own; amounts range over some set
  `P` of those that came up so far, for nothing is known of a sum over the items. *Parcels* are
  counted over days and carriers: the rows add up (`Sums`, `Column`) to the events acknowledged,
  and these lead to what happened to the parcel. The row of `shipment_tracking` is followed twice:
  its status (`TextAfter`), even where an event is handled twice, and its entries, which lead to
  those of the fulfillment's log (`LogTold`) as long as none is. Of `payment_status`, once an event was handled
  twice, the total refunded is never below what was. *Accounts* follow the address book apart
  from the default it marks, which changes without an event when the default address is removed.
- *Reviews* are followed one by one, each by the events about it; the stars of a product, which
  are counts over all of them, as long as no event was handled twice. Votes and the reply reach
  `product_reviews` twice over, by their events and, with what the approval reads from the
  repository, ahead of them: no run of the projector leads there. What holds instead is that the
  last unread event about them says what they are, and that the row does where there is none
  (`LastTells`).
- *Products* are followed field by field, and variant by variant (`PriceLeads`, `EntryLeads`).
  The image on the card leads to the primary image or to one that was removed (`CoverTold`);
  the range of prices contains every price on offer that no unread event will add to it.
- *Categories* are told of by a stream of their own, and what the events of one stream lead to
  must survive the events of the other. `ToldOf` says which categories the projector knows: none
  before its parent (`KnownSteps`), and none twice as long as nothing was handled twice
  (`FreshSteps`). So a node's parent is in the tree, one level above it, and a breadcrumb, which
  the projector builds by going up from parent to parent, is as long as the node is deep
  (`BreadcrumbGoesUp`). That going up ends is proved without induction over the tree
  (`NamesAboveExist`): were there a depth to which it did not, there would be a least one
  (`LeastNumber`), and the nodes at that depth have parents above it. Whether the product is counted depends on which stream was read first,
  which `Pending` (its creation is unread) and `overtook` keep apart.
- *Notifications* raise several events in one unit of work, one of a notification at most and in
  the order of their ids (`RaisedOrder`, about `Keeping` of `Lists`). What each row leads to
  passes every one of them, and moves on at its own (`LeadsJoin`). Of the counters of what was
  sent, the row leads to that number, or to one more once an event was handled twice.

Only model-checked: all liveness (CaptureSettlesOrder, ExhaustionCancels, StreamsDrain,
CancellationFreesStock, CancellationStopsWarehouse, ParcelReachesOrder, ShipmentCommitsStock,
Dispatched, AlertsReachOperators, ReturnIsRefunded: the prover has no rule for ENABLED, hence
none for fairness). Every safety property of a passing run is proved. Out of the prover's reach as
well: induction over data structures, and modules that declare RECURSIVE operators, of which
there are none here. The type invariants of Inventory and Payment are proved, those of Order and
Checkout are parts of `OrderInvariant` and `CheckoutSafe`; no run has one as its property.

## 6. Where code and documentation disagree

Shown by a run:

1. `payment_over_refund`: two refunds requested before either completes may exceed the
   payment; `docs/payments/scenarios/refund-flow.md:53` says they cannot. An OrderReturned
   that is given to its subscriber again is enough.
2. `checkout_capture`: requests in the documented order, but faster than the saga reads its
   streams, leave a captured payment on an order that stays Confirmed
   (`docs/payments/scenarios/payment-lifecycle.md:30`).
3. `checkout_held`: a reservation that is confirmed, or not yet in the projection, stays
   held for a cancelled order (`inventory/stock/ordering_events.py:69`).
4. `order_detail`: an item the order was created with is listed under a key (`id`) that its
   removal or change does not look for (`item_id`): it stays in the projection as it was
   (`ordering/projections/order_detail.py:104`, against `docs/ordering/README.md:306`).

Met while modelling; each is in the model as the code has it:

- `adjust_stock` tests on_hand only, so available stock may become negative and reserved
  exceed on_hand, against `docs/inventory/README.md:106-107` (OnlyAdjustmentsOverdraw states
  what remains true).
- `record_shipment` accepts Paid, skipping Processing, against the state machine of
  `docs/ordering/README.md`.
- An order all of whose items went out in partial shipments stays Partially_Shipped, against
  `docs/ordering/README.md:123`.
- A cancelled order that never paid can be refunded, against `docs/ordering/README.md:139`.
- A reservation that expires before the capture, but whose event is handled after it, leaves
  a Paid order without stock (`docs/payments/scenarios/payment-lifecycle.md:79` describes the
  other order only).
- CreateFulfillment, "for a paid order", does not look at the order.
- RetryNotification returns an immediate notification to Pending, and nothing dispatches it
  again, against `docs/notifications/scenarios/notification-dispatch.md:139`.
- The scheduler is called "Idempotent: already-sent notifications are skipped"
  (`notifications/api/routes.py:203`): after a crash, or when one notification of the batch is
  cancelled meanwhile, all of the batch is sent again.
- Quiet hours are stored and never read; nothing marks notifications as delivered or bounced;
  preferences are not read again before a scheduled notification is sent.
- Checkout called again, or side by side, creates a second order before the cart's status
  refuses the second conversion (`docs/ordering/scenarios/cart-to-order.md:191` and `:194`).
- DetectAbandonedCarts finds nothing: it asks CartView for carts not updated since, and no
  event of an active cart carries a date.
- A second VariantAdded (redelivered) creates a second InventoryItem for the variant.
- A rejected review that its author edits is Pending again, and returns to the moderation
  queue only when somebody reports it (`docs/reviews/scenarios/review-moderation.md:16`,
  `:132`); a report puts a removed review back into the queue.
- Ordering keeps a list of suspended accounts to refuse their orders
  (`ordering/order/identity_events.py:3-6`), which CreateOrder never reads; an account
  closed while suspended stays listed.
- A lookup that fails while a shipment is handled is taken for one that finds nothing
  (`inventory/stock/fulfillment_events.py:65-76`): the message is acknowledged, and the order's
  units stay reserved and on the books for good (ShipmentCommitsStock excepts it).
- The tracking page's `current_status` is the carrier's wording of its last scan
  (`fulfillment/projections/shipment_tracking.py:50`; `test_fulfillment_projections.py:203`
  expects "in_transit"), not the fulfillment's status (In_Transit): nothing keeps
  a parcel in transit from being shown as "Delivered". Its entries spell a failed delivery
  "Exception", the fulfillment's own log "EXCEPTION" (`fulfillment/fulfillment/fulfillment.py:462`),
  which has no entry for the delivery.
- Removing the default address makes another one the default without an event: the address
  book then marks none.

Of the projections, each stated by the `...ViewsFollow` property that excepts it:

- *Counters* double on redelivery: daily_order_stats, daily_revenue, daily_shipments,
  product_rating, notification_stats; so do the deltas of product_availability and the entries
  of shipment_tracking. product_rating's count of verified reviews drifts when one is removed.
- *Totals as created*: orders_by_status and customer_orders keep the total of OrderCreated.
- *Status*: customer_payments shows a retried payment as Failed and a partial refund as
  Refunded; customer_notifications shows a cancelled notification as Pending or Failed, and a
  retried one as Failed; warehouse_queue has no handler for the label, nor for what follows handoff.
- *What is gone stays*: product_card's price range only widens, and it keeps a removed primary
  image; product_detail keeps a tier price that a new price dropped; customer_card keeps
  a removed phone number, and misses the one given on registration.
- *Order between streams*: a product projected before its category is never listed under it.
- delivery_performance credits a delivery to the first row of its date, whichever carrier's.

## 7. Not modelled

Warehouse (master data that no other component reads), Invoice (generated and voided by
command, read by nobody) and `customer_lookup` (written once, on registration): none of them
has a behaviour beyond single assignments. Not at all: the HTTP layer (one command per
request, but for the checkout route), gateways, carriers and channel adapters (their
answers are nondeterministic inputs of the models), templates and wording, monitoring,
load tests and the data generators beside them. Handlers that only log are named in
`PROJECT.json`. Of the modelled aggregates, data no guard depends on is left out: addresses,
names, timestamps other than "due", packages, reasons, and of tracking events all but the status.
