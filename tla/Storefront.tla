------------------------------ MODULE Storefront ------------------------------
(***************************************************************************)
(* ShoppingCart (ordering/cart) with its projection CartView, and the      *)
(* checkout route of ordering/api/routes.py, for one cart.                 *)
(*                                                                         *)
(* A checkout call loads the cart, creates the order and converts the      *)
(* cart, each in a unit of work of its own, and answers; calls may come    *)
(* again, and in several server processes at once, and a process may stop  *)
(* between two of these steps.  CartView lags, as in ReadModel.            *)
(***************************************************************************)
EXTENDS ReadModel, FiniteSets

CONSTANTS
  Variants,     \* product variants that may be put into the cart
  MaxQuantity,  \* bound of the model: of one item
  Calls,        \* checkout calls that may be made
  MaxStops,     \* bound of the model: how often a server process stops
  MaxMerges     \* bound of the model: guests' carts merged into this one

ASSUME StorefrontAssumption == IsFiniteSet(Variants) /\ MaxQuantity \in Nat

VARIABLES
  cart_status,  \* CartStatus
  cart_items,   \* quantity of every variant in the cart, 0 where it is not
  coupon,       \* a coupon was applied
  calls,        \* where each checkout call is, and the items it loaded
  cart_orders,  \* orders created so far: the call, and the items ordered
  merged        \* guests' carts merged into this one

cart_vars == <<cart_status, cart_items, coupon, calls, cart_orders, merged>>

storefront_vars == <<cart_vars, read_vars>>

------------------------------------------------------------------------------
(* Command methods of the cart; each asks for an active one.               *)
InCart(items) == {v \in Variants : items[v] > 0}

Active == cart_status = "Active"

ChangeItems(items, event) ==
  /\ Active
  /\ cart_items' = items
  /\ Publish(<<event>>)
  /\ UNCHANGED <<cart_status, coupon, calls, cart_orders>>

CartItemAdded(v, quantity) == [type |-> "CartItemAdded", variant |-> v, quantity |-> quantity]

CartQuantityUpdated(v, quantity) ==
  [type |-> "CartQuantityUpdated", variant |-> v, quantity |-> quantity]

CartItemRemoved(v) == [type |-> "CartItemRemoved", variant |-> v]

CartsMerged(count) == [type |-> "CartsMerged", items_merged_count |-> count]

AddToCart ==
  \E v \in Variants, quantity \in 1..MaxQuantity :
    /\ cart_items[v] + quantity <= MaxQuantity
    /\ ChangeItems([cart_items EXCEPT ![v] = @ + quantity], CartItemAdded(v, quantity))
    /\ UNCHANGED merged

UpdateCartQuantity ==
  \E v \in InCart(cart_items), quantity \in 1..MaxQuantity :
    /\ ChangeItems([cart_items EXCEPT ![v] = quantity], CartQuantityUpdated(v, quantity))
    /\ UNCHANGED merged

RemoveFromCart ==
  \E v \in InCart(cart_items) :
    /\ ChangeItems([cart_items EXCEPT ![v] = 0], CartItemRemoved(v))
    /\ UNCHANGED merged

(* The guest's items are in the command.                                   *)
MergeGuestCart ==
  \E guest_items \in [Variants -> 0..1] :
    /\ merged < MaxMerges
    /\ InCart(guest_items) # {}
    /\ \A v \in Variants : cart_items[v] + guest_items[v] <= MaxQuantity
    /\ ChangeItems([v \in Variants |-> cart_items[v] + guest_items[v]],
                   CartsMerged(Cardinality(InCart(guest_items))))
    /\ merged' = merged + 1

ApplyCouponToCart ==
  /\ Active
  /\ ~coupon
  /\ coupon' = TRUE
  /\ Publish(<<[type |-> "CartCouponApplied"]>>)
  /\ UNCHANGED <<cart_status, cart_items, calls, cart_orders, merged>>

abandon ==
  /\ Active
  /\ cart_status' = "Abandoned"
  /\ Publish(<<[type |-> "CartAbandoned"]>>)
  /\ UNCHANGED <<cart_items, coupon, calls, cart_orders, merged>>

AbandonCart == abandon

(* Whether the projection shows an active cart with items as idle: it      *)
(* knows when a cart was updated only for those it shows as abandoned.     *)
Idle == row.status = "Active" /\ row.updated_at /\ row.item_count > 0

(* The scheduler's DetectAbandonedCarts; a cart it does not find idle is   *)
(* left alone, and so is one that is no longer active.                     *)
DetectAbandonedCarts ==
  IF Idle /\ Active THEN abandon ELSE UNCHANGED storefront_vars

------------------------------------------------------------------------------
(* The checkout route.                                                     *)
MoveCall(c, pc, items) == calls' = [calls EXCEPT ![c] = [pc |-> pc, items |-> items]]

(* Whatever the status of the cart; an order needs items.                  *)
LoadCart(c) ==
  /\ calls[c].pc = "idle"
  /\ InCart(cart_items) # {}
  /\ MoveCall(c, "loaded", cart_items)
  /\ UNCHANGED <<cart_status, cart_items, coupon, cart_orders, merged, read_vars>>

CreateOrderFromCart(c) ==
  /\ calls[c].pc = "loaded"
  /\ cart_orders' = cart_orders \cup {[call |-> c, items |-> calls[c].items]}
  /\ MoveCall(c, "ordered", calls[c].items)
  /\ UNCHANGED <<cart_status, cart_items, coupon, merged, read_vars>>

(* Mutant: any cart may be converted.                                      *)
ConvertToOrder_Again(c) ==
  /\ calls[c].pc = "ordered"
  /\ cart_status' = "Converted"
  /\ MoveCall(c, "converted", calls[c].items)
  /\ Publish(<<[type |-> "CartConverted"]>>)
  /\ UNCHANGED <<cart_items, coupon, cart_orders, merged>>

(* The caller gets an error when the cart is not active or has no items    *)
(* any more.                                                               *)
ConvertToOrder(c) ==
  /\ calls[c].pc = "ordered"
  /\ \/ /\ Active
        /\ InCart(cart_items) # {}
        /\ cart_status' = "Converted"
        /\ MoveCall(c, "converted", calls[c].items)
        /\ Publish(<<[type |-> "CartConverted"]>>)
     \/ /\ ~Active \/ InCart(cart_items) = {}
        /\ MoveCall(c, "refused", calls[c].items)
        /\ UNCHANGED <<cart_status, read_vars>>
  /\ UNCHANGED <<cart_items, coupon, cart_orders, merged>>

(* The caller gets the order's id.                                         *)
Answer(c) ==
  /\ calls[c].pc = "converted"
  /\ MoveCall(c, "answered", calls[c].items)
  /\ UNCHANGED <<cart_status, cart_items, coupon, cart_orders, merged, read_vars>>

(* The process stops, before the cart is converted or after: the caller    *)
(* gets no answer.                                                         *)
Stop(c) ==
  /\ calls[c].pc \in {"loaded", "ordered", "converted"}
  /\ Cardinality({d \in Calls : calls[d].pc \in {"stopped", "unanswered"}}) < MaxStops
  /\ MoveCall(c, IF calls[c].pc = "converted" THEN "unanswered" ELSE "stopped", calls[c].items)
  /\ UNCHANGED <<cart_status, cart_items, coupon, cart_orders, merged, read_vars>>

checkout_cart(c) ==
  LoadCart(c) \/ CreateOrderFromCart(c) \/ ConvertToOrder(c) \/ Answer(c) \/ Stop(c)

------------------------------------------------------------------------------
(* CartView: what the row r is after event e.                              *)
NoCartView == [status |-> "none", listed |-> [v \in Variants |-> 0], item_count |-> 0,
               coupons |-> 0, updated_at |-> FALSE]

(* Every handler but those of quantities and removals makes the row that   *)
(* is missing.                                                             *)
CartRow(r) == IF r.status = "none" THEN [r EXCEPT !.status = "Active"] ELSE r

Listing(r, listed) == [CartRow(r) EXCEPT !.listed = listed,
                                      !.item_count = Cardinality(InCart(listed))]

(* Mutant: an update of the quantity is taken for an addition.             *)
on_cart_view_Adds(r, e) ==
  CASE e.type \in {"CartItemAdded", "CartQuantityUpdated"} ->
         Listing(r, [r.listed EXCEPT ![e.variant] = @ + e.quantity])
    [] e.type = "CartItemRemoved" -> Listing(r, [r.listed EXCEPT ![e.variant] = 0])
    [] e.type = "CartsMerged" -> [CartRow(r) EXCEPT !.item_count = @ + e.items_merged_count]
    [] e.type = "CartCouponApplied" -> [CartRow(r) EXCEPT !.coupons = @ + 1]
    [] e.type = "CartConverted" -> [CartRow(r) EXCEPT !.status = "Converted"]
    [] e.type = "CartAbandoned" -> [CartRow(r) EXCEPT !.status = "Abandoned", !.updated_at = TRUE]

(* An item added is listed or counts on top of what is; an update finds    *)
(* only items that are listed; a merge adds to the count, not to the list. *)
on_cart_view(r, e) ==
  CASE e.type = "CartItemAdded" -> Listing(r, [r.listed EXCEPT ![e.variant] = @ + e.quantity])
    [] e.type = "CartQuantityUpdated" ->
         [r EXCEPT !.listed[e.variant] = IF @ > 0 THEN e.quantity ELSE 0]
    [] e.type = "CartItemRemoved" -> Listing(r, [r.listed EXCEPT ![e.variant] = 0])
    [] e.type = "CartsMerged" -> [CartRow(r) EXCEPT !.item_count = @ + e.items_merged_count]
    [] e.type = "CartCouponApplied" -> [CartRow(r) EXCEPT !.coupons = @ + 1]
    [] e.type = "CartConverted" -> [CartRow(r) EXCEPT !.status = "Converted"]
    [] e.type = "CartAbandoned" -> [CartRow(r) EXCEPT !.status = "Abandoned", !.updated_at = TRUE]

------------------------------------------------------------------------------
CreateCart ==
  /\ cart_status = "Active"
  /\ cart_items = [v \in Variants |-> 0]
  /\ coupon = FALSE
  /\ calls = [c \in Calls |-> [pc |-> "idle", items |-> cart_items]]
  /\ cart_orders = {}
  /\ merged = 0

StorefrontInit ==
  /\ CreateCart
  /\ view \in {"cart_view", "none"}
  /\ row = NoCartView
  /\ unread = << >>
  /\ redelivered = FALSE

CartCommand ==
  \/ AddToCart \/ UpdateCartQuantity \/ RemoveFromCart \/ MergeGuestCart
  \/ ApplyCouponToCart \/ AbandonCart \/ DetectAbandonedCarts

Checkout == \E c \in Calls : checkout_cart(c)

CartProjection == Project(on_cart_view(row, Head(unread))) /\ UNCHANGED cart_vars

StorefrontNext == CartCommand \/ Checkout \/ CartProjection

StorefrontSpec == StorefrontInit /\ [][StorefrontNext]_storefront_vars

------------------------------------------------------------------------------
CallsAt(pcs) == {c \in Calls : calls[c].pc \in pcs}

HasConverted == {"converted", "answered", "unanswered"}

(* However often and however late checkout is called, one call at most     *)
(* converts the cart, and it alone may be answered with an order; whoever  *)
(* is told of success can rely on that.  It ordered something, as did      *)
(* every call that was refused, or stopped after its order was made: those *)
(* orders stay, and nobody is told of them.  The status of the cart        *)
(* prevents a second conversion, not a second order.                       *)
CheckoutAnswersOnce ==
  /\ Cardinality(CallsAt(HasConverted)) = IF cart_status = "Converted" THEN 1 ELSE 0
  /\ \A c \in CallsAt({"ordered", "refused"} \cup HasConverted) :
       \E o \in cart_orders : o.call = c /\ InCart(o.items) # {}
  /\ \A o \in cart_orders : /\ calls[o.call].pc \notin {"idle", "loaded"}
                            /\ o.items = calls[o.call].items

(* The view that caught up shows the status, and the items as well unless  *)
(* a guest's cart was merged in, whose items it does not list, or an event *)
(* was handled twice.  It never has a date for a cart it shows as active:  *)
(* DetectAbandonedCarts finds none.                                        *)
CartViewFollows ==
  view = "cart_view" =>
    /\ ~Idle
    /\ CaughtUp =>
         /\ row.status \in {cart_status, "none"}
         /\ row.status = "none" => cart_status = "Active" /\ InCart(cart_items) = {}
         /\ ~redelivered => /\ \A v \in Variants : row.listed[v] <= cart_items[v]
                            /\ (row.coupons = 1) = coupon
         /\ ~redelivered /\ merged = 0 =>
              row.listed = cart_items /\ row.item_count = Cardinality(InCart(cart_items))
==============================================================================
