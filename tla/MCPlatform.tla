----------------------------- MODULE MCPlatform -----------------------------
(***************************************************************************)
(* One instance of the components that do not act on each other: payments  *)
(* with the refund of returns, the storefront, reviews, the catalogue,     *)
(* customers' accounts and the projections of Fulfillment.  The projection *)
(* that is watched says which of them acts; the others rest, so that their *)
(* states add up instead of multiplying.                                   *)
(***************************************************************************)
EXTENDS Returns, Storefront, Reviews, Categories, Accounts

CONSTANTS ParcelItems, ParcelDays, ParcelExceptions, \* ItemIds, Days, MaxExceptions of the parcel
          Scans, MaxTracked

VARIABLES parcel_status, parcel_items, parcel_packed, parcel_shipment, parcel_raised,
          day, exceptions, tracking_events

parcel == <<parcel_status, parcel_items, parcel_packed, parcel_shipment, parcel_raised,
            day, exceptions, tracking_events>>

Parcel == INSTANCE ParcelViews WITH
  ItemIds <- ParcelItems, Days <- ParcelDays, MaxExceptions <- ParcelExceptions,
  status <- parcel_status, items <- parcel_items, packed <- parcel_packed,
  shipment <- parcel_shipment, raised <- parcel_raised

payment_all == <<vars, return_vars>>
catalogue_all == <<product_vars, category_vars, category_unread, overtook>>
platform_vars == <<payment_all, cart_vars, review_vars, catalogue_all, account_vars, parcel, read_vars>>

AtRest ==
  /\ Init /\ returned = "no" /\ repeated = FALSE
  /\ CreateCart
  /\ ReviewsEmpty
  /\ CreateProduct /\ NoCategories
  /\ RegisterCustomer
  /\ Parcel!Init /\ day = 1 /\ exceptions = 0 /\ tracking_events = << >>

(* Categories are interchangeable, and the first phone number matters to   *)
(* accounts alone.                                                         *)
PlatformInit ==
  /\ AtRest
  /\ \/ ReturnsInit \/ StorefrontInit \/ ReviewsInit \/ CatalogueViewsInit
     \/ AccountsInit \/ Parcel!ParcelInit
  /\ category_of = CHOOSE c \in CategoryIds : TRUE
  /\ view \notin AccountViews => profile.phone = "None"

------------------------------------------------------------------------------
(* Bounds of the instance: what does not meet in a property does not meet  *)
(* in a behaviour either.                                                  *)

(* CartView is watched with a single checkout that goes through, and       *)
(* repeated checkouts without it and without coupons and merges.           *)
StorefrontBound ==
  IF view = "cart_view"
  THEN /\ Cardinality({c \in Calls : calls'[c].pc # "idle"}) <= 1
       /\ \A c \in Calls : calls'[c].pc \notin {"stopped", "unanswered"}
  ELSE ~coupon' /\ merged' = 0

(* Stars are counted without reactions, and the rest is watched without    *)
(* overlapping submissions.                                                *)
ReviewsBound ==
  IF view = "product_rating" THEN \A id \in ReviewIds : Reactions(reviews'[id]) = 0
  ELSE ~overlapped' /\ ~purchased'

(* Images change before there are variants, and only where they are shown. *)
CatalogueBound ==
  /\ images' # images => Offered = {} /\ view \in {"product_card", "product_detail"}
  /\ variants' # variants => \A i \in ImageIds : images[i] = "none"

(* The tree is watched without changes of the product, the category's      *)
(* products with that category alone, and one category alone is reordered  *)
(* or deactivated.                                                         *)
CategoriesBound ==
  LET known == {c \in CategoryIds : categories'[c] # NoCategory} IN
  /\ images' = images
  /\ variants' # variants => Offered = {}
  /\ view = "category_tree" => product_vars' = product_vars
  /\ view = "category_products" => known \subseteq {category_of}
  /\ \A c \in known :
       categories'[c].order # 0 \/ (c \in Known /\ ~categories'[c].is_active) => known = {c}

(* Addresses change only where they are shown, and nothing else does.      *)
AccountsBound ==
  IF view = "address_book" THEN <<account, tier, profile>>' = <<account, tier, profile>>
  ELSE addresses' = addresses

------------------------------------------------------------------------------
PaymentStep ==
  /\ view \in PaymentViewNames
  /\ ReturnsNext
  /\ UNCHANGED <<cart_vars, review_vars, catalogue_all, account_vars, parcel>>

StorefrontStep ==
  /\ view \in {"cart_view", "none"}
  /\ StorefrontNext /\ StorefrontBound
  /\ UNCHANGED <<payment_all, review_vars, catalogue_all, account_vars, parcel>>

ReviewsStep ==
  /\ view \in ReviewViews
  /\ ReviewsNext /\ ReviewsBound
  /\ UNCHANGED <<payment_all, cart_vars, catalogue_all, account_vars, parcel>>

CatalogueStep ==
  /\ CatalogueViewsNext
  /\ IF view \in ProductViews THEN CatalogueBound ELSE CategoriesBound
  /\ UNCHANGED <<payment_all, cart_vars, review_vars, account_vars, parcel>>

AccountsStep ==
  /\ view \in AccountViews
  /\ AccountsNext /\ AccountsBound
  /\ UNCHANGED <<payment_all, cart_vars, review_vars, catalogue_all, parcel>>

ParcelStep ==
  /\ view \in Parcel!ParcelViewNames
  /\ Parcel!ParcelNext
  /\ UNCHANGED <<payment_all, cart_vars, review_vars, catalogue_all, account_vars>>

PlatformNext == PaymentStep \/ StorefrontStep \/ ReviewsStep \/ CatalogueStep
                \/ AccountsStep \/ ParcelStep

PlatformSpec == PlatformInit /\ [][PlatformNext]_platform_vars /\ ReturnsFairness

(* ParcelViews' property of the instance: the projections of Fulfillment   *)
(* that caught up tell the truth about the parcel.                         *)
ParcelViewsFollow == Parcel!ParcelViewsFollow

(* Fulfillment's property of the instance: nothing leaves the warehouse    *)
(* that was not picked, packed and labelled.                               *)
ParcelComplete == Parcel!ParcelComplete
==============================================================================
