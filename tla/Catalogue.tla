------------------------------ MODULE Catalogue ------------------------------
(***************************************************************************)
(* Product (catalogue/product) with its projections, and the subscriber    *)
(* that initialises Inventory's stock of a new variant, for one product.   *)
(* No command but those of its life cycle looks at the product's status.   *)
(* Of prices there is the base price and that of one tier; SKUs, brands,   *)
(* descriptions, attributes, sizes and dates are left out.                 *)
(***************************************************************************)
EXTENDS ReadModel, FiniteSets

CONSTANTS
  VariantIds,  \* uuid4 values variants may get
  ImageIds,    \* uuid4 values images may get
  Prices,      \* prices a variant or a tier may have
  MaxImages    \* 10 in the code

ASSUME CatalogueAssumption ==
  Prices \subseteq Nat \ {0} /\ MaxImages \in Nat \ {0} /\ "none" \notin ImageIds

VARIABLES
  product,   \* ProductStatus
  title,
  variants,  \* variant id -> Variant, NoVariant where there is none
  images     \* image id -> "none", "plain", "primary" or "removed"

product_vars == <<product, title, variants, images>>

catalogue_vars == <<product_vars, read_vars>>

------------------------------------------------------------------------------
NoVariant == [price |-> 0, tier_price |-> 0]

Offered == {v \in VariantIds : variants[v] # NoVariant}

Shown == {i \in ImageIds : images[i] \in {"plain", "primary"}}

Primary == {i \in ImageIds : images[i] = "primary"}

Announce(event) == Publish(<<event>>)

update_details(new_title) ==
  /\ title' = new_title
  /\ Announce([type |-> "ProductDetailsUpdated", title |-> new_title])
  /\ UNCHANGED <<product, variants, images>>

add_variant(price) ==
  \E v \in VariantIds \ Offered :
    /\ variants' = [variants EXCEPT ![v].price = price]
    /\ Announce([type |-> "VariantAdded", variant_id |-> v, price |-> price])
    /\ UNCHANGED <<product, title, images>>

(* The new Price has no tiers.                                             *)
update_variant_price(v, price) ==
  /\ v \in Offered
  /\ variants' = [variants EXCEPT ![v] = [price |-> price, tier_price |-> 0]]
  /\ Announce([type |-> "VariantPriceChanged", variant_id |-> v,
               previous_price |-> variants[v].price, new_price |-> price])
  /\ UNCHANGED <<product, title, images>>

set_tier_price(v, price) ==
  /\ v \in Offered
  /\ price < variants[v].price
  /\ variants' = [variants EXCEPT ![v].tier_price = price]
  /\ Announce([type |-> "TierPriceSet", variant_id |-> v, price |-> price])
  /\ UNCHANGED <<product, title, images>>

(* The first image is primary; another one that is unseats it.             *)
add_image(asked) ==
  \E i \in ImageIds :
    LET is_primary == asked \/ Shown = {}
        others     == IF is_primary /\ Primary # {}
                      THEN [j \in ImageIds |-> IF j \in Primary THEN "plain" ELSE images[j]]
                      ELSE images
    IN  /\ images[i] = "none"
        /\ Cardinality(Shown) < MaxImages
        /\ images' = [others EXCEPT ![i] = IF is_primary THEN "primary" ELSE "plain"]
        /\ Announce([type |-> "ProductImageAdded", image_id |-> i, is_primary |-> is_primary])
        /\ UNCHANGED <<product, title, variants>>

(* The rest, if any, gets a new primary image: the first that the database *)
(* lists.  No event says which.                                            *)
remove_image(i) ==
  /\ i \in Shown
  /\ LET rest    == Shown \ {i}
         removed == [images EXCEPT ![i] = "removed"]
     IN  IF i \in Primary /\ rest # {}
         THEN \E first \in rest : images' = [removed EXCEPT ![first] = "primary"]
         ELSE images' = removed
  /\ Announce([type |-> "ProductImageRemoved", image_id |-> i])
  /\ UNCHANGED <<product, title, variants>>

MoveProduct(from, to, type) ==
  /\ product = from
  /\ product' = to
  /\ Announce([type |-> type])
  /\ UNCHANGED <<title, variants, images>>

activate == Offered # {} /\ MoveProduct("Draft", "Active", "ProductActivated")

discontinue == MoveProduct("Active", "Discontinued", "ProductDiscontinued")

archive == MoveProduct("Discontinued", "Archived", "ProductArchived")

ProductCommand ==
  \/ activate \/ discontinue \/ archive
  \/ \E new_title \in {"old", "new"} : update_details(new_title)
  \/ \E price \in Prices :
       \/ add_variant(price)
       \/ \E v \in VariantIds : update_variant_price(v, price) \/ set_tier_price(v, price)
  \/ \E asked \in BOOLEAN : add_image(asked)
  \/ \E i \in ImageIds : remove_image(i)

------------------------------------------------------------------------------
(* Projectors: what the projection is after event e, if it was r before.   *)
ProductViews == {"product_card", "product_detail", "seller_catalogue", "price_history", "stock"}

StatusSet == [ProductActivated |-> "Active", ProductDiscontinued |-> "Discontinued",
              ProductArchived |-> "Archived"]

(* 0 stands for no price yet.                                              *)
Lower(r, price) == IF r.min_price = 0 \/ price < r.min_price THEN price ELSE r.min_price

Upper(r, price) == IF price > r.max_price THEN price ELSE r.max_price

Widened(r, price) == [r EXCEPT !.min_price = Lower(r, price), !.max_price = Upper(r, price)]

(* Mutant: the range is that of the prices variants were added with.       *)
on_product_card_Added(r, e) ==
  CASE e.type \in DOMAIN StatusSet -> [r EXCEPT !.status = StatusSet[e.type]]
    [] e.type = "ProductDetailsUpdated" -> [r EXCEPT !.title = e.title]
    [] e.type = "VariantAdded" -> [Widened(r, e.price) EXCEPT !.variant_count = @ + 1]
    [] e.type = "ProductImageAdded" /\ e.is_primary -> [r EXCEPT !.image = e.image_id]
    [] OTHER -> r

(* A price change only widens the range, and a removed image stays.        *)
on_product_card(r, e) ==
  CASE e.type \in DOMAIN StatusSet -> [r EXCEPT !.status = StatusSet[e.type]]
    [] e.type = "ProductDetailsUpdated" -> [r EXCEPT !.title = e.title]
    [] e.type = "VariantAdded" -> [Widened(r, e.price) EXCEPT !.variant_count = @ + 1]
    [] e.type = "VariantPriceChanged" -> Widened(r, e.new_price)
    [] e.type = "ProductImageAdded" /\ e.is_primary -> [r EXCEPT !.image = e.image_id]
    [] OTHER -> r

FirstOfVariant(r, v) ==
  {k \in DOMAIN r.variants :
     /\ r.variants[k].variant_id = v
     /\ \A j \in 1..(k - 1) : r.variants[j].variant_id # v}

OfVariant(r, v, field, value) ==
  [r EXCEPT !.variants =
     [k \in DOMAIN r.variants |->
        IF k \in FirstOfVariant(r, v)
        THEN [r.variants[k] EXCEPT ![field] = value] ELSE r.variants[k]]]

(* Variants and images are appended; a price change keeps the tier price,  *)
(* and no image loses its mark to another.                                 *)
on_product_detail(r, e) ==
  CASE e.type \in DOMAIN StatusSet -> [r EXCEPT !.status = StatusSet[e.type]]
    [] e.type = "ProductDetailsUpdated" -> [r EXCEPT !.title = e.title]
    [] e.type = "VariantAdded" ->
         [r EXCEPT !.variants =
            Append(@, [variant_id |-> e.variant_id, price |-> e.price, tier_price |-> 0])]
    [] e.type = "VariantPriceChanged" ->
         OfVariant(r, e.variant_id, "price", e.new_price)
    [] e.type = "TierPriceSet" ->
         OfVariant(r, e.variant_id, "tier_price", e.price)
    [] e.type = "ProductImageAdded" ->
         [r EXCEPT !.images = @ \cup {[image_id |-> e.image_id, is_primary |-> e.is_primary]}]
    [] e.type = "ProductImageRemoved" ->
         [r EXCEPT !.images = {image \in @ : image.image_id # e.image_id}]

on_seller_catalogue(r, e) ==
  CASE e.type \in DOMAIN StatusSet -> [r EXCEPT !.status = StatusSet[e.type]]
    [] e.type = "ProductDetailsUpdated" -> [r EXCEPT !.title = e.title]
    [] e.type = "VariantAdded" -> [r EXCEPT !.variant_count = @ + 1]
    [] OTHER -> r

(* Of every variant's entries: the price of the latest, 0 if there is      *)
(* none, and whether every entry starts where the one before ended.        *)
on_price_history(r, e) ==
  IF e.type = "VariantPriceChanged"
  THEN [r EXCEPT ![e.variant_id] =
          [price |-> e.new_price,
           unbroken |-> @.unbroken /\ @.price \in {0, e.previous_price}]]
  ELSE r

(* CatalogueVariantSubscriber: the inventory items of every variant, each  *)
(* made by an InitializeStock with quantity 0.                             *)
on_variant_subscriber(r, e) ==
  IF e.type = "VariantAdded" THEN [r EXCEPT ![e.variant_id] = @ + 1] ELSE r

ProductProjected(r, e) ==
  CASE view = "product_card" -> on_product_card(r, e)
    [] view = "product_detail" -> on_product_detail(r, e)
    [] view = "seller_catalogue" -> on_seller_catalogue(r, e)
    [] view = "price_history" -> on_price_history(r, e)
    [] view = "stock" -> on_variant_subscriber(r, e)

ProductRow ==
  CASE view = "product_card" -> [status |-> "Draft", title |-> "old", variant_count |-> 0,
                                 min_price |-> 0, max_price |-> 0, image |-> "none"]
    [] view = "product_detail" -> [status |-> "Draft", title |-> "old",
                                   variants |-> << >>, images |-> {}]
    [] view = "seller_catalogue" -> [status |-> "Draft", title |-> "old", variant_count |-> 0]
    [] view = "price_history" -> [v \in VariantIds |-> [price |-> 0, unbroken |-> TRUE]]
    [] view = "stock" -> [v \in VariantIds |-> 0]

------------------------------------------------------------------------------
CreateProduct ==
  /\ product = "Draft"
  /\ title = "old"
  /\ variants = [v \in VariantIds |-> NoVariant]
  /\ images = [i \in ImageIds |-> "none"]

CatalogueInit ==
  /\ CreateProduct
  /\ view \in ProductViews
  /\ row = ProductRow
  /\ unread = << >>
  /\ redelivered = FALSE

ProductProjection == Project(ProductProjected(row, Head(unread))) /\ UNCHANGED product_vars

CatalogueNext == ProductCommand \/ ProductProjection

CatalogueSpec == CatalogueInit /\ [][CatalogueNext]_catalogue_vars

------------------------------------------------------------------------------
SameTerms == row.status = product /\ row.title = title

(* Every price is within the range on the card, which shows the primary    *)
(* image or one that was removed.                                          *)
ProductCardFollows ==
  /\ SameTerms
  /\ ~redelivered => row.variant_count = Cardinality(Offered)
  /\ \A v \in Offered : variants[v].price \in row.min_price..row.max_price
  /\ Shown # {} => row.image # "none"
  /\ row.image \in Shown => row.image \in Primary

(* A tier price is listed, but one that a new price dropped may be, too.   *)
ProductDetailFollows ==
  /\ SameTerms
  /\ {row.variants[k].variant_id : k \in DOMAIN row.variants} = Offered
  /\ \A k \in DOMAIN row.variants :
       LET entry == row.variants[k] IN
       ~redelivered => /\ entry.price = variants[entry.variant_id].price
                       /\ variants[entry.variant_id].tier_price \in {0, entry.tier_price}
  /\ {image.image_id : image \in row.images} = Shown

HistoryFollows ==
  ~redelivered => \A v \in VariantIds : /\ row[v].unbroken
                                        /\ row[v].price \in {0, variants[v].price}

(* There is one primary image as soon as there are images, through every   *)
(* addition and removal, no tier price is as high as the price, nothing is *)
(* on sale without a variant, and what caught up with the product tells    *)
(* the truth about it, with the exceptions above: its projections, and     *)
(* Inventory, which has one item of every variant unless an event was      *)
(* handled twice.                                                          *)
CatalogueFollows ==
  /\ Shown # {} => Cardinality(Primary) = 1
  /\ \A v \in Offered : variants[v].tier_price < variants[v].price
  /\ product # "Draft" => Offered # {}
  /\ CaughtUp =>
       CASE view = "product_card" -> ProductCardFollows
         [] view = "product_detail" -> ProductDetailFollows
         [] view = "seller_catalogue" ->
              SameTerms /\ (~redelivered => row.variant_count = Cardinality(Offered))
         [] view = "price_history" -> HistoryFollows
         [] view = "stock" ->
              \A v \in VariantIds : /\ (row[v] > 0) = (v \in Offered)
                                    /\ ~redelivered => row[v] <= 1
         [] OTHER -> TRUE
==============================================================================
