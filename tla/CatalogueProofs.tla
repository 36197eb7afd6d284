---------------------------- MODULE CatalogueProofs ----------------------------
(***************************************************************************)
(* What is proved of the catalogue, for any variants, prices, images and   *)
(* categories: that the projections of a product, those that follow its    *)
(* categories as well and the stock that is initialized for its variants   *)
(* tell the truth once they caught up.                                     *)
(***************************************************************************)
EXTENDS Categories, SharedLemmas

(***************************************************************************)
(* The catalogue: a product with its variants and images, and what its     *)
(* projections are to say of it.                                           *)
(***************************************************************************)
Names == {"old", "new"}

StatusChanges == {"ProductActivated", "ProductDiscontinued", "ProductArchived"}

ProductStatuses == {"Draft", "Active", "Discontinued", "Archived"}

ProductEvent ==
  [type : StatusChanges \cup {"ProductCreated"}]
  \cup [type : {"ProductDetailsUpdated"}, title : Names]
  \cup [type : {"VariantAdded", "TierPriceSet"}, variant_id : VariantIds, price : Prices]
  \cup [type : {"VariantPriceChanged"}, variant_id : VariantIds, previous_price : Prices,
        new_price : Prices]
  \cup [type : {"ProductImageAdded"}, image_id : ImageIds, is_primary : BOOLEAN]
  \cup [type : {"ProductImageRemoved"}, image_id : ImageIds]

VariantType == [price : Prices \cup {0}, tier_price : Prices \cup {0}]

ImageStates == {"none", "plain", "primary", "removed"}

ProductInv ==
  /\ product \in ProductStatuses
  /\ title \in Names
  /\ variants \in [VariantIds -> VariantType]
  /\ images \in [ImageIds -> ImageStates]
  /\ IsFiniteSet(Offered)
  /\ Shown # {} => \E i \in ImageIds : Primary = {i}
  /\ \A v \in Offered : variants[v].tier_price < variants[v].price
  /\ product # "Draft" => Offered # {}

(* What the product's event e says that it did, of each of its parts.      *)
StatusSays(e) == product' = IF e.type \in StatusChanges THEN StatusSet[e.type] ELSE product

TitleSays(e) == title' = IF e.type = "ProductDetailsUpdated" THEN e.title ELSE title

VariantsSay(e) ==
  CASE e.type = "VariantAdded" ->
         /\ e.variant_id \notin Offered
         /\ variants' = [variants EXCEPT ![e.variant_id] = [price |-> e.price, tier_price |-> 0]]
    [] e.type = "VariantPriceChanged" ->
         /\ e.variant_id \in Offered /\ e.previous_price = variants[e.variant_id].price
         /\ variants' =
              [variants EXCEPT ![e.variant_id] = [price |-> e.new_price, tier_price |-> 0]]
    [] e.type = "TierPriceSet" ->
         /\ e.variant_id \in Offered /\ e.price < variants[e.variant_id].price
         /\ variants' = [variants EXCEPT ![e.variant_id] =
                           [price |-> variants[e.variant_id].price, tier_price |-> e.price]]
    [] OTHER -> variants' = variants

ImageAdded(i, is_primary) ==
  /\ images[i] = "none"
  /\ Shown = {} => is_primary
  /\ images' = [j \in ImageIds |-> IF j = i THEN (IF is_primary THEN "primary" ELSE "plain")
                                   ELSE IF is_primary /\ images[j] = "primary" THEN "plain"
                                   ELSE images[j]]

ImageRemoved(i) ==
  /\ i \in Shown
  /\ \/ /\ i \notin Primary \/ Shown = {i}
        /\ images' = [images EXCEPT ![i] = "removed"]
     \/ \E first \in Shown \ {i} :
          /\ i \in Primary
          /\ images' = [[images EXCEPT ![i] = "removed"] EXCEPT ![first] = "primary"]

ImagesSay(e) ==
  CASE e.type = "ProductImageAdded" -> ImageAdded(e.image_id, e.is_primary)
    [] e.type = "ProductImageRemoved" -> ImageRemoved(e.image_id)
    [] OTHER -> images' = images

ProductSays(e) ==
  /\ e \in ProductEvent /\ e.type # "ProductCreated"
  /\ e.type = "ProductActivated" => Offered # {}
  /\ e.type \in {"ProductDiscontinued", "ProductArchived"} => product # "Draft"
  /\ StatusSays(e) /\ TitleSays(e) /\ VariantsSay(e) /\ ImagesSay(e)

LEMMA ProductEvents ==
  ASSUME NEW e \in ProductEvent
  PROVE  /\ e.type \in StatusChanges \cup
                        {"ProductCreated", "ProductDetailsUpdated", "VariantAdded", "TierPriceSet",
                         "VariantPriceChanged", "ProductImageAdded", "ProductImageRemoved"}
         /\ e.type = "ProductDetailsUpdated" => e.title \in Names
         /\ e.type \in {"VariantAdded", "TierPriceSet"} =>
              e.variant_id \in VariantIds /\ e.price \in Prices
         /\ e.type = "VariantPriceChanged" =>
              e.variant_id \in VariantIds /\ e.previous_price \in Prices /\ e.new_price \in Prices
         /\ e.type = "ProductImageAdded" => e.image_id \in ImageIds /\ e.is_primary \in BOOLEAN
         /\ e.type = "ProductImageRemoved" => e.image_id \in ImageIds
  BY DEF ProductEvent, StatusChanges

LEMMA VariantPrices ==
  /\ Prices \subseteq Nat /\ 0 \notin Prices
  /\ \A x \in VariantType : x.price \in Nat /\ x.tier_price \in Nat
<1>1. \A p \in Prices : p \in Nat /\ p # 0
  BY CatalogueAssumption
<1>2. ASSUME NEW x \in VariantType PROVE x.price \in Nat /\ x.tier_price \in Nat
  <2>1. x.price \in Prices \cup {0} /\ x.tier_price \in Prices \cup {0}
    BY DEF VariantType
  <2> QED  BY <1>1, <2>1
<1> QED  BY <1>1, <1>2

(* Every command says in one event what it did.                            *)
LEMMA CommandSays ==
  ASSUME ProductInv, ProductCommand
  PROVE  \E e \in ProductEvent : ProductSays(e) /\ Publish(<<e>>)
<1>1. /\ Prices \subseteq Nat /\ 0 \notin Prices
      /\ \A v \in VariantIds : v \in Offered <=> variants[v].price # 0
      /\ \A v \in VariantIds : v \notin Offered => variants[v] = NoVariant
      /\ \A v \in VariantIds : variants[v] \in VariantType
  <2>1. ASSUME NEW v \in Offered PROVE variants[v].price # 0
    <3>1. v \in VariantIds /\ variants[v] \in VariantType
      BY <2>1 DEF ProductInv, Offered
    <3>2. variants[v].tier_price \in Nat /\ variants[v].price \in Nat
      BY <3>1, VariantPrices
    <3>3. variants[v].tier_price < variants[v].price
      BY DEF ProductInv
    <3> QED  BY <3>2, <3>3
  <2>2. ASSUME NEW v \in VariantIds, v \notin Offered
        PROVE  variants[v] = NoVariant /\ variants[v].price = 0
    BY <2>2 DEF Offered, NoVariant
  <2> QED  BY <2>1, <2>2, VariantPrices DEF ProductInv
<1>2. ASSUME NEW from, NEW to, NEW type \in StatusChanges, MoveProduct(from, to, type),
             to = StatusSet[type], type = "ProductActivated" => Offered # {},
             type # "ProductActivated" => from # "Draft"
      PROVE  \E e \in ProductEvent : ProductSays(e) /\ Publish(<<e>>)
  <2>1. PICK e : e = [type |-> type]
    OBVIOUS
  <2>2. e \in ProductEvent /\ e.type = type
    BY <2>1 DEF ProductEvent
  <2>3. ProductSays(e)
    BY <1>2, <2>2 DEF ProductSays, StatusChanges, MoveProduct, StatusSays, TitleSays, VariantsSay,
                      ImagesSay
  <2>4. Publish(<<e>>)
    BY <1>2, <2>1 DEF MoveProduct, Announce
  <2> QED  BY <2>2, <2>3, <2>4
<1>3. CASE activate \/ discontinue \/ archive
  <2>1. /\ StatusSet["ProductActivated"] = "Active"
        /\ StatusSet["ProductDiscontinued"] = "Discontinued"
        /\ StatusSet["ProductArchived"] = "Archived"
    BY DEF StatusSet
  <2> QED  BY <1>2, <1>3, <2>1 DEF activate, discontinue, archive, StatusChanges
<1>4. ASSUME NEW new_title \in Names, update_details(new_title)
      PROVE  \E e \in ProductEvent : ProductSays(e) /\ Publish(<<e>>)
  <2>1. PICK e : e = [type |-> "ProductDetailsUpdated", title |-> new_title]
    OBVIOUS
  <2>2. e \in ProductEvent /\ e.type = "ProductDetailsUpdated" /\ e.title = new_title
    BY <2>1 DEF ProductEvent
  <2>3. ProductSays(e)
    BY <1>4, <2>2 DEF ProductSays, StatusChanges, update_details, StatusSays, TitleSays,
                      VariantsSay, ImagesSay
  <2>4. Publish(<<e>>)
    BY <1>4, <2>1 DEF update_details, Announce
  <2> QED  BY <2>2, <2>3, <2>4
<1>5. ASSUME NEW price \in Prices, add_variant(price)
      PROVE  \E e \in ProductEvent : ProductSays(e) /\ Publish(<<e>>)
  <2>1. PICK v \in VariantIds \ Offered :
          /\ variants' = [variants EXCEPT ![v].price = price]
          /\ Announce([type |-> "VariantAdded", variant_id |-> v, price |-> price])
          /\ UNCHANGED <<product, title, images>>
    BY <1>5 DEF add_variant
  <2>2. PICK e : e = [type |-> "VariantAdded", variant_id |-> v, price |-> price]
    OBVIOUS
  <2>3. /\ e \in ProductEvent /\ e.type = "VariantAdded" /\ e.variant_id = v /\ e.price = price
    BY <2>2 DEF ProductEvent
  <2>4. variants' = [variants EXCEPT ![v] = [price |-> price, tier_price |-> 0]]
    <3>1. [variants[v] EXCEPT !.price = price] = [price |-> price, tier_price |-> 0]
      BY <1>1 DEF NoVariant
    <3> QED  BY <2>1, <3>1
  <2>5. ProductSays(e)
    BY <2>1, <2>3, <2>4 DEF ProductSays, StatusChanges, StatusSays, TitleSays, VariantsSay, ImagesSay
  <2>6. Publish(<<e>>)
    BY <2>1, <2>2 DEF Announce
  <2> QED  BY <2>3, <2>5, <2>6
<1>6. ASSUME NEW v \in VariantIds, NEW price \in Prices, update_variant_price(v, price)
      PROVE  \E e \in ProductEvent : ProductSays(e) /\ Publish(<<e>>)
  <2>1. PICK e : e = [type |-> "VariantPriceChanged", variant_id |-> v,
                      previous_price |-> variants[v].price, new_price |-> price]
    OBVIOUS
  <2>2. variants[v].price \in Prices
    BY <1>1, <1>6 DEF update_variant_price, VariantType
  <2>3. /\ e \in ProductEvent /\ e.type = "VariantPriceChanged" /\ e.variant_id = v
        /\ e.previous_price = variants[v].price /\ e.new_price = price
    BY <2>1, <2>2 DEF ProductEvent
  <2>4. ProductSays(e)
    BY <1>6, <2>3 DEF ProductSays, StatusChanges, update_variant_price, StatusSays, TitleSays,
                      VariantsSay, ImagesSay
  <2>5. Publish(<<e>>)
    BY <1>6, <2>1 DEF update_variant_price, Announce
  <2> QED  BY <2>3, <2>4, <2>5
<1>7. ASSUME NEW v \in VariantIds, NEW price \in Prices, set_tier_price(v, price)
      PROVE  \E e \in ProductEvent : ProductSays(e) /\ Publish(<<e>>)
  <2>1. PICK e : e = [type |-> "TierPriceSet", variant_id |-> v, price |-> price]
    OBVIOUS
  <2>2. e \in ProductEvent /\ e.type = "TierPriceSet" /\ e.variant_id = v /\ e.price = price
    BY <2>1 DEF ProductEvent
  <2>3. variants' = [variants EXCEPT ![v] = [price |-> variants[v].price, tier_price |-> price]]
    <3>1. [variants[v] EXCEPT !.tier_price = price] =
            [price |-> variants[v].price, tier_price |-> price]
      BY <1>1 DEF VariantType
    <3> QED  BY <1>7, <3>1 DEF set_tier_price
  <2>4. ProductSays(e)
    BY <1>7, <2>2, <2>3 DEF ProductSays, StatusChanges, set_tier_price, StatusSays, TitleSays,
                            VariantsSay, ImagesSay
  <2>5. Publish(<<e>>)
    BY <1>7, <2>1 DEF set_tier_price, Announce
  <2> QED  BY <2>2, <2>4, <2>5
<1>8. ASSUME NEW asked \in BOOLEAN, add_image(asked)
      PROVE  \E e \in ProductEvent : ProductSays(e) /\ Publish(<<e>>)
  <2>1. PICK is_primary \in BOOLEAN : is_primary = (asked \/ Shown = {})
    BY <1>8
  <2>2. PICK others : others = IF is_primary /\ Primary # {}
                               THEN [j \in ImageIds |-> IF j \in Primary THEN "plain" ELSE images[j]]
                               ELSE images
    OBVIOUS
  <2>3. PICK i \in ImageIds :
          /\ images[i] = "none"
          /\ images' = [others EXCEPT ![i] = IF is_primary THEN "primary" ELSE "plain"]
          /\ Announce([type |-> "ProductImageAdded", image_id |-> i, is_primary |-> is_primary])
          /\ UNCHANGED <<product, title, variants>>
    BY <1>8, <2>1, <2>2 DEF add_image
  <2>4. PICK e : e = [type |-> "ProductImageAdded", image_id |-> i, is_primary |-> is_primary]
    OBVIOUS
  <2>5. /\ e \in ProductEvent /\ e.type = "ProductImageAdded" /\ e.image_id = i
        /\ e.is_primary = is_primary
    BY <2>4 DEF ProductEvent
  <2>6. ImageAdded(i, is_primary)
    <3>1. images \in [ImageIds -> ImageStates]
      BY DEF ProductInv
    <3>2. others = [j \in ImageIds |-> IF is_primary /\ images[j] = "primary" THEN "plain"
                                       ELSE images[j]]
      BY <2>2, <3>1 DEF Primary
    <3> QED  BY <2>1, <2>3, <3>2 DEF ImageAdded
  <2>7. ProductSays(e)
    BY <2>3, <2>5, <2>6 DEF ProductSays, StatusChanges, StatusSays, TitleSays, VariantsSay, ImagesSay
  <2>8. Publish(<<e>>)
    BY <2>3, <2>4 DEF Announce
  <2> QED  BY <2>5, <2>7, <2>8
<1>9. ASSUME NEW i \in ImageIds, remove_image(i)
      PROVE  \E e \in ProductEvent : ProductSays(e) /\ Publish(<<e>>)
  <2>1. PICK e : e = [type |-> "ProductImageRemoved", image_id |-> i]
    OBVIOUS
  <2>2. e \in ProductEvent /\ e.type = "ProductImageRemoved" /\ e.image_id = i
    BY <2>1 DEF ProductEvent
  <2>3. ImageRemoved(i)
    BY <1>9 DEF remove_image, ImageRemoved
  <2>4. ProductSays(e)
    BY <1>9, <2>2, <2>3 DEF ProductSays, StatusChanges, remove_image, StatusSays, TitleSays,
                            VariantsSay, ImagesSay
  <2>5. Publish(<<e>>)
    BY <1>9, <2>1 DEF remove_image, Announce
  <2> QED  BY <2>2, <2>4, <2>5
<1> QED  BY <1>3, <1>4, <1>5, <1>6, <1>7, <1>8, <1>9, Zenon DEF ProductCommand, Names
LEMMA VariantFacts ==
  ASSUME ProductInv
  PROVE  /\ Prices \subseteq Nat /\ 0 \notin Prices
         /\ \A v \in VariantIds : /\ variants[v] \in VariantType
                                  /\ variants[v].price \in Nat /\ variants[v].tier_price \in Nat
                                  /\ v \in Offered <=> variants[v].price # 0
                                  /\ v \notin Offered => variants[v] = NoVariant
         /\ Offered \subseteq VariantIds /\ Shown \subseteq ImageIds /\ Primary \subseteq Shown
         /\ \A i \in ImageIds : images[i] \in ImageStates
<1>1. ASSUME NEW v \in VariantIds
      PROVE  /\ variants[v] \in VariantType
             /\ variants[v].price \in Nat /\ variants[v].tier_price \in Nat
             /\ v \in Offered <=> variants[v].price # 0
             /\ v \notin Offered => variants[v] = NoVariant
  <2>1. variants[v] \in VariantType
    BY DEF ProductInv
  <2>2. variants[v].tier_price \in Nat /\ variants[v].price \in Nat
    BY <2>1, VariantPrices
  <2>3. v \in Offered => variants[v].tier_price < variants[v].price
    BY DEF ProductInv
  <2>4. v \notin Offered => variants[v] = NoVariant /\ variants[v].price = 0
    BY DEF Offered, NoVariant
  <2> QED  BY <2>1, <2>2, <2>3, <2>4
<1>2. Offered \subseteq VariantIds /\ Shown \subseteq ImageIds /\ Primary \subseteq Shown
  BY DEF Offered, Shown, Primary
<1> QED  BY <1>1, <1>2, VariantPrices DEF ProductInv

(* What is on offer after an event.                                        *)
LEMMA SaysOffered ==
  ASSUME ProductInv, NEW e, ProductSays(e)
  PROVE  /\ Offered' = IF e.type = "VariantAdded" THEN Offered \cup {e.variant_id} ELSE Offered
         /\ e.type = "VariantAdded" => e.variant_id \in VariantIds \ Offered
         /\ \A v \in VariantIds :
              variants'[v] =
                IF e.type = "VariantAdded" /\ e.variant_id = v
                THEN [price |-> e.price, tier_price |-> 0]
                ELSE IF e.type = "VariantPriceChanged" /\ e.variant_id = v
                THEN [price |-> e.new_price, tier_price |-> 0]
                ELSE IF e.type = "TierPriceSet" /\ e.variant_id = v
                THEN [price |-> variants[v].price, tier_price |-> e.price]
                ELSE variants[v]
         /\ variants' \in [VariantIds -> VariantType]
<1>1. /\ variants \in [VariantIds -> VariantType] /\ e \in ProductEvent
      /\ Prices \subseteq Nat /\ 0 \notin Prices
      /\ \A v \in VariantIds : /\ v \in Offered <=> variants[v].price # 0
                               /\ variants[v] \in VariantType
  BY VariantFacts DEF ProductInv, ProductSays
<1>2. /\ e.type \in {"VariantAdded", "TierPriceSet"} =>
           e.variant_id \in VariantIds /\ e.price \in Prices
      /\ e.type = "VariantPriceChanged" =>
              e.variant_id \in VariantIds /\ e.previous_price \in Prices /\ e.new_price \in Prices
  BY <1>1, ProductEvents
<1>3. VariantsSay(e)
  BY DEF ProductSays
<1>4. ASSUME NEW v \in VariantIds
      PROVE  variants'[v] =
                IF e.type = "VariantAdded" /\ e.variant_id = v
                THEN [price |-> e.price, tier_price |-> 0]
                ELSE IF e.type = "VariantPriceChanged" /\ e.variant_id = v
                THEN [price |-> e.new_price, tier_price |-> 0]
                ELSE IF e.type = "TierPriceSet" /\ e.variant_id = v
                THEN [price |-> variants[v].price, tier_price |-> e.price]
                ELSE variants[v]
  BY <1>1, <1>2, <1>3 DEF VariantsSay
<1>5. variants' \in [VariantIds -> VariantType]
  <2>1. \A p \in Prices \cup {0}, q \in Prices \cup {0} :
          [price |-> p, tier_price |-> q] \in VariantType
    BY DEF VariantType
  <2>2. \A v \in VariantIds : variants[v].price \in Prices \cup {0}
    BY <1>1 DEF VariantType
  <2>3. CASE e.type = "VariantAdded"
    BY <1>1, <1>2, <1>3, <2>1, <2>3 DEF VariantsSay
  <2>4. CASE e.type = "VariantPriceChanged"
    BY <1>1, <1>2, <1>3, <2>1, <2>4 DEF VariantsSay
  <2>5. CASE e.type = "TierPriceSet"
    BY <1>1, <1>2, <1>3, <2>1, <2>2, <2>5 DEF VariantsSay
  <2>6. CASE e.type \notin {"VariantAdded", "VariantPriceChanged", "TierPriceSet"}
    BY <1>1, <1>3, <2>6 DEF VariantsSay
  <2> QED  BY <2>3, <2>4, <2>5, <2>6
<1>6. e.type = "VariantAdded" => e.variant_id \in VariantIds \ Offered
  BY <1>2, <1>3 DEF VariantsSay
<1>7. e.type \in {"VariantPriceChanged", "TierPriceSet"} => e.variant_id \in Offered
  BY <1>3 DEF VariantsSay
<1>8. Offered' = {v \in VariantIds : variants'[v] # NoVariant}
  BY DEF Offered
<1>9. ASSUME NEW v \in VariantIds
      PROVE  variants'[v] # NoVariant <=>
               v \in Offered \/ (e.type = "VariantAdded" /\ v = e.variant_id)
  <2>1. \A p \in Prices : \A q : [price |-> p, tier_price |-> q] # NoVariant
    BY <1>1 DEF NoVariant
  <2>2. v \in Offered <=> variants[v] # NoVariant
    BY DEF Offered
  <2>3. v \in Offered => variants[v].price \in Prices
    BY <1>1 DEF VariantType
  <2>4. CASE e.type = "VariantAdded" /\ e.variant_id = v
    BY <1>2, <1>4, <2>1, <2>4
  <2>5. CASE e.type = "VariantPriceChanged" /\ e.variant_id = v
    BY <1>2, <1>4, <1>7, <2>1, <2>5
  <2>6. CASE e.type = "TierPriceSet" /\ e.variant_id = v
    <3>1. variants'[v] = [price |-> variants[v].price, tier_price |-> e.price]
      BY <1>4, <2>6
    <3>2. v \in Offered
      BY <1>7, <2>6
    <3> QED  BY <2>1, <2>3, <3>1, <3>2
  <2>7. CASE ~(e.type \in {"VariantAdded", "VariantPriceChanged", "TierPriceSet"}
               /\ e.variant_id = v)
    <3>1. variants'[v] = variants[v]
      BY <1>4, <2>7
    <3> QED  BY <2>2, <2>7, <3>1
  <2> QED  BY <2>4, <2>5, <2>6, <2>7
<1>10. Offered' = IF e.type = "VariantAdded" THEN Offered \cup {e.variant_id} ELSE Offered
  <2>1. Offered \subseteq VariantIds
    BY DEF Offered
  <2> QED  BY <1>6, <1>8, <1>9, <2>1
<1> QED  BY <1>4, <1>5, <1>6, <1>10

(* Images after an event: there is one primary image if there are any.     *)
LEMMA SaysImages ==
  ASSUME ProductInv, NEW e, ProductSays(e)
  PROVE  /\ images' \in [ImageIds -> ImageStates]
         /\ Shown' # {} => \E i \in ImageIds : Primary' = {i}
         /\ Shown' = IF e.type = "ProductImageAdded" THEN Shown \cup {e.image_id}
                     ELSE IF e.type = "ProductImageRemoved" THEN Shown \ {e.image_id}
                     ELSE Shown
<1>1. /\ images \in [ImageIds -> ImageStates] /\ e \in ProductEvent
      /\ Shown \subseteq ImageIds /\ Primary \subseteq Shown
      /\ Shown # {} => \E i \in ImageIds : Primary = {i}
      /\ Shown = {i \in ImageIds : images[i] \in {"plain", "primary"}}
      /\ Primary = {i \in ImageIds : images[i] = "primary"}
      /\ Shown' = {i \in ImageIds : images'[i] \in {"plain", "primary"}}
      /\ Primary' = {i \in ImageIds : images'[i] = "primary"}
  BY VariantFacts DEF ProductInv, ProductSays, Shown, Primary
<1>2. ImagesSay(e)
  BY DEF ProductSays
<1>3. CASE e.type = "ProductImageAdded"
  <2>1. PICK i \in ImageIds, p \in BOOLEAN : i = e.image_id /\ p = e.is_primary
    BY <1>1, <1>3, ProductEvents
  <2>2. ImageAdded(i, p)
    BY <1>2, <1>3, <2>1 DEF ImagesSay
  <2>3. images' \in [ImageIds -> ImageStates]
    BY <1>1, <2>2 DEF ImageAdded, ImageStates
  <2>4. /\ images'[i] = IF p THEN "primary" ELSE "plain"
        /\ \A j \in ImageIds : j # i => images'[j] = IF p /\ images[j] = "primary" THEN "plain"
                                                     ELSE images[j]
    BY <2>2 DEF ImageAdded
  <2>5. Shown' = Shown \cup {i}
    BY <1>1, <2>4
  <2>6. \E k \in ImageIds : Primary' = {k}
    <3>1. CASE p
      <4>1. Primary' = {i}
        BY <1>1, <2>4, <3>1
      <4> QED  BY <4>1
    <3>2. CASE ~p
      <4>1. Shown # {} /\ images[i] = "none"
        BY <2>2, <3>2 DEF ImageAdded
      <4>2. PICK k \in ImageIds : Primary = {k}
        BY <1>1, <4>1
      <4>3. Primary' = {k}
        BY <1>1, <2>4, <3>2, <4>1, <4>2
      <4> QED  BY <4>3
    <3> QED  BY <3>1, <3>2
  <2> QED  BY <1>3, <2>1, <2>3, <2>5, <2>6
<1>4. CASE e.type = "ProductImageRemoved"
  <2>1. PICK i \in ImageIds : i = e.image_id
    BY <1>1, <1>4, ProductEvents
  <2>2. ImageRemoved(i)
    BY <1>2, <1>4, <2>1 DEF ImagesSay
  <2>3. CASE i \notin Primary \/ Shown = {i}
    <3>1. images' = [images EXCEPT ![i] = "removed"] /\ i \in Shown
      BY <1>1, <2>2, <2>3 DEF ImageRemoved
    <3>2. images' \in [ImageIds -> ImageStates]
      BY <1>1, <3>1 DEF ImageStates
    <3>3. Shown' = Shown \ {i}
      BY <1>1, <3>1
    <3>4. Shown' # {} => Primary' = Primary /\ Shown # {}
      BY <1>1, <2>3, <3>1, <3>3
    <3> QED  BY <1>1, <1>4, <2>1, <3>2, <3>3, <3>4
  <2>4. CASE ~(i \notin Primary \/ Shown = {i})
    <3>1. PICK first \in Shown \ {i} :
            images' = [[images EXCEPT ![i] = "removed"] EXCEPT ![first] = "primary"]
      BY <2>2, <2>4 DEF ImageRemoved
    <3>2. images' \in [ImageIds -> ImageStates]
      BY <1>1, <3>1 DEF ImageStates
    <3>3. /\ images'[first] = "primary" /\ images'[i] = "removed" /\ first \in ImageIds
          /\ \A j \in ImageIds \ {i, first} : images'[j] = images[j]
      BY <1>1, <3>1
    <3>4. Shown' = Shown \ {i}
      BY <1>1, <3>1, <3>3
    <3>5. Primary = {i}
      BY <1>1, <2>4, <3>1
    <3>6. Primary' = {first}
      BY <1>1, <3>3, <3>5
    <3> QED  BY <1>4, <2>1, <3>2, <3>3, <3>4, <3>6
  <2> QED  BY <2>3, <2>4
<1>5. CASE e.type \notin {"ProductImageAdded", "ProductImageRemoved"}
  <2>1. images' = images
    BY <1>2, <1>5 DEF ImagesSay
  <2>2. Shown' = Shown /\ Primary' = Primary
    BY <2>1 DEF Shown, Primary
  <2> QED  BY <1>1, <1>5, <2>1, <2>2
<1> QED  BY <1>3, <1>4, <1>5

LEMMA SaysKeeps ==
  ASSUME ProductInv, NEW e, ProductSays(e)
  PROVE  ProductInv'
<1>1. /\ Prices \subseteq Nat /\ 0 \notin Prices /\ Offered \subseteq VariantIds
      /\ \A v \in Offered : /\ variants[v].price \in Nat /\ variants[v].tier_price \in Nat
                            /\ variants[v].tier_price < variants[v].price
  BY VariantFacts DEF ProductInv
<1>2. e \in ProductEvent /\ IsFiniteSet(Offered)
  BY DEF ProductSays, ProductInv
<1>3. product' \in ProductStatuses /\ (product' # "Draft" => Offered' # {})
  <2>1. StatusSays(e) /\ (e.type = "ProductActivated" => Offered # {})
    BY DEF ProductSays
  <2>2. product' \in ProductStatuses
    BY <2>1 DEF StatusSays, StatusSet, StatusChanges, ProductStatuses, ProductInv
  <2>3. Offered \subseteq Offered'
    BY SaysOffered
  <2>4. product' # "Draft" => product # "Draft" \/ e.type = "ProductActivated"
    <3>1. e.type = "ProductDiscontinued" \/ e.type = "ProductArchived" => product # "Draft"
      BY DEF ProductSays
    <3> QED  BY <2>1, <3>1 DEF StatusSays, StatusChanges
  <2>5. product # "Draft" => Offered # {}
    BY DEF ProductInv
  <2> QED  BY <2>1, <2>2, <2>3, <2>4, <2>5
<1>4. title' \in Names
  <2>1. TitleSays(e) /\ title \in Names
    BY DEF ProductSays, ProductInv
  <2> QED  BY <1>2, <2>1, ProductEvents DEF TitleSays
<1>5. IsFiniteSet(Offered')
  <2>1. Offered' = Offered \cup {e.variant_id} \/ Offered' = Offered
    BY SaysOffered
  <2> QED  BY <1>2, <2>1, FS_AddElement
<1>9. /\ e.type \in {"VariantAdded", "TierPriceSet"} => e.price \in Prices
      /\ e.type = "VariantPriceChanged" => e.new_price \in Prices
  BY <1>2, ProductEvents
<1>6. ASSUME NEW v \in Offered' PROVE variants'[v].tier_price < variants'[v].price
  <2>1. v \in VariantIds
    BY DEF Offered
  <2>2. CASE e.type = "VariantAdded" /\ e.variant_id = v
    <3>1. variants'[v] = [price |-> e.price, tier_price |-> 0]
      BY <2>1, <2>2, SaysOffered
    <3>2. e.price \in Nat /\ e.price # 0
      BY <1>1, <1>9, <2>2
    <3> QED  BY <3>1, <3>2
  <2>3. CASE e.type = "VariantPriceChanged" /\ e.variant_id = v
    <3>1. variants'[v] = [price |-> e.new_price, tier_price |-> 0]
      BY <2>1, <2>3, SaysOffered
    <3>2. e.new_price \in Nat /\ e.new_price # 0
      BY <1>1, <1>9, <2>3
    <3> QED  BY <3>1, <3>2
  <2>4. CASE e.type = "TierPriceSet" /\ e.variant_id = v
    <3>1. variants'[v] = [price |-> variants[v].price, tier_price |-> e.price]
      BY <2>1, <2>4, SaysOffered
    <3>2. e.price < variants[v].price
      BY <2>4 DEF ProductSays, VariantsSay
    <3>3. variants'[v].price = variants[v].price /\ variants'[v].tier_price = e.price
      BY <3>1
    <3> QED  BY <3>2, <3>3
  <2>5. CASE ~(e.type \in {"VariantAdded", "VariantPriceChanged", "TierPriceSet"}
               /\ e.variant_id = v)
    <3>1. variants'[v] = variants[v] /\ v \in Offered
      BY <2>1, <2>5, SaysOffered
    <3> QED  BY <1>1, <3>1
  <2> QED  BY <2>2, <2>3, <2>4, <2>5
<1>7. variants' \in [VariantIds -> VariantType]
  BY SaysOffered
<1>8. images' \in [ImageIds -> ImageStates] /\ (Shown' # {} => \E i \in ImageIds : Primary' = {i})
  BY SaysImages
<1> QED  BY <1>3, <1>4, <1>5, <1>6, <1>7, <1>8 DEF ProductInv

ProductChange == {e \in ProductEvent : e.type # "ProductCreated"}

(* What the events make of each part of a row.                             *)
StatusSteps ==
  {t \in ProductStatuses \X ProductEvent \X ProductStatuses :
     t[3] = IF t[2].type \in StatusChanges THEN StatusSet[t[2].type] ELSE t[1]}

TitleSteps ==
  {t \in Names \X ProductEvent \X Names :
     t[3] = IF t[2].type = "ProductDetailsUpdated" THEN t[2].title ELSE t[1]}

(* The variants that are listed.                                           *)
OfferSteps ==
  {t \in (SUBSET VariantIds) \X ProductEvent \X (SUBSET VariantIds) :
     t[3] = IF t[2].type = "VariantAdded" THEN t[1] \cup {t[2].variant_id} ELSE t[1]}

(* How many variants were added, and how many with the id v.               *)
AddedSteps ==
  {t \in Nat \X ProductEvent \X Nat :
     t[3] = IF t[2].type = "VariantAdded" THEN t[1] + 1 ELSE t[1]}

ItemSteps(v) ==
  {t \in Nat \X ProductEvent \X Nat :
     t[3] = IF t[2].type = "VariantAdded" /\ t[2].variant_id = v THEN t[1] + 1 ELSE t[1]}

(* The image on the card, and all images that are listed.                  *)
CoverSteps ==
  {t \in (ImageIds \cup {"none"}) \X ProductEvent \X (ImageIds \cup {"none"}) :
     t[3] = IF t[2].type = "ProductImageAdded" /\ t[2].is_primary THEN t[2].image_id ELSE t[1]}

PictureSteps ==
  {t \in (SUBSET ImageIds) \X ProductEvent \X (SUBSET ImageIds) :
     t[3] = IF t[2].type = "ProductImageAdded" THEN t[1] \cup {t[2].image_id}
            ELSE IF t[2].type = "ProductImageRemoved" THEN t[1] \ {t[2].image_id}
            ELSE t[1]}

(* The price of v: an event names the one it replaces.                     *)
PriceSteps(v) ==
  {t \in Nat \X ProductEvent \X Nat :
     IF t[2].type = "VariantAdded" /\ t[2].variant_id = v
     THEN t[1] = 0 /\ t[3] = t[2].price
     ELSE IF t[2].type = "VariantPriceChanged" /\ t[2].variant_id = v
     THEN t[1] = t[2].previous_price /\ t[3] = t[2].new_price
     ELSE t[3] = t[1]}

(* The entry of v in the details: NoVariant before there is one.           *)
DetailSteps(v) ==
  {t \in VariantType \X ProductEvent \X VariantType :
     IF t[2].type = "VariantAdded" /\ t[2].variant_id = v
     THEN t[1] = NoVariant /\ t[3] = [price |-> t[2].price, tier_price |-> 0]
     ELSE IF t[2].type = "VariantPriceChanged" /\ t[2].variant_id = v
     THEN t[1] # NoVariant /\ t[3] = [price |-> t[2].new_price, tier_price |-> t[1].tier_price]
     ELSE IF t[2].type = "TierPriceSet" /\ t[2].variant_id = v
     THEN t[1] # NoVariant /\ t[3] = [price |-> t[1].price, tier_price |-> t[2].price]
     ELSE t[3] = t[1]}

(* What is to be shown in the end: on the card the primary image, or one   *)
(* that was removed; in the details perhaps a tier price that is no more.  *)
CoverTold(y) ==
  /\ Shown # {} => y # "none"
  /\ y \in Shown => y \in Primary
  /\ y \in ImageIds => images[y] # "none"

DetailTold(v, y) ==
  /\ y = NoVariant <=> v \notin Offered
  /\ y.price = variants[v].price /\ variants[v].tier_price \in {0, y.tier_price}

(* An event is published, and what is to be shown moves on with it.        *)
LEMMA SaysLead ==
  ASSUME ProductInv, NEW e, ProductSays(e), unread \in Seq(ProductEvent),
         unread' = unread \o <<e>>, NEW x
  PROVE  /\ Leads(StatusSteps, x, unread, product) => Leads(StatusSteps, x, unread', product')
         /\ Leads(TitleSteps, x, unread, title) => Leads(TitleSteps, x, unread', title')
         /\ Leads(OfferSteps, x, unread, Offered) => Leads(OfferSteps, x, unread', Offered')
         /\ Leads(AddedSteps, x, unread, Cardinality(Offered)) =>
              Leads(AddedSteps, x, unread', Cardinality(Offered'))
         /\ Leads(PictureSteps, x, unread, Shown) => Leads(PictureSteps, x, unread', Shown')
<1>1. e \in ProductEvent
  BY DEF ProductSays
<1>2. <<product, e, product'>> \in StatusSteps
  <2>1. product \in ProductStatuses /\ product' \in ProductStatuses
    BY SaysKeeps DEF ProductInv
  <2> QED  BY <1>1, <2>1 DEF StatusSteps, ProductSays, StatusSays
<1>3. <<title, e, title'>> \in TitleSteps
  <2>1. title \in Names /\ title' \in Names
    BY SaysKeeps DEF ProductInv
  <2> QED  BY <1>1, <2>1 DEF TitleSteps, ProductSays, TitleSays
<1>4. /\ Offered' = IF e.type = "VariantAdded" THEN Offered \cup {e.variant_id} ELSE Offered
      /\ e.type = "VariantAdded" => e.variant_id \in VariantIds \ Offered
  BY SaysOffered
<1>5. Offered \in SUBSET VariantIds /\ Offered' \in SUBSET VariantIds /\ IsFiniteSet(Offered)
  BY DEF Offered, ProductInv
<1>6. <<Offered, e, Offered'>> \in OfferSteps
  BY <1>1, <1>4, <1>5 DEF OfferSteps
<1>7. <<Cardinality(Offered), e, Cardinality(Offered')>> \in AddedSteps
  <2>1. Cardinality(Offered') =
          IF e.type = "VariantAdded" THEN Cardinality(Offered) + 1 ELSE Cardinality(Offered)
    BY <1>4, <1>5, FS_AddElement
  <2>2. Cardinality(Offered) \in Nat
    BY <1>5, FS_CardinalityType
  <2> QED  BY <1>1, <2>1, <2>2 DEF AddedSteps
<1>8. <<Shown, e, Shown'>> \in PictureSteps
  <2>1. Shown \in SUBSET ImageIds /\ Shown' \in SUBSET ImageIds
    BY DEF Shown
  <2>2. Shown' = IF e.type = "ProductImageAdded" THEN Shown \cup {e.image_id}
                 ELSE IF e.type = "ProductImageRemoved" THEN Shown \ {e.image_id}
                 ELSE Shown
    BY SaysImages
  <2> QED  BY <1>1, <2>1, <2>2 DEF PictureSteps
<1> QED  BY <1>1, <1>2, <1>3, <1>6, <1>7, <1>8, LeadsMore

LEMMA SaysVariant ==
  ASSUME ProductInv, NEW e, ProductSays(e), unread \in Seq(ProductEvent),
         unread' = unread \o <<e>>, NEW x, NEW v \in VariantIds
  PROVE  /\ Leads(ItemSteps(v), x, unread, IF v \in Offered THEN 1 ELSE 0) =>
              Leads(ItemSteps(v), x, unread', IF v \in Offered' THEN 1 ELSE 0)
         /\ Leads(PriceSteps(v), x, unread, variants[v].price) =>
              Leads(PriceSteps(v), x, unread', variants'[v].price)
         /\ \A y \in VariantType : Leads(DetailSteps(v), x, unread, y) /\ DetailTold(v, y) =>
              \E z \in VariantType : Leads(DetailSteps(v), x, unread', z) /\ DetailTold(v, z)'
<1>1. e \in ProductEvent
  BY DEF ProductSays
<1>2. /\ Prices \subseteq Nat /\ 0 \notin Prices
      /\ variants[v] \in VariantType /\ variants[v].price \in Nat /\ variants[v].tier_price \in Nat
      /\ v \in Offered <=> variants[v].price # 0
      /\ v \notin Offered => variants[v] = NoVariant
  BY VariantFacts
<1>3. /\ Offered' = IF e.type = "VariantAdded" THEN Offered \cup {e.variant_id} ELSE Offered
      /\ e.type = "VariantAdded" => e.variant_id \in VariantIds \ Offered
      /\ variants'[v] =
                IF e.type = "VariantAdded" /\ e.variant_id = v
                THEN [price |-> e.price, tier_price |-> 0]
                ELSE IF e.type = "VariantPriceChanged" /\ e.variant_id = v
                THEN [price |-> e.new_price, tier_price |-> 0]
                ELSE IF e.type = "TierPriceSet" /\ e.variant_id = v
                THEN [price |-> variants[v].price, tier_price |-> e.price]
                ELSE variants[v]
  BY SaysOffered
<1>4. /\ e.type = "VariantPriceChanged" =>
           e.variant_id \in Offered /\ e.previous_price = variants[e.variant_id].price
      /\ e.type = "TierPriceSet" => e.variant_id \in Offered
  BY DEF ProductSays, VariantsSay
<1>5. /\ e.type \in {"VariantAdded", "TierPriceSet"} => e.price \in Prices
      /\ e.type = "VariantPriceChanged" => e.new_price \in Prices
  BY <1>1, ProductEvents
<1>6. ASSUME NEW a, NEW b, a = (IF v \in Offered THEN 1 ELSE 0), b = (IF v \in Offered' THEN 1 ELSE 0)
      PROVE  <<a, e, b>> \in ItemSteps(v)
  <2>1. a \in Nat /\ b \in Nat
           /\ b = IF e.type = "VariantAdded" /\ e.variant_id = v THEN a + 1 ELSE a
    BY <1>3, <1>6
  <2> QED  BY <1>1, <2>1 DEF ItemSteps
<1>7. <<variants[v].price, e, variants'[v].price>> \in PriceSteps(v)
  <2>1. PICK a, b : a = variants[v].price /\ b = variants'[v].price
    OBVIOUS
  <2>2. b = IF e.type = "VariantAdded" /\ e.variant_id = v THEN e.price
            ELSE IF e.type = "VariantPriceChanged" /\ e.variant_id = v THEN e.new_price
            ELSE a
    BY <1>3, <2>1
  <2>3. a \in Nat /\ b \in Nat
    BY <1>2, <1>5, <2>1, <2>2
  <2>4. /\ e.type = "VariantAdded" /\ e.variant_id = v => a = 0
        /\ e.type = "VariantPriceChanged" /\ e.variant_id = v => a = e.previous_price
    BY <1>2, <1>3, <1>4, <2>1
  <2>5. <<a, e, b>> \in PriceSteps(v)
    BY <1>1, <2>2, <2>3, <2>4 DEF PriceSteps
  <2> QED  BY <2>1, <2>5
<1>8. ASSUME NEW y \in VariantType, DetailTold(v, y)
      PROVE  \E z \in VariantType : <<y, e, z>> \in DetailSteps(v) /\ DetailTold(v, z)'
  <2>1. y.price = variants[v].price /\ variants[v].tier_price \in {0, y.tier_price}
        /\ (y = NoVariant <=> v \notin Offered)
    BY <1>8 DEF DetailTold
  <2>2. /\ \A p \in Prices : p # 0
        /\ \A p \in Prices \cup {0}, q \in Prices \cup {0} :
             [price |-> p, tier_price |-> q] \in VariantType
        /\ \A p, q : p # 0 => [price |-> p, tier_price |-> q] # NoVariant
        /\ y.price \in Prices \cup {0} /\ y.tier_price \in Prices \cup {0}
    BY <1>2 DEF VariantType, NoVariant
  <2>3. CASE e.type = "VariantAdded" /\ e.variant_id = v
    <3>1. PICK z : z = [price |-> e.price, tier_price |-> 0]
      OBVIOUS
    <3>2. z \in VariantType /\ z # NoVariant /\ z.price = e.price
      BY <1>5, <2>2, <2>3, <3>1
    <3>3. y = NoVariant /\ v \in Offered'
      BY <1>3, <2>1, <2>3
    <3>4. <<y, e, z>> \in DetailSteps(v)
      BY <1>1, <2>3, <3>1, <3>2, <3>3 DEF DetailSteps
    <3>5. DetailTold(v, z)'
      BY <1>3, <2>3, <3>2, <3>3 DEF DetailTold
    <3> QED  BY <3>2, <3>4, <3>5
  <2>4. CASE e.type = "VariantPriceChanged" /\ e.variant_id = v
    <3>1. PICK z : z = [price |-> e.new_price, tier_price |-> y.tier_price]
      OBVIOUS
    <3>2. z \in VariantType /\ z # NoVariant /\ z.price = e.new_price
      BY <1>5, <2>2, <2>4, <3>1
    <3>3. y # NoVariant /\ v \in Offered'
      BY <1>3, <1>4, <2>1, <2>4
    <3>4. <<y, e, z>> \in DetailSteps(v)
      BY <1>1, <2>4, <3>1, <3>2, <3>3 DEF DetailSteps
    <3>5. DetailTold(v, z)'
      BY <1>3, <2>4, <3>2, <3>3 DEF DetailTold
    <3> QED  BY <3>2, <3>4, <3>5
  <2>5. CASE e.type = "TierPriceSet" /\ e.variant_id = v
    <3>1. PICK z : z = [price |-> y.price, tier_price |-> e.price]
      OBVIOUS
    <3>2. v \in Offered /\ v \in Offered' /\ y # NoVariant /\ y.price # 0
      BY <1>2, <1>3, <1>4, <2>1, <2>5
    <3>3. z \in VariantType /\ z # NoVariant /\ z.price = y.price /\ z.tier_price = e.price
      BY <1>5, <2>2, <2>5, <3>1, <3>2
    <3>4. <<y, e, z>> \in DetailSteps(v)
      BY <1>1, <2>5, <3>1, <3>2, <3>3 DEF DetailSteps
    <3>5. DetailTold(v, z)'
      BY <1>3, <2>1, <2>5, <3>2, <3>3 DEF DetailTold
    <3> QED  BY <3>3, <3>4, <3>5
  <2>6. CASE ~(e.type \in {"VariantAdded", "VariantPriceChanged", "TierPriceSet"}
               /\ e.variant_id = v)
    <3>1. variants'[v] = variants[v] /\ (v \in Offered' <=> v \in Offered)
      BY <1>3, <2>6
    <3>2. <<y, e, y>> \in DetailSteps(v)
      BY <1>1, <2>6 DEF DetailSteps
    <3>3. DetailTold(v, y)'
      BY <2>1, <3>1 DEF DetailTold
    <3> QED  BY <3>2, <3>3
  <2> QED  BY <2>3, <2>4, <2>5, <2>6
<1>9. Leads(ItemSteps(v), x, unread, IF v \in Offered THEN 1 ELSE 0) =>
        Leads(ItemSteps(v), x, unread', IF v \in Offered' THEN 1 ELSE 0)
  <2>1. PICK a, b : a = (IF v \in Offered THEN 1 ELSE 0) /\ b = (IF v \in Offered' THEN 1 ELSE 0)
    OBVIOUS
  <2>2. <<a, e, b>> \in ItemSteps(v)
    BY <1>6, <2>1
  <2>3. Leads(ItemSteps(v), x, unread, a) => Leads(ItemSteps(v), x, unread', b)
    BY <1>1, <2>2, LeadsMore
  <2> QED  BY <2>1, <2>3, Zenon
<1>10. Leads(PriceSteps(v), x, unread, variants[v].price) =>
         Leads(PriceSteps(v), x, unread', variants'[v].price)
  BY <1>1, <1>7, LeadsMore
<1>11. ASSUME NEW y \in VariantType, Leads(DetailSteps(v), x, unread, y), DetailTold(v, y)
       PROVE  \E z \in VariantType : Leads(DetailSteps(v), x, unread', z) /\ DetailTold(v, z)'
  <2>1. PICK z \in VariantType : <<y, e, z>> \in DetailSteps(v) /\ DetailTold(v, z)'
    BY <1>8, <1>11
  <2>2. Leads(DetailSteps(v), x, unread', z)
    BY <1>1, <1>11, <2>1, LeadsMore
  <2> QED  BY <2>1, <2>2
<1> QED  BY <1>9, <1>10, <1>11

LEMMA SaysCover ==
  ASSUME ProductInv, NEW e, ProductSays(e), unread \in Seq(ProductEvent),
         unread' = unread \o <<e>>, NEW x, NEW y \in ImageIds \cup {"none"},
         Leads(CoverSteps, x, unread, y), CoverTold(y)
  PROVE  \E z \in ImageIds \cup {"none"} : Leads(CoverSteps, x, unread', z) /\ CoverTold(z)'
<1>1. e \in ProductEvent /\ ImagesSay(e) /\ "none" \notin ImageIds
  BY CatalogueAssumption DEF ProductSays
<1>2. /\ images \in [ImageIds -> ImageStates]
      /\ Shown = {i \in ImageIds : images[i] \in {"plain", "primary"}}
      /\ Primary = {i \in ImageIds : images[i] = "primary"}
      /\ Shown' = {i \in ImageIds : images'[i] \in {"plain", "primary"}}
      /\ Primary' = {i \in ImageIds : images'[i] = "primary"}
      /\ Shown # {} => \E i \in ImageIds : Primary = {i}
  BY DEF ProductInv, Shown, Primary
<1>3. /\ Shown # {} => y # "none"
      /\ y \in Shown => y \in Primary
      /\ y \in ImageIds => images[y] # "none"
  BY DEF CoverTold
<1>4. SUFFICES \E z \in ImageIds \cup {"none"} : <<y, e, z>> \in CoverSteps /\ CoverTold(z)'
  BY <1>1, LeadsMore
<1>5. CASE e.type = "ProductImageAdded"
  <2>1. PICK i \in ImageIds, p \in BOOLEAN : i = e.image_id /\ p = e.is_primary
    BY <1>1, <1>5, ProductEvents
  <2>2. /\ images[i] = "none" /\ (Shown = {} => p)
        /\ images'[i] = IF p THEN "primary" ELSE "plain"
        /\ \A j \in ImageIds : j # i => images'[j] = IF p /\ images[j] = "primary" THEN "plain"
                                                     ELSE images[j]
    BY <1>1, <1>5, <2>1 DEF ImagesSay, ImageAdded
  <2>3. CASE p
    <3>1. <<y, e, i>> \in CoverSteps
      BY <1>1, <1>5, <2>1, <2>3 DEF CoverSteps
    <3>2. CoverTold(i)'
      BY <1>1, <1>2, <2>2, <2>3 DEF CoverTold
    <3> QED  BY <3>1, <3>2
  <2>4. CASE ~p
    <3>1. <<y, e, y>> \in CoverSteps
      BY <1>1, <1>5, <2>1, <2>4 DEF CoverSteps
    <3>2. y # "none" /\ y \in ImageIds /\ y # i
      BY <1>3, <2>2, <2>4
    <3>3. images'[y] = images[y]
      BY <2>2, <2>4, <3>2
    <3>4. CoverTold(y)'
      BY <1>2, <1>3, <3>2, <3>3 DEF CoverTold
    <3> QED  BY <3>1, <3>4
  <2> QED  BY <2>3, <2>4
<1>6. CASE e.type = "ProductImageRemoved"
  <2>1. PICK i \in ImageIds : i = e.image_id
    BY <1>1, <1>6, ProductEvents
  <2>2. ImageRemoved(i)
    BY <1>1, <1>6, <2>1 DEF ImagesSay
  <2>3. <<y, e, y>> \in CoverSteps
    BY <1>1, <1>6 DEF CoverSteps
  <2>4. CoverTold(y)'
    <3>1. y # "none" /\ y \in ImageIds /\ i \in Shown
      BY <1>3, <2>2 DEF ImageRemoved
    <3>2. CASE (i \notin Primary \/ Shown = {i}) /\ images' = [images EXCEPT ![i] = "removed"]
      <4>1. images'[i] = "removed" /\ \A j \in ImageIds : j # i => images'[j] = images[j]
        BY <1>2, <3>2
      <4> QED  BY <1>2, <1>3, <3>1, <4>1 DEF CoverTold
    <3>3. ASSUME NEW first \in Shown \ {i}, i \in Primary,
                 images' = [[images EXCEPT ![i] = "removed"] EXCEPT ![first] = "primary"]
          PROVE  CoverTold(y)'
      <4>1. /\ images'[i] = "removed" /\ images'[first] = "primary" /\ first \in ImageIds
            /\ \A j \in ImageIds : j \notin {i, first} => images'[j] = images[j]
        BY <1>2, <3>3
      <4>2. Primary = {i}
        BY <1>2, <3>3
      <4> QED  BY <1>2, <1>3, <3>1, <4>1, <4>2 DEF CoverTold
    <3> QED  BY <2>2, <3>2, <3>3 DEF ImageRemoved
  <2> QED  BY <2>3, <2>4
<1>7. CASE e.type \notin {"ProductImageAdded", "ProductImageRemoved"}
  <2>1. images' = images
    BY <1>1, <1>7 DEF ImagesSay
  <2>2. <<y, e, y>> \in CoverSteps
    BY <1>1, <1>7 DEF CoverSteps
  <2>3. CoverTold(y)'
    BY <1>2, <1>3, <2>1 DEF CoverTold
  <2> QED  BY <2>2, <2>3
<1> QED  BY <1>5, <1>6, <1>7

DetailEntry == [variant_id : VariantIds, price : Prices \cup {0}, tier_price : Prices \cup {0}]

CardRow == [status : ProductStatuses, title : Names, variant_count : Nat, min_price : Nat,
            max_price : Nat, image : ImageIds \cup {"none"}]

DetailRow == [status : ProductStatuses, title : Names, variants : Seq(DetailEntry),
              images : SUBSET [image_id : ImageIds, is_primary : BOOLEAN]]

SellerRow == [status : ProductStatuses, title : Names, variant_count : Nat]

HistoryRow == [VariantIds -> [price : Nat, unbroken : BOOLEAN]]

VariantsListed(r) == {r.variants[k].variant_id : k \in DOMAIN r.variants}

PicturesIn(r) == {i.image_id : i \in r.images}

StockedIn(r) == {v \in VariantIds : r[v] > 0}

(* Every price is within the range, or an unread event will widen it.      *)
SetsPrice(e, price) ==
  \/ e.type = "VariantAdded" /\ e.price = price
  \/ e.type = "VariantPriceChanged" /\ e.new_price = price

PriceCovered(r, price) ==
  \/ price \in r.min_price..r.max_price
  \/ \E k \in 1..Len(unread) : SetsPrice(unread[k], price)

TermsLead(r) ==
  Leads(StatusSteps, r.status, unread, product) /\ Leads(TitleSteps, r.title, unread, title)

CountLeads(r) ==
  ~redelivered => Leads(AddedSteps, r.variant_count, unread, Cardinality(Offered))

CardLeads ==
  /\ row \in CardRow
  /\ TermsLead(row) /\ CountLeads(row)
  /\ row.min_price = 0 => row.max_price = 0
  /\ \A v \in Offered : PriceCovered(row, variants[v].price)
  /\ \E y \in ImageIds \cup {"none"} : Leads(CoverSteps, row.image, unread, y) /\ CoverTold(y)

(* While no event was handled twice, a variant has one entry at most.      *)
EntriesApart(r) ==
  \A j, k \in DOMAIN r.variants : r.variants[j].variant_id = r.variants[k].variant_id => j = k

EntryIs(r, v, x) ==
  /\ x = NoVariant => v \notin VariantsListed(r)
  /\ \A k \in DOMAIN r.variants :
       r.variants[k].variant_id = v =>
         r.variants[k].price = x.price /\ r.variants[k].tier_price = x.tier_price

EntryLeads(r, v) ==
  \E x, y \in VariantType :
    EntryIs(r, v, x) /\ Leads(DetailSteps(v), x, unread, y) /\ DetailTold(v, y)

DetailLeads ==
  /\ row \in DetailRow
  /\ TermsLead(row)
  /\ Leads(OfferSteps, VariantsListed(row), unread, Offered)
  /\ Leads(PictureSteps, PicturesIn(row), unread, Shown)
  /\ ~redelivered => EntriesApart(row) /\ \A v \in VariantIds : EntryLeads(row, v)

SellerLeads == row \in SellerRow /\ TermsLead(row) /\ CountLeads(row)

(* The history starts from the price p that the unread events start from.  *)
PriceLeads(r, v) ==
  /\ r[v].unbroken
  /\ \E p \in Nat : r[v].price \in {0, p} /\ Leads(PriceSteps(v), p, unread, variants[v].price)

HistoryLeads ==
  row \in HistoryRow /\ (~redelivered => \A v \in VariantIds : PriceLeads(row, v))

ItemLeads(r, v) == Leads(ItemSteps(v), r[v], unread, IF v \in Offered THEN 1 ELSE 0)

StockLeads ==
  /\ row \in [VariantIds -> Nat]
  /\ Leads(OfferSteps, StockedIn(row), unread, Offered)
  /\ ~redelivered => \A v \in VariantIds : ItemLeads(row, v)

ProductViewInv ==
  /\ ProductInv /\ view \in ProductViews /\ unread \in Seq(ProductChange)
  /\ view = "product_card" => CardLeads
  /\ view = "product_detail" => DetailLeads
  /\ view = "seller_catalogue" => SellerLeads
  /\ view = "price_history" => HistoryLeads
  /\ view = "stock" => StockLeads

LEMMA CommandKeepsProductViews ==
  ASSUME ProductViewInv, ProductCommand
  PROVE  ProductViewInv'
<1>1. PICK e \in ProductEvent : ProductSays(e) /\ Publish(<<e>>)
  BY CommandSays DEF ProductViewInv
<1>2. /\ ProductInv /\ view \in ProductViews /\ view # "none" /\ unread \in Seq(ProductChange)
      /\ unread \in Seq(ProductEvent) /\ e \in ProductChange
  <2>1. unread \in Seq(ProductEvent)
    <3>1. unread \in Seq(ProductChange) /\ ProductChange \subseteq ProductEvent
      BY DEF ProductViewInv, ProductChange
    <3> QED  BY <3>1
  <2> QED  BY <1>1, <2>1 DEF ProductViewInv, ProductViews, ProductSays, ProductChange
<1>3. /\ unread' = unread \o <<e>> /\ view' = view /\ row' = row /\ redelivered' = redelivered
      /\ unread' \in Seq(ProductChange)
  BY <1>1, <1>2 DEF Publish
<1>4. ProductInv'
  BY <1>1, <1>2, SaysKeeps
<1>5. ASSUME NEW r, TermsLead(r) PROVE TermsLead(r)'
  <2>1. PICK s, t : s = r.status /\ t = r.title
    OBVIOUS
  <2>2. Leads(StatusSteps, s, unread', product') /\ Leads(TitleSteps, t, unread', title')
    BY <1>1, <1>2, <1>3, <1>5, <2>1, SaysLead DEF TermsLead
  <2> QED  BY <2>1, <2>2 DEF TermsLead
<1>6. ASSUME NEW r, CountLeads(r) PROVE CountLeads(r)'
  BY <1>1, <1>2, <1>3, <1>6, SaysLead DEF CountLeads
<1>7. ASSUME view = "product_card" PROVE CardLeads'
  <2>1. CardLeads
    BY <1>7 DEF ProductViewInv
  <2>2. TermsLead(row)' /\ CountLeads(row)'
    BY <1>3, <1>5, <1>6, <2>1 DEF CardLeads, TermsLead, CountLeads
  <2>3. PICK y \in ImageIds \cup {"none"} : Leads(CoverSteps, row.image, unread, y) /\ CoverTold(y)
    BY <2>1 DEF CardLeads
  <2>4. \E z \in ImageIds \cup {"none"} : Leads(CoverSteps, row.image, unread', z) /\ CoverTold(z)'
    BY <1>1, <1>2, <1>3, <2>3, SaysCover
  <2>5. ASSUME NEW v \in Offered' PROVE PriceCovered(row, variants[v].price)'
    <3>1. v \in VariantIds /\ Len(unread) \in Nat
      BY <1>2 DEF Offered
    <3>2. /\ unread'[Len(unread) + 1] = e /\ Len(unread') = Len(unread) + 1
          /\ \A k \in 1..Len(unread) : unread'[k] = unread[k]
      BY <1>2, <1>3
    <3>3. CASE SetsPrice(e, variants'[v].price)
      BY <1>3, <3>1, <3>2, <3>3 DEF PriceCovered
    <3>4. CASE ~SetsPrice(e, variants'[v].price)
      <4>0. /\ Offered' = IF e.type = "VariantAdded" THEN Offered \cup {e.variant_id} ELSE Offered
            /\ variants'[v].price =
                 IF e.type = "VariantAdded" /\ e.variant_id = v THEN e.price
                 ELSE IF e.type = "VariantPriceChanged" /\ e.variant_id = v THEN e.new_price
                 ELSE variants[v].price
        <5>1. /\ Offered' = IF e.type = "VariantAdded" THEN Offered \cup {e.variant_id} ELSE Offered
              /\ variants'[v] =
                IF e.type = "VariantAdded" /\ e.variant_id = v
                THEN [price |-> e.price, tier_price |-> 0]
                ELSE IF e.type = "VariantPriceChanged" /\ e.variant_id = v
                THEN [price |-> e.new_price, tier_price |-> 0]
                ELSE IF e.type = "TierPriceSet" /\ e.variant_id = v
                THEN [price |-> variants[v].price, tier_price |-> e.price]
                ELSE variants[v]
          BY <1>1, <1>2, <3>1, SaysOffered
        <5> QED  BY <5>1
      <4>1. v \in Offered /\ variants'[v].price = variants[v].price
        BY <3>4, <4>0 DEF SetsPrice
      <4>2. PriceCovered(row, variants[v].price)
        BY <2>1, <4>1 DEF CardLeads
      <4> QED  BY <1>3, <3>1, <3>2, <4>1, <4>2 DEF PriceCovered
    <3> QED  BY <3>3, <3>4
  <2> QED  BY <1>3, <2>1, <2>2, <2>4, <2>5 DEF CardLeads
<1>8. ASSUME view = "product_detail" PROVE DetailLeads'
  <2>1. DetailLeads
    BY <1>8 DEF ProductViewInv
  <2>2. TermsLead(row)'
    BY <1>3, <1>5, <2>1 DEF DetailLeads, TermsLead
  <2>3. PICK a, b : a = VariantsListed(row) /\ b = PicturesIn(row)
    OBVIOUS
  <2>4. a = VariantsListed(row)' /\ b = PicturesIn(row)'
    BY <1>3, <2>3 DEF VariantsListed, PicturesIn
  <2>5. Leads(OfferSteps, a, unread', Offered') /\ Leads(PictureSteps, b, unread', Shown')
    BY <1>1, <1>2, <1>3, <2>1, <2>3, SaysLead DEF DetailLeads
  <2>6. ASSUME NEW v \in VariantIds, EntryLeads(row, v) PROVE EntryLeads(row, v)'
    <3>1. PICK x, y \in VariantType :
            EntryIs(row, v, x) /\ Leads(DetailSteps(v), x, unread, y) /\ DetailTold(v, y)
      BY <2>6 DEF EntryLeads
    <3>2. PICK z \in VariantType : Leads(DetailSteps(v), x, unread', z) /\ DetailTold(v, z)'
      BY <1>1, <1>2, <1>3, <3>1, SaysVariant
    <3>3. EntryIs(row, v, x)'
      BY <1>3, <3>1 DEF EntryIs, VariantsListed
    <3> QED  BY <3>2, <3>3 DEF EntryLeads
  <2>7. EntriesApart(row) => EntriesApart(row)'
    BY <1>3 DEF EntriesApart
  <2> QED  BY <1>3, <2>1, <2>2, <2>4, <2>5, <2>6, <2>7 DEF DetailLeads
<1>9. ASSUME view = "seller_catalogue" PROVE SellerLeads'
  <2>1. SellerLeads
    BY <1>9 DEF ProductViewInv
  <2>2. TermsLead(row)' /\ CountLeads(row)'
    BY <1>3, <1>5, <1>6, <2>1 DEF SellerLeads, TermsLead, CountLeads
  <2> QED  BY <1>3, <2>1, <2>2 DEF SellerLeads
<1>10. ASSUME view = "price_history" PROVE HistoryLeads'
  <2>1. HistoryLeads
    BY <1>10 DEF ProductViewInv
  <2>2. ASSUME NEW v \in VariantIds, PriceLeads(row, v) PROVE PriceLeads(row, v)'
    <3>1. PICK p \in Nat : row[v].price \in {0, p} /\ Leads(PriceSteps(v), p, unread, variants[v].price)
      BY <2>2 DEF PriceLeads
    <3>2. Leads(PriceSteps(v), p, unread', variants'[v].price)
      BY <1>1, <1>2, <1>3, <3>1, SaysVariant
    <3> QED  BY <1>3, <2>2, <3>1, <3>2 DEF PriceLeads
  <2> QED  BY <1>3, <2>1, <2>2 DEF HistoryLeads
<1>11. ASSUME view = "stock" PROVE StockLeads'
  <2>1. StockLeads
    BY <1>11 DEF ProductViewInv
  <2>2. PICK a : a = StockedIn(row)
    OBVIOUS
  <2>3. a = StockedIn(row)'
    BY <1>3, <2>2 DEF StockedIn
  <2>4. Leads(OfferSteps, a, unread', Offered')
    BY <1>1, <1>2, <1>3, <2>1, <2>2, SaysLead DEF StockLeads
  <2>5. ASSUME NEW v \in VariantIds, ItemLeads(row, v) PROVE ItemLeads(row, v)'
    <3>1. PICK n : n = row[v]
      OBVIOUS
    <3>2. Leads(ItemSteps(v), n, unread, IF v \in Offered THEN 1 ELSE 0)
      BY <2>5, <3>1 DEF ItemLeads
    <3>3. Leads(ItemSteps(v), n, unread', IF v \in Offered' THEN 1 ELSE 0)
      BY <1>1, <1>2, <1>3, <3>2, SaysVariant
    <3> QED  BY <1>3, <3>1, <3>3 DEF ItemLeads
  <2> QED  BY <1>3, <2>1, <2>3, <2>4, <2>5 DEF StockLeads
<1> QED  BY <1>2, <1>3, <1>4, <1>7, <1>8, <1>9, <1>10, <1>11, Zenon DEF ProductViewInv

(* The projector reads an event; of what only follows as long as nothing   *)
(* was handled twice, the event is acknowledged.                           *)
LEMMA PartsRead ==
  ASSUME NEW events \in Seq(ProductEvent), events # << >>, NEW e, e = Head(events), NEW x, NEW y
  PROVE  /\ Leads(StatusSteps, x, events, y) =>
              LET z == IF e.type \in StatusChanges THEN StatusSet[e.type] ELSE x IN
              /\ z \in ProductStatuses
              /\ Leads(StatusSteps, z, Tail(events), y) /\ Leads(StatusSteps, z, events, y)
         /\ Leads(TitleSteps, x, events, y) =>
              LET z == IF e.type = "ProductDetailsUpdated" THEN e.title ELSE x IN
              /\ z \in Names
              /\ Leads(TitleSteps, z, Tail(events), y) /\ Leads(TitleSteps, z, events, y)
         /\ Leads(OfferSteps, x, events, y) =>
              LET z == IF e.type = "VariantAdded" THEN x \cup {e.variant_id} ELSE x IN
              Leads(OfferSteps, z, Tail(events), y) /\ Leads(OfferSteps, z, events, y)
         /\ Leads(CoverSteps, x, events, y) =>
              LET z == IF e.type = "ProductImageAdded" /\ e.is_primary THEN e.image_id ELSE x IN
              /\ z \in ImageIds \cup {"none"}
              /\ Leads(CoverSteps, z, Tail(events), y) /\ Leads(CoverSteps, z, events, y)
         /\ Leads(PictureSteps, x, events, y) =>
              LET z == IF e.type = "ProductImageAdded" THEN x \cup {e.image_id}
                       ELSE IF e.type = "ProductImageRemoved" THEN x \ {e.image_id} ELSE x IN
              Leads(PictureSteps, z, Tail(events), y) /\ Leads(PictureSteps, z, events, y)
<1>1. e \in ProductEvent
  OBVIOUS
<1>2. ASSUME Leads(StatusSteps, x, events, y),
             NEW z, z = IF e.type \in StatusChanges THEN StatusSet[e.type] ELSE x
      PROVE  /\ z \in ProductStatuses
             /\ Leads(StatusSteps, z, Tail(events), y) /\ Leads(StatusSteps, z, events, y)
  <2>1. \A w : <<x, e, w>> \in StatusSteps => w = z
    BY <1>2 DEF StatusSteps
  <2>2. <<x, e, z>> \in StatusSteps /\ Leads(StatusSteps, z, Tail(events), y)
        /\ (<<z, e, z>> \in StatusSteps => Leads(StatusSteps, z, events, y))
    BY <1>2, <2>1, LeadsProject
  <2>3. <<z, e, z>> \in StatusSteps /\ z \in ProductStatuses
    BY <1>1, <1>2, <2>2 DEF StatusSteps
  <2> QED  BY <2>2, <2>3
<1>3. ASSUME Leads(TitleSteps, x, events, y),
             NEW z, z = IF e.type = "ProductDetailsUpdated" THEN e.title ELSE x
      PROVE  /\ z \in Names
             /\ Leads(TitleSteps, z, Tail(events), y) /\ Leads(TitleSteps, z, events, y)
  <2>1. \A w : <<x, e, w>> \in TitleSteps => w = z
    BY <1>3 DEF TitleSteps
  <2>2. <<x, e, z>> \in TitleSteps /\ Leads(TitleSteps, z, Tail(events), y)
        /\ (<<z, e, z>> \in TitleSteps => Leads(TitleSteps, z, events, y))
    BY <1>3, <2>1, LeadsProject
  <2>3. <<z, e, z>> \in TitleSteps /\ z \in Names
    BY <1>1, <1>3, <2>2 DEF TitleSteps
  <2> QED  BY <2>2, <2>3
<1>4. ASSUME Leads(OfferSteps, x, events, y),
             NEW z, z = IF e.type = "VariantAdded" THEN x \cup {e.variant_id} ELSE x
      PROVE  Leads(OfferSteps, z, Tail(events), y) /\ Leads(OfferSteps, z, events, y)
  <2>1. \A w : <<x, e, w>> \in OfferSteps => w = z
    BY <1>4 DEF OfferSteps
  <2>2. <<x, e, z>> \in OfferSteps /\ Leads(OfferSteps, z, Tail(events), y)
        /\ (<<z, e, z>> \in OfferSteps => Leads(OfferSteps, z, events, y))
    <3>1. Leads(OfferSteps, x, events, y)
      BY <1>4
    <3> QED  BY <2>1, <3>1, LeadsProject
  <2>3. z \in SUBSET VariantIds
    BY <2>2 DEF OfferSteps
  <2>4. z = IF e.type = "VariantAdded" THEN z \cup {e.variant_id} ELSE z
    BY <1>4
  <2>5. <<z, e, z>> \in OfferSteps
    BY <1>1, <2>3, <2>4 DEF OfferSteps
  <2> QED  BY <2>2, <2>5
<1>5. ASSUME Leads(CoverSteps, x, events, y),
             NEW z, z = IF e.type = "ProductImageAdded" /\ e.is_primary THEN e.image_id ELSE x
      PROVE  /\ z \in ImageIds \cup {"none"}
             /\ Leads(CoverSteps, z, Tail(events), y) /\ Leads(CoverSteps, z, events, y)
  <2>1. \A w : <<x, e, w>> \in CoverSteps => w = z
    BY <1>5 DEF CoverSteps
  <2>2. <<x, e, z>> \in CoverSteps /\ Leads(CoverSteps, z, Tail(events), y)
        /\ (<<z, e, z>> \in CoverSteps => Leads(CoverSteps, z, events, y))
    BY <1>5, <2>1, LeadsProject
  <2>3. <<z, e, z>> \in CoverSteps /\ z \in ImageIds \cup {"none"}
    BY <1>1, <1>5, <2>2 DEF CoverSteps
  <2> QED  BY <2>2, <2>3
<1>6. ASSUME Leads(PictureSteps, x, events, y),
             NEW z, z = IF e.type = "ProductImageAdded" THEN x \cup {e.image_id}
                        ELSE IF e.type = "ProductImageRemoved" THEN x \ {e.image_id} ELSE x
      PROVE  Leads(PictureSteps, z, Tail(events), y) /\ Leads(PictureSteps, z, events, y)
  <2>1. \A w : <<x, e, w>> \in PictureSteps => w = z
    BY <1>6 DEF PictureSteps
  <2>2. <<x, e, z>> \in PictureSteps /\ Leads(PictureSteps, z, Tail(events), y)
        /\ (<<z, e, z>> \in PictureSteps => Leads(PictureSteps, z, events, y))
    <3>1. Leads(PictureSteps, x, events, y)
      BY <1>6
    <3> QED  BY <2>1, <3>1, LeadsProject
  <2>3. z \in SUBSET ImageIds
    BY <2>2 DEF PictureSteps
  <2>4. z = IF e.type = "ProductImageAdded" THEN z \cup {e.image_id}
            ELSE IF e.type = "ProductImageRemoved" THEN z \ {e.image_id} ELSE z
    BY <1>6
  <2>5. <<z, e, z>> \in PictureSteps
    BY <1>1, <2>3, <2>4 DEF PictureSteps
  <2> QED  BY <2>2, <2>5
<1> QED  BY <1>2, <1>3, <1>4, <1>5, <1>6

LEMMA CountsRead ==
  ASSUME NEW events \in Seq(ProductEvent), events # << >>, NEW e, e = Head(events), NEW x, NEW y
  PROVE  /\ Leads(AddedSteps, x, events, y) =>
              Leads(AddedSteps, IF e.type = "VariantAdded" THEN x + 1 ELSE x, Tail(events), y)
         /\ \A v : Leads(ItemSteps(v), x, events, y) =>
              Leads(ItemSteps(v), IF e.type = "VariantAdded" /\ e.variant_id = v THEN x + 1 ELSE x,
                    Tail(events), y)
<1>1. ASSUME Leads(AddedSteps, x, events, y),
             NEW z, z = IF e.type = "VariantAdded" THEN x + 1 ELSE x
      PROVE  Leads(AddedSteps, z, Tail(events), y)
  <2>1. PICK w : <<x, e, w>> \in AddedSteps /\ Leads(AddedSteps, w, Tail(events), y)
    BY <1>1, LeadsRead
  <2>2. w = z
    BY <1>1, <2>1 DEF AddedSteps
  <2> QED  BY <2>1, <2>2
<1>2. ASSUME NEW v, Leads(ItemSteps(v), x, events, y),
             NEW z, z = IF e.type = "VariantAdded" /\ e.variant_id = v THEN x + 1 ELSE x
      PROVE  Leads(ItemSteps(v), z, Tail(events), y)
  <2>1. PICK w : <<x, e, w>> \in ItemSteps(v) /\ Leads(ItemSteps(v), w, Tail(events), y)
    BY <1>2, LeadsRead
  <2>2. w = z
    BY <1>2, <2>1 DEF ItemSteps
  <2> QED  BY <2>1, <2>2
<1> QED  BY <1>1, <1>2

(* What an event makes of a row.                                           *)
StatusAfter(s, e) == IF e.type \in StatusChanges THEN StatusSet[e.type] ELSE s

TitleAfter(t, e) == IF e.type = "ProductDetailsUpdated" THEN e.title ELSE t

CountAfter(n, e) == IF e.type = "VariantAdded" THEN n + 1 ELSE n

LEMMA CardAfter ==
  ASSUME NEW r \in CardRow, NEW e \in ProductChange, NEW z, z = on_product_card(r, e)
  PROVE  /\ z \in CardRow
         /\ z.status = StatusAfter(r.status, e) /\ z.title = TitleAfter(r.title, e)
         /\ z.variant_count = CountAfter(r.variant_count, e)
         /\ z.image = IF e.type = "ProductImageAdded" /\ e.is_primary THEN e.image_id ELSE r.image
         /\ IF e.type = "VariantAdded"
            THEN z.min_price = Lower(r, e.price) /\ z.max_price = Upper(r, e.price)
            ELSE IF e.type = "VariantPriceChanged"
            THEN z.min_price = Lower(r, e.new_price) /\ z.max_price = Upper(r, e.new_price)
            ELSE z.min_price = r.min_price /\ z.max_price = r.max_price
<1>1. /\ DOMAIN StatusSet = StatusChanges
      /\ \A t \in StatusChanges : StatusSet[t] \in ProductStatuses
      /\ Prices \subseteq Nat
  BY VariantPrices DEF StatusSet, StatusChanges, ProductStatuses
<1>2. e \in ProductEvent /\ e.type # "ProductCreated"
  BY DEF ProductChange
<1>3. /\ e.type \in StatusChanges \cup
                        {"ProductDetailsUpdated", "VariantAdded", "TierPriceSet",
                         "VariantPriceChanged", "ProductImageAdded", "ProductImageRemoved"}
      /\ e.type = "ProductDetailsUpdated" => e.title \in Names
      /\ e.type = "VariantAdded" => e.price \in Nat
      /\ e.type = "VariantPriceChanged" => e.new_price \in Nat
      /\ e.type = "ProductImageAdded" => e.image_id \in ImageIds
  BY <1>1, <1>2, ProductEvents
<1>4. ASSUME NEW p \in Nat
      PROVE  /\ Widened(r, p) \in CardRow
             /\ Widened(r, p).min_price = Lower(r, p) /\ Widened(r, p).max_price = Upper(r, p)
             /\ Widened(r, p).status = r.status /\ Widened(r, p).title = r.title
             /\ Widened(r, p).variant_count = r.variant_count /\ Widened(r, p).image = r.image
  <2>1. Lower(r, p) \in Nat /\ Upper(r, p) \in Nat
    BY DEF Lower, Upper, CardRow
  <2>2. PICK a, b : a = Lower(r, p) /\ b = Upper(r, p)
    OBVIOUS
  <2>3. Widened(r, p) = [r EXCEPT !.min_price = a, !.max_price = b]
    BY <2>2 DEF Widened
  <2> QED  BY <2>1, <2>2, <2>3 DEF CardRow
<1>5. CASE e.type \in StatusChanges
  <2>1. z = [r EXCEPT !.status = StatusSet[e.type]]
    BY <1>1, <1>5 DEF on_product_card, StatusChanges
  <2> QED  BY <1>1, <1>5, <2>1 DEF CardRow, StatusAfter, TitleAfter, CountAfter, StatusChanges
<1>6. CASE e.type = "ProductDetailsUpdated"
  <2>1. z = [r EXCEPT !.title = e.title]
    BY <1>1, <1>6 DEF on_product_card, StatusChanges
  <2> QED  BY <1>3, <1>6, <2>1 DEF CardRow, StatusAfter, TitleAfter, CountAfter, StatusChanges
<1>7. CASE e.type = "VariantAdded"
  <2>1. PICK w : w = Widened(r, e.price)
    OBVIOUS
  <2>2. z = [w EXCEPT !.variant_count = @ + 1]
    BY <1>1, <1>7, <2>1 DEF on_product_card, StatusChanges
  <2>3. /\ w \in CardRow /\ w.min_price = Lower(r, e.price) /\ w.max_price = Upper(r, e.price)
        /\ w.status = r.status /\ w.title = r.title
        /\ w.variant_count = r.variant_count /\ w.image = r.image
    BY <1>3, <1>4, <1>7, <2>1
  <2> QED  BY <1>7, <2>2, <2>3 DEF CardRow, StatusAfter, TitleAfter, CountAfter, StatusChanges
<1>8. CASE e.type = "VariantPriceChanged"
  <2>1. z = Widened(r, e.new_price)
    BY <1>1, <1>8 DEF on_product_card, StatusChanges
  <2> QED  BY <1>3, <1>4, <1>8, <2>1 DEF StatusAfter, TitleAfter, CountAfter, StatusChanges
<1>9. CASE e.type = "ProductImageAdded" /\ e.is_primary
  <2>1. z = [r EXCEPT !.image = e.image_id]
    BY <1>1, <1>9 DEF on_product_card, StatusChanges
  <2> QED  BY <1>3, <1>9, <2>1 DEF CardRow, StatusAfter, TitleAfter, CountAfter, StatusChanges
<1>10. CASE e.type \in {"TierPriceSet", "ProductImageAdded", "ProductImageRemoved"}
            /\ ~(e.type = "ProductImageAdded" /\ e.is_primary)
  <2>1. z = r
    BY <1>1, <1>10 DEF on_product_card, StatusChanges
  <2> QED  BY <1>10, <2>1 DEF StatusAfter, TitleAfter, CountAfter, StatusChanges
<1> QED  BY <1>3, <1>5, <1>6, <1>7, <1>8, <1>9, <1>10

LEMMA SellerAfter ==
  ASSUME NEW r \in SellerRow, NEW e \in ProductChange, NEW z, z = on_seller_catalogue(r, e)
  PROVE  /\ z \in SellerRow
         /\ z.status = StatusAfter(r.status, e) /\ z.title = TitleAfter(r.title, e)
         /\ z.variant_count = CountAfter(r.variant_count, e)
<1>1. /\ DOMAIN StatusSet = StatusChanges
      /\ \A t \in StatusChanges : StatusSet[t] \in ProductStatuses
  BY DEF StatusSet, StatusChanges, ProductStatuses
<1>2. e.type = "ProductDetailsUpdated" => e.title \in Names
  BY ProductEvents DEF ProductChange
<1>3. CASE e.type \in StatusChanges
  <2>1. z = [r EXCEPT !.status = StatusSet[e.type]]
    BY <1>1, <1>3 DEF on_seller_catalogue, StatusChanges
  <2> QED  BY <1>1, <1>3, <2>1 DEF SellerRow, StatusAfter, TitleAfter, CountAfter, StatusChanges
<1>4. CASE e.type = "ProductDetailsUpdated"
  <2>1. z = [r EXCEPT !.title = e.title]
    BY <1>1, <1>4 DEF on_seller_catalogue, StatusChanges
  <2> QED  BY <1>2, <1>4, <2>1 DEF SellerRow, StatusAfter, TitleAfter, CountAfter, StatusChanges
<1>5. CASE e.type = "VariantAdded"
  <2>1. z = [r EXCEPT !.variant_count = @ + 1]
    BY <1>1, <1>5 DEF on_seller_catalogue, StatusChanges
  <2> QED  BY <1>5, <2>1 DEF SellerRow, StatusAfter, TitleAfter, CountAfter, StatusChanges
<1>6. CASE e.type \notin StatusChanges \cup {"ProductDetailsUpdated", "VariantAdded"}
  <2>1. z = r
    BY <1>1, <1>6 DEF on_seller_catalogue
  <2> QED  BY <1>6, <2>1 DEF StatusAfter, TitleAfter, CountAfter
<1> QED  BY <1>3, <1>4, <1>5, <1>6

Repriced(r, v, price, tiered) ==
  [k \in DOMAIN r.variants |->
     IF k \in FirstOfVariant(r, v)
     THEN [variant_id |-> r.variants[k].variant_id,
           price |-> IF price = 0 THEN r.variants[k].price ELSE price,
           tier_price |-> IF tiered = 0 THEN r.variants[k].tier_price ELSE tiered]
     ELSE r.variants[k]]

LEMMA OfVariantRewrites ==
  ASSUME NEW r \in DetailRow, NEW v \in VariantIds, NEW p \in Prices
  PROVE  /\ OfVariant(r, v, "price", p) = [r EXCEPT !.variants = Repriced(r, v, p, 0)]
         /\ OfVariant(r, v, "tier_price", p) = [r EXCEPT !.variants = Repriced(r, v, 0, p)]
<1>1. r.variants \in Seq(DetailEntry) /\ p # 0
  BY VariantPrices DEF DetailRow
<1>2. ASSUME NEW k \in DOMAIN r.variants
      PROVE  /\ [r.variants[k] EXCEPT !["price"] = p] =
                  [variant_id |-> r.variants[k].variant_id, price |-> p,
                   tier_price |-> r.variants[k].tier_price]
             /\ [r.variants[k] EXCEPT !["tier_price"] = p] =
                  [variant_id |-> r.variants[k].variant_id, price |-> r.variants[k].price,
                   tier_price |-> p]
  <2>1. PICK x \in DetailEntry : x = r.variants[k]
    BY <1>1
  <2> QED  BY <2>1 DEF DetailEntry
<1>3. /\ [k \in DOMAIN r.variants |-> IF k \in FirstOfVariant(r, v)
                                      THEN [r.variants[k] EXCEPT !["price"] = p]
                                      ELSE r.variants[k]] = Repriced(r, v, p, 0)
      /\ [k \in DOMAIN r.variants |-> IF k \in FirstOfVariant(r, v)
                                      THEN [r.variants[k] EXCEPT !["tier_price"] = p]
                                      ELSE r.variants[k]] = Repriced(r, v, 0, p)
  BY <1>1, <1>2 DEF Repriced
<1> QED  BY <1>3, Zenon DEF OfVariant
RewrittenAs(r, v, p, q, w) ==
  /\ w \in Seq(DetailEntry) /\ DOMAIN w = DOMAIN r.variants
  /\ \A k \in DOMAIN w : w[k].variant_id = r.variants[k].variant_id
  /\ EntriesApart(r) =>
       \A k \in DOMAIN w :
         IF r.variants[k].variant_id = v
         THEN /\ w[k].price = IF p = 0 THEN r.variants[k].price ELSE p
              /\ w[k].tier_price = IF q = 0 THEN r.variants[k].tier_price ELSE q
         ELSE w[k] = r.variants[k]

LEMMA RepricedKeeps ==
  ASSUME NEW r \in DetailRow, NEW v \in VariantIds, NEW p \in Prices \cup {0},
         NEW q \in Prices \cup {0}, NEW w, w = Repriced(r, v, p, q)
  PROVE  RewrittenAs(r, v, p, q, w)
<1>1. PICK list \in Seq(DetailEntry) : list = r.variants
  BY DEF DetailRow
<1>2. w = [k \in DOMAIN list |->
             IF k \in FirstOfVariant(r, v)
             THEN [variant_id |-> list[k].variant_id,
                   price |-> IF p = 0 THEN list[k].price ELSE p,
                   tier_price |-> IF q = 0 THEN list[k].tier_price ELSE q]
             ELSE list[k]]
  BY <1>1 DEF Repriced
<1>3. DOMAIN list = 1..Len(list) /\ Len(list) \in Nat
  BY <1>1
<1>4. ASSUME NEW k \in DOMAIN list
      PROVE  w[k] \in DetailEntry /\ w[k].variant_id = list[k].variant_id
  <2>1. PICK x \in DetailEntry : x = list[k]
    BY <1>1
  <2>2. PICK a, b : /\ a = (IF p = 0 THEN x.price ELSE p)
                    /\ b = (IF q = 0 THEN x.tier_price ELSE q)
    OBVIOUS
  <2>3. a \in Prices \cup {0} /\ b \in Prices \cup {0} /\ x.variant_id \in VariantIds
    BY <2>2 DEF DetailEntry
  <2>4. w[k] = x \/ w[k] = [variant_id |-> x.variant_id, price |-> a, tier_price |-> b]
    BY <1>2, <2>1, <2>2
  <2>5. [variant_id |-> x.variant_id, price |-> a, tier_price |-> b] \in DetailEntry
    BY <2>3 DEF DetailEntry
  <2> QED  BY <2>1, <2>4, <2>5
<1>5. w \in Seq(DetailEntry) /\ DOMAIN w = DOMAIN list
  <2>1. w \in [1..Len(list) -> DetailEntry]
    BY <1>2, <1>3, <1>4
  <2> QED  BY <1>2, <1>3, <2>1
<1>6. ASSUME EntriesApart(r), NEW k \in DOMAIN list
      PROVE  IF list[k].variant_id = v
             THEN /\ w[k].price = IF p = 0 THEN list[k].price ELSE p
                  /\ w[k].tier_price = IF q = 0 THEN list[k].tier_price ELSE q
             ELSE w[k] = list[k]
  <2>1. k \in FirstOfVariant(r, v) <=> list[k].variant_id = v
    <3>1. \A j \in 1..(k - 1) : j \in DOMAIN list /\ j # k
      BY <1>3
    <3> QED  BY <1>1, <1>6, <3>1 DEF FirstOfVariant, EntriesApart
  <2> QED  BY <1>2, <2>1
<1> QED  BY <1>1, <1>4, <1>5, <1>6 DEF RewrittenAs

VariantsAfter(list, e, after) ==
  /\ after \in Seq(DetailEntry)
  /\ IF e.type = "VariantAdded"
     THEN after = Append(list, [variant_id |-> e.variant_id, price |-> e.price, tier_price |-> 0])
     ELSE /\ DOMAIN after = DOMAIN list
          /\ \A k \in DOMAIN after : after[k].variant_id = list[k].variant_id

EntriesAfter(list, e, after) ==
  e.type # "VariantAdded" =>
    \A k \in DOMAIN after :
      IF e.type \in {"VariantPriceChanged", "TierPriceSet"} /\ list[k].variant_id = e.variant_id
      THEN /\ after[k].price = IF e.type = "TierPriceSet" THEN list[k].price ELSE e.new_price
           /\ after[k].tier_price = IF e.type = "TierPriceSet" THEN e.price
                                    ELSE list[k].tier_price
      ELSE after[k] = list[k]

LEMMA DetailAfter ==
  ASSUME NEW r \in DetailRow, NEW e \in ProductChange, NEW z, z = on_product_detail(r, e)
  PROVE  /\ z \in DetailRow
         /\ z.status = StatusAfter(r.status, e) /\ z.title = TitleAfter(r.title, e)
         /\ VariantsAfter(r.variants, e, z.variants)
         /\ EntriesApart(r) => EntriesAfter(r.variants, e, z.variants)
         /\ PicturesIn(z) = IF e.type = "ProductImageAdded" THEN PicturesIn(r) \cup {e.image_id}
                            ELSE IF e.type = "ProductImageRemoved"
                            THEN PicturesIn(r) \ {e.image_id}
                            ELSE PicturesIn(r)
<1>1. /\ DOMAIN StatusSet = StatusChanges
      /\ \A t \in StatusChanges : StatusSet[t] \in ProductStatuses
  BY DEF StatusSet, StatusChanges, ProductStatuses
<1>2. e \in ProductEvent /\ e.type # "ProductCreated"
  BY DEF ProductChange
<1>3. /\ e.type \in StatusChanges \cup
                        {"ProductDetailsUpdated", "VariantAdded", "TierPriceSet",
                         "VariantPriceChanged", "ProductImageAdded", "ProductImageRemoved"}
      /\ e.type = "ProductDetailsUpdated" => e.title \in Names
      /\ e.type \in {"VariantAdded", "TierPriceSet"} => e.variant_id \in VariantIds /\ e.price \in Prices
      /\ e.type = "VariantPriceChanged" => e.variant_id \in VariantIds /\ e.new_price \in Prices
      /\ e.type = "ProductImageAdded" => e.image_id \in ImageIds /\ e.is_primary \in BOOLEAN
      /\ e.type = "ProductImageRemoved" => e.image_id \in ImageIds
  BY <1>2, ProductEvents
<1>4. PICK list \in Seq(DetailEntry), pictures \in SUBSET [image_id : ImageIds, is_primary : BOOLEAN] :
        list = r.variants /\ pictures = r.images
  BY DEF DetailRow
<1>5. \A x : x.type \notin {"VariantAdded", "VariantPriceChanged", "TierPriceSet"} =>
        VariantsAfter(list, x, list) /\ EntriesAfter(list, x, list)
  BY <1>4 DEF VariantsAfter, EntriesAfter
<1>6. CASE e.type \in StatusChanges
  <2>1. z = [r EXCEPT !.status = StatusSet[e.type]]
    BY <1>1, <1>6 DEF on_product_detail, StatusChanges
  <2>2. z \in DetailRow /\ z.status = StatusSet[e.type] /\ z.title = r.title /\ z.variants = r.variants
        /\ z.images = r.images
    BY <1>1, <1>6, <2>1 DEF DetailRow
  <2> QED  BY <1>4, <1>5, <1>6, <2>2 DEF StatusAfter, TitleAfter, PicturesIn, StatusChanges
<1>7. CASE e.type = "ProductDetailsUpdated"
  <2>1. z = [r EXCEPT !.title = e.title]
    BY <1>1, <1>7 DEF on_product_detail, StatusChanges
  <2>2. z \in DetailRow /\ z.status = r.status /\ z.title = e.title /\ z.variants = r.variants
        /\ z.images = r.images
    BY <1>3, <1>7, <2>1 DEF DetailRow
  <2> QED  BY <1>4, <1>5, <1>7, <2>2 DEF StatusAfter, TitleAfter, PicturesIn, StatusChanges
<1>8. CASE e.type = "VariantAdded"
  <2>1. PICK new : new = [variant_id |-> e.variant_id, price |-> e.price, tier_price |-> 0]
    OBVIOUS
  <2>2. new \in DetailEntry
    BY <1>3, <1>8, <2>1 DEF DetailEntry
  <2>3. z = [r EXCEPT !.variants = Append(@, new)]
    BY <1>1, <1>8, <2>1 DEF on_product_detail, StatusChanges
  <2>4. Append(list, new) \in Seq(DetailEntry)
    BY <1>4, <2>2
  <2>5. PICK longer \in Seq(DetailEntry) : longer = Append(list, new)
    BY <2>4
  <2>6. z = [r EXCEPT !.variants = longer]
    BY <1>4, <2>3, <2>5
  <2>7. z \in DetailRow /\ z.status = r.status /\ z.title = r.title /\ z.variants = longer
        /\ z.images = r.images
    BY <2>6 DEF DetailRow
  <2>8. VariantsAfter(list, e, longer) /\ EntriesAfter(list, e, longer)
    BY <1>8, <2>1, <2>5 DEF VariantsAfter, EntriesAfter
  <2> QED  BY <1>4, <1>8, <2>7, <2>8 DEF StatusAfter, TitleAfter, PicturesIn, StatusChanges
<1>9. ASSUME NEW v \in VariantIds, NEW p \in Prices \cup {0}, NEW q \in Prices \cup {0},
             e.variant_id = v, z = [r EXCEPT !.variants = Repriced(r, v, p, q)],
             \/ e.type = "VariantPriceChanged" /\ p = e.new_price /\ q = 0 /\ p # 0
             \/ e.type = "TierPriceSet" /\ p = 0 /\ q = e.price /\ q # 0
      PROVE  /\ z \in DetailRow
             /\ z.status = StatusAfter(r.status, e) /\ z.title = TitleAfter(r.title, e)
             /\ VariantsAfter(r.variants, e, z.variants)
             /\ EntriesApart(r) => EntriesAfter(r.variants, e, z.variants)
             /\ PicturesIn(z) = PicturesIn(r)
  <2>1. PICK w : w = Repriced(r, v, p, q)
    OBVIOUS
  <2>2. RewrittenAs(r, v, p, q, w)
    BY <2>1, RepricedKeeps
  <2>3. z = [r EXCEPT !.variants = w]
    BY <1>9, <2>1
  <2>4. z \in DetailRow /\ z.status = r.status /\ z.title = r.title /\ z.variants = w
        /\ z.images = r.images
    BY <2>2, <2>3 DEF DetailRow, RewrittenAs
  <2>5. VariantsAfter(list, e, w)
    <3>1. e.type # "VariantAdded"
      BY <1>9
    <3> QED  BY <1>4, <2>2, <3>1 DEF VariantsAfter, RewrittenAs
  <2>6. ASSUME EntriesApart(r) PROVE EntriesAfter(list, e, w)
    <3>1. CASE e.type = "VariantPriceChanged" /\ p = e.new_price /\ q = 0 /\ p # 0
      BY <1>4, <1>9, <2>2, <2>6, <3>1 DEF EntriesAfter, RewrittenAs
    <3>2. CASE e.type = "TierPriceSet" /\ p = 0 /\ q = e.price /\ q # 0
      BY <1>4, <1>9, <2>2, <2>6, <3>2 DEF EntriesAfter, RewrittenAs
    <3> QED  BY <1>9, <3>1, <3>2
  <2>7. e.type \notin StatusChanges /\ e.type # "ProductDetailsUpdated"
    BY <1>9 DEF StatusChanges
  <2> QED  BY <1>4, <2>4, <2>5, <2>6, <2>7 DEF StatusAfter, TitleAfter, PicturesIn
<1>10. CASE e.type = "VariantPriceChanged"
  <2>1. z = OfVariant(r, e.variant_id, "price", e.new_price)
    BY <1>1, <1>10 DEF on_product_detail, StatusChanges
  <2>2. z = [r EXCEPT !.variants = Repriced(r, e.variant_id, e.new_price, 0)]
    BY <1>3, <1>10, <2>1, OfVariantRewrites
  <2>3. e.new_price # 0 /\ e.new_price \in Prices \cup {0} /\ 0 \in Prices \cup {0} /\ e.variant_id \in VariantIds
    BY <1>3, <1>10, VariantPrices
  <2> QED  BY <1>9, <1>10, <2>2, <2>3
<1>11. CASE e.type = "TierPriceSet"
  <2>1. z = OfVariant(r, e.variant_id, "tier_price", e.price)
    BY <1>1, <1>11 DEF on_product_detail, StatusChanges
  <2>2. z = [r EXCEPT !.variants = Repriced(r, e.variant_id, 0, e.price)]
    BY <1>3, <1>11, <2>1, OfVariantRewrites
  <2>3. e.price # 0 /\ e.price \in Prices \cup {0} /\ 0 \in Prices \cup {0} /\ e.variant_id \in VariantIds
    BY <1>3, <1>11, VariantPrices
  <2> QED  BY <1>9, <1>11, <2>2, <2>3
<1>12. CASE e.type = "ProductImageAdded"
  <2>1. PICK new : new = [image_id |-> e.image_id, is_primary |-> e.is_primary]
    OBVIOUS
  <2>2. PICK more : more = pictures \cup {new}
    OBVIOUS
  <2>3. z = [r EXCEPT !.images = more]
    BY <1>1, <1>4, <1>12, <2>1, <2>2 DEF on_product_detail, StatusChanges
  <2>4. more \in SUBSET [image_id : ImageIds, is_primary : BOOLEAN]
    BY <1>3, <1>4, <1>12, <2>1, <2>2
  <2>5. z \in DetailRow /\ z.status = r.status /\ z.title = r.title /\ z.variants = r.variants
        /\ z.images = more
    BY <2>3, <2>4 DEF DetailRow
  <2>6. PicturesIn(z) = PicturesIn(r) \cup {e.image_id}
    BY <1>4, <2>1, <2>2, <2>5 DEF PicturesIn
  <2> QED  BY <1>4, <1>5, <1>12, <2>5, <2>6 DEF StatusAfter, TitleAfter, StatusChanges
<1>13. CASE e.type = "ProductImageRemoved"
  <2>1. PICK less : less = {i \in pictures : i.image_id # e.image_id}
    OBVIOUS
  <2>2. z = [r EXCEPT !.images = less]
    BY <1>1, <1>4, <1>13, <2>1 DEF on_product_detail, StatusChanges
  <2>3. z \in DetailRow /\ z.status = r.status /\ z.title = r.title /\ z.variants = r.variants
        /\ z.images = less
    BY <1>4, <2>1, <2>2 DEF DetailRow
  <2>4. PicturesIn(z) = PicturesIn(r) \ {e.image_id}
    BY <1>4, <2>1, <2>3 DEF PicturesIn
  <2> QED  BY <1>4, <1>5, <1>13, <2>3, <2>4 DEF StatusAfter, TitleAfter, StatusChanges
<1> QED
  <2>1. \/ e.type \in StatusChanges
        \/ e.type \in {"ProductDetailsUpdated", "VariantAdded", "TierPriceSet",
                       "VariantPriceChanged", "ProductImageAdded", "ProductImageRemoved"}
    BY <1>3
  <2> QED  BY <1>6, <1>7, <1>8, <1>10, <1>11, <1>12, <1>13, <2>1

LEMMA WidenedCovers ==
  ASSUME NEW r \in CardRow, r.min_price = 0 => r.max_price = 0, NEW p \in Nat, p # 0
  PROVE  /\ Lower(r, p) # 0
         /\ p \in Lower(r, p)..Upper(r, p)
         /\ \A q \in Nat \ {0} :
              q \in r.min_price..r.max_price => q \in Lower(r, p)..Upper(r, p)
<1>1. r.min_price \in Nat /\ r.max_price \in Nat
  BY DEF CardRow
<1>2. PICK lo, hi : lo = Lower(r, p) /\ hi = Upper(r, p)
  OBVIOUS
<1>3. /\ lo = (IF r.min_price = 0 \/ p < r.min_price THEN p ELSE r.min_price)
      /\ hi = (IF p > r.max_price THEN p ELSE r.max_price)
  BY <1>2 DEF Lower, Upper
<1>4. lo \in Nat /\ hi \in Nat /\ lo # 0 /\ lo <= p /\ p <= hi /\ r.max_price <= hi
      /\ (r.min_price # 0 => lo <= r.min_price)
  BY <1>1, <1>3
<1>5. ASSUME NEW q \in Nat \ {0}, q \in r.min_price..r.max_price PROVE q \in lo..hi
  <2>1. q >= r.min_price /\ q <= r.max_price /\ r.max_price # 0
    BY <1>1, <1>5
  <2>2. lo <= q
    BY <1>1, <1>4, <1>5, <2>1
  <2>3. q <= hi
    BY <1>1, <1>4, <1>5, <2>1
  <2> QED  BY <1>4, <1>5, <2>2, <2>3
<1> QED  BY <1>2, <1>4, <1>5

(* An event is acknowledged, or not and then it is the one handled twice.  *)
ReadOne(e) ==
  /\ unread # << >> /\ unread \in Seq(ProductEvent) /\ unread \in Seq(ProductChange)
  /\ e = Head(unread) /\ e \in ProductChange /\ e \in ProductEvent
  /\ \/ unread' = Tail(unread) /\ redelivered' = redelivered
     \/ unread' = unread /\ redelivered'
  /\ product' = product /\ title' = title /\ variants' = variants /\ images' = images
  /\ Offered' = Offered /\ Shown' = Shown /\ Primary' = Primary

LEMMA ReadsOne ==
  ASSUME ProductViewInv, ProductProjection
  PROVE  /\ ReadOne(Head(unread)) /\ view' = view
         /\ row' = ProductProjected(row, Head(unread))
         /\ ProductInv' /\ unread' \in Seq(ProductChange)
<1>1. /\ unread # << >> /\ view' = view /\ row' = ProductProjected(row, Head(unread))
      /\ \/ unread' = Tail(unread) /\ redelivered' = redelivered
         \/ unread' = unread /\ redelivered'
      /\ product' = product /\ title' = title /\ variants' = variants /\ images' = images
  BY DEF ProductProjection, Project, product_vars
<1>2. unread \in Seq(ProductChange) /\ ProductChange \subseteq ProductEvent
  BY DEF ProductViewInv, ProductChange
<1>3. unread \in Seq(ProductEvent)
  BY <1>2
<1>4. Head(unread) \in ProductChange /\ Tail(unread) \in Seq(ProductChange)
  BY <1>1, <1>2
<1>5. Offered' = Offered /\ Shown' = Shown /\ Primary' = Primary
  BY <1>1 DEF Offered, Shown, Primary
<1>6. ProductInv'
  BY <1>1, <1>5 DEF ProductViewInv, ProductInv
<1> QED  BY <1>1, <1>2, <1>3, <1>4, <1>5, <1>6 DEF ReadOne

LEMMA TermsRead ==
  ASSUME NEW e, ReadOne(e), NEW s, NEW t, NEW a, NEW b,
         Leads(StatusSteps, s, unread, product), Leads(TitleSteps, t, unread, title),
         a = StatusAfter(s, e), b = TitleAfter(t, e)
  PROVE  Leads(StatusSteps, a, unread', product') /\ Leads(TitleSteps, b, unread', title')
<1>1. unread # << >> /\ unread \in Seq(ProductEvent) /\ e = Head(unread)
      /\ product' = product /\ title' = title /\ (unread' = Tail(unread) \/ unread' = unread)
  BY DEF ReadOne
<1>2. Leads(StatusSteps, a, Tail(unread), product) /\ Leads(StatusSteps, a, unread, product)
  BY <1>1, PartsRead DEF StatusAfter
<1>3. Leads(TitleSteps, b, Tail(unread), title) /\ Leads(TitleSteps, b, unread, title)
  BY <1>1, PartsRead DEF TitleAfter
<1> QED  BY <1>1, <1>2, <1>3

LEMMA CountRead ==
  ASSUME NEW e, ReadOne(e), NEW n, NEW m, ~redelivered',
         ~redelivered => Leads(AddedSteps, n, unread, Cardinality(Offered)), m = CountAfter(n, e)
  PROVE  Leads(AddedSteps, m, unread', Cardinality(Offered'))
<1>1. unread # << >> /\ unread \in Seq(ProductEvent) /\ e = Head(unread)
      /\ Offered' = Offered /\ unread' = Tail(unread) /\ ~redelivered
  BY DEF ReadOne
<1> QED  BY <1>1, CountsRead DEF CountAfter

LEMMA CardReads ==
  ASSUME ProductInv, CardLeads, NEW e, ReadOne(e), row' = on_product_card(row, e)
  PROVE  CardLeads'
<1>1. PICK z : z = row'
  OBVIOUS
<1>2. row \in CardRow /\ e \in ProductChange /\ (row.min_price = 0 => row.max_price = 0)
  BY DEF CardLeads, ReadOne
<1>3. /\ z \in CardRow
      /\ z.status = StatusAfter(row.status, e) /\ z.title = TitleAfter(row.title, e)
      /\ z.variant_count = CountAfter(row.variant_count, e)
      /\ z.image = IF e.type = "ProductImageAdded" /\ e.is_primary THEN e.image_id ELSE row.image
      /\ IF e.type = "VariantAdded"
         THEN z.min_price = Lower(row, e.price) /\ z.max_price = Upper(row, e.price)
         ELSE IF e.type = "VariantPriceChanged"
         THEN z.min_price = Lower(row, e.new_price) /\ z.max_price = Upper(row, e.new_price)
         ELSE z.min_price = row.min_price /\ z.max_price = row.max_price
  BY <1>1, <1>2, CardAfter
<1>4. TermsLead(row)'
  <2>1. Leads(StatusSteps, row.status, unread, product) /\ Leads(TitleSteps, row.title, unread, title)
    BY DEF CardLeads, TermsLead
  <2>2. Leads(StatusSteps, z.status, unread', product') /\ Leads(TitleSteps, z.title, unread', title')
    BY <1>3, <2>1, TermsRead
  <2> QED  BY <1>1, <2>2 DEF TermsLead
<1>5. CountLeads(row)'
  <2>1. ~redelivered' => Leads(AddedSteps, z.variant_count, unread', Cardinality(Offered'))
    BY <1>3, CountRead DEF CardLeads, CountLeads
  <2> QED  BY <1>1, <2>1 DEF CountLeads
<1>6. /\ e.type = "VariantAdded" => e.price \in Nat /\ e.price # 0
      /\ e.type = "VariantPriceChanged" => e.new_price \in Nat /\ e.new_price # 0
  <2>1. e \in ProductEvent
    BY DEF ReadOne
  <2> QED  BY <2>1, ProductEvents, VariantPrices
<1>7. /\ z.min_price = 0 => z.max_price = 0
      /\ \A q \in Nat \ {0} : q \in row.min_price..row.max_price => q \in z.min_price..z.max_price
      /\ \A q \in Nat \ {0} : SetsPrice(e, q) => q \in z.min_price..z.max_price
  <2>1. CASE e.type = "VariantAdded"
    <3>1. /\ Lower(row, e.price) # 0 /\ e.price \in Lower(row, e.price)..Upper(row, e.price)
          /\ \A q \in Nat \ {0} : q \in row.min_price..row.max_price =>
                                    q \in Lower(row, e.price)..Upper(row, e.price)
      BY <1>2, <1>6, <2>1, WidenedCovers
    <3> QED  BY <1>3, <2>1, <3>1 DEF SetsPrice
  <2>2. CASE e.type = "VariantPriceChanged"
    <3>1. /\ Lower(row, e.new_price) # 0
          /\ e.new_price \in Lower(row, e.new_price)..Upper(row, e.new_price)
          /\ \A q \in Nat \ {0} : q \in row.min_price..row.max_price =>
                                    q \in Lower(row, e.new_price)..Upper(row, e.new_price)
      BY <1>2, <1>6, <2>2, WidenedCovers
    <3> QED  BY <1>3, <2>2, <3>1 DEF SetsPrice
  <2>3. CASE e.type \notin {"VariantAdded", "VariantPriceChanged"}
    BY <1>2, <1>3, <2>3 DEF SetsPrice
  <2> QED  BY <2>1, <2>2, <2>3
<1>8. ASSUME NEW v \in Offered' PROVE PriceCovered(row, variants[v].price)'
  <2>1. /\ v \in Offered /\ variants'[v] = variants[v]
        /\ unread # << >> /\ unread \in Seq(ProductEvent) /\ e = Head(unread)
        /\ unread' = Tail(unread) \/ unread' = unread
    BY DEF ReadOne
  <2>2. PICK q \in Nat \ {0} : q = variants[v].price
    BY <2>1, VariantFacts
  <2>3. PriceCovered(row, q)
    BY <2>1, <2>2 DEF CardLeads
  <2>4. CASE q \in z.min_price..z.max_price
    BY <1>1, <2>1, <2>2, <2>4 DEF PriceCovered
  <2>5. CASE q \notin z.min_price..z.max_price
    <3>1. PICK k \in 1..Len(unread) : SetsPrice(unread[k], q)
      BY <1>7, <2>3, <2>5 DEF PriceCovered
    <3>2. ~SetsPrice(e, q)
      BY <1>7, <2>5
    <3>3. /\ Len(unread) \in Nat /\ e = unread[1] /\ Len(Tail(unread)) = Len(unread) - 1
          /\ \A j \in 1..(Len(unread) - 1) : Tail(unread)[j] = unread[j + 1]
      BY <2>1
    <3>4. k # 1
      BY <3>1, <3>2, <3>3
    <3>5. k - 1 \in 1..(Len(unread) - 1) /\ (k - 1) + 1 = k
      BY <3>1, <3>3, <3>4
    <3>6. Tail(unread)[k - 1] = unread[k]
      BY <3>3, <3>5
    <3>7. \E j \in 1..Len(unread') : SetsPrice(unread'[j], q)
      BY <2>1, <3>1, <3>3, <3>5, <3>6
    <3>8. variants'[v].price = q
      BY <2>1, <2>2
    <3> QED  BY <3>7, <3>8 DEF PriceCovered
  <2> QED  BY <2>4, <2>5
<1>9. \E y \in ImageIds \cup {"none"} : Leads(CoverSteps, z.image, unread', y) /\ CoverTold(y)'
  <2>1. PICK y \in ImageIds \cup {"none"} : Leads(CoverSteps, row.image, unread, y) /\ CoverTold(y)
    BY DEF CardLeads
  <2>2. /\ unread # << >> /\ unread \in Seq(ProductEvent) /\ e = Head(unread)
        /\ unread' = Tail(unread) \/ unread' = unread
        /\ Shown' = Shown /\ Primary' = Primary /\ images' = images
    BY DEF ReadOne
  <2>3. Leads(CoverSteps, z.image, Tail(unread), y) /\ Leads(CoverSteps, z.image, unread, y)
    BY <1>3, <2>1, <2>2, PartsRead
  <2>4. CoverTold(y)'
    BY <2>1, <2>2 DEF CoverTold
  <2> QED  BY <2>2, <2>3, <2>4
<1> QED  BY <1>1, <1>3, <1>4, <1>5, <1>7, <1>8, <1>9 DEF CardLeads

LEMMA SellerReads ==
  ASSUME SellerLeads, NEW e, ReadOne(e), row' = on_seller_catalogue(row, e)
  PROVE  SellerLeads'
<1>1. PICK z : z = row'
  OBVIOUS
<1>2. row \in SellerRow /\ e \in ProductChange
  BY DEF SellerLeads, ReadOne
<1>3. /\ z \in SellerRow
      /\ z.status = StatusAfter(row.status, e) /\ z.title = TitleAfter(row.title, e)
      /\ z.variant_count = CountAfter(row.variant_count, e)
  BY <1>1, <1>2, SellerAfter
<1>4. TermsLead(row)'
  <2>1. Leads(StatusSteps, row.status, unread, product) /\ Leads(TitleSteps, row.title, unread, title)
    BY DEF SellerLeads, TermsLead
  <2>2. Leads(StatusSteps, z.status, unread', product') /\ Leads(TitleSteps, z.title, unread', title')
    BY <1>3, <2>1, TermsRead
  <2> QED  BY <1>1, <2>2 DEF TermsLead
<1>5. CountLeads(row)'
  <2>1. ~redelivered' => Leads(AddedSteps, z.variant_count, unread', Cardinality(Offered'))
    BY <1>3, CountRead DEF SellerLeads, CountLeads
  <2> QED  BY <1>1, <2>1 DEF CountLeads
<1> QED  BY <1>1, <1>3, <1>4, <1>5 DEF SellerLeads

LEMMA ListsRead ==
  ASSUME NEW events \in Seq(ProductEvent), events # << >>, NEW e, e = Head(events), NEW x, NEW y,
         NEW z
  PROVE  /\ Leads(OfferSteps, x, events, y)
               /\ z = (IF e.type = "VariantAdded" THEN x \cup {e.variant_id} ELSE x) =>
                 Leads(OfferSteps, z, Tail(events), y) /\ Leads(OfferSteps, z, events, y)
         /\ Leads(PictureSteps, x, events, y)
               /\ z = (IF e.type = "ProductImageAdded" THEN x \cup {e.image_id}
                       ELSE IF e.type = "ProductImageRemoved" THEN x \ {e.image_id} ELSE x) =>
                 Leads(PictureSteps, z, Tail(events), y) /\ Leads(PictureSteps, z, events, y)
<1>1. Leads(OfferSteps, x, events, y) =>
              LET w == IF e.type = "VariantAdded" THEN x \cup {e.variant_id} ELSE x IN
              Leads(OfferSteps, w, Tail(events), y) /\ Leads(OfferSteps, w, events, y)
  BY PartsRead
<1>2. Leads(PictureSteps, x, events, y) =>
              LET w == IF e.type = "ProductImageAdded" THEN x \cup {e.image_id}
                       ELSE IF e.type = "ProductImageRemoved" THEN x \ {e.image_id} ELSE x IN
              Leads(PictureSteps, w, Tail(events), y) /\ Leads(PictureSteps, w, events, y)
  BY PartsRead
<1> QED  BY <1>1, <1>2, Zenon

LEMMA VariantsListedAfter ==
  ASSUME NEW r \in DetailRow, NEW z \in DetailRow, NEW e, VariantsAfter(r.variants, e, z.variants)
  PROVE  VariantsListed(z) = IF e.type = "VariantAdded" THEN VariantsListed(r) \cup {e.variant_id}
                       ELSE VariantsListed(r)
<1>1. PICK list \in Seq(DetailEntry), after \in Seq(DetailEntry) :
        list = r.variants /\ after = z.variants
  BY DEF DetailRow
<1>2. /\ Len(list) \in Nat /\ DOMAIN list = 1..Len(list)
      /\ VariantsListed(r) = {list[k].variant_id : k \in DOMAIN list}
      /\ VariantsListed(z) = {after[k].variant_id : k \in DOMAIN after}
  BY <1>1 DEF VariantsListed
<1>3. CASE e.type = "VariantAdded"
  <2>1. PICK x : x = [variant_id |-> e.variant_id, price |-> e.price, tier_price |-> 0]
    OBVIOUS
  <2>2. after = Append(list, x) /\ x.variant_id = e.variant_id
    BY <1>1, <1>3, <2>1 DEF VariantsAfter
  <2>3. /\ DOMAIN after = 1..(Len(list) + 1) /\ after[Len(list) + 1] = x
        /\ \A k \in DOMAIN list : after[k] = list[k] /\ k \in DOMAIN after
        /\ \A k \in DOMAIN after : k \in DOMAIN list \/ k = Len(list) + 1
        /\ Len(list) + 1 \in DOMAIN after
    BY <1>2, <2>2
  <2> QED  BY <1>2, <1>3, <2>2, <2>3
<1>4. CASE e.type # "VariantAdded"
  <2>1. DOMAIN after = DOMAIN list /\ \A k \in DOMAIN after : after[k].variant_id = list[k].variant_id
    BY <1>1, <1>4 DEF VariantsAfter
  <2> QED  BY <1>2, <1>4, <2>1
<1> QED  BY <1>3, <1>4

(* The entry of v, while no event was handled twice.                       *)
LEMMA VariantEntryAfter ==
  ASSUME NEW r \in DetailRow, NEW z \in DetailRow, NEW e \in ProductEvent, NEW v \in VariantIds,
         VariantsAfter(r.variants, e, z.variants), EntriesAfter(r.variants, e, z.variants),
         NEW x, NEW w, EntryIs(r, v, x), <<x, e, w>> \in DetailSteps(v)
  PROVE  /\ EntryIs(z, v, w)
         /\ e.type = "VariantAdded" /\ e.variant_id = v => v \notin VariantsListed(r)
<1>1. PICK list \in Seq(DetailEntry), after \in Seq(DetailEntry) :
        list = r.variants /\ after = z.variants
  BY DEF DetailRow
<1>2. /\ Len(list) \in Nat /\ DOMAIN list = 1..Len(list)
      /\ VariantsListed(r) = {list[k].variant_id : k \in DOMAIN list}
      /\ x = NoVariant => v \notin VariantsListed(r)
      /\ \A k \in DOMAIN list : list[k].variant_id = v =>
           list[k].price = x.price /\ list[k].tier_price = x.tier_price
  BY <1>1 DEF VariantsListed, EntryIs
<1>3. VariantsListed(z) = IF e.type = "VariantAdded" THEN VariantsListed(r) \cup {e.variant_id} ELSE VariantsListed(r)
  BY VariantsListedAfter
<1>4. /\ x \in VariantType /\ w \in VariantType
      /\ IF e.type = "VariantAdded" /\ e.variant_id = v
         THEN x = NoVariant /\ w = [price |-> e.price, tier_price |-> 0]
         ELSE IF e.type = "VariantPriceChanged" /\ e.variant_id = v
         THEN x # NoVariant /\ w = [price |-> e.new_price, tier_price |-> x.tier_price]
         ELSE IF e.type = "TierPriceSet" /\ e.variant_id = v
         THEN x # NoVariant /\ w = [price |-> x.price, tier_price |-> e.price]
         ELSE w = x
  BY DEF DetailSteps
<1>5. /\ e.type \in {"VariantAdded", "TierPriceSet"} => e.price # 0
      /\ e.type = "VariantPriceChanged" => e.new_price # 0
      /\ 0 \notin Prices
  BY ProductEvents, VariantPrices
<1>6. /\ w = NoVariant => x = NoVariant /\ ~(e.type = "VariantAdded" /\ e.variant_id = v)
      /\ w = NoVariant => v \notin VariantsListed(z)
  <2>1. w = NoVariant => w.price = 0 /\ w.tier_price = 0
    BY DEF NoVariant
  <2>2. w = NoVariant => w = x /\ ~(e.type = "VariantAdded" /\ e.variant_id = v)
    <3>1. CASE e.type = "VariantAdded" /\ e.variant_id = v
      <4>1. w.price # 0
        BY <1>4, <1>5, <3>1
      <4> QED  BY <2>1, <4>1
    <3>2. CASE e.type = "VariantPriceChanged" /\ e.variant_id = v
      <4>1. w.price # 0
        BY <1>4, <1>5, <3>2
      <4> QED  BY <2>1, <4>1
    <3>3. CASE e.type = "TierPriceSet" /\ e.variant_id = v
      <4>1. w.tier_price # 0
        BY <1>4, <1>5, <3>3
      <4> QED  BY <2>1, <4>1
    <3>4. CASE ~(e.type \in {"VariantAdded", "VariantPriceChanged", "TierPriceSet"}
                 /\ e.variant_id = v)
      BY <1>4, <3>4
    <3> QED  BY <3>1, <3>2, <3>3, <3>4
  <2> QED  BY <1>2, <1>3, <2>2
<1>7. ASSUME NEW k \in DOMAIN after, after[k].variant_id = v
      PROVE  after[k].price = w.price /\ after[k].tier_price = w.tier_price
  <2>1. CASE e.type = "VariantAdded"
    <3>1. PICK new : new = [variant_id |-> e.variant_id, price |-> e.price, tier_price |-> 0]
      OBVIOUS
    <3>2. after = Append(list, new) /\ new.variant_id = e.variant_id /\ new.price = e.price
          /\ new.tier_price = 0
      BY <1>1, <2>1, <3>1 DEF VariantsAfter
    <3>3. CASE k \in DOMAIN list
      <4>1. after[k] = list[k]
        BY <1>2, <3>2, <3>3
      <4>2. v \in VariantsListed(r)
        BY <1>2, <1>7, <3>3, <4>1
      <4>3. w = x
        BY <1>2, <1>4, <2>1, <4>2
      <4> QED  BY <1>2, <1>7, <3>3, <4>1, <4>3
    <3>4. CASE k \notin DOMAIN list
      <4>1. after[k] = new
        BY <1>2, <3>2, <3>4
      <4>2. e.variant_id = v
        BY <1>7, <3>2, <4>1
      <4>3. w.price = e.price /\ w.tier_price = 0
        BY <1>4, <2>1, <4>2
      <4> QED  BY <3>2, <4>1, <4>3
    <3> QED  BY <3>3, <3>4
  <2>2. CASE e.type # "VariantAdded"
    <3>1. k \in DOMAIN list /\ list[k].variant_id = v
      BY <1>1, <1>7, <2>2 DEF VariantsAfter
    <3>2. list[k].price = x.price /\ list[k].tier_price = x.tier_price
      BY <1>2, <3>1
    <3>3. IF e.type \in {"VariantPriceChanged", "TierPriceSet"} /\ v = e.variant_id
          THEN /\ after[k].price = IF e.type = "TierPriceSet" THEN list[k].price ELSE e.new_price
               /\ after[k].tier_price = IF e.type = "TierPriceSet" THEN e.price
                                        ELSE list[k].tier_price
          ELSE after[k] = list[k]
      BY <1>1, <1>7, <2>2, <3>1 DEF EntriesAfter
    <3>4. CASE e.type = "VariantPriceChanged" /\ v = e.variant_id
      <4>1. w.price = e.new_price /\ w.tier_price = x.tier_price
        BY <1>4, <3>4
      <4> QED  BY <3>2, <3>3, <3>4, <4>1
    <3>5. CASE e.type = "TierPriceSet" /\ v = e.variant_id
      <4>1. w.price = x.price /\ w.tier_price = e.price
        BY <1>4, <3>5
      <4> QED  BY <3>2, <3>3, <3>5, <4>1
    <3>6. CASE ~(e.type \in {"VariantPriceChanged", "TierPriceSet"} /\ v = e.variant_id)
      <4>1. w = x
        BY <1>4, <2>2, <3>6
      <4> QED  BY <3>2, <3>3, <3>6, <4>1
    <3> QED  BY <3>4, <3>5, <3>6
  <2> QED  BY <2>1, <2>2
<1>8. e.type = "VariantAdded" /\ e.variant_id = v => v \notin VariantsListed(r)
  BY <1>2, <1>4
<1> QED  BY <1>1, <1>6, <1>7, <1>8 DEF EntryIs

DetailBecomes(r, e, z) ==
  /\ z \in DetailRow
  /\ z.status = StatusAfter(r.status, e) /\ z.title = TitleAfter(r.title, e)
  /\ VariantsAfter(r.variants, e, z.variants)
  /\ EntriesApart(r) => EntriesAfter(r.variants, e, z.variants)
  /\ PicturesIn(z) = IF e.type = "ProductImageAdded" THEN PicturesIn(r) \cup {e.image_id}
                     ELSE IF e.type = "ProductImageRemoved"
                     THEN PicturesIn(r) \ {e.image_id}
                     ELSE PicturesIn(r)

LEMMA DetailChanges ==
  ASSUME NEW r \in DetailRow, NEW e \in ProductChange, NEW z, z = on_product_detail(r, e)
  PROVE  DetailBecomes(r, e, z)
BY DetailAfter, Zenon DEF DetailBecomes

LEMMA DetailReads ==
  ASSUME DetailLeads, NEW e, ReadOne(e), row' = on_product_detail(row, e)
  PROVE  DetailLeads'
<1>1. PICK z : z = row'
  OBVIOUS
<1>2. /\ row \in DetailRow /\ e \in ProductChange /\ e \in ProductEvent
      /\ unread # << >> /\ unread \in Seq(ProductEvent) /\ e = Head(unread)
      /\ unread' = Tail(unread) \/ unread' = unread
      /\ Offered' = Offered /\ Shown' = Shown /\ variants' = variants
  BY DEF DetailLeads, ReadOne
<1>3. /\ z \in DetailRow
      /\ z.status = StatusAfter(row.status, e) /\ z.title = TitleAfter(row.title, e)
      /\ VariantsAfter(row.variants, e, z.variants)
      /\ EntriesApart(row) => EntriesAfter(row.variants, e, z.variants)
      /\ PicturesIn(z) = IF e.type = "ProductImageAdded" THEN PicturesIn(row) \cup {e.image_id}
                         ELSE IF e.type = "ProductImageRemoved"
                         THEN PicturesIn(row) \ {e.image_id}
                         ELSE PicturesIn(row)
  <2>1. z = on_product_detail(row, e)
    BY <1>1
  <2>2. DetailBecomes(row, e, z)
    BY <1>2, <2>1, DetailChanges
  <2> QED  BY <2>2 DEF DetailBecomes
<1>4. TermsLead(row)'
  <2>1. Leads(StatusSteps, row.status, unread, product) /\ Leads(TitleSteps, row.title, unread, title)
    BY DEF DetailLeads, TermsLead
  <2>2. Leads(StatusSteps, z.status, unread', product') /\ Leads(TitleSteps, z.title, unread', title')
    BY <1>3, <2>1, TermsRead
  <2> QED  BY <1>1, <2>2 DEF TermsLead
<1>5. VariantsListed(z) = IF e.type = "VariantAdded" THEN VariantsListed(row) \cup {e.variant_id} ELSE VariantsListed(row)
  BY <1>2, <1>3, VariantsListedAfter
<1>6. PICK a, b, c, d : a = VariantsListed(row) /\ b = VariantsListed(z) /\ c = PicturesIn(row) /\ d = PicturesIn(z)
  OBVIOUS
<1>7. Leads(OfferSteps, b, unread', Offered')
  <2>1. Leads(OfferSteps, a, unread, Offered)
    BY <1>6 DEF DetailLeads
  <2>2. Leads(OfferSteps, b, Tail(unread), Offered) /\ Leads(OfferSteps, b, unread, Offered)
    BY <1>2, <1>5, <1>6, <2>1, ListsRead
  <2> QED  BY <1>2, <2>2
<1>8. Leads(PictureSteps, d, unread', Shown')
  <2>1. Leads(PictureSteps, c, unread, Shown)
    BY <1>6 DEF DetailLeads
  <2>2. Leads(PictureSteps, d, Tail(unread), Shown) /\ Leads(PictureSteps, d, unread, Shown)
    BY <1>2, <1>3, <1>6, <2>1, ListsRead
  <2> QED  BY <1>2, <2>2
<1>9. ASSUME ~redelivered' PROVE EntriesApart(z) /\ \A v \in VariantIds : EntryLeads(row, v)'
  <2>1. unread' = Tail(unread) /\ ~redelivered
    BY <1>9 DEF ReadOne
  <2>2. EntriesApart(row) /\ \A v \in VariantIds : EntryLeads(row, v)
    BY <2>1 DEF DetailLeads
  <2>3. ASSUME NEW v \in VariantIds
        PROVE  /\ EntryLeads(row, v)'
               /\ e.type = "VariantAdded" /\ e.variant_id = v => v \notin VariantsListed(row)
    <3>1. PICK x, y \in VariantType :
            EntryIs(row, v, x) /\ Leads(DetailSteps(v), x, unread, y) /\ DetailTold(v, y)
      BY <2>2 DEF EntryLeads
    <3>2. PICK w : <<x, e, w>> \in DetailSteps(v) /\ Leads(DetailSteps(v), w, Tail(unread), y)
      BY <1>2, <3>1, LeadsRead
    <3>3. /\ EntryIs(z, v, w)
          /\ e.type = "VariantAdded" /\ e.variant_id = v => v \notin VariantsListed(row)
      BY <1>2, <1>3, <2>2, <3>1, <3>2, VariantEntryAfter
    <3>4. w \in VariantType
      BY <3>2 DEF DetailSteps
    <3>5. DetailTold(v, y)'
      BY <1>2, <3>1 DEF DetailTold
    <3>6. EntryIs(row, v, w)'
      BY <1>1, <3>3 DEF EntryIs, VariantsListed
    <3> QED  BY <2>1, <3>2, <3>3, <3>4, <3>5, <3>6 DEF EntryLeads
  <2>4. EntriesApart(z)
    <3>1. PICK list \in Seq(DetailEntry), after \in Seq(DetailEntry) :
            list = row.variants /\ after = z.variants
      BY <1>2, <1>3 DEF DetailRow
    <3>2. /\ Len(list) \in Nat /\ DOMAIN list = 1..Len(list)
          /\ \A j, k \in DOMAIN list : list[j].variant_id = list[k].variant_id => j = k
      BY <2>2, <3>1 DEF EntriesApart
    <3>3. CASE e.type = "VariantAdded"
      <4>1. PICK new : new = [variant_id |-> e.variant_id, price |-> e.price, tier_price |-> 0]
        OBVIOUS
      <4>2. after = Append(list, new) /\ new.variant_id = e.variant_id
        BY <1>3, <3>1, <3>3, <4>1 DEF VariantsAfter
      <4>3. e.variant_id \in VariantIds
        BY <1>2, <3>3, ProductEvents
      <4>4. \A k \in DOMAIN list : list[k].variant_id # e.variant_id
        BY <2>3, <3>1, <3>3, <4>3 DEF VariantsListed
      <4>5. /\ \A k \in DOMAIN list : after[k] = list[k]
            /\ \A k \in DOMAIN after : k \in DOMAIN list \/ (k = Len(list) + 1 /\ after[k] = new)
        BY <3>2, <4>2
      <4>6. \A j, k \in DOMAIN after : after[j].variant_id = after[k].variant_id => j = k
        BY <3>2, <4>2, <4>4, <4>5
      <4> QED  BY <3>1, <4>6 DEF EntriesApart
    <3>4. CASE e.type # "VariantAdded"
      <4>1. DOMAIN after = DOMAIN list
            /\ \A k \in DOMAIN after : after[k].variant_id = list[k].variant_id
        BY <1>3, <3>1, <3>4 DEF VariantsAfter
      <4> QED  BY <3>1, <3>2, <4>1 DEF EntriesApart
    <3> QED  BY <3>3, <3>4
  <2> QED  BY <2>3, <2>4
<1>10. VariantsListed(row)' = b /\ PicturesIn(row)' = d /\ (EntriesApart(z) => EntriesApart(row)')
  BY <1>1, <1>6 DEF VariantsListed, PicturesIn, EntriesApart
<1> QED  BY <1>1, <1>3, <1>4, <1>7, <1>8, <1>9, <1>10 DEF DetailLeads

LEMMA HistoryReads ==
  ASSUME HistoryLeads, NEW e, ReadOne(e), row' = on_price_history(row, e)
  PROVE  HistoryLeads'
<1>1. /\ row \in HistoryRow /\ e \in ProductEvent
      /\ unread # << >> /\ unread \in Seq(ProductEvent) /\ e = Head(unread)
      /\ unread' = Tail(unread) \/ unread' = unread
      /\ variants' = variants
      /\ ~redelivered' => unread' = Tail(unread) /\ ~redelivered
  BY DEF HistoryLeads, ReadOne
<1>2. e.type = "VariantPriceChanged" =>
        e.variant_id \in VariantIds /\ e.previous_price \in Nat /\ e.new_price \in Nat
  BY <1>1, ProductEvents, VariantPrices
<1>3. ASSUME NEW v \in VariantIds
      PROVE  /\ row'[v].price =
                  IF e.type = "VariantPriceChanged" /\ e.variant_id = v THEN e.new_price ELSE row[v].price
             /\ e.type = "VariantPriceChanged" /\ e.variant_id = v =>
                  row'[v].unbroken = (row[v].unbroken /\ row[v].price \in {0, e.previous_price})
             /\ ~(e.type = "VariantPriceChanged" /\ e.variant_id = v) => row'[v] = row[v]
  BY <1>1, <1>2 DEF on_price_history, HistoryRow
<1>4. row' \in HistoryRow
  <2>1. CASE e.type = "VariantPriceChanged"
    <3>1. PICK b \in BOOLEAN : b = (row[e.variant_id].unbroken
                                    /\ row[e.variant_id].price \in {0, e.previous_price})
      OBVIOUS
    <3>2. row' = [row EXCEPT ![e.variant_id] = [price |-> e.new_price, unbroken |-> b]]
      BY <2>1, <3>1 DEF on_price_history
    <3>3. [price |-> e.new_price, unbroken |-> b] \in [price : Nat, unbroken : BOOLEAN]
      BY <1>2, <2>1
    <3> QED  BY <1>1, <3>2, <3>3 DEF HistoryRow
  <2>2. CASE e.type # "VariantPriceChanged"
    BY <1>1, <2>2 DEF on_price_history
  <2> QED  BY <2>1, <2>2
<1>5. ASSUME ~redelivered', NEW v \in VariantIds PROVE PriceLeads(row, v)'
  <2>1. PriceLeads(row, v) /\ unread' = Tail(unread)
    BY <1>1, <1>5 DEF HistoryLeads
  <2>2. PICK p \in Nat : row[v].price \in {0, p} /\ Leads(PriceSteps(v), p, unread, variants[v].price)
    BY <2>1 DEF PriceLeads
  <2>3. PICK q : <<p, e, q>> \in PriceSteps(v) /\ Leads(PriceSteps(v), q, Tail(unread), variants[v].price)
    BY <1>1, <2>2, LeadsRead
  <2>4. /\ q \in Nat
        /\ IF e.type = "VariantAdded" /\ e.variant_id = v
           THEN p = 0 /\ q = e.price
           ELSE IF e.type = "VariantPriceChanged" /\ e.variant_id = v
           THEN p = e.previous_price /\ q = e.new_price
           ELSE q = p
    BY <2>3 DEF PriceSteps
  <2>5. row'[v].unbroken /\ row'[v].price \in {0, q}
    <3>1. row[v].unbroken
      BY <2>1 DEF PriceLeads
    <3>2. CASE e.type = "VariantPriceChanged" /\ e.variant_id = v
      <4>1. p = e.previous_price /\ q = e.new_price
        BY <2>4, <3>2
      <4> QED  BY <1>3, <2>2, <3>1, <3>2, <4>1
    <3>3. CASE e.type = "VariantAdded" /\ e.variant_id = v
      <4>1. row'[v] = row[v] /\ row[v].price = 0
        BY <1>3, <2>2, <2>4, <3>3
      <4> QED  BY <3>1, <4>1
    <3>4. CASE ~(e.type \in {"VariantAdded", "VariantPriceChanged"} /\ e.variant_id = v)
      <4>1. row'[v] = row[v] /\ q = p
        BY <1>3, <2>4, <3>4
      <4> QED  BY <2>2, <3>1, <4>1
    <3> QED  BY <3>2, <3>3, <3>4
  <2> QED  BY <1>1, <2>1, <2>3, <2>4, <2>5 DEF PriceLeads
<1> QED  BY <1>4, <1>5 DEF HistoryLeads

LEMMA StockReads ==
  ASSUME StockLeads, NEW e, ReadOne(e), row' = on_variant_subscriber(row, e)
  PROVE  StockLeads'
<1>1. /\ row \in [VariantIds -> Nat] /\ e \in ProductEvent
      /\ unread # << >> /\ unread \in Seq(ProductEvent) /\ e = Head(unread)
      /\ unread' = Tail(unread) \/ unread' = unread
      /\ Offered' = Offered
      /\ ~redelivered' => unread' = Tail(unread) /\ ~redelivered
  BY DEF StockLeads, ReadOne
<1>2. e.type = "VariantAdded" => e.variant_id \in VariantIds
  BY <1>1, ProductEvents
<1>3. /\ row' \in [VariantIds -> Nat]
      /\ \A v \in VariantIds :
           row'[v] = IF e.type = "VariantAdded" /\ e.variant_id = v THEN row[v] + 1 ELSE row[v]
  BY <1>1, <1>2 DEF on_variant_subscriber
<1>4. PICK a, b : a = StockedIn(row) /\ b = {v \in VariantIds : row'[v] > 0}
  OBVIOUS
<1>5. b = IF e.type = "VariantAdded" THEN a \cup {e.variant_id} ELSE a
  <2>1. a = {v \in VariantIds : row[v] > 0}
    BY <1>4 DEF StockedIn
  <2>2. ASSUME NEW v \in VariantIds
        PROVE  v \in b <=> v \in a \/ (e.type = "VariantAdded" /\ e.variant_id = v)
    <3>1. row[v] \in Nat
      BY <1>1
    <3> QED  BY <1>3, <1>4, <2>1, <3>1
  <2> QED  BY <1>2, <1>4, <2>1, <2>2
<1>6. Leads(OfferSteps, b, unread', Offered')
  <2>1. Leads(OfferSteps, a, unread, Offered)
    BY <1>4 DEF StockLeads
  <2>2. Leads(OfferSteps, b, Tail(unread), Offered) /\ Leads(OfferSteps, b, unread, Offered)
    BY <1>1, <1>5, <2>1, ListsRead
  <2> QED  BY <1>1, <2>2
<1>7. StockedIn(row)' = b
  BY <1>4 DEF StockedIn
<1>8. ASSUME ~redelivered', NEW v \in VariantIds PROVE ItemLeads(row, v)'
  <2>1. PICK n, m, k : /\ n = row[v] /\ m = row'[v] /\ k = (IF v \in Offered THEN 1 ELSE 0)
    OBVIOUS
  <2>2. Leads(ItemSteps(v), n, unread, k) /\ unread' = Tail(unread)
    BY <1>1, <1>8, <2>1 DEF StockLeads, ItemLeads
  <2>3. PICK w : <<n, e, w>> \in ItemSteps(v) /\ Leads(ItemSteps(v), w, Tail(unread), k)
    BY <1>1, <2>2, LeadsRead
  <2>4. w = m
    BY <1>3, <2>1, <2>3 DEF ItemSteps
  <2> QED  BY <1>1, <2>1, <2>2, <2>3, <2>4 DEF ItemLeads
<1> QED  BY <1>3, <1>6, <1>7, <1>8 DEF StockLeads

LEMMA ProjectionKeepsProductViews ==
  ASSUME ProductViewInv, ProductProjection
  PROVE  ProductViewInv'
<1>1. /\ ReadOne(Head(unread)) /\ view' = view /\ row' = ProductProjected(row, Head(unread))
      /\ ProductInv' /\ unread' \in Seq(ProductChange)
  BY ReadsOne
<1>2. PICK e : e = Head(unread) /\ ReadOne(e) /\ row' = ProductProjected(row, e)
  BY <1>1
<1>3. ProductInv /\ view \in ProductViews
  BY DEF ProductViewInv
<1>4. view = "product_card" => CardLeads'
  <2>1. view = "product_card" => row' = on_product_card(row, e) /\ CardLeads
    BY <1>2 DEF ProductProjected, ProductViewInv
  <2> QED  BY <1>2, <1>3, <2>1, CardReads
<1>5. view = "product_detail" => DetailLeads'
  <2>1. view = "product_detail" => row' = on_product_detail(row, e) /\ DetailLeads
    BY <1>2 DEF ProductProjected, ProductViewInv
  <2> QED  BY <1>2, <1>3, <2>1, DetailReads
<1>6. view = "seller_catalogue" => SellerLeads'
  <2>1. view = "seller_catalogue" => row' = on_seller_catalogue(row, e) /\ SellerLeads
    BY <1>2 DEF ProductProjected, ProductViewInv
  <2> QED  BY <1>2, <1>3, <2>1, SellerReads
<1>7. view = "price_history" => HistoryLeads'
  <2>1. view = "price_history" => row' = on_price_history(row, e) /\ HistoryLeads
    BY <1>2 DEF ProductProjected, ProductViewInv
  <2> QED  BY <1>2, <1>3, <2>1, HistoryReads
<1>8. view = "stock" => StockLeads'
  <2>1. view = "stock" => row' = on_variant_subscriber(row, e) /\ StockLeads
    BY <1>2 DEF ProductProjected, ProductViewInv
  <2> QED  BY <1>2, <1>3, <2>1, StockReads
<1> QED  BY <1>1, <1>3, <1>4, <1>5, <1>6, <1>7, <1>8, Zenon DEF ProductViewInv

(* A product that was just created.                                        *)
LEMMA ProductCreated ==
  ASSUME CreateProduct
  PROVE  /\ ProductInv
         /\ Offered = {} /\ Shown = {} /\ Primary = {} /\ product = "Draft" /\ title = "old"
         /\ \A v \in VariantIds : variants[v] = NoVariant
<1>1. /\ Offered = {} /\ Shown = {} /\ Primary = {} /\ product = "Draft" /\ title = "old"
      /\ \A v \in VariantIds : variants[v] = NoVariant
  BY DEF CreateProduct, Offered, Shown, Primary
<1>2. variants \in [VariantIds -> VariantType] /\ images \in [ImageIds -> ImageStates]
  BY DEF CreateProduct, VariantType, NoVariant, ImageStates
<1> QED  BY <1>1, <1>2, FS_EmptySet DEF ProductInv, ProductStatuses, Names

LEMMA ProductViewsStart ==
  ASSUME CatalogueInit
  PROVE  ProductViewInv
<1>1. /\ ProductInv /\ Offered = {} /\ Shown = {} /\ Primary = {}
      /\ product = "Draft" /\ title = "old" /\ \A v \in VariantIds : variants[v] = NoVariant
  BY ProductCreated DEF CatalogueInit
<1>2. view \in ProductViews /\ row = ProductRow /\ unread = << >>
  BY DEF CatalogueInit
<1>3. \A steps, x : Leads(steps, x, unread, x)
  BY <1>2, LeadsNone
<1>4. product \in ProductStatuses /\ title \in Names /\ Cardinality(Offered) = 0
  BY <1>1, FS_EmptySet DEF ProductInv
<1>5. view = "product_card" => CardLeads
  <2> SUFFICES ASSUME view = "product_card" PROVE CardLeads
    OBVIOUS
  <2>1. row = [status |-> "Draft", title |-> "old", variant_count |-> 0,
               min_price |-> 0, max_price |-> 0, image |-> "none"]
    BY <1>2 DEF ProductRow
  <2>2. CoverTold("none")
    BY <1>1, CatalogueAssumption DEF CoverTold
  <2>3. row \in CardRow
    BY <1>1, <1>4, <2>1 DEF CardRow
  <2>4. TermsLead(row) /\ CountLeads(row)
    BY <1>1, <1>3, <1>4, <2>1 DEF TermsLead, CountLeads
  <2>5. \E y \in ImageIds \cup {"none"} : Leads(CoverSteps, row.image, unread, y) /\ CoverTold(y)
    BY <1>3, <2>1, <2>2
  <2> QED  BY <1>1, <2>1, <2>3, <2>4, <2>5 DEF CardLeads
<1>6. view = "product_detail" => DetailLeads
  <2> SUFFICES ASSUME view = "product_detail" PROVE DetailLeads
    OBVIOUS
  <2>1. row = [status |-> "Draft", title |-> "old", variants |-> << >>, images |-> {}]
    BY <1>2 DEF ProductRow
  <2>2. row \in DetailRow
    <3>1. << >> \in Seq(DetailEntry) /\ {} \in SUBSET [image_id : ImageIds, is_primary : BOOLEAN]
      OBVIOUS
    <3> QED  BY <1>1, <1>4, <2>1, <3>1 DEF DetailRow
  <2>3. TermsLead(row)
    BY <1>1, <1>3, <2>1 DEF TermsLead
  <2>4. DOMAIN row.variants = {} /\ row.images = {}
    BY <2>1
  <2>5. VariantsListed(row) = Offered /\ PicturesIn(row) = Shown
    BY <1>1, <2>4 DEF VariantsListed, PicturesIn
  <2>6. EntriesApart(row)
    BY <2>4 DEF EntriesApart
  <2>7. ASSUME NEW v \in VariantIds PROVE EntryLeads(row, v)
    <3>1. NoVariant \in VariantType
      BY DEF NoVariant, VariantType
    <3>2. EntryIs(row, v, NoVariant)
      BY <1>1, <2>4, <2>5 DEF EntryIs
    <3>3. DetailTold(v, NoVariant)
      BY <1>1 DEF DetailTold, NoVariant
    <3> QED  BY <1>3, <3>1, <3>2, <3>3 DEF EntryLeads
  <2> QED  BY <1>3, <2>2, <2>3, <2>5, <2>6, <2>7 DEF DetailLeads
<1>7. view = "seller_catalogue" => SellerLeads
  <2> SUFFICES ASSUME view = "seller_catalogue" PROVE SellerLeads
    OBVIOUS
  <2>1. row = [status |-> "Draft", title |-> "old", variant_count |-> 0]
    BY <1>2 DEF ProductRow
  <2> QED  BY <1>1, <1>3, <1>4, <2>1 DEF SellerLeads, SellerRow, TermsLead, CountLeads
<1>8. view = "price_history" => HistoryLeads
  <2> SUFFICES ASSUME view = "price_history" PROVE HistoryLeads
    OBVIOUS
  <2>1. row = [v \in VariantIds |-> [price |-> 0, unbroken |-> TRUE]]
    BY <1>2 DEF ProductRow
  <2>2. ASSUME NEW v \in VariantIds PROVE PriceLeads(row, v)
    <3>1. row[v].price = 0 /\ row[v].unbroken /\ variants[v].price = 0
      BY <1>1, <2>1 DEF NoVariant
    <3> QED  BY <1>3, <3>1 DEF PriceLeads
  <2> QED  BY <2>1, <2>2 DEF HistoryLeads, HistoryRow
<1>9. view = "stock" => StockLeads
  <2> SUFFICES ASSUME view = "stock" PROVE StockLeads
    OBVIOUS
  <2>1. row = [v \in VariantIds |-> 0]
    BY <1>2 DEF ProductRow
  <2>2. StockedIn(row) = Offered
    BY <1>1, <2>1 DEF StockedIn
  <2>3. ASSUME NEW v \in VariantIds PROVE ItemLeads(row, v)
    BY <1>1, <1>3, <2>1 DEF ItemLeads
  <2> QED  BY <1>3, <2>1, <2>2, <2>3 DEF StockLeads
<1>10. unread \in Seq(ProductChange)
  BY <1>2
<1> QED  BY <1>1, <1>2, <1>5, <1>6, <1>7, <1>8, <1>9, <1>10, Zenon DEF ProductViewInv

(* What the invariant says of a projection that caught up.                 *)
ProductHolds ==
  /\ Shown # {} => Cardinality(Primary) = 1
  /\ \A v \in Offered : variants[v].tier_price < variants[v].price
  /\ product # "Draft" => Offered # {}

LEMMA ProductInvHolds ==
  ASSUME ProductInv
  PROVE  ProductHolds
<1>1. \A i : Cardinality({i}) = 1
  BY FS_Singleton
<1> QED  BY <1>1 DEF ProductInv, ProductHolds

LEMMA ProductViewsFollow ==
  ASSUME ProductViewInv
  PROVE  CatalogueFollows
<1>1. ProductInv /\ ProductHolds /\ view \in ProductViews
  BY ProductInvHolds DEF ProductViewInv
<1>2. SUFFICES ASSUME unread = << >>
               PROVE  CASE view = "product_card" -> ProductCardFollows
                        [] view = "product_detail" -> ProductDetailFollows
                        [] view = "seller_catalogue" ->
                             SameTerms /\ (~redelivered => row.variant_count = Cardinality(Offered))
                        [] view = "price_history" -> HistoryFollows
                        [] view = "stock" ->
                             \A v \in VariantIds : /\ (row[v] > 0) = (v \in Offered)
                                                   /\ ~redelivered => row[v] <= 1
                        [] OTHER -> TRUE
  BY <1>1, Zenon DEF CatalogueFollows, ProductHolds, CaughtUp
<1>3. \A steps, x, y : Leads(steps, x, unread, y) => y = x
  BY <1>2, LeadsNone
<1>4. TermsLead(row) => SameTerms
  BY <1>3 DEF TermsLead, SameTerms
<1>5. CountLeads(row) => (~redelivered => row.variant_count = Cardinality(Offered))
  BY <1>3 DEF CountLeads
<1>6. /\ Prices \subseteq Nat /\ 0 \notin Prices
      /\ \A v \in VariantIds : /\ variants[v] \in VariantType
                               /\ variants[v].price \in Nat /\ variants[v].tier_price \in Nat
                               /\ v \in Offered <=> variants[v].price # 0
                               /\ v \notin Offered => variants[v] = NoVariant
      /\ Offered \subseteq VariantIds
  BY <1>1, VariantFacts
<1>7. CASE view = "product_card"
  <2>1. CardLeads
    BY <1>7 DEF ProductViewInv
  <2>2. SameTerms /\ (~redelivered => row.variant_count = Cardinality(Offered))
    BY <1>4, <1>5, <2>1 DEF CardLeads
  <2>3. ASSUME NEW v \in Offered PROVE variants[v].price \in row.min_price..row.max_price
    <3>1. PriceCovered(row, variants[v].price)
      BY <2>1 DEF CardLeads
    <3>2. 1..Len(unread) = {}
      BY <1>2
    <3> QED  BY <3>1, <3>2 DEF PriceCovered
  <2>4. CoverTold(row.image)
    BY <1>3, <2>1 DEF CardLeads
  <2>5. ProductCardFollows
    BY <2>2, <2>3, <2>4 DEF ProductCardFollows, CoverTold
  <2> QED  BY <1>7, <2>5
<1>8. CASE view = "product_detail"
  <2>1. DetailLeads
    BY <1>8 DEF ProductViewInv
  <2>2. SameTerms /\ VariantsListed(row) = Offered /\ PicturesIn(row) = Shown
    BY <1>3, <1>4, <2>1 DEF DetailLeads
  <2>3. ASSUME NEW k \in DOMAIN row.variants, ~redelivered
        PROVE  LET entry == row.variants[k] IN
               /\ entry.price = variants[entry.variant_id].price
               /\ variants[entry.variant_id].tier_price \in {0, entry.tier_price}
    <3>1. PICK v : v = row.variants[k].variant_id
      OBVIOUS
    <3>2. v \in VariantIds /\ v \in Offered
      BY <1>6, <2>2, <3>1 DEF VariantsListed
    <3>3. PICK x, y \in VariantType :
            EntryIs(row, v, x) /\ Leads(DetailSteps(v), x, unread, y) /\ DetailTold(v, y)
      BY <2>1, <2>3, <3>2 DEF DetailLeads, EntryLeads
    <3>4. y = x
      BY <1>3, <3>3
    <3>5. row.variants[k].price = y.price /\ row.variants[k].tier_price = y.tier_price
      BY <3>1, <3>3, <3>4 DEF EntryIs
    <3> QED  BY <3>1, <3>3, <3>5 DEF DetailTold
  <2>4. ProductDetailFollows
    BY <2>2, <2>3 DEF ProductDetailFollows, VariantsListed, PicturesIn
  <2> QED  BY <1>8, <2>4
<1>9. CASE view = "seller_catalogue"
  <2>1. SellerLeads
    BY <1>9 DEF ProductViewInv
  <2>2. SameTerms /\ (~redelivered => row.variant_count = Cardinality(Offered))
    BY <1>4, <1>5, <2>1 DEF SellerLeads
  <2> QED  BY <1>9, <2>2
<1>10. CASE view = "price_history"
  <2>1. HistoryLeads
    BY <1>10 DEF ProductViewInv
  <2>2. ASSUME ~redelivered, NEW v \in VariantIds
        PROVE  row[v].unbroken /\ row[v].price \in {0, variants[v].price}
    <3>1. PriceLeads(row, v)
      BY <2>1, <2>2 DEF HistoryLeads
    <3> QED  BY <1>3, <3>1 DEF PriceLeads
  <2>3. HistoryFollows
    BY <2>2 DEF HistoryFollows
  <2> QED  BY <1>10, <2>3
<1>11. CASE view = "stock"
  <2>1. StockLeads
    BY <1>11 DEF ProductViewInv
  <2>2. StockedIn(row) = Offered
    BY <1>3, <2>1 DEF StockLeads
  <2>3. ASSUME NEW v \in VariantIds
        PROVE  /\ (row[v] > 0) = (v \in Offered)
               /\ ~redelivered => row[v] <= 1
    <3>1. row[v] > 0 <=> v \in Offered
      BY <2>2 DEF StockedIn
    <3>2. ~redelivered => row[v] = IF v \in Offered THEN 1 ELSE 0
      BY <1>3, <2>1 DEF StockLeads, ItemLeads
    <3> QED  BY <3>1, <3>2
  <2> QED  BY <1>11, <2>3
<1> QED  BY <1>1, <1>7, <1>8, <1>9, <1>10, <1>11 DEF ProductViews

LEMMA StutterKeepsProductViews ==
  ASSUME ProductViewInv, UNCHANGED catalogue_vars
  PROVE  ProductViewInv'
<1>1. /\ product' = product /\ title' = title /\ variants' = variants /\ images' = images
      /\ view' = view /\ row' = row /\ unread' = unread /\ redelivered' = redelivered
  BY DEF catalogue_vars, product_vars, read_vars
<1>2. Offered' = Offered /\ Shown' = Shown /\ Primary' = Primary
  BY <1>1 DEF Offered, Shown, Primary
<1>3. ProductInv'
  BY <1>1, <1>2 DEF ProductViewInv, ProductInv
<1>4. \A y : CoverTold(y) => CoverTold(y)'
  BY <1>1, <1>2 DEF CoverTold
<1>5. CardLeads => CardLeads'
  BY <1>1, <1>2, <1>4 DEF CardLeads, TermsLead, CountLeads, PriceCovered
<1>6. \A v : EntryLeads(row, v) => EntryLeads(row, v)'
  BY <1>1, <1>2 DEF EntryLeads, EntryIs, VariantsListed, DetailTold
<1>7. DetailLeads => DetailLeads'
  BY <1>1, <1>2, <1>6 DEF DetailLeads, TermsLead, VariantsListed, PicturesIn, EntriesApart
<1>8. SellerLeads => SellerLeads'
  BY <1>1, <1>2 DEF SellerLeads, TermsLead, CountLeads
<1>9. HistoryLeads => HistoryLeads'
  BY <1>1 DEF HistoryLeads, PriceLeads
<1>10. StockLeads => StockLeads'
  BY <1>1, <1>2 DEF StockLeads, StockedIn, ItemLeads
<1> QED  BY <1>1, <1>3, <1>5, <1>7, <1>8, <1>9, <1>10 DEF ProductViewInv

------------------------------------------------------------------------------
(***************************************************************************)
(* Categories, and the two projections of them.                            *)
(***************************************************************************)
CategoryType == [name : Names, parent : CategoryIds \cup {"None"}, level : Nat, order : Nat,
                 is_active : BOOLEAN]

CategoryEvent ==
  [type : {"CategoryCreated", "CategoryDetailsUpdated", "CategoryReordered", "CategoryDeactivated"},
   id : CategoryIds, category : CategoryType]

(* A category is one level below its parent.                               *)
LevelBelow(parent) == IF parent = "None" THEN 0 ELSE categories[parent].level + 1

CategoryInv ==
  /\ categories \in [CategoryIds -> CategoryType \cup {NoCategory}]
  /\ category_of \in CategoryIds
  /\ \A c \in Known : /\ categories[c].level <= MaxLevel
                      /\ categories[c].parent \in Known \cup {"None"}
                      /\ categories[c].level = LevelBelow(categories[c].parent)

(* What the event e of a category says that it did.                        *)
CategorySays(e) ==
  /\ e \in CategoryEvent
  /\ categories' = [categories EXCEPT ![e.id] = e.category]
  /\ IF e.type = "CategoryCreated"
     THEN /\ e.id \notin Known
          /\ e.category.parent \in Known \cup {"None"}
          /\ e.category.level = LevelBelow(e.category.parent) /\ e.category.level <= MaxLevel
          /\ e.category.order = 0 /\ e.category.is_active
     ELSE /\ e.id \in Known
          /\ e.category.parent = categories[e.id].parent
          /\ e.category.level = categories[e.id].level
          /\ e.type # "CategoryDetailsUpdated" => e.category.name = categories[e.id].name
          /\ e.type # "CategoryReordered" => e.category.order = categories[e.id].order
          /\ e.category.is_active <=>
               (e.type # "CategoryDeactivated" /\ categories[e.id].is_active)

LEMMA CategoryFacts ==
  ASSUME CategoryInv
  PROVE  /\ Known \subseteq CategoryIds /\ "None" \notin CategoryIds /\ MaxLevel \in Nat
         /\ \A c \in CategoryIds : c \in Known <=> categories[c] \in CategoryType
         /\ \A c \in CategoryIds : c \notin Known => categories[c] = NoCategory
         /\ NoCategory \notin CategoryType
<1>1. \A x \in CategoryType : x.name # "none"
  BY DEF CategoryType, Names
<1>2. NoCategory \notin CategoryType
  BY <1>1 DEF NoCategory
<1> QED  BY <1>2, CategoriesAssumption DEF CategoryInv, Known

LEMMA CategoryCommandSays ==
  ASSUME CategoryInv, CategoryCommand
  PROVE  \E e \in CategoryEvent :
           /\ CategorySays(e) /\ category_unread' = Append(category_unread, e)
           /\ UNCHANGED <<catalogue_vars, category_of, overtook>>
<1>1. /\ Known \subseteq CategoryIds /\ MaxLevel \in Nat
      /\ \A c \in CategoryIds : c \in Known <=> categories[c] \in CategoryType
  BY CategoryFacts
<1>2. ASSUME NEW c \in CategoryIds, NEW category \in CategoryType, NEW type,
             ChangeCategory(c, category, type),
             NEW e, e = [type |-> type, id |-> c, category |-> category],
             CategorySays(e)
      PROVE  \E x \in CategoryEvent :
               /\ CategorySays(x) /\ category_unread' = Append(category_unread, x)
               /\ UNCHANGED <<catalogue_vars, category_of, overtook>>
  <2>1. e \in CategoryEvent
    BY <1>2 DEF CategorySays
  <2>2. /\ category_unread' = Append(category_unread, e)
        /\ UNCHANGED <<catalogue_vars, category_of, overtook>>
    BY <1>2 DEF ChangeCategory
  <2> QED  BY <1>2, <2>1, <2>2, Zenon
<1>3. ASSUME CreateCategory
      PROVE  \E e \in CategoryEvent :
               /\ CategorySays(e) /\ category_unread' = Append(category_unread, e)
               /\ UNCHANGED <<catalogue_vars, category_of, overtook>>
  <2>1. PICK c \in CategoryIds \ Known, parent \in Known \cup {"None"} :
          LET level == IF parent = "None" THEN 0 ELSE categories[parent].level + 1 IN
          /\ level <= MaxLevel
          /\ ChangeCategory(c, [name |-> "old", parent |-> parent, level |-> level, order |-> 0,
                                is_active |-> TRUE], "CategoryCreated")
    BY <1>3 DEF CreateCategory
  <2>2. PICK level : level = IF parent = "None" THEN 0 ELSE categories[parent].level + 1
    OBVIOUS
  <2>3. level \in Nat /\ level <= MaxLevel
    BY <1>1, <2>1, <2>2 DEF CategoryType
  <2>4. PICK x : x = [name |-> "old", parent |-> parent, level |-> level, order |-> 0,
                      is_active |-> TRUE]
    OBVIOUS
  <2>6. ChangeCategory(c, x, "CategoryCreated")
    BY <2>1, <2>2, <2>4, Zenon
  <2>7. x \in CategoryType
    BY <1>1, <2>3, <2>4 DEF CategoryType, Names
  <2>8. PICK e : e = [type |-> "CategoryCreated", id |-> c, category |-> x]
    OBVIOUS
  <2>9. e \in CategoryEvent /\ e.type = "CategoryCreated" /\ e.id = c /\ e.category = x
    BY <2>7, <2>8 DEF CategoryEvent
  <2>10. CategorySays(e)
    <3>1. x.parent = parent /\ x.level = level /\ x.order = 0 /\ x.is_active
      BY <2>4
    <3>2. categories' = [categories EXCEPT ![c] = x]
      BY <2>6 DEF ChangeCategory
    <3> QED  BY <2>1, <2>2, <2>3, <2>9, <3>1, <3>2 DEF CategorySays, LevelBelow
  <2> QED  BY <1>2, <2>6, <2>7, <2>8, <2>10
<1>4. ASSUME NEW c \in CategoryIds, UpdateCategory(c) \/ ReorderCategory(c) \/ DeactivateCategory(c)
      PROVE  \E e \in CategoryEvent :
               /\ CategorySays(e) /\ category_unread' = Append(category_unread, e)
               /\ UNCHANGED <<catalogue_vars, category_of, overtook>>
  <2>1. c \in Known
    BY <1>4 DEF UpdateCategory, ReorderCategory, DeactivateCategory
  <2>2. PICK old \in CategoryType : old = categories[c]
    BY <1>1, <2>1
  <2>3. PICK x \in CategoryType, type \in {"CategoryDetailsUpdated", "CategoryReordered",
                                           "CategoryDeactivated"} :
          /\ ChangeCategory(c, x, type)
          /\ x.parent = old.parent /\ x.level = old.level
          /\ type # "CategoryDetailsUpdated" => x.name = old.name
          /\ type # "CategoryReordered" => x.order = old.order
          /\ x.is_active <=> (type # "CategoryDeactivated" /\ old.is_active)
    <3>1. CASE UpdateCategory(c)
      <4>1. PICK name \in Names : ChangeCategory(c, [old EXCEPT !.name = name], "CategoryDetailsUpdated")
        BY <2>2, <3>1 DEF UpdateCategory, Names
      <4>2. PICK x : x = [old EXCEPT !.name = name]
        OBVIOUS
      <4>3. /\ x \in CategoryType /\ x.parent = old.parent /\ x.level = old.level
            /\ x.order = old.order /\ x.is_active = old.is_active /\ old.is_active \in BOOLEAN
        BY <4>2 DEF CategoryType
      <4>4. ChangeCategory(c, x, "CategoryDetailsUpdated")
        BY <4>1, <4>2
      <4> QED  BY <4>3, <4>4
    <3>2. CASE ReorderCategory(c)
      <4>1. PICK new_order \in 0..1 :
              ChangeCategory(c, [old EXCEPT !.order = new_order], "CategoryReordered")
        BY <2>2, <3>2 DEF ReorderCategory
      <4>2. PICK x : x = [old EXCEPT !.order = new_order]
        OBVIOUS
      <4>3. /\ x \in CategoryType /\ x.parent = old.parent /\ x.level = old.level
            /\ x.name = old.name /\ x.is_active = old.is_active /\ old.is_active \in BOOLEAN
        BY <4>2 DEF CategoryType
      <4>4. ChangeCategory(c, x, "CategoryReordered")
        BY <4>1, <4>2
      <4> QED  BY <4>3, <4>4
    <3>3. CASE DeactivateCategory(c)
      <4>1. ChangeCategory(c, [old EXCEPT !.is_active = FALSE], "CategoryDeactivated")
        BY <2>2, <3>3 DEF DeactivateCategory
      <4>2. PICK x : x = [old EXCEPT !.is_active = FALSE]
        OBVIOUS
      <4>3. /\ x \in CategoryType /\ x.parent = old.parent /\ x.level = old.level
            /\ x.name = old.name /\ x.order = old.order /\ x.is_active = FALSE
        BY <4>2 DEF CategoryType
      <4>4. ChangeCategory(c, x, "CategoryDeactivated")
        BY <4>1, <4>2
      <4> QED  BY <4>3, <4>4
    <3> QED  BY <1>4, <3>1, <3>2, <3>3
  <2>4. PICK e : e = [type |-> type, id |-> c, category |-> x]
    OBVIOUS
  <2>5. e \in CategoryEvent /\ e.type = type /\ e.id = c /\ e.category = x /\ type # "CategoryCreated"
    BY <2>4 DEF CategoryEvent
  <2>6. CategorySays(e)
    BY <2>1, <2>2, <2>3, <2>5 DEF CategorySays, ChangeCategory
  <2> QED  BY <1>2, <2>3, <2>4, <2>6
<1> QED  BY <1>3, <1>4, Zenon DEF CategoryCommand

LEMMA SaysKnown ==
  ASSUME CategoryInv, NEW e, CategorySays(e)
  PROVE  /\ Known' = Known \cup {e.id}
         /\ \A c \in CategoryIds : categories'[c] = IF c = e.id THEN e.category ELSE categories[c]
         /\ \A c \in Known : /\ categories'[c].parent = categories[c].parent
                             /\ categories'[c].level = categories[c].level
<1>1. /\ Known \subseteq CategoryIds
      /\ \A c \in CategoryIds : c \in Known <=> categories[c] \in CategoryType
      /\ NoCategory \notin CategoryType
      /\ \A c \in CategoryIds : c \notin Known => categories[c] = NoCategory
      /\ e.id \in CategoryIds /\ e.category \in CategoryType
  BY CategoryFacts DEF CategorySays, CategoryEvent
<1>2. \A c \in CategoryIds : categories'[c] = IF c = e.id THEN e.category ELSE categories[c]
  BY <1>1 DEF CategorySays, CategoryInv
<1>3. Known' = {c \in CategoryIds : categories'[c] # NoCategory}
  BY DEF Known, NoCategory
<1>4. Known' = Known \cup {e.id}
  BY <1>1, <1>2, <1>3
<1>5. ASSUME NEW c \in Known
      PROVE  categories'[c].parent = categories[c].parent /\ categories'[c].level = categories[c].level
  <2>1. CASE c = e.id
    BY <1>1, <1>2, <2>1 DEF CategorySays
  <2>2. CASE c # e.id
    BY <1>1, <1>2, <2>2
  <2> QED  BY <2>1, <2>2
<1> QED  BY <1>2, <1>4, <1>5

LEMMA SaysKeepsCategories ==
  ASSUME CategoryInv, NEW e, CategorySays(e), category_of' = category_of
  PROVE  CategoryInv'
<1>1. /\ Known \subseteq CategoryIds /\ "None" \notin CategoryIds
      /\ e.id \in CategoryIds /\ e.category \in CategoryType
  BY CategoryFacts DEF CategorySays, CategoryEvent
<1>2. /\ Known' = Known \cup {e.id}
      /\ \A c \in CategoryIds : categories'[c] = IF c = e.id THEN e.category ELSE categories[c]
      /\ \A c \in Known : /\ categories'[c].parent = categories[c].parent
                          /\ categories'[c].level = categories[c].level
  BY SaysKnown
<1>3. categories' \in [CategoryIds -> CategoryType \cup {NoCategory}]
  BY <1>1 DEF CategorySays, CategoryInv
<1>4. \A p \in Known \cup {"None"} : LevelBelow(p)' = LevelBelow(p)
  BY <1>1, <1>2 DEF LevelBelow
<1>5. ASSUME NEW c \in Known'
      PROVE  /\ categories'[c].level <= MaxLevel
             /\ categories'[c].parent \in Known' \cup {"None"}
             /\ categories'[c].level = LevelBelow(categories[c].parent)'
  <2>1. CASE c \in Known
    <3>1. /\ categories[c].level <= MaxLevel
          /\ categories[c].parent \in Known \cup {"None"}
          /\ categories[c].level = LevelBelow(categories[c].parent)
      BY <2>1 DEF CategoryInv
    <3>2. PICK p \in Known \cup {"None"} : p = categories[c].parent /\ p = categories'[c].parent
      BY <1>2, <2>1, <3>1
    <3>3. LevelBelow(p)' = LevelBelow(p)
      BY <1>4
    <3>4. LevelBelow(categories[c].parent)' = LevelBelow(p)'
      BY <3>2 DEF LevelBelow
    <3> QED  BY <1>2, <2>1, <3>1, <3>2, <3>3, <3>4
  <2>2. CASE c \notin Known
    <3>1. c = e.id /\ categories'[c] = e.category
      BY <1>1, <1>2, <2>2
    <3>2. /\ e.category.parent \in Known \cup {"None"}
          /\ e.category.level = LevelBelow(e.category.parent) /\ e.category.level <= MaxLevel
      BY <2>2, <3>1 DEF CategorySays
    <3>3. PICK p \in Known \cup {"None"} : p = e.category.parent
      BY <3>2
    <3>4. LevelBelow(p)' = LevelBelow(p)
      BY <1>4
    <3>5. LevelBelow(categories[c].parent)' = LevelBelow(p)'
      BY <3>1, <3>3 DEF LevelBelow
    <3> QED  BY <1>2, <3>1, <3>2, <3>3, <3>4, <3>5
  <2> QED  BY <2>1, <2>2
<1>6. category_of' \in CategoryIds
  BY DEF CategoryInv
<1> QED  BY <1>3, <1>5, <1>6 DEF CategoryInv

(* Of numbers there is a least one.                                        *)
LEMMA LeastNumber ==
  ASSUME NEW T \in SUBSET Nat, T # {}
  PROVE  \E n \in T : \A m \in T : n <= m
<1>1. PICK top \in T : TRUE
  OBVIOUS
<1>2. top \in Nat /\ \A m \in T : m \in Nat
  OBVIOUS
<1>3. PICK S : S = {m \in T : m <= top}
  OBVIOUS
<1>4. S \in SUBSET Nat /\ top \in S /\ S \in SUBSET (0..top)
  <2>1. \A m \in S : m \in T /\ m <= top
    BY <1>3
  <2>2. \A m \in S : m \in Nat /\ m \in 0..top
    <3>1. ASSUME NEW m \in S PROVE m \in Nat /\ m <= top /\ top \in Nat
      BY <1>2, <2>1
    <3>2. ASSUME NEW m \in Nat, NEW n \in Nat, m <= n PROVE m \in 0..n
      BY <3>2
    <3> QED  BY <3>1, <3>2
  <2>3. top \in S
    BY <1>2, <1>3
  <2> QED  BY <2>2, <2>3
<1>5. IsFiniteSet(S)
  <2>1. IsFiniteSet(0..top)
    BY <1>2, FS_Interval
  <2> QED  BY <1>4, <2>1, FS_Subset
<1>6. Cardinality(S) \in Nat /\ Cardinality(S) # 0
  BY <1>4, <1>5, FS_CardinalityType, FS_EmptySet
<1>7. 1 \in 1..Cardinality(S)
  BY <1>6
<1>8. PICK n \in S : n = Nth(S, 1)
  BY <1>4, <1>5, <1>7, NthCounts
<1>9. /\ \A i, j \in 1..Cardinality(S) : i < j => Nth(S, i) < Nth(S, j)
      /\ \A k \in S : \E i \in 1..Cardinality(S) : Nth(S, i) = k
  BY <1>4, <1>5, NthInOrder
<1>10. ASSUME NEW m \in S PROVE n <= m
  <2>1. PICK i \in 1..Cardinality(S) : Nth(S, i) = m
    BY <1>9
  <2>2. n \in Nat /\ m \in Nat
    BY <1>4
  <2>3. CASE i = 1
    BY <1>8, <2>1, <2>2, <2>3
  <2>4. CASE i # 1
    <3>1. 1 < i
      BY <1>6, <2>4
    <3> QED  BY <1>7, <1>8, <1>9, <2>1, <2>2, <3>1
  <2> QED  BY <2>3, <2>4
<1>11. ASSUME NEW m \in T PROVE n <= m
  <2>1. m \in S \/ top < m
    BY <1>2, <1>3
  <2>2. n <= top
    BY <1>4, <1>10
  <2>3. n \in Nat
    BY <1>4
  <2> QED  BY <1>2, <1>10, <2>1, <2>2, <2>3
<1>12. n \in T
  BY <1>3
<1> QED  BY <1>11, <1>12

------------------------------------------------------------------------------
(***************************************************************************)
(* Breadcrumbs.                                                            *)
(***************************************************************************)
NodeType == [name : Names, parent : CategoryIds \cup {"None"}, breadcrumb : Seq(Names), order : Nat,
             is_active : BOOLEAN, product_count : Nat]

TreeRow == [CategoryIds -> NodeType \cup {NoNode}]

NodesIn(r) == {c \in CategoryIds : r[c] # NoNode}

(* The tree shows every node's parent.                                     *)
Rooted(r) ==
  \A c \in NodesIn(r) : /\ c \in Known /\ r[c].parent = categories[c].parent
                        /\ r[c].parent \in NodesIn(r) \cup {"None"}

(* What above is to be in Breadcrumb.                                      *)
NamesAbove(r, f) ==
  f = [c \in CategoryIds \cup {"None"} |->
         IF c = "None" \/ r[c] = NoNode THEN << >> ELSE Append(f[r[c].parent], r[c].name)]

LEMMA BreadcrumbIs ==
  ASSUME NEW r, NEW f, NamesAbove(r, f)
  PROVE  \E g : /\ NamesAbove(r, g)
                /\ \A parent, name : Breadcrumb(r, parent, name) = Append(g[parent], name)
BY Zenon DEF Breadcrumb, NamesAbove

Depth(r, c) == IF c \in NodesIn(r) THEN categories[c].level + 1 ELSE 0

LEMMA DepthFacts ==
  ASSUME CategoryInv, NEW r \in TreeRow, Rooted(r)
  PROVE  /\ \A c : Depth(r, c) \in Nat /\ Depth(r, c) <= MaxLevel + 1
         /\ \A c \in NodesIn(r) : /\ r[c] \in NodeType
                                  /\ Depth(r, r[c].parent) = Depth(r, c) - 1 /\ Depth(r, c) # 0
         /\ \A p \in NodesIn(r) \cup {"None"} : LevelBelow(p) = Depth(r, p)
         /\ "None" \notin NodesIn(r)
<1>1. /\ Known \subseteq CategoryIds /\ "None" \notin CategoryIds /\ MaxLevel \in Nat
      /\ \A c \in CategoryIds : c \in Known <=> categories[c] \in CategoryType
  BY CategoryFacts
<1>2. "None" \notin NodesIn(r) /\ \A c \in NodesIn(r) : c \in Known /\ c # "None"
  BY <1>1 DEF NodesIn, Rooted
<1>3. \A c \in Known : categories[c].level \in Nat /\ categories[c].level <= MaxLevel
  <2>1. \A x \in CategoryType : x.level \in Nat
    BY DEF CategoryType
  <2> QED  BY <1>1, <2>1 DEF CategoryInv
<1>4. \A c : Depth(r, c) \in Nat /\ Depth(r, c) <= MaxLevel + 1
  BY <1>1, <1>2, <1>3 DEF Depth
<1>5. \A p \in NodesIn(r) \cup {"None"} : LevelBelow(p) = Depth(r, p)
  BY <1>2 DEF LevelBelow, Depth
<1>6. ASSUME NEW c \in NodesIn(r)
      PROVE  r[c] \in NodeType /\ Depth(r, r[c].parent) = Depth(r, c) - 1 /\ Depth(r, c) # 0
  <2>1. r[c] \in NodeType
    BY DEF NodesIn, TreeRow
  <2>2. /\ c \in Known /\ r[c].parent = categories[c].parent
        /\ r[c].parent \in NodesIn(r) \cup {"None"}
    BY DEF Rooted
  <2>3. categories[c].level = LevelBelow(r[c].parent)
    BY <2>2 DEF CategoryInv
  <2>4. Depth(r, c) = categories[c].level + 1 /\ categories[c].level \in Nat
    BY <1>3, <2>2 DEF Depth
  <2> QED  BY <1>5, <2>1, <2>2, <2>3, <2>4
<1> QED  BY <1>2, <1>4, <1>5, <1>6

(* The recursion is well founded, for it goes up one level at a time.      *)
LEMMA NamesAboveExist ==
  ASSUME CategoryInv, NEW r \in TreeRow, Rooted(r)
  PROVE  \E f : NamesAbove(r, f)
<1> DEFINE D == CategoryIds \cup {"None"}
           Upto(n) == {c \in D : Depth(r, c) <= n}
           Good(n) == \E f \in [Upto(n) -> Seq(Names)] :
                        \A c \in Upto(n) :
                          f[c] = IF c \in NodesIn(r) THEN Append(f[r[c].parent], r[c].name) ELSE << >>
           T == {n \in Nat : ~Good(n)}
<1>1. /\ \A c : Depth(r, c) \in Nat /\ Depth(r, c) <= MaxLevel + 1
      /\ \A c \in NodesIn(r) : /\ r[c] \in NodeType
                               /\ Depth(r, r[c].parent) = Depth(r, c) - 1 /\ Depth(r, c) # 0
      /\ "None" \notin NodesIn(r)
  BY DepthFacts
<1>2. \A c \in NodesIn(r) : r[c].parent \in D /\ r[c].name \in Names
  BY <1>1 DEF NodeType
<1>3. Good(0)
  <2> DEFINE f == [c \in Upto(0) |-> << >>]
  <2>1. f \in [Upto(0) -> Seq(Names)]
    OBVIOUS
  <2>2. ASSUME NEW c \in Upto(0) PROVE c \notin NodesIn(r) /\ f[c] = << >>
    BY <1>1
  <2> HIDE DEF f, Upto
  <2>3. \A c \in Upto(0) :
          f[c] = IF c \in NodesIn(r) THEN Append(f[r[c].parent], r[c].name) ELSE << >>
    BY <2>2
  <2> QED  BY <2>1, <2>3
<1>4. ASSUME NEW n \in Nat, n # 0, Good(n - 1) PROVE Good(n)
  <2>1. PICK f \in [Upto(n - 1) -> Seq(Names)] :
          \A c \in Upto(n - 1) :
            f[c] = IF c \in NodesIn(r) THEN Append(f[r[c].parent], r[c].name) ELSE << >>
    BY <1>4
  <2> DEFINE g == [c \in Upto(n) |-> IF c \in Upto(n - 1) THEN f[c]
                                     ELSE Append(f[r[c].parent], r[c].name)]
  <2>2. /\ \A c \in Upto(n) : c \in Upto(n - 1) \/ c \in NodesIn(r)
        /\ \A c \in Upto(n) : c \in NodesIn(r) => r[c].parent \in Upto(n - 1)
        /\ Upto(n - 1) \subseteq Upto(n)
    <3>1. ASSUME NEW c \in Upto(n)
          PROVE  /\ c \in Upto(n - 1) \/ c \in NodesIn(r)
                 /\ c \in NodesIn(r) => r[c].parent \in Upto(n - 1)
      <4>1. Depth(r, c) \in Nat /\ Depth(r, c) <= n /\ c \in D
        BY <1>1
      <4>2. c \notin NodesIn(r) => Depth(r, c) = 0
        BY DEF Depth
      <4>3. c \notin NodesIn(r) => c \in Upto(n - 1)
        BY <1>4, <4>1, <4>2
      <4>4. ASSUME c \in NodesIn(r) PROVE r[c].parent \in Upto(n - 1)
        <5>1. r[c].parent \in D /\ Depth(r, r[c].parent) = Depth(r, c) - 1
          BY <1>1, <1>2, <4>4
        <5> QED  BY <4>1, <5>1
      <4> QED  BY <4>3, <4>4
    <3>2. ASSUME NEW c \in Upto(n - 1) PROVE c \in Upto(n)
      <4>1. Depth(r, c) \in Nat /\ Depth(r, c) <= n - 1
        BY <1>1
      <4> QED  BY <4>1
    <3> QED  BY <3>1, <3>2
  <2> HIDE DEF Upto
  <2>3. g \in [Upto(n) -> Seq(Names)]
    <3>1. ASSUME NEW c \in Upto(n), c \notin Upto(n - 1)
          PROVE  Append(f[r[c].parent], r[c].name) \in Seq(Names)
      <4>1. f[r[c].parent] \in Seq(Names) /\ r[c].name \in Names
        BY <1>2, <2>1, <2>2, <3>1
      <4> QED  BY <4>1
    <3> QED  BY <2>1, <3>1
  <2>4. /\ \A c \in Upto(n - 1) : g[c] = f[c]
        /\ \A c \in Upto(n) : c \notin Upto(n - 1) => g[c] = Append(f[r[c].parent], r[c].name)
    BY <2>2
  <2> HIDE DEF g
  <2>5. ASSUME NEW c \in Upto(n)
        PROVE  g[c] = IF c \in NodesIn(r) THEN Append(g[r[c].parent], r[c].name) ELSE << >>
    <3>1. c \in NodesIn(r) => g[r[c].parent] = f[r[c].parent]
      BY <2>2, <2>4
    <3> QED  BY <2>1, <2>2, <2>4, <3>1
  <2> QED  BY <2>3, <2>5
<1>5. ASSUME NEW n \in Nat PROVE Good(n)
  <2> HIDE DEF Good
  <2>1. ASSUME T # {} PROVE FALSE
    <3>1. PICK k \in T : \A m \in T : k <= m
      BY <2>1, LeastNumber
    <3>2. k \in Nat /\ ~Good(k) /\ k # 0
      BY <1>3
    <3>3. k - 1 \in Nat /\ ~(k <= k - 1)
      BY <3>2
    <3>4. k - 1 \notin T
      BY <3>1, <3>3
    <3> QED  BY <1>4, <3>2, <3>3, <3>4
  <2> QED  BY <2>1
<1>6. MaxLevel + 1 \in Nat /\ Upto(MaxLevel + 1) = D
  BY <1>1, CategoriesAssumption
<1>7. PICK f \in [D -> Seq(Names)] :
        \A c \in D : f[c] = IF c \in NodesIn(r) THEN Append(f[r[c].parent], r[c].name) ELSE << >>
  <2>1. Good(MaxLevel + 1)
    BY <1>5, <1>6
  <2> QED  BY <1>6, <2>1
<1>8. \A c \in D : c \in NodesIn(r) <=> ~(c = "None" \/ r[c] = NoNode)
  BY <1>1 DEF NodesIn
<1>9. f = [c \in D |-> IF c = "None" \/ r[c] = NoNode THEN << >> ELSE Append(f[r[c].parent], r[c].name)]
  BY <1>7, <1>8
<1> QED  BY <1>9 DEF NamesAbove

(* A breadcrumb is as long as its node is deep.                            *)
LEMMA BreadcrumbGoesUp ==
  ASSUME CategoryInv, NEW r \in TreeRow, Rooted(r), NEW p \in NodesIn(r) \cup {"None"},
         NEW name \in Names, NEW b, b = Breadcrumb(r, p, name)
  PROVE  b \in Seq(Names) /\ Len(b) = LevelBelow(p) + 1 /\ b[Len(b)] = name
<1> DEFINE D == CategoryIds \cup {"None"}
<1>1. /\ \A c : Depth(r, c) \in Nat
      /\ \A c \in NodesIn(r) : /\ r[c] \in NodeType
                               /\ Depth(r, r[c].parent) = Depth(r, c) - 1 /\ Depth(r, c) # 0
      /\ \A q \in NodesIn(r) \cup {"None"} : LevelBelow(q) = Depth(r, q)
      /\ "None" \notin NodesIn(r)
  BY DepthFacts
<1>2. PICK f : NamesAbove(r, f)
  BY NamesAboveExist
<1>3. PICK g : NamesAbove(r, g) /\ \A q, n : Breadcrumb(r, q, n) = Append(g[q], n)
  BY <1>2, BreadcrumbIs
<1>4. \A c \in D : c \in NodesIn(r) <=> ~(c = "None" \/ r[c] = NoNode)
  BY <1>1 DEF NodesIn
<1>5. \A c \in D : g[c] = IF c \in NodesIn(r) THEN Append(g[r[c].parent], r[c].name) ELSE << >>
  <2>1. g = [c \in D |-> IF c = "None" \/ r[c] = NoNode THEN << >> ELSE Append(g[r[c].parent], r[c].name)]
    BY <1>3 DEF NamesAbove
  <2>2. \A c \in D : g[c] = IF c = "None" \/ r[c] = NoNode THEN << >>
                            ELSE Append(g[r[c].parent], r[c].name)
    BY <2>1, Zenon
  <2> QED  BY <1>4, <2>2
<1>6. \A c \in NodesIn(r) : r[c].parent \in D /\ r[c].name \in Names /\ c \in D
  BY <1>1 DEF NodeType, NodesIn
<1> DEFINE Good(c) == g[c] \in Seq(Names) /\ Len(g[c]) = Depth(r, c)
           T == {n \in Nat : \E c \in D : Depth(r, c) = n /\ ~Good(c)}
<1>7. \A c \in D : Good(c)
  <2>1. ASSUME T # {} PROVE FALSE
    <3>1. PICK n \in T : \A m \in T : n <= m
      BY <2>1, LeastNumber
    <3>2. PICK c \in D : Depth(r, c) = n /\ ~Good(c) /\ n \in Nat
      OBVIOUS
    <3>3. c \in NodesIn(r)
      <4>1. ASSUME c \notin NodesIn(r) PROVE Good(c)
        <5>1. g[c] = << >> /\ Depth(r, c) = 0
          BY <1>5, <4>1 DEF Depth
        <5>2. << >> \in Seq(Names) /\ Len(<< >>) = 0
          OBVIOUS
        <5> QED  BY <5>1, <5>2
      <4> HIDE DEF Good
      <4> QED  BY <3>2, <4>1
    <3>4. PICK q \in D : q = r[c].parent /\ Depth(r, q) = n - 1 /\ n # 0 /\ r[c].name \in Names
      BY <1>1, <1>6, <3>2, <3>3
    <3>5. n - 1 \in Nat /\ ~(n <= n - 1)
      BY <3>2, <3>4
    <3>6. n - 1 \notin T
      BY <3>1, <3>5
    <3>7. Good(q)
      BY <3>4, <3>5, <3>6
    <3>8. g[c] = Append(g[q], r[c].name)
      BY <1>5, <3>3, <3>4
    <3>9. g[c] \in Seq(Names) /\ Len(g[c]) = (n - 1) + 1
      BY <3>4, <3>7, <3>8
    <3>10. Good(c)
      BY <3>2, <3>9
    <3> HIDE DEF Good
    <3> QED  BY <3>2, <3>10
  <2> HIDE DEF Good
  <2> QED  BY <1>1, <2>1
<1>8. p \in D /\ Depth(r, p) = LevelBelow(p)
  BY <1>1 DEF NodesIn
<1>9. g[p] \in Seq(Names) /\ Len(g[p]) = LevelBelow(p)
  BY <1>7, <1>8
<1>10. b = Append(g[p], name)
  BY <1>3
<1> QED  BY <1>9, <1>10

(* Which categories a projector has been told of: of one after its parent, *)
(* and of everything else after that.  While nothing is handled twice it   *)
(* is told once.                                                           *)
KnownSteps ==
  {t \in (SUBSET CategoryIds) \X CategoryEvent \X (SUBSET CategoryIds) :
     IF t[2].type = "CategoryCreated"
     THEN t[2].category.parent \in t[1] \cup {"None"} /\ t[3] = t[1] \cup {t[2].id}
     ELSE t[2].id \in t[1] /\ t[3] = t[1]}

FreshSteps == {t \in KnownSteps : t[2].type = "CategoryCreated" => t[2].id \notin t[1]}

(* What of a category changes and is shown.                                *)
TermsType == [name : Names \cup {"none"}, order : Nat, is_active : BOOLEAN]

NoTerms == [name |-> "none", order |-> 0, is_active |-> FALSE]

TermsOf(x) == [name |-> x.name, order |-> x.order, is_active |-> x.is_active]

TermsAfter(x, e) ==
  [name |-> IF e.type \in {"CategoryCreated", "CategoryDetailsUpdated"} THEN e.category.name
            ELSE x.name,
   order |-> IF e.type = "CategoryCreated" THEN 0
             ELSE IF e.type = "CategoryReordered" THEN e.category.order ELSE x.order,
   is_active |-> e.type = "CategoryCreated" \/ (e.type # "CategoryDeactivated" /\ x.is_active)]

TermSteps(c) ==
  {t \in TermsType \X CategoryEvent \X TermsType :
     t[3] = IF t[2].id = c THEN TermsAfter(t[1], t[2]) ELSE t[1]}

LEMMA TermsAfterTerms ==
  ASSUME NEW x \in TermsType, NEW e \in CategoryEvent
  PROVE  /\ TermsAfter(x, e) \in TermsType
         /\ TermsAfter(TermsAfter(x, e), e) = TermsAfter(x, e)
         /\ e.category \in CategoryType
         /\ e.type \in {"CategoryCreated", "CategoryDetailsUpdated", "CategoryReordered",
                        "CategoryDeactivated"}
<1>1. /\ e.category \in CategoryType
      /\ e.type \in {"CategoryCreated", "CategoryDetailsUpdated", "CategoryReordered",
                        "CategoryDeactivated"}
  BY DEF CategoryEvent
<1>2. e.category.name \in Names /\ e.category.order \in Nat /\ e.category.is_active \in BOOLEAN
  BY <1>1 DEF CategoryType
<1>3. x.name \in Names \cup {"none"} /\ x.order \in Nat /\ x.is_active \in BOOLEAN
  BY DEF TermsType
<1>4. PICK n, o, a : n = TermsAfter(x, e).name /\ o = TermsAfter(x, e).order
                     /\ a = TermsAfter(x, e).is_active
  OBVIOUS
<1>5. /\ n = (IF e.type \in {"CategoryCreated", "CategoryDetailsUpdated"} THEN e.category.name
              ELSE x.name)
      /\ o = (IF e.type = "CategoryCreated" THEN 0
              ELSE IF e.type = "CategoryReordered" THEN e.category.order ELSE x.order)
      /\ a = (e.type = "CategoryCreated" \/ (e.type # "CategoryDeactivated" /\ x.is_active))
  BY <1>4 DEF TermsAfter
<1>6. TermsAfter(x, e) = [name |-> n, order |-> o, is_active |-> a]
  BY <1>5, Zenon DEF TermsAfter
<1>7. n \in Names \cup {"none"} /\ o \in Nat /\ a \in BOOLEAN
  BY <1>2, <1>3, <1>5
<1>8. TermsAfter(x, e) \in TermsType
  BY <1>6, <1>7 DEF TermsType
<1>9. TermsAfter([name |-> n, order |-> o, is_active |-> a], e) =
        [name |-> n, order |-> o, is_active |-> a]
  BY <1>5, <1>7 DEF TermsAfter
<1> QED  BY <1>1, <1>6, <1>8, <1>9

(* A category's event is published.                                        *)
LEMMA CategorySaysLead ==
  ASSUME CategoryInv, NEW e, CategorySays(e), category_unread \in Seq(CategoryEvent),
         category_unread' = Append(category_unread, e), NEW x
  PROVE  /\ category_unread' \in Seq(CategoryEvent)
         /\ Leads(KnownSteps, x, category_unread, Known) =>
              Leads(KnownSteps, x, category_unread', Known')
         /\ Leads(FreshSteps, x, category_unread, Known) =>
              Leads(FreshSteps, x, category_unread', Known')
         /\ \A c \in CategoryIds :
              Leads(TermSteps(c), x, category_unread, TermsOf(categories[c])) =>
                Leads(TermSteps(c), x, category_unread', TermsOf(categories'[c]))
<1>1. /\ e \in CategoryEvent /\ Known' = Known \cup {e.id}
      /\ \A c \in CategoryIds : categories'[c] = IF c = e.id THEN e.category ELSE categories[c]
      /\ Known \in SUBSET CategoryIds /\ e.id \in CategoryIds
      /\ \A c \in CategoryIds : c \in Known <=> categories[c] \in CategoryType
      /\ \A c \in CategoryIds : c \notin Known => categories[c] = NoCategory
      /\ e.category \in CategoryType
  BY SaysKnown, CategoryFacts DEF CategorySays, CategoryEvent
<1>2. category_unread' = category_unread \o <<e>>
  BY <1>1
<1>3. <<Known, e, Known'>> \in FreshSteps /\ <<Known, e, Known'>> \in KnownSteps
  <2>1. Known' \in SUBSET CategoryIds
    BY <1>1
  <2>2. <<Known, e, Known'>> \in KnownSteps
    <3>1. e.type = "CategoryCreated" => e.category.parent \in Known \cup {"None"}
      BY DEF CategorySays
    <3>2. e.type # "CategoryCreated" => e.id \in Known /\ Known' = Known
      BY <1>1 DEF CategorySays
    <3> QED  BY <1>1, <2>1, <3>1, <3>2 DEF KnownSteps
  <2>3. e.type = "CategoryCreated" => e.id \notin Known
    BY DEF CategorySays
  <2> QED  BY <2>2, <2>3 DEF FreshSteps
<1>4. ASSUME NEW c \in CategoryIds
      PROVE  <<TermsOf(categories[c]), e, TermsOf(categories'[c])>> \in TermSteps(c)
  <2>1. \A y \in CategoryType : TermsOf(y) \in TermsType
    BY DEF TermsOf, TermsType, CategoryType
  <2>2. TermsOf(NoCategory) \in TermsType
    BY DEF TermsOf, TermsType, NoCategory
  <2>3. TermsOf(categories[c]) \in TermsType /\ TermsOf(categories'[c]) \in TermsType
    BY <1>1, <2>1, <2>2
  <2>4. PICK a, b : a = TermsOf(categories[c]) /\ b = TermsOf(categories'[c])
    OBVIOUS
  <2>5. c = e.id => b = TermsAfter(a, e)
    <3> SUFFICES ASSUME c = e.id PROVE b = TermsAfter(a, e)
      OBVIOUS
    <3>1. b = TermsOf(e.category)
      BY <1>1, <2>4
    <3>2. e.category.name \in Names /\ e.category.order \in Nat /\ e.category.is_active \in BOOLEAN
      BY <1>1 DEF CategoryType
    <3>3. a.name = categories[c].name /\ a.order = categories[c].order
          /\ a.is_active = categories[c].is_active
      BY <2>4 DEF TermsOf
    <3>4. e.type \in {"CategoryCreated", "CategoryDetailsUpdated", "CategoryReordered",
                      "CategoryDeactivated"}
      BY <1>1 DEF CategoryEvent
    <3>5. CASE e.type = "CategoryCreated"
      <4>1. e.category.order = 0 /\ e.category.is_active = TRUE
        BY <3>2, <3>5 DEF CategorySays
      <4>2. b = [name |-> e.category.name, order |-> 0, is_active |-> TRUE]
        BY <3>1, <4>1 DEF TermsOf
      <4>3. TermsAfter(a, e) = [name |-> e.category.name, order |-> 0, is_active |-> TRUE]
        BY <3>5 DEF TermsAfter
      <4> QED  BY <4>2, <4>3
    <3>6. CASE e.type # "CategoryCreated"
      <4>1. /\ e.type # "CategoryDetailsUpdated" => e.category.name = a.name
            /\ e.type # "CategoryReordered" => e.category.order = a.order
            /\ e.category.is_active <=> (e.type # "CategoryDeactivated" /\ a.is_active)
        BY <3>3, <3>6 DEF CategorySays
      <4>2. PICK n, o, l : /\ n = e.category.name /\ o = e.category.order /\ l = e.category.is_active
                           /\ l \in BOOLEAN
        BY <3>2
      <4>3. /\ n = (IF e.type = "CategoryDetailsUpdated" THEN e.category.name ELSE a.name)
            /\ o = (IF e.type = "CategoryReordered" THEN e.category.order ELSE a.order)
            /\ l = (e.type # "CategoryDeactivated" /\ a.is_active)
        BY <4>1, <4>2
      <4>4. TermsAfter(a, e) = [name |-> n, order |-> o, is_active |-> l]
        BY <3>4, <3>6, <4>3 DEF TermsAfter
      <4>5. b = [name |-> n, order |-> o, is_active |-> l]
        BY <3>1, <4>2 DEF TermsOf
      <4> QED  BY <4>4, <4>5
    <3> QED  BY <3>5, <3>6
  <2>6. c # e.id => b = a
    BY <1>1, <2>4
  <2>7. <<a, e, b>> \in TermSteps(c)
    BY <1>1, <2>3, <2>4, <2>5, <2>6 DEF TermSteps
  <2> QED  BY <2>4, <2>7
<1>5. category_unread' \in Seq(CategoryEvent)
  BY <1>1
<1>6. \A steps, y, z : Leads(steps, x, category_unread, y) /\ <<y, e, z>> \in steps =>
                        Leads(steps, x, category_unread', z)
  <2>1. PICK events \in Seq(CategoryEvent) : events = category_unread
    OBVIOUS
  <2>2. e \in CategoryEvent
    BY <1>1
  <2>3. \A steps, y, z : Leads(steps, x, events, y) /\ <<y, e, z>> \in steps =>
                         Leads(steps, x, events \o <<e>>, z)
    BY <2>2, LeadsMore
  <2> QED  BY <1>2, <2>1, <2>3
<1>7. ASSUME NEW c \in CategoryIds, Leads(TermSteps(c), x, category_unread, TermsOf(categories[c]))
      PROVE  Leads(TermSteps(c), x, category_unread', TermsOf(categories'[c]))
  BY <1>4, <1>6, <1>7, Zenon
<1>8. /\ Leads(KnownSteps, x, category_unread, Known) =>
           Leads(KnownSteps, x, category_unread', Known')
      /\ Leads(FreshSteps, x, category_unread, Known) =>
           Leads(FreshSteps, x, category_unread', Known')
  BY <1>3, <1>6, Zenon
<1> QED  BY <1>5, <1>7, <1>8, Zenon

(* S is what a projector was told of.                                      *)
ToldOf(S) ==
  /\ S \in SUBSET CategoryIds
  /\ Leads(KnownSteps, S, category_unread, Known)
  /\ ~redelivered => Leads(FreshSteps, S, category_unread, Known)

(* No event moves a category.                                              *)
UnreadParents ==
  \A k \in 1..Len(category_unread) :
    LET e == category_unread[k] IN
    e.id \in Known /\ e.category.parent = categories[e.id].parent

(* The product's creation is its first event, and may be unread.           *)
Pending == \E k \in 1..Len(unread) : unread[k].type = "ProductCreated"

CreatedFirst == \A k \in 2..Len(unread) : unread[k].type # "ProductCreated"

(* The tree.                                                               *)
TermsShown(r, c) == IF r[c] = NoNode THEN NoTerms ELSE TermsOf(r[c])

TermsLeadOn(r) ==
  \A c \in CategoryIds : Leads(TermSteps(c), TermsShown(r, c), category_unread, TermsOf(categories[c]))

Breadcrumbs(r) ==
  \A c \in NodesIn(r) : /\ Len(r[c].breadcrumb) = categories[c].level + 1
                        /\ r[c].breadcrumb[Len(r[c].breadcrumb)] = r[c].name

TreeCounts(r) ==
  ~redelivered /\ ~overtook =>
    /\ ~Pending => category_of \in NodesIn(r)
    /\ \A c \in NodesIn(r) : r[c].product_count = IF c = category_of /\ ~Pending THEN 1 ELSE 0

TreeLeads(r) ==
  r \in TreeRow /\ Rooted(r) /\ ToldOf(NodesIn(r)) /\ TermsLeadOn(r) /\ Breadcrumbs(r) /\ TreeCounts(r)

(* The products of the category.                                           *)
ListedStatuses == {"Draft", "active", "discontinued", "archived"}

ListEntry == [title : Names, status : ListedStatuses]

ListRow == [exists : BOOLEAN, products : Seq(ListEntry)]

NewEntry == [title |-> "old", status |-> "Draft"]

SpelledSteps ==
  {t \in ListedStatuses \X ProductEvent \X ListedStatuses :
     t[3] = IF t[2].type \in StatusChanges THEN StatusListed[t[2].type] ELSE t[1]}

EntryFollows(x) ==
  /\ Leads(TitleSteps, x.title, unread, title)
  /\ Leads(SpelledSteps, x.status, unread, Spelled[product])

ListCounts(r) ==
  ~redelivered =>
    /\ ~Pending /\ ~overtook => r.exists
    /\ Len(r.products) = IF r.exists /\ ~Pending /\ ~overtook THEN 1 ELSE 0

ListTold(r) == \E S : ToldOf(S) /\ (r.exists <=> category_of \in S)

ListLeads(r) ==
  /\ r \in ListRow
  /\ ListTold(r)
  /\ \A k \in DOMAIN r.products : EntryFollows(r.products[k])
  /\ Pending => EntryFollows(NewEntry)
  /\ ListCounts(r)

CategoryViewInv ==
  /\ ProductInv /\ CategoryInv /\ view \in CategoryViews
  /\ unread \in Seq(ProductEvent) /\ CreatedFirst
  /\ category_unread \in Seq(CategoryEvent) /\ UnreadParents
  /\ ~redelivered /\ Pending => ~overtook
  /\ view = "category_tree" => TreeLeads(row)
  /\ view = "category_products" => ListLeads(row)

(* A command of the product.                                               *)
LEMMA ProductCommandKeepsCategoryViews ==
  ASSUME CategoryViewInv, ProductCommand, UNCHANGED <<category_vars, category_unread, overtook>>
  PROVE  CategoryViewInv'
<1>1. PICK e \in ProductEvent : ProductSays(e) /\ Publish(<<e>>)
  BY CommandSays DEF CategoryViewInv
<1>2. /\ ProductInv /\ CategoryInv /\ view \in CategoryViews /\ view # "none"
      /\ unread \in Seq(ProductEvent) /\ e.type # "ProductCreated"
  BY <1>1 DEF CategoryViewInv, CategoryViews, ProductSays
<1>3. /\ unread' = unread \o <<e>> /\ view' = view /\ row' = row /\ redelivered' = redelivered
      /\ categories' = categories /\ category_of' = category_of
      /\ category_unread' = category_unread /\ overtook' = overtook
  BY <1>1, <1>2 DEF Publish, category_vars
<1>4. ProductInv'
  BY <1>1, <1>2, SaysKeeps
<1>5. Known' = Known
  BY <1>3 DEF Known
<1>6. CategoryInv' /\ UnreadParents'
  BY <1>3, <1>5 DEF CategoryViewInv, CategoryInv, LevelBelow, UnreadParents
<1>7. /\ Len(unread) \in Nat /\ Len(unread') = Len(unread) + 1 /\ unread'[Len(unread) + 1] = e
      /\ \A k \in 1..Len(unread) : unread'[k] = unread[k]
      /\ unread' \in Seq(ProductEvent)
  BY <1>2, <1>3
<1>8. (Pending' <=> Pending) /\ CreatedFirst'
  <2>1. \A k \in 1..(Len(unread) + 1) : k \in 1..Len(unread) \/ k = Len(unread) + 1
    BY <1>7
  <2>2. Pending' <=> Pending
    BY <1>2, <1>7, <2>1 DEF Pending
  <2>3. CreatedFirst
    BY DEF CategoryViewInv
  <2>4. ASSUME NEW k \in 2..Len(unread') PROVE unread'[k].type # "ProductCreated"
    <3>1. k \in 2..Len(unread) \/ k = Len(unread) + 1
      BY <1>7
    <3>2. CASE k \in 2..Len(unread)
      <4>1. k \in 1..Len(unread)
        BY <1>7, <3>2
      <4> QED  BY <1>7, <2>3, <3>2, <4>1 DEF CreatedFirst
    <3> QED  BY <1>2, <1>7, <3>1, <3>2
  <2> QED  BY <2>2, <2>4 DEF CreatedFirst
<1>9. \A S : ToldOf(S) => ToldOf(S)'
  BY <1>3, <1>5 DEF ToldOf
<1>10. TreeLeads(row) => TreeLeads(row)'
  <2>1. TermsLeadOn(row) => TermsLeadOn(row)'
    BY <1>3 DEF TermsLeadOn, TermsShown
  <2>2. Breadcrumbs(row) => Breadcrumbs(row)'
    BY <1>3 DEF Breadcrumbs, NodesIn
  <2>3. TreeCounts(row) => TreeCounts(row)'
    BY <1>3, <1>8 DEF TreeCounts, NodesIn
  <2>4. Rooted(row) => Rooted(row)'
    BY <1>3, <1>5 DEF Rooted, NodesIn
  <2>5. PICK S : S = NodesIn(row) /\ S = NodesIn(row)'
    BY <1>3 DEF NodesIn
  <2>6. ToldOf(NodesIn(row)) => ToldOf(NodesIn(row))'
    <3>1. ToldOf(S) => ToldOf(S)'
      BY <1>9
    <3> QED  BY <2>5, <3>1 DEF ToldOf
  <2> QED  BY <1>3, <2>1, <2>2, <2>3, <2>4, <2>6 DEF TreeLeads
<1>11. ASSUME NEW x, EntryFollows(x) PROVE EntryFollows(x)'
  <2>1. PICK t, s : t = x.title /\ s = x.status
    OBVIOUS
  <2>2. Leads(TitleSteps, t, unread', title')
    BY <1>1, <1>2, <1>3, <1>11, <2>1, SaysLead DEF EntryFollows
  <2>3. <<Spelled[product], e, Spelled[product']>> \in SpelledSteps
    <3>1. /\ product \in ProductStatuses /\ product' \in ProductStatuses
          /\ product' = IF e.type \in StatusChanges THEN StatusSet[e.type] ELSE product
      BY <1>1, <1>2, <1>4 DEF ProductInv, ProductSays, StatusSays
    <3>2. /\ \A y \in ProductStatuses : Spelled[y] \in ListedStatuses
          /\ \A y \in StatusChanges : Spelled[StatusSet[y]] = StatusListed[y]
      BY DEF ProductStatuses, Spelled, ListedStatuses, StatusChanges, StatusSet, StatusListed
    <3> QED  BY <1>1, <3>1, <3>2 DEF SpelledSteps
  <2>4. Leads(SpelledSteps, s, unread', Spelled[product'])
    <3>1. Leads(SpelledSteps, s, unread, Spelled[product])
      BY <1>11, <2>1 DEF EntryFollows
    <3> QED  BY <1>1, <1>2, <1>3, <2>3, <3>1, LeadsMore
  <2> QED  BY <2>1, <2>2, <2>4 DEF EntryFollows
<1>12. ListLeads(row) => ListLeads(row)'
  <2>1. ListTold(row) => ListTold(row)'
    BY <1>3, <1>9 DEF ListTold
  <2>2. ListCounts(row) => ListCounts(row)'
    BY <1>3, <1>8 DEF ListCounts
  <2>3. ASSUME NEW k, EntryFollows(row.products[k]) PROVE EntryFollows(row.products[k])'
    <3>1. PICK x : x = row.products[k]
      OBVIOUS
    <3>2. EntryFollows(x)'
      BY <1>11, <2>3, <3>1
    <3> QED  BY <1>3, <3>1, <3>2 DEF EntryFollows
  <2>4. EntryFollows(NewEntry) => EntryFollows(NewEntry)'
    BY <1>11
  <2> QED  BY <1>3, <1>8, <2>1, <2>2, <2>3, <2>4 DEF ListLeads
<1>13. /\ view' \in CategoryViews /\ category_unread' \in Seq(CategoryEvent)
       /\ ~redelivered' /\ Pending' => ~overtook'
       /\ view' = "category_tree" => TreeLeads(row)'
       /\ view' = "category_products" => ListLeads(row)'
  BY <1>3, <1>8, <1>10, <1>12 DEF CategoryViewInv
<1> QED  BY <1>4, <1>6, <1>7, <1>8, <1>13, Zenon DEF CategoryViewInv

(* A command of a category.                                                *)
LEMMA CategoryCommandKeepsCategoryViews ==
  ASSUME CategoryViewInv, CategoryCommand
  PROVE  CategoryViewInv'
<1>1. PICK e \in CategoryEvent :
        /\ CategorySays(e) /\ category_unread' = Append(category_unread, e)
        /\ UNCHANGED <<catalogue_vars, category_of, overtook>>
  BY CategoryCommandSays DEF CategoryViewInv
<1>2. /\ CategoryInv /\ category_unread \in Seq(CategoryEvent)
      /\ product' = product /\ title' = title /\ variants' = variants /\ images' = images
      /\ view' = view /\ row' = row /\ unread' = unread /\ redelivered' = redelivered
      /\ category_of' = category_of /\ overtook' = overtook
  BY <1>1 DEF CategoryViewInv, catalogue_vars, product_vars, read_vars
<1>3. ProductInv'
  <2>1. Offered' = Offered /\ Shown' = Shown /\ Primary' = Primary
    BY <1>2 DEF Offered, Shown, Primary
  <2> QED  BY <1>2, <2>1 DEF CategoryViewInv, ProductInv
<1>4. CategoryInv' /\ category_unread' \in Seq(CategoryEvent)
  BY <1>1, <1>2, SaysKeepsCategories
<1>5. /\ Known' = Known \cup {e.id}
      /\ \A c \in CategoryIds : categories'[c] = IF c = e.id THEN e.category ELSE categories[c]
      /\ \A c \in Known : /\ categories'[c].parent = categories[c].parent
                          /\ categories'[c].level = categories[c].level
      /\ Known \subseteq CategoryIds /\ e.id \in CategoryIds
  BY <1>1, <1>2, SaysKnown, CategoryFacts DEF CategoryEvent
<1>6. (Pending' <=> Pending) /\ CreatedFirst'
  BY <1>2 DEF Pending, CategoryViewInv, CreatedFirst
<1>7. UnreadParents'
  <2>1. /\ Len(category_unread) \in Nat /\ Len(category_unread') = Len(category_unread) + 1
        /\ category_unread'[Len(category_unread) + 1] = e
        /\ \A k \in 1..Len(category_unread) : category_unread'[k] = category_unread[k]
    BY <1>1, <1>2
  <2>2. e.id \in Known' /\ e.category.parent = categories'[e.id].parent
    BY <1>5
  <2>3. ASSUME NEW k \in 1..Len(category_unread'), NEW x, x = category_unread'[k]
        PROVE  x.id \in Known' /\ x.category.parent = categories'[x.id].parent
    <3>1. CASE k = Len(category_unread) + 1
      BY <2>1, <2>2, <2>3, <3>1
    <3>2. CASE k # Len(category_unread) + 1
      <4>1. k \in 1..Len(category_unread) /\ x = category_unread[k]
        BY <2>1, <2>3, <3>2
      <4>2. x.id \in Known /\ x.category.parent = categories[x.id].parent
        BY <4>1 DEF CategoryViewInv, UnreadParents
      <4> QED  BY <1>5, <4>2
    <3> QED  BY <3>1, <3>2
  <2> QED  BY <2>3 DEF UnreadParents
<1>8. ASSUME NEW S, ToldOf(S) PROVE ToldOf(S)'
  BY <1>1, <1>2, <1>8, CategorySaysLead DEF ToldOf
<1>9. TreeLeads(row) => TreeLeads(row)'
  <2>1. ASSUME TermsLeadOn(row) PROVE TermsLeadOn(row)'
    <3>1. ASSUME NEW c \in CategoryIds
          PROVE  Leads(TermSteps(c), TermsShown(row, c)', category_unread', TermsOf(categories'[c]))
      <4>1. PICK x : x = TermsShown(row, c) /\ x = TermsShown(row, c)'
        BY <1>2 DEF TermsShown
      <4>2. Leads(TermSteps(c), x, category_unread, TermsOf(categories[c]))
        BY <2>1, <4>1 DEF TermsLeadOn
      <4>3. Leads(TermSteps(c), x, category_unread', TermsOf(categories'[c]))
        BY <1>1, <1>2, <4>2, CategorySaysLead
      <4> QED  BY <4>1, <4>3
    <3> QED  BY <3>1 DEF TermsLeadOn
  <2>2. Rooted(row) => Rooted(row)'
    BY <1>2, <1>5 DEF Rooted, NodesIn
  <2>3. Rooted(row) /\ Breadcrumbs(row) => Breadcrumbs(row)'
    BY <1>2, <1>5 DEF Rooted, Breadcrumbs, NodesIn
  <2>4. TreeCounts(row) => TreeCounts(row)'
    BY <1>2, <1>6 DEF TreeCounts, NodesIn
  <2>5. PICK S : S = NodesIn(row) /\ S = NodesIn(row)'
    BY <1>2 DEF NodesIn
  <2>6. ToldOf(NodesIn(row)) => ToldOf(NodesIn(row))'
    <3>1. ToldOf(S) => ToldOf(S)'
      BY <1>8
    <3> QED  BY <2>5, <3>1 DEF ToldOf
  <2> QED  BY <1>2, <2>1, <2>2, <2>3, <2>4, <2>6 DEF TreeLeads
<1>10. ListLeads(row) => ListLeads(row)'
  <2>1. ListTold(row) => ListTold(row)'
    BY <1>2, <1>8 DEF ListTold
  <2>2. ListCounts(row) => ListCounts(row)'
    BY <1>2, <1>6 DEF ListCounts
  <2>3. \A x : EntryFollows(x) => EntryFollows(x)'
    BY <1>2 DEF EntryFollows
  <2>4. ASSUME NEW k, EntryFollows(row.products[k]) PROVE EntryFollows(row.products[k])'
    <3>1. PICK x : x = row.products[k]
      OBVIOUS
    <3> QED  BY <1>2, <2>3, <2>4, <3>1 DEF EntryFollows
  <2>5. EntryFollows(NewEntry) => EntryFollows(NewEntry)'
    BY <2>3
  <2> QED  BY <1>2, <1>6, <2>1, <2>2, <2>4, <2>5 DEF ListLeads
<1>11. /\ view' \in CategoryViews /\ unread' \in Seq(ProductEvent)
       /\ ~redelivered' /\ Pending' => ~overtook'
       /\ view' = "category_tree" => TreeLeads(row)'
       /\ view' = "category_products" => ListLeads(row)'
  BY <1>2, <1>6, <1>9, <1>10 DEF CategoryViewInv
<1> QED  BY <1>3, <1>4, <1>6, <1>7, <1>11, Zenon DEF CategoryViewInv

(* The projector reads the product's event e.                              *)
ReadsProduct(e) ==
  /\ unread # << >> /\ unread \in Seq(ProductEvent) /\ e = Head(unread) /\ e \in ProductEvent
  /\ \/ unread' = Tail(unread) /\ redelivered' = redelivered
     \/ unread' = unread /\ redelivered'
  /\ product' = product /\ title' = title /\ Known' = Known
  /\ categories' = categories /\ category_of' = category_of /\ category_unread' = category_unread
  /\ Pending <=> e.type = "ProductCreated"
  /\ Pending' => Pending /\ unread' = unread
  /\ ~redelivered' => ~redelivered /\ ~Pending'

LEMMA ReadsProductEvent ==
  ASSUME CategoryViewInv, CategoryProductProjection
  PROVE  /\ ReadsProduct(Head(unread)) /\ view' = view
         /\ row' = CategoryProjected(row, Head(unread))
         /\ overtook' <=> overtook \/ (Head(unread).type = "ProductCreated" /\ Awaited)
         /\ ProductInv' /\ CategoryInv' /\ UnreadParents'
         /\ unread' \in Seq(ProductEvent) /\ CreatedFirst'
         /\ category_unread' \in Seq(CategoryEvent)
<1>1. /\ unread # << >> /\ view' = view /\ row' = CategoryProjected(row, Head(unread))
      /\ \/ unread' = Tail(unread) /\ redelivered' = redelivered
         \/ unread' = unread /\ redelivered' /\ ~redelivered
      /\ overtook' <=> overtook \/ (Head(unread).type = "ProductCreated" /\ Awaited)
      /\ product' = product /\ title' = title /\ variants' = variants /\ images' = images
      /\ categories' = categories /\ category_of' = category_of /\ category_unread' = category_unread
  BY DEF CategoryProductProjection, Project, product_vars, category_vars
<1>2. unread \in Seq(ProductEvent) /\ CreatedFirst
  BY DEF CategoryViewInv
<1>3. /\ Head(unread) = unread[1] /\ Head(unread) \in ProductEvent /\ Tail(unread) \in Seq(ProductEvent)
      /\ Len(unread) \in Nat /\ Len(unread) # 0 /\ Len(Tail(unread)) = Len(unread) - 1
      /\ \A k \in 1..(Len(unread) - 1) : Tail(unread)[k] = unread[k + 1]
  BY <1>1, <1>2
<1>4. ProductInv'
  <2>1. Offered' = Offered /\ Shown' = Shown /\ Primary' = Primary
    BY <1>1 DEF Offered, Shown, Primary
  <2> QED  BY <1>1, <2>1 DEF CategoryViewInv, ProductInv
<1>5. Known' = Known
  BY <1>1 DEF Known
<1>6. CategoryInv' /\ UnreadParents'
  BY <1>1, <1>5 DEF CategoryViewInv, CategoryInv, LevelBelow, UnreadParents
<1>7. ASSUME NEW k \in 1..Len(Tail(unread)) PROVE Tail(unread)[k].type # "ProductCreated"
  <2>1. k + 1 \in 2..Len(unread) /\ Tail(unread)[k] = unread[k + 1]
    BY <1>3
  <2> QED  BY <1>2, <2>1 DEF CreatedFirst
<1>8. Pending <=> Head(unread).type = "ProductCreated"
  <2>1. 1 \in 1..Len(unread) /\ \A k \in 1..Len(unread) : k = 1 \/ k \in 2..Len(unread)
    BY <1>3
  <2> QED  BY <1>2, <1>3, <2>1 DEF Pending, CreatedFirst
<1>9. unread' = Tail(unread) => ~Pending' /\ CreatedFirst'
  <2>1. ASSUME unread' = Tail(unread) PROVE ~Pending' /\ CreatedFirst'
    <3>1. \A k \in 1..Len(unread') : unread'[k].type # "ProductCreated"
      BY <1>7, <2>1
    <3>2. \A k \in 2..Len(unread') : k \in 1..Len(unread')
      BY <1>3, <2>1
    <3> QED  BY <3>1, <3>2 DEF Pending, CreatedFirst
  <2> QED  BY <2>1
<1>10. unread' = unread => (Pending' <=> Pending) /\ CreatedFirst'
  BY <1>2 DEF Pending, CreatedFirst
<1>11. Pending' => Pending /\ unread' = unread
  BY <1>1, <1>9, <1>10
<1>12. ~redelivered' => ~redelivered /\ ~Pending'
  BY <1>1, <1>9
<1>13. /\ CreatedFirst' /\ unread' \in Seq(ProductEvent)
       /\ category_unread' \in Seq(CategoryEvent)
  BY <1>1, <1>2, <1>3, <1>9, <1>10 DEF CategoryViewInv
<1>14. ReadsProduct(Head(unread))
  BY <1>1, <1>2, <1>3, <1>5, <1>8, <1>11, <1>12 DEF ReadsProduct
<1> QED  BY <1>1, <1>4, <1>6, <1>13, <1>14

(* A tree that differs from r in numbers of products alone.                *)
SameTree(r, z) ==
  /\ z \in TreeRow /\ NodesIn(z) = NodesIn(r)
  /\ \A c \in NodesIn(r) : /\ z[c].name = r[c].name /\ z[c].parent = r[c].parent
                           /\ z[c].breadcrumb = r[c].breadcrumb /\ z[c].order = r[c].order
                           /\ z[c].is_active = r[c].is_active

LEMMA TreeAfterProduct ==
  ASSUME NEW r \in TreeRow, NEW e \in ProductEvent, NEW z, z = on_category_tree(r, e),
         category_of \in CategoryIds
  PROVE  /\ SameTree(r, z)
         /\ \A c \in NodesIn(r) :
              z[c].product_count =
                IF e.type = "ProductCreated" /\ c = category_of THEN r[c].product_count + 1
                ELSE r[c].product_count
<1>1. e.type \notin {"CategoryCreated", "CategoryDetailsUpdated", "CategoryReordered",
                     "CategoryDeactivated"}
  BY ProductEvents DEF StatusChanges
<1>2. \A c \in NodesIn(r) : r[c] \in NodeType /\ c \in CategoryIds
  BY DEF NodesIn, TreeRow
<1>3. CASE e.type = "ProductCreated" /\ r[category_of] # NoNode
  <2>1. z = [r EXCEPT ![category_of].product_count = @ + 1]
    BY <1>1, <1>3 DEF on_category_tree
  <2>2. category_of \in NodesIn(r)
    BY <1>3 DEF NodesIn
  <2>3. PICK old \in NodeType : old = r[category_of]
    BY <1>2, <2>2
  <2>4. PICK new : new = [old EXCEPT !.product_count = @ + 1]
    OBVIOUS
  <2>5. /\ new \in NodeType /\ new.product_count = old.product_count + 1
        /\ new.name = old.name /\ new.parent = old.parent /\ new.breadcrumb = old.breadcrumb
        /\ new.order = old.order /\ new.is_active = old.is_active
    BY <2>4 DEF NodeType
  <2>6. z = [r EXCEPT ![category_of] = new]
    BY <2>1, <2>3, <2>4
  <2>7. new # NoNode
    <3>1. new.name \in Names /\ NoNode.name \notin Names
      BY <2>5 DEF NodeType, NoNode, Names
    <3> QED  BY <3>1
  <2>8. z \in TreeRow /\ \A c \in CategoryIds : z[c] = IF c = category_of THEN new ELSE r[c]
    BY <2>5, <2>6 DEF TreeRow
  <2>9. NodesIn(z) = NodesIn(r)
    BY <2>2, <2>7, <2>8 DEF NodesIn
  <2> QED  BY <1>2, <1>3, <2>3, <2>5, <2>8, <2>9 DEF SameTree
<1>4. CASE ~(e.type = "ProductCreated" /\ r[category_of] # NoNode)
  <2>1. z = r
    BY <1>1, <1>4 DEF on_category_tree
  <2>2. \A c \in NodesIn(r) : ~(e.type = "ProductCreated" /\ c = category_of)
    BY <1>4 DEF NodesIn
  <2> QED  BY <2>1, <2>2 DEF SameTree
<1> QED  BY <1>3, <1>4

LEMMA TreeReadsProduct ==
  ASSUME TreeLeads(row), CategoryInv, NEW e, ReadsProduct(e), row' = on_category_tree(row, e),
         overtook' <=> overtook \/ (e.type = "ProductCreated" /\ row[category_of] = NoNode)
  PROVE  TreeLeads(row)'
<1>1. PICK z : z = row'
  OBVIOUS
<1>2. /\ row \in TreeRow /\ e \in ProductEvent /\ category_of \in CategoryIds
      /\ Known' = Known /\ categories' = categories /\ category_of' = category_of
      /\ category_unread' = category_unread
      /\ Pending <=> e.type = "ProductCreated"
      /\ ~redelivered' => ~redelivered /\ ~Pending'
  BY DEF TreeLeads, ReadsProduct, CategoryInv
<1>3. /\ SameTree(row, z)
      /\ \A c \in NodesIn(row) :
           z[c].product_count =
             IF e.type = "ProductCreated" /\ c = category_of THEN row[c].product_count + 1
             ELSE row[c].product_count
  BY <1>1, <1>2, TreeAfterProduct
<1>4. /\ z \in TreeRow /\ NodesIn(z) = NodesIn(row)
      /\ \A c \in NodesIn(row) : /\ z[c].name = row[c].name /\ z[c].parent = row[c].parent
                                 /\ z[c].breadcrumb = row[c].breadcrumb /\ z[c].order = row[c].order
                                 /\ z[c].is_active = row[c].is_active
  BY <1>3 DEF SameTree
<1>5. NodesIn(row)' = NodesIn(z)
  BY <1>1 DEF NodesIn
<1>6. Rooted(row)'
  BY <1>1, <1>2, <1>4, <1>5 DEF TreeLeads, Rooted
<1>7. ToldOf(NodesIn(row))'
  BY <1>2, <1>4, <1>5 DEF TreeLeads, ToldOf
<1>8. TermsLeadOn(row)'
  <2>1. ASSUME NEW c \in CategoryIds PROVE TermsShown(row, c)' = TermsShown(row, c)
    <3>1. c \in NodesIn(row) <=> row[c] # NoNode
      BY DEF NodesIn
    <3>2. c \in NodesIn(z) <=> z[c] # NoNode
      BY DEF NodesIn
    <3> QED  BY <1>1, <1>4, <3>1, <3>2 DEF TermsShown, TermsOf
  <2> QED  BY <1>2, <2>1 DEF TreeLeads, TermsLeadOn
<1>9. Breadcrumbs(row)'
  BY <1>1, <1>2, <1>4, <1>5 DEF TreeLeads, Breadcrumbs
<1>10. TreeCounts(row)'
  <2> SUFFICES ASSUME ~redelivered', ~overtook'
               PROVE  /\ category_of' \in NodesIn(z)
                      /\ \A c \in NodesIn(z) : z[c].product_count = IF c = category_of' THEN 1 ELSE 0
    BY <1>1, <1>2, <1>5 DEF TreeCounts
  <2>1. ~redelivered /\ ~overtook /\ ~(e.type = "ProductCreated" /\ row[category_of] = NoNode)
    BY <1>2
  <2>2. /\ ~Pending => category_of \in NodesIn(row)
        /\ \A c \in NodesIn(row) : row[c].product_count = IF c = category_of /\ ~Pending THEN 1 ELSE 0
    BY <2>1 DEF TreeLeads, TreeCounts
  <2>3. category_of \in NodesIn(row)
    BY <1>2, <2>1, <2>2 DEF NodesIn
  <2> QED  BY <1>2, <1>3, <1>4, <2>2, <2>3
<1> QED  BY <1>1, <1>4, <1>6, <1>7, <1>8, <1>9, <1>10 DEF TreeLeads

SpelledAfter(s, e) == IF e.type \in StatusChanges THEN StatusListed[e.type] ELSE s

EntryBecomes(x, e, y) ==
  y \in ListEntry /\ y.title = TitleAfter(x.title, e) /\ y.status = SpelledAfter(x.status, e)

LEMMA EntryReads ==
  ASSUME NEW e, ReadsProduct(e), NEW x, EntryFollows(x), NEW y, EntryBecomes(x, e, y)
  PROVE  EntryFollows(y)'
<1>1. PICK t, s, a, b : t = x.title /\ s = x.status /\ a = y.title /\ b = y.status
  OBVIOUS
<1>2. /\ a = TitleAfter(t, e) /\ b = SpelledAfter(s, e)
      /\ Leads(TitleSteps, t, unread, title) /\ Leads(SpelledSteps, s, unread, Spelled[product])
  BY <1>1 DEF EntryFollows, EntryBecomes
<1>3. unread # << >> /\ unread \in Seq(ProductEvent) /\ e = Head(unread) /\ e \in ProductEvent
      /\ product' = product /\ title' = title /\ (unread' = Tail(unread) \/ unread' = unread)
  BY DEF ReadsProduct
<1>4. Leads(TitleSteps, a, Tail(unread), title) /\ Leads(TitleSteps, a, unread, title)
  BY <1>2, <1>3, PartsRead DEF TitleAfter
<1>5. /\ Leads(SpelledSteps, b, Tail(unread), Spelled[product])
      /\ Leads(SpelledSteps, b, unread, Spelled[product])
  <2>1. \A w : <<s, Head(unread), w>> \in SpelledSteps => w = b
    BY <1>2, <1>3 DEF SpelledSteps, SpelledAfter
  <2>2. /\ <<s, Head(unread), b>> \in SpelledSteps
        /\ Leads(SpelledSteps, b, Tail(unread), Spelled[product])
        /\ <<b, Head(unread), b>> \in SpelledSteps =>
             Leads(SpelledSteps, b, unread, Spelled[product])
    BY <1>2, <1>3, <2>1, LeadsProject
  <2>3. <<b, Head(unread), b>> \in SpelledSteps
    BY <2>2 DEF SpelledSteps
  <2> QED  BY <2>2, <2>3
<1> QED  BY <1>1, <1>3, <1>4, <1>5 DEF EntryFollows

(* The list of the category's products after an event.                     *)
ListBecomes(r, e, z) ==
  /\ z \in ListRow /\ (z.exists <=> r.exists)
  /\ IF e.type = "ProductCreated" /\ r.exists
     THEN z.products = Append(r.products, NewEntry)
     ELSE /\ DOMAIN z.products = DOMAIN r.products /\ Len(z.products) = Len(r.products)
          /\ \A k \in DOMAIN r.products : EntryBecomes(r.products[k], e, z.products[k])

LEMMA ListAfterProduct ==
  ASSUME NEW r \in ListRow, NEW e \in ProductEvent, NEW z, z = on_category_products(r, e)
  PROVE  ListBecomes(r, e, z)
<1>1. PICK list \in Seq(ListEntry), b \in BOOLEAN :
        list = r.products /\ b = r.exists /\ r = [exists |-> b, products |-> list]
  BY DEF ListRow
<1>2. /\ e.type \in StatusChanges \cup
                     {"ProductCreated", "ProductDetailsUpdated", "VariantAdded", "TierPriceSet",
                      "VariantPriceChanged", "ProductImageAdded", "ProductImageRemoved"}
      /\ e.type = "ProductDetailsUpdated" => e.title \in Names
  BY ProductEvents
<1>3. /\ DOMAIN StatusListed = StatusChanges
      /\ \A s \in StatusChanges : StatusListed[s] \in ListedStatuses
  BY DEF StatusListed, StatusChanges, ListedStatuses
<1>4. /\ Len(list) \in Nat /\ DOMAIN list = 1..Len(list)
      /\ \A k \in DOMAIN list : /\ list[k] \in ListEntry
                                /\ list[k].title \in Names /\ list[k].status \in ListedStatuses
                                /\ list[k] = [title |-> list[k].title, status |-> list[k].status]
  <2>1. ASSUME NEW x \in ListEntry
        PROVE  /\ x.title \in Names /\ x.status \in ListedStatuses
               /\ x = [title |-> x.title, status |-> x.status]
    BY DEF ListEntry
  <2>2. Len(list) \in Nat /\ DOMAIN list = 1..Len(list) /\ \A k \in DOMAIN list : list[k] \in ListEntry
    OBVIOUS
  <2> QED  BY <2>1, <2>2
<1>5. CASE e.type = "ProductCreated" /\ b
  <2>1. z = [r EXCEPT !.products = Append(@, NewEntry)]
    BY <1>1, <1>3, <1>5 DEF on_category_products, NewEntry, StatusChanges
  <2>2. z = [exists |-> b, products |-> Append(list, NewEntry)]
    BY <1>1, <2>1
  <2>3. NewEntry \in ListEntry
    BY DEF NewEntry, ListEntry, Names, ListedStatuses
  <2>4. Append(list, NewEntry) \in Seq(ListEntry)
    BY <2>3
  <2>5. z \in ListRow /\ z.exists = r.exists /\ z.products = Append(r.products, NewEntry)
    <3>1. PICK after \in Seq(ListEntry) : after = Append(list, NewEntry)
      BY <2>4
    <3>2. z = [exists |-> b, products |-> after]
      BY <2>2, <3>1
    <3>3. z \in ListRow /\ z.exists = b /\ z.products = after
      BY <3>2 DEF ListRow
    <3>4. Append(r.products, NewEntry) = Append(list, NewEntry) /\ r.exists = b
      BY <1>1
    <3> QED  BY <3>1, <3>3, <3>4, Zenon
  <2> QED  BY <1>1, <1>5, <2>5 DEF ListBecomes
<1>6. ASSUME NEW after, DOMAIN after = DOMAIN list, Len(after) = Len(list),
             after \in Seq(ListEntry),
             \A k \in DOMAIN list : EntryBecomes(list[k], e, after[k]),
             z = [exists |-> b, products |-> after], ~(e.type = "ProductCreated" /\ b)
      PROVE  ListBecomes(r, e, z)
  BY <1>1, <1>6 DEF ListBecomes, ListRow
<1>7. CASE e.type = "ProductDetailsUpdated"
  <2>1. PICK after : after = [k \in DOMAIN list |-> [list[k] EXCEPT !.title = e.title]]
    OBVIOUS
  <2>2. z = [r EXCEPT !.products = after]
    BY <1>1, <1>7, <2>1 DEF on_category_products, StatusListed
  <2>3. z = [exists |-> b, products |-> after]
    BY <1>1, <2>2
  <2>4. \A k \in DOMAIN list : /\ after[k] = [list[k] EXCEPT !.title = e.title]
                               /\ after[k] \in ListEntry
                               /\ after[k].title = e.title /\ after[k].status = list[k].status
    BY <1>2, <1>4, <1>7, <2>1 DEF ListEntry
  <2>5. /\ after \in Seq(ListEntry) /\ DOMAIN after = DOMAIN list /\ Len(after) = Len(list)
    <3>1. after = [k \in 1..Len(list) |-> after[k]]
      BY <1>4, <2>1
    <3> QED  BY <1>4, <2>1, <2>4, <3>1
  <2>6. \A k \in DOMAIN list : EntryBecomes(list[k], e, after[k])
    BY <1>7, <2>4 DEF EntryBecomes, TitleAfter, SpelledAfter, StatusChanges
  <2> QED  BY <1>6, <1>7, <2>3, <2>5, <2>6
<1>8. CASE e.type \in StatusChanges
  <2>1. PICK after : after = [k \in DOMAIN list |-> [list[k] EXCEPT !.status = StatusListed[e.type]]]
    OBVIOUS
  <2>2. z = [r EXCEPT !.products = after]
    BY <1>1, <1>3, <1>8, <2>1 DEF on_category_products, StatusChanges
  <2>3. z = [exists |-> b, products |-> after]
    BY <1>1, <2>2
  <2>4. \A k \in DOMAIN list : /\ after[k] = [list[k] EXCEPT !.status = StatusListed[e.type]]
                               /\ after[k] \in ListEntry
                               /\ after[k].title = list[k].title
                               /\ after[k].status = StatusListed[e.type]
    BY <1>3, <1>4, <1>8, <2>1 DEF ListEntry
  <2>5. /\ after \in Seq(ListEntry) /\ DOMAIN after = DOMAIN list /\ Len(after) = Len(list)
    <3>1. after = [k \in 1..Len(list) |-> after[k]]
      BY <1>4, <2>1
    <3> QED  BY <1>4, <2>1, <2>4, <3>1
  <2>6. \A k \in DOMAIN list : EntryBecomes(list[k], e, after[k])
    BY <1>8, <2>4 DEF EntryBecomes, TitleAfter, SpelledAfter, StatusChanges
  <2>7. e.type # "ProductCreated"
    BY <1>8 DEF StatusChanges
  <2> QED  BY <1>6, <2>3, <2>5, <2>6, <2>7
<1>9. CASE ~(e.type = "ProductCreated" /\ b) /\ e.type # "ProductDetailsUpdated"
           /\ e.type \notin StatusChanges
  <2>1. z = r
    BY <1>1, <1>2, <1>3, <1>9 DEF on_category_products
  <2>2. \A k \in DOMAIN list : EntryBecomes(list[k], e, list[k])
    BY <1>4, <1>9 DEF EntryBecomes, TitleAfter, SpelledAfter
  <2> QED  BY <1>1, <1>6, <1>9, <2>1, <2>2
<1> QED  BY <1>5, <1>7, <1>8, <1>9

LEMMA ListReadsProduct ==
  ASSUME ListLeads(row), CategoryInv, ~redelivered /\ Pending => ~overtook,
         NEW e, ReadsProduct(e), row' = on_category_products(row, e),
         overtook' <=> overtook \/ (e.type = "ProductCreated" /\ ~row.exists)
  PROVE  ListLeads(row)'
<1>1. PICK z : z = row'
  OBVIOUS
<1>2. /\ row \in ListRow /\ e \in ProductEvent /\ category_of \in CategoryIds
      /\ Known' = Known /\ category_of' = category_of /\ category_unread' = category_unread
      /\ Pending <=> e.type = "ProductCreated"
      /\ Pending' => Pending
      /\ ~redelivered' => ~redelivered /\ ~Pending'
  BY DEF ListLeads, ReadsProduct, CategoryInv
<1>3. ListBecomes(row, e, z)
  BY <1>1, <1>2, ListAfterProduct
<1>4. PICK list \in Seq(ListEntry), after \in Seq(ListEntry) :
        list = row.products /\ after = z.products /\ z \in ListRow
  BY <1>2, <1>3 DEF ListBecomes, ListRow
<1>5. /\ Len(list) \in Nat /\ DOMAIN list = 1..Len(list) /\ DOMAIN after = 1..Len(after)
      /\ IF e.type = "ProductCreated" /\ row.exists
         THEN after = Append(list, NewEntry)
         ELSE /\ DOMAIN after = DOMAIN list /\ Len(after) = Len(list)
              /\ \A k \in DOMAIN list : EntryBecomes(list[k], e, after[k])
  BY <1>3, <1>4 DEF ListBecomes
<1>same. z.exists <=> row.exists
  BY <1>3 DEF ListBecomes
<1>each. ~(e.type = "ProductCreated" /\ row.exists) =>
           /\ DOMAIN after = DOMAIN list /\ Len(after) = Len(list)
           /\ \A k \in DOMAIN list : EntryBecomes(list[k], e, after[k])
  BY <1>3, <1>4 DEF ListBecomes
<1>6. /\ \A k \in DOMAIN list : EntryFollows(list[k])
      /\ Pending => EntryFollows(NewEntry)
      /\ ListTold(row) /\ ListCounts(row)
  BY <1>4 DEF ListLeads
<1>7. ASSUME NEW x \in ListEntry, EntryFollows(x), e.type = "ProductCreated" PROVE EntryFollows(x)'
  <2>1. EntryBecomes(x, e, x)
    BY <1>7 DEF EntryBecomes, TitleAfter, SpelledAfter, StatusChanges
  <2> QED  BY <1>7, <2>1, EntryReads
<1>8. NewEntry \in ListEntry
  BY DEF NewEntry, ListEntry, Names, ListedStatuses
<1>9. Pending' => EntryFollows(NewEntry)'
  BY <1>2, <1>6, <1>7, <1>8
<1>10. ASSUME NEW k \in DOMAIN after, NEW y, y = after[k] PROVE EntryFollows(y)'
  <2>1. CASE e.type = "ProductCreated" /\ row.exists
    <3>1. (k \in DOMAIN list /\ y = list[k]) \/ y = NewEntry
      BY <1>5, <1>10, <2>1
    <3>2. CASE k \in DOMAIN list /\ y = list[k]
      <4>1. y \in ListEntry /\ EntryFollows(y)
        BY <1>6, <3>2
      <4> QED  BY <1>7, <2>1, <4>1
    <3>3. CASE y = NewEntry
      <4>1. y \in ListEntry /\ EntryFollows(y)
        BY <1>2, <1>6, <1>8, <2>1, <3>3
      <4> QED  BY <1>7, <2>1, <4>1
    <3> QED  BY <3>1, <3>2, <3>3
  <2>2. CASE ~(e.type = "ProductCreated" /\ row.exists)
    <3>1. DOMAIN after = DOMAIN list /\ \A j \in DOMAIN list : EntryBecomes(list[j], e, after[j])
      BY <1>each, <2>2
    <3>2. PICK x : x = list[k]
      OBVIOUS
    <3>3. EntryFollows(x) /\ EntryBecomes(x, e, y)
      BY <1>6, <1>10, <3>1, <3>2
    <3> QED  BY <3>3, EntryReads
  <2> QED  BY <2>1, <2>2
<1>11. ASSUME NEW k \in DOMAIN row'.products PROVE EntryFollows(row.products[k])'
  <2>1. PICK y : y = after[k]
    OBVIOUS
  <2>2. row'.products = after
    BY <1>1, <1>4
  <2>3. EntryFollows(y)'
    BY <1>10, <1>11, <2>1, <2>2
  <2> QED  BY <2>1, <2>2, <2>3 DEF EntryFollows
<1>12. ListTold(row)'
  <2>1. PICK S : ToldOf(S) /\ (row.exists <=> category_of \in S)
    BY <1>6 DEF ListTold
  <2>2. ToldOf(S)'
    BY <1>2, <2>1 DEF ToldOf
  <2>3. category_of' = category_of
    BY <1>2
  <2> QED  BY <1>1, <1>same, <2>1, <2>2, <2>3 DEF ListTold
<1>13. ListCounts(row)'
  <2> SUFFICES ASSUME ~redelivered'
               PROVE  /\ ~overtook' => z.exists
                      /\ Len(after) = IF z.exists /\ ~overtook' THEN 1 ELSE 0
    BY <1>1, <1>2, <1>4 DEF ListCounts
  <2>1. /\ ~redelivered
        /\ ~Pending /\ ~overtook => row.exists
        /\ Len(list) = IF row.exists /\ ~Pending /\ ~overtook THEN 1 ELSE 0
    BY <1>2, <1>4, <1>6 DEF ListCounts
  <2>2. CASE e.type = "ProductCreated"
    <3>1. ~overtook /\ Len(list) = 0 /\ (overtook' <=> ~row.exists)
      BY <1>2, <2>1, <2>2
    <3>2. row.exists => Len(after) = Len(list) + 1
      BY <1>5, <2>2
    <3>3. ~row.exists => Len(after) = Len(list)
      BY <1>each
    <3> QED  BY <1>same, <3>1, <3>2, <3>3
  <2>3. CASE e.type # "ProductCreated"
    <3>1. ~Pending /\ (overtook' <=> overtook) /\ Len(after) = Len(list)
      BY <1>2, <1>5, <2>3
    <3> QED  BY <1>same, <2>1, <3>1
  <2> QED  BY <2>2, <2>3
<1> QED  BY <1>1, <1>4, <1>9, <1>11, <1>12, <1>13 DEF ListLeads

LEMMA ProductProjectionKeepsCategoryViews ==
  ASSUME CategoryViewInv, CategoryProductProjection
  PROVE  CategoryViewInv'
<1>1. PICK e : e = Head(unread)
  OBVIOUS
<1>2. /\ ReadsProduct(e) /\ view' = view
      /\ row' = CategoryProjected(row, e)
      /\ overtook' <=> overtook \/ (e.type = "ProductCreated" /\ Awaited)
      /\ ProductInv' /\ CategoryInv' /\ UnreadParents'
      /\ unread' \in Seq(ProductEvent) /\ CreatedFirst'
      /\ category_unread' \in Seq(CategoryEvent)
  BY <1>1, ReadsProductEvent
<1>3. ~redelivered' => ~Pending'
  BY <1>2 DEF ReadsProduct
<1>4. view = "category_tree" => TreeLeads(row)'
  <2> SUFFICES ASSUME view = "category_tree" PROVE TreeLeads(row)'
    OBVIOUS
  <2>1. TreeLeads(row) /\ CategoryInv
    BY DEF CategoryViewInv
  <2>2. /\ row' = on_category_tree(row, e)
        /\ overtook' <=> overtook \/ (e.type = "ProductCreated" /\ row[category_of] = NoNode)
    BY <1>2 DEF CategoryProjected, Awaited
  <2> QED  BY <1>2, <2>1, <2>2, TreeReadsProduct
<1>5. view = "category_products" => ListLeads(row)'
  <2> SUFFICES ASSUME view = "category_products" PROVE ListLeads(row)'
    OBVIOUS
  <2>1. ListLeads(row) /\ CategoryInv /\ (~redelivered /\ Pending => ~overtook)
    BY DEF CategoryViewInv
  <2>2. /\ row' = on_category_products(row, e)
        /\ overtook' <=> overtook \/ (e.type = "ProductCreated" /\ ~row.exists)
    BY <1>2 DEF CategoryProjected, Awaited
  <2> QED  BY <1>2, <2>1, <2>2, ListReadsProduct
<1>6. /\ view' \in CategoryViews
      /\ ~redelivered' /\ Pending' => ~overtook'
      /\ view' = "category_tree" => TreeLeads(row)'
      /\ view' = "category_products" => ListLeads(row)'
  BY <1>2, <1>3, <1>4, <1>5 DEF CategoryViewInv
<1> QED  BY <1>2, <1>6, Zenon DEF CategoryViewInv

(* The projector reads the event e of a category.                          *)
ReadsCategory(e) ==
  /\ category_unread # << >> /\ category_unread \in Seq(CategoryEvent)
  /\ e = Head(category_unread) /\ e \in CategoryEvent
  /\ category_unread' = Tail(category_unread) \/ category_unread' = category_unread
  /\ ~redelivered' => ~redelivered /\ category_unread' = Tail(category_unread)
  /\ product' = product /\ title' = title /\ Known' = Known /\ unread' = unread
  /\ categories' = categories /\ category_of' = category_of /\ (overtook' <=> overtook)
  /\ Pending' <=> Pending
  /\ e.id \in Known /\ e.category.parent = categories[e.id].parent

LEMMA ReadsCategoryEvent ==
  ASSUME CategoryViewInv, CategoryProjection
  PROVE  /\ ReadsCategory(Head(category_unread)) /\ view' = view
         /\ row' = CategoryProjected(row, Head(category_unread))
         /\ ProductInv' /\ CategoryInv' /\ UnreadParents'
         /\ unread' \in Seq(ProductEvent) /\ CreatedFirst'
         /\ category_unread' \in Seq(CategoryEvent)
         /\ ~redelivered' /\ Pending' => ~overtook'
<1>1. /\ category_unread # << >> /\ view' = view
      /\ row' = CategoryProjected(row, Head(category_unread))
      /\ \/ category_unread' = Tail(category_unread) /\ redelivered' = redelivered
         \/ category_unread' = category_unread /\ redelivered'
      /\ product' = product /\ title' = title /\ variants' = variants /\ images' = images
      /\ categories' = categories /\ category_of' = category_of
      /\ unread' = unread /\ overtook' = overtook
  BY DEF CategoryProjection, product_vars, category_vars
<1>2. category_unread \in Seq(CategoryEvent) /\ UnreadParents
  BY DEF CategoryViewInv
<1>3. /\ Head(category_unread) = category_unread[1] /\ Head(category_unread) \in CategoryEvent
      /\ Tail(category_unread) \in Seq(CategoryEvent)
      /\ Len(category_unread) \in Nat /\ 1 \in 1..Len(category_unread)
      /\ Len(Tail(category_unread)) = Len(category_unread) - 1
      /\ \A k \in 1..(Len(category_unread) - 1) : Tail(category_unread)[k] = category_unread[k + 1]
  BY <1>1, <1>2
<1>4. ProductInv'
  <2>1. Offered' = Offered /\ Shown' = Shown /\ Primary' = Primary
    BY <1>1 DEF Offered, Shown, Primary
  <2> QED  BY <1>1, <2>1 DEF CategoryViewInv, ProductInv
<1>5. Known' = Known
  BY <1>1 DEF Known
<1>6. CategoryInv'
  BY <1>1, <1>5 DEF CategoryViewInv, CategoryInv, LevelBelow
<1>7. UnreadParents'
  <2>1. CASE category_unread' = category_unread
    BY <1>1, <1>2, <1>5, <2>1 DEF UnreadParents
  <2>2. CASE category_unread' = Tail(category_unread)
    <3>1. ASSUME NEW k \in 1..Len(Tail(category_unread)), NEW x, x = Tail(category_unread)[k]
          PROVE  x.id \in Known /\ x.category.parent = categories[x.id].parent
      <4>1. k + 1 \in 1..Len(category_unread) /\ x = category_unread[k + 1]
        BY <1>3, <3>1
      <4> QED  BY <1>2, <4>1 DEF UnreadParents
    <3> QED  BY <1>1, <1>5, <2>2, <3>1 DEF UnreadParents
  <2> QED  BY <1>1, <2>1, <2>2
<1>8. LET e == Head(category_unread) IN
      e.id \in Known /\ e.category.parent = categories[e.id].parent
  BY <1>2, <1>3 DEF UnreadParents
<1>9. (Pending' <=> Pending) /\ CreatedFirst' /\ unread' \in Seq(ProductEvent)
  BY <1>1 DEF CategoryViewInv, Pending, CreatedFirst
<1>10. ReadsCategory(Head(category_unread))
  BY <1>1, <1>2, <1>3, <1>5, <1>8, <1>9 DEF ReadsCategory
<1>11. ~redelivered' /\ Pending' => ~overtook'
  BY <1>1, <1>9 DEF CategoryViewInv
<1>12. category_unread' \in Seq(CategoryEvent)
  BY <1>1, <1>2, <1>3
<1>13. view' = view /\ row' = CategoryProjected(row, Head(category_unread))
  BY <1>1
<1> QED  BY <1>4, <1>6, <1>7, <1>9, <1>10, <1>11, <1>12, <1>13, Zenon

(* What the projector knows of, before and after.                          *)
LEMMA ToldRead ==
  ASSUME NEW e, ReadsCategory(e), NEW S, ToldOf(S),
         NEW T, T = IF e.type = "CategoryCreated" THEN S \cup {e.id} ELSE S
  PROVE  /\ ToldOf(T)'
         /\ IF e.type = "CategoryCreated" THEN e.category.parent \in S \cup {"None"} ELSE e.id \in S
         /\ ~redelivered' /\ e.type = "CategoryCreated" => e.id \notin S
<1>1. /\ category_unread # << >> /\ category_unread \in Seq(CategoryEvent)
      /\ e = Head(category_unread) /\ e \in CategoryEvent /\ Known' = Known
      /\ category_unread' = Tail(category_unread) \/ category_unread' = category_unread
      /\ ~redelivered' => ~redelivered /\ category_unread' = Tail(category_unread)
  BY DEF ReadsCategory
<1>2. Leads(KnownSteps, S, category_unread, Known)
  BY DEF ToldOf
<1>3. \A w : <<S, Head(category_unread), w>> \in KnownSteps => w = T
  BY <1>1 DEF KnownSteps
<1>4. /\ <<S, Head(category_unread), T>> \in KnownSteps
      /\ Leads(KnownSteps, T, Tail(category_unread), Known)
      /\ <<T, Head(category_unread), T>> \in KnownSteps => Leads(KnownSteps, T, category_unread, Known)
  <2>1. PICK events, y : /\ events \in Seq(CategoryEvent) /\ events # << >>
                            /\ events = category_unread /\ y = Known
    BY <1>1
  <2>2. Leads(KnownSteps, S, events, y) /\ \A w : <<S, Head(events), w>> \in KnownSteps => w = T
    BY <1>2, <1>3, <2>1
  <2>3. /\ <<S, Head(events), T>> \in KnownSteps
        /\ Leads(KnownSteps, T, Tail(events), y)
        /\ <<T, Head(events), T>> \in KnownSteps => Leads(KnownSteps, T, events, y)
    <3>1. PICK w : <<S, Head(events), w>> \in KnownSteps /\ Leads(KnownSteps, w, Tail(events), y)
      BY <2>1, <2>2, LeadsRead
    <3>2. w = T
      BY <2>2, <3>1
    <3>3. <<S, Head(events), T>> \in KnownSteps /\ Leads(KnownSteps, T, Tail(events), y)
      BY <3>1, <3>2
    <3> QED  BY <2>1, <3>3, LeadsAgain
  <2> QED  BY <2>1, <2>3
<1>5. /\ T \in SUBSET CategoryIds
      /\ IF e.type = "CategoryCreated" THEN e.category.parent \in S \cup {"None"} ELSE e.id \in S
  BY <1>1, <1>4 DEF KnownSteps
<1>6. <<T, Head(category_unread), T>> \in KnownSteps
  BY <1>1, <1>5 DEF KnownSteps
<1>7. ASSUME ~redelivered'
      PROVE  /\ Leads(FreshSteps, T, Tail(category_unread), Known)
             /\ e.type = "CategoryCreated" => e.id \notin S
  <2>1. Leads(FreshSteps, S, category_unread, Known)
    BY <1>1, <1>7 DEF ToldOf
  <2>2. PICK w : <<S, e, w>> \in FreshSteps /\ Leads(FreshSteps, w, Tail(category_unread), Known)
    BY <1>1, <2>1, LeadsRead
  <2>3. w = T /\ (e.type = "CategoryCreated" => e.id \notin S)
    BY <1>1, <1>3, <2>2 DEF FreshSteps
  <2> QED  BY <2>2, <2>3
<1>8. Leads(KnownSteps, T, category_unread', Known')
  BY <1>1, <1>4, <1>6
<1>9. ~redelivered' => Leads(FreshSteps, T, category_unread', Known')
  BY <1>1, <1>7
<1> QED  BY <1>5, <1>7, <1>8, <1>9 DEF ToldOf

LEMMA TermsOfRead ==
  ASSUME NEW e, ReadsCategory(e), NEW c, NEW x, NEW y, Leads(TermSteps(c), x, category_unread, y),
         NEW z, z = IF e.id = c THEN TermsAfter(x, e) ELSE x
  PROVE  Leads(TermSteps(c), z, category_unread', y) /\ x \in TermsType
<1>1. /\ category_unread # << >> /\ category_unread \in Seq(CategoryEvent)
      /\ e = Head(category_unread) /\ e \in CategoryEvent
      /\ category_unread' = Tail(category_unread) \/ category_unread' = category_unread
  BY DEF ReadsCategory
<1>2. \A w : <<x, Head(category_unread), w>> \in TermSteps(c) => w = z
  BY <1>1 DEF TermSteps
<1>3. /\ <<x, Head(category_unread), z>> \in TermSteps(c)
      /\ Leads(TermSteps(c), z, Tail(category_unread), y)
      /\ <<z, Head(category_unread), z>> \in TermSteps(c) => Leads(TermSteps(c), z, category_unread, y)
  BY <1>1, <1>2, LeadsProject
<1>4. x \in TermsType /\ z \in TermsType
  BY <1>3 DEF TermSteps
<1>5. e.id = c => TermsAfter(z, e) = z
  BY <1>1, <1>4, TermsAfterTerms
<1>6. <<z, Head(category_unread), z>> \in TermSteps(c)
  <2>1. z = IF e.id = c THEN TermsAfter(z, e) ELSE z
    BY <1>5
  <2> QED  BY <1>1, <1>4, <2>1 DEF TermSteps
<1> QED  BY <1>1, <1>3, <1>4, <1>6

(* The node of the event's category, when the tree was r and becomes z.    *)
NodeBecomes(r, e, z) ==
  /\ z \in TreeRow /\ \A c \in CategoryIds : c # e.id => z[c] = r[c]
  /\ z[e.id] \in NodeType
  /\ TermsOf(z[e.id]) = TermsAfter(TermsShown(r, e.id), e)
  /\ z[e.id].parent = e.category.parent
  /\ Len(z[e.id].breadcrumb) = categories[e.id].level + 1
  /\ z[e.id].breadcrumb[Len(z[e.id].breadcrumb)] = z[e.id].name
  /\ z[e.id].product_count = IF e.type = "CategoryCreated" THEN 0 ELSE r[e.id].product_count

LEMMA NodeChanges ==
  ASSUME CategoryInv, NEW r \in TreeRow, Rooted(r), Breadcrumbs(r), NEW e \in CategoryEvent,
         e.id \in Known, e.category.parent = categories[e.id].parent,
         IF e.type = "CategoryCreated" THEN e.category.parent \in NodesIn(r) \cup {"None"}
         ELSE e.id \in NodesIn(r),
         NEW z, z = on_category_tree(r, e)
  PROVE  NodeBecomes(r, e, z)
<1>1. /\ e.id \in CategoryIds /\ e.category \in CategoryType
      /\ e.type \in {"CategoryCreated", "CategoryDetailsUpdated", "CategoryReordered",
                     "CategoryDeactivated"}
  BY DEF CategoryEvent
<1>2. /\ e.category.name \in Names /\ e.category.parent \in CategoryIds \cup {"None"}
      /\ e.category.order \in Nat
  BY <1>1 DEF CategoryType
<1>3. categories[e.id].level = LevelBelow(e.category.parent)
  BY DEF CategoryInv
<1> DEFINE Fits(node, terms) ==
      /\ node \in NodeType /\ node.name = terms.name /\ node.order = terms.order
      /\ (node.is_active <=> terms.is_active) /\ terms.is_active \in BOOLEAN
      /\ node.parent = e.category.parent
      /\ Len(node.breadcrumb) = categories[e.id].level + 1
      /\ node.breadcrumb[Len(node.breadcrumb)] = node.name
      /\ node.product_count = IF e.type = "CategoryCreated" THEN 0 ELSE r[e.id].product_count
<1>4. ASSUME NEW node, NEW terms, terms = TermsAfter(TermsShown(r, e.id), e), Fits(node, terms),
             z = [r EXCEPT ![e.id] = node]
      PROVE  NodeBecomes(r, e, z)
  <2>1. z \in TreeRow /\ z[e.id] = node /\ \A c \in CategoryIds : c # e.id => z[c] = r[c]
    BY <1>1, <1>4 DEF TreeRow
  <2>2. terms = [name |-> terms.name, order |-> terms.order, is_active |-> terms.is_active]
    <3>1. PICK x : x = TermsShown(r, e.id)
      OBVIOUS
    <3>2. PICK n, o, a :
            /\ n = (IF e.type \in {"CategoryCreated", "CategoryDetailsUpdated"}
                    THEN e.category.name ELSE x.name)
            /\ o = (IF e.type = "CategoryCreated" THEN 0
                    ELSE IF e.type = "CategoryReordered" THEN e.category.order ELSE x.order)
            /\ a = (e.type = "CategoryCreated" \/ (e.type # "CategoryDeactivated" /\ x.is_active))
      OBVIOUS
    <3>3. terms = [name |-> n, order |-> o, is_active |-> a]
      BY <1>4, <3>1, <3>2, Zenon DEF TermsAfter
    <3> QED  BY <3>3
  <2>3. node.is_active = terms.is_active
    <3>1. node.is_active \in BOOLEAN
      BY <1>4 DEF NodeType
    <3> QED  BY <1>4, <3>1, Zenon
  <2>4. TermsOf(node) = terms
    BY <1>4, <2>2, <2>3 DEF TermsOf
  <2> QED  BY <1>4, <2>1, <2>4 DEF NodeBecomes
<1>5. PICK terms : terms = TermsAfter(TermsShown(r, e.id), e)
  OBVIOUS
<1>6. CASE e.type = "CategoryCreated"
  <2>1. PICK b : b = Breadcrumb(r, e.category.parent, e.category.name)
    OBVIOUS
  <2>2. /\ b \in Seq(Names) /\ Len(b) = LevelBelow(e.category.parent) + 1
        /\ b[Len(b)] = e.category.name
    BY <1>2, <1>6, <2>1, BreadcrumbGoesUp
  <2>3. PICK node : node = [name |-> e.category.name, parent |-> e.category.parent,
                            breadcrumb |-> b, order |-> 0, is_active |-> TRUE, product_count |-> 0]
    OBVIOUS
  <2>4. z = [r EXCEPT ![e.id] = node]
    BY <1>6, <2>1, <2>3 DEF on_category_tree
  <2>5. node \in NodeType
    BY <1>2, <2>2, <2>3 DEF NodeType
  <2>6. terms.name = e.category.name /\ terms.order = 0 /\ terms.is_active = TRUE
    BY <1>5, <1>6 DEF TermsAfter
  <2>7. Fits(node, terms)
    BY <1>3, <1>6, <2>2, <2>3, <2>5, <2>6
  <2> HIDE DEF Fits
  <2> QED  BY <1>4, <1>5, <2>4, <2>7
<1>7. CASE e.type # "CategoryCreated"
  <2>1. PICK old \in NodeType : old = r[e.id]
    BY <1>7 DEF NodesIn, TreeRow
  <2>2. /\ old.name \in Names /\ old.parent \in CategoryIds \cup {"None"}
        /\ old.breadcrumb \in Seq(Names) /\ old.order \in Nat /\ old.is_active \in BOOLEAN
        /\ old.product_count \in Nat
    BY <2>1 DEF NodeType
  <2>3. /\ old.parent = e.category.parent /\ old.parent \in NodesIn(r) \cup {"None"}
        /\ Len(old.breadcrumb) = categories[e.id].level + 1
        /\ old.breadcrumb[Len(old.breadcrumb)] = old.name
    BY <1>7, <2>1 DEF Rooted, Breadcrumbs
  <2>4. /\ terms.name = (IF e.type = "CategoryDetailsUpdated" THEN e.category.name ELSE old.name)
        /\ terms.order = (IF e.type = "CategoryReordered" THEN e.category.order ELSE old.order)
        /\ terms.is_active <=> (e.type # "CategoryDeactivated" /\ old.is_active)
        /\ terms.is_active \in BOOLEAN
    <3>1. PICK x : x = TermsShown(r, e.id)
      OBVIOUS
    <3>2. x = TermsOf(old)
      BY <1>7, <2>1, <3>1 DEF TermsShown, NodesIn
    <3>3. x.name = old.name /\ x.order = old.order /\ x.is_active = old.is_active
      BY <3>2 DEF TermsOf
    <3> QED  BY <1>1, <1>5, <1>7, <3>1, <3>3 DEF TermsAfter
  <2>5. CASE e.type = "CategoryDetailsUpdated"
    <3>1. PICK b, n : b = Breadcrumb(r, r[e.id].parent, e.category.name) /\ n = e.category.name
      OBVIOUS
    <3>2. b \in Seq(Names) /\ Len(b) = LevelBelow(old.parent) + 1 /\ b[Len(b)] = n
      <4>1. PICK p \in NodesIn(r) \cup {"None"} : p = old.parent /\ p = r[e.id].parent
        BY <2>1, <2>3
      <4>2. n \in Names /\ b = Breadcrumb(r, p, n)
        BY <1>2, <3>1, <4>1
      <4>3. b \in Seq(Names) /\ Len(b) = LevelBelow(p) + 1 /\ b[Len(b)] = n
        BY <4>2, BreadcrumbGoesUp
      <4> QED  BY <4>1, <4>3
    <3>3. z = [r EXCEPT ![e.id].name = n, ![e.id].breadcrumb = b]
      BY <2>5, <3>1 DEF on_category_tree
    <3>4. PICK node : node = [name |-> n, parent |-> old.parent, breadcrumb |-> b,
                              order |-> old.order, is_active |-> old.is_active,
                              product_count |-> old.product_count]
      OBVIOUS
    <3>5. node \in NodeType
      BY <1>2, <2>2, <3>1, <3>2, <3>4 DEF NodeType
    <3>6. z = [r EXCEPT ![e.id] = node]
      <4>1. PICK parent, m, c, o, a, k :
              old = [name |-> m, parent |-> parent, breadcrumb |-> c, order |-> o, is_active |-> a,
                     product_count |-> k]
        BY DEF NodeType
      <4>2. PICK mid : mid = [name |-> n, parent |-> parent, breadcrumb |-> c, order |-> o,
                              is_active |-> a, product_count |-> k]
        OBVIOUS
      <4>3. mid = [old EXCEPT !.name = n]
        BY <4>1, <4>2
      <4>4. node = [mid EXCEPT !.breadcrumb = b]
        BY <3>4, <4>1, <4>2
      <4>5. PICK t : t = [r EXCEPT ![e.id] = mid]
        OBVIOUS
      <4>6. t[e.id] = mid /\ t = [r EXCEPT ![e.id].name = n]
        BY <1>1, <2>1, <4>3, <4>5 DEF TreeRow
      <4>7. z = [t EXCEPT ![e.id].breadcrumb = b]
        BY <3>3, <4>6
      <4>8. z = [t EXCEPT ![e.id] = node]
        BY <4>4, <4>6, <4>7
      <4> QED  BY <1>1, <4>5, <4>8 DEF TreeRow
    <3>7. /\ node.name = n /\ node.order = old.order /\ node.is_active = old.is_active
          /\ node.parent = old.parent /\ node.breadcrumb = b
          /\ node.product_count = old.product_count
      BY <3>4
    <3>8. /\ node.name = terms.name /\ node.order = terms.order
          /\ (node.is_active <=> terms.is_active) /\ terms.is_active \in BOOLEAN
          /\ node.parent = e.category.parent
      BY <2>3, <2>4, <2>5, <3>1, <3>7
    <3>9. /\ Len(node.breadcrumb) = categories[e.id].level + 1
          /\ node.breadcrumb[Len(node.breadcrumb)] = node.name
      BY <1>3, <2>3, <3>2, <3>7
    <3>10. node.product_count = IF e.type = "CategoryCreated" THEN 0 ELSE r[e.id].product_count
      BY <1>7, <2>1, <3>7
    <3>11. Fits(node, terms)
      BY <3>5, <3>8, <3>9, <3>10
    <3> HIDE DEF Fits
    <3> QED  BY <1>4, <1>5, <3>6, <3>11
  <2>6. CASE e.type = "CategoryReordered"
    <3>1. PICK o, node : o = e.category.order /\ node = [old EXCEPT !.order = o]
      OBVIOUS
    <3>2. z = [r EXCEPT ![e.id] = node]
      BY <2>1, <2>6, <3>1 DEF on_category_tree
    <3>3. /\ node \in NodeType /\ node.name = old.name /\ node.parent = old.parent
          /\ node.breadcrumb = old.breadcrumb /\ node.order = o /\ node.is_active = old.is_active
          /\ node.product_count = old.product_count
      BY <1>2, <3>1 DEF NodeType
    <3>4. /\ node.name = terms.name /\ node.order = terms.order
          /\ (node.is_active <=> terms.is_active) /\ terms.is_active \in BOOLEAN
          /\ node.parent = e.category.parent
      BY <2>3, <2>4, <2>6, <3>1, <3>3
    <3>5. /\ Len(node.breadcrumb) = categories[e.id].level + 1
          /\ node.breadcrumb[Len(node.breadcrumb)] = node.name
      BY <2>3, <3>3
    <3>6. node.product_count = IF e.type = "CategoryCreated" THEN 0 ELSE r[e.id].product_count
      BY <1>7, <2>1, <3>3
    <3>7. Fits(node, terms)
      BY <3>3, <3>4, <3>5, <3>6
    <3> HIDE DEF Fits
    <3> QED  BY <1>4, <1>5, <3>2, <3>7
  <2>7. CASE e.type = "CategoryDeactivated"
    <3>1. PICK node : node = [old EXCEPT !.is_active = FALSE]
      OBVIOUS
    <3>2. z = [r EXCEPT ![e.id] = node]
      BY <2>1, <2>7, <3>1 DEF on_category_tree
    <3>3. /\ node \in NodeType /\ node.name = old.name /\ node.parent = old.parent
          /\ node.breadcrumb = old.breadcrumb /\ node.order = old.order /\ node.is_active = FALSE
          /\ node.product_count = old.product_count
      BY <3>1 DEF NodeType
    <3>4. /\ node.name = terms.name /\ node.order = terms.order
          /\ (node.is_active <=> terms.is_active) /\ terms.is_active \in BOOLEAN
          /\ node.parent = e.category.parent
      BY <2>3, <2>4, <2>7, <3>3
    <3>5. /\ Len(node.breadcrumb) = categories[e.id].level + 1
          /\ node.breadcrumb[Len(node.breadcrumb)] = node.name
      BY <2>3, <3>3
    <3>6. node.product_count = IF e.type = "CategoryCreated" THEN 0 ELSE r[e.id].product_count
      BY <1>7, <2>1, <3>3
    <3>7. Fits(node, terms)
      BY <3>3, <3>4, <3>5, <3>6
    <3> HIDE DEF Fits
    <3> QED  BY <1>4, <1>5, <3>2, <3>7
  <2> QED  BY <1>1, <1>7, <2>5, <2>6, <2>7
<1> QED  BY <1>6, <1>7

LEMMA TreeReadsCategory ==
  ASSUME TreeLeads(row), CategoryInv, NEW e, ReadsCategory(e), row' = on_category_tree(row, e)
  PROVE  TreeLeads(row)'
<1>1. PICK z : z = row'
  OBVIOUS
<1>2. PICK S, T : S = NodesIn(row) /\ T = IF e.type = "CategoryCreated" THEN S \cup {e.id} ELSE S
  OBVIOUS
<1>3. /\ row \in TreeRow /\ Rooted(row) /\ ToldOf(S) /\ TermsLeadOn(row) /\ Breadcrumbs(row)
      /\ TreeCounts(row)
  BY <1>2 DEF TreeLeads
<1>4. /\ e \in CategoryEvent /\ Known' = Known /\ categories' = categories
      /\ category_of' = category_of /\ (overtook' <=> overtook) /\ (Pending' <=> Pending)
      /\ ~redelivered' => ~redelivered
      /\ e.id \in Known /\ e.category.parent = categories[e.id].parent
      /\ e.id \in CategoryIds
  BY DEF ReadsCategory, CategoryEvent
<1>5. /\ ToldOf(T)'
      /\ IF e.type = "CategoryCreated" THEN e.category.parent \in S \cup {"None"} ELSE e.id \in S
      /\ ~redelivered' /\ e.type = "CategoryCreated" => e.id \notin S
  BY <1>2, <1>3, ToldRead
<1>6. NodeBecomes(row, e, z)
  BY <1>1, <1>2, <1>3, <1>4, <1>5, NodeChanges
<1>7. PICK node \in NodeType : node = z[e.id]
  BY <1>6 DEF NodeBecomes
<1>8. /\ z \in TreeRow /\ \A c \in CategoryIds : c # e.id => z[c] = row[c]
      /\ TermsOf(node) = TermsAfter(TermsShown(row, e.id), e)
      /\ node.parent = e.category.parent
      /\ Len(node.breadcrumb) = categories[e.id].level + 1
      /\ node.breadcrumb[Len(node.breadcrumb)] = node.name
      /\ node.product_count = IF e.type = "CategoryCreated" THEN 0 ELSE row[e.id].product_count
  BY <1>6, <1>7 DEF NodeBecomes
<1>9. node # NoNode
  <2>1. node.name \in Names /\ NoNode.name \notin Names
    BY <1>7 DEF NodeType, NoNode, Names
  <2> QED  BY <2>1
<1>10. /\ NodesIn(z) = T /\ S \subseteq CategoryIds /\ e.id \in T
       /\ \A c \in T : c = e.id \/ (c \in S /\ z[c] = row[c])
  <2>1. \A c \in CategoryIds : c \in NodesIn(z) <=> c \in S \/ c = e.id
    BY <1>2, <1>4, <1>7, <1>8, <1>9 DEF NodesIn
  <2>2. e.type # "CategoryCreated" => e.id \in S
    BY <1>5
  <2>3. NodesIn(z) \subseteq CategoryIds /\ S \subseteq CategoryIds
    BY <1>2 DEF NodesIn
  <2>4. NodesIn(z) = T /\ e.id \in T
    BY <1>2, <1>4, <2>1, <2>2, <2>3
  <2>5. \A c \in T : c = e.id \/ (c \in S /\ z[c] = row[c])
    BY <1>2, <1>8, <2>3
  <2> QED  BY <2>3, <2>4, <2>5
<1>11. NodesIn(row)' = T
  BY <1>1, <1>10 DEF NodesIn
<1>12. Rooted(row)'
  <2>1. ASSUME NEW c \in T
        PROVE  c \in Known /\ z[c].parent = categories[c].parent /\ z[c].parent \in T \cup {"None"}
    <3>1. CASE c = e.id
      <4>1. z[c].parent = e.category.parent
        BY <1>7, <1>8, <3>1
      <4>2. e.category.parent \in T \cup {"None"}
        <5>1. CASE e.type = "CategoryCreated"
          BY <1>2, <1>5, <5>1
        <5>2. CASE e.type # "CategoryCreated"
          <6>1. row[e.id].parent = e.category.parent /\ row[e.id].parent \in S \cup {"None"}
            BY <1>2, <1>3, <1>4, <1>5, <5>2 DEF Rooted
          <6> QED  BY <1>2, <5>2, <6>1
        <5> QED  BY <5>1, <5>2
      <4> QED  BY <1>4, <3>1, <4>1, <4>2
    <3>2. CASE c # e.id
      <4>1. c \in S /\ z[c] = row[c]
        BY <1>10, <3>2
      <4>2. c \in Known /\ row[c].parent = categories[c].parent /\ row[c].parent \in S \cup {"None"}
        BY <1>2, <1>3, <4>1 DEF Rooted
      <4> QED  BY <1>2, <4>1, <4>2
    <3> QED  BY <3>1, <3>2
  <2> QED  BY <1>1, <1>4, <1>11, <2>1 DEF Rooted
<1>13. ToldOf(NodesIn(row))'
  BY <1>5, <1>11 DEF ToldOf
<1>14. TermsLeadOn(row)'
  <2>1. ASSUME NEW c \in CategoryIds
        PROVE  Leads(TermSteps(c), TermsShown(row, c)', category_unread', TermsOf(categories[c]))
    <3>1. PICK x, y, w : /\ x = TermsShown(row, c) /\ y = TermsOf(categories[c])
                         /\ w = IF e.id = c THEN TermsAfter(x, e) ELSE x
      OBVIOUS
    <3>2. Leads(TermSteps(c), x, category_unread, y)
      BY <1>3, <3>1 DEF TermsLeadOn
    <3>3. Leads(TermSteps(c), w, category_unread', y)
      BY <3>1, <3>2, TermsOfRead
    <3>4. TermsShown(row, c)' = w
      <4>1. TermsShown(row, c)' = TermsShown(z, c)
        BY <1>1 DEF TermsShown
      <4>2. CASE c = e.id
        BY <1>7, <1>8, <1>9, <3>1, <4>1, <4>2 DEF TermsShown
      <4>3. CASE c # e.id
        BY <1>8, <3>1, <4>1, <4>3 DEF TermsShown
      <4> QED  BY <4>2, <4>3
    <3> QED  BY <3>1, <3>3, <3>4
  <2> QED  BY <1>4, <2>1 DEF TermsLeadOn
<1>15. Breadcrumbs(row)'
  <2>1. ASSUME NEW c \in T
        PROVE  /\ Len(z[c].breadcrumb) = categories[c].level + 1
               /\ z[c].breadcrumb[Len(z[c].breadcrumb)] = z[c].name
    <3>1. CASE c = e.id
      BY <1>7, <1>8, <3>1
    <3>2. CASE c # e.id
      BY <1>2, <1>3, <1>10, <3>2 DEF Breadcrumbs
    <3> QED  BY <3>1, <3>2
  <2> QED  BY <1>1, <1>4, <1>11, <2>1 DEF Breadcrumbs
<1>16. TreeCounts(row)'
  <2> SUFFICES ASSUME ~redelivered', ~overtook'
               PROVE  /\ ~Pending => category_of \in T
                      /\ \A c \in T : z[c].product_count = IF c = category_of /\ ~Pending THEN 1 ELSE 0
    BY <1>1, <1>4, <1>11 DEF TreeCounts
  <2>1. /\ ~Pending => category_of \in S
        /\ \A c \in S : row[c].product_count = IF c = category_of /\ ~Pending THEN 1 ELSE 0
    BY <1>2, <1>3, <1>4 DEF TreeCounts
  <2>2. ASSUME NEW c \in T
        PROVE  z[c].product_count = IF c = category_of /\ ~Pending THEN 1 ELSE 0
    <3>1. CASE c # e.id
      BY <1>10, <2>1, <3>1
    <3>2. CASE c = e.id /\ e.type = "CategoryCreated"
      <4>1. c \notin S /\ z[c].product_count = 0
        BY <1>5, <1>7, <1>8, <3>2
      <4> QED  BY <2>1, <4>1
    <3>3. CASE c = e.id /\ e.type # "CategoryCreated"
      <4>1. c \in S /\ z[c].product_count = row[c].product_count
        BY <1>5, <1>7, <1>8, <3>3
      <4> QED  BY <2>1, <4>1
    <3> QED  BY <3>1, <3>2, <3>3
  <2> QED  BY <1>2, <2>1, <2>2
<1> QED  BY <1>1, <1>8, <1>12, <1>13, <1>14, <1>15, <1>16 DEF TreeLeads

LEMMA ListReadsCategory ==
  ASSUME ListLeads(row), CategoryInv, NEW e, ReadsCategory(e), row' = on_category_products(row, e)
  PROVE  ListLeads(row)'
<1>1. PICK z : z = row'
  OBVIOUS
<1>2. /\ e \in CategoryEvent /\ category_of' = category_of
      /\ product' = product /\ title' = title /\ unread' = unread
      /\ (overtook' <=> overtook) /\ (Pending' <=> Pending)
      /\ ~redelivered' => ~redelivered
  BY DEF ReadsCategory
<1>3. /\ row \in ListRow /\ ListTold(row) /\ ListCounts(row)
      /\ \A k \in DOMAIN row.products : EntryFollows(row.products[k])
      /\ Pending => EntryFollows(NewEntry)
  BY DEF ListLeads
<1>4. PICK S, T : /\ ToldOf(S) /\ (row.exists <=> category_of \in S)
                  /\ T = IF e.type = "CategoryCreated" THEN S \cup {e.id} ELSE S
  BY <1>3 DEF ListTold
<1>5. ToldOf(T)' /\ (~redelivered' /\ e.type = "CategoryCreated" => e.id \notin S)
  BY <1>4, ToldRead
<1>6. e.type \in {"CategoryCreated", "CategoryDetailsUpdated", "CategoryReordered",
                  "CategoryDeactivated"}
  BY <1>2 DEF CategoryEvent
<1>7. Pending' => EntryFollows(NewEntry)'
  BY <1>2, <1>3 DEF EntryFollows
<1>8. CASE e.type = "CategoryCreated" /\ e.id = category_of
  <2>1. z = [exists |-> TRUE, products |-> << >>]
    BY <1>1, <1>8 DEF on_category_products, StatusListed
  <2>2. z.exists = TRUE /\ z.products = << >> /\ DOMAIN z.products = {} /\ Len(z.products) = 0
    BY <2>1
  <2>3. z \in ListRow
    <3>1. << >> \in Seq(ListEntry)
      OBVIOUS
    <3> QED  BY <2>1, <3>1 DEF ListRow
  <2>4. ListTold(row)'
    BY <1>1, <1>2, <1>4, <1>5, <1>8, <2>2 DEF ListTold
  <2>5. ListCounts(row)'
    <3>1. ~redelivered' => Pending \/ overtook
      BY <1>2, <1>3, <1>4, <1>5, <1>8 DEF ListCounts
    <3> QED  BY <1>1, <1>2, <2>2, <3>1 DEF ListCounts
  <2> QED  BY <1>1, <1>7, <2>2, <2>3, <2>4, <2>5 DEF ListLeads
<1>9. CASE ~(e.type = "CategoryCreated" /\ e.id = category_of)
  <2>1. z = row
    BY <1>1, <1>6, <1>9 DEF on_category_products, StatusListed
  <2>2. ListTold(row)'
    <3>1. category_of \in T <=> category_of \in S
      BY <1>4, <1>9
    <3> QED  BY <1>1, <1>2, <1>4, <1>5, <2>1, <3>1 DEF ListTold
  <2>3. ListCounts(row)'
    BY <1>1, <1>2, <1>3, <2>1 DEF ListCounts
  <2>4. ASSUME NEW k \in DOMAIN row'.products PROVE EntryFollows(row.products[k])'
    <3>1. EntryFollows(row.products[k])
      BY <1>1, <1>3, <2>1, <2>4
    <3> QED  BY <1>1, <1>2, <2>1, <3>1 DEF EntryFollows
  <2> QED  BY <1>1, <1>3, <1>7, <2>1, <2>2, <2>3, <2>4 DEF ListLeads
<1> QED  BY <1>8, <1>9

LEMMA CategoryProjectionKeepsCategoryViews ==
  ASSUME CategoryViewInv, CategoryProjection
  PROVE  CategoryViewInv'
<1>1. PICK e : e = Head(category_unread)
  OBVIOUS
<1>2. /\ ReadsCategory(e) /\ view' = view
      /\ row' = CategoryProjected(row, e)
      /\ ProductInv' /\ CategoryInv' /\ UnreadParents'
      /\ unread' \in Seq(ProductEvent) /\ CreatedFirst'
      /\ category_unread' \in Seq(CategoryEvent)
      /\ ~redelivered' /\ Pending' => ~overtook'
  BY <1>1, ReadsCategoryEvent
<1>3. view = "category_tree" => TreeLeads(row)'
  <2> SUFFICES ASSUME view = "category_tree" PROVE TreeLeads(row)'
    OBVIOUS
  <2>1. TreeLeads(row) /\ CategoryInv
    BY DEF CategoryViewInv
  <2>2. row' = on_category_tree(row, e)
    BY <1>2 DEF CategoryProjected
  <2> QED  BY <1>2, <2>1, <2>2, TreeReadsCategory
<1>4. view = "category_products" => ListLeads(row)'
  <2> SUFFICES ASSUME view = "category_products" PROVE ListLeads(row)'
    OBVIOUS
  <2>1. ListLeads(row) /\ CategoryInv
    BY DEF CategoryViewInv
  <2>2. row' = on_category_products(row, e)
    BY <1>2 DEF CategoryProjected
  <2> QED  BY <1>2, <2>1, <2>2, ListReadsCategory
<1>5. /\ view' \in CategoryViews
      /\ ~redelivered' /\ Pending' => ~overtook'
      /\ view' = "category_tree" => TreeLeads(row)'
      /\ view' = "category_products" => ListLeads(row)'
  BY <1>2, <1>3, <1>4 DEF CategoryViewInv
<1> QED  BY <1>2, <1>5, Zenon DEF CategoryViewInv

------------------------------------------------------------------------------
(***************************************************************************)
(* The catalogue as a whole: where it starts, what follows from the        *)
(* invariant, and that every step keeps it.                                *)
(***************************************************************************)
LEMMA NoCategoriesYet ==
  ASSUME NoCategories
  PROVE  CategoryInv /\ Known = {} /\ \A c \in CategoryIds : categories[c] = NoCategory
<1>1. Known = {} /\ \A c \in CategoryIds : categories[c] = NoCategory
  BY DEF NoCategories, Known
<1>2. categories \in [CategoryIds -> CategoryType \cup {NoCategory}]
  BY DEF NoCategories
<1> QED  BY <1>1, <1>2 DEF CategoryInv, NoCategories

LEMMA CategoryViewsStart ==
  ASSUME CategoriesInit
  PROVE  CategoryViewInv
<1>1. ProductInv /\ product = "Draft" /\ title = "old"
  BY ProductCreated DEF CategoriesInit
<1>2. CategoryInv /\ Known = {} /\ \A c \in CategoryIds : categories[c] = NoCategory
  BY NoCategoriesYet DEF CategoriesInit
<1>3. PICK e : e = [type |-> "ProductCreated"]
  OBVIOUS
<1>4. /\ view \in CategoryViews /\ row = CategoryRow /\ unread = <<e>> /\ redelivered = FALSE
      /\ category_unread = << >> /\ overtook = FALSE /\ category_of \in CategoryIds
  BY <1>3 DEF CategoriesInit, NoCategories
<1>5. e \in ProductEvent /\ e.type = "ProductCreated"
  BY <1>3 DEF ProductEvent
<1>6. /\ unread \in Seq(ProductEvent) /\ Len(unread) = 1 /\ unread[1] = e
      /\ category_unread \in Seq(CategoryEvent) /\ Len(category_unread) = 0
  BY <1>4, <1>5
<1>7. Pending /\ CreatedFirst /\ UnreadParents
  <2>1. 1 \in 1..1 /\ 2..1 = {} /\ 1..0 = {}
    OBVIOUS
  <2>2. Pending
    BY <1>5, <1>6, <2>1 DEF Pending
  <2>3. CreatedFirst
    BY <1>6, <2>1 DEF CreatedFirst
  <2>4. UnreadParents
    BY <1>6, <2>1 DEF UnreadParents
  <2> QED  BY <2>2, <2>3, <2>4
<1>8. \A steps, x : Leads(steps, x, category_unread, x)
  BY <1>4, LeadsNone
<1>9. ToldOf({})
  BY <1>2, <1>8 DEF ToldOf
<1>10. view = "category_tree" => TreeLeads(row)
  <2> SUFFICES ASSUME view = "category_tree" PROVE TreeLeads(row)
    OBVIOUS
  <2>1. row = [c \in CategoryIds |-> NoNode]
    BY <1>4 DEF CategoryRow
  <2>2. row \in TreeRow /\ NodesIn(row) = {} /\ \A c \in CategoryIds : row[c] = NoNode
    BY <2>1 DEF TreeRow, NodesIn
  <2>3. ASSUME NEW c \in CategoryIds PROVE TermsShown(row, c) = TermsOf(categories[c])
    <3>1. TermsOf(NoCategory) = NoTerms
      BY DEF TermsOf, NoCategory, NoTerms
    <3> QED  BY <1>2, <2>2, <3>1 DEF TermsShown
  <2>4. TermsLeadOn(row)
    BY <1>8, <2>3 DEF TermsLeadOn
  <2>5. Rooted(row) /\ Breadcrumbs(row) /\ TreeCounts(row) /\ ToldOf(NodesIn(row))
    BY <1>7, <1>9, <2>2 DEF Rooted, Breadcrumbs, TreeCounts
  <2> QED  BY <2>2, <2>4, <2>5 DEF TreeLeads
<1>11. EntryFollows(NewEntry)
  <2>1. \A steps, x : <<x, e, x>> \in steps => Leads(steps, x, unread, x)
    <3>1. ASSUME NEW steps, NEW x, <<x, e, x>> \in steps PROVE Leads(steps, x, unread, x)
      <4>1. Leads(steps, x, << >>, x)
        BY LeadsNone
      <4>2. << >> \in Seq(ProductEvent) /\ << >> \o <<e>> = unread
        BY <1>4
      <4> QED  BY <1>5, <3>1, <4>1, <4>2, LeadsMore
    <3> QED  BY <3>1
  <2>2. <<"old", e, "old">> \in TitleSteps
    BY <1>5 DEF TitleSteps, Names
  <2>3. <<"Draft", e, "Draft">> \in SpelledSteps
    BY <1>5 DEF SpelledSteps, ListedStatuses, StatusChanges
  <2>4. Spelled[product] = "Draft"
    BY <1>1 DEF Spelled
  <2> QED  BY <1>1, <2>1, <2>2, <2>3, <2>4 DEF EntryFollows, NewEntry
<1>12. view = "category_products" => ListLeads(row)
  <2> SUFFICES ASSUME view = "category_products" PROVE ListLeads(row)
    OBVIOUS
  <2>1. row = [exists |-> FALSE, products |-> << >>]
    BY <1>4 DEF CategoryRow
  <2>2. row \in ListRow
    <3>1. << >> \in Seq(ListEntry)
      OBVIOUS
    <3> QED  BY <2>1, <3>1 DEF ListRow
  <2>3. row.exists = FALSE /\ DOMAIN row.products = {} /\ Len(row.products) = 0
    BY <2>1
  <2>4. ListTold(row)
    BY <1>9, <2>3 DEF ListTold
  <2>5. ListCounts(row)
    BY <1>7, <2>3 DEF ListCounts
  <2> QED  BY <1>11, <2>2, <2>3, <2>4, <2>5 DEF ListLeads
<1> QED  BY <1>1, <1>2, <1>4, <1>6, <1>7, <1>10, <1>12, Zenon DEF CategoryViewInv

LEMMA LevelsFollow ==
  ASSUME CategoryInv
  PROVE  \A c \in Known : /\ categories[c].level <= MaxLevel
                          /\ categories[c].parent # "None" =>
                               /\ categories[c].parent \in Known
                               /\ categories[categories[c].parent].level = categories[c].level - 1
<1>1. ASSUME NEW c \in Known, categories[c].parent # "None"
      PROVE  /\ categories[c].parent \in Known
             /\ categories[categories[c].parent].level = categories[c].level - 1
  <2>1. PICK p \in Known : p = categories[c].parent /\ categories[c].level = LevelBelow(p)
    BY <1>1 DEF CategoryInv
  <2>2. p # "None" /\ categories[p].level \in Nat
    BY <1>1, <2>1, CategoryFacts DEF CategoryType
  <2>3. categories[c].level = categories[p].level + 1
    BY <2>1, <2>2 DEF LevelBelow
  <2> QED  BY <2>1, <2>2, <2>3
<1> QED  BY <1>1 DEF CategoryInv

(* What the invariant says of a projection that caught up with both.       *)
LEMMA TreeFollowsBoth ==
  ASSUME CategoryInv, TreeLeads(row), unread = << >>, category_unread = << >>
  PROVE  TreeFollows
<1>1. \A steps, x, y : Leads(steps, x, category_unread, y) => y = x
  BY LeadsNone
<1>2. NodesIn(row) = Known
  BY <1>1 DEF TreeLeads, ToldOf
<1>3. ~Pending
  <2>1. Len(unread) = 0 /\ 1..0 = {}
    OBVIOUS
  <2> QED  BY <2>1 DEF Pending
<1>4. ASSUME NEW c \in CategoryIds
      PROVE  /\ (row[c] = NoNode) = (c \notin Known)
             /\ c \in Known =>
                  /\ row[c].name = categories[c].name
                  /\ row[c].order = categories[c].order
                  /\ row[c].is_active = categories[c].is_active
                  /\ Len(row[c].breadcrumb) = categories[c].level + 1
                  /\ row[c].breadcrumb[Len(row[c].breadcrumb)] = categories[c].name
                  /\ ~redelivered /\ ~overtook =>
                       row[c].product_count = IF c = category_of THEN 1 ELSE 0
  <2>1. row[c] # NoNode <=> c \in Known
    BY <1>2 DEF NodesIn
  <2>2. TermsShown(row, c) = TermsOf(categories[c])
    BY <1>1 DEF TreeLeads, TermsLeadOn
  <2>3. ASSUME c \in Known
        PROVE  /\ row[c].name = categories[c].name
               /\ row[c].order = categories[c].order
               /\ row[c].is_active = categories[c].is_active
    <3>1. TermsOf(row[c]) = TermsOf(categories[c])
      BY <2>1, <2>2, <2>3 DEF TermsShown
    <3> QED  BY <3>1 DEF TermsOf
  <2>4. ASSUME c \in Known
        PROVE  /\ Len(row[c].breadcrumb) = categories[c].level + 1
               /\ row[c].breadcrumb[Len(row[c].breadcrumb)] = categories[c].name
    BY <1>2, <2>3, <2>4 DEF TreeLeads, Breadcrumbs
  <2>5. ASSUME c \in Known, ~redelivered, ~overtook
        PROVE  row[c].product_count = IF c = category_of THEN 1 ELSE 0
    BY <1>2, <1>3, <2>5 DEF TreeLeads, TreeCounts
  <2> QED  BY <2>1, <2>3, <2>4, <2>5
<1> QED  BY <1>4 DEF TreeFollows

LEMMA ListFollowsBoth ==
  ASSUME ListLeads(row), unread = << >>
  PROVE  CategoryProductsFollow
<1>1. \A steps, x, y : Leads(steps, x, unread, y) => y = x
  BY LeadsNone
<1>2. ~Pending
  <2>1. Len(unread) = 0 /\ 1..0 = {}
    OBVIOUS
  <2> QED  BY <2>1 DEF Pending
<1>3. ~redelivered => Len(row.products) = IF overtook THEN 0 ELSE 1
  BY <1>2 DEF ListLeads, ListCounts
<1>4. ASSUME NEW k \in DOMAIN row.products
      PROVE  row.products[k] = [title |-> title, status |-> Spelled[product]]
  <2>1. PICK list \in Seq(ListEntry) : list = row.products
    BY DEF ListLeads, ListRow
  <2>2. PICK x \in ListEntry : x = row.products[k]
    BY <1>4, <2>1
  <2>3. x.title = title /\ x.status = Spelled[product]
    BY <1>1, <1>4, <2>2 DEF ListLeads, EntryFollows
  <2>4. x = [title |-> x.title, status |-> x.status]
    BY DEF ListEntry
  <2> QED  BY <2>2, <2>3, <2>4
<1> QED  BY <1>3, <1>4 DEF CategoryProductsFollow

LEMMA CategoryViewsFollow ==
  ASSUME CategoryViewInv
  PROVE  CatalogueViewsFollow
<1>1. ProductHolds /\ CategoryInv /\ view \in CategoryViews
  BY ProductInvHolds DEF CategoryViewInv
<1>2. view \in {"category_tree", "category_products"}
  BY <1>1 DEF CategoryViews
<1>3. CatalogueFollows
  <2>1. ( CASE view = "product_card" -> ProductCardFollows
            [] view = "product_detail" -> ProductDetailFollows
            [] view = "seller_catalogue" ->
                 SameTerms /\ (~redelivered => row.variant_count = Cardinality(Offered))
            [] view = "price_history" -> HistoryFollows
            [] view = "stock" ->
                 \A v \in VariantIds : /\ (row[v] > 0) = (v \in Offered)
                                       /\ ~redelivered => row[v] <= 1
            [] OTHER -> TRUE )
    BY <1>2
  <2> QED  BY <1>1, <2>1, Zenon DEF CatalogueFollows, ProductHolds
<1>4. CategoriesFollow
  <2>1. ASSUME CaughtUp, category_unread = << >>, view = "category_tree" PROVE TreeFollows
    BY <1>1, <2>1, TreeFollowsBoth DEF CategoryViewInv, CaughtUp
  <2>2. ASSUME CaughtUp, view = "category_products" PROVE CategoryProductsFollow
    BY <2>2, ListFollowsBoth DEF CategoryViewInv, CaughtUp
  <2>3. ASSUME CaughtUp, category_unread = << >>
        PROVE  ( CASE view = "category_tree" -> TreeFollows
                   [] view = "category_products" -> CategoryProductsFollow
                   [] OTHER -> TRUE )
    BY <1>2, <2>1, <2>2, <2>3
  <2> QED  BY <1>1, <2>3, LevelsFollow, Zenon DEF CategoriesFollow
<1> QED  BY <1>3, <1>4 DEF CatalogueViewsFollow

LEMMA StutterKeepsCategoryViews ==
  ASSUME CategoryViewInv, UNCHANGED categories_vars
  PROVE  CategoryViewInv'
<1>1. /\ product' = product /\ title' = title /\ variants' = variants /\ images' = images
      /\ view' = view /\ row' = row /\ unread' = unread /\ redelivered' = redelivered
      /\ categories' = categories /\ category_of' = category_of
      /\ category_unread' = category_unread /\ overtook' = overtook
  BY DEF categories_vars, category_vars, catalogue_vars, product_vars, read_vars
<1>2. Offered' = Offered /\ Shown' = Shown /\ Primary' = Primary /\ Known' = Known
  BY <1>1 DEF Offered, Shown, Primary, Known
<1>3. ProductInv'
  BY <1>1, <1>2 DEF CategoryViewInv, ProductInv
<1>4. CategoryInv' /\ UnreadParents'
  BY <1>1, <1>2 DEF CategoryViewInv, CategoryInv, LevelBelow, UnreadParents
<1>5. (Pending' <=> Pending) /\ CreatedFirst'
  BY <1>1 DEF CategoryViewInv, Pending, CreatedFirst
<1>6. \A S : ToldOf(S) => ToldOf(S)'
  BY <1>1, <1>2 DEF ToldOf
<1>7. TreeLeads(row) => TreeLeads(row)'
  <2>1. PICK S : S = NodesIn(row) /\ S = NodesIn(row)'
    BY <1>1 DEF NodesIn
  <2>2. ToldOf(NodesIn(row)) => ToldOf(NodesIn(row))'
    <3>1. ToldOf(S) => ToldOf(S)'
      BY <1>6
    <3> QED  BY <2>1, <3>1 DEF ToldOf
  <2>3. TermsLeadOn(row) => TermsLeadOn(row)'
    BY <1>1 DEF TermsLeadOn, TermsShown
  <2>4. Rooted(row) => Rooted(row)'
    BY <1>1, <1>2 DEF Rooted, NodesIn
  <2>5. Breadcrumbs(row) => Breadcrumbs(row)'
    BY <1>1 DEF Breadcrumbs, NodesIn
  <2>6. TreeCounts(row) => TreeCounts(row)'
    BY <1>1, <1>5 DEF TreeCounts, NodesIn
  <2> QED  BY <1>1, <2>2, <2>3, <2>4, <2>5, <2>6 DEF TreeLeads
<1>8. ListLeads(row) => ListLeads(row)'
  <2>1. ListTold(row) => ListTold(row)'
    BY <1>1, <1>6 DEF ListTold
  <2>2. ListCounts(row) => ListCounts(row)'
    BY <1>1, <1>5 DEF ListCounts
  <2>3. \A x : EntryFollows(x) => EntryFollows(x)'
    BY <1>1 DEF EntryFollows
  <2>4. ASSUME NEW k, EntryFollows(row.products[k]) PROVE EntryFollows(row.products[k])'
    <3>1. PICK x : x = row.products[k]
      OBVIOUS
    <3> QED  BY <1>1, <2>3, <2>4, <3>1 DEF EntryFollows
  <2>5. EntryFollows(NewEntry) => EntryFollows(NewEntry)'
    BY <2>3
  <2> QED  BY <1>1, <1>5, <2>1, <2>2, <2>4, <2>5 DEF ListLeads
<1>9. /\ view' \in CategoryViews /\ unread' \in Seq(ProductEvent)
      /\ category_unread' \in Seq(CategoryEvent)
      /\ ~redelivered' /\ Pending' => ~overtook'
      /\ view' = "category_tree" => TreeLeads(row)'
      /\ view' = "category_products" => ListLeads(row)'
  BY <1>1, <1>5, <1>7, <1>8 DEF CategoryViewInv
<1> QED  BY <1>3, <1>4, <1>5, <1>9, Zenon DEF CategoryViewInv

(* Either a projection of the product is watched or one of categories;     *)
(* categories keep to their levels in both cases.                          *)
CatalogueViewsInv == CategoryInv /\ (ProductViewInv \/ CategoryViewInv)

LEMMA CatalogueViewsKept ==
  ASSUME CatalogueViewsInv, [CatalogueViewsNext]_categories_vars
  PROVE  CatalogueViewsInv'
<1>1. view \in ProductViews => view \notin CategoryViews
  BY DEF ProductViews, CategoryViews
<1>2. /\ ProductViewInv => view \in ProductViews
      /\ CategoryViewInv => view \in CategoryViews
  BY DEF ProductViewInv, CategoryViewInv
<1>3. CASE ProductViewInv
  <2>1. CategoryInv'
    <3>1. UNCHANGED category_vars
      BY <1>1, <1>2, <1>3 DEF CatalogueViewsNext, categories_vars
    <3>2. Known' = Known /\ categories' = categories /\ category_of' = category_of
      BY <3>1 DEF category_vars, Known
    <3> QED  BY <3>2 DEF CatalogueViewsInv, CategoryInv, LevelBelow
  <2>2. ProductViewInv'
    <3>1. [CatalogueNext]_catalogue_vars
      BY <1>1, <1>2, <1>3 DEF CatalogueViewsNext, categories_vars
    <3> QED  BY <1>3, <3>1, CommandKeepsProductViews, ProjectionKeepsProductViews,
                StutterKeepsProductViews DEF CatalogueNext
  <2> QED  BY <2>1, <2>2 DEF CatalogueViewsInv
<1>4. CASE CategoryViewInv
  <2>1. CategoriesNext \/ UNCHANGED categories_vars
    BY <1>1, <1>2, <1>4 DEF CatalogueViewsNext
  <2>2. CategoryViewInv'
    BY <1>4, <2>1, CategoryCommandKeepsCategoryViews, ProductCommandKeepsCategoryViews,
       ProductProjectionKeepsCategoryViews, CategoryProjectionKeepsCategoryViews,
       StutterKeepsCategoryViews, Zenon DEF CategoriesNext
  <2> QED  BY <2>2 DEF CatalogueViewsInv, CategoryViewInv
<1> QED  BY <1>3, <1>4 DEF CatalogueViewsInv

(* However sellers change a product and categories are created, renamed,   *)
(* reordered and deactivated while events of the two streams wait, and     *)
(* although one event may be handled twice, a projection that caught up    *)
(* shows the product, its variants, prices and images as they are, and     *)
(* every category with its name, order and breadcrumb below a parent that  *)
(* exists; counts hold as long as no event was handled twice and the       *)
(* category was known before the product (catalogue/projections).          *)
THEOREM CatalogueIsShown == CatalogueViewsSpec => []CatalogueViewsFollow
<1>1. CatalogueViewsInit => CatalogueViewsInv
  <2>1. CASE CatalogueInit /\ NoCategories
    BY <2>1, ProductViewsStart, NoCategoriesYet DEF CatalogueViewsInv
  <2>2. CASE CategoriesInit
    BY <2>2, CategoryViewsStart DEF CatalogueViewsInv, CategoryViewInv
  <2> QED  BY <2>1, <2>2 DEF CatalogueViewsInit
<1>2. CatalogueViewsInv /\ [CatalogueViewsNext]_categories_vars => CatalogueViewsInv'
  BY CatalogueViewsKept
<1>3. CatalogueViewsInv => CatalogueViewsFollow
  <2>1. ASSUME CategoryInv, ProductViewInv PROVE CatalogueViewsFollow
    <3>1. CatalogueFollows
      BY <2>1, ProductViewsFollow
    <3>2. view \notin {"category_tree", "category_products"}
      BY <2>1 DEF ProductViewInv, ProductViews
    <3>3. ( CASE view = "category_tree" -> TreeFollows
              [] view = "category_products" -> CategoryProductsFollow
              [] OTHER -> TRUE )
      BY <3>2
    <3>4. CategoriesFollow
      BY <2>1, <3>3, LevelsFollow, Zenon DEF CategoriesFollow
    <3> QED  BY <3>1, <3>4 DEF CatalogueViewsFollow
  <2> QED  BY <2>1, CategoryViewsFollow DEF CatalogueViewsInv
<1> QED  BY <1>1, <1>2, <1>3, PTL DEF CatalogueViewsSpec
==============================================================================
