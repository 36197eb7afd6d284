------------------------------ MODULE Categories ------------------------------
(***************************************************************************)
(* Category (catalogue/category), with the two projections that follow     *)
(* categories and products, for several categories and one product.  Each  *)
(* of their projectors reads the two streams side by side: the product's,  *)
(* as in Catalogue, and the categories', which is here.                    *)
(***************************************************************************)
EXTENDS Catalogue

CONSTANTS
  CategoryIds,  \* uuid4 values categories may get
  MaxLevel      \* 4 in the code

ASSUME CategoriesAssumption == MaxLevel \in Nat /\ "None" \notin CategoryIds

VARIABLES
  categories,       \* category id -> Category, NoCategory where there is none
  category_of,      \* the category the product was created with; nobody checks that it exists
  category_unread,  \* events of categories the projector has not acknowledged
  overtook          \* the product was projected before its category

category_vars == <<categories, category_of>>

categories_vars == <<catalogue_vars, category_vars, category_unread, overtook>>

------------------------------------------------------------------------------
NoCategory == [name |-> "none", parent |-> "None", level |-> 0, order |-> 0, is_active |-> FALSE]

Known == {c \in CategoryIds : categories[c] # NoCategory}

ChangeCategory(c, category, type) ==
  /\ categories' = [categories EXCEPT ![c] = category]
  /\ Len(category_unread) < MaxUnread
  /\ category_unread' = Append(category_unread, [type |-> type, id |-> c, category |-> category])
  /\ UNCHANGED <<catalogue_vars, category_of, overtook>>

(* One level below its parent, which need not be active.                   *)
CreateCategory ==
  \E c \in CategoryIds \ Known, parent \in Known \cup {"None"} :
    LET level == IF parent = "None" THEN 0 ELSE categories[parent].level + 1 IN
    /\ level <= MaxLevel
    /\ ChangeCategory(c, [name |-> "old", parent |-> parent, level |-> level, order |-> 0,
                          is_active |-> TRUE], "CategoryCreated")

UpdateCategory(c) ==
  /\ c \in Known
  /\ \E name \in {"old", "new"} :
       ChangeCategory(c, [categories[c] EXCEPT !.name = name], "CategoryDetailsUpdated")

ReorderCategory(c) ==
  /\ c \in Known
  /\ \E new_order \in 0..1 :
       ChangeCategory(c, [categories[c] EXCEPT !.order = new_order], "CategoryReordered")

DeactivateCategory(c) ==
  /\ c \in Known
  /\ categories[c].is_active
  /\ ChangeCategory(c, [categories[c] EXCEPT !.is_active = FALSE], "CategoryDeactivated")

CategoryCommand ==
  \/ CreateCategory
  \/ \E c \in CategoryIds : UpdateCategory(c) \/ ReorderCategory(c) \/ DeactivateCategory(c)

------------------------------------------------------------------------------
(* Projectors: what the projection is after event e of either stream, if   *)
(* it was r before.                                                        *)
CategoryViews == {"category_tree", "category_products"}

NoNode == [name |-> "none"]

(* _build_breadcrumb: the names that the rows of the ancestors now hold.   *)
Breadcrumb(r, parent, name) ==
  LET above[c \in CategoryIds \cup {"None"}] ==
        IF c = "None" \/ r[c] = NoNode THEN << >>
        ELSE Append(above[r[c].parent], r[c].name)
  IN  Append(above[parent], name)

on_category_tree(r, e) ==
  CASE e.type = "CategoryCreated" ->
         [r EXCEPT ![e.id] = [name |-> e.category.name, parent |-> e.category.parent,
                              breadcrumb |-> Breadcrumb(r, e.category.parent, e.category.name),
                              order |-> 0, is_active |-> TRUE, product_count |-> 0]]
    [] e.type = "CategoryDetailsUpdated" ->
         [r EXCEPT ![e.id].name = e.category.name,
                   ![e.id].breadcrumb = Breadcrumb(r, r[e.id].parent, e.category.name)]
    [] e.type = "CategoryReordered" -> [r EXCEPT ![e.id].order = e.category.order]
    [] e.type = "CategoryDeactivated" -> [r EXCEPT ![e.id].is_active = FALSE]
    [] e.type = "ProductCreated" /\ r[category_of] # NoNode ->
         [r EXCEPT ![category_of].product_count = @ + 1]
    [] OTHER -> r

(* The statuses of the life cycle, as the category's list spells them.     *)
StatusListed == [ProductActivated |-> "active", ProductDiscontinued |-> "discontinued",
                 ProductArchived |-> "archived"]

(* The row of the product's category.                                      *)
on_category_products(r, e) ==
  CASE e.type = "CategoryCreated" /\ e.id = category_of -> [exists |-> TRUE, products |-> << >>]
    [] e.type = "ProductCreated" /\ r.exists ->
         [r EXCEPT !.products = Append(@, [title |-> "old", status |-> "Draft"])]
    [] e.type = "ProductDetailsUpdated" ->
         [r EXCEPT !.products =
            [k \in DOMAIN r.products |-> [r.products[k] EXCEPT !.title = e.title]]]
    [] e.type \in DOMAIN StatusListed ->
         [r EXCEPT !.products =
            [k \in DOMAIN r.products |-> [r.products[k] EXCEPT !.status = StatusListed[e.type]]]]
    [] OTHER -> r

CategoryProjected(r, e) ==
  IF view = "category_tree" THEN on_category_tree(r, e) ELSE on_category_products(r, e)

CategoryRow == IF view = "category_tree" THEN [c \in CategoryIds |-> NoNode]
               ELSE [exists |-> FALSE, products |-> << >>]

Awaited == IF view = "category_tree" THEN row[category_of] = NoNode ELSE ~row.exists

------------------------------------------------------------------------------
NoCategories ==
  /\ categories = [c \in CategoryIds |-> NoCategory]
  /\ category_unread = << >>
  /\ overtook = FALSE
  /\ category_of \in CategoryIds

CategoriesInit ==
  /\ CreateProduct
  /\ NoCategories
  /\ view \in CategoryViews
  /\ row = CategoryRow
  /\ unread = <<[type |-> "ProductCreated"]>>
  /\ redelivered = FALSE

(* The projector's subscription to products.                               *)
CategoryProductProjection ==
  /\ Project(CategoryProjected(row, Head(unread)))
  /\ overtook' = (overtook \/ (Head(unread).type = "ProductCreated" /\ Awaited))
  /\ UNCHANGED <<product_vars, category_vars, category_unread>>

(* And the one to categories.                                              *)
CategoryProjection ==
  /\ category_unread # << >>
  /\ row' = CategoryProjected(row, Head(category_unread))
  /\ \/ category_unread' = Tail(category_unread) /\ UNCHANGED redelivered
     \/ ~redelivered /\ redelivered' = TRUE /\ UNCHANGED category_unread
  /\ UNCHANGED <<product_vars, category_vars, view, unread, overtook>>

CategoriesNext ==
  \/ CategoryCommand
  \/ ProductCommand /\ UNCHANGED <<category_vars, category_unread, overtook>>
  \/ CategoryProductProjection \/ CategoryProjection

CategoriesSpec == CategoriesInit /\ [][CategoriesNext]_categories_vars

(* The projections of products alone, and those of categories with them.   *)
CatalogueViewsInit == (CatalogueInit /\ NoCategories) \/ CategoriesInit

CatalogueViewsNext ==
  \/ /\ view \in ProductViews /\ CatalogueNext
     /\ UNCHANGED <<category_vars, category_unread, overtook>>
  \/ view \in CategoryViews /\ CategoriesNext

CatalogueViewsSpec == CatalogueViewsInit /\ [][CatalogueViewsNext]_categories_vars

------------------------------------------------------------------------------
(* A node's breadcrumb is as long as the category is deep and ends with    *)
(* its name; the names of its ancestors may be older ones.                 *)
TreeFollows ==
  \A c \in CategoryIds :
    /\ (row[c] = NoNode) = (c \notin Known)
    /\ c \in Known =>
         /\ row[c].name = categories[c].name
         /\ row[c].order = categories[c].order
         /\ row[c].is_active = categories[c].is_active
         /\ Len(row[c].breadcrumb) = categories[c].level + 1
         /\ row[c].breadcrumb[Len(row[c].breadcrumb)] = categories[c].name
         /\ ~redelivered /\ ~overtook =>
              row[c].product_count = IF c = category_of THEN 1 ELSE 0

Spelled == [Draft |-> "Draft", Active |-> "active", Discontinued |-> "discontinued",
            Archived |-> "archived"]

CategoryProductsFollow ==
  /\ ~redelivered => Len(row.products) = IF overtook THEN 0 ELSE 1
  /\ \A k \in DOMAIN row.products :
       row.products[k] = [title |-> title, status |-> Spelled[product]]

(* Categories are at most MaxLevel deep, below a parent that exists.  A    *)
(* projection that caught up with both streams, and saw the category       *)
(* before the product, shows the product in its category, with its title   *)
(* and status, and every category with its name and place in the tree.     *)
CategoriesFollow ==
  /\ \A c \in Known : /\ categories[c].level <= MaxLevel
                      /\ categories[c].parent # "None" =>
                           /\ categories[c].parent \in Known
                           /\ categories[categories[c].parent].level = categories[c].level - 1
  /\ CaughtUp /\ category_unread = << >> /\ category_of \in Known =>
       CASE view = "category_tree" -> TreeFollows
         [] view = "category_products" -> CategoryProductsFollow
         [] OTHER -> TRUE

(* Everything that follows the catalogue's two streams.                    *)
CatalogueViewsFollow == CatalogueFollows /\ CategoriesFollow
==============================================================================
