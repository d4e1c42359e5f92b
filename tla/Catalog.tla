------------------------------ MODULE Catalog ------------------------------
(***************************************************************************)
(* The shop's catalogue: the rows of products and categories as            *)
(* app/services/product_service.py and category_service.py change them.    *)
(*                                                                         *)
(* A product keeps the columns that decide whether it can be sold at all:  *)
(* its category, its pricing type and, for a variable quantity, the two    *)
(* bounds pricing_service.calculate_price compares a quantity with.        *)
(* Prices, names, styles, sort order and the flags that one press toggles  *)
(* are left out.                                                           *)
(*                                                                         *)
(* Both delete methods count what refers to the row and delete it in a     *)
(* later statement of the same transaction, with nothing locked: the row   *)
(* may be ordered, or get a product, in between.  The foreign keys of      *)
(* orders.product_id and products.category_id then refuse the commit.      *)
(***************************************************************************)
EXTENDS Integers, FiniteSets

CONSTANTS
    Products,       \* the ids of products that exist or may be created
    Categories,     \* the ids of categories that exist or may be created
    FirstProducts,  \* the products of a shop in use
    FirstCategories,\* its categories; the first one holds the products
    MaxQty          \* the largest quantity the model types

ASSUME CatalogAssumption ==
    /\ FirstProducts \subseteq Products
    /\ FirstCategories \subseteq Categories
    /\ FirstCategories # {}
    /\ MaxQty \in Nat \ {0}

VARIABLES
    products,   \* the rows of products: a function of the ids that exist
    categories, \* the ids of the rows of categories
    ordered,    \* the products that some order refers to
    deleting,   \* the products and categories a delete has counted at zero
    issued      \* the ids the two tables have given out: never used again

catalogVars == <<products, categories, ordered, deleting, issued>>

\* Two tables in one: f, and g where f has no entry; and f with v under k.
Over(f, g) == [k \in DOMAIN f \cup DOMAIN g |-> IF k \in DOMAIN f THEN f[k] ELSE g[k]]
With(k, v, f) == Over([x \in {k} |-> v], f)

FirstCategory == CHOOSE c \in FirstCategories : TRUE

Fixed(c) == [type |-> "FIXED", category |-> c, min |-> 0, max |-> 0]

Variable(c, min, max) ==
    [type |-> "VARIABLE_QUANTITY", category |-> c, min |-> min, max |-> max]

\* The products the shop can price: calculate_price needs min <= max.
Product ==
    {Fixed(c) : c \in Categories} \cup
    {Variable(c, q[1], q[2]) : c \in Categories,
                               q \in {r \in (1..MaxQty) \X (1..MaxQty) : r[1] <= r[2]}}

\* A shop in use, or a new one with nothing in it.
CatalogInit ==
    /\ \/ /\ products = [p \in FirstProducts |-> Fixed(FirstCategory)]
          /\ categories = FirstCategories
       \/ /\ products = <<>>
          /\ categories = {}
    /\ ordered = {}
    /\ deleting = {}
    /\ issued = FirstProducts \cup FirstCategories

\* create_fixed and create_variable: the next id; the category must still exist
\* when the row is inserted.  The quantities are stored as the caller gives them.
CanCreateProduct(row) ==
    /\ row.category \in categories
    /\ Products \ issued # {}

CreateProduct(row) ==
    /\ CanCreateProduct(row)
    /\ LET p == CHOOSE id \in Products : id \notin issued
       IN  /\ products' = With(p, row, products)
           /\ issued' = issued \cup {p}
    /\ UNCHANGED <<categories, ordered, deleting>>

CanCreateCategory == Categories \ issued # {}

CreateCategory ==
    /\ CanCreateCategory
    /\ LET c == CHOOSE id \in Categories : id \notin issued
       IN  /\ categories' = categories \cup {c}
           /\ issued' = issued \cup {c}
    /\ UNCHANGED <<products, ordered, deleting>>

\* A customer's purchase adds an order that refers to the product.
PlaceOrder(p) ==
    /\ p \in DOMAIN products \ ordered
    /\ ordered' = ordered \cup {p}
    /\ UNCHANGED <<products, categories, deleting, issued>>

\* ProductService.delete, its count; CategoryService.delete, its count.
CountOrders(p) ==
    /\ p \in DOMAIN products
    /\ p \notin ordered
    /\ deleting' = deleting \cup {p}
    /\ UNCHANGED <<products, categories, ordered, issued>>

CountProducts(c) ==
    /\ c \in categories
    /\ \A p \in DOMAIN products : products[p].category # c
    /\ deleting' = deleting \cup {c}
    /\ UNCHANGED <<products, categories, ordered, issued>>

\* The delete itself; refused, with nothing changed, when the row is in use by now.
DeleteProduct(p) ==
    /\ p \in deleting \cap Products
    /\ deleting' = deleting \ {p}
    /\ products' = IF p \in ordered THEN products
                   ELSE [q \in DOMAIN products \ {p} |-> products[q]]
    /\ UNCHANGED <<categories, ordered, issued>>

DeleteCategory(c) ==
    /\ c \in deleting \cap Categories
    /\ deleting' = deleting \ {c}
    /\ categories' = IF \E p \in DOMAIN products : products[p].category = c
                     THEN categories ELSE categories \ {c}
    /\ UNCHANGED <<products, ordered, issued>>

\* Every product of the catalogue can be priced, its category and the products
\* of old orders exist.
CatalogOK ==
    /\ DOMAIN products \subseteq Products
    /\ \A p \in DOMAIN products : products[p] \in Product
    /\ \A p \in DOMAIN products : products[p].category \in categories
    /\ categories \subseteq Categories
    /\ ordered \subseteq DOMAIN products
    /\ deleting \subseteq Products \cup Categories
    /\ DOMAIN products \cup categories \subseteq issued
=============================================================================
