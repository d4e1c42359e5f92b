------------------------------ MODULE Pricing ------------------------------
(***************************************************************************)
(* app/services/pricing_service.py: what a quantity of a product costs     *)
(* now, with the price in Tokens of bot/handlers/shop.py beside it.        *)
(*                                                                         *)
(* A product is a record of the columns that its price is computed from; a *)
(* column that is NULL is Null, which no price, bound or percentage is.    *)
(* Moments are numbers.  Integer columns keep what the admins' forms       *)
(* accept, except for the percentage, which the code does not trust.       *)
(***************************************************************************)
EXTENDS Integers

Null == -1

Positive == Nat \ {0}

\* The rows that can be priced: a price for the type, and bounds in their order.
Priced ==
    [type : {"FIXED"}, price : Positive, percent : Int, ends : Nat \cup {Null},
     tokens : Positive \cup {Null}]
        \cup
    {row \in [type : {"VARIABLE_QUANTITY"}, price : Positive, min : Positive \cup {Null},
              max : Positive \cup {Null}, percent : Int, ends : Nat \cup {Null},
              tokens : Positive \cup {Null}] :
        row.max = Null \/ row.min <= row.max}

\* is_discount_active.  A percentage that is NULL or not positive counts as none.
IsDiscountActive(product, now) ==
    /\ product.percent > 0
    /\ product.ends # Null
    /\ product.ends > now

\* The ceiling that apply_discount puts on a percentage.
MaxDiscount == 90

\* apply_discount, without the crossed-out price.
ApplyDiscount(product, total, now) ==
    LET percent == IF product.percent > MaxDiscount THEN MaxDiscount ELSE product.percent
    IN  IF IsDiscountActive(product, now) THEN total - (total * percent) \div 100 ELSE total

\* InvalidQuantityError is not raised; a fixed price is for one, whatever is asked for.
ValidQuantity(product, quantity) ==
    product.type = "VARIABLE_QUANTITY" =>
        /\ quantity >= (IF product.min = Null THEN 1 ELSE product.min)
        /\ product.max # Null => quantity <= product.max

\* PriceResult.quantity, and the total before a discount.
Quantity(product, quantity) == IF product.type = "FIXED" THEN 1 ELSE quantity

Total(product, quantity) ==
    IF product.type = "FIXED" THEN product.price ELSE product.price * quantity

\* calculate_price for a valid quantity: PriceResult.total_price.
CalculatePrice(product, quantity, now) ==
    ApplyDiscount(product, Total(product, quantity), now)

\* _token_total: no discount, and Null when the product is not sold for them.
TokenTotal(product, quantity) ==
    IF product.tokens = Null THEN Null ELSE product.tokens * Quantity(product, quantity)
=============================================================================
