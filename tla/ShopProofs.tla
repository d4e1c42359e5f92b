----------------------------- MODULE ShopProofs -----------------------------
(***************************************************************************)
(* Proofs about Shop, for every set of users, purchases, deposits and      *)
(* codes, and about the prices it asks (Pricing), for every product,       *)
(* quantity and moment: what a customer is asked to pay is a sum the       *)
(* wallet accepts, a tenth of the list price at least, and never more than *)
(* the pages of the shop promise.                                          *)
(***************************************************************************)
EXTENDS Shop, Pricing, RowProofs

-----------------------------------------------------------------------------
(* Prices: rounding.                                                       *)

\* The part a percentage takes of a total, rounded down.
LEMMA Part ==
    ASSUME NEW total \in Nat, NEW percent \in Nat
    PROVE  /\ total * percent \in Nat
           /\ (total * percent) \div 100 \in Nat
           /\ 100 * ((total * percent) \div 100) <= total * percent
           /\ total * percent < 100 * ((total * percent) \div 100) + 100
<1>1. total * percent \in Nat
  BY Z3
<1> DEFINE x == total * percent
<1>2. x \in Nat
  BY <1>1
<1> HIDE DEF x
<1>3. x \div 100 \in Nat /\ 100 * (x \div 100) <= x /\ x < 100 * (x \div 100) + 100
  BY <1>2, SMT
<1> QED
  BY <1>1, <1>3 DEF x

LEMMA Times ==
    ASSUME NEW a \in Nat, NEW b \in Nat, NEW k \in Nat, a <= b
    PROVE  k * a <= k * b /\ a * k <= b * k
BY SMT
-----------------------------------------------------------------------------
(* The total, and the percentage that is taken of it.                      *)

LEMMA TotalIsPositive ==
    ASSUME NEW product \in Priced, NEW quantity \in Positive
    PROVE  /\ Quantity(product, quantity) \in Positive
           /\ Total(product, quantity) \in Positive
           /\ Total(product, quantity) = product.price * Quantity(product, quantity)
<1>1. product.price \in Positive
  BY DEF Priced, Positive
<1>2. Quantity(product, quantity) \in Positive
  BY DEF Quantity, Positive
<1>3. Total(product, quantity) = product.price * Quantity(product, quantity)
  BY <1>1 DEF Total, Quantity, Positive
<1>4. \A m, n \in Positive : m * n \in Positive
  BY Z3 DEF Positive
<1> QED
  BY <1>1, <1>2, <1>3, <1>4

\* A discount is one percentage, between 0 and MaxDiscount, of every total at a moment.
LEMMA OnePercentage ==
    ASSUME NEW product \in Priced, NEW now \in Nat
    PROVE  \E percent \in 0..MaxDiscount : \A total \in Nat :
               ApplyDiscount(product, total, now) = total - (total * percent) \div 100
<1> DEFINE clipped == IF product.percent > MaxDiscount THEN MaxDiscount ELSE product.percent
<1>1. product.percent \in Int
  BY DEF Priced
<1>2. CASE IsDiscountActive(product, now)
  <2>1. clipped \in 0..MaxDiscount
    BY <1>1, <1>2 DEF IsDiscountActive, MaxDiscount
  <2>2. \A total \in Nat :
          ApplyDiscount(product, total, now) = total - (total * clipped) \div 100
    BY <1>2 DEF ApplyDiscount
  <2> QED
    BY <2>1, <2>2
<1>3. CASE ~ IsDiscountActive(product, now)
  <2>1. \A total \in Nat : total - (total * 0) \div 100 = total
    BY SMT
  <2>2. \A total \in Nat : ApplyDiscount(product, total, now) = total
    BY <1>3 DEF ApplyDiscount
  <2>3. 0 \in 0..MaxDiscount
    BY DEF MaxDiscount
  <2> QED
    BY <2>1, <2>2, <2>3
<1> QED
  BY <1>2, <1>3

\* What a percentage up to MaxDiscount leaves of a total: something, a tenth at least.
LEMMA SomethingIsLeft ==
    ASSUME NEW total \in Positive, NEW percent \in 0..MaxDiscount
    PROVE  LET left == total - (total * percent) \div 100
           IN  /\ left \in Positive
               /\ left <= total
               /\ 10 * left >= total
<1> DEFINE x == total * percent
<1> DEFINE part == x \div 100
<1>1. total \in Nat /\ total > 0 /\ percent \in Nat /\ percent <= 90
  BY DEF Positive, MaxDiscount
<1>2. x <= total * 90
  BY <1>1, Times
<1>3. part \in Nat /\ 100 * part <= x
  BY <1>1, Part
<1>4. 10 * part <= 9 * total
  BY <1>1, <1>2, <1>3
<1> HIDE DEF x, part
<1>5. /\ total - part \in Positive
      /\ total - part <= total
      /\ 10 * (total - part) >= total
  BY <1>1, <1>3, <1>4, SMT DEF Positive
<1> QED
  BY <1>5 DEF x, part

-----------------------------------------------------------------------------
(* The theorems.                                                           *)

\* Every product that an admin's forms let through can be paid for: its price is
\* positive, as WalletService.debit wants it and Shop assumes of Price, at most the list
\* price, and a tenth of it at least (the "safety ceiling" of pricing_service.py:43).
THEOREM PriceIsPayable ==
    \A product \in Priced, quantity \in Positive, now \in Nat :
        LET total == CalculatePrice(product, quantity, now)
        IN  /\ total \in Positive
            /\ total <= Total(product, quantity)
            /\ 10 * total >= Total(product, quantity)
<1> SUFFICES ASSUME NEW product \in Priced, NEW quantity \in Positive, NEW now \in Nat
             PROVE  LET total == CalculatePrice(product, quantity, now)
                    IN  /\ total \in Positive
                        /\ total <= Total(product, quantity)
                        /\ 10 * total >= Total(product, quantity)
  OBVIOUS
<1>1. Total(product, quantity) \in Positive
  BY TotalIsPositive
<1>2. PICK percent \in 0..MaxDiscount : \A total \in Nat :
          ApplyDiscount(product, total, now) = total - (total * percent) \div 100
  BY OnePercentage
<1>3. CalculatePrice(product, quantity, now)
        = Total(product, quantity) - (Total(product, quantity) * percent) \div 100
  BY <1>1, <1>2 DEF CalculatePrice, Positive
<1> QED
  BY <1>1, <1>3, SomethingIsLeft

\* A code on top of the product's own discount leaves something to pay as well: the
\* amount that create_and_pay_with_coupon debits (order_service.py:135) is positive.
THEOREM CouponLeavesSomething ==
    \A product \in Priced, quantity \in Positive, now \in Nat, percent \in 1..90 :
        /\ Discounted(CalculatePrice(product, quantity, now), percent) \in Positive
        /\ Discounted(CalculatePrice(product, quantity, now), percent)
               <= CalculatePrice(product, quantity, now)
<1> SUFFICES ASSUME NEW product \in Priced, NEW quantity \in Positive, NEW now \in Nat,
                    NEW percent \in 1..90
             PROVE  /\ Discounted(CalculatePrice(product, quantity, now), percent) \in Positive
                    /\ Discounted(CalculatePrice(product, quantity, now), percent)
                           <= CalculatePrice(product, quantity, now)
  OBVIOUS
<1>1. CalculatePrice(product, quantity, now) \in Positive
  BY PriceIsPayable
<1>2. percent \in 0..MaxDiscount
  BY DEF MaxDiscount
<1> QED
  BY <1>1, <1>2, SomethingIsLeft DEF Discounted

\* Rounding never makes a larger quantity cheaper: the discount of the larger total is
\* rounded down only once (pricing_service.py:44, 66).
THEOREM LargerQuantityNotCheaper ==
    \A product \in Priced, fewer, more \in Positive, now \in Nat :
        fewer <= more =>
            CalculatePrice(product, fewer, now) <= CalculatePrice(product, more, now)
<1> SUFFICES ASSUME NEW product \in Priced, NEW fewer \in Positive, NEW more \in Positive,
                    NEW now \in Nat, fewer <= more
             PROVE  CalculatePrice(product, fewer, now) <= CalculatePrice(product, more, now)
  OBVIOUS
<1> DEFINE a == Total(product, fewer)
<1> DEFINE b == Total(product, more)
<1>1. a \in Nat /\ b \in Nat
  BY TotalIsPositive DEF Positive
<1>2. a <= b
  <2>1. product.price \in Nat /\ Quantity(product, fewer) \in Nat
           /\ Quantity(product, more) \in Nat
    BY TotalIsPositive DEF Priced, Positive
  <2>2. Quantity(product, fewer) <= Quantity(product, more)
    BY DEF Quantity, Positive
  <2> QED
    BY <2>1, <2>2, Times, TotalIsPositive
<1>3. PICK percent \in 0..MaxDiscount : \A total \in Nat :
          ApplyDiscount(product, total, now) = total - (total * percent) \div 100
  BY OnePercentage
<1>4. percent \in Nat /\ percent <= 100
  BY DEF MaxDiscount
<1> DEFINE d == b - a
<1>5. d \in Nat /\ d * percent <= d * 100
  BY <1>1, <1>2, <1>4, Times
<1>6. b * percent = a * percent + d * percent
  BY <1>1, <1>2, <1>4, Z3
<1>7. /\ 100 * ((b * percent) \div 100) <= b * percent
      /\ a * percent < 100 * ((a * percent) \div 100) + 100
      /\ (a * percent) \div 100 \in Nat /\ (b * percent) \div 100 \in Nat
      /\ a * percent \in Nat /\ b * percent \in Nat /\ d * percent \in Nat
  BY <1>1, <1>4, <1>5, Part
<1>8. a - (a * percent) \div 100 <= b - (b * percent) \div 100
  <2> DEFINE x == a * percent
  <2> DEFINE y == b * percent
  <2> DEFINE z == d * percent
  <2> DEFINE f == x \div 100
  <2> DEFINE g == y \div 100
  <2>1. /\ y = x + z /\ z <= d * 100 /\ d = b - a
        /\ 100 * g <= y /\ x < 100 * f + 100
        /\ x \in Nat /\ y \in Nat /\ z \in Nat /\ f \in Nat /\ g \in Nat
        /\ a \in Nat /\ b \in Nat
    BY <1>1, <1>5, <1>6, <1>7
  <2> HIDE DEF x, y, z, f, g, a, b, d
  <2>2. a - f <= b - g
    BY <2>1, SMT
  <2> QED
    BY <2>2 DEF x, y, f, g
<1> QED
  BY <1>1, <1>3, <1>8 DEF CalculatePrice

\* The page of a product shows the discounted price of one unit (shop.py:214), while the
\* discount of an order is taken from its total: a quantity never costs more than
\* that many times the price on the page.
THEOREM NeverAboveShownPrice ==
    \A product \in Priced, quantity \in Positive, now \in Nat :
        CalculatePrice(product, quantity, now)
            <= ApplyDiscount(product, product.price, now) * Quantity(product, quantity)
<1> SUFFICES ASSUME NEW product \in Priced, NEW quantity \in Positive, NEW now \in Nat
             PROVE  CalculatePrice(product, quantity, now)
                      <= ApplyDiscount(product, product.price, now) * Quantity(product, quantity)
  OBVIOUS
<1> DEFINE u == product.price
<1> DEFINE q == Quantity(product, quantity)
<1>1. u \in Nat /\ q \in Nat /\ Total(product, quantity) = u * q /\ u * q \in Nat
  BY TotalIsPositive DEF Priced, Positive
<1>2. PICK percent \in 0..MaxDiscount : \A total \in Nat :
          ApplyDiscount(product, total, now) = total - (total * percent) \div 100
  BY OnePercentage
<1>3. percent \in Nat
  BY DEF MaxDiscount
<1> DEFINE f == (u * percent) \div 100
<1> DEFINE g == ((u * q) * percent) \div 100
<1>4. /\ CalculatePrice(product, quantity, now) = u * q - g
      /\ ApplyDiscount(product, product.price, now) = u - f
  BY <1>1, <1>2 DEF CalculatePrice
<1>5. f \in Nat /\ g \in Nat /\ u * percent \in Nat /\ 100 * f <= u * percent
  BY <1>1, <1>3, Part
<1>6. (u * q) * percent < 100 * g + 100 /\ (u * q) * percent \in Nat
  BY <1>1, <1>3, Part
<1>7. (100 * f) * q <= (u * percent) * q
  BY <1>1, <1>5, Times
<1> HIDE DEF f, g, u, q
<1>8. (u * percent) * q = (u * q) * percent
  BY <1>1, <1>3, Z3
<1>9. (100 * f) * q = 100 * (f * q) /\ f * q \in Nat /\ (u - f) * q = u * q - f * q
  BY <1>1, <1>5, Z3
<1>10. f * q <= g
  <2> DEFINE m == f * q
  <2> DEFINE n == (u * q) * percent
  <2>1. 100 * m <= n /\ n < 100 * g + 100 /\ m \in Nat /\ n \in Nat /\ g \in Nat
    BY <1>5, <1>6, <1>7, <1>8, <1>9
  <2> HIDE DEF m, n
  <2>2. m <= g
    BY <2>1, SMT
  <2> QED
    BY <2>2 DEF m
<1>11. u * q - g <= u * q - f * q
  <2> DEFINE m == f * q
  <2> DEFINE n == u * q
  <2>1. m <= g /\ m \in Nat /\ n \in Nat /\ g \in Nat
    BY <1>1, <1>5, <1>9, <1>10
  <2> HIDE DEF m, n
  <2>2. n - g <= n - m
    BY <2>1, SMT
  <2> QED
    BY <2>2 DEF m, n
<1> QED
  BY <1>4, <1>9, <1>11 DEF q
-----------------------------------------------------------------------------
(* What a posting does to the wallets and to the rows of the ledger.       *)

WalletTypeOK ==
    /\ wallet \in [Users -> Int]
    /\ ledger \in [Users -> Seq(Row)]

LEMMA PostEffect ==
    ASSUME WalletTypeOK,
           NEW u \in Users, NEW seen \in Int, NEW amount \in Int,
           NEW type \in TxTypes, NEW ref \in Refs,
           Post(u, seen, amount, type, ref)
    PROVE  /\ WalletTypeOK'
           /\ wallet'[u] = seen + amount
           /\ \A v \in Users : v # u => wallet'[v] = wallet[v] /\ ledger'[v] = ledger[v]
           /\ Len(ledger'[u]) = Len(ledger[u]) + 1
           /\ \A i \in 1..Len(ledger[u]) : ledger'[u][i] = ledger[u][i]
           /\ ledger'[u][Len(ledger[u]) + 1] =
                [type |-> type, ref |-> ref, amount |-> amount,
                 before |-> seen, after |-> seen + amount]
<1> DEFINE entry == [type |-> type, ref |-> ref, amount |-> amount,
                     before |-> seen, after |-> seen + amount]
<1>1. entry \in Row
  BY DEF Row
<1>2. ledger \in [Users -> Seq(Row)] /\ ledger' = [ledger EXCEPT ![u] = Append(@, entry)]
  BY DEF WalletTypeOK, Post
<1> HIDE DEF entry
<1>3. /\ ledger' \in [Users -> Seq(Row)]
      /\ \A v \in Users : v # u => ledger'[v] = ledger[v]
      /\ Len(ledger'[u]) = Len(ledger[u]) + 1
      /\ \A i \in 1..Len(ledger[u]) : ledger'[u][i] = ledger[u][i]
      /\ ledger'[u][Len(ledger[u]) + 1] = entry
  BY <1>1, <1>2, AppendRow
<1>4. /\ wallet' \in [Users -> Int]
      /\ wallet'[u] = seen + amount
      /\ \A v \in Users : v # u => wallet'[v] = wallet[v]
  BY DEF WalletTypeOK, Post
<1>5. WalletTypeOK'
  BY <1>3, <1>4 DEF WalletTypeOK
<1> QED
  BY <1>3, <1>4, <1>5 DEF entry

\* A posting adds its row to the rows of its own type and reference, and to no others.
LEMMA PostRows ==
    ASSUME WalletTypeOK,
           NEW u \in Users, NEW seen \in Int, NEW amount \in Int,
           NEW type \in TxTypes, NEW ref \in Refs,
           Post(u, seen, amount, type, ref),
           NEW v \in Users, NEW t, NEW r
    PROVE  RowsFor(v, t, r)' =
             IF v = u /\ t = type /\ r = ref
             THEN RowsFor(v, t, r) \cup {Len(ledger[u]) + 1}
             ELSE RowsFor(v, t, r)
<1>1. /\ WalletTypeOK'
      /\ \A w \in Users : w # u => wallet'[w] = wallet[w] /\ ledger'[w] = ledger[w]
      /\ Len(ledger'[u]) = Len(ledger[u]) + 1
      /\ \A i \in 1..Len(ledger[u]) : ledger'[u][i] = ledger[u][i]
      /\ ledger'[u][Len(ledger[u]) + 1] =
           [type |-> type, ref |-> ref, amount |-> amount,
            before |-> seen, after |-> seen + amount]
  BY PostEffect
<1>2. CASE v # u
  BY <1>1, <1>2 DEF RowsFor
<1>3. CASE v = u
  <2>1. /\ ledger[u] \in Seq(Row)
        /\ ledger'[u] \in Seq(Row)
        /\ Len(ledger[u]) \in Nat
    BY <1>1 DEF WalletTypeOK
  <2>2. DOMAIN ledger'[u] = DOMAIN ledger[u] \cup {Len(ledger[u]) + 1}
    BY <1>1, <2>1
  <2>3. \A i \in DOMAIN ledger[u] : ledger'[u][i] = ledger[u][i]
    BY <1>1, <2>1
  <2>4. /\ ledger'[u][Len(ledger[u]) + 1].type = type
        /\ ledger'[u][Len(ledger[u]) + 1].ref = ref
    BY <1>1
  <2>5. RowsFor(v, t, r)' =
          {i \in DOMAIN ledger'[u] : ledger'[u][i].type = t /\ ledger'[u][i].ref = r}
    BY <1>3 DEF RowsFor
  <2>6. RowsFor(v, t, r) =
          {i \in DOMAIN ledger[u] : ledger[u][i].type = t /\ ledger[u][i].ref = r}
    BY <1>3 DEF RowsFor
  <2> QED
    BY <1>3, <2>2, <2>3, <2>4, <2>5, <2>6
<1> QED
  BY <1>2, <1>3

-----------------------------------------------------------------------------
(* Types.                                                                  *)

USE ShopAssumption

LEMMA DiscountedType ==
    ASSUME NEW price \in Int, NEW percent \in Int
    PROVE  Discounted(price, percent) \in Int
BY SMT DEF Discounted

LEMMA CashbackType ==
    ASSUME NEW price \in Int
    PROVE  Cashback(price) \in Int
BY SMT DEF Cashback

\* The steps of a purchase that pay, without what they do to the coupon.
LEMMA PayType ==
    ASSUME ShopTypeOK,
           NEW p \in Purchases, NEW price \in Int, NEW c \in Coupons \cup {NoCoupon},
           Pay(p, price, c), coupon' \in [Coupons -> CouponStates],
           paying' = paying, copy' = copy
    PROVE  ShopTypeOK'
<1>1. /\ Buyer[p] \in Users
      /\ held[p].balance \in Int
      /\ -price \in Int
      /\ "PURCHASE" \in TxTypes
      /\ p \in Refs
  BY DEF ShopTypeOK, TxTypes
<1>2. Post(Buyer[p], held[p].balance, -price, "PURCHASE", p)
  BY DEF Pay, Debit
<1>3. WalletTypeOK
  BY DEF ShopTypeOK, WalletTypeOK
<1>4. WalletTypeOK'
  BY <1>1, <1>2, <1>3, PostEffect
<1>5. held' \in [Purchases -> [balance : Int, spent : Int]]
  <2> DEFINE rest == [held[p] EXCEPT !.balance = held[p].balance - price]
  <2>1. held[p] \in [balance : Int, spent : Int]
    BY DEF ShopTypeOK
  <2>2. rest \in [balance : Int, spent : Int]
    BY <2>1
  <2>3. held' = [held EXCEPT ![p] = rest]
    BY DEF Pay
  <2> QED
    BY <2>2, <2>3 DEF ShopTypeOK
<1> QED
  BY <1>4, <1>5 DEF ShopTypeOK, WalletTypeOK, Pay, OrderStatuses, Steps

LEMMA CreditType ==
    ASSUME WalletTypeOK,
           NEW u \in Users, NEW amount \in Int, NEW type \in TxTypes, NEW ref \in Refs,
           Credit(u, wallet[u], amount, type, ref)
    PROVE  WalletTypeOK'
<1>1. wallet[u] \in Int
  BY DEF WalletTypeOK
<1>2. Post(u, wallet[u], amount, type, ref)
  BY DEF Credit
<1> QED
  BY <1>1, <1>2, PostEffect

LEMMA PayCashbackType ==
    ASSUME ShopTypeOK, NEW p \in Purchases, PayCashback(p)
    PROVE  WalletTypeOK'
<1>1. WalletTypeOK
  BY DEF ShopTypeOK, WalletTypeOK
<1>2. Cashback(due[p]) \in Int
  BY CashbackType DEF ShopTypeOK
<1>3. CASE UNCHANGED walletVars
  BY <1>1, <1>3 DEF WalletTypeOK, walletVars
<1>4. CASE /\ Referrer[Buyer[p]] # NoUser
           /\ Credit(Referrer[Buyer[p]], wallet[Referrer[Buyer[p]]],
                     Cashback(due[p]), "BONUS", p)
  <2>1. /\ Referrer[Buyer[p]] \in Users
        /\ "BONUS" \in TxTypes
        /\ p \in Refs
    BY <1>4 DEF TxTypes
  <2> QED
    BY <1>1, <1>2, <1>4, <2>1, CreditType
<1> QED
  BY <1>3, <1>4 DEF PayCashback

LEMMA LoadType ==
    ASSUME ShopTypeOK, NEW p \in Purchases, NEW c \in Coupons \cup {NoCoupon}, Load(p, c),
           paying' = paying, copy' = copy
    PROVE  ShopTypeOK'
<1>1. Buyer[p] \in Users /\ wallet[Buyer[p]] \in Int /\ spent[Buyer[p]] \in Int
  BY ShopAssumption DEF ShopTypeOK
<1>2. /\ processing' \subseteq Users
      /\ pc' \in [Purchases -> Steps]
      /\ code' \in [Purchases -> Coupons \cup {NoCoupon}]
  BY <1>1 DEF Load, ShopTypeOK, Steps
<1>3. held' \in [Purchases -> [balance : Int, spent : Int]]
  BY <1>1 DEF Load, ShopTypeOK
<1>4. /\ wallet' = wallet /\ ledger' = ledger
      /\ status' = status /\ due' = due /\ couponOf' = couponOf
      /\ coupon' = coupon /\ deleting' = deleting
      /\ deposit' = deposit /\ spent' = spent /\ buttons' = buttons
  BY DEF Load, walletVars, orderVars, couponVars
<1> QED
  BY <1>2, <1>3, <1>4
     DEF ShopTypeOK, OrderStatuses, CouponStates, DepositStatuses

LEMMA LeaveType ==
    ASSUME ShopTypeOK, NEW p \in Purchases, NEW how \in Steps, Leave(p, how)
    PROVE  /\ processing' \subseteq Users
           /\ pc' \in [Purchases -> Steps]
           /\ code' \in [Purchases -> Coupons \cup {NoCoupon}]
           /\ held' \in [Purchases -> [balance : Int, spent : Int]]
<1>1. Nothing \in [balance : Int, spent : Int]
  BY DEF Nothing
<1> QED
  BY <1>1 DEF Leave, ShopTypeOK

UnguardedTypes == {"PURCHASE", "REFUND", "TOURNAMENT_ENTRY"}

\* A renewal or an entry posts to its payer's wallet, from the balance of the row or from
\* one that a session of his remembers, and remembers what it left, what it remembered
\* before, or nothing.
UnguardedPost(x, seen, amount, type, left) ==
    /\ Post(Payer[x], seen, amount, type, x)
    /\ seen = wallet[Payer[x]] \/ \E y \in Unguarded : Payer[y] = Payer[x] /\ seen = copy[y]
    /\ amount > 0 \/ seen + amount >= 0
    /\ left \in {copy[x], 0, seen + amount}
    /\ copy' = [copy EXCEPT ![x] = left]

LEMMA UnguardedPosts ==
    ASSUME ShopTypeOK, PayUnguarded
    PROVE  /\ paying' \in [Unguarded -> PayingSteps]
           /\ \E x \in Unguarded :
                 \/ UNCHANGED walletVars /\ copy' = [copy EXCEPT ![x] = wallet[Payer[x]]]
                 \/ \E seen, amount, left \in Int, type \in UnguardedTypes :
                       UnguardedPost(x, seen, amount, type, left)
<1> DEFINE Goal == \E x \in Unguarded :
                 \/ UNCHANGED walletVars /\ copy' = [copy EXCEPT ![x] = wallet[Payer[x]]]
                 \/ \E seen, amount, left \in Int, type \in UnguardedTypes :
                       UnguardedPost(x, seen, amount, type, left)
<1>1. \A x \in Unguarded :
         /\ Payer[x] \in Users /\ wallet[Payer[x]] \in Int /\ copy[x] \in Int
         /\ Cost[x] \in Int /\ -Cost[x] \in Int /\ Cost[x] > 0
  BY UnguardedAssumption DEF ShopTypeOK
<1>2. /\ paying \in [Unguarded -> PayingSteps] /\ copy \in [Unguarded -> Int]
      /\ \A x : x \in Renewals \/ x \in Entries => x \in Unguarded
  BY DEF ShopTypeOK, Unguarded
<1> USE DEF UnguardedTypes
<1>3. ASSUME NEW x \in Renewals, OpenRenewal(x)
      PROVE  paying' \in [Unguarded -> PayingSteps] /\ Goal
  BY <1>2, <1>3 DEF OpenRenewal, PayingSteps
<1>4. ASSUME NEW x \in Renewals, ChargeRenewal(x)
      PROVE  paying' \in [Unguarded -> PayingSteps] /\ Goal
  <2>1. /\ copy[x] >= Cost[x] /\ Post(Payer[x], copy[x], -Cost[x], "PURCHASE", x)
        /\ paying' = [paying EXCEPT ![x] = "charged"]
        /\ copy' = [copy EXCEPT ![x] = copy[x] - Cost[x]]
    BY <1>4 DEF ChargeRenewal, Debit
  <2>2. /\ x \in Unguarded /\ copy[x] \in Int /\ -Cost[x] \in Int
        /\ copy[x] - Cost[x] \in Int /\ copy[x] + (-Cost[x]) >= 0
        /\ copy[x] - Cost[x] = copy[x] + (-Cost[x])
    BY <1>1, <1>2, <2>1
  <2>3. UnguardedPost(x, copy[x], -Cost[x], "PURCHASE", copy[x] - Cost[x])
    BY <2>1, <2>2 DEF UnguardedPost
  <2>4. paying' \in [Unguarded -> PayingSteps]
    BY <1>2, <2>1 DEF PayingSteps
  <2> QED
    BY <2>2, <2>3, <2>4
<1>5. ASSUME NEW x \in Renewals, RefundRenewal(x)
      PROVE  paying' \in [Unguarded -> PayingSteps] /\ Goal
  <2>1. /\ Post(Payer[x], copy[x], Cost[x], "REFUND", x)
        /\ paying' = [paying EXCEPT ![x] = "refunded"]
        /\ copy' = [copy EXCEPT ![x] = 0]
    BY <1>5 DEF RefundRenewal, Credit
  <2>2. x \in Unguarded /\ copy[x] \in Int /\ Cost[x] \in Int /\ Cost[x] > 0
    BY <1>1, <1>2
  <2>3. UnguardedPost(x, copy[x], Cost[x], "REFUND", 0)
    BY <2>1, <2>2 DEF UnguardedPost
  <2>4. paying' \in [Unguarded -> PayingSteps]
    BY <1>2, <2>1 DEF PayingSteps
  <2> QED
    BY <2>2, <2>3, <2>4
<1>6. ASSUME NEW x \in Entries, PayEntry(x)
      PROVE  paying' \in [Unguarded -> PayingSteps] /\ Goal
  <2> DEFINE seen == wallet[Payer[x]]
  <2>1. /\ seen >= Cost[x] /\ Post(Payer[x], seen, -Cost[x], "TOURNAMENT_ENTRY", x)
        /\ paying' = [paying EXCEPT ![x] = "charged"]
        /\ copy' = copy
    BY <1>6 DEF PayEntry, Debit
  <2>2. /\ x \in Unguarded /\ copy[x] \in Int /\ seen \in Int /\ -Cost[x] \in Int
        /\ seen + (-Cost[x]) >= 0
    BY <1>1, <1>2, <2>1
  <2>3. copy' = [copy EXCEPT ![x] = copy[x]]
    BY <1>2, <2>1
  <2>4. UnguardedPost(x, seen, -Cost[x], "TOURNAMENT_ENTRY", copy[x])
    BY <2>1, <2>2, <2>3 DEF UnguardedPost
  <2>5. paying' \in [Unguarded -> PayingSteps]
    BY <1>2, <2>1 DEF PayingSteps
  <2> QED
    BY <2>2, <2>4, <2>5
<1>7. ASSUME NEW x \in Entries, RefundEntry(x)
      PROVE  paying' \in [Unguarded -> PayingSteps] /\ Goal
  <2>1. PICK seen \in RefundBases(x) :
          /\ Post(Payer[x], seen, Cost[x], "REFUND", x)
          /\ copy' = [copy EXCEPT ![x] = seen + Cost[x]]
    BY <1>7 DEF RefundEntry, Credit
  <2>2. seen = wallet[Payer[x]] \/ \E y \in Unguarded : Payer[y] = Payer[x] /\ seen = copy[y]
    BY <1>2, <2>1 DEF RefundBases, RefundedSince
  <2>3. /\ x \in Unguarded /\ seen \in Int /\ Cost[x] \in Int /\ Cost[x] > 0
        /\ seen + Cost[x] \in Int
    BY <1>1, <1>2, <2>2
  <2>4. UnguardedPost(x, seen, Cost[x], "REFUND", seen + Cost[x])
    BY <2>1, <2>2, <2>3 DEF UnguardedPost
  <2>5. paying' = [paying EXCEPT ![x] = "refunded"]
    BY <1>7 DEF RefundEntry
  <2>6. paying' \in [Unguarded -> PayingSteps]
    BY <1>2, <2>5 DEF PayingSteps
  <2> QED
    BY <2>3, <2>4, <2>6
<1> HIDE DEF Goal
<1>8. paying' \in [Unguarded -> PayingSteps] /\ Goal
  BY <1>3, <1>4, <1>5, <1>6, <1>7 DEF PayUnguarded
<1> QED
  BY <1>8 DEF Goal

\* What every invariant needs of it but the one about the money: a row that refers to no
\* purchase and is no deposit and no cashback, in a wallet of one who pays.
LEMMA UnguardedRow ==
    ASSUME ShopTypeOK, PayUnguarded
    PROVE  \/ UNCHANGED walletVars
           \/ \E x \in Unguarded, seen, amount \in Int, type \in UnguardedTypes :
                 /\ Post(Payer[x], seen, amount, type, x)
                 /\ Payer[x] \in Users /\ type \in TxTypes
                 /\ x \in Refs /\ x \notin Purchases
<1>1. /\ \A x \in Unguarded : Payer[x] \in Users /\ x \in Refs /\ x \notin Purchases
      /\ \A type \in UnguardedTypes : type \in TxTypes
  BY UnguardedAssumption DEF UnguardedTypes, TxTypes
<1> QED
  BY <1>1, UnguardedPosts DEF UnguardedPost

LEMMA UnguardedType ==
    ASSUME ShopTypeOK, PayUnguarded
    PROVE  ShopTypeOK'
<1>1. WalletTypeOK
  BY DEF ShopTypeOK, WalletTypeOK
<1>2. WalletTypeOK'
  BY <1>1, UnguardedRow, PostEffect DEF WalletTypeOK, walletVars
<1>3. copy' \in [Unguarded -> Int]
  <2>1. ASSUME NEW x \in Unguarded, NEW left \in Int, copy' = [copy EXCEPT ![x] = left]
        PROVE  copy' \in [Unguarded -> Int]
    BY <2>1 DEF ShopTypeOK
  <2>2. \A x \in Unguarded : wallet[Payer[x]] \in Int
    BY UnguardedAssumption DEF ShopTypeOK
  <2> QED
    BY <2>1, <2>2, UnguardedPosts DEF UnguardedPost
<1>4. paying' \in [Unguarded -> PayingSteps]
  BY UnguardedPosts
<1>5. UNCHANGED <<orderVars, couponVars, deposit, spent, buttons, sessionVars>>
  BY DEF PayUnguarded
<1> QED
  BY <1>2, <1>3, <1>4, <1>5
     DEF ShopTypeOK, WalletTypeOK, orderVars, couponVars, sessionVars

LEMMA ShoppingType ==
    ASSUME ShopTypeOK, Shopping
    PROVE  ShopTypeOK'
<1> USE DEF OrderStatuses, CouponStates, DepositStatuses, Steps
<1>0. paying' = paying /\ copy' = copy
  BY DEF Shopping, payingVars
<1> USE <1>0
<1>1. WalletTypeOK
  BY DEF ShopTypeOK, WalletTypeOK
<1>2. ASSUME NEW p \in Purchases, HandleBuy(p)
      PROVE  ShopTypeOK'
  BY <1>2, LoadType DEF HandleBuy
<1>3. ASSUME NEW p \in Purchases, NEW c \in Coupons, HandleBuyWithCoupon(p, c)
      PROVE  ShopTypeOK'
  BY <1>3, LoadType DEF HandleBuyWithCoupon
<1>4. ASSUME NEW p \in Purchases, CreateAndPay(p)
      PROVE  ShopTypeOK'
  <2>1. Price[p] \in Int /\ coupon' \in [Coupons -> CouponStates]
    BY <1>4 DEF CreateAndPay, ShopTypeOK
  <2> QED
    BY <1>4, <2>1, PayType DEF CreateAndPay
<1>5. ASSUME NEW p \in Purchases, CreateAndPayWithCoupon(p)
      PROVE  ShopTypeOK'
  <2>1. code[p] \in Coupons
    BY <1>5 DEF CreateAndPayWithCoupon, ShopTypeOK
  <2>2. Discounted(Price[p], Percent[code[p]]) \in Int
    <3>1. Price[p] \in Int /\ Percent[code[p]] \in Int
      BY <2>1
    <3> QED
      BY <3>1, DiscountedType
  <2>3. coupon' \in [Coupons -> CouponStates]
    <3>1. coupon' = [coupon EXCEPT ![code[p]] = "used"]
      BY <1>5 DEF CreateAndPayWithCoupon, RedeemLocked
    <3> QED
      BY <3>1 DEF ShopTypeOK
  <2> QED
    BY <1>5, <2>1, <2>2, <2>3, PayType DEF CreateAndPayWithCoupon
<1>6. ASSUME NEW p \in Purchases, Refuse(p)
      PROVE  ShopTypeOK'
  <2>1. Leave(p, "idle") /\ "idle" \in Steps
    BY <1>6 DEF Refuse
  <2> QED
    BY <1>6, <2>1, LeaveType DEF Refuse, ShopTypeOK, walletVars, orderVars, couponVars
<1>7. ASSUME NEW p \in Purchases, Place(p)
      PROVE  ShopTypeOK'
  <2>1. WalletTypeOK'
    BY <1>7, PayCashbackType DEF Place
  <2>2. held[p] \in [balance : Int, spent : Int] /\ due[p] \in Int
    BY DEF ShopTypeOK
  <2>3. held[p].spent + due[p] \in Int
    BY <2>2
  <2> QED
    BY <1>7, <2>1, <2>3 DEF Place, ShopTypeOK, WalletTypeOK, couponVars
<1>8. ASSUME NEW p \in Purchases, DeliverVpn(p)
      PROVE  ShopTypeOK'
  BY <1>8 DEF DeliverVpn, ShopTypeOK, walletVars, couponVars
<1>9. ASSUME NEW p \in Purchases, NotifyAdmins(p)
      PROVE  ShopTypeOK'
  BY <1>9 DEF NotifyAdmins, ShopTypeOK, walletVars, orderVars, couponVars
<1>10. ASSUME NEW p \in Purchases, Finish(p) \/ Abort(p)
       PROVE  ShopTypeOK'
  <2>1. \E how \in Steps : Leave(p, how)
    BY <1>10 DEF Finish, Abort
  <2> QED
    BY <1>10, <2>1, LeaveType
       DEF Finish, Abort, ShopTypeOK, walletVars, orderVars, couponVars
<1>11. ASSUME NEW p \in Purchases, MarkDelivered(p)
       PROVE  ShopTypeOK'
  BY <1>11 DEF MarkDelivered, ShopTypeOK, walletVars, couponVars, sessionVars
<1>12. ASSUME NEW c \in Coupons, CreateCoupon(c) \/ ReadForDelete(c) \/ DeleteCoupon(c)
       PROVE  ShopTypeOK'
  BY <1>12 DEF CreateCoupon, ReadForDelete, DeleteCoupon, ShopTypeOK,
               walletVars, orderVars, sessionVars
<1>13. ASSUME NEW d \in Deposits, CreateRequest(d) \/ Reject(d)
       PROVE  ShopTypeOK'
  BY <1>13 DEF CreateRequest, Reject, ShopTypeOK, walletVars, orderVars, couponVars,
               sessionVars
<1>14. ASSUME NEW d \in Deposits, Approve(d)
       PROVE  ShopTypeOK'
  <2>1. /\ Depositor[d] \in Users
        /\ Amount[d] \in Int
        /\ "DEPOSIT" \in TxTypes
        /\ d \in Refs
    BY DEF TxTypes
  <2>2. WalletTypeOK'
    BY <1>1, <1>14, <2>1, CreditType DEF Approve
  <2> QED
    BY <1>14, <2>2 DEF Approve, ShopTypeOK, WalletTypeOK, orderVars, couponVars,
                       sessionVars
<1> QED
  BY <1>2, <1>3, <1>4, <1>5, <1>6, <1>7, <1>8, <1>9, <1>10, <1>11, <1>12, <1>13,
     <1>14 DEF Shopping, SessionStep

LEMMA TypeStep ==
    ASSUME ShopTypeOK, [Next]_vars
    PROVE  ShopTypeOK'
<1>1. CASE UNCHANGED vars
  BY <1>1 DEF ShopTypeOK, vars, walletVars, orderVars, couponVars, sessionVars, payingVars
<1> QED
  BY <1>1, ShoppingType, UnguardedType DEF Next

LEMMA TypeInit == Init => ShopTypeOK
BY DEF Init, WalletInit, ShopTypeOK, OrderStatuses, CouponStates, DepositStatuses, Steps,
       Nothing, PayingSteps

\* Every variable keeps its type, whatever the users, the admins and the restarts do.
THEOREM TypeCorrect == Spec => []ShopTypeOK
<1>1. ShopTypeOK /\ [Next]_vars => ShopTypeOK'
  BY TypeStep
<1> QED
  BY <1>1, TypeInit, PTL DEF Spec

-----------------------------------------------------------------------------
(* The sessions: the guard admits one purchase of a user, and the order    *)
(* row follows its session.  Together these are what every other invariant *)
(* needs to know of the control.                                           *)

Control == ShopTypeOK /\ OnePurchasePerUser /\ SessionMatchesOrder

LEMMA LoadControl ==
    ASSUME Control, NEW p \in Purchases, NEW c, Buyer[p] \notin processing, Load(p, c)
    PROVE  OnePurchasePerUser' /\ SessionMatchesOrder'
<1> USE DEF Control, ShopTypeOK, Running
<1>1. OnePurchasePerUser'
  BY DEF OnePurchasePerUser, Load
<1>2. SessionMatchesOrder'
  BY DEF SessionMatchesOrder, Load, orderVars
<1> QED
  BY <1>1, <1>2

LEMMA PayControl ==
    ASSUME Control, NEW p \in Purchases, NEW price, NEW c, Pay(p, price, c)
    PROVE  OnePurchasePerUser' /\ SessionMatchesOrder'
<1> USE DEF Control, ShopTypeOK, Running
<1>1. OnePurchasePerUser'
  BY DEF OnePurchasePerUser, Pay
<1>2. SessionMatchesOrder'
  BY DEF SessionMatchesOrder, Pay
<1> QED
  BY <1>1, <1>2

\* A running session leaves: nobody else of its user was running.
LEMMA LeaveControl ==
    ASSUME Control, NEW p \in Purchases, pc[p] \in Running, NEW how, how \notin Running,
           Leave(p, how)
    PROVE  OnePurchasePerUser'
BY DEF Control, ShopTypeOK, Running, OnePurchasePerUser, Leave

LEMMA ControlStep ==
    ASSUME Control, [Next]_vars
    PROVE  Control'
<1>1. ShopTypeOK'
  BY TypeStep DEF Control
<1> SUFFICES OnePurchasePerUser' /\ SessionMatchesOrder'
  BY <1>1 DEF Control
<1>2. ASSUME NEW p \in Purchases, HandleBuy(p)
      PROVE  OnePurchasePerUser' /\ SessionMatchesOrder'
  BY <1>2, LoadControl DEF HandleBuy
<1>3. ASSUME NEW p \in Purchases, NEW c \in Coupons, HandleBuyWithCoupon(p, c)
      PROVE  OnePurchasePerUser' /\ SessionMatchesOrder'
  BY <1>3, LoadControl DEF HandleBuyWithCoupon
<1>4. ASSUME NEW p \in Purchases, CreateAndPay(p)
      PROVE  OnePurchasePerUser' /\ SessionMatchesOrder'
  BY <1>4, PayControl DEF CreateAndPay
<1>5. ASSUME NEW p \in Purchases, CreateAndPayWithCoupon(p)
      PROVE  OnePurchasePerUser' /\ SessionMatchesOrder'
  BY <1>5, PayControl DEF CreateAndPayWithCoupon
<1>6. ASSUME NEW p \in Purchases, Refuse(p)
      PROVE  OnePurchasePerUser' /\ SessionMatchesOrder'
  <2>1. OnePurchasePerUser'
    BY <1>6, LeaveControl DEF Refuse, Running
  <2>2. SessionMatchesOrder'
    BY <1>6 DEF Refuse, Leave, Control, ShopTypeOK, SessionMatchesOrder, orderVars
  <2> QED
    BY <2>1, <2>2
<1>7. ASSUME NEW p \in Purchases, Place(p)
      PROVE  OnePurchasePerUser' /\ SessionMatchesOrder'
  <2>1. /\ pc[p] = "charged"
        /\ pc' = [pc EXCEPT ![p] = "placed"]
        /\ status' = [status EXCEPT ![p] = "WAITING_ADMIN"]
        /\ UNCHANGED <<couponOf, buttons, processing>>
    BY <1>7 DEF Place
  <2>2. OnePurchasePerUser'
    BY <2>1 DEF Control, ShopTypeOK, Running, OnePurchasePerUser
  <2>3. SessionMatchesOrder'
    BY <2>1 DEF Control, ShopTypeOK, SessionMatchesOrder
  <2> QED
    BY <2>2, <2>3
<1>8. ASSUME NEW p \in Purchases, DeliverVpn(p)
      PROVE  OnePurchasePerUser' /\ SessionMatchesOrder'
  <2>1. OnePurchasePerUser'
    BY <1>8 DEF DeliverVpn, Control, ShopTypeOK, Running, OnePurchasePerUser
  <2>2. SessionMatchesOrder'
    BY <1>8 DEF DeliverVpn, Control, ShopTypeOK, SessionMatchesOrder
  <2> QED
    BY <2>1, <2>2
<1>9. ASSUME NEW p \in Purchases, NotifyAdmins(p)
      PROVE  OnePurchasePerUser' /\ SessionMatchesOrder'
  <2>1. OnePurchasePerUser'
    BY <1>9 DEF NotifyAdmins, Control, ShopTypeOK, Running, OnePurchasePerUser
  <2>2. SessionMatchesOrder'
    BY <1>9 DEF NotifyAdmins, Control, ShopTypeOK, SessionMatchesOrder, orderVars
  <2> QED
    BY <2>1, <2>2
<1>10. ASSUME NEW p \in Purchases, Finish(p) \/ Abort(p)
       PROVE  OnePurchasePerUser' /\ SessionMatchesOrder'
  <2>1. OnePurchasePerUser'
    BY <1>10, LeaveControl DEF Finish, Abort, Running
  <2>2. SessionMatchesOrder'
    <3>1. CASE Finish(p)
      BY <3>1 DEF Finish, Leave, Control, ShopTypeOK, SessionMatchesOrder, orderVars
    <3>2. CASE Abort(p)
      BY <3>2 DEF Abort, Leave, Control, ShopTypeOK, SessionMatchesOrder, orderVars
    <3> QED
      BY <1>10, <3>1, <3>2
  <2> QED
    BY <2>1, <2>2
<1>11. ASSUME NEW p \in Purchases, MarkDelivered(p)
       PROVE  OnePurchasePerUser' /\ SessionMatchesOrder'
  BY <1>11 DEF MarkDelivered, Control, ShopTypeOK, Running, OnePurchasePerUser,
               SessionMatchesOrder, sessionVars
<1>12. ASSUME UNCHANGED <<orderVars, buttons, sessionVars>>
       PROVE  OnePurchasePerUser' /\ SessionMatchesOrder'
  BY <1>12 DEF Control, OnePurchasePerUser, SessionMatchesOrder, orderVars, sessionVars
<1>13. ASSUME NEW c \in Coupons, CreateCoupon(c) \/ ReadForDelete(c) \/ DeleteCoupon(c)
       PROVE  UNCHANGED <<orderVars, buttons, sessionVars>>
  BY <1>13 DEF CreateCoupon, ReadForDelete, DeleteCoupon
<1>14. ASSUME NEW d \in Deposits, CreateRequest(d) \/ Approve(d) \/ Reject(d)
       PROVE  UNCHANGED <<orderVars, buttons, sessionVars>>
  BY <1>14 DEF CreateRequest, Approve, Reject
<1>15. CASE UNCHANGED vars
  BY <1>12, <1>15 DEF vars, orderVars, sessionVars
<1>16. CASE PayUnguarded
  BY <1>12, <1>16 DEF PayUnguarded
<1> QED
  BY <1>2, <1>3, <1>4, <1>5, <1>6, <1>7, <1>8, <1>9, <1>10, <1>11, <1>12, <1>13,
     <1>14, <1>15, <1>16 DEF Next, Shopping, SessionStep

LEMMA ControlInit == Init => Control
BY TypeInit DEF Init, Control, OnePurchasePerUser, SessionMatchesOrder, Running

-----------------------------------------------------------------------------
(* Money.  What a session remembers of a wallet is a balance that some row *)
(* of its user left, and a purchase's copy is one that no other purchase   *)
(* of the user has followed.  A posting from such a balance keeps that.    *)

\* A balance u has had.
KnownBalance(u, balance) ==
    \E k \in 0..Len(ledger[u]) : balance = PreviousAfter(ledger[u], k + 1)

\* The rows before the one that is posted, and what they left, stay as they are.
LEMMA RowsStay ==
    ASSUME WalletTypeOK,
           NEW u \in Users, NEW seen \in Int, NEW amount \in Int,
           NEW type \in TxTypes, NEW ref \in Refs,
           Post(u, seen, amount, type, ref),
           NEW v \in Users
    PROVE  /\ Len(ledger[v]) \in Nat
           /\ Len(ledger'[v]) = IF v = u THEN Len(ledger[v]) + 1 ELSE Len(ledger[v])
           /\ DOMAIN ledger[v] = 1..Len(ledger[v])
           /\ DOMAIN ledger'[v] = 1..Len(ledger'[v])
           /\ \A j \in 1..Len(ledger[v]) : ledger'[v][j] = ledger[v][j]
           /\ \A k \in 0..Len(ledger[v]) :
                 PreviousAfter(ledger'[v], k + 1) = PreviousAfter(ledger[v], k + 1)
<1>1. /\ WalletTypeOK'
      /\ \A w \in Users : w # u => ledger'[w] = ledger[w]
      /\ Len(ledger'[u]) = Len(ledger[u]) + 1
      /\ \A i \in 1..Len(ledger[u]) : ledger'[u][i] = ledger[u][i]
  BY PostEffect
<1>2. ledger[v] \in Seq(Row) /\ ledger'[v] \in Seq(Row)
  BY <1>1 DEF WalletTypeOK
<1>3. \A j \in 1..Len(ledger[v]) : ledger'[v][j] = ledger[v][j]
  BY <1>1
<1>4. ASSUME NEW k \in 0..Len(ledger[v])
      PROVE  PreviousAfter(ledger'[v], k + 1) = PreviousAfter(ledger[v], k + 1)
  <2>1. CASE k = 0
    BY <2>1 DEF PreviousAfter
  <2>2. CASE k # 0
    <3>1. k \in 1..Len(ledger[v]) /\ k + 1 # 1 /\ (k + 1) - 1 = k
      BY <1>2, <2>2
    <3>2. ledger'[v][k] = ledger[v][k]
      BY <1>3, <3>1
    <3> QED
      BY <3>1, <3>2 DEF PreviousAfter
  <2> QED
    BY <2>1, <2>2
<1>5. Len(ledger'[v]) = IF v = u THEN Len(ledger[v]) + 1 ELSE Len(ledger[v])
  BY <1>1
<1> QED
  BY <1>2, <1>3, <1>4, <1>5

LEMMA KnownStays ==
    ASSUME WalletTypeOK,
           NEW u \in Users, NEW seen \in Int, NEW amount \in Int,
           NEW type \in TxTypes, NEW ref \in Refs,
           Post(u, seen, amount, type, ref),
           NEW v \in Users, NEW balance, KnownBalance(v, balance)
    PROVE  KnownBalance(v, balance)'
<1>1. PICK k \in 0..Len(ledger[v]) : balance = PreviousAfter(ledger[v], k + 1)
  BY DEF KnownBalance
<1>2. PreviousAfter(ledger'[v], k + 1) = PreviousAfter(ledger[v], k + 1)
  BY RowsStay
<1>3. k \in 0..Len(ledger'[v])
  <2>1. Len(ledger[v]) \in Nat
    BY RowsStay
  <2>2. Len(ledger'[v]) = Len(ledger[v]) \/ Len(ledger'[v]) = Len(ledger[v]) + 1
    BY RowsStay
  <2> QED
    BY <2>1, <2>2
<1> QED
  BY <1>1, <1>2, <1>3 DEF KnownBalance

\* What a posting leaves is known from then on.
LEMMA LeftIsKnown ==
    ASSUME WalletTypeOK,
           NEW u \in Users, NEW seen \in Int, NEW amount \in Int,
           NEW type \in TxTypes, NEW ref \in Refs,
           Post(u, seen, amount, type, ref)
    PROVE  KnownBalance(u, seen + amount)' /\ LedgerBalance(u)' = seen + amount
<1>1. /\ Len(ledger'[u]) = Len(ledger[u]) + 1
      /\ ledger'[u][Len(ledger[u]) + 1] =
           [type |-> type, ref |-> ref, amount |-> amount,
            before |-> seen, after |-> seen + amount]
  BY PostEffect
<1>2. Len(ledger[u]) \in Nat
  BY RowsStay
<1>3. PreviousAfter(ledger'[u], Len(ledger'[u]) + 1) = seen + amount
  BY <1>1, <1>2 DEF PreviousAfter
<1>4. Len(ledger'[u]) \in 0..Len(ledger'[u])
  BY <1>1, <1>2
<1> QED
  BY <1>3, <1>4 DEF KnownBalance, LedgerBalance

\* A stretch of the ledger without a purchase stays one.
LEMMA SinceStays ==
    ASSUME WalletTypeOK,
           NEW u \in Users, NEW seen \in Int, NEW amount \in Int,
           NEW type \in TxTypes, NEW ref \in Refs,
           Post(u, seen, amount, type, ref),
           NEW v \in Users, NEW balance, NEW n \in 0..Len(ledger[v]),
           NoPurchaseSince(v, balance, n)
    PROVE  NoPurchaseSince(v, balance, n)'
<1>1. PICK k \in 0..n :
        /\ balance = PreviousAfter(ledger[v], k + 1)
        /\ \A j \in (k + 1)..n : ledger[v][j].amount < 0 => ledger[v][j].ref \in Unguarded
  BY DEF NoPurchaseSince
<1>2. Len(ledger[v]) \in Nat
  BY RowsStay
<1>3. k \in 0..Len(ledger[v]) /\ \A j \in (k + 1)..n : j \in 1..Len(ledger[v])
  BY <1>2
<1>4. PreviousAfter(ledger'[v], k + 1) = PreviousAfter(ledger[v], k + 1)
  BY <1>3, RowsStay
<1>5. \A j \in (k + 1)..n : ledger'[v][j] = ledger[v][j]
  BY <1>3, RowsStay
<1>6. /\ balance = PreviousAfter(ledger'[v], k + 1)
      /\ \A j \in (k + 1)..n : ledger'[v][j].amount < 0 => ledger'[v][j].ref \in Unguarded
  BY <1>1, <1>4, <1>5
<1> QED
  BY <1>6 DEF NoPurchaseSince

\* A credit, or a row of a renewal or an entry, makes the stretch longer.
LEMMA SinceGrows ==
    ASSUME WalletTypeOK,
           NEW u \in Users, NEW seen \in Int, NEW amount \in Int,
           NEW type \in TxTypes, NEW ref \in Refs,
           Post(u, seen, amount, type, ref),
           NEW v \in Users, NEW balance, NoPurchaseSince(v, balance, Len(ledger[v])),
           v = u => amount >= 0 \/ ref \in Unguarded
    PROVE  NoPurchaseSince(v, balance, Len(ledger[v]))'
<1>1. PICK n : n = Len(ledger[v])
  OBVIOUS
<1>2. n \in Nat /\ n \in 0..Len(ledger[v])
  BY <1>1, RowsStay
<1>3. CASE v # u
  <2>1. Len(ledger'[v]) = n
    BY <1>1, <1>3, RowsStay
  <2>2. NoPurchaseSince(v, balance, n)'
    BY <1>1, <1>2, SinceStays
  <2> QED
    BY <2>1, <2>2 DEF NoPurchaseSince
<1>4. CASE v = u
  <2>1. PICK k \in 0..n :
          /\ balance = PreviousAfter(ledger[v], k + 1)
          /\ \A j \in (k + 1)..n : ledger[v][j].amount < 0 => ledger[v][j].ref \in Unguarded
    BY <1>1 DEF NoPurchaseSince
  <2>2. PreviousAfter(ledger'[v], k + 1) = PreviousAfter(ledger[v], k + 1)
    BY <1>1, RowsStay
  <2>3. \A j \in (k + 1)..n : j \in 1..n
    BY <1>2
  <2>4. \A j \in (k + 1)..n : ledger'[v][j] = ledger[v][j]
    BY <1>1, <2>3, RowsStay
  <2>5. /\ ledger'[v][n + 1].amount = amount
        /\ ledger'[v][n + 1].ref = ref
    <3>1. ledger'[u][n + 1] = [type |-> type, ref |-> ref, amount |-> amount,
                               before |-> seen, after |-> seen + amount]
      BY <1>1, <1>4, PostEffect
    <3> QED
      BY <1>4, <3>1
  <2>6. ledger'[v][n + 1].amount < 0 => ledger'[v][n + 1].ref \in Unguarded
    BY <1>4, <2>5
  <2>7. \A j \in (k + 1)..(n + 1) : j \in (k + 1)..n \/ j = n + 1
    BY <1>2
  <2>8. \A j \in (k + 1)..(n + 1) :
           ledger'[v][j].amount < 0 => ledger'[v][j].ref \in Unguarded
    BY <2>1, <2>4, <2>6, <2>7
  <2>9. Len(ledger'[v]) = n + 1 /\ k \in 0..(n + 1)
    BY <1>1, <1>2, <1>4, RowsStay
  <2> QED
    BY <2>1, <2>2, <2>8, <2>9 DEF NoPurchaseSince
<1> QED
  BY <1>3, <1>4

\* The balance of the row itself is one that nothing has followed.
LEMMA RowIsKnown ==
    ASSUME WalletTypeOK, NoPurchasePassedOver, NEW u \in Users
    PROVE  /\ KnownBalance(u, wallet[u])
           /\ NoPurchaseSince(u, wallet[u], Len(ledger[u]))
<1>1. PICK n : n = Len(ledger[u])
  OBVIOUS
<1>2. n \in Nat
  <2>1. ledger[u] \in Seq(Row)
    BY DEF WalletTypeOK
  <2> QED
    BY <1>1, <2>1
<1>3. wallet[u] = PreviousAfter(ledger[u], n + 1)
  BY <1>1 DEF NoPurchasePassedOver, LedgerBalance
<1>4. n \in 0..n /\ (n + 1)..n = {}
  BY <1>2
<1> QED
  BY <1>1, <1>3, <1>4 DEF KnownBalance, NoPurchaseSince

LEMMA SinceIsKnown ==
    ASSUME NEW u, NEW balance, NoPurchaseSince(u, balance, Len(ledger[u]))
    PROVE  KnownBalance(u, balance)
BY DEF NoPurchaseSince, KnownBalance

\* No balance of the past was negative.
LEMMA KnownIsNat ==
    ASSUME WalletTypeOK, NoPurchasePassedOver,
           NEW u \in Users, NEW balance, KnownBalance(u, balance)
    PROVE  balance \in Nat
<1>1. PICK k \in 0..Len(ledger[u]) : balance = PreviousAfter(ledger[u], k + 1)
  BY DEF KnownBalance
<1>2. ledger[u] \in Seq(Row) /\ Len(ledger[u]) \in Nat
  BY DEF WalletTypeOK
<1>3. CASE k = 0
  BY <1>1, <1>3 DEF PreviousAfter
<1>4. CASE k # 0
  <2>1. k \in DOMAIN ledger[u] /\ (k + 1) - 1 = k /\ k + 1 # 1
    BY <1>2, <1>4
  <2>2. ledger[u][k] \in Row
    BY <1>2, <2>1
  <2>3. ledger[u][k].after \in Int /\ ledger[u][k].after >= 0
    BY <2>1, <2>2 DEF NoPurchasePassedOver, Row
  <2> QED
    BY <1>1, <2>1, <2>3 DEF PreviousAfter
<1> QED
  BY <1>3, <1>4

\* What NoPurchasePassedOver says of one row.
RowFollows(u, i) ==
    /\ ledger[u][i].after >= 0
    /\ \E k \in 0..(i - 1) : ledger[u][i].before = PreviousAfter(ledger[u], k + 1)
    /\ ledger[u][i].ref \in Purchases => NoPurchaseSince(u, ledger[u][i].before, i - 1)

LEMMA PostFollows ==
    ASSUME WalletTypeOK, NoPurchasePassedOver,
           NEW u \in Users, NEW seen \in Int, NEW amount \in Int,
           NEW type \in TxTypes, NEW ref \in Refs,
           Post(u, seen, amount, type, ref),
           seen + amount >= 0,
           KnownBalance(u, seen),
           ref \in Purchases => NoPurchaseSince(u, seen, Len(ledger[u]))
    PROVE  NoPurchasePassedOver'
<1>1. /\ wallet'[u] = seen + amount
      /\ \A v \in Users : v # u => wallet'[v] = wallet[v] /\ ledger'[v] = ledger[v]
      /\ ledger'[u][Len(ledger[u]) + 1] =
           [type |-> type, ref |-> ref, amount |-> amount,
            before |-> seen, after |-> seen + amount]
  BY PostEffect
<1>2. ASSUME NEW v \in Users
      PROVE  wallet'[v] = LedgerBalance(v)'
  <2>1. CASE v = u
    BY <1>1, <2>1, LeftIsKnown
  <2>2. CASE v # u
    BY <1>1, <2>2 DEF NoPurchasePassedOver, LedgerBalance
  <2> QED
    BY <2>1, <2>2
<1>3. ASSUME NEW v \in Users, NEW i \in 1..Len(ledger[v])
      PROVE  RowFollows(v, i)'
  <2>1. /\ Len(ledger[v]) \in Nat /\ i \in DOMAIN ledger[v]
        /\ ledger'[v][i] = ledger[v][i]
    BY RowsStay
  <2>2. RowFollows(v, i)
    BY <2>1 DEF NoPurchasePassedOver, RowFollows
  <2>3. PICK k \in 0..(i - 1) : ledger[v][i].before = PreviousAfter(ledger[v], k + 1)
    BY <2>2 DEF RowFollows
  <2>4. PreviousAfter(ledger'[v], k + 1) = PreviousAfter(ledger[v], k + 1)
    <3>1. k \in 0..Len(ledger[v])
      BY <2>1
    <3> QED
      BY <3>1, RowsStay
  <2>5. PICK balance : balance = ledger[v][i].before
    OBVIOUS
  <2>6. i - 1 \in 0..Len(ledger[v])
    BY <2>1
  <2>7. ledger[v][i].ref \in Purchases => NoPurchaseSince(v, balance, i - 1)
    BY <2>2, <2>5 DEF RowFollows
  <2>8. ledger[v][i].ref \in Purchases => NoPurchaseSince(v, balance, i - 1)'
    BY <2>6, <2>7, SinceStays
  <2>9. /\ ledger'[v][i].after >= 0
        /\ ledger'[v][i].before = PreviousAfter(ledger'[v], k + 1)
        /\ ledger'[v][i].before = balance
        /\ ledger'[v][i].ref = ledger[v][i].ref
    BY <2>1, <2>2, <2>3, <2>4, <2>5 DEF RowFollows
  <2> QED
    BY <2>8, <2>9 DEF RowFollows, NoPurchaseSince
<1>4. PICK n : n = Len(ledger[u])
  OBVIOUS
<1>5. n \in Nat /\ n \in 0..Len(ledger[u]) /\ (n + 1) - 1 = n
  BY <1>4, RowsStay
<1>6. RowFollows(u, n + 1)'
  <2>1. /\ ledger'[u][n + 1].after = seen + amount
        /\ ledger'[u][n + 1].before = seen
        /\ ledger'[u][n + 1].ref = ref
    BY <1>1, <1>4
  <2>2. PICK k \in 0..n : seen = PreviousAfter(ledger[u], k + 1)
    BY <1>4 DEF KnownBalance
  <2>3. PreviousAfter(ledger'[u], k + 1) = PreviousAfter(ledger[u], k + 1)
    BY <1>4, RowsStay
  <2>4. ref \in Purchases => NoPurchaseSince(u, seen, n)'
    BY <1>4, <1>5, SinceStays
  <2>5. ledger'[u][n + 1].before = PreviousAfter(ledger'[u], k + 1)
    BY <2>1, <2>2, <2>3
  <2> QED
    BY <1>5, <2>1, <2>2, <2>4, <2>5 DEF RowFollows, NoPurchaseSince
<1>7. ASSUME NEW v \in Users, NEW i \in DOMAIN ledger'[v]
      PROVE  RowFollows(v, i)'
  <2>1. /\ Len(ledger[v]) \in Nat
        /\ i \in 1..Len(ledger'[v])
        /\ Len(ledger'[v]) = IF v = u THEN Len(ledger[v]) + 1 ELSE Len(ledger[v])
    BY RowsStay
  <2>2. i \in 1..Len(ledger[v]) \/ (v = u /\ i = n + 1)
    BY <1>4, <2>1
  <2> QED
    BY <1>3, <1>6, <2>2
<1> QED
  BY <1>2, <1>7 DEF NoPurchasePassedOver, RowFollows

\* Every step that touches a wallet is a payment, a credit under the wallet's lock, or one
\* of a renewal or a tournament.
LEMMA WalletStep ==
    ASSUME Control, [Next]_vars
    PROVE  \/ UNCHANGED walletVars
           \/ \E p \in Purchases, price \in Int, c \in Coupons \cup {NoCoupon} :
                 Pay(p, price, c)
           \/ /\ \E u \in Users, a \in Int, type \in {"BONUS", "DEPOSIT"}, ref \in Refs :
                    Credit(u, wallet[u], a, type, ref)
              /\ UNCHANGED held
              /\ \A p \in Purchases : pc'[p] = "loaded" => pc[p] = "loaded"
           \/ PayUnguarded
<1> DEFINE Goal ==
           \/ UNCHANGED walletVars
           \/ \E p \in Purchases, price \in Int, c \in Coupons \cup {NoCoupon} :
                 Pay(p, price, c)
           \/ /\ \E u \in Users, a \in Int, type \in {"BONUS", "DEPOSIT"}, ref \in Refs :
                    Credit(u, wallet[u], a, type, ref)
              /\ UNCHANGED held
              /\ \A p \in Purchases : pc'[p] = "loaded" => pc[p] = "loaded"
           \/ PayUnguarded
<1>1. ASSUME NEW p \in Purchases, CreateAndPay(p)
      PROVE  Goal
  <2>1. Price[p] \in Int
    OBVIOUS
  <2> QED
    BY <1>1, <2>1 DEF CreateAndPay
<1>2. ASSUME NEW p \in Purchases, CreateAndPayWithCoupon(p)
      PROVE  Goal
  <2>1. code[p] \in Coupons
    BY <1>2 DEF CreateAndPayWithCoupon, Control, ShopTypeOK
  <2>2. Price[p] \in Int /\ Percent[code[p]] \in Int
    BY <2>1
  <2>3. Discounted(Price[p], Percent[code[p]]) \in Int
    BY <2>2, DiscountedType
  <2> QED
    BY <1>2, <2>1, <2>3 DEF CreateAndPayWithCoupon
<1>3. ASSUME NEW p \in Purchases, Place(p)
      PROVE  Goal
  <2>1. /\ UNCHANGED held
        /\ \A q \in Purchases : pc'[q] = "loaded" => pc[q] = "loaded"
    BY <1>3 DEF Place, Control, ShopTypeOK
  <2>2. PayCashback(p)
    BY <1>3 DEF Place
  <2>3. CASE UNCHANGED walletVars
    BY <2>3
  <2>4. CASE /\ Referrer[Buyer[p]] # NoUser
             /\ Credit(Referrer[Buyer[p]], wallet[Referrer[Buyer[p]]],
                       Cashback(due[p]), "BONUS", p)
    <3>1. /\ Referrer[Buyer[p]] \in Users
          /\ p \in Refs
      BY <2>4
    <3>2. Cashback(due[p]) \in Int
      BY CashbackType DEF Control, ShopTypeOK
    <3> QED
      BY <2>1, <2>4, <3>1, <3>2
  <2> QED
    BY <2>2, <2>3, <2>4 DEF PayCashback
<1>4. ASSUME NEW d \in Deposits, Approve(d)
      PROVE  Goal
  <2>1. /\ Depositor[d] \in Users
        /\ Amount[d] \in Int
        /\ d \in Refs
    OBVIOUS
  <2> QED
    BY <1>4, <2>1 DEF Approve, sessionVars
<1>5. ASSUME NEW p \in Purchases,
             \/ HandleBuy(p)
             \/ \E c \in Coupons : HandleBuyWithCoupon(p, c)
             \/ Refuse(p) \/ DeliverVpn(p) \/ NotifyAdmins(p) \/ Finish(p) \/ Abort(p)
             \/ MarkDelivered(p)
      PROVE  UNCHANGED walletVars
  BY <1>5 DEF HandleBuy, HandleBuyWithCoupon, Load, Refuse, DeliverVpn, NotifyAdmins,
              Finish, Abort, MarkDelivered
<1>6. ASSUME NEW c \in Coupons, CreateCoupon(c) \/ ReadForDelete(c) \/ DeleteCoupon(c)
      PROVE  UNCHANGED walletVars
  BY <1>6 DEF CreateCoupon, ReadForDelete, DeleteCoupon
<1>7. ASSUME NEW d \in Deposits, CreateRequest(d) \/ Reject(d)
      PROVE  UNCHANGED walletVars
  BY <1>7 DEF CreateRequest, Reject
<1>8. CASE UNCHANGED vars
  BY <1>8 DEF vars, walletVars
<1> QED
  BY <1>1, <1>2, <1>3, <1>4, <1>5, <1>6, <1>7, <1>8 DEF Next, Shopping, SessionStep

\* Between Load and the payment a session keeps the balance it remembers.
LEMMA HeldStep ==
    ASSUME Control, [Next]_vars, NEW q \in Purchases, pc'[q] = "loaded"
    PROVE  \/ pc[q] = "loaded" /\ held'[q] = held[q]
           \/ held'[q].balance = wallet[Buyer[q]] /\ UNCHANGED walletVars
<1> USE DEF Control, ShopTypeOK
<1> DEFINE Goal == \/ pc[q] = "loaded" /\ held'[q] = held[q]
                   \/ held'[q].balance = wallet[Buyer[q]] /\ UNCHANGED walletVars
<1>1. ASSUME NEW p \in Purchases, NEW c, Load(p, c)
      PROVE  Goal
  BY <1>1 DEF Load, walletVars
<1>2. ASSUME NEW p \in Purchases, NEW price, NEW c, Pay(p, price, c)
      PROVE  Goal
  BY <1>2 DEF Pay
<1>3. ASSUME NEW p \in Purchases, NEW how, how # "loaded", Leave(p, how)
      PROVE  Goal
  BY <1>3 DEF Leave
<1>4. ASSUME NEW p \in Purchases, NEW step, step # "loaded",
             pc' = [pc EXCEPT ![p] = step], held' = held
      PROVE  Goal
  BY <1>4
<1>5. ASSUME UNCHANGED sessionVars
      PROVE  Goal
  BY <1>5 DEF sessionVars
<1>6. ASSUME NEW p \in Purchases, MarkDelivered(p)
      PROVE  UNCHANGED sessionVars
  BY <1>6 DEF MarkDelivered
<1>7. ASSUME NEW c \in Coupons, CreateCoupon(c) \/ ReadForDelete(c) \/ DeleteCoupon(c)
      PROVE  UNCHANGED sessionVars
  BY <1>7 DEF CreateCoupon, ReadForDelete, DeleteCoupon
<1>8. ASSUME NEW d \in Deposits, CreateRequest(d) \/ Approve(d) \/ Reject(d)
      PROVE  UNCHANGED sessionVars
  BY <1>8 DEF CreateRequest, Approve, Reject
<1>9. CASE UNCHANGED vars
  BY <1>5, <1>9 DEF vars, sessionVars
<1>10. ASSUME NEW p \in Purchases, SessionStep(p)
       PROVE  \/ \E price, c : Pay(p, price, c)
              \/ \E how : how # "loaded" /\ Leave(p, how)
              \/ \E step : step # "loaded" /\ pc' = [pc EXCEPT ![p] = step] /\ held' = held
  BY <1>10 DEF SessionStep, CreateAndPay, CreateAndPayWithCoupon, Refuse, Place, DeliverVpn,
               NotifyAdmins, Finish, Abort
<1>11. CASE PayUnguarded
  BY <1>5, <1>11 DEF PayUnguarded
<1> QED
  BY <1>1, <1>2, <1>3, <1>4, <1>5, <1>6, <1>7, <1>8, <1>9, <1>10, <1>11
  DEF Next, Shopping, HandleBuy, HandleBuyWithCoupon

\* What the sessions of renewals and refunds remember is a balance of the past.
CopiesKnown == \A x \in Unguarded : KnownBalance(Payer[x], copy[x])

MoneyInv == Control /\ HeldKnowsPurchases /\ CopiesKnown /\ NoPurchasePassedOver

LEMMA CopiesStay ==
    ASSUME WalletTypeOK, CopiesKnown,
           NEW u \in Users, NEW seen \in Int, NEW amount \in Int,
           NEW type \in TxTypes, NEW ref \in Refs,
           Post(u, seen, amount, type, ref),
           copy' = copy
    PROVE  CopiesKnown'
<1> SUFFICES ASSUME NEW x \in Unguarded
             PROVE  KnownBalance(Payer[x], copy[x])'
  BY DEF CopiesKnown
<1>1. PICK balance : balance = copy[x]
  OBVIOUS
<1>2. Payer[x] \in Users /\ KnownBalance(Payer[x], balance)
  BY <1>1, UnguardedAssumption DEF CopiesKnown
<1>3. KnownBalance(Payer[x], balance)'
  BY <1>2, KnownStays
<1>4. copy'[x] = balance
  BY <1>1
<1> QED
  BY <1>3, <1>4 DEF KnownBalance

\* A posting that is no payment of a purchase leaves the sessions what they rely on.
LEMMA HeldStays ==
    ASSUME WalletTypeOK, HeldKnowsPurchases,
           NEW u \in Users, NEW seen \in Int, NEW amount \in Int,
           NEW type \in TxTypes, NEW ref \in Refs,
           Post(u, seen, amount, type, ref),
           held' = held,
           \A q \in Purchases : pc'[q] = "loaded" => pc[q] = "loaded",
           amount >= 0 \/ ref \in Unguarded
    PROVE  HeldKnowsPurchases'
<1> SUFFICES ASSUME NEW q \in Purchases, pc'[q] = "loaded"
             PROVE  NoPurchaseSince(Buyer[q], held[q].balance, Len(ledger[Buyer[q]]))'
  BY DEF HeldKnowsPurchases
<1>1. PICK balance : balance = held[q].balance
  OBVIOUS
<1>2. Buyer[q] \in Users /\ NoPurchaseSince(Buyer[q], balance, Len(ledger[Buyer[q]]))
  BY <1>1 DEF HeldKnowsPurchases
<1>3. NoPurchaseSince(Buyer[q], balance, Len(ledger[Buyer[q]]))'
  BY <1>2, SinceGrows
<1>4. held'[q].balance = balance
  BY <1>1
<1> QED
  BY <1>3, <1>4 DEF NoPurchaseSince

LEMMA UnguardedMoney ==
    ASSUME MoneyInv, PayUnguarded
    PROVE  HeldKnowsPurchases' /\ CopiesKnown' /\ NoPurchasePassedOver'
<1>0. /\ ShopTypeOK /\ WalletTypeOK
      /\ HeldKnowsPurchases /\ CopiesKnown /\ NoPurchasePassedOver
  BY DEF MoneyInv, Control, ShopTypeOK, WalletTypeOK
<1>1. held' = held /\ pc' = pc
  BY DEF PayUnguarded, sessionVars
<1>2. ASSUME NEW x \in Unguarded, UNCHANGED walletVars,
             copy' = [copy EXCEPT ![x] = wallet[Payer[x]]]
      PROVE  HeldKnowsPurchases' /\ CopiesKnown' /\ NoPurchasePassedOver'
  <2>1. ledger' = ledger /\ wallet' = wallet
    BY <1>2 DEF walletVars
  <2>2. Payer[x] \in Users /\ copy \in [Unguarded -> Int]
    BY <1>0, UnguardedAssumption DEF ShopTypeOK
  <2>3. KnownBalance(Payer[x], wallet[Payer[x]])
    BY <1>0, <2>2, RowIsKnown
  <2>4. \A y \in Unguarded : copy'[y] = IF y = x THEN wallet[Payer[x]] ELSE copy[y]
    BY <1>2, <2>2
  <2>5. ASSUME NEW y \in Unguarded
        PROVE  KnownBalance(Payer[y], copy[y])'
    <3>1. KnownBalance(Payer[y], copy'[y])
      BY <1>0, <2>3, <2>4 DEF CopiesKnown
    <3> QED
      BY <2>1, <3>1 DEF KnownBalance
  <2>6. HeldKnowsPurchases' /\ NoPurchasePassedOver'
    BY <1>0, <1>1, <2>1
       DEF HeldKnowsPurchases, NoPurchasePassedOver, NoPurchaseSince, LedgerBalance
  <2> QED
    BY <2>5, <2>6 DEF CopiesKnown
<1>3. ASSUME NEW x \in Unguarded, NEW seen \in Int, NEW amount \in Int, NEW left \in Int,
             NEW type \in UnguardedTypes, UnguardedPost(x, seen, amount, type, left)
      PROVE  HeldKnowsPurchases' /\ CopiesKnown' /\ NoPurchasePassedOver'
  <2>1. /\ Payer[x] \in Users /\ type \in TxTypes /\ x \in Refs /\ x \notin Purchases
        /\ Post(Payer[x], seen, amount, type, x)
        /\ copy \in [Unguarded -> Int]
    BY <1>0, <1>3, UnguardedAssumption DEF UnguardedPost, UnguardedTypes, TxTypes, ShopTypeOK
  <2>2. KnownBalance(Payer[x], seen)
    <3>1. CASE seen = wallet[Payer[x]]
      BY <1>0, <2>1, <3>1, RowIsKnown
    <3>2. CASE \E y \in Unguarded : Payer[y] = Payer[x] /\ seen = copy[y]
      BY <1>0, <3>2 DEF CopiesKnown
    <3> QED
      BY <1>3, <3>1, <3>2 DEF UnguardedPost
  <2>3. seen + amount >= 0
    <3>1. seen \in Nat
      BY <1>0, <2>1, <2>2, KnownIsNat
    <3> QED
      BY <1>3, <3>1 DEF UnguardedPost
  <2>4. NoPurchasePassedOver'
    BY <1>0, <2>1, <2>2, <2>3, PostFollows
  <2>5. HeldKnowsPurchases'
    BY <1>0, <1>1, <2>1, HeldStays
  <2>6. ASSUME NEW y \in Unguarded
        PROVE  KnownBalance(Payer[y], copy[y])'
    <3>1. PICK balance : balance = copy[y]
      OBVIOUS
    <3>2. Payer[y] \in Users /\ KnownBalance(Payer[y], balance)
      BY <1>0, <3>1, UnguardedAssumption DEF CopiesKnown
    <3>3. KnownBalance(Payer[y], balance)'
      BY <1>0, <2>1, <3>2, KnownStays
    <3>4. KnownBalance(Payer[x], seen + amount)'
      BY <1>0, <2>1, LeftIsKnown
    <3>5. KnownBalance(Payer[y], 0)'
      <4>1. Len(ledger'[Payer[y]]) \in Nat
        BY <1>0, <2>1, <3>2, PostEffect DEF WalletTypeOK
      <4>2. 0 \in 0..Len(ledger'[Payer[y]]) /\ PreviousAfter(ledger'[Payer[y]], 0 + 1) = 0
        BY <4>1 DEF PreviousAfter
      <4> QED
        BY <4>2 DEF KnownBalance
    <3>6. copy'[y] = balance \/ (y = x /\ copy'[y] = seen + amount) \/ copy'[y] = 0
      BY <1>3, <2>1, <3>1 DEF UnguardedPost
    <3> QED
      BY <3>3, <3>4, <3>5, <3>6 DEF KnownBalance
  <2> QED
    BY <2>4, <2>5, <2>6 DEF CopiesKnown
<1> QED
  BY <1>0, <1>2, <1>3, UnguardedPosts

\* The payment of a purchase: its own session relied on a balance that no purchase has
\* followed, and the guard keeps all other sessions of the user out.
LEMMA PayMoney ==
    ASSUME MoneyInv, NEW p \in Purchases, NEW price \in Int, NEW c, Pay(p, price, c),
           copy' = copy
    PROVE  HeldKnowsPurchases' /\ CopiesKnown' /\ NoPurchasePassedOver'
<1>0. /\ ShopTypeOK /\ WalletTypeOK /\ OnePurchasePerUser
      /\ HeldKnowsPurchases /\ CopiesKnown /\ NoPurchasePassedOver
  BY DEF MoneyInv, Control, ShopTypeOK, WalletTypeOK
<1>1. PICK seen : seen = held[p].balance
  OBVIOUS
<1>2. /\ Buyer[p] \in Users /\ seen \in Int /\ -price \in Int
      /\ "PURCHASE" \in TxTypes /\ p \in Refs
  <2>1. held[p] \in [balance : Int, spent : Int]
    BY <1>0 DEF ShopTypeOK
  <2> QED
    BY <1>1, <2>1 DEF TxTypes
<1>3. /\ Post(Buyer[p], seen, -price, "PURCHASE", p)
      /\ pc[p] = "loaded"
      /\ seen >= price
  BY <1>1 DEF Pay, Debit
<1>4. NoPurchaseSince(Buyer[p], seen, Len(ledger[Buyer[p]]))
  BY <1>0, <1>1, <1>3 DEF HeldKnowsPurchases
<1>5. KnownBalance(Buyer[p], seen)
  BY <1>4, SinceIsKnown
<1>6. seen + (-price) >= 0
  BY <1>2, <1>3
<1>7. NoPurchasePassedOver'
  BY <1>0, <1>2, <1>3, <1>4, <1>5, <1>6, PostFollows
<1>8. CopiesKnown'
  BY <1>0, <1>2, <1>3, CopiesStay
<1>9. ASSUME NEW q \in Purchases, pc'[q] = "loaded"
      PROVE  NoPurchaseSince(Buyer[q], held[q].balance, Len(ledger[Buyer[q]]))'
  <2>1. q # p /\ pc[q] = "loaded" /\ held'[q] = held[q] /\ Buyer[q] \in Users
    BY <1>0, <1>9 DEF Pay, ShopTypeOK
  <2>2. Buyer[q] # Buyer[p]
    BY <1>0, <1>3, <2>1 DEF OnePurchasePerUser, Running
  <2>3. PICK balance : balance = held[q].balance
    OBVIOUS
  <2>4. NoPurchaseSince(Buyer[q], balance, Len(ledger[Buyer[q]]))
    BY <1>0, <2>1, <2>3 DEF HeldKnowsPurchases
  <2>5. NoPurchaseSince(Buyer[q], balance, Len(ledger[Buyer[q]]))'
    BY <1>0, <1>2, <1>3, <2>1, <2>2, <2>4, SinceGrows
  <2>6. held'[q].balance = balance
    BY <2>1, <2>3
  <2> QED
    BY <2>5, <2>6 DEF NoPurchaseSince
<1> QED
  BY <1>7, <1>8, <1>9 DEF HeldKnowsPurchases

LEMMA QuietMoney ==
    ASSUME MoneyInv, [Next]_vars, UNCHANGED walletVars, copy' = copy
    PROVE  HeldKnowsPurchases' /\ CopiesKnown' /\ NoPurchasePassedOver'
<1>0. /\ ShopTypeOK /\ WalletTypeOK /\ Control
      /\ HeldKnowsPurchases /\ CopiesKnown /\ NoPurchasePassedOver
  BY DEF MoneyInv, Control, ShopTypeOK, WalletTypeOK
<1>1. ledger' = ledger /\ wallet' = wallet
  BY DEF walletVars
<1>2. CopiesKnown' /\ NoPurchasePassedOver'
  BY <1>0, <1>1 DEF CopiesKnown, KnownBalance, NoPurchasePassedOver, NoPurchaseSince, LedgerBalance
<1>3. ASSUME NEW q \in Purchases, pc'[q] = "loaded"
      PROVE  NoPurchaseSince(Buyer[q], held[q].balance, Len(ledger[Buyer[q]]))'
  <2>1. CASE pc[q] = "loaded" /\ held'[q] = held[q]
    BY <1>0, <1>1, <2>1 DEF HeldKnowsPurchases, NoPurchaseSince
  <2>2. CASE held'[q].balance = wallet[Buyer[q]]
    <3>1. NoPurchaseSince(Buyer[q], wallet[Buyer[q]], Len(ledger[Buyer[q]]))
      BY <1>0, RowIsKnown
    <3> QED
      BY <1>1, <2>2, <3>1 DEF NoPurchaseSince
  <2> QED
    BY <1>0, <1>3, <2>1, <2>2, HeldStep
<1> QED
  BY <1>2, <1>3 DEF HeldKnowsPurchases

LEMMA MoneyStep ==
    ASSUME MoneyInv, [Next]_vars
    PROVE  MoneyInv'
<1>0. /\ Control /\ WalletTypeOK
      /\ HeldKnowsPurchases /\ CopiesKnown /\ NoPurchasePassedOver
  BY DEF MoneyInv, Control, ShopTypeOK, WalletTypeOK
<1>1. Control'
  BY <1>0, ControlStep
<1> DEFINE Goal == HeldKnowsPurchases' /\ CopiesKnown' /\ NoPurchasePassedOver'
<1>2. CASE PayUnguarded
  BY <1>1, <1>2, UnguardedMoney DEF MoneyInv
<1>3. CASE ~ PayUnguarded
  <2>1. copy' = copy
    BY <1>3 DEF Next, Shopping, vars, payingVars
  <2>2. CASE UNCHANGED walletVars
    BY <1>1, <2>1, <2>2, QuietMoney DEF MoneyInv
  <2>3. ASSUME NEW p \in Purchases, NEW price \in Int, NEW c \in Coupons \cup {NoCoupon},
               Pay(p, price, c)
        PROVE  MoneyInv'
    BY <1>1, <2>1, <2>3, PayMoney DEF MoneyInv
  <2>4. ASSUME NEW u \in Users, NEW a \in Int, NEW type \in {"BONUS", "DEPOSIT"},
               NEW ref \in Refs, Credit(u, wallet[u], a, type, ref),
               UNCHANGED held,
               \A p \in Purchases : pc'[p] = "loaded" => pc[p] = "loaded"
        PROVE  MoneyInv'
    <3>1. PICK seen : seen = wallet[u]
      OBVIOUS
    <3>2. /\ seen \in Int /\ type \in TxTypes
          /\ Post(u, seen, a, type, ref) /\ a > 0 /\ a >= 0
      BY <1>0, <2>4, <3>1 DEF WalletTypeOK, Credit, TxTypes
    <3>3. KnownBalance(u, seen) /\ NoPurchaseSince(u, seen, Len(ledger[u]))
      BY <1>0, <3>1, RowIsKnown
    <3>4. seen + a >= 0
      <4>1. seen \in Nat
        BY <1>0, <3>3, KnownIsNat
      <4> QED
        BY <3>2, <4>1
    <3>5. NoPurchasePassedOver'
      BY <1>0, <3>2, <3>3, <3>4, PostFollows
    <3>6. CopiesKnown'
      BY <1>0, <2>1, <3>2, CopiesStay
    <3>7. HeldKnowsPurchases'
      BY <1>0, <2>4, <3>2, HeldStays
    <3> QED
      BY <1>1, <3>5, <3>6, <3>7 DEF MoneyInv
  <2> QED
    BY <1>0, <1>3, <2>2, <2>3, <2>4, WalletStep
<1> QED
  BY <1>2, <1>3

LEMMA MoneyInit == Init => MoneyInv
<1> SUFFICES ASSUME Init PROVE MoneyInv
  OBVIOUS
<1>1. Control
  BY ControlInit
<1>2. /\ \A u \in Users : wallet[u] = 0 /\ ledger[u] = <<>>
      /\ \A x \in Unguarded : copy[x] = 0 /\ Payer[x] \in Users
      /\ \A p \in Purchases : pc[p] = "idle"
  BY UnguardedAssumption DEF Init, WalletInit
<1>3. \A u \in Users : Len(ledger[u]) = 0 /\ DOMAIN ledger[u] = {}
                         /\ PreviousAfter(ledger[u], 0 + 1) = 0
  <2> SUFFICES ASSUME NEW u \in Users
               PROVE  Len(ledger[u]) = 0 /\ DOMAIN ledger[u] = {}
                         /\ PreviousAfter(ledger[u], 0 + 1) = 0
    OBVIOUS
  <2>1. ledger[u] = <<>>
    BY <1>2
  <2>2. Len(ledger[u]) = 0 /\ DOMAIN ledger[u] = {}
    BY <2>1
  <2> QED
    BY <2>2 DEF PreviousAfter
<1>4. ASSUME NEW x \in Unguarded
      PROVE  KnownBalance(Payer[x], copy[x])
  <2>1. /\ copy[x] = PreviousAfter(ledger[Payer[x]], 0 + 1)
        /\ Len(ledger[Payer[x]]) = 0
    BY <1>2, <1>3
  <2>2. 0 \in 0..Len(ledger[Payer[x]])
    BY <2>1
  <2> QED
    BY <2>1, <2>2 DEF KnownBalance
<1>5. HeldKnowsPurchases
  BY <1>2 DEF HeldKnowsPurchases
<1>6. NoPurchasePassedOver
  BY <1>2, <1>3 DEF NoPurchasePassedOver, LedgerBalance
<1> QED
  BY <1>1, <1>4, <1>5, <1>6 DEF MoneyInv, CopiesKnown

\* One purchase of a user runs at a time, orders and the admins' buttons follow their
\* sessions, and the balance a session is about to pay from, however old, misses no
\* other purchase of the user.
THEOREM SessionsSound == Spec => []SessionInv
<1>1. MoneyInv => SessionInv
  BY DEF MoneyInv, Control, SessionInv
<1> QED
  BY <1>1, MoneyInit, MoneyStep, PTL DEF Spec

\* However many purchases, deposits, cashbacks, renewals, entries and restarts overlap, a
\* wallet stands where its last row left it, never below zero, every row starts from a
\* balance the user had, and no purchase is paid over another one.
THEOREM NoPurchaseIsPassedOver == Spec => []NoPurchasePassedOver
<1>1. MoneyInv => NoPurchasePassedOver
  BY DEF MoneyInv
<1> QED
  BY <1>1, MoneyInit, MoneyStep, PTL DEF Spec

-----------------------------------------------------------------------------
(* Once.  An order, a request and a cashback each have at most one row,    *)
(* and the row moves what it should.                                       *)

LEMMA OneRowKept ==
    ASSUME WalletTypeOK,
           NEW u \in Users, NEW seen \in Int, NEW amount \in Int,
           NEW type \in TxTypes, NEW ref \in Refs,
           Post(u, seen, amount, type, ref),
           NEW v \in Users, NEW t, NEW r, ~(v = u /\ t = type /\ r = ref),
           NEW a
    PROVE  /\ RowsFor(v, t, r)' = RowsFor(v, t, r)
           /\ OneRowOf(v, RowsFor(v, t, r), a) => OneRowOf(v, RowsFor(v, t, r), a)'
<1>1. RowsFor(v, t, r)' = RowsFor(v, t, r)
  BY PostRows
<1>2. /\ \A w \in Users : w # u => wallet'[w] = wallet[w] /\ ledger'[w] = ledger[w]
      /\ \A i \in 1..Len(ledger[u]) : ledger'[u][i] = ledger[u][i]
  BY PostEffect
<1>3. \A i \in RowsFor(v, t, r) : ledger'[v][i] = ledger[v][i]
  <2>1. ledger[v] \in Seq(Row)
    BY DEF WalletTypeOK
  <2>2. RowsFor(v, t, r) \subseteq 1..Len(ledger[v])
    BY <2>1 DEF RowsFor
  <2> QED
    BY <1>2, <2>2
<1> QED
  BY <1>1, <1>3 DEF OneRowOf

LEMMA OneRowAdded ==
    ASSUME WalletTypeOK,
           NEW u \in Users, NEW seen \in Int, NEW amount \in Int,
           NEW type \in TxTypes, NEW ref \in Refs,
           Post(u, seen, amount, type, ref),
           RowsFor(u, type, ref) = {}
    PROVE  OneRowOf(u, RowsFor(u, type, ref), amount)'
<1>1. RowsFor(u, type, ref)' = {Len(ledger[u]) + 1}
  BY PostRows
<1>2. ledger'[u][Len(ledger[u]) + 1] =
        [type |-> type, ref |-> ref, amount |-> amount,
         before |-> seen, after |-> seen + amount]
  BY PostEffect
<1>3. ledger'[u][Len(ledger[u]) + 1].amount = amount
  BY <1>2
<1> QED
  BY <1>1, <1>3 DEF OneRowOf

\* How an order row changes: it is made by its payment, placed, or delivered.
LEMMA OrderStep ==
    ASSUME Control, [Next]_vars
    PROVE  \/ UNCHANGED orderVars
           \/ \E p \in Purchases, price \in Int, c \in Coupons \cup {NoCoupon} :
                 /\ Pay(p, price, c)
                 /\ status[p] = "none"
           \/ \E p \in Purchases :
                 /\ Place(p)
                 /\ status[p] = "PENDING"
           \/ \E p \in Purchases :
                 /\ status[p] = "WAITING_ADMIN"
                 /\ status' = [status EXCEPT ![p] = "COMPLETED"]
                 /\ UNCHANGED <<walletVars, due, couponOf, coupon>>
<1> DEFINE Goal ==
           \/ UNCHANGED orderVars
           \/ \E p \in Purchases, price \in Int, c \in Coupons \cup {NoCoupon} :
                 /\ Pay(p, price, c)
                 /\ status[p] = "none"
           \/ \E p \in Purchases :
                 /\ Place(p)
                 /\ status[p] = "PENDING"
           \/ \E p \in Purchases :
                 /\ status[p] = "WAITING_ADMIN"
                 /\ status' = [status EXCEPT ![p] = "COMPLETED"]
                 /\ UNCHANGED <<walletVars, due, couponOf, coupon>>
<1>0. SessionMatchesOrder
  BY DEF Control
<1>1. ASSUME NEW p \in Purchases, CreateAndPay(p)
      PROVE  Goal
  <2>1. Price[p] \in Int
    OBVIOUS
  <2>2. status[p] = "none"
    BY <1>0, <1>1 DEF CreateAndPay, Pay, SessionMatchesOrder
  <2> QED
    BY <1>1, <2>1, <2>2 DEF CreateAndPay
<1>2. ASSUME NEW p \in Purchases, CreateAndPayWithCoupon(p)
      PROVE  Goal
  <2>1. code[p] \in Coupons
    BY <1>2 DEF CreateAndPayWithCoupon, Control, ShopTypeOK
  <2>2. Price[p] \in Int /\ Percent[code[p]] \in Int
    BY <2>1
  <2>3. Discounted(Price[p], Percent[code[p]]) \in Int
    BY <2>2, DiscountedType
  <2>4. status[p] = "none"
    BY <1>0, <1>2 DEF CreateAndPayWithCoupon, Pay, SessionMatchesOrder
  <2> QED
    BY <1>2, <2>1, <2>3, <2>4 DEF CreateAndPayWithCoupon
<1>3. ASSUME NEW p \in Purchases, Place(p)
      PROVE  Goal
  BY <1>0, <1>3 DEF Place, SessionMatchesOrder
<1>4. ASSUME NEW p \in Purchases, DeliverVpn(p) \/ MarkDelivered(p)
      PROVE  Goal
  BY <1>0, <1>4 DEF DeliverVpn, MarkDelivered, SessionMatchesOrder, couponVars
<1>5. ASSUME NEW p \in Purchases,
             \/ HandleBuy(p)
             \/ \E c \in Coupons : HandleBuyWithCoupon(p, c)
             \/ Refuse(p) \/ NotifyAdmins(p) \/ Finish(p) \/ Abort(p)
      PROVE  UNCHANGED orderVars
  BY <1>5 DEF HandleBuy, HandleBuyWithCoupon, Load, Refuse, NotifyAdmins,
              Finish, Abort
<1>6. ASSUME NEW c \in Coupons, CreateCoupon(c) \/ ReadForDelete(c) \/ DeleteCoupon(c)
      PROVE  UNCHANGED orderVars
  BY <1>6 DEF CreateCoupon, ReadForDelete, DeleteCoupon
<1>7. ASSUME NEW d \in Deposits, CreateRequest(d) \/ Approve(d) \/ Reject(d)
      PROVE  UNCHANGED orderVars
  BY <1>7 DEF CreateRequest, Approve, Reject
<1>8. CASE UNCHANGED vars
  BY <1>8 DEF vars, orderVars
<1>9. ASSUME PayUnguarded
      PROVE  UNCHANGED orderVars
  BY <1>9 DEF PayUnguarded
<1> QED
  BY <1>1, <1>2, <1>3, <1>4, <1>5, <1>6, <1>7, <1>8, <1>9 DEF Next, Shopping, SessionStep

LEMMA ChargedStep ==
    ASSUME Control, ChargedOnce, [Next]_vars
    PROVE  ChargedOnce'
<1> DEFINE Paid(q) == LET rows == RowsFor(Buyer[q], "PURCHASE", q)
                      IN  IF status[q] = "none" THEN rows = {}
                          ELSE OneRowOf(Buyer[q], rows, -due[q])
<1>0. /\ WalletTypeOK
      /\ \A q \in Purchases : Buyer[q] \in Users
      /\ \A q \in Purchases : Paid(q)
  BY DEF Control, ShopTypeOK, WalletTypeOK, ChargedOnce
<1>1. ASSUME NEW p \in Purchases, NEW price \in Int, NEW c \in Coupons \cup {NoCoupon},
             Pay(p, price, c), status[p] = "none",
             NEW q \in Purchases
      PROVE  Paid(q)'
  <2>1. /\ Buyer[p] \in Users
        /\ held[p].balance \in Int
        /\ -price \in Int
        /\ "PURCHASE" \in TxTypes
        /\ p \in Refs
    <3>1. held[p] \in [balance : Int, spent : Int]
      BY DEF Control, ShopTypeOK
    <3> QED
      BY <1>0, <3>1 DEF TxTypes
  <2>2. Post(Buyer[p], held[p].balance, -price, "PURCHASE", p)
    BY <1>1 DEF Pay, Debit
  <2>3. CASE q = p
    <3>1. RowsFor(Buyer[p], "PURCHASE", p) = {}
      BY <1>0, <1>1
    <3>2. OneRowOf(Buyer[p], RowsFor(Buyer[p], "PURCHASE", p), -price)'
      BY <1>0, <2>1, <2>2, <3>1, OneRowAdded
    <3>3. status'[p] = "PENDING" /\ due'[p] = price
      BY <1>1 DEF Pay, Control, ShopTypeOK
    <3> QED
      BY <2>3, <3>2, <3>3
  <2>4. CASE q # p
    <3>1. status'[q] = status[q] /\ due'[q] = due[q]
      BY <1>1, <2>4 DEF Pay, Control, ShopTypeOK
    <3>2. PICK a : a = -due[q] /\ a = -due'[q]
      BY <3>1
    <3>3. /\ RowsFor(Buyer[q], "PURCHASE", q)' = RowsFor(Buyer[q], "PURCHASE", q)
          /\ OneRowOf(Buyer[q], RowsFor(Buyer[q], "PURCHASE", q), a)
               => OneRowOf(Buyer[q], RowsFor(Buyer[q], "PURCHASE", q), a)'
      BY <1>0, <2>1, <2>2, <2>4, OneRowKept
    <3> QED
      BY <1>0, <3>1, <3>2, <3>3
  <2> QED
    BY <2>3, <2>4
<1>2. ASSUME \/ UNCHANGED walletVars
             \/ \E u \in Users, x \in Int, type \in {"BONUS", "DEPOSIT"}, ref \in Refs :
                   Credit(u, wallet[u], x, type, ref)
             \/ PayUnguarded,
             NEW q \in Purchases,
             due'[q] = due[q], status'[q] = "none" <=> status[q] = "none"
      PROVE  Paid(q)'
  <2>1. PICK a : a = -due[q] /\ a = -due'[q]
    BY <1>2
  <2>2. /\ RowsFor(Buyer[q], "PURCHASE", q)' = RowsFor(Buyer[q], "PURCHASE", q)
        /\ OneRowOf(Buyer[q], RowsFor(Buyer[q], "PURCHASE", q), a)
             => OneRowOf(Buyer[q], RowsFor(Buyer[q], "PURCHASE", q), a)'
    <3>1. CASE UNCHANGED walletVars
      BY <3>1 DEF RowsFor, OneRowOf, walletVars
    <3>2. ASSUME NEW u \in Users, NEW x \in Int, NEW type \in {"BONUS", "DEPOSIT"},
                 NEW ref \in Refs, Credit(u, wallet[u], x, type, ref)
          PROVE  <2>2!1 /\ <2>2!2
      <4>1. /\ wallet[u] \in Int
            /\ type \in TxTypes
            /\ Post(u, wallet[u], x, type, ref)
            /\ type # "PURCHASE"
        BY <1>0, <3>2 DEF WalletTypeOK, Credit, TxTypes
      <4> QED
        BY <1>0, <4>1, OneRowKept
    <3>3. ASSUME NEW x \in Unguarded, NEW seen \in Int, NEW amount \in Int,
                 NEW type \in UnguardedTypes,
                 Post(Payer[x], seen, amount, type, x),
                 Payer[x] \in Users, type \in TxTypes, x \in Refs, x \notin Purchases
          PROVE  <2>2!1 /\ <2>2!2
      <4>1. x # q
        BY <3>3
      <4> QED
        BY <1>0, <3>3, <4>1, OneRowKept
    <3>4. ShopTypeOK
      BY DEF Control
    <3> QED
      BY <1>2, <3>1, <3>2, <3>3, <3>4, UnguardedRow
  <2> QED
    BY <1>0, <1>2, <2>1, <2>2
<1>3. CASE \E p \in Purchases, price \in Int, c \in Coupons \cup {NoCoupon} :
              Pay(p, price, c)
  <2>1. \A p \in Purchases : \A price, c : Pay(p, price, c) => status[p] = "none"
    BY DEF Pay, Control, SessionMatchesOrder
  <2> QED
    BY <1>1, <1>3, <2>1 DEF ChargedOnce
<1>4. CASE ~ \E p \in Purchases, price \in Int, c \in Coupons \cup {NoCoupon} :
                Pay(p, price, c)
  <2>1. \A q \in Purchases : due'[q] = due[q] /\ (status'[q] = "none" <=> status[q] = "none")
    <3>1. CASE UNCHANGED orderVars
      BY <3>1 DEF orderVars
    <3>2. ASSUME NEW p \in Purchases, Place(p), status[p] = "PENDING"
          PROVE  <2>1
      BY <3>2 DEF Place, Control, ShopTypeOK
    <3>3. ASSUME NEW p \in Purchases, status[p] = "WAITING_ADMIN",
                 status' = [status EXCEPT ![p] = "COMPLETED"], UNCHANGED due
          PROVE  <2>1
      BY <3>3 DEF Control, ShopTypeOK
    <3> QED
      BY <1>4, <3>1, <3>2, <3>3, OrderStep
  <2> QED
    BY <1>2, <1>4, <2>1, WalletStep DEF ChargedOnce
<1> QED
  BY <1>3, <1>4

\* However the presses, the crashes and the admins interleave, an order is charged by
\* exactly one row of exactly its price, and nothing is charged without an order.
THEOREM OrdersChargedOnce == Spec => []ChargedOnce
<1>1. Init => ChargedOnce
  BY DEF Init, WalletInit, ChargedOnce, RowsFor
<1>2. Control /\ ChargedOnce /\ [Next]_vars => Control' /\ ChargedOnce'
  BY ControlStep, ChargedStep
<1> QED
  BY <1>1, <1>2, ControlInit, PTL DEF Spec

-----------------------------------------------------------------------------
(* What a step may never do.                                               *)

LEMMA PostGrows ==
    ASSUME WalletTypeOK,
           NEW u \in Users, NEW seen \in Int, NEW amount \in Int,
           NEW type \in TxTypes, NEW ref \in Refs,
           Post(u, seen, amount, type, ref),
           NEW v \in Users
    PROVE  \/ wallet'[v] = wallet[v] /\ ledger'[v] = ledger[v]
           \/ /\ Len(ledger'[v]) = Len(ledger[v]) + 1
              /\ SubSeq(ledger'[v], 1, Len(ledger[v])) = ledger[v]
              /\ ledger'[v][Len(ledger'[v])].after = wallet'[v]
<1>1. /\ WalletTypeOK'
      /\ wallet'[u] = seen + amount
      /\ \A w \in Users : w # u => wallet'[w] = wallet[w] /\ ledger'[w] = ledger[w]
      /\ Len(ledger'[u]) = Len(ledger[u]) + 1
      /\ \A i \in 1..Len(ledger[u]) : ledger'[u][i] = ledger[u][i]
      /\ ledger'[u][Len(ledger[u]) + 1] =
           [type |-> type, ref |-> ref, amount |-> amount,
            before |-> seen, after |-> seen + amount]
  BY PostEffect
<1>2. CASE v # u
  BY <1>1, <1>2
<1>3. CASE v = u
  <2> DEFINE old == ledger[u]
             new == ledger'[u]
             n == Len(ledger[u])
  <2>1. old \in Seq(Row) /\ new \in Seq(Row) /\ n \in Nat
    BY <1>1 DEF WalletTypeOK
  <2>2. \A i \in 1..n : new[i] = old[i] /\ new[i] \in Row
    BY <1>1, <2>1
  <2>3. /\ SubSeq(new, 1, n) \in Seq(Row)
        /\ Len(SubSeq(new, 1, n)) = n
        /\ \A i \in 1..n : SubSeq(new, 1, n)[i] = new[i]
    <3> HIDE DEF old, new, n
    <3>1. \A i \in 1..n : new[i] \in Row
      BY <2>2
    <3>2. /\ SubSeq(new, 1, n) \in Seq(Row)
          /\ Len(SubSeq(new, 1, n)) = IF 1 <= n THEN n - 1 + 1 ELSE 0
          /\ \A i \in 1..(n - 1 + 1) : SubSeq(new, 1, n)[i] = new[1 + i - 1]
      BY <2>1, <3>1, SubSeqProperties
    <3>3. n - 1 + 1 = n /\ \A i \in 1..n : 1 + i - 1 = i
      BY <2>1
    <3>4. \A i \in 1..n : SubSeq(new, 1, n)[i] = new[i]
      BY <2>1, <3>2, <3>3
    <3>5. Len(SubSeq(new, 1, n)) = n
      BY <2>1, <3>2
    <3> QED
      BY <3>2, <3>4, <3>5
  <2>4. SubSeq(new, 1, n) = old
    <3> DEFINE sub == SubSeq(new, 1, n)
    <3>1. sub \in Seq(Row) /\ Len(sub) = Len(old) /\ \A i \in 1..Len(sub) : sub[i] = old[i]
      BY <2>2, <2>3
    <3> HIDE DEF sub, old, new, n
    <3> QED
      BY <2>1, <3>1, SeqEqual DEF sub
  <2>5. new[Len(new)].after = wallet'[u]
    BY <1>1
  <2> QED
    BY <1>1, <1>3, <2>4, <2>5
<1> QED
  BY <1>2, <1>3

LEMMA LedgerStep ==
    ASSUME Control, [Next]_vars
    PROVE  [\A u \in Users :
               \/ wallet'[u] = wallet[u] /\ ledger'[u] = ledger[u]
               \/ /\ Len(ledger'[u]) = Len(ledger[u]) + 1
                  /\ SubSeq(ledger'[u], 1, Len(ledger[u])) = ledger[u]
                  /\ ledger'[u][Len(ledger'[u])].after = wallet'[u]]_walletVars
<1>0. WalletTypeOK
  BY DEF Control, ShopTypeOK, WalletTypeOK
<1>1. ASSUME NEW p \in Purchases, NEW price \in Int, NEW c, Pay(p, price, c)
      PROVE  /\ Buyer[p] \in Users
             /\ held[p].balance \in Int
             /\ -price \in Int
             /\ "PURCHASE" \in TxTypes
             /\ p \in Refs
             /\ Post(Buyer[p], held[p].balance, -price, "PURCHASE", p)
  <2>1. held[p] \in [balance : Int, spent : Int]
    BY DEF Control, ShopTypeOK
  <2> QED
    BY <1>1, <2>1 DEF Pay, Debit, TxTypes
<1>2. ASSUME NEW u \in Users, NEW a \in Int, NEW type \in {"BONUS", "DEPOSIT"},
             NEW ref \in Refs, Credit(u, wallet[u], a, type, ref)
      PROVE  /\ wallet[u] \in Int
             /\ type \in TxTypes
             /\ Post(u, wallet[u], a, type, ref)
  BY <1>0, <1>2 DEF WalletTypeOK, Credit, TxTypes
<1>3. CASE UNCHANGED walletVars
  BY <1>3
<1> DEFINE Posted == \E u \in Users, seen \in Int, amount \in Int, type \in TxTypes,
                       ref \in Refs : Post(u, seen, amount, type, ref)
<1>4. CASE Posted
  BY <1>0, <1>4, PostGrows
<1>5. ASSUME NEW p \in Purchases, NEW price \in Int, NEW c, Pay(p, price, c)
      PROVE  Posted
  BY <1>1, <1>5
<1>6. ASSUME NEW u \in Users, NEW a \in Int, NEW type \in {"BONUS", "DEPOSIT"},
             NEW ref \in Refs, Credit(u, wallet[u], a, type, ref)
      PROVE  Posted
  BY <1>2, <1>6
<1>7. ASSUME PayUnguarded
      PROVE  UNCHANGED walletVars \/ Posted
  <2>1. ShopTypeOK
    BY DEF Control
  <2> QED
    BY <1>7, <2>1, UnguardedRow
<1> HIDE DEF Posted
<1>8. UNCHANGED walletVars \/ Posted
  BY <1>5, <1>6, <1>7, WalletStep
<1> QED
  BY <1>3, <1>4, <1>8

\* No step edits or removes a row, and no wallet moves without a row that says so.
THEOREM LedgerIsAppendOnly == Spec => LedgerOnlyGrows
<1>1. Control /\ [Next]_vars => Control'
  BY ControlStep
<1>2. Control /\ [Next]_vars =>
        [\A u \in Users :
            \/ wallet'[u] = wallet[u] /\ ledger'[u] = ledger[u]
            \/ /\ Len(ledger'[u]) = Len(ledger[u]) + 1
               /\ SubSeq(ledger'[u], 1, Len(ledger[u])) = ledger[u]
               /\ ledger'[u][Len(ledger'[u])].after = wallet'[u]]_walletVars
  BY LedgerStep
<1> QED
  BY <1>1, <1>2, ControlInit, PTL DEF Spec, LedgerOnlyGrows

LEMMA ForwardStep ==
    ASSUME Control, [Next]_vars
    PROVE  [\A p \in Purchases : status[p] # "none" =>
               /\ Rank(status'[p]) >= Rank(status[p])
               /\ due'[p] = due[p]
               /\ couponOf'[p] = couponOf[p]]_orderVars
<1> DEFINE Forward(q) == status[q] # "none" =>
               /\ Rank(status'[q]) >= Rank(status[q])
               /\ due'[q] = due[q]
               /\ couponOf'[q] = couponOf[q]
<1>0. /\ \A q \in Purchases : status[q] \in OrderStatuses
      /\ \A st \in OrderStatuses : Rank(st) >= Rank(st)
  BY DEF Control, ShopTypeOK, OrderStatuses, Rank
<1>1. ASSUME NEW p \in Purchases, NEW price, NEW c, Pay(p, price, c), status[p] = "none",
             NEW q \in Purchases
      PROVE  Forward(q)
  <2>1. CASE q = p
    BY <1>1, <2>1
  <2>2. CASE q # p
    <3>1. status'[q] = status[q] /\ due'[q] = due[q] /\ couponOf'[q] = couponOf[q]
      BY <1>1, <2>2 DEF Pay, Control, ShopTypeOK
    <3> QED
      BY <1>0, <3>1
  <2> QED
    BY <2>1, <2>2
<1>2. ASSUME NEW p \in Purchases, NEW st,
             \/ status[p] = "PENDING" /\ st = "WAITING_ADMIN"
             \/ status[p] = "WAITING_ADMIN" /\ st = "COMPLETED",
             status' = [status EXCEPT ![p] = st],
             UNCHANGED <<due, couponOf>>,
             NEW q \in Purchases
      PROVE  Forward(q)
  <2>1. CASE q = p
    <3>1. status'[p] = st
      BY <1>2 DEF Control, ShopTypeOK
    <3>2. Rank(st) >= Rank(status[p])
      BY <1>2 DEF Rank
    <3> QED
      BY <1>2, <2>1, <3>1, <3>2
  <2>2. CASE q # p
    <3>1. status'[q] = status[q]
      BY <1>2, <2>2 DEF Control, ShopTypeOK
    <3> QED
      BY <1>0, <1>2, <3>1
  <2> QED
    BY <2>1, <2>2
<1>3. ASSUME NEW p \in Purchases, Place(p)
      PROVE  status' = [status EXCEPT ![p] = "WAITING_ADMIN"] /\ UNCHANGED <<due, couponOf>>
  BY <1>3 DEF Place
<1>4. UNCHANGED orderVars \/ \A q \in Purchases : Forward(q)
  <2> HIDE DEF Forward
  <2> QED
    BY <1>1, <1>2, <1>3, OrderStep
<1> QED
  BY <1>4

\* A placed order is never reopened, repriced or moved back by a late step or click.
THEOREM OrdersMoveForward == Spec => OrderMovesForward
<1>1. Control /\ [Next]_vars => Control'
  BY ControlStep
<1>2. Control /\ [Next]_vars =>
        [\A p \in Purchases : status[p] # "none" =>
            /\ Rank(status'[p]) >= Rank(status[p])
            /\ due'[p] = due[p]
            /\ couponOf'[p] = couponOf[p]]_orderVars
  BY ForwardStep
<1> QED
  BY <1>1, <1>2, ControlInit, PTL DEF Spec, OrderMovesForward

-----------------------------------------------------------------------------
(* Coupons.                                                                *)

LEMMA CouponStep ==
    ASSUME Control, CouponRedeemedOnce, [Next]_vars
    PROVE  CouponRedeemedOnce'
<1> USE DEF Control, ShopTypeOK
<1>1. ASSUME UNCHANGED couponOf,
             \A c \in Coupons : coupon[c] \in {"used", "deleted"}
                                    => coupon'[c] \in {"used", "deleted"}
      PROVE  CouponRedeemedOnce'
  BY <1>1 DEF CouponRedeemedOnce
<1>2. ASSUME NEW p \in Purchases, CreateAndPay(p)
      PROVE  CouponRedeemedOnce'
  BY <1>2 DEF CreateAndPay, Pay, SessionMatchesOrder, CouponRedeemedOnce
<1>3. ASSUME NEW p \in Purchases, CreateAndPayWithCoupon(p)
      PROVE  CouponRedeemedOnce'
  <2>1. /\ coupon[code[p]] = "unused"
        /\ coupon' = [coupon EXCEPT ![code[p]] = "used"]
        /\ couponOf' = [couponOf EXCEPT ![p] = code[p]]
        /\ code[p] \in Coupons
    BY <1>3 DEF CreateAndPayWithCoupon, RedeemLocked, Pay
  <2>2. \A q \in Purchases : couponOf[q] # code[p]
    BY <2>1 DEF CouponRedeemedOnce
  <2> QED
    BY <2>1, <2>2 DEF CouponRedeemedOnce
<1>4. ASSUME NEW p \in Purchases,
             \/ HandleBuy(p)
             \/ \E c \in Coupons : HandleBuyWithCoupon(p, c)
             \/ Refuse(p) \/ Place(p) \/ DeliverVpn(p) \/ NotifyAdmins(p)
             \/ Finish(p) \/ Abort(p)
             \/ MarkDelivered(p)
      PROVE  UNCHANGED couponOf /\ UNCHANGED coupon
  BY <1>4 DEF HandleBuy, HandleBuyWithCoupon, Load, Refuse, Place, DeliverVpn,
              NotifyAdmins, Finish, Abort, MarkDelivered, orderVars, couponVars
<1>5. ASSUME NEW c \in Coupons, CreateCoupon(c) \/ ReadForDelete(c) \/ DeleteCoupon(c)
      PROVE  CouponRedeemedOnce'
  BY <1>1, <1>5 DEF CreateCoupon, ReadForDelete, DeleteCoupon, orderVars
<1>6. ASSUME NEW d \in Deposits, CreateRequest(d) \/ Approve(d) \/ Reject(d)
      PROVE  UNCHANGED couponOf /\ UNCHANGED coupon
  BY <1>6 DEF CreateRequest, Approve, Reject, orderVars, couponVars
<1>7. CASE UNCHANGED vars
  BY <1>1, <1>7 DEF vars, orderVars, couponVars
<1>8. CASE PayUnguarded
  BY <1>1, <1>8 DEF PayUnguarded, orderVars, couponVars
<1> QED
  BY <1>1, <1>2, <1>3, <1>4, <1>5, <1>6, <1>7, <1>8 DEF Next, Shopping, SessionStep

\* A code is redeemed by at most one order and is never free again, whatever previews,
\* payments and deletions overlap.
THEOREM CouponsRedeemedOnce == Spec => []CouponRedeemedOnce
<1>1. Init => CouponRedeemedOnce
  BY DEF Init, CouponRedeemedOnce
<1>2. Control /\ CouponRedeemedOnce /\ [Next]_vars => Control' /\ CouponRedeemedOnce'
  BY ControlStep, CouponStep
<1> QED
  BY <1>1, <1>2, ControlInit, PTL DEF Spec

-----------------------------------------------------------------------------
(* Deposit requests.                                                       *)

LEMMA DepositStep ==
    ASSUME Control, DepositCreditedOnce, [Next]_vars
    PROVE  DepositCreditedOnce'
<1> DEFINE Decided(e) ==
           LET rows == RowsFor(Depositor[e], "DEPOSIT", e)
           IN  IF deposit[e] = "APPROVED" THEN OneRowOf(Depositor[e], rows, Amount[e])
               ELSE rows = {}
<1>0. /\ WalletTypeOK
      /\ \A e \in Deposits : Depositor[e] \in Users /\ Amount[e] \in Int /\ Decided(e)
  BY DEF Control, ShopTypeOK, WalletTypeOK, DepositCreditedOnce
<1>1. ASSUME NEW e \in Deposits, UNCHANGED walletVars,
             deposit'[e] = "APPROVED" <=> deposit[e] = "APPROVED"
      PROVE  Decided(e)'
  BY <1>0, <1>1 DEF RowsFor, OneRowOf, walletVars
<1>2. ASSUME NEW u \in Users, NEW seen \in Int, NEW amount \in Int,
             NEW type \in TxTypes, NEW ref \in Refs,
             Post(u, seen, amount, type, ref),
             NEW e \in Deposits, type # "DEPOSIT" \/ ref # e,
             deposit'[e] = deposit[e]
      PROVE  Decided(e)'
  <2>1. /\ RowsFor(Depositor[e], "DEPOSIT", e)' = RowsFor(Depositor[e], "DEPOSIT", e)
        /\ OneRowOf(Depositor[e], RowsFor(Depositor[e], "DEPOSIT", e), Amount[e])
             => OneRowOf(Depositor[e], RowsFor(Depositor[e], "DEPOSIT", e), Amount[e])'
    BY <1>0, <1>2, OneRowKept
  <2> QED
    BY <1>0, <1>2, <2>1
<1>3. ASSUME NEW d \in Deposits, Approve(d), NEW e \in Deposits
      PROVE  Decided(e)'
  <2>1. /\ wallet[Depositor[d]] \in Int
        /\ "DEPOSIT" \in TxTypes
        /\ d \in Refs
        /\ Post(Depositor[d], wallet[Depositor[d]], Amount[d], "DEPOSIT", d)
    BY <1>0, <1>3 DEF WalletTypeOK, TxTypes, Approve, Credit
  <2>2. CASE e # d
    <3>1. deposit'[e] = deposit[e]
      BY <1>3, <2>2 DEF Approve, Control, ShopTypeOK
    <3> QED
      BY <1>0, <1>2, <2>1, <2>2, <3>1
  <2>3. CASE e = d
    <3>1. RowsFor(Depositor[d], "DEPOSIT", d) = {}
      BY <1>0, <1>3 DEF Approve
    <3>2. OneRowOf(Depositor[d], RowsFor(Depositor[d], "DEPOSIT", d), Amount[d])'
      BY <1>0, <2>1, <3>1, OneRowAdded
    <3>3. deposit'[d] = "APPROVED"
      BY <1>3 DEF Approve, Control, ShopTypeOK
    <3> QED
      BY <2>3, <3>2, <3>3
  <2> QED
    BY <2>2, <2>3
<1>4. ASSUME UNCHANGED deposit, NEW e \in Deposits,
             NEW p \in Purchases, NEW price \in Int, NEW c, Pay(p, price, c)
      PROVE  Decided(e)'
  <2>1. held[p] \in [balance : Int, spent : Int] /\ Buyer[p] \in Users /\ p \in Refs
    BY DEF Control, ShopTypeOK
  <2>2. /\ held[p].balance \in Int
        /\ -price \in Int
        /\ "PURCHASE" \in TxTypes
        /\ Post(Buyer[p], held[p].balance, -price, "PURCHASE", p)
    BY <1>4, <2>1 DEF Pay, Debit, TxTypes
  <2> QED
    BY <1>2, <1>4, <2>1, <2>2
<1>5. ASSUME NEW p \in Purchases, PayCashback(p), UNCHANGED deposit, NEW e \in Deposits
      PROVE  Decided(e)'
  <2>1. CASE UNCHANGED walletVars
    BY <1>1, <1>5, <2>1
  <2>2. CASE /\ Referrer[Buyer[p]] # NoUser
             /\ Credit(Referrer[Buyer[p]], wallet[Referrer[Buyer[p]]],
                       Cashback(due[p]), "BONUS", p)
    <3>1. Referrer[Buyer[p]] \in Users /\ p \in Refs
      BY <2>2
    <3>2. Cashback(due[p]) \in Int
      BY CashbackType DEF Control, ShopTypeOK
    <3>3. /\ wallet[Referrer[Buyer[p]]] \in Int
          /\ "BONUS" \in TxTypes
          /\ Post(Referrer[Buyer[p]], wallet[Referrer[Buyer[p]]], Cashback(due[p]),
                  "BONUS", p)
      BY <1>0, <2>2, <3>1 DEF WalletTypeOK, TxTypes, Credit
    <3> QED
      BY <1>2, <1>5, <3>1, <3>2, <3>3
  <2> QED
    BY <1>5, <2>1, <2>2 DEF PayCashback
<1>6. ASSUME NEW d \in Deposits, CreateRequest(d) \/ Reject(d), NEW e \in Deposits
      PROVE  /\ UNCHANGED walletVars
             /\ deposit'[e] = "APPROVED" <=> deposit[e] = "APPROVED"
  BY <1>6 DEF CreateRequest, Reject, Control, ShopTypeOK
<1>7. ASSUME UNCHANGED walletVars, UNCHANGED deposit
      PROVE  DepositCreditedOnce'
  BY <1>1, <1>7 DEF DepositCreditedOnce
<1>8. ASSUME NEW p \in Purchases,
             \/ HandleBuy(p)
             \/ \E c \in Coupons : HandleBuyWithCoupon(p, c)
             \/ Refuse(p) \/ DeliverVpn(p) \/ NotifyAdmins(p) \/ Finish(p) \/ Abort(p)
             \/ MarkDelivered(p)
      PROVE  UNCHANGED walletVars /\ UNCHANGED deposit
  BY <1>8 DEF HandleBuy, HandleBuyWithCoupon, Load, Refuse, DeliverVpn, NotifyAdmins,
              Finish, Abort, MarkDelivered
<1>9. ASSUME NEW c \in Coupons, CreateCoupon(c) \/ ReadForDelete(c) \/ DeleteCoupon(c)
      PROVE  UNCHANGED walletVars /\ UNCHANGED deposit
  BY <1>9 DEF CreateCoupon, ReadForDelete, DeleteCoupon
<1>10. ASSUME NEW p \in Purchases, CreateAndPay(p) \/ CreateAndPayWithCoupon(p)
       PROVE  DepositCreditedOnce'
  <2>1. PICK price, c : Pay(p, price, c) /\ price \in Int
    <3>1. Price[p] \in Int
      OBVIOUS
    <3>2. ASSUME CreateAndPayWithCoupon(p)
          PROVE  Discounted(Price[p], Percent[code[p]]) \in Int
      <4>1. code[p] \in Coupons
        BY <3>2 DEF CreateAndPayWithCoupon, Control, ShopTypeOK
      <4>2. Percent[code[p]] \in Int
        BY <4>1
      <4> QED
        BY <3>1, <4>2, DiscountedType
    <3> QED
      BY <1>10, <3>1, <3>2 DEF CreateAndPay, CreateAndPayWithCoupon
  <2>2. UNCHANGED deposit
    BY <2>1 DEF Pay
  <2> QED
    BY <1>4, <2>1, <2>2 DEF DepositCreditedOnce
<1>11. ASSUME NEW p \in Purchases, Place(p)
       PROVE  DepositCreditedOnce'
  BY <1>5, <1>11 DEF Place, DepositCreditedOnce
<1>12. ASSUME NEW d \in Deposits, CreateRequest(d) \/ Approve(d) \/ Reject(d)
       PROVE  DepositCreditedOnce'
  BY <1>1, <1>3, <1>6, <1>12 DEF DepositCreditedOnce
<1>13. CASE UNCHANGED vars
  BY <1>7, <1>13 DEF vars, walletVars
<1>14. CASE PayUnguarded
  <2>1. ShopTypeOK /\ UNCHANGED deposit
    BY <1>14 DEF Control, PayUnguarded
  <2>2. ASSUME NEW x \in Unguarded, NEW seen \in Int, NEW amount \in Int,
               NEW type \in UnguardedTypes,
               Post(Payer[x], seen, amount, type, x),
               Payer[x] \in Users, type \in TxTypes, x \in Refs
        PROVE  DepositCreditedOnce'
    <3>1. type # "DEPOSIT"
      BY DEF UnguardedTypes
    <3>2. \A e \in Deposits : Decided(e)'
      BY <1>2, <2>1, <2>2, <3>1
    <3> QED
      BY <3>2 DEF DepositCreditedOnce
  <2> QED
    BY <1>7, <1>14, <2>1, <2>2, UnguardedRow
<1> QED
  BY <1>7, <1>8, <1>9, <1>10, <1>11, <1>12, <1>13, <1>14 DEF Next, Shopping, SessionStep

\* However many admins click, a request is credited by exactly one row of its amount if
\* it was approved, and by none otherwise.
THEOREM DepositsCreditedOnce == Spec => []DepositCreditedOnce
<1>1. Init => DepositCreditedOnce
  BY DEF Init, WalletInit, DepositCreditedOnce, RowsFor
<1>2. Control /\ DepositCreditedOnce /\ [Next]_vars => Control' /\ DepositCreditedOnce'
  BY ControlStep, DepositStep
<1> QED
  BY <1>1, <1>2, ControlInit, PTL DEF Spec

-----------------------------------------------------------------------------
(* Cashback.                                                               *)

\* Who moves money: a payment, the end of create_and_pay, an approval, a renewal or a
\* tournament.
LEMMA MoneyMoves ==
    ASSUME Control, [Next]_vars
    PROVE  \/ UNCHANGED walletVars
           \/ \E p \in Purchases, price \in Int, c \in Coupons \cup {NoCoupon} :
                 Pay(p, price, c)
           \/ \E p \in Purchases : Place(p)
           \/ \E d \in Deposits : Approve(d)
           \/ PayUnguarded
<1>1. ASSUME NEW p \in Purchases, CreateAndPay(p) \/ CreateAndPayWithCoupon(p)
      PROVE  \E price \in Int, c \in Coupons \cup {NoCoupon} : Pay(p, price, c)
  <2>1. Price[p] \in Int
    OBVIOUS
  <2>2. ASSUME CreateAndPayWithCoupon(p)
        PROVE  code[p] \in Coupons /\ Discounted(Price[p], Percent[code[p]]) \in Int
    <3>1. code[p] \in Coupons
      BY <2>2 DEF CreateAndPayWithCoupon, Control, ShopTypeOK
    <3>2. Percent[code[p]] \in Int
      BY <3>1
    <3> QED
      BY <2>1, <3>1, <3>2, DiscountedType
  <2> QED
    BY <1>1, <2>1, <2>2 DEF CreateAndPay, CreateAndPayWithCoupon
<1>2. ASSUME NEW p \in Purchases,
             \/ HandleBuy(p)
             \/ \E c \in Coupons : HandleBuyWithCoupon(p, c)
             \/ Refuse(p) \/ DeliverVpn(p) \/ NotifyAdmins(p) \/ Finish(p) \/ Abort(p)
             \/ MarkDelivered(p)
      PROVE  UNCHANGED walletVars
  BY <1>2 DEF HandleBuy, HandleBuyWithCoupon, Load, Refuse, DeliverVpn, NotifyAdmins,
              Finish, Abort, MarkDelivered
<1>3. ASSUME NEW c \in Coupons, CreateCoupon(c) \/ ReadForDelete(c) \/ DeleteCoupon(c)
      PROVE  UNCHANGED walletVars
  BY <1>3 DEF CreateCoupon, ReadForDelete, DeleteCoupon
<1>4. ASSUME NEW d \in Deposits, CreateRequest(d) \/ Reject(d)
      PROVE  UNCHANGED walletVars
  BY <1>4 DEF CreateRequest, Reject
<1>5. CASE UNCHANGED vars
  BY <1>5 DEF vars, walletVars
<1> QED
  BY <1>1, <1>2, <1>3, <1>4, <1>5 DEF Next, Shopping, SessionStep

\* The cashback of an order goes to the referrer of its buyer, under the wallet's lock.
LEMMA CashbackPosted ==
    ASSUME Control, NEW p \in Purchases, Place(p)
    PROVE  LET u == Referrer[Buyer[p]]
           IN  \/ UNCHANGED walletVars
               \/ /\ u \in Users /\ p \in Refs /\ wallet[u] \in Int
                  /\ Cashback(due[p]) \in Int /\ Cashback(due[p]) > 0
                  /\ Post(u, wallet[u], Cashback(due[p]), "BONUS", p)
<1>1. PayCashback(p)
  BY DEF Place
<1>2. CASE UNCHANGED walletVars
  BY <1>2
<1>3. CASE /\ Referrer[Buyer[p]] # NoUser
           /\ Credit(Referrer[Buyer[p]], wallet[Referrer[Buyer[p]]],
                     Cashback(due[p]), "BONUS", p)
  <2>1. Referrer[Buyer[p]] \in Users /\ p \in Refs
    BY <1>3
  <2>2. Cashback(due[p]) \in Int
    BY CashbackType DEF Control, ShopTypeOK
  <2>3. wallet[Referrer[Buyer[p]]] \in Int
    BY <2>1 DEF Control, ShopTypeOK
  <2> QED
    BY <1>3, <2>1, <2>2, <2>3 DEF Credit
<1> QED
  BY <1>1, <1>2, <1>3 DEF PayCashback

Placed == {"WAITING_ADMIN", "COMPLETED"}

\* An order that was placed stays placed, at its price.
LEMMA PlacedStays ==
    ASSUME Control, [Next]_vars, NEW q \in Purchases, status[q] \in Placed
    PROVE  status'[q] \in Placed /\ due'[q] = due[q]
<1>1. CASE UNCHANGED orderVars
  BY <1>1 DEF orderVars
<1>2. ASSUME NEW p \in Purchases, NEW price, NEW c, Pay(p, price, c), status[p] = "none"
      PROVE  status'[q] \in Placed /\ due'[q] = due[q]
  BY <1>2 DEF Pay, Placed, Control, ShopTypeOK
<1>3. ASSUME NEW p \in Purchases, Place(p), status[p] = "PENDING"
      PROVE  status'[q] \in Placed /\ due'[q] = due[q]
  BY <1>3 DEF Place, Placed, Control, ShopTypeOK
<1>4. ASSUME NEW p \in Purchases, status' = [status EXCEPT ![p] = "COMPLETED"], UNCHANGED due
      PROVE  status'[q] \in Placed /\ due'[q] = due[q]
  BY <1>4 DEF Placed, Control, ShopTypeOK
<1> QED
  BY <1>1, <1>2, <1>3, <1>4, OrderStep

LEMMA CashbackStep ==
    ASSUME Control, CashbackOnce, [Next]_vars
    PROVE  CashbackOnce'
<1> DEFINE Once(q, v) ==
           LET rows == RowsFor(v, "BONUS", q)
           IN  rows # {} =>
                 /\ v = Referrer[Buyer[q]]
                 /\ status[q] \in Placed
                 /\ OneRowOf(v, rows, Cashback(due[q]))
<1>0. WalletTypeOK /\ \A q \in Purchases : \A v \in Users : Once(q, v)
  BY DEF Control, ShopTypeOK, WalletTypeOK, CashbackOnce, Placed
<1>1. ASSUME NEW u \in Users, NEW seen \in Int, NEW amount \in Int,
             NEW type \in TxTypes, NEW ref \in Refs,
             Post(u, seen, amount, type, ref),
             NEW q \in Purchases, NEW v \in Users,
             ~ (v = u /\ type = "BONUS" /\ ref = q)
      PROVE  Once(q, v)'
  <2>1. RowsFor(v, "BONUS", q)' = RowsFor(v, "BONUS", q)
    BY <1>0, <1>1, PostRows
  <2>2. CASE RowsFor(v, "BONUS", q) = {}
    BY <2>1, <2>2
  <2>3. CASE RowsFor(v, "BONUS", q) # {}
    <3>1. /\ status[q] \in Placed /\ v = Referrer[Buyer[q]]
          /\ OneRowOf(v, RowsFor(v, "BONUS", q), Cashback(due[q]))
      BY <1>0, <2>3
    <3>2. status'[q] \in Placed /\ due'[q] = due[q]
      BY <3>1, PlacedStays
    <3>3. PICK a : a = Cashback(due[q]) /\ a = Cashback(due'[q])
      BY <3>2
    <3>4. OneRowOf(v, RowsFor(v, "BONUS", q), a)'
      BY <1>0, <1>1, <3>1, <3>3, OneRowKept
    <3> QED
      BY <3>1, <3>2, <3>3, <3>4 DEF Cashback
  <2> QED
    BY <2>2, <2>3
<1>2. ASSUME UNCHANGED walletVars, NEW q \in Purchases, NEW v \in Users
      PROVE  Once(q, v)'
  <2>1. RowsFor(v, "BONUS", q)' = RowsFor(v, "BONUS", q)
    BY <1>2 DEF RowsFor, walletVars
  <2>2. CASE RowsFor(v, "BONUS", q) = {}
    BY <2>1, <2>2
  <2>3. CASE RowsFor(v, "BONUS", q) # {}
    <3>1. /\ status[q] \in Placed /\ v = Referrer[Buyer[q]]
          /\ OneRowOf(v, RowsFor(v, "BONUS", q), Cashback(due[q]))
      BY <1>0, <2>3
    <3>2. status'[q] \in Placed /\ due'[q] = due[q]
      BY <3>1, PlacedStays
    <3> QED
      BY <1>2, <2>1, <3>1, <3>2 DEF OneRowOf, walletVars, Cashback
  <2> QED
    BY <2>2, <2>3
<1>3. ASSUME NEW p \in Purchases, NEW price \in Int, NEW c, Pay(p, price, c),
             NEW q \in Purchases, NEW v \in Users
      PROVE  Once(q, v)'
  <2>1. held[p] \in [balance : Int, spent : Int] /\ Buyer[p] \in Users /\ p \in Refs
    BY DEF Control, ShopTypeOK
  <2>2. /\ held[p].balance \in Int
        /\ -price \in Int
        /\ "PURCHASE" \in TxTypes
        /\ Post(Buyer[p], held[p].balance, -price, "PURCHASE", p)
    BY <1>3, <2>1 DEF Pay, Debit, TxTypes
  <2> HIDE DEF Once
  <2> QED
    BY <1>1, <2>1, <2>2
<1>4. ASSUME NEW d \in Deposits, Approve(d), NEW q \in Purchases, NEW v \in Users
      PROVE  Once(q, v)'
  <2>1. Depositor[d] \in Users /\ d \in Refs /\ Amount[d] \in Int
    OBVIOUS
  <2>2. /\ wallet[Depositor[d]] \in Int
        /\ "DEPOSIT" \in TxTypes
        /\ Post(Depositor[d], wallet[Depositor[d]], Amount[d], "DEPOSIT", d)
    BY <1>0, <1>4, <2>1 DEF WalletTypeOK, TxTypes, Approve, Credit
  <2> HIDE DEF Once
  <2> QED
    BY <1>1, <2>1, <2>2
<1>5. ASSUME NEW p \in Purchases, Place(p), NEW q \in Purchases, NEW v \in Users
      PROVE  Once(q, v)'
  <2> DEFINE u == Referrer[Buyer[p]]
             share == Cashback(due[p])
  <2>1. CASE UNCHANGED walletVars
    BY <1>2, <2>1
  <2>2. CASE /\ u \in Users /\ p \in Refs /\ wallet[u] \in Int /\ share \in Int
             /\ Post(u, wallet[u], share, "BONUS", p)
    <3>1. "BONUS" \in TxTypes
      BY DEF TxTypes
    <3>2. CASE ~ (v = u /\ p = q)
      BY <1>1, <2>2, <3>1, <3>2
    <3>3. CASE v = u /\ p = q
      <4>1. status[p] = "PENDING"
        BY <1>5 DEF Place, Control, SessionMatchesOrder
      <4>2. RowsFor(u, "BONUS", p) = {}
        BY <1>0, <2>2, <4>1 DEF Placed
      <4>3. PICK a \in Int : a = share
        BY <2>2
      <4>4. OneRowOf(u, RowsFor(u, "BONUS", p), a)'
        BY <1>0, <2>2, <3>1, <4>2, <4>3, OneRowAdded
      <4>5. status'[p] = "WAITING_ADMIN" /\ due' = due
        BY <1>5 DEF Place, Control, ShopTypeOK
      <4> QED
        BY <3>3, <4>3, <4>4, <4>5 DEF Placed, Cashback
    <3> QED
      BY <3>2, <3>3
  <2> QED
    BY <1>5, <2>1, <2>2, CashbackPosted
<1>6. ASSUME PayUnguarded, NEW q \in Purchases, NEW v \in Users
      PROVE  Once(q, v)'
  <2>1. ASSUME NEW x \in Unguarded, NEW seen \in Int, NEW amount \in Int,
               NEW type \in UnguardedTypes,
               Post(Payer[x], seen, amount, type, x),
               Payer[x] \in Users, type \in TxTypes, x \in Refs
        PROVE  Once(q, v)'
    <3>1. type # "BONUS"
      BY DEF UnguardedTypes
    <3> HIDE DEF Once
    <3> QED
      BY <1>1, <2>1, <3>1
  <2>2. ShopTypeOK
    BY DEF Control
  <2> HIDE DEF Once
  <2> QED
    BY <1>2, <1>6, <2>1, <2>2, UnguardedRow
<1>7. \A q \in Purchases : \A v \in Users : Once(q, v)'
  BY <1>2, <1>3, <1>4, <1>5, <1>6, MoneyMoves
<1> QED
  BY <1>7 DEF CashbackOnce, Placed

\* An order pays its buyer's referrer at most once, after it was placed, and exactly the
\* percentage of what was charged, whatever crashes between the payment and the end.
THEOREM CashbacksPaidOnce == Spec => []CashbackOnce
<1>1. Init => CashbackOnce
  BY DEF Init, WalletInit, CashbackOnce, RowsFor
<1>2. Control /\ CashbackOnce /\ [Next]_vars => Control' /\ CashbackOnce'
  BY ControlStep, CashbackStep
<1> QED
  BY <1>1, <1>2, ControlInit, PTL DEF Spec

-----------------------------------------------------------------------------
(* The abstract ledger.  For the users who never pay, every posting starts *)
(* from the balance of the row, and its sum is one the abstract ledger     *)
(* knows: the amount of a request, or the share of a bill.                 *)

\* Every order was billed the price of a purchase, or that price less a code's discount.
DueBilled == \A p \in Purchases : status[p] # "none" => due[p] \in Bills

LEMMA BilledStep ==
    ASSUME Control, DueBilled, [Next]_vars
    PROVE  DueBilled'
<1>1. ASSUME UNCHANGED due, \A p \in Purchases : status'[p] # "none" => status[p] # "none"
      PROVE  DueBilled'
  BY <1>1 DEF DueBilled
<1>2. ASSUME NEW p \in Purchases, CreateAndPay(p) PROVE DueBilled'
  <2>1. Price[p] \in Bills
    BY DEF Bills
  <2>2. due' = [due EXCEPT ![p] = Price[p]] /\ status' = [status EXCEPT ![p] = "PENDING"]
    BY <1>2 DEF CreateAndPay, Pay
  <2> QED
    BY <2>1, <2>2 DEF DueBilled, Control, ShopTypeOK
<1>3. ASSUME NEW p \in Purchases, CreateAndPayWithCoupon(p) PROVE DueBilled'
  <2> DEFINE bill == Discounted(Price[p], Percent[code[p]])
  <2>1. code[p] \in Coupons
    BY <1>3 DEF CreateAndPayWithCoupon, Control, ShopTypeOK
  <2>2. bill \in Bills
    BY <2>1 DEF Bills
  <2>3. due' = [due EXCEPT ![p] = bill] /\ status' = [status EXCEPT ![p] = "PENDING"]
    BY <1>3 DEF CreateAndPayWithCoupon, Pay
  <2> HIDE DEF bill
  <2> QED
    BY <2>2, <2>3 DEF DueBilled, Control, ShopTypeOK
<1>4. ASSUME NEW p \in Purchases,
             status[p] # "none", UNCHANGED due,
             \E st \in OrderStatuses : status' = [status EXCEPT ![p] = st]
      PROVE  DueBilled'
  BY <1>1, <1>4 DEF Control, ShopTypeOK
<1>5. ASSUME NEW p \in Purchases, Place(p) \/ DeliverVpn(p) \/ MarkDelivered(p)
      PROVE  DueBilled'
  BY <1>4, <1>5 DEF Place, DeliverVpn, MarkDelivered, Control, SessionMatchesOrder, OrderStatuses
<1>6. ASSUME NEW p \in Purchases,
             \/ HandleBuy(p)
             \/ \E c \in Coupons : HandleBuyWithCoupon(p, c)
             \/ Refuse(p) \/ NotifyAdmins(p) \/ Finish(p) \/ Abort(p)
      PROVE  UNCHANGED orderVars
  BY <1>6 DEF HandleBuy, HandleBuyWithCoupon, Load, Refuse, NotifyAdmins,
              Finish, Abort
<1>7. ASSUME NEW c \in Coupons, CreateCoupon(c) \/ ReadForDelete(c) \/ DeleteCoupon(c)
      PROVE  UNCHANGED orderVars
  BY <1>7 DEF CreateCoupon, ReadForDelete, DeleteCoupon
<1>8. ASSUME NEW d \in Deposits, CreateRequest(d) \/ Approve(d) \/ Reject(d)
      PROVE  UNCHANGED orderVars
  BY <1>8 DEF CreateRequest, Approve, Reject
<1>9. CASE UNCHANGED vars
  BY <1>1, <1>9 DEF vars, orderVars
<1>10. CASE PayUnguarded
  BY <1>1, <1>10 DEF PayUnguarded, orderVars
<1> QED
  BY <1>1, <1>2, <1>3, <1>5, <1>6, <1>7, <1>8, <1>9, <1>10
     DEF Next, Shopping, SessionStep, orderVars

\* The rows of a ledger as the abstract ledger keeps them.
Pairs(rows) == [i \in DOMAIN rows |-> [before |-> rows[i].before, after |-> rows[i].after]]

LEMMA PairsAppend ==
    ASSUME NEW rows \in Seq(Row), NEW row \in Row
    PROVE  Pairs(Append(rows, row))
              = Append(Pairs(rows), [before |-> row.before, after |-> row.after])
<1> DEFINE Pair == [before : Int, after : Int]
           pair == [before |-> row.before, after |-> row.after]
           n == Len(rows)
<1>1. n \in Nat /\ DOMAIN rows = 1..n /\ \A i \in 1..n : rows[i] \in Row
  OBVIOUS
<1>2. /\ Append(rows, row) \in Seq(Row)
      /\ Len(Append(rows, row)) = n + 1
      /\ \A i \in 1..n : Append(rows, row)[i] = rows[i]
      /\ Append(rows, row)[n + 1] = row
  BY AppendProperties
<1>3. DOMAIN Append(rows, row) = 1..(n + 1)
  BY <1>1, <1>2
<1>4. pair \in Pair
  BY DEF Row
<1>5. \A i \in 1..n : [before |-> rows[i].before, after |-> rows[i].after] \in Pair
  BY <1>1 DEF Row
<1> HIDE DEF Pair, pair, n
<1>6. /\ Pairs(rows) \in Seq(Pair) /\ Len(Pairs(rows)) = n
      /\ \A i \in 1..n :
            Pairs(rows)[i] = [before |-> rows[i].before, after |-> rows[i].after]
  <2>1. Pairs(rows) = [i \in 1..n |-> [before |-> rows[i].before, after |-> rows[i].after]]
    BY <1>1 DEF Pairs
  <2> QED
    BY <1>1, <1>5, <2>1
<1>7. /\ Append(Pairs(rows), pair) \in Seq(Pair)
      /\ Len(Append(Pairs(rows), pair)) = n + 1
      /\ \A i \in 1..n : Append(Pairs(rows), pair)[i] = Pairs(rows)[i]
      /\ Append(Pairs(rows), pair)[n + 1] = pair
  BY <1>4, <1>6, AppendProperties
<1>8. /\ DOMAIN Pairs(Append(rows, row)) = 1..(n + 1)
      /\ \A i \in 1..n :
            Pairs(Append(rows, row))[i] = [before |-> rows[i].before, after |-> rows[i].after]
      /\ Pairs(Append(rows, row))[n + 1] = pair
  <2>1. Pairs(Append(rows, row)) =
          [i \in 1..(n + 1) |-> [before |-> Append(rows, row)[i].before,
                                 after |-> Append(rows, row)[i].after]]
    BY <1>3 DEF Pairs
  <2>2. (\A i \in 1..n : i \in 1..(n + 1)) /\ n + 1 \in 1..(n + 1)
    BY <1>1
  <2> QED
    BY <1>2, <2>1, <2>2 DEF pair
<1>9. \A i \in 1..(n + 1) : Pairs(Append(rows, row))[i] = Append(Pairs(rows), pair)[i]
  <2>1. \A i \in 1..(n + 1) : i \in 1..n \/ i = n + 1
    BY <1>1
  <2> QED
    BY <1>6, <1>7, <1>8, <2>1
<1>10. Pairs(Append(rows, row)) \in Seq(Pair) /\ Len(Pairs(Append(rows, row))) = n + 1
  <2>1. \A i \in 1..(n + 1) : Append(rows, row)[i] \in Row
    BY <1>1, <1>2
  <2>2. \A i \in 1..(n + 1) : [before |-> Append(rows, row)[i].before,
                              after |-> Append(rows, row)[i].after] \in Pair
    BY <2>1 DEF Row, Pair
  <2>3. Pairs(Append(rows, row)) =
          [i \in 1..(n + 1) |-> [before |-> Append(rows, row)[i].before,
                                 after |-> Append(rows, row)[i].after]]
    BY <1>3 DEF Pairs
  <2> QED
    BY <1>1, <2>2, <2>3
<1>11. Pairs(Append(rows, row)) = Append(Pairs(rows), pair)
  BY <1>1, <1>7, <1>9, <1>10, SeqEqual
<1> QED
  BY <1>11 DEF pair

Balances == [u \in CreditOnly |-> wallet[u]]
Postings == [u \in CreditOnly |-> [i \in DOMAIN ledger[u] |->
                [before |-> ledger[u][i].before, after |-> ledger[u][i].after]]]
Sums == ({Amount[d] : d \in Deposits} \cup {Cashback(b) : b \in Bills}) \ {0}

\* A posting under the lock, to a user who never pays, is a deposit of the abstract ledger.
LEMMA PostingIsDeposit ==
    ASSUME WalletTypeOK, NEW u \in Users, u \in CreditOnly,
           NEW amount \in Int, amount \in Sums, NEW type \in TxTypes, NEW ref \in Refs,
           Post(u, wallet[u], amount, type, ref)
    PROVE  CreditLedger!LedgerNext
<1> DEFINE row == [type |-> type, ref |-> ref, amount |-> amount,
                   before |-> wallet[u], after |-> wallet[u] + amount]
<1>1. /\ wallet \in [Users -> Int] /\ ledger \in [Users -> Seq(Row)]
      /\ wallet' = [wallet EXCEPT ![u] = wallet[u] + amount]
      /\ ledger' = [ledger EXCEPT ![u] = Append(@, row)]
      /\ CreditOnly \subseteq Users
  BY DEF WalletTypeOK, Post, CreditOnly
<1>2. row \in Row /\ row.before = wallet[u] /\ row.after = wallet[u] + amount
  BY <1>1 DEF Row
<1> HIDE DEF row
<1>3. ledger'[u] = Append(ledger[u], row) /\ \A v \in Users \ {u} : ledger'[v] = ledger[v]
  BY <1>1
<1>4. Pairs(ledger'[u]) =
        Append(Pairs(ledger[u]), [before |-> wallet[u], after |-> wallet[u] + amount])
  BY <1>1, <1>2, <1>3, PairsAppend
<1>5. Balances' = [Balances EXCEPT ![u] = wallet[u] + amount] /\ Balances[u] = wallet[u]
  BY <1>1 DEF Balances
<1>6. Postings' = [Postings EXCEPT ![u] =
         Append(@, [before |-> wallet[u], after |-> wallet[u] + amount])]
  <2>1. /\ Postings = [v \in CreditOnly |-> Pairs(ledger[v])]
        /\ Postings' = [v \in CreditOnly |-> Pairs(ledger'[v])]
    BY DEF Postings, Pairs
  <2>2. \A v \in CreditOnly \ {u} : Pairs(ledger'[v]) = Pairs(ledger[v])
    BY <1>1, <1>3
  <2>3. Postings[u] = Pairs(ledger[u])
    BY <2>1
  <2> QED
    BY <1>4, <2>1, <2>2, <2>3
<1>7. /\ Balances' = [Balances EXCEPT ![u] = Balances[u] + amount]
      /\ Postings' = [Postings EXCEPT ![u] =
            Append(@, [before |-> Balances[u], after |-> Balances[u] + amount])]
  BY <1>5, <1>6
<1>8. CreditLedger!Deposit(u, amount)
  BY <1>7 DEF CreditLedger!Deposit, CreditLedger!Record, Balances, Postings
<1> QED
  BY <1>8 DEF CreditLedger!LedgerNext, Sums

\* A posting to a user who pays is none of the abstract ledger's business.
LEMMA PostingElsewhere ==
    ASSUME WalletTypeOK, NEW u \in Users, u \notin CreditOnly, NEW seen \in Int,
           NEW amount \in Int, NEW type \in TxTypes, NEW ref \in Refs,
           Post(u, seen, amount, type, ref)
    PROVE  UNCHANGED <<Balances, Postings>>
<1>1. /\ \A v \in Users : v # u => wallet'[v] = wallet[v] /\ ledger'[v] = ledger[v]
      /\ CreditOnly \subseteq Users
  BY PostEffect DEF CreditOnly
<1> QED
  BY <1>1 DEF Balances, Postings

LEMMA CreditStep ==
    ASSUME Control, DueBilled, [Next]_vars
    PROVE  CreditLedger!LedgerNext \/ UNCHANGED <<Balances, Postings>>
<1>0. WalletTypeOK
  BY DEF Control, ShopTypeOK, WalletTypeOK
<1>1. CASE UNCHANGED walletVars
  BY <1>1 DEF walletVars, Balances, Postings
<1>2. ASSUME NEW p \in Purchases, NEW price \in Int, NEW c, Pay(p, price, c)
      PROVE  UNCHANGED <<Balances, Postings>>
  <2>1. held[p] \in [balance : Int, spent : Int] /\ Buyer[p] \in Users /\ p \in Refs
    BY DEF Control, ShopTypeOK
  <2>2. /\ held[p].balance \in Int
        /\ -price \in Int
        /\ "PURCHASE" \in TxTypes
        /\ Post(Buyer[p], held[p].balance, -price, "PURCHASE", p)
    BY <1>2, <2>1 DEF Pay, Debit, TxTypes
  <2>3. Buyer[p] \notin CreditOnly
    BY DEF CreditOnly
  <2> QED
    BY <1>0, <2>1, <2>2, <2>3, PostingElsewhere
<1>3. ASSUME NEW u \in Users, NEW amount \in Int, amount \in Sums,
             NEW type \in TxTypes, NEW ref \in Refs,
             Post(u, wallet[u], amount, type, ref)
      PROVE  CreditLedger!LedgerNext \/ UNCHANGED <<Balances, Postings>>
  <2>1. wallet[u] \in Int
    BY <1>0 DEF WalletTypeOK
  <2> QED
    BY <1>0, <1>3, <2>1, PostingIsDeposit, PostingElsewhere
<1>4. ASSUME NEW d \in Deposits, Approve(d)
      PROVE  CreditLedger!LedgerNext \/ UNCHANGED <<Balances, Postings>>
  <2>1. Depositor[d] \in Users /\ d \in Refs /\ Amount[d] \in Int /\ Amount[d] \in Sums
    BY DEF Sums
  <2>2. "DEPOSIT" \in TxTypes /\ Post(Depositor[d], wallet[Depositor[d]], Amount[d], "DEPOSIT", d)
    BY <1>4 DEF TxTypes, Approve, Credit
  <2> QED
    BY <1>3, <2>1, <2>2
<1>5. ASSUME NEW p \in Purchases, Place(p)
      PROVE  CreditLedger!LedgerNext \/ UNCHANGED <<Balances, Postings>>
  <2> DEFINE u == Referrer[Buyer[p]]
             share == Cashback(due[p])
  <2>1. CASE /\ u \in Users /\ p \in Refs /\ share \in Int /\ share > 0
             /\ Post(u, wallet[u], share, "BONUS", p)
    <3>1. due[p] \in Bills
      BY <1>5 DEF Place, Control, SessionMatchesOrder, DueBilled
    <3>2. share \in Sums
      BY <2>1, <3>1 DEF Sums
    <3>3. "BONUS" \in TxTypes
      BY DEF TxTypes
    <3> QED
      BY <1>3, <2>1, <3>2, <3>3
  <2> QED
    BY <1>1, <1>5, <2>1, CashbackPosted
<1>6. ASSUME PayUnguarded
      PROVE  UNCHANGED <<Balances, Postings>>
  <2>1. ASSUME NEW x \in Unguarded, NEW seen \in Int, NEW amount \in Int,
               NEW type \in UnguardedTypes,
               Post(Payer[x], seen, amount, type, x),
               Payer[x] \in Users, type \in TxTypes, x \in Refs
        PROVE  UNCHANGED <<Balances, Postings>>
    <3>1. Payer[x] \notin CreditOnly
      BY DEF CreditOnly
    <3> QED
      BY <1>0, <2>1, <3>1, PostingElsewhere
  <2>2. ShopTypeOK
    BY DEF Control
  <2>3. ASSUME UNCHANGED walletVars
        PROVE  UNCHANGED <<Balances, Postings>>
    BY <2>3 DEF walletVars, Balances, Postings
  <2> QED
    BY <1>6, <2>1, <2>2, <2>3, UnguardedRow
<1> QED
  BY <1>1, <1>2, <1>4, <1>5, <1>6, MoneyMoves

\* For every user who never pays, the wallets of the shop implement the abstract ledger:
\* each approval and each cashback is a deposit that continues from the last row, and
\* nothing else moves these wallets.
THEOREM CreditsImplementLedger == Spec => CreditOnlyLedger
<1>1. Init => CreditLedger!LedgerInit
  BY DEF Init, WalletInit, CreditLedger!LedgerInit, CreditOnly
<1>2. Init => DueBilled
  BY DEF Init, DueBilled
<1>3. Control /\ DueBilled /\ [Next]_vars => Control' /\ DueBilled'
  BY ControlStep, BilledStep
<1>4. Control /\ DueBilled /\ [Next]_vars =>
        [CreditLedger!LedgerNext]_<<[u \in CreditOnly |-> wallet[u]],
                                    [u \in CreditOnly |-> [i \in DOMAIN ledger[u] |->
                                        [before |-> ledger[u][i].before,
                                         after |-> ledger[u][i].after]]]>>
  BY CreditStep DEF Balances, Postings
<1> QED
  BY <1>1, <1>2, <1>3, <1>4, ControlInit, PTL
     DEF Spec, CreditOnlyLedger, CreditLedger!LedgerSpec

-----------------------------------------------------------------------------
(* Totals.  A session writes a user's total from the one it read at the    *)
(* beginning; that is still the row's, because only the sessions of the    *)
(* user write it and the guard keeps them apart.                           *)

SpentKnown ==
    \A p \in Purchases : pc[p] \in {"loaded", "charged"} => held[p].spent = spent[Buyer[p]]

TotalsInv ==
    /\ Control
    /\ SpentKnown
    /\ \A u \in Users : IsFiniteSet(PlacedBy(u))
    /\ TotalsMatchOrders

\* A step that places no order and reprices none.
LEMMA TotalsKept ==
    ASSUME TotalsInv, spent' = spent,
           \A u \in Users : PlacedBy(u)' = PlacedBy(u),
           \A p \in Purchases : status[p] # "none" => due'[p] = due[p],
           \A p \in Purchases : pc'[p] \in {"loaded", "charged"} =>
              \/ pc[p] \in {"loaded", "charged"} /\ held'[p].spent = held[p].spent
              \/ held'[p].spent = spent[Buyer[p]]
    PROVE  SpentKnown' /\ (\A u \in Users : IsFiniteSet(PlacedBy(u)')) /\ TotalsMatchOrders'
<1>1. SpentKnown'
  BY DEF TotalsInv, SpentKnown
<1>2. ASSUME NEW u \in Users
      PROVE  spent'[u] = SumFunctionOnSet(due', PlacedBy(u)')
  <2>1. \A p \in PlacedBy(u) : due'[p] = due[p]
    BY DEF PlacedBy
  <2>2. IsFiniteSet(PlacedBy(u)) /\ spent[u] = SumFunctionOnSet(due, PlacedBy(u))
    BY DEF TotalsInv, TotalsMatchOrders
  <2>3. SumFunctionOnSet(due, PlacedBy(u)) = SumFunctionOnSet(due', PlacedBy(u))
    BY <2>1, <2>2, SumSame
  <2> QED
    BY <2>2, <2>3
<1> QED
  BY <1>1, <1>2 DEF TotalsInv, TotalsMatchOrders

LEMMA PlaceTotals ==
    ASSUME TotalsInv, NEW p \in Purchases, Place(p)
    PROVE  SpentKnown' /\ (\A u \in Users : IsFiniteSet(PlacedBy(u)')) /\ TotalsMatchOrders'
<1> DEFINE b == Buyer[p]
<1>1. /\ pc[p] = "charged" /\ pc' = [pc EXCEPT ![p] = "placed"]
      /\ status' = [status EXCEPT ![p] = "WAITING_ADMIN"]
      /\ spent' = [spent EXCEPT ![b] = held[p].spent + due[p]]
      /\ due' = due /\ held' = held
  BY DEF Place
<1>2. /\ status \in [Purchases -> OrderStatuses] /\ due \in [Purchases -> Int]
      /\ spent \in [Users -> Int] /\ pc \in [Purchases -> Steps] /\ b \in Users
  BY DEF TotalsInv, Control, ShopTypeOK
<1>3. status[p] = "PENDING"
  BY <1>1 DEF TotalsInv, Control, SessionMatchesOrder
<1>4. spent'[b] = spent[b] + due[p]
  <2>1. held[p].spent = spent[b]
    BY <1>1 DEF TotalsInv, SpentKnown
  <2> QED
    BY <1>1, <1>2, <2>1
<1>5. PlacedBy(b)' = PlacedBy(b) \cup {p} /\ p \notin PlacedBy(b)
  BY <1>1, <1>2, <1>3 DEF PlacedBy
<1>6. \A u \in Users : u # b => PlacedBy(u)' = PlacedBy(u) /\ spent'[u] = spent[u]
  BY <1>1, <1>2, <1>3 DEF PlacedBy
<1>7. /\ \A u \in Users : IsFiniteSet(PlacedBy(u)) /\ spent[u] = SumFunctionOnSet(due, PlacedBy(u))
      /\ \A u \in Users : \A q \in PlacedBy(u) : due[q] \in Int
  BY <1>2 DEF TotalsInv, TotalsMatchOrders, PlacedBy
<1>8. IsFiniteSet(PlacedBy(b)')
  BY <1>2, <1>5, <1>7, FS_AddElement
<1>9. spent'[b] = SumFunctionOnSet(due, PlacedBy(b) \cup {p})
  <2>1. due[p] \in Int /\ IsFiniteSet(PlacedBy(b)) /\ \A q \in PlacedBy(b) : due[q] \in Int
    BY <1>2, <1>7
  <2>2. SumFunctionOnSet(due, PlacedBy(b) \cup {p}) = SumFunctionOnSet(due, PlacedBy(b)) + due[p]
    BY <1>5, <2>1, SumExtend
  <2> QED
    BY <1>2, <1>4, <1>7, <2>2
<1>10. ASSUME NEW u \in Users
       PROVE  IsFiniteSet(PlacedBy(u)') /\ spent'[u] = SumFunctionOnSet(due', PlacedBy(u)')
  <2>1. CASE u = b
    BY <1>1, <1>5, <1>8, <1>9, <2>1
  <2>2. CASE u # b
    BY <1>1, <1>6, <1>7, <2>2
  <2> QED
    BY <2>1, <2>2
<1>11. SpentKnown'
  <2> SUFFICES ASSUME NEW q \in Purchases, pc'[q] \in {"loaded", "charged"}
               PROVE  held'[q].spent = spent'[Buyer[q]]
    BY DEF SpentKnown
  <2>1. q # p /\ pc[q] \in {"loaded", "charged"}
    BY <1>1, <1>2
  <2>2. Buyer[q] # b
    BY <1>1, <2>1 DEF TotalsInv, Control, OnePurchasePerUser, Running
  <2>3. Buyer[q] \in Users /\ held[q].spent = spent[Buyer[q]]
    BY <2>1 DEF TotalsInv, SpentKnown
  <2> QED
    BY <1>1, <1>6, <2>2, <2>3
<1> QED
  BY <1>10, <1>11 DEF TotalsMatchOrders

LEMMA TotalsStep ==
    ASSUME TotalsInv, [Next]_vars
    PROVE  TotalsInv'
<1>1. Control'
  BY ControlStep DEF TotalsInv
<1> SUFFICES SpentKnown' /\ (\A u \in Users : IsFiniteSet(PlacedBy(u)')) /\ TotalsMatchOrders'
  BY <1>1 DEF TotalsInv
<1> DEFINE Goal == SpentKnown' /\ (\A u \in Users : IsFiniteSet(PlacedBy(u)')) /\ TotalsMatchOrders'
<1>2. /\ status \in [Purchases -> OrderStatuses] /\ due \in [Purchases -> Int]
      /\ spent \in [Users -> Int] /\ pc \in [Purchases -> Steps]
      /\ held \in [Purchases -> [balance : Int, spent : Int]]
  BY DEF TotalsInv, Control, ShopTypeOK
<1>3. \A p \in Purchases : /\ pc[p] = "loaded" => status[p] = "none"
                           /\ pc[p] = "placed" => status[p] = "WAITING_ADMIN"
  BY DEF TotalsInv, Control, SessionMatchesOrder
<1>4. ASSUME NEW p \in Purchases, NEW c, Load(p, c)
      PROVE  Goal
  <2>1. spent' = spent /\ status' = status /\ due' = due
    BY <1>4 DEF Load, orderVars
  <2>2. \A u \in Users : PlacedBy(u)' = PlacedBy(u)
    BY <2>1 DEF PlacedBy
  <2>3. /\ held'[p].spent = spent[Buyer[p]]
        /\ \A q \in Purchases : q # p => pc'[q] = pc[q] /\ held'[q] = held[q]
    BY <1>2, <1>4 DEF Load
  <2> QED
    BY <2>1, <2>2, <2>3, TotalsKept
<1>5. ASSUME NEW p \in Purchases, NEW price, NEW c, Pay(p, price, c)
      PROVE  Goal
  <2>1. /\ spent' = spent /\ status' = [status EXCEPT ![p] = "PENDING"]
        /\ due' = [due EXCEPT ![p] = price] /\ pc[p] = "loaded"
        /\ pc' = [pc EXCEPT ![p] = "charged"]
        /\ held' = [held EXCEPT ![p].balance = @ - price]
    BY <1>5 DEF Pay
  <2>2. \A u \in Users : PlacedBy(u)' = PlacedBy(u)
    BY <1>2, <1>3, <2>1 DEF PlacedBy
  <2>3. \A q \in Purchases : held'[q].spent = held[q].spent
    BY <1>2, <2>1
  <2>4. \A q \in Purchases : q # p => pc'[q] = pc[q] /\ due'[q] = due[q]
    BY <1>2, <2>1
  <2> QED
    BY <1>3, <2>1, <2>2, <2>3, <2>4, TotalsKept
<1>6. ASSUME NEW p \in Purchases, NEW how, how \notin {"loaded", "charged"},
             pc' = [pc EXCEPT ![p] = how],
             held' = held \/ held' = [held EXCEPT ![p] = Nothing],
             spent' = spent, due' = due,
             \A u \in Users : PlacedBy(u)' = PlacedBy(u)
      PROVE  Goal
  <2>1. \A q \in Purchases : pc'[q] \in {"loaded", "charged"} =>
           pc'[q] = pc[q] /\ held'[q] = held[q]
    BY <1>2, <1>6
  <2> QED
    BY <1>6, <2>1, TotalsKept
<1>7. ASSUME status' = status
      PROVE  \A u \in Users : PlacedBy(u)' = PlacedBy(u)
  BY <1>7 DEF PlacedBy
<1>8. ASSUME NEW p \in Purchases, status[p] = "WAITING_ADMIN",
             status' = [status EXCEPT ![p] = "COMPLETED"]
      PROVE  \A u \in Users : PlacedBy(u)' = PlacedBy(u)
  BY <1>2, <1>8 DEF PlacedBy
<1>9. ASSUME NEW p \in Purchases, DeliverVpn(p)
      PROVE  Goal
  <2>1. /\ pc' = [pc EXCEPT ![p] = "handed"] /\ held' = held
        /\ spent' = spent /\ due' = due /\ pc[p] = "placed"
        /\ status' = [status EXCEPT ![p] = "COMPLETED"]
    BY <1>9 DEF DeliverVpn
  <2> QED
    BY <1>3, <1>6, <1>8, <2>1
<1>10. ASSUME NEW p \in Purchases, Refuse(p) \/ NotifyAdmins(p) \/ Finish(p) \/ Abort(p)
       PROVE  Goal
  <2>1. /\ \E how : how \notin {"loaded", "charged"} /\ pc' = [pc EXCEPT ![p] = how]
        /\ held' = held \/ held' = [held EXCEPT ![p] = Nothing]
        /\ spent' = spent /\ due' = due /\ status' = status
    BY <1>10 DEF Refuse, NotifyAdmins, Finish, Abort, Leave, orderVars
  <2>2. \A u \in Users : PlacedBy(u)' = PlacedBy(u)
    BY <1>7, <2>1
  <2> QED
    BY <1>6, <2>1, <2>2
<1>11. ASSUME NEW p \in Purchases, MarkDelivered(p)
       PROVE  Goal
  <2>1. /\ spent' = spent /\ due' = due /\ pc' = pc /\ held' = held
        /\ status[p] = "WAITING_ADMIN" /\ status' = [status EXCEPT ![p] = "COMPLETED"]
    BY <1>11 DEF MarkDelivered, sessionVars
  <2>2. \A u \in Users : PlacedBy(u)' = PlacedBy(u)
    BY <1>8, <2>1
  <2> QED
    BY <2>1, <2>2, TotalsKept
<1>12. ASSUME UNCHANGED <<orderVars, spent, sessionVars>>
       PROVE  Goal
  <2>1. spent' = spent /\ due' = due /\ pc' = pc /\ held' = held /\ status' = status
    BY <1>12 DEF orderVars, sessionVars
  <2> QED
    BY <1>7, <2>1, TotalsKept
<1>13. ASSUME NEW c \in Coupons, CreateCoupon(c) \/ ReadForDelete(c) \/ DeleteCoupon(c)
       PROVE  UNCHANGED <<orderVars, spent, sessionVars>>
  BY <1>13 DEF CreateCoupon, ReadForDelete, DeleteCoupon
<1>14. ASSUME NEW d \in Deposits, CreateRequest(d) \/ Approve(d) \/ Reject(d)
       PROVE  UNCHANGED <<orderVars, spent, sessionVars>>
  BY <1>14 DEF CreateRequest, Approve, Reject
<1>15. CASE UNCHANGED vars
  BY <1>12, <1>15 DEF vars
<1>16. CASE PayUnguarded
  BY <1>12, <1>16 DEF PayUnguarded
<1> HIDE DEF Goal
<1>17. Goal
  BY <1>4, <1>5, <1>9, <1>10, <1>11, <1>12, <1>13, <1>14, <1>15, <1>16, PlaceTotals
     DEF Next, Shopping, SessionStep, HandleBuy, HandleBuyWithCoupon, CreateAndPay,
         CreateAndPayWithCoupon, Goal
<1> QED
  BY <1>17 DEF Goal

LEMMA TotalsInit == Init => TotalsInv
<1> SUFFICES ASSUME Init PROVE TotalsInv
  OBVIOUS
<1>1. Control
  BY ControlInit
<1>2. SpentKnown
  BY DEF Init, SpentKnown
<1>3. \A u \in Users : PlacedBy(u) = {} /\ spent[u] = 0
  BY DEF Init, PlacedBy
<1>4. TotalsMatchOrders /\ \A u \in Users : IsFiniteSet(PlacedBy(u))
  BY <1>3, SumEmpty, FS_EmptySet DEF TotalsMatchOrders
<1> QED
  BY <1>1, <1>2, <1>4 DEF TotalsInv

\* Nothing a customer pays is missing from his total, and nothing is counted twice or
\* for another: the total is read, and written a payment and several commits later.
THEOREM TotalsAreSums == Spec => []TotalsMatchOrders
<1>1. TotalsInv => TotalsMatchOrders
  BY DEF TotalsInv
<1> QED
  BY <1>1, TotalsInit, TotalsStep, PTL DEF Spec
=============================================================================
