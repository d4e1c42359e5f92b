------------------------------- MODULE MCShop -------------------------------
(* An instance of Shop for TLC: u1 and u2 buy, u2 also renews a service,
   u1 also joins a tournament, u3 only refers. *)
EXTENDS Shop, Pricing, TLC

CONSTANTS u1, u2, u3, p1, p2, p3, d1, c1, r1, e1, none

MCUsers == {u1, u2, u3}
MCPurchases == {p1, p2, p3}
MCDeposits == {d1}
MCCoupons == {c1}
MCRenewals == {r1}
MCEntries == {e1}
MCRefs == MCPurchases \cup MCDeposits \cup MCRenewals \cup MCEntries
MCBuyer == p1 :> u1 @@ p2 :> u2 @@ p3 :> u1

\* What is bought, two of it if the product allows that, at moment 1: a product with a
\* fixed price, one with a discount that lasts until 2, and one sold by the piece.
Fixed(price, percent) ==
    [type |-> "FIXED", price |-> price, percent |-> percent, ends |-> 2, tokens |-> Null]
ByThePiece(price) ==
    [type |-> "VARIABLE_QUANTITY", price |-> price, min |-> 1, max |-> 3, percent |-> Null,
     ends |-> Null, tokens |-> Null]
MCProduct == p1 :> ByThePiece(1) @@ p2 :> Fixed(8, 50) @@ p3 :> Fixed(3, 0)
MCPrice == [p \in MCPurchases |-> CalculatePrice(MCProduct[p], 2, 1)]

ASSUME MCProductsCanBeSold ==
    \A p \in MCPurchases :
        MCProduct[p] \in Priced /\ ValidQuantity(MCProduct[p], 2)

MCIsVpn == p1 :> TRUE @@ p2 :> FALSE @@ p3 :> FALSE
MCPercent == c1 :> 50
MCReferrer == u1 :> u3 @@ u2 :> u1 @@ u3 :> none
MCDepositor == d1 :> u2
MCAmount == d1 :> 4
MCPayer == r1 :> u2 @@ e1 :> u1
MCCost == r1 :> 4 @@ e1 :> 3
=============================================================================
