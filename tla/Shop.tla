-------------------------------- MODULE Shop --------------------------------
(***************************************************************************)
(* Buying with the Toman wallet, with everything that touches the same     *)
(* rows: the purchase handlers of bot/handlers/shop.py, OrderService,      *)
(* CouponService, DepositService and the admins' delivery button.          *)
(*                                                                         *)
(* A purchase p is one press of the "confirm and pay" button.  Its handler *)
(* runs in one database session and is cut into the steps between which    *)
(* other handlers, the admins and a restart can come: every step ends at a *)
(* commit or at the await of a Telegram or VPN-panel call.  A step that    *)
(* holds a row lock up to its commit is one action.  The order a purchase  *)
(* creates has the name of the purchase.                                   *)
(*                                                                         *)
(* The same wallets pay for renewals of VPN services and for tournaments,  *)
(* whose sessions do not consult the guard of the purchases.  Here they    *)
(* are what they do to a wallet; what else they do is in VpnRenewal and in *)
(* Tournament.                                                             *)
(***************************************************************************)
EXTENDS WalletService, FiniteSets, Functions

CONSTANTS
    Purchases,      \* presses of a payment button
    Deposits,       \* manual deposit requests
    Coupons,        \* single-use discount codes
    NoUser,         \* users.referred_by is NULL
    NoCoupon,       \* a purchase without a discount code
    Buyer,          \* Buyer[p]: who pressed the button
    Price,          \* Price[p]: calculate_price(...).total_price at the payment
    IsVpn,          \* IsVpn[p]: product.is_vpn_product
    Percent,        \* Percent[c]: discount_percent of a code
    Referrer,       \* Referrer[u]: users.referred_by, or NoUser
    CashbackPercent,\* the setting referral_cashback_percent
    Depositor,      \* Depositor[d]: who asked for the deposit
    Amount,         \* Amount[d]: the sum of the request
    Renewals,       \* presses of a renewal's confirmation
    Entries,        \* joins of one tournament with an entry fee
    Payer,          \* Payer[x]: whose wallet a renewal or an entry is paid from
    Cost            \* Cost[x]: the price of the renewal, the fee of the tournament

\* What is paid from a wallet without a look at _processing_purchases.
Unguarded == Renewals \cup Entries

ASSUME ShopAssumption ==
    /\ Refs = Purchases \cup Deposits \cup Unguarded
    /\ NoUser \notin Users
    /\ NoCoupon \notin Coupons
    /\ Buyer \in [Purchases -> Users]
    /\ Price \in [Purchases -> Nat \ {0}]
    /\ IsVpn \in [Purchases -> BOOLEAN]
    /\ Percent \in [Coupons -> 1..90]
    /\ Referrer \in [Users -> Users \cup {NoUser}]
    /\ \A u \in Users : Referrer[u] # u
    /\ CashbackPercent \in Nat
    /\ Depositor \in [Deposits -> Users]
    /\ Amount \in [Deposits -> Nat \ {0}]

ASSUME UnguardedAssumption ==
    /\ Purchases \cap Unguarded = {}
    /\ Payer \in [Unguarded -> Users]
    /\ Cost \in [Unguarded -> Nat \ {0}]

VARIABLES
    status,         \* orders.status, or "none" while no order row is committed
    due,            \* orders.final_price
    couponOf,       \* the code redeemed by the order (orders.coupon_code)
    coupon,         \* the row of a code: "absent", "unused", "used" or "deleted"
    deleting,       \* codes an admin session has read as unused, to delete them
    deposit,        \* deposit_requests.status, or "none"
    spent,          \* users.total_spent
    buttons,        \* orders whose delivery button was sent to the admins
    processing,     \* _processing_purchases: users with a purchase running
    pc,             \* where the session of a purchase is
    code,           \* the code the purchase was confirmed with
    held,           \* the user's row and wallet as the session remembers them
    paying,         \* how far a renewal is, or an entry
    copy            \* the balance the session of a renewal, or of a refund, remembers

orderVars   == <<status, due, couponOf>>
couponVars  == <<coupon, deleting>>
sessionVars == <<processing, pc, code, held>>
payingVars  == <<paying, copy>>

vars == <<walletVars, orderVars, couponVars, deposit, spent, buttons, sessionVars, payingVars>>

OrderStatuses   == {"none", "PENDING", "WAITING_ADMIN", "COMPLETED"}
CouponStates    == {"absent", "unused", "used", "deleted"}
DepositStatuses == {"none", "PENDING", "APPROVED", "REJECTED"}
Steps           == {"idle", "loaded", "charged", "placed", "handed", "done", "dead"}
PayingSteps     == {"idle", "loaded", "charged", "refunded"}

\* What a session remembers that is not open.
Nothing == [balance |-> 0, spent |-> 0]

\* The steps during which a purchase occupies its user's place in _processing_purchases.
Running == {"loaded", "charged", "placed", "handed"}

Init ==
    /\ WalletInit
    /\ status = [p \in Purchases |-> "none"]
    /\ due = [p \in Purchases |-> 0]
    /\ couponOf = [p \in Purchases |-> NoCoupon]
    /\ coupon = [c \in Coupons |-> "absent"]
    /\ deleting = {}
    /\ deposit = [d \in Deposits |-> "none"]
    /\ spent = [u \in Users |-> 0]
    /\ buttons = {}
    /\ processing = {}
    /\ pc = [p \in Purchases |-> "idle"]
    /\ code = [p \in Purchases |-> NoCoupon]
    /\ held = [p \in Purchases |-> Nothing]
    /\ paying = [x \in Unguarded |-> "idle"]
    /\ copy = [x \in Unguarded |-> 0]

-----------------------------------------------------------------------------
(* The purchase handlers.                                                  *)

\* A purchase starts: the user enters _processing_purchases and get_or_create loads the
\* user's row and, with it, the wallet into the session.
Load(p, c) ==
    /\ pc[p] = "idle"
    /\ processing' = processing \cup {Buyer[p]}
    /\ pc' = [pc EXCEPT ![p] = "loaded"]
    /\ code' = [code EXCEPT ![p] = c]
    /\ held' = [held EXCEPT ![p] = [balance |-> wallet[Buyer[p]],
                                    spent |-> spent[Buyer[p]]]]
    /\ UNCHANGED <<walletVars, orderVars, couponVars, deposit, spent, buttons>>

\* Mutant of HandleBuy: the double-click guard is not consulted.
HandleBuyUnguarded(p) == Load(p, NoCoupon)

HandleBuy(p) ==
    /\ Buyer[p] \notin processing
    /\ Load(p, NoCoupon)

\* The code was validated for the preview, so it existed then; it may be gone by now.
HandleBuyWithCoupon(p, c) ==
    /\ Buyer[p] \notin processing
    /\ coupon[c] # "absent"
    /\ Load(p, c)

\* Mutant of Leave: the handler ends without discarding the user.
LeaveMarked(p, how) ==
    /\ pc' = [pc EXCEPT ![p] = how]
    /\ code' = [code EXCEPT ![p] = NoCoupon]
    /\ held' = [held EXCEPT ![p] = Nothing]
    /\ UNCHANGED processing

\* The session is closed, and the finally clause of both handlers discards the user.
Leave(p, how) ==
    /\ pc' = [pc EXCEPT ![p] = how]
    /\ processing' = processing \ {Buyer[p]}
    /\ code' = [code EXCEPT ![p] = NoCoupon]
    /\ held' = [held EXCEPT ![p] = Nothing]

\* The database part of a payment up to the commit inside WalletService.debit: the
\* order row and, with a code, the redemption, are committed with the debit.
Pay(p, price, c) ==
    /\ pc[p] = "loaded"
    /\ Debit(Buyer[p], held[p].balance, price, "PURCHASE", p)
    /\ status' = [status EXCEPT ![p] = "PENDING"]
    /\ due' = [due EXCEPT ![p] = price]
    /\ couponOf' = [couponOf EXCEPT ![p] = c]
    /\ pc' = [pc EXCEPT ![p] = "charged"]
    /\ held' = [held EXCEPT ![p].balance = @ - price]
    /\ UNCHANGED <<deleting, deposit, spent, buttons, processing, code>>

CreateAndPay(p) ==
    /\ code[p] = NoCoupon
    /\ Pay(p, Price[p], NoCoupon)
    /\ UNCHANGED coupon

Discounted(price, percent) == price - (price * percent) \div 100

\* Mutant of RedeemLocked: the locked row is not checked again, only the preview was.
RedeemUnchecked(c) == coupon' = [coupon EXCEPT ![c] = "used"]

\* The row lock makes the check and the redemption one step.
RedeemLocked(c) ==
    /\ coupon[c] = "unused"
    /\ coupon' = [coupon EXCEPT ![c] = "used"]

CreateAndPayWithCoupon(p) ==
    /\ code[p] # NoCoupon
    /\ RedeemLocked(code[p])
    /\ Pay(p, Discounted(Price[p], Percent[code[p]]), code[p])

\* The session gives up before paying: the product was switched off, the quantity is out
\* of range, the code is used, expired or deleted, the balance in hand is too small.
\* What was flushed is rolled back when the session closes, and the button, which is
\* still there, can be pressed again.
Refuse(p) ==
    /\ pc[p] = "loaded"
    /\ Leave(p, "idle")
    /\ UNCHANGED <<walletVars, orderVars, couponVars, deposit, spent, buttons>>

Cashback(price) == (price * CashbackPercent) \div 100

\* Mutant of PayCashback: the share is taken of the price before the code's discount.
PayCashbackOnPrice(p) ==
    LET referrer == Referrer[Buyer[p]]
    IN  IF referrer = NoUser \/ Cashback(Price[p]) = 0
        THEN UNCHANGED walletVars
        ELSE \/ UNCHANGED walletVars
             \/ Credit(referrer, wallet[referrer], Cashback(Price[p]), "BONUS", p)

\* Mutant of PayCashback: the referrer's wallet was loaded with the buyer's row.
PayCashbackStale(p) ==
    LET referrer == Referrer[Buyer[p]]
    IN  IF referrer = NoUser \/ Cashback(due[p]) = 0
        THEN UNCHANGED walletVars
        ELSE \E seen \in 0..wallet[referrer] :
                Credit(referrer, seen, Cashback(due[p]), "BONUS", p)

\* The referrer's share goes out when the buyer has a referrer and the switch
\* referral_cashback is on, which the admins may flip at any time.
PayCashback(p) ==
    LET referrer == Referrer[Buyer[p]]
    IN  IF referrer = NoUser \/ Cashback(due[p]) = 0
        THEN UNCHANGED walletVars
        ELSE \/ UNCHANGED walletVars
             \/ Credit(referrer, wallet[referrer], Cashback(due[p]), "BONUS", p)

\* The rest of create_and_pay: one commit, the one inside the cashback's credit or the
\* last one, makes the new status, the totals and the cashback durable together.
Place(p) ==
    /\ pc[p] = "charged"
    /\ status' = [status EXCEPT ![p] = "WAITING_ADMIN"]
    /\ spent' = [spent EXCEPT ![Buyer[p]] = held[p].spent + due[p]]
    /\ PayCashback(p)
    /\ pc' = [pc EXCEPT ![p] = "placed"]
    /\ UNCHANGED <<due, couponOf, couponVars, deposit, buttons, processing, code, held>>

\* Mutant of DeliverVpn: automatic delivery starts before the order is placed, and
\* create_and_pay goes on afterwards.
DeliverVpnEarly(p) ==
    /\ pc[p] \in {"charged", "placed"}
    /\ IsVpn[p]
    /\ status' = [status EXCEPT ![p] = "COMPLETED"]
    /\ UNCHANGED <<walletVars, due, couponOf, couponVars, deposit, spent, buttons, sessionVars>>

\* try_auto_deliver_vpn found a panel: the order is completed in the same session.
DeliverVpn(p) ==
    /\ pc[p] = "placed"
    /\ IsVpn[p]
    /\ status' = [status EXCEPT ![p] = "COMPLETED"]
    /\ pc' = [pc EXCEPT ![p] = "handed"]
    /\ UNCHANGED <<walletVars, due, couponOf, couponVars, deposit, spent, buttons,
                   processing, code, held>>

\* No VPN product, or no panel took it: the first admin who can be reached gets the
\* delivery button, and may press it while the loop goes on to the others.
NotifyAdmins(p) ==
    /\ pc[p] = "placed"
    /\ buttons' = buttons \cup {p}
    /\ pc' = [pc EXCEPT ![p] = "handed"]
    /\ UNCHANGED <<walletVars, orderVars, couponVars, deposit, spent, processing, code, held>>

\* The session ends: the rest of the loop, the settings and the report to the channel are
\* behind it, or it was cut short by an exception or a restart.
Finish(p) ==
    /\ pc[p] = "handed"
    /\ Leave(p, "done")
    /\ UNCHANGED <<walletVars, orderVars, couponVars, deposit, spent, buttons>>

\* Mutant of Abort: the debit is committed by itself, and the order that was only flushed
\* is rolled back with the session.
AbortForgets(p) ==
    /\ pc[p] \in {"charged", "placed"}
    /\ status' = IF pc[p] = "charged" THEN [status EXCEPT ![p] = "none"] ELSE status
    /\ Leave(p, "dead")
    /\ UNCHANGED <<walletVars, due, couponOf, couponVars, deposit, spent, buttons>>

\* The session ends after the payment and before anybody was told: an exception (a lost
\* database connection, the Telegram call that edits the message before the admins are
\* told), admins none of whom can be reached, or a restart of the process, which empties
\* _processing_purchases as well.  What was committed stays.  Before the payment this is
\* Refuse, after the button Finish.
Abort(p) ==
    /\ pc[p] \in {"charged", "placed"}
    /\ Leave(p, "dead")
    /\ UNCHANGED <<walletVars, orderVars, couponVars, deposit, spent, buttons>>

-----------------------------------------------------------------------------
(* Renewals and tournaments, as far as they move a wallet.  A session that *)
(* is refused, succeeds or dies does nothing more to it.                   *)

\* get_or_create loads the wallet with the user, as for a purchase.
OpenRenewal(x) ==
    /\ paying[x] = "idle"
    /\ paying' = [paying EXCEPT ![x] = "loaded"]
    /\ copy' = [copy EXCEPT ![x] = wallet[Payer[x]]]
    /\ UNCHANGED walletVars

\* The charge computes from the balance the session has loaded ...
ChargeRenewal(x) ==
    /\ paying[x] = "loaded"
    /\ Debit(Payer[x], copy[x], Cost[x], "PURCHASE", x)
    /\ paying' = [paying EXCEPT ![x] = "charged"]
    /\ copy' = [copy EXCEPT ![x] = @ - Cost[x]]

\* ... and so does the refund, after a panel that refused.
RefundRenewal(x) ==
    /\ paying[x] = "charged"
    /\ Credit(Payer[x], copy[x], Cost[x], "REFUND", x)
    /\ paying' = [paying EXCEPT ![x] = "refunded"]
    /\ copy' = [copy EXCEPT ![x] = 0]

\* join() loads the wallet for the first time under its lock.
PayEntry(x) ==
    /\ paying[x] = "idle"
    /\ Debit(Payer[x], wallet[Payer[x]], Cost[x], "TOURNAMENT_ENTRY", x)
    /\ paying' = [paying EXCEPT ![x] = "charged"]
    /\ UNCHANGED copy

\* A cancellation has refunded y, of the same user, after x was paid.
RefundedSince(x, y) ==
    /\ Payer[y] = Payer[x]
    /\ \E i \in RowsFor(Payer[x], "TOURNAMENT_ENTRY", x), j \in RowsFor(Payer[x], "REFUND", y) :
          i < j

\* The balances a cancellation may refund x from: the row's, or, when it has refunded
\* another entry of the same user, the one it remembers since.
RefundBases(x) == {wallet[Payer[x]]} \cup {copy[y] : y \in {z \in Entries : RefundedSince(x, z)}}

RefundEntry(x) ==
    /\ paying[x] = "charged"
    /\ \E seen \in RefundBases(x) :
          /\ Credit(Payer[x], seen, Cost[x], "REFUND", x)
          /\ copy' = [copy EXCEPT ![x] = seen + Cost[x]]
    /\ paying' = [paying EXCEPT ![x] = "refunded"]

PayUnguarded ==
    /\ \/ \E x \in Renewals : OpenRenewal(x) \/ ChargeRenewal(x) \/ RefundRenewal(x)
       \/ \E x \in Entries : PayEntry(x) \/ RefundEntry(x)
    /\ UNCHANGED <<orderVars, couponVars, deposit, spent, buttons, sessionVars>>

-----------------------------------------------------------------------------
(* The admins: delivery, coupons, deposit requests.                        *)

MarkDelivered(p) ==
    /\ p \in buttons
    /\ status[p] = "WAITING_ADMIN"
    /\ status' = [status EXCEPT ![p] = "COMPLETED"]
    /\ UNCHANGED <<walletVars, due, couponOf, couponVars, deposit, spent, buttons, sessionVars>>

CreateCoupon(c) ==
    /\ coupon[c] = "absent"
    /\ coupon' = [coupon EXCEPT ![c] = "unused"]
    /\ UNCHANGED <<walletVars, orderVars, deleting, deposit, spent, buttons, sessionVars>>

\* delete() reads the row without a lock and refuses a used one ...
ReadForDelete(c) ==
    /\ coupon[c] = "unused"
    /\ deleting' = deleting \cup {c}
    /\ UNCHANGED <<walletVars, orderVars, coupon, deposit, spent, buttons, sessionVars>>

\* ... and then deletes by primary key, whatever the row has become.
DeleteCoupon(c) ==
    /\ c \in deleting
    /\ deleting' = deleting \ {c}
    /\ coupon' = [coupon EXCEPT ![c] = "deleted"]
    /\ UNCHANGED <<walletVars, orderVars, deposit, spent, buttons, sessionVars>>

CreateRequest(d) ==
    /\ deposit[d] = "none"
    /\ deposit' = [deposit EXCEPT ![d] = "PENDING"]
    /\ UNCHANGED <<walletVars, orderVars, couponVars, spent, buttons, sessionVars>>

\* Mutant of Approve: the decision is not re-read under the lock, so that a second
\* admin's click credits again.
ApproveAgain(d) ==
    /\ deposit[d] \in {"PENDING", "APPROVED"}
    /\ Len(ledger[Depositor[d]]) < 4
    /\ deposit' = [deposit EXCEPT ![d] = "APPROVED"]
    /\ Credit(Depositor[d], wallet[Depositor[d]], Amount[d], "DEPOSIT", d)
    /\ UNCHANGED <<orderVars, couponVars, spent, buttons, sessionVars>>

\* approve() locks the request, and the wallet is loaded for the first time under its
\* lock; status and credit are committed together.
Approve(d) ==
    /\ deposit[d] = "PENDING"
    /\ deposit' = [deposit EXCEPT ![d] = "APPROVED"]
    /\ Credit(Depositor[d], wallet[Depositor[d]], Amount[d], "DEPOSIT", d)
    /\ UNCHANGED <<orderVars, couponVars, spent, buttons, sessionVars>>

\* Mutant of Reject: a status that models/deposit_request.py does not know.
RejectUnknown(d) ==
    /\ deposit[d] = "PENDING"
    /\ deposit' = [deposit EXCEPT ![d] = "CANCELLED"]
    /\ UNCHANGED <<walletVars, orderVars, couponVars, spent, buttons, sessionVars>>

Reject(d) ==
    /\ deposit[d] = "PENDING"
    /\ deposit' = [deposit EXCEPT ![d] = "REJECTED"]
    /\ UNCHANGED <<walletVars, orderVars, couponVars, spent, buttons, sessionVars>>

-----------------------------------------------------------------------------
\* What the session of p does once it has started, an outcome for every step.
SessionStep(p) ==
    \/ CreateAndPay(p)
    \/ CreateAndPayWithCoupon(p)
    \/ Refuse(p)
    \/ Place(p)
    \/ DeliverVpn(p)
    \/ NotifyAdmins(p)
    \/ Finish(p)
    \/ Abort(p)

Shopping ==
    /\ \/ \E p \in Purchases :
            \/ HandleBuy(p)
            \/ \E c \in Coupons : HandleBuyWithCoupon(p, c)
            \/ SessionStep(p)
            \/ MarkDelivered(p)
       \/ \E c \in Coupons : CreateCoupon(c) \/ ReadForDelete(c) \/ DeleteCoupon(c)
       \/ \E d \in Deposits : CreateRequest(d) \/ Approve(d) \/ Reject(d)
    /\ UNCHANGED payingVars

Next == Shopping \/ PayUnguarded

Spec == Init /\ [][Next]_vars

\* A started handler goes on: the event loop serves every ready task, and each await ends
\* with an answer or an exception.  Users and admins owe nothing.
FairSpec == Spec /\ \A p \in Purchases : WF_vars(SessionStep(p) /\ UNCHANGED payingVars)
-----------------------------------------------------------------------------
(* Properties.                                                             *)

ShopTypeOK ==
    /\ wallet \in [Users -> Int]
    /\ ledger \in [Users -> Seq(Row)]
    /\ status \in [Purchases -> OrderStatuses]
    /\ due \in [Purchases -> Int]
    /\ couponOf \in [Purchases -> Coupons \cup {NoCoupon}]
    /\ coupon \in [Coupons -> CouponStates]
    /\ deleting \subseteq Coupons
    /\ deposit \in [Deposits -> DepositStatuses]
    /\ spent \in [Users -> Int]
    /\ buttons \subseteq Purchases
    /\ processing \subseteq Users
    /\ pc \in [Purchases -> Steps]
    /\ code \in [Purchases -> Coupons \cup {NoCoupon}]
    /\ held \in [Purchases -> [balance : Int, spent : Int]]
    /\ paying \in [Unguarded -> PayingSteps]
    /\ copy \in [Unguarded -> Int]

\* Two sessions of one user never run at once.
OnePurchasePerUser ==
    /\ \A p \in Purchases : pc[p] \in Running => Buyer[p] \in processing
    /\ \A p, q \in Purchases :
          (pc[p] \in Running /\ pc[q] \in Running /\ Buyer[p] = Buyer[q]) => p = q

\* The row of an order and the session that made it agree on how far it is; only orders
\* that a session handed over are delivered by hand; and an order that waits for the
\* admins has its button, unless its session is about to send it or died before it could.
SessionMatchesOrder ==
    \A p \in Purchases :
        /\ pc[p] \in {"idle", "loaded"} => status[p] = "none" /\ couponOf[p] = NoCoupon
        /\ pc[p] = "charged" => status[p] = "PENDING"
        /\ pc[p] = "placed" => status[p] = "WAITING_ADMIN"
        /\ pc[p] = "handed" => status[p] \in {"WAITING_ADMIN", "COMPLETED"}
        /\ p \in buttons => /\ pc[p] \in {"handed", "done"}
                            /\ status[p] \in {"WAITING_ADMIN", "COMPLETED"}
        /\ status[p] = "WAITING_ADMIN" => p \in buttons \/ pc[p] \in {"placed", "dead"}

\* A balance that some row of u's ledger left (or the empty ledger), since when no
\* purchase of u was paid: only credits, renewals and entries may have come after it.
NoPurchaseSince(u, balance, length) ==
    \E k \in 0..length :
        /\ balance = PreviousAfter(ledger[u], k + 1)
        /\ \A j \in (k + 1)..length :
              ledger[u][j].amount < 0 => ledger[u][j].ref \in Unguarded

\* A session about to pay remembers a balance from after the user's last purchase.
HeldKnowsPurchases ==
    \A p \in Purchases :
        pc[p] = "loaded" =>
            NoPurchaseSince(Buyer[p], held[p].balance, Len(ledger[Buyer[p]]))

\* What a purchase session may rely on: the stale copy of the wallet it pays from misses
\* no other purchase of the user, because the guard lets none in between, and the order
\* row follows the session step by step, as do the buttons of the admins.
SessionInv == OnePurchasePerUser /\ SessionMatchesOrder /\ HeldKnowsPurchases

\* S is one row of u's ledger, and it moved a.
OneRowOf(u, S, a) == \E i \in S : S = {i} /\ ledger[u][i].amount = a

\* Every committed order was paid by exactly one PURCHASE row of its buyer, of exactly
\* its final price, and no row charges a purchase that left no order
\* (create_and_pay: the order, the redemption and the debit are one commit).
ChargedOnce ==
    \A p \in Purchases :
        LET rows == RowsFor(Buyer[p], "PURCHASE", p)
        IN  IF status[p] = "none" THEN rows = {}
            ELSE OneRowOf(Buyer[p], rows, -due[p])

\* An approved request was credited by exactly one DEPOSIT row of its amount, any other
\* request by none, however the admins' clicks interleave (deposit_service.approve).
DepositCreditedOnce ==
    \A d \in Deposits :
        LET rows == RowsFor(Depositor[d], "DEPOSIT", d)
        IN  IF deposit[d] = "APPROVED" THEN OneRowOf(Depositor[d], rows, Amount[d])
            ELSE rows = {}

\* A discount code ends up on at most one order, and a code on an order can no longer be
\* redeemed, although previews, payments and deletions of it overlap (coupon_service.py:4-8).
CouponRedeemedOnce ==
    \A p \in Purchases : couponOf[p] # NoCoupon =>
        /\ coupon[couponOf[p]] \in {"used", "deleted"}
        /\ \A q \in Purchases : couponOf[q] = couponOf[p] => q = p

\* An order pays its buyer's referrer at most once, never before the order waits for
\* delivery, and never more than the percentage of what was really charged.
CashbackOnce ==
    \A p \in Purchases : \A u \in Users :
        LET rows == RowsFor(u, "BONUS", p)
        IN  rows # {} =>
              /\ u = Referrer[Buyer[p]]
              /\ status[p] \in {"WAITING_ADMIN", "COMPLETED"}
              /\ OneRowOf(u, rows, Cashback(due[p]))

\* A row may continue from an older balance than the one of the row before it: it does so
\* from one that really was the user's, never ends below zero, and when it charges a
\* purchase, what it passes over are credits, renewals and entries but no other purchase.
\* So a user cannot spend the same money on two purchases, and it is the guard
\* _processing_purchases that makes this true, not the row lock.  With a renewal or a
\* tournament, which do not ask the guard, he can (orders.py:181-190, 258-267).
NoPurchasePassedOver ==
    \A u \in Users :
        /\ wallet[u] = LedgerBalance(u)
        /\ \A i \in DOMAIN ledger[u] :
              LET row == ledger[u][i]
              IN  /\ row.after >= 0
                  /\ \E k \in 0..(i - 1) : row.before = PreviousAfter(ledger[u], k + 1)
                  /\ row.ref \in Purchases => NoPurchaseSince(u, row.before, i - 1)

\* The orders of u whose price counts into his total.
PlacedBy(u) ==
    {p \in Purchases : Buyer[p] = u /\ status[p] \in {"WAITING_ADMIN", "COMPLETED"}}

\* users.total_spent is the sum of the final prices of the user's placed orders: no
\* increment is lost, although it is computed from a value read before the payment,
\* because the guard keeps a user's purchases apart (order_service.py:72-74).
TotalsMatchOrders ==
    \A u \in Users : spent[u] = SumFunctionOnSet(due, PlacedBy(u))

\* Rows are only added, and a wallet moves only together with the row that records the
\* move (wallet_service.py:5-6).
LedgerOnlyGrows ==
    [][\A u \in Users :
          \/ wallet'[u] = wallet[u] /\ ledger'[u] = ledger[u]
          \/ /\ Len(ledger'[u]) = Len(ledger[u]) + 1
             /\ SubSeq(ledger'[u], 1, Len(ledger[u])) = ledger[u]
             /\ ledger'[u][Len(ledger'[u])].after = wallet'[u]]_walletVars

Rank(st) == CASE st = "none" -> 0 [] st = "PENDING" -> 1
              [] st = "WAITING_ADMIN" -> 2 [] st = "COMPLETED" -> 3

\* An order only moves forward and its bill is fixed once it is paid: a second press of
\* the delivery button, or a late step of the session, cannot reopen or reprice it.
OrderMovesForward ==
    [][\A p \in Purchases : status[p] # "none" =>
          /\ Rank(status'[p]) >= Rank(status[p])
          /\ due'[p] = due[p]
          /\ couponOf'[p] = couponOf[p]]_orderVars

\* A user is not locked out of buying for ever: whatever becomes of the purchase, the
\* double-click guard is released (the finally clauses of the handlers).
GuardReleased ==
    \A u \in Users : u \in processing ~> u \notin processing

\* The users who never pay: their wallets are only touched by sessions that load the
\* wallet under its lock.
CreditOnly ==
    {u \in Users : /\ \A p \in Purchases : Buyer[p] # u
                   /\ \A x \in Unguarded : Payer[x] # u}

Bills == {Price[p] : p \in Purchases}
             \cup {Discounted(Price[p], Percent[c]) : p \in Purchases, c \in Coupons}

CreditLedger ==
    INSTANCE Ledger WITH
        Owners  <- CreditOnly,
        Amounts <- ({Amount[d] : d \in Deposits} \cup {Cashback(b) : b \in Bills}) \ {0},
        balance <- [u \in CreditOnly |-> wallet[u]],
        entries <- [u \in CreditOnly |-> [i \in DOMAIN ledger[u] |->
                       [before |-> ledger[u][i].before, after |-> ledger[u][i].after]]]

\* For the users who never pay, the wallets implement the abstract ledger: every row
\* continues from the balance the row before it left.
CreditOnlyLedger == CreditLedger!LedgerSpec

\* What wallet_service.py:4-9 says of every wallet: the lock keeps the rows of a user in
\* sequence, so that the balance is the sum of the ledger.
BalanceIsSumOfLedger ==
    \A u \in Users : \A i \in DOMAIN ledger[u] :
        ledger[u][i].before = PreviousAfter(ledger[u], i)

\* What order_service.py:4-8 says of create_and_pay: no half-done order stays behind.
\* An order is PENDING only while its session is between the debit and the end.
NoHalfDoneOrder ==
    \A p \in Purchases : status[p] = "PENDING" => pc[p] = "charged"
=============================================================================
