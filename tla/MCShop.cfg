SPECIFICATION FairSpec
CONSTANTS
    u1 = u1
    u2 = u2
    u3 = u3
    p1 = p1
    p2 = p2
    p3 = p3
    d1 = d1
    c1 = c1
    r1 = r1
    e1 = e1
    none = none
    NoUser = none
    NoCoupon = none
    Users <- MCUsers
    Refs <- MCRefs
    Purchases <- MCPurchases
    Deposits <- MCDeposits
    Coupons <- MCCoupons
    Buyer <- MCBuyer
    Price <- MCPrice
    IsVpn <- MCIsVpn
    Percent <- MCPercent
    Referrer <- MCReferrer
    CashbackPercent = 75
    Depositor <- MCDepositor
    Amount <- MCAmount
    Renewals <- MCRenewals
    Entries <- MCEntries
    Payer <- MCPayer
    Cost <- MCCost
CHECK_DEADLOCK FALSE
INVARIANT ShopTypeOK
INVARIANT SessionInv
INVARIANT ChargedOnce
INVARIANT DepositCreditedOnce
INVARIANT CouponRedeemedOnce
INVARIANT CashbackOnce
INVARIANT NoPurchasePassedOver
INVARIANT TotalsMatchOrders
PROPERTY OrderMovesForward
PROPERTY CreditOnlyLedger
PROPERTY GuardReleased
