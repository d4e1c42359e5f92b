SPECIFICATION Spec
CONSTANTS
    u1 = u1
    u2 = u2
    p1 = p1
    o1 = o1
    t1 = t1
    earlier = earlier
    nobody = nobody
    Users = {u1, u2}
    Holders = {u1, u2}
    Refs <- MCRefs
    Payments = {p1}
    Payer <- MCPayer
    Sums = {2}
    CoinOrders = {o1}
    Holder <- MCHolder
    Quotes = {1}
    Tournaments = {t1}
    Fees = {0, 1}
    Prizes = {0, 1}
    Scores = {0, 1}
    Nobody = nobody
    Opening <- MCOpening
    Earlier = earlier
    MaxRequests = 6
    MaxOverlap = 2
CHECK_DEADLOCK FALSE
INVARIANT FundsTypeOK
INVARIANT TournamentMoney
PROPERTY PaymentsKeepPromise
