SPECIFICATION FairSpec
CONSTANTS
    o1 = o1
    o2 = o2
    q1 = q1
    q2 = q2
    a1 = a1
    none = none
    Orders = {o1, o2}
    Panels = {q1, q2}
    Accounts = {a1}
    NoPanel = none
    MaxAttempts = 3
    MaxAborts = 1
    Name <- MCName
    Priority <- MCPriority
CHECK_DEADLOCK FALSE
INVARIANT DeliveryTypeOK
INVARIANT ServiceHasOwnAccount
INVARIANT OrphanOnlyAfterDoubt
PROPERTY DeliveryEnds
