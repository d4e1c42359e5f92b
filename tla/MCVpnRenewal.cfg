SPECIFICATION FairSpec
CONSTANTS
    u1 = u1
    s1 = s1
    r1 = r1
    r2 = r2
    d1 = d1
    q1 = q1
    Users = {u1}
    Services = {s1}
    Accounts = {s1}
    Renewals = {r1, r2}
    TopUps = {d1}
    Refs = {r1, r2, d1}
    Panels = {q1}
    MaxAttempts = 2
    Owner <- MCOwner
    PanelOf <- MCPanelOf
    FirstExpire <- MCFirstExpire
    ServiceOf <- MCServiceOf
    Via <- MCVia
    Price <- MCPrice
    Days <- MCDays
    HasLimit = {s1}
    Credited <- MCCredited
    Sum <- MCSum
    LastDay = 4
    MaxAborts = 1
CHECK_DEADLOCK FALSE
INVARIANT RenewalTypeOK
INVARIANT PaidOrRefunded
INVARIANT PaidDaysKept
PROPERTY RenewalEnds
