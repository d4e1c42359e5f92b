SPECIFICATION Spec
CONSTANTS
    u1 = u1
    u2 = u2
    u3 = u3
    s1 = s1
    s2 = s2
    c1 = c1
    c2 = c2
    c3 = c3
    t1 = t1
    x1 = x1
    a1 = a1
    NoUser = NoUser
    Users <- MCUsers
    Referrer <- MCReferrer
    Start <- MCStart
    Sessions <- DailySessions
    By <- DailyBy
    Kind <- DailyKind
    JoinBonus = 50
    InviteBonus = 40
    CheckinBonus = 10
    Reward <- MCReward
    Rankings <- DailyRankings
    FirstDay = 6
    LastDay = 8
    Transfers <- None
    From <- Empty
    To <- Empty
    Sum <- Empty
    FeePercents <- MCFeePercents
    MaxPresses = 1
    Deposits <- None
    Depositor <- Empty
    TokenAmount <- Empty
    Adjustments <- None
    Adjusted <- Empty
    Adjustment <- Empty
SYMMETRY Alike
CHECK_DEADLOCK FALSE
 
INVARIANT WeekPaidOnce
