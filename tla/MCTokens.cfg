SPECIFICATION Spec
CONSTANTS
    u1 = u1
    u2 = u2
    u3 = u3
    s1 = s1
    s2 = s2
    c1 = c1
    c2 = c2
    c3 = c3
    t1 = t1
    x1 = x1
    a1 = a1
    NoUser = NoUser
    Users <- MCUsers
    Referrer <- MCReferrer
    Start <- MCStart
    Sessions <- BonusSessions
    By <- BonusBy
    Kind <- BonusKind
    JoinBonus = 50
    InviteBonus = 40
    CheckinBonus = 10
    Reward <- MCReward
    Rankings <- BonusRankings
    FirstDay = 6
    LastDay = 6
    Transfers <- MCTransfers
    From <- MCFrom
    To <- MCTo
    Sum <- MCSum
    FeePercents <- MCFeePercents
    MaxPresses = 2
    Deposits <- MCDeposits
    Depositor <- MCDepositor
    TokenAmount <- MCTokenAmount
    Adjustments <- MCAdjustments
    Adjusted <- MCAdjusted
    Adjustment <- MCAdjustment
SYMMETRY Alike
CHECK_DEADLOCK FALSE
INVARIANT TokensTypeOK
INVARIANT NoDebt
INVARIANT FlagsMatchBonuses
INVARIANT MovesBalance
INVARIANT LockedBalanceMatchesRows
PROPERTY PaidAgainOnlyWhenOverlapping
