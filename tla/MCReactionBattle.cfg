SPECIFICATION FairSpec
CONSTANTS
    u1 = u1
    u2 = u2
    u3 = u3
    g1 = g1
    g2 = g2
    NoUser = NoUser
    Users <- MCUsers
    Games <- MCGames
    Creator <- MCCreator
    Entry <- MCEntry
    Start <- MCStart
    MaxAborts = 1
CHECK_DEADLOCK FALSE
INVARIANT BattleTypeOK
INVARIANT PotAccounted
INVARIANT WinnerReacted
INVARIANT HolderHasTheGame
INVARIANT TokensMatchRows
PROPERTY GameMovesForward
PROPERTY GameEnds
