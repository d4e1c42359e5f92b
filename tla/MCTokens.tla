------------------------------ MODULE MCTokens ------------------------------
(* Instances of Tokens for TLC: u1 invited u2, u3 only sends and receives. *)
EXTENDS Tokens, TLC

CONSTANTS u1, u2, u3, s1, s2, c1, c2, c3, t1, x1, a1

MCUsers == {u1, u2, u3}
MCReferrer == u1 :> NoUser @@ u2 :> u1 @@ u3 :> NoUser
MCStart == u1 :> 20 @@ u2 :> 0 @@ u3 :> 11
MCReward == <<30, 20, 0>>

\* Bonuses: u2 presses /start twice, u1 checks in, u3 sends tokens to u1.
BonusSessions == {s1, s2, c1}
BonusBy == s1 :> u2 @@ s2 :> u2 @@ c1 :> u1
BonusKind == s1 :> "start" @@ s2 :> "start" @@ c1 :> "checkin"
BonusRankings == {}
MCTransfers == {t1}
MCFrom == t1 :> u3
MCTo == t1 :> u1
MCSum == t1 :> 5
MCFeePercents == {0, 20}
MCDeposits == {x1}
MCDepositor == x1 :> u3
MCTokenAmount == x1 :> 7
MCAdjustments == {a1}
MCAdjusted == a1 :> u1
MCAdjustment == a1 :> -20

\* Days: u1 checks in up to three times, and weeks end.
DailySessions == {c1, c2, c3}
DailyBy == c1 :> u1 @@ c2 :> u1 @@ c3 :> u1
DailyKind == c1 :> "checkin" @@ c2 :> "checkin" @@ c3 :> "checkin"
DailyRankings == {<<>>, <<u1>>, <<u2, u1>>}
None == {}
Empty == [x \in {} |-> 0]

\* The sessions of one user are alike.
Alike == Permutations({s1, s2}) \cup Permutations({c1, c2, c3})
=============================================================================
