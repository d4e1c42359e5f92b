---------------------------- MODULE TokensProofs ----------------------------
(***************************************************************************)
(* Proofs about Tokens, for every set of users, sessions, transfers,       *)
(* deposits and adjustments, any amounts, leaderboards and range of days.  *)
(***************************************************************************)
EXTENDS Tokens, RowProofs

\* Nobody owes tokens, and no balance a session or the payout remembers is negative.
BalancesOK ==
    /\ NoDebt
    /\ \A s \in Sessions : held[s].tokens >= 0 /\ award[s].seen >= 0
    /\ \A i \in DOMAIN payout.seen : payout.seen[i] >= 0

\* What a session has decided to pay was due by the flags it holds.
AwardOK(s) ==
    /\ award[s].join => /\ pc[s] = "awarding"
                        /\ JoinBonus > 0
                        /\ ~ held[s].claimed
    /\ award[s].invite => /\ pc[s] = "awarding"
                          /\ InviteBonus > 0
                          /\ ~ held[s].invited
                          /\ Referrer[By[s]] # NoUser
    /\ pc[s] = "awarding" => Kind[s] = "start"

\* The payout has read at most as many winners as there are, and pays a week later than
\* the last one that was paid.
PayoutOK ==
    /\ Len(payout.seen) <= Len(payout.top)
    /\ payout.on => payout.week \in Weeks /\ paidWeek < payout.week /\ payout.week <= Week(day)
    /\ day \in Days
    /\ paidWeek <= Week(day)

ControlOK == PayoutOK /\ \A s \in Sessions : AwardOK(s)

FlagsOK ==
    /\ FlagsMatchBonuses
    /\ \A u \in Users :
          /\ rows[Ref("join", u, 0)][u] >= 0
          /\ \A r \in Users : rows[Ref("invite", u, 0)][r] >= 0

\* The days of a streak have their rows.
Earned(u, c) ==
    /\ c.streak >= 0
    /\ \A d \in (c.last - c.streak + 1)..c.last :
          d \in Days /\ rows[Ref("checkin", u, d)][u] > 0

StreaksOK ==
    /\ \A u \in Users : \A d \in Days : rows[Ref("checkin", u, d)][u] >= 0
    /\ CheckinBonus > 0 =>
          /\ \A u \in Users : Earned(u, checkin[u])
          /\ \A s \in Sessions :
                pc[s] \in {"loaded", "claiming"} => Earned(By[s], held[s].checkin)

TokensInv ==
    /\ TokensTypeOK
    /\ BalancesOK
    /\ ControlOK
    /\ FlagsOK
    /\ MovesBalance
    /\ StreaksOK
    /\ WeekPaidOnce

-----------------------------------------------------------------------------
(* References.                                                             *)

LEMMA RefFields ==
    ASSUME NEW k, NEW o, NEW w
    PROVE  Ref(k, o, w).kind = k /\ Ref(k, o, w).of = o /\ Ref(k, o, w).when = w
BY DEF Ref

LEMMA RefsHave ==
    /\ \A u \in Users : Ref("join", u, 0) \in Refs /\ Ref("invite", u, 0) \in Refs
    /\ \A u \in Users : \A d \in Days : Ref("checkin", u, d) \in Refs
    /\ \A u \in Users : \A w \in Weeks : Ref("weekly", u, w) \in Refs
    /\ \A t \in Transfers : Ref("transfer", t, 0) \in Refs
    /\ \A x \in Deposits : Ref("deposit", x, 0) \in Refs
    /\ \A a \in Adjustments : Ref("admin", a, 0) \in Refs
BY DEF Refs

\* The rows that refer to something of one of these kinds stay as they are.
SameRows(kinds) == \A r \in Refs : r.kind \in kinds => rows'[r] = rows[r]

\* A posting changes the balance of one user and the rows of one reference.
LEMMA RecordEffect ==
    ASSUME tokens \in [Users -> Int], rows \in [Refs -> [Users -> Int]],
           NEW u \in Users, NEW seen \in Int, NEW amount \in Int, NEW ref \in Refs,
           Record(u, seen, amount, ref)
    PROVE  /\ tokens' \in [Users -> Int] /\ rows' \in [Refs -> [Users -> Int]]
           /\ tokens'[u] = seen + amount
           /\ \A v \in Users \ {u} : tokens'[v] = tokens[v] /\ rows'[ref][v] = rows[ref][v]
           /\ rows'[ref][u] = rows[ref][u] + amount
           /\ \A r \in Refs \ {ref} : rows'[r] = rows[r]
BY DEF Record

-----------------------------------------------------------------------------
(* What is left alone by the steps of the others.                          *)

LEMMA FlagsKept ==
    ASSUME FlagsOK, claimed' = claimed, invited' = invited, SameRows({"join", "invite"})
    PROVE  FlagsOK'
<1>1. \A u \in Users : /\ rows'[Ref("join", u, 0)] = rows[Ref("join", u, 0)]
                       /\ rows'[Ref("invite", u, 0)] = rows[Ref("invite", u, 0)]
  BY RefFields, RefsHave DEF SameRows
<1> QED
  BY <1>1 DEF FlagsOK, FlagsMatchBonuses, Ref

LEMMA MovesKept ==
    ASSUME MovesBalance, pressed' = pressed, request' = request,
           SameRows({"transfer", "deposit"})
    PROVE  MovesBalance'
<1>1. /\ \A t \in Transfers : rows'[Ref("transfer", t, 0)] = rows[Ref("transfer", t, 0)]
      /\ \A x \in Deposits : rows'[Ref("deposit", x, 0)] = rows[Ref("deposit", x, 0)]
  BY RefFields, RefsHave DEF SameRows
<1> QED
  BY <1>1 DEF MovesBalance, Ref

LEMMA WeeksKept ==
    ASSUME WeekPaidOnce, paidWeek' = paidWeek, SameRows({"weekly"})
    PROVE  WeekPaidOnce'
<1>1. \A u \in Users : \A w \in Weeks :
         rows'[Ref("weekly", u, w)] = rows[Ref("weekly", u, w)]
  BY RefFields, RefsHave DEF SameRows
<1> QED
  BY <1>1 DEF WeekPaidOnce, Ref

LEMMA StreaksKept ==
    ASSUME StreaksOK, checkin' = checkin, SameRows({"checkin"}),
           \A s \in Sessions : pc'[s] \in {"loaded", "claiming"} =>
              \/ pc[s] \in {"loaded", "claiming"} /\ held'[s].checkin = held[s].checkin
              \/ held'[s].checkin = checkin[By[s]]
    PROVE  StreaksOK'
<1>1. \A u \in Users : \A d \in Days :
         rows'[Ref("checkin", u, d)] = rows[Ref("checkin", u, d)]
  BY RefFields, RefsHave DEF SameRows
<1>2. ASSUME CheckinBonus > 0, NEW u \in Users
      PROVE  Earned(u, checkin[u])'
  BY <1>1, <1>2 DEF StreaksOK, Earned, Ref
<1>3. ASSUME CheckinBonus > 0, NEW s \in Sessions, pc'[s] \in {"loaded", "claiming"}
      PROVE  Earned(By[s], held[s].checkin)'
  <2>1. By[s] \in Users
    BY TokensAssumption
  <2>2. CASE pc[s] \in {"loaded", "claiming"} /\ held'[s].checkin = held[s].checkin
    BY <1>1, <1>3, <2>1, <2>2 DEF StreaksOK, Earned, Ref
  <2>3. CASE held'[s].checkin = checkin[By[s]]
    BY <1>1, <1>3, <2>1, <2>3 DEF StreaksOK, Earned, Ref
  <2> QED
    BY <1>3, <2>2, <2>3
<1>4. \A u \in Users : \A d \in Days : rows'[Ref("checkin", u, d)][u] >= 0
  BY <1>1 DEF StreaksOK
<1> QED
  BY <1>2, <1>3, <1>4 DEF StreaksOK, Ref

LEMMA ControlKept ==
    ASSUME ControlOK, UNCHANGED <<sessionVars, payout, paidWeek, day>>
    PROVE  ControlOK'
BY DEF ControlOK, PayoutOK, AwardOK, sessionVars

\* The steps of TokenService that no session and no payout takes.
LEMMA ServiceStepKeeps ==
    ASSUME TokensInv,
           UNCHANGED <<flagVars, paidWeek, day, sessionVars, payout>>,
           SameRows({"join", "invite", "checkin", "weekly"})
    PROVE  ControlOK' /\ FlagsOK' /\ StreaksOK' /\ WeekPaidOnce'
<1>1. /\ SameRows({"join", "invite"}) /\ SameRows({"checkin"}) /\ SameRows({"weekly"})
  BY DEF SameRows
<1>2. /\ claimed' = claimed /\ invited' = invited /\ checkin' = checkin
      /\ pc' = pc /\ held' = held
  BY DEF flagVars, sessionVars
<1> QED
  BY <1>1, <1>2, ControlKept, FlagsKept, StreaksKept, WeeksKept DEF TokensInv

-----------------------------------------------------------------------------
(* The steps of TokenService.                                              *)

LEMMA FeeBounds ==
    ASSUME NEW a \in Nat, NEW percent \in 0..100
    PROVE  TransferFee(a, percent) \in Nat /\ TransferFee(a, percent) <= a
<1> DEFINE x == a * percent
<1>1. x \in Nat /\ x <= 100 * a
  <2>1. a * percent \in Nat
    OBVIOUS
  <2>2. a * percent <= a * 100
    <3>1. PICK k \in Nat : 100 = percent + k
      <4>1. 100 - percent \in Nat /\ 100 = percent + (100 - percent)
        OBVIOUS
      <4> QED
        BY <4>1
    <3>2. a * (percent + k) = a * percent + a * k /\ a * k \in Nat
      OBVIOUS
    <3> QED
      BY <2>1, <3>1, <3>2
  <2> QED
    BY <2>1, <2>2
<1>2. x \div 100 \in Nat /\ x \div 100 <= a
  <2> HIDE DEF x
  <2> QED
    BY <1>1
<1> QED
  BY <1>2 DEF TransferFee

LEMMA PressAdd ==
    \A n \in Nat : \A a \in Nat :
       /\ (n + 1) * a = n * a + a /\ n * a \in Nat
       /\ -2 * (n + 1) * a = -2 * n * a - 2 * a
       /\ -(n + 1) * a = -n * a - a
OBVIOUS

\* One more press: the recipient has the sum once more, and the sender has paid it with a
\* fee of at most as much.
LEMMA TransferStep ==
    ASSUME TokensInv,
           NEW t \in Transfers, NEW percent \in FeePercents, Transfer(t, percent)
    PROVE  TokensInv'
<1> DEFINE from == From[t]
           to == To[t]
           sum == Sum[t]
           fee == TransferFee(sum, percent)
           ref == Ref("transfer", t, 0)
<1>1. /\ UNCHANGED <<flagVars, paidWeek, day, request, applied, sessionVars, payout, lock>>
      /\ tokens[from] >= sum + fee
      /\ tokens' = [tokens EXCEPT ![from] = @ - sum - fee, ![to] = @ + sum]
      /\ rows' = [rows EXCEPT ![ref][from] = @ - sum - fee, ![ref][to] = @ + sum]
      /\ pressed' = [pressed EXCEPT ![t] = @ + 1]
  BY DEF Transfer
<1>2. /\ from \in Users /\ to \in Users /\ from # to /\ sum \in Nat
      /\ fee \in Nat /\ fee <= sum
  <2>1. from \in Users /\ to \in Users /\ from # to /\ sum \in Nat /\ percent \in 0..100
    BY TokensAssumption
  <2> QED
    BY <2>1, FeeBounds
<1>3. /\ tokens \in [Users -> Int] /\ rows \in [Refs -> [Users -> Int]]
      /\ pressed \in [Transfers -> Nat] /\ ref \in Refs
  BY RefsHave DEF TokensInv, TokensTypeOK
<1> HIDE DEF fee, from, to, sum, ref
<1>4. /\ tokens' \in [Users -> Int]
      /\ tokens'[from] = tokens[from] - sum - fee /\ tokens'[to] = tokens[to] + sum
      /\ \A u \in Users \ {from, to} : tokens'[u] = tokens[u]
  BY <1>1, <1>2, <1>3
<1>5. /\ rows' \in [Refs -> [Users -> Int]]
      /\ \A r \in Refs \ {ref} : rows'[r] = rows[r]
  BY <1>1, <1>2, <1>3
<1>6. /\ rows'[ref][from] = rows[ref][from] - sum - fee /\ rows'[ref][to] = rows[ref][to] + sum
      /\ \A u \in Users \ {from, to} : rows'[ref][u] = rows[ref][u]
      /\ rows[ref][from] \in Int /\ rows[ref][to] \in Int
  BY <1>1, <1>2, <1>3
<1>7. TokensTypeOK'
  <2>1. pressed' \in [Transfers -> Nat]
    BY <1>1, <1>3
  <2> QED
    BY <1>1, <1>4, <1>5, <2>1 DEF TokensInv, TokensTypeOK, flagVars, sessionVars
<1>8. BalancesOK'
  BY <1>1, <1>2, <1>3, <1>4 DEF TokensInv, BalancesOK, NoDebt, sessionVars
<1>9. SameRows({"join", "invite", "checkin", "weekly"})
  BY <1>5, RefFields DEF SameRows, ref
<1>10. MovesBalance'
  <2>1. \A y \in Transfers \ {t} : /\ Ref("transfer", y, 0) \in Refs \ {ref}
                                   /\ pressed'[y] = pressed[y]
    BY <1>1, <1>3, RefFields, RefsHave DEF ref
  <2>2. \A x \in Deposits : Ref("deposit", x, 0) \in Refs \ {ref}
    BY RefFields, RefsHave DEF ref
  <2>3. /\ rows[ref][to] = pressed[t] * sum
        /\ rows[ref][from] \in (-2 * pressed[t] * sum)..(-pressed[t] * sum)
        /\ \A u \in Users \ {from, to} : rows[ref][u] = 0
    BY DEF TokensInv, MovesBalance, from, to, sum, ref
  <2>4. /\ pressed'[t] = pressed[t] + 1 /\ pressed[t] \in Nat
    BY <1>1, <1>3
  <2>5. /\ rows'[ref][to] = pressed'[t] * sum
        /\ rows'[ref][from] \in (-2 * pressed'[t] * sum)..(-pressed'[t] * sum)
        /\ \A u \in Users \ {from, to} : rows'[ref][u] = 0
    <3>1. rows'[ref][to] = (pressed[t] + 1) * sum
      BY <1>2, <1>6, <2>3, <2>4, PressAdd
    <3>2. rows'[ref][from] \in (-2 * (pressed[t] + 1) * sum)..(-(pressed[t] + 1) * sum)
      BY <1>2, <1>6, <2>3, <2>4, PressAdd
    <3> QED
      BY <1>6, <2>3, <2>4, <3>1, <3>2
  <2>6. \A y \in Transfers \ {t} : rows'[Ref("transfer", y, 0)] = rows[Ref("transfer", y, 0)]
    BY <1>5, <2>1
  <2>7. \A x \in Deposits : rows'[Ref("deposit", x, 0)] = rows[Ref("deposit", x, 0)]
    BY <1>5, <2>2
  <2>8. ASSUME NEW y \in Transfers
        PROVE  LET moved == rows'[Ref("transfer", y, 0)]
               IN  /\ moved[To[y]] = pressed'[y] * Sum[y]
                   /\ moved[From[y]] \in (-2 * pressed'[y] * Sum[y])..(-pressed'[y] * Sum[y])
                   /\ \A u \in Users \ {From[y], To[y]} : moved[u] = 0
    <3>1. CASE y = t
      BY <2>5, <3>1 DEF from, to, sum, ref
    <3>2. CASE y # t
      BY <2>1, <2>6, <3>2 DEF TokensInv, MovesBalance
    <3> QED
      BY <3>1, <3>2
  <2>9. \A x \in Deposits : \A u \in Users :
           rows'[Ref("deposit", x, 0)][u] =
              IF request'[x] = "APPROVED" /\ u = Depositor[x] THEN TokenAmount[x] ELSE 0
    <3>1. request' = request
      BY <1>1
    <3> QED
      BY <2>7, <3>1 DEF TokensInv, MovesBalance
  <2> QED
    BY <2>8, <2>9 DEF MovesBalance, Ref
<1> QED
  BY <1>1, <1>7, <1>8, <1>9, <1>10, ServiceStepKeeps DEF TokensInv

LEMMA AdminAdjustStep ==
    ASSUME TokensInv, NEW a \in Adjustments, AdminAdjust(a)
    PROVE  TokensInv'
<1> DEFINE u == Adjusted[a]
           amount == Adjustment[a]
           ref == Ref("admin", a, 0)
<1>1. /\ UNCHANGED <<flagVars, paidWeek, day, pressed, request, sessionVars, payout, lock>>
      /\ tokens[u] + amount >= 0
      /\ Record(u, tokens[u], amount, ref)
      /\ applied' = applied \cup {a}
  BY DEF AdminAdjust
<1>2. u \in Users /\ amount \in Int /\ ref \in Refs
  BY TokensAssumption, RefsHave
<1>3. /\ tokens \in [Users -> Int] /\ rows \in [Refs -> [Users -> Int]] /\ tokens[u] \in Int
  BY <1>2 DEF TokensInv, TokensTypeOK
<1>4. /\ tokens' \in [Users -> Int] /\ rows' \in [Refs -> [Users -> Int]]
      /\ tokens'[u] = tokens[u] + amount
      /\ \A v \in Users \ {u} : tokens'[v] = tokens[v]
      /\ \A r \in Refs \ {ref} : rows'[r] = rows[r]
  BY <1>1, <1>2, <1>3, RecordEffect
<1>5. TokensTypeOK'
  BY <1>1, <1>4 DEF TokensInv, TokensTypeOK, flagVars, sessionVars
<1>6. BalancesOK'
  BY <1>1, <1>4 DEF TokensInv, BalancesOK, NoDebt, sessionVars
<1>7. SameRows({"join", "invite", "checkin", "weekly"}) /\ SameRows({"transfer", "deposit"})
  BY <1>4, RefFields DEF SameRows
<1>8. MovesBalance'
  BY <1>1, <1>7, MovesKept DEF TokensInv
<1> QED
  BY <1>1, <1>5, <1>6, <1>7, <1>8, ServiceStepKeeps DEF TokensInv

\* A request is credited in the step that approves it, and its rows say so.
LEMMA ApproveStep ==
    ASSUME TokensInv, NEW x \in Deposits, ApproveTokens(x)
    PROVE  TokensInv'
<1> DEFINE u == Depositor[x]
           amount == TokenAmount[x]
           ref == Ref("deposit", x, 0)
<1>1. /\ UNCHANGED <<flagVars, paidWeek, day, pressed, applied, sessionVars, payout, lock>>
      /\ request[x] = "PENDING" /\ request' = [request EXCEPT ![x] = "APPROVED"]
      /\ Record(u, tokens[u], amount, ref)
  BY DEF ApproveTokens
<1>2. u \in Users /\ amount \in Nat \ {0} /\ amount \in Int /\ ref \in Refs
  BY TokensAssumption, RefsHave
<1>3. /\ tokens \in [Users -> Int] /\ rows \in [Refs -> [Users -> Int]] /\ tokens[u] \in Int
  BY <1>2 DEF TokensInv, TokensTypeOK
<1>4. /\ tokens' \in [Users -> Int] /\ rows' \in [Refs -> [Users -> Int]]
      /\ tokens'[u] = tokens[u] + amount
      /\ \A v \in Users \ {u} : tokens'[v] = tokens[v] /\ rows'[ref][v] = rows[ref][v]
      /\ rows'[ref][u] = rows[ref][u] + amount
      /\ \A r \in Refs \ {ref} : rows'[r] = rows[r]
  BY <1>1, <1>2, <1>3, RecordEffect
<1>5. /\ request' \in [Deposits -> {"PENDING", "APPROVED", "REJECTED"}]
      /\ request'[x] = "APPROVED" /\ \A y \in Deposits \ {x} : request'[y] = request[y]
  BY <1>1 DEF TokensInv, TokensTypeOK
<1>6. TokensTypeOK'
  BY <1>1, <1>4, <1>5 DEF TokensInv, TokensTypeOK, flagVars, sessionVars
<1>7. BalancesOK'
  BY <1>1, <1>2, <1>3, <1>4 DEF TokensInv, BalancesOK, NoDebt, sessionVars
<1>8. SameRows({"join", "invite", "checkin", "weekly"})
  BY <1>4, RefFields DEF SameRows
<1>9. MovesBalance'
  <2>1. \A t \in Transfers : rows'[Ref("transfer", t, 0)] = rows[Ref("transfer", t, 0)]
    BY <1>4, RefFields, RefsHave
  <2>2. \A y \in Deposits \ {x} : rows'[Ref("deposit", y, 0)] = rows[Ref("deposit", y, 0)]
    BY <1>4, RefFields, RefsHave
  <2>3. \A v \in Users : rows[ref][v] = 0
    BY <1>1 DEF TokensInv, MovesBalance
  <2>4. \A v \in Users : rows'[ref][v] = IF v = u THEN amount ELSE 0
    BY <1>2, <1>4, <2>3
  <2>5. \A y \in Deposits : \A v \in Users :
           rows'[Ref("deposit", y, 0)][v] =
              IF request'[y] = "APPROVED" /\ v = Depositor[y] THEN TokenAmount[y] ELSE 0
    <3>1. ASSUME NEW y \in Deposits \ {x}, NEW v \in Users
          PROVE  rows'[Ref("deposit", y, 0)][v] =
                    IF request'[y] = "APPROVED" /\ v = Depositor[y] THEN TokenAmount[y] ELSE 0
      BY <1>5, <2>2 DEF TokensInv, MovesBalance
    <3> QED
      BY <1>5, <2>4, <3>1
  <2>6. \A t \in Transfers :
           LET moved == rows'[Ref("transfer", t, 0)]
           IN  /\ moved[To[t]] = pressed'[t] * Sum[t]
               /\ moved[From[t]] \in (-2 * pressed'[t] * Sum[t])..(-pressed'[t] * Sum[t])
               /\ \A v \in Users \ {From[t], To[t]} : moved[v] = 0
    BY <1>1, <2>1 DEF TokensInv, MovesBalance
  <2> QED
    BY <2>5, <2>6 DEF MovesBalance, Ref
<1> QED
  BY <1>1, <1>6, <1>7, <1>8, <1>9, ServiceStepKeeps DEF TokensInv

LEMMA RejectStep ==
    ASSUME TokensInv, NEW x \in Deposits, RejectTokens(x)
    PROVE  TokensInv'
<1>1. /\ UNCHANGED <<moneyVars, flagVars, paidWeek, day, pressed, applied, sessionVars, payout,
                     lock>>
      /\ request[x] = "PENDING" /\ request' = [request EXCEPT ![x] = "REJECTED"]
  BY DEF RejectTokens
<1>2. /\ request' \in [Deposits -> {"PENDING", "APPROVED", "REJECTED"}]
      /\ \A y \in Deposits : request'[y] = "APPROVED" <=> request[y] = "APPROVED"
      /\ tokens' = tokens /\ rows' = rows
  BY <1>1 DEF TokensInv, TokensTypeOK, moneyVars
<1>3. TokensTypeOK'
  BY <1>1, <1>2 DEF TokensInv, TokensTypeOK, flagVars, sessionVars
<1>4. BalancesOK'
  BY <1>1, <1>2 DEF TokensInv, BalancesOK, NoDebt, sessionVars
<1>5. SameRows({"join", "invite", "checkin", "weekly"})
  BY <1>2 DEF SameRows
<1>6. MovesBalance'
  BY <1>1, <1>2 DEF TokensInv, MovesBalance, Ref
<1> QED
  BY <1>1, <1>3, <1>4, <1>5, <1>6, ServiceStepKeeps DEF TokensInv

-----------------------------------------------------------------------------
(* The steps of a session.                                                 *)

LEMMA SessionTyped ==
    ASSUME TokensInv, NEW s \in Sessions
    PROVE  /\ By[s] \in Users
           /\ Referrer[By[s]] # NoUser => Referrer[By[s]] \in Users
           /\ Referrer[By[s]] # By[s]
           /\ held[s].tokens \in Nat /\ award[s].seen \in Nat
           /\ held[s].claimed \in BOOLEAN /\ held[s].invited \in BOOLEAN
           /\ award[s].join \in BOOLEAN /\ award[s].invite \in BOOLEAN
           /\ held[s].checkin \in [last : Int, streak : Int]
           /\ today[s] \in Days
           /\ JoinBonus \in Nat /\ InviteBonus \in Nat /\ CheckinBonus \in Nat
<1>1. /\ By[s] \in Users
      /\ Referrer[By[s]] # NoUser => Referrer[By[s]] \in Users
      /\ Referrer[By[s]] # By[s]
      /\ JoinBonus \in Nat /\ InviteBonus \in Nat /\ CheckinBonus \in Nat
  BY TokensAssumption
<1>2. /\ held \in [Sessions -> [tokens : Int, claimed : BOOLEAN, invited : BOOLEAN,
                               checkin : [last : Int, streak : Int]]]
      /\ award \in [Sessions -> [join : BOOLEAN, invite : BOOLEAN, seen : Int]]
      /\ held[s].tokens >= 0 /\ award[s].seen >= 0
  BY DEF TokensInv, TokensTypeOK, BalancesOK
<1>3. today[s] \in Days
  BY DEF TokensInv, TokensTypeOK
<1>4. /\ held[s].tokens \in Int /\ award[s].seen \in Int
      /\ held[s].checkin \in [last : Int, streak : Int]
  BY <1>2
<1>5. /\ held[s].claimed \in BOOLEAN /\ held[s].invited \in BOOLEAN
      /\ award[s].join \in BOOLEAN /\ award[s].invite \in BOOLEAN
  BY <1>2
<1> QED
  BY <1>1, <1>2, <1>3, <1>4, <1>5

LEMMA UserTyped ==
    ASSUME TokensInv, NEW u \in Users
    PROVE  /\ tokens[u] \in Nat /\ claimed[u] \in BOOLEAN /\ invited[u] \in BOOLEAN
           /\ checkin[u] \in [last : Int, streak : Int]
<1>1. tokens \in [Users -> Int] /\ tokens[u] >= 0
  BY DEF TokensInv, TokensTypeOK, BalancesOK, NoDebt
<1>2. tokens[u] \in Nat
  BY <1>1
<1>3. /\ claimed \in [Users -> BOOLEAN] /\ invited \in [Users -> BOOLEAN]
      /\ checkin \in [Users -> [last : Int, streak : Int]]
  BY DEF TokensInv, TokensTypeOK
<1> QED
  BY <1>2, <1>3

\* What a step of a session keeps that changes neither rows nor flags.
LEMMA SilentStepKeeps ==
    ASSUME TokensInv, UNCHANGED <<moneyVars, flagVars, pressed, request, paidWeek>>,
           \A s \in Sessions : pc'[s] \in {"loaded", "claiming"} =>
              \/ pc[s] \in {"loaded", "claiming"} /\ held'[s].checkin = held[s].checkin
              \/ held'[s].checkin = checkin[By[s]]
    PROVE  FlagsOK' /\ MovesBalance' /\ StreaksOK' /\ WeekPaidOnce' /\ NoDebt'
<1>1. /\ SameRows({"join", "invite"}) /\ SameRows({"transfer", "deposit"})
      /\ SameRows({"checkin"}) /\ SameRows({"weekly"})
      /\ tokens' = tokens
  BY DEF SameRows, moneyVars
<1>2. /\ claimed' = claimed /\ invited' = invited /\ checkin' = checkin
      /\ pressed' = pressed /\ request' = request
  BY DEF flagVars
<1> QED
  BY <1>1, <1>2, FlagsKept, MovesKept, StreaksKept, WeeksKept
     DEF TokensInv, BalancesOK, NoDebt

LEMMA LoadStep ==
    ASSUME TokensInv, NEW s \in Sessions, Load(s)
    PROVE  TokensInv'
<1> DEFINE u == By[s]
           object == [tokens |-> tokens[u], claimed |-> claimed[u],
                      invited |-> invited[u], checkin |-> checkin[u]]
<1>1. /\ UNCHANGED <<moneyVars, flagVars, paidWeek, day, adminVars, award, today, payout, lock>>
      /\ pc[s] = "idle" /\ pc' = [pc EXCEPT ![s] = "loaded"]
      /\ held' = [held EXCEPT ![s] = object]
  BY DEF Load
<1>2. /\ object.tokens \in Nat /\ object.claimed \in BOOLEAN /\ object.invited \in BOOLEAN
      /\ object.checkin = checkin[u] /\ object.checkin \in [last : Int, streak : Int]
      /\ object \in [tokens : Int, claimed : BOOLEAN, invited : BOOLEAN,
                     checkin : [last : Int, streak : Int]]
  <2>1. /\ tokens[u] \in Nat /\ claimed[u] \in BOOLEAN /\ invited[u] \in BOOLEAN
        /\ checkin[u] \in [last : Int, streak : Int]
    BY SessionTyped, UserTyped
  <2> QED
    BY <2>1
<1> HIDE DEF object
<1>3. /\ pc' \in [Sessions -> {"idle", "loaded", "claiming", "awarding", "done"}]
      /\ pc'[s] = "loaded" /\ held'[s] = object
      /\ \A x \in Sessions \ {s} : pc'[x] = pc[x] /\ held'[x] = held[x]
      /\ held' \in [Sessions -> [tokens : Int, claimed : BOOLEAN, invited : BOOLEAN,
                                 checkin : [last : Int, streak : Int]]]
  BY <1>1, <1>2 DEF TokensInv, TokensTypeOK
<1>4. TokensTypeOK'
  BY <1>1, <1>3 DEF TokensInv, TokensTypeOK, moneyVars, flagVars, adminVars
<1>5. FlagsOK' /\ MovesBalance' /\ StreaksOK' /\ WeekPaidOnce' /\ NoDebt'
  BY <1>1, <1>2, <1>3, SilentStepKeeps DEF adminVars
<1>6. BalancesOK'
  BY <1>1, <1>2, <1>3, <1>5 DEF TokensInv, BalancesOK
<1>7. ControlOK'
  <2>1. ~ award[s].join /\ ~ award[s].invite
    BY <1>1, SessionTyped DEF TokensInv, ControlOK, AwardOK
  <2>2. AwardOK(s)'
    BY <1>1, <1>3, <2>1 DEF AwardOK
  <2>3. \A x \in Sessions \ {s} : AwardOK(x)'
    BY <1>1, <1>3 DEF TokensInv, ControlOK, AwardOK
  <2>4. PayoutOK'
    BY <1>1 DEF TokensInv, ControlOK, PayoutOK
  <2> QED
    BY <2>2, <2>3, <2>4 DEF ControlOK
<1> QED
  BY <1>4, <1>5, <1>6, <1>7 DEF TokensInv

\* A session that closes holds nothing and pays nothing.
LEMMA CloseEffect ==
    ASSUME TokensInv, NEW s \in Sessions, Close(s)
    PROVE  /\ pc' \in [Sessions -> {"idle", "loaded", "claiming", "awarding", "done"}]
           /\ held' \in [Sessions -> [tokens : Int, claimed : BOOLEAN, invited : BOOLEAN,
                                      checkin : [last : Int, streak : Int]]]
           /\ award' \in [Sessions -> [join : BOOLEAN, invite : BOOLEAN, seen : Int]]
           /\ today' \in [Sessions -> Days]
           /\ \A x \in Sessions : pc'[x] \in {"loaded", "claiming"} =>
                 pc[x] \in {"loaded", "claiming"} /\ held'[x].checkin = held[x].checkin
           /\ \A x \in Sessions : AwardOK(x)'
           /\ \A x \in Sessions : held'[x].tokens >= 0 /\ award'[x].seen >= 0
<1>1. /\ NoneHeld.tokens = 0 /\ Nothing.seen = 0 /\ Nothing.join = FALSE
      /\ Nothing.invite = FALSE
      /\ NoneHeld \in [tokens : Int, claimed : BOOLEAN, invited : BOOLEAN,
                       checkin : [last : Int, streak : Int]]
      /\ Nothing \in [join : BOOLEAN, invite : BOOLEAN, seen : Int]
  BY TokensAssumption DEF NoneHeld, Nothing, Never
<1>2. /\ pc' = [pc EXCEPT ![s] = "done"]
      /\ held' = [held EXCEPT ![s] = NoneHeld]
      /\ award' = [award EXCEPT ![s] = Nothing]
  BY DEF Close
<1>3. /\ pc \in [Sessions -> {"idle", "loaded", "claiming", "awarding", "done"}]
      /\ held \in [Sessions -> [tokens : Int, claimed : BOOLEAN, invited : BOOLEAN,
                                checkin : [last : Int, streak : Int]]]
      /\ award \in [Sessions -> [join : BOOLEAN, invite : BOOLEAN, seen : Int]]
      /\ \A x \in Sessions : held[x].tokens >= 0 /\ award[x].seen >= 0
      /\ \A x \in Sessions : AwardOK(x)
  BY DEF TokensInv, TokensTypeOK, BalancesOK, ControlOK
<1>4. /\ pc'[s] = "done" /\ held'[s] = NoneHeld /\ award'[s] = Nothing
      /\ \A x \in Sessions \ {s} : /\ pc'[x] = pc[x]
                                   /\ held'[x] = held[x]
                                   /\ award'[x] = award[x]
  BY <1>2, <1>3
<1>5. \A x \in Sessions : AwardOK(x)'
  <2>1. AwardOK(s)'
    BY <1>1, <1>4 DEF AwardOK
  <2>2. \A x \in Sessions \ {s} : AwardOK(x)'
    BY <1>3, <1>4 DEF AwardOK
  <2> QED
    BY <2>1, <2>2
<1>6. today' \in [Sessions -> Days]
  <2>1. FirstDay \in Days
    BY TokensAssumption DEF Days
  <2> QED
    BY <2>1 DEF Close, TokensInv, TokensTypeOK
<1> HIDE DEF NoneHeld, Nothing
<1> QED
  BY <1>1, <1>2, <1>3, <1>4, <1>5, <1>6

LEMMA LeaveStep ==
    ASSUME TokensInv, NEW s \in Sessions, Leave(s)
    PROVE  TokensInv'
<1>1. /\ UNCHANGED <<moneyVars, flagVars, paidWeek, day, adminVars, payout>>
      /\ Close(s)
      /\ lock' = [u \in Users |-> IF lock[u] = s THEN "free" ELSE lock[u]]
  BY DEF Leave
<1>2. /\ pc' \in [Sessions -> {"idle", "loaded", "claiming", "awarding", "done"}]
      /\ held' \in [Sessions -> [tokens : Int, claimed : BOOLEAN, invited : BOOLEAN,
                                 checkin : [last : Int, streak : Int]]]
      /\ award' \in [Sessions -> [join : BOOLEAN, invite : BOOLEAN, seen : Int]]
      /\ today' \in [Sessions -> Days]
      /\ \A x \in Sessions : pc'[x] \in {"loaded", "claiming"} =>
            pc[x] \in {"loaded", "claiming"} /\ held'[x].checkin = held[x].checkin
      /\ \A x \in Sessions : AwardOK(x)'
      /\ \A x \in Sessions : held'[x].tokens >= 0 /\ award'[x].seen >= 0
  BY <1>1, CloseEffect
<1>3. lock' \in [Users -> Sessions \cup {"free", "scheduler"}]
  BY <1>1 DEF TokensInv, TokensTypeOK
<1>4. TokensTypeOK'
  BY <1>1, <1>2, <1>3 DEF TokensInv, TokensTypeOK, moneyVars, flagVars, adminVars
<1>5. FlagsOK' /\ MovesBalance' /\ StreaksOK' /\ WeekPaidOnce' /\ NoDebt'
  BY <1>1, <1>2, SilentStepKeeps DEF adminVars
<1>6. BalancesOK'
  BY <1>1, <1>2, <1>5 DEF TokensInv, BalancesOK
<1>7. ControlOK'
  BY <1>1, <1>2 DEF TokensInv, ControlOK, PayoutOK
<1> QED
  BY <1>4, <1>5, <1>6, <1>7 DEF TokensInv

\* What is going to be paid is due by the flags of the held object.
LEMMA BeginAwardStep ==
    ASSUME TokensInv, NEW s \in Sessions, NEW joinOn \in BOOLEAN, NEW inviteOn \in BOOLEAN,
           BeginAward(s, joinOn, inviteOn)
    PROVE  TokensInv'
<1> DEFINE u == By[s]
           r == Referrer[u]
           join == ~ held[s].claimed /\ joinOn /\ JoinBonus > 0
           invite == r # NoUser /\ ~ held[s].invited /\ inviteOn /\ InviteBonus > 0
           decided == [join |-> join, invite |-> invite,
                       seen |-> IF invite THEN tokens[r] ELSE 0]
<1>1. /\ UNCHANGED <<moneyVars, flagVars, paidWeek, day, adminVars, held, today, payout>>
      /\ pc[s] = "loaded" /\ Kind[s] = "start" /\ pc' = [pc EXCEPT ![s] = "awarding"]
      /\ lock' = IF join THEN [lock EXCEPT ![u] = s] ELSE lock
      /\ award' = [award EXCEPT ![s] = decided]
  BY DEF BeginAward
<1>2. /\ join \in BOOLEAN /\ invite \in BOOLEAN
      /\ join => JoinBonus > 0 /\ ~ held[s].claimed
      /\ invite => InviteBonus > 0 /\ ~ held[s].invited /\ r # NoUser
      /\ (IF invite THEN tokens[r] ELSE 0) \in Nat
  <2>1. invite => tokens[r] \in Nat
    BY SessionTyped, UserTyped
  <2> QED
    BY <2>1
<1> HIDE DEF join, invite
<1>3. /\ decided \in [join : BOOLEAN, invite : BOOLEAN, seen : Int]
      /\ decided.join = join /\ decided.invite = invite /\ decided.seen >= 0
  <2>1. decided.seen \in Nat
    BY <1>2
  <2> QED
    BY <1>2, <2>1
<1> HIDE DEF decided
<1>4. /\ pc' \in [Sessions -> {"idle", "loaded", "claiming", "awarding", "done"}]
      /\ award' \in [Sessions -> [join : BOOLEAN, invite : BOOLEAN, seen : Int]]
      /\ pc'[s] = "awarding" /\ award'[s] = decided
      /\ \A x \in Sessions \ {s} : pc'[x] = pc[x] /\ award'[x] = award[x]
  BY <1>1, <1>3 DEF TokensInv, TokensTypeOK
<1>5. lock' \in [Users -> Sessions \cup {"free", "scheduler"}]
  BY <1>1 DEF TokensInv, TokensTypeOK
<1>6. TokensTypeOK'
  BY <1>1, <1>4, <1>5 DEF TokensInv, TokensTypeOK, moneyVars, flagVars, adminVars
<1>7. FlagsOK' /\ MovesBalance' /\ StreaksOK' /\ WeekPaidOnce' /\ NoDebt'
  BY <1>1, <1>4, SilentStepKeeps DEF adminVars
<1>8. BalancesOK'
  BY <1>1, <1>3, <1>4, <1>7 DEF TokensInv, BalancesOK
<1>9. ControlOK'
  <2>1. AwardOK(s)'
    BY <1>1, <1>2, <1>3, <1>4 DEF AwardOK
  <2>2. \A x \in Sessions \ {s} : AwardOK(x)'
    BY <1>1, <1>4 DEF TokensInv, ControlOK, AwardOK
  <2>3. PayoutOK'
    BY <1>1 DEF TokensInv, ControlOK, PayoutOK
  <2> QED
    BY <2>1, <2>2, <2>3 DEF ControlOK
<1> QED
  BY <1>6, <1>7, <1>8, <1>9 DEF TokensInv

\* The rows and the flags that an award commits: those of its own user, each with the
\* amount of the bonus it stands for.
LEMMA AwardRows ==
    ASSUME TokensInv, NEW s \in Sessions, CommitAward(s)
    PROVE  LET u    == By[s]
               joins == Ref("join", u, 0)
               invites == Ref("invite", u, 0)
           IN  /\ rows' \in [Refs -> [Users -> Int]]
               /\ \A q \in Refs \ {joins, invites} : rows'[q] = rows[q]
               /\ rows'[joins][u] = rows[joins][u] + (IF award[s].join THEN JoinBonus ELSE 0)
               /\ \A v \in Users \ {u} : rows'[joins][v] = rows[joins][v]
               /\ \A v \in Users :
                     rows'[invites][v] = rows[invites][v]
                        + (IF award[s].invite /\ v = Referrer[u] THEN InviteBonus ELSE 0)
<1> DEFINE u == By[s]
           joins == Ref("join", u, 0)
           invites == Ref("invite", u, 0)
           bonus == IF award[s].join THEN JoinBonus ELSE 0
           pays(v) == IF award[s].invite /\ v = Referrer[u] THEN InviteBonus ELSE 0
           shared == [x \in Users |-> rows[invites][x] + pays(x)]
<1>1. rows' = [rows EXCEPT ![joins][u] = @ + bonus, ![invites] = shared]
  BY DEF CommitAward
<1>2. /\ u \in Users /\ bonus \in Int /\ \A v \in Users : pays(v) \in Int
  BY SessionTyped
<1>3. joins \in Refs /\ invites \in Refs /\ joins # invites
  BY <1>2, RefFields, RefsHave
<1>4. rows \in [Refs -> [Users -> Int]]
  BY DEF TokensInv, TokensTypeOK
<1>5. shared \in [Users -> Int] /\ \A v \in Users : shared[v] = rows[invites][v] + pays(v)
  BY <1>2, <1>3, <1>4
<1> HIDE DEF joins, invites, shared, bonus, pays, u
<1>6. /\ rows' \in [Refs -> [Users -> Int]]
      /\ \A q \in Refs \ {joins, invites} : rows'[q] = rows[q]
      /\ rows'[joins][u] = rows[joins][u] + bonus
      /\ \A v \in Users \ {u} : rows'[joins][v] = rows[joins][v]
      /\ rows'[invites] = shared
  BY <1>1, <1>2, <1>3, <1>4, <1>5
<1>7. \A v \in Users : rows'[invites][v] = rows[invites][v] + pays(v)
  BY <1>5, <1>6
<1> QED
  BY <1>6, <1>7 DEF joins, invites, bonus, pays, u

\* The flag is set with the bonus, and whose flag and whose bonus fit together.
LEMMA AwardFlags ==
    ASSUME TokensInv, NEW s \in Sessions, CommitAward(s)
    PROVE  /\ claimed' \in [Users -> BOOLEAN] /\ invited' \in [Users -> BOOLEAN]
           /\ FlagsOK'
<1> DEFINE u == By[s]
           joins == Ref("join", u, 0)
           invites == Ref("invite", u, 0)
<1>1. /\ claimed' = [claimed EXCEPT ![u] = @ \/ award[s].join]
      /\ invited' = [invited EXCEPT ![u] = @ \/ award[s].invite]
  BY DEF CommitAward
<1>2. /\ u \in Users /\ award[s].join \in BOOLEAN /\ award[s].invite \in BOOLEAN
      /\ Referrer[u] # NoUser => Referrer[u] \in Users
      /\ JoinBonus \in Nat /\ InviteBonus \in Nat
  BY SessionTyped
<1>3. /\ claimed \in [Users -> BOOLEAN] /\ invited \in [Users -> BOOLEAN]
      /\ rows \in [Refs -> [Users -> Int]]
  BY DEF TokensInv, TokensTypeOK
<1>4. /\ claimed' \in [Users -> BOOLEAN] /\ invited' \in [Users -> BOOLEAN]
      /\ claimed'[u] = (claimed[u] \/ award[s].join)
      /\ invited'[u] = (invited[u] \/ award[s].invite)
      /\ \A v \in Users \ {u} : claimed'[v] = claimed[v] /\ invited'[v] = invited[v]
  BY <1>1, <1>2, <1>3
<1>5. /\ award[s].join => JoinBonus > 0
      /\ award[s].invite => InviteBonus > 0 /\ Referrer[u] # NoUser
  BY DEF TokensInv, ControlOK, AwardOK
<1>6. /\ \A q \in Refs \ {joins, invites} : rows'[q] = rows[q]
      /\ rows'[joins][u] = rows[joins][u] + (IF award[s].join THEN JoinBonus ELSE 0)
      /\ \A v \in Users :
            rows'[invites][v] = rows[invites][v]
               + (IF award[s].invite /\ v = Referrer[u] THEN InviteBonus ELSE 0)
  BY AwardRows
<1>7. ASSUME NEW v \in Users \ {u}
      PROVE  /\ rows'[Ref("join", v, 0)] = rows[Ref("join", v, 0)]
             /\ rows'[Ref("invite", v, 0)] = rows[Ref("invite", v, 0)]
  BY <1>2, <1>6, RefFields, RefsHave
<1>8. /\ \A v \in Users : claimed[v] <=> rows[Ref("join", v, 0)][v] > 0
      /\ \A v \in Users : invited[v] <=> \E r \in Users : rows[Ref("invite", v, 0)][r] > 0
      /\ \A v \in Users : \A r \in Users :
            rows[Ref("invite", v, 0)][r] # 0 => r = Referrer[v]
      /\ \A v \in Users : rows[Ref("join", v, 0)][v] >= 0
      /\ \A v \in Users : \A r \in Users : rows[Ref("invite", v, 0)][r] >= 0
  BY DEF TokensInv, FlagsOK, FlagsMatchBonuses
<1>9. joins \in Refs /\ invites \in Refs
  BY <1>2, RefsHave
<1>10. rows[joins][u] \in Int /\ \A r \in Users : rows[invites][r] \in Int
  BY <1>2, <1>3, <1>9
<1>11. /\ claimed'[u] <=> rows'[joins][u] > 0
       /\ rows'[joins][u] >= 0
  BY <1>2, <1>4, <1>5, <1>6, <1>8, <1>10
<1>12. \A r \in Users : /\ rows'[invites][r] >= 0
                        /\ rows'[invites][r] # 0 => r = Referrer[u]
  BY <1>2, <1>6, <1>8, <1>10
<1>13. invited'[u] <=> \E r \in Users : rows'[invites][r] > 0
  <2>1. CASE award[s].invite
    <3>1. Referrer[u] \in Users /\ InviteBonus > 0
      BY <1>2, <1>5, <2>1
    <3>2. rows'[invites][Referrer[u]] > 0
      BY <1>2, <1>6, <1>8, <1>10, <2>1, <3>1
    <3> QED
      BY <1>4, <2>1, <3>1, <3>2
  <2>2. CASE ~ award[s].invite
    <3>1. \A r \in Users : rows'[invites][r] = rows[invites][r]
      BY <1>6, <1>10, <2>2
    <3> QED
      BY <1>2, <1>4, <1>8, <2>2, <3>1
  <2> QED
    BY <2>1, <2>2
<1>14. ASSUME NEW v \in Users
       PROVE  /\ claimed'[v] <=> rows'[Ref("join", v, 0)][v] > 0
              /\ invited'[v] <=> \E r \in Users : rows'[Ref("invite", v, 0)][r] > 0
              /\ \A r \in Users : rows'[Ref("invite", v, 0)][r] # 0 => r = Referrer[v]
              /\ rows'[Ref("join", v, 0)][v] >= 0
              /\ \A r \in Users : rows'[Ref("invite", v, 0)][r] >= 0
  <2>1. CASE v = u
    BY <1>11, <1>12, <1>13, <2>1
  <2>2. CASE v # u
    BY <1>4, <1>7, <1>8, <2>2
  <2> QED
    BY <2>1, <2>2
<1> QED
  BY <1>4, <1>14 DEF FlagsOK, FlagsMatchBonuses, Ref

LEMMA CommitAwardStep ==
    ASSUME TokensInv, NEW s \in Sessions, CommitAward(s)
    PROVE  TokensInv'
<1> DEFINE u == By[s]
<1>1. /\ UNCHANGED <<checkin, paidWeek, day, adminVars, payout>>
      /\ tokens' = [x \in Users |-> Known(s, x) + AwardTo(s, x)]
      /\ lock' = [lock EXCEPT ![u] = "free"]
      /\ Close(s)
  BY DEF CommitAward
<1>2. ASSUME NEW x \in Users PROVE Known(s, x) \in Nat /\ AwardTo(s, x) \in Nat
  <2>1. /\ held[s].tokens \in Nat /\ award[s].seen \in Nat /\ tokens[x] \in Nat
        /\ JoinBonus \in Nat /\ InviteBonus \in Nat
    BY SessionTyped, UserTyped
  <2> QED
    BY <2>1 DEF Known, AwardTo
<1>3. tokens' \in [Users -> Int] /\ NoDebt'
  <2>1. \A x \in Users : Known(s, x) + AwardTo(s, x) \in Nat
    BY <1>2
  <2> QED
    BY <1>1, <2>1 DEF NoDebt
<1>4. /\ rows' \in [Refs -> [Users -> Int]]
      /\ \A q \in Refs \ {Ref("join", u, 0), Ref("invite", u, 0)} : rows'[q] = rows[q]
  BY AwardRows
<1>5. /\ pc' \in [Sessions -> {"idle", "loaded", "claiming", "awarding", "done"}]
      /\ held' \in [Sessions -> [tokens : Int, claimed : BOOLEAN, invited : BOOLEAN,
                                 checkin : [last : Int, streak : Int]]]
      /\ award' \in [Sessions -> [join : BOOLEAN, invite : BOOLEAN, seen : Int]]
      /\ today' \in [Sessions -> Days]
      /\ \A x \in Sessions : pc'[x] \in {"loaded", "claiming"} =>
            pc[x] \in {"loaded", "claiming"} /\ held'[x].checkin = held[x].checkin
      /\ \A x \in Sessions : AwardOK(x)'
      /\ \A x \in Sessions : held'[x].tokens >= 0 /\ award'[x].seen >= 0
  BY <1>1, CloseEffect
<1>6. lock' \in [Users -> Sessions \cup {"free", "scheduler"}]
  BY <1>1 DEF TokensInv, TokensTypeOK
<1>7. claimed' \in [Users -> BOOLEAN] /\ invited' \in [Users -> BOOLEAN] /\ FlagsOK'
  BY AwardFlags
<1>8. TokensTypeOK'
  BY <1>1, <1>3, <1>4, <1>5, <1>6, <1>7 DEF TokensInv, TokensTypeOK, adminVars
<1>9. BalancesOK'
  BY <1>1, <1>3, <1>5 DEF TokensInv, BalancesOK
<1>10. ControlOK'
  BY <1>1, <1>5 DEF TokensInv, ControlOK, PayoutOK
<1>11. /\ SameRows({"transfer", "deposit"}) /\ SameRows({"checkin"}) /\ SameRows({"weekly"})
  BY <1>4, RefFields DEF SameRows
<1>12. MovesBalance' /\ WeekPaidOnce' /\ StreaksOK'
  BY <1>1, <1>5, <1>11, MovesKept, WeeksKept, StreaksKept DEF TokensInv, adminVars
<1> QED
  BY <1>7, <1>8, <1>9, <1>10, <1>12 DEF TokensInv

\* The rows of check-ins never shrink, so that an earned streak stays earned.
LEMMA EarnedKept ==
    ASSUME NEW v \in Users, NEW k, k.last \in Int, k.streak \in Int, Earned(v, k),
           \A w \in Users : \A d \in Days :
              /\ rows[Ref("checkin", w, d)][w] >= 0
              /\ rows[Ref("checkin", w, d)][w] \in Int
              /\ rows'[Ref("checkin", w, d)][w] >= rows[Ref("checkin", w, d)][w]
              /\ rows'[Ref("checkin", w, d)][w] \in Int
    PROVE  /\ k.streak >= 0
           /\ \A d \in (k.last - k.streak + 1)..k.last :
                 d \in Days /\ rows'[Ref("checkin", v, d)][v] > 0
<1>1. ASSUME NEW d \in (k.last - k.streak + 1)..k.last
      PROVE  d \in Days /\ rows'[Ref("checkin", v, d)][v] > 0
  <2>1. d \in Days /\ rows[Ref("checkin", v, d)][v] > 0
    BY <1>1 DEF Earned
  <2>2. /\ rows[Ref("checkin", v, d)][v] \in Int /\ rows'[Ref("checkin", v, d)][v] \in Int
        /\ rows'[Ref("checkin", v, d)][v] >= rows[Ref("checkin", v, d)][v]
    BY <2>1
  <2> QED
    BY <2>1, <2>2
<1> QED
  BY <1>1 DEF Earned

LEMMA BeginCheckinStep ==
    ASSUME TokensInv, NEW s \in Sessions, BeginCheckin(s)
    PROVE  TokensInv'
<1>1. /\ UNCHANGED <<moneyVars, flagVars, paidWeek, day, adminVars, held, award, payout, lock>>
      /\ pc[s] = "loaded" /\ pc' = [pc EXCEPT ![s] = "claiming"]
      /\ today' = [today EXCEPT ![s] = day]
  BY DEF BeginCheckin
<1>2. /\ pc' \in [Sessions -> {"idle", "loaded", "claiming", "awarding", "done"}]
      /\ pc'[s] = "claiming" /\ \A x \in Sessions \ {s} : pc'[x] = pc[x]
      /\ today' \in [Sessions -> Days]
  BY <1>1 DEF TokensInv, TokensTypeOK, ControlOK, PayoutOK
<1>3. TokensTypeOK'
  BY <1>1, <1>2 DEF TokensInv, TokensTypeOK, moneyVars, flagVars, adminVars
<1>4. FlagsOK' /\ MovesBalance' /\ StreaksOK' /\ WeekPaidOnce' /\ NoDebt'
  BY <1>1, <1>2, SilentStepKeeps DEF adminVars
<1>5. BalancesOK'
  BY <1>1, <1>4 DEF TokensInv, BalancesOK
<1>6. ControlOK'
  BY <1>1, <1>2 DEF TokensInv, ControlOK, PayoutOK, AwardOK
<1> QED
  BY <1>3, <1>4, <1>5, <1>6 DEF TokensInv

\* The streak that is written was computed from an earned one: it is longer only by the
\* day of the row that is written with it.
LEMMA CheckinStep ==
    ASSUME TokensInv, NEW s \in Sessions, ClaimDailyCheckin(s)
    PROVE  TokensInv'
<1> DEFINE u == By[s]
           d0 == today[s]
           ref == Ref("checkin", u, d0)
           c == held[s].checkin
           next == NextStreak(c, d0)
<1>1. /\ UNCHANGED <<claimed, invited, paidWeek, day, adminVars, payout, lock>>
      /\ pc[s] = "claiming" /\ checkin' = [checkin EXCEPT ![u] = next] /\ Close(s)
      /\ IF CheckinBonus > 0
         THEN Record(u, held[s].tokens, CheckinBonus, ref)
         ELSE UNCHANGED moneyVars
  BY DEF ClaimDailyCheckin
<1>2. /\ u \in Users /\ held[s].tokens \in Nat /\ CheckinBonus \in Nat
      /\ c \in [last : Int, streak : Int]
  BY SessionTyped
<1>3. /\ tokens \in [Users -> Int] /\ rows \in [Refs -> [Users -> Int]]
      /\ checkin \in [Users -> [last : Int, streak : Int]]
      /\ d0 \in Days /\ d0 \in Int /\ ref \in Refs
  <2>1. d0 \in Days /\ d0 \in Int
    BY DEF TokensInv, TokensTypeOK, Days
  <2> QED
    BY <1>2, <2>1, RefsHave DEF TokensInv, TokensTypeOK
<1>4. /\ tokens' \in [Users -> Int] /\ rows' \in [Refs -> [Users -> Int]]
      /\ \A v \in Users \ {u} : tokens'[v] = tokens[v] /\ rows'[ref][v] = rows[ref][v]
      /\ \A r \in Refs \ {ref} : rows'[r] = rows[r]
      /\ tokens'[u] >= 0
      /\ rows'[ref][u] = rows[ref][u] + CheckinBonus
  <2>1. CASE CheckinBonus > 0
    <3>1. /\ held[s].tokens \in Int /\ CheckinBonus \in Int
          /\ Record(u, held[s].tokens, CheckinBonus, ref)
      BY <1>1, <1>2, <2>1
    <3>2. /\ tokens' \in [Users -> Int] /\ rows' \in [Refs -> [Users -> Int]]
          /\ tokens'[u] = held[s].tokens + CheckinBonus
          /\ \A v \in Users \ {u} : tokens'[v] = tokens[v] /\ rows'[ref][v] = rows[ref][v]
          /\ rows'[ref][u] = rows[ref][u] + CheckinBonus
          /\ \A r \in Refs \ {ref} : rows'[r] = rows[r]
      BY <1>2, <1>3, <3>1, RecordEffect
    <3> QED
      BY <1>2, <3>2
  <2>2. CASE CheckinBonus = 0
    <3>1. tokens' = tokens /\ rows' = rows
      BY <1>1, <2>2 DEF moneyVars
    <3>2. tokens[u] \in Nat /\ rows[ref][u] \in Int
      BY <1>2, <1>3, UserTyped
    <3> QED
      BY <1>3, <2>2, <3>1, <3>2
  <2> QED
    BY <1>2, <2>1, <2>2
<1>5. /\ pc' \in [Sessions -> {"idle", "loaded", "claiming", "awarding", "done"}]
      /\ held' \in [Sessions -> [tokens : Int, claimed : BOOLEAN, invited : BOOLEAN,
                                 checkin : [last : Int, streak : Int]]]
      /\ award' \in [Sessions -> [join : BOOLEAN, invite : BOOLEAN, seen : Int]]
      /\ today' \in [Sessions -> Days]
      /\ \A x \in Sessions : pc'[x] \in {"loaded", "claiming"} =>
            pc[x] \in {"loaded", "claiming"} /\ held'[x].checkin = held[x].checkin
      /\ \A x \in Sessions : AwardOK(x)'
      /\ \A x \in Sessions : held'[x].tokens >= 0 /\ award'[x].seen >= 0
  BY <1>1, CloseEffect
<1>6. /\ next.last = d0 /\ next \in [last : Int, streak : Int]
      /\ next.streak = IF c.last = d0 - 1 THEN c.streak + 1 ELSE 1
  BY <1>2, <1>3 DEF NextStreak
<1> HIDE DEF next
<1>7. /\ checkin' \in [Users -> [last : Int, streak : Int]]
      /\ checkin'[u] = next /\ \A v \in Users \ {u} : checkin'[v] = checkin[v]
  BY <1>1, <1>2, <1>3, <1>6
<1>8. TokensTypeOK'
  BY <1>1, <1>4, <1>5, <1>7 DEF TokensInv, TokensTypeOK, adminVars
<1>9. BalancesOK'
  BY <1>1, <1>4, <1>5 DEF TokensInv, BalancesOK, NoDebt
<1>10. ControlOK'
  BY <1>1, <1>5 DEF TokensInv, ControlOK, PayoutOK
<1>11. /\ SameRows({"join", "invite"}) /\ SameRows({"transfer", "deposit"})
       /\ SameRows({"weekly"})
  BY <1>4, RefFields DEF SameRows
<1>12. FlagsOK' /\ MovesBalance' /\ WeekPaidOnce'
  BY <1>1, <1>11, FlagsKept, MovesKept, WeeksKept DEF TokensInv, adminVars
<1>13. \A v \in Users : \A d \in Days :
          /\ rows[Ref("checkin", v, d)][v] >= 0
          /\ rows[Ref("checkin", v, d)][v] \in Int
          /\ rows'[Ref("checkin", v, d)][v] >= rows[Ref("checkin", v, d)][v]
          /\ rows'[Ref("checkin", v, d)][v] \in Int
  <2>1. ASSUME NEW v \in Users, NEW d \in Days
        PROVE  /\ rows[Ref("checkin", v, d)][v] >= 0
               /\ rows[Ref("checkin", v, d)][v] \in Int
               /\ rows'[Ref("checkin", v, d)][v] >= rows[Ref("checkin", v, d)][v]
               /\ rows'[Ref("checkin", v, d)][v] \in Int
    <3>1. Ref("checkin", v, d) \in Refs
      BY RefsHave
    <3>2. rows[Ref("checkin", v, d)][v] >= 0 /\ rows[Ref("checkin", v, d)][v] \in Int
      BY <1>3, <3>1 DEF TokensInv, StreaksOK
    <3>3. rows'[Ref("checkin", v, d)][v] \in Int
      BY <1>4, <3>1
    <3>4. CASE Ref("checkin", v, d) = ref
      <4>1. v = u
        BY <3>4, RefFields
      <4> QED
        BY <1>2, <1>4, <3>2, <3>4, <4>1
    <3>5. CASE Ref("checkin", v, d) # ref
      BY <1>4, <3>1, <3>2, <3>5
    <3> QED
      BY <3>2, <3>3, <3>4, <3>5
  <2> QED
    BY <2>1
<1>14. /\ c.last \in Int /\ c.streak \in Int
       /\ next.last \in Int /\ next.streak \in Int
  BY <1>2, <1>3, <1>6
<1>15. ASSUME CheckinBonus > 0
       PROVE  next.streak >= 0 /\ \A d \in (next.last - next.streak + 1)..next.last :
                 d \in Days /\ rows'[Ref("checkin", u, d)][u] > 0
  <2>1. Earned(u, c)
    BY <1>1, <1>15 DEF TokensInv, StreaksOK
  <2>2. /\ c.streak >= 0
        /\ \A d \in (c.last - c.streak + 1)..c.last :
              d \in Days /\ rows'[Ref("checkin", u, d)][u] > 0
    BY <1>2, <1>3, <1>13, <1>14, <2>1, EarnedKept
  <2>3. rows'[ref][u] > 0
    <3>1. rows[ref][u] >= 0 /\ rows[ref][u] \in Int
      BY <1>2, <1>3, <1>13
    <3> QED
      BY <1>2, <1>4, <1>15, <3>1
  <2>4. ASSUME NEW d \in (next.last - next.streak + 1)..next.last
        PROVE  d \in Days /\ rows'[Ref("checkin", u, d)][u] > 0
    <3>1. CASE d = d0
      BY <1>3, <2>3, <3>1
    <3>2. CASE d # d0
      <4>1. d \in Int /\ d0 \in Int
        BY <1>3, <1>6, <1>14
      <4>2. d <= next.last /\ d >= next.last - next.streak + 1
        BY <1>14, <2>4, <4>1
      <4>3. c.last = d0 - 1 /\ next.streak = c.streak + 1
        BY <1>6, <1>14, <3>2, <4>1, <4>2
      <4>4. d \in (c.last - c.streak + 1)..c.last
        BY <1>6, <1>14, <3>2, <4>1, <4>2, <4>3
      <4> QED
        BY <2>2, <4>4
    <3> QED
      BY <3>1, <3>2
  <2>5. next.streak >= 0
    BY <1>6, <1>14, <2>2
  <2> QED
    BY <2>4, <2>5
<1>16. StreaksOK'
  <2>1. ASSUME CheckinBonus > 0, NEW v \in Users
        PROVE  /\ checkin'[v].streak >= 0
               /\ \A d \in (checkin'[v].last - checkin'[v].streak + 1)..checkin'[v].last :
                     d \in Days /\ rows'[Ref("checkin", v, d)][v] > 0
    <3>1. CASE v = u
      BY <1>7, <1>15, <2>1, <3>1
    <3>2. CASE v # u
      <4>1. /\ Earned(v, checkin[v]) /\ checkin[v].last \in Int /\ checkin[v].streak \in Int
            /\ checkin'[v] = checkin[v]
        BY <1>3, <1>7, <2>1, <3>2 DEF TokensInv, StreaksOK
      <4>2. /\ checkin[v].streak >= 0
            /\ \A d \in (checkin[v].last - checkin[v].streak + 1)..checkin[v].last :
                  d \in Days /\ rows'[Ref("checkin", v, d)][v] > 0
        BY <1>13, <2>1, <4>1, EarnedKept
      <4> QED
        BY <4>1, <4>2
    <3> QED
      BY <3>1, <3>2
  <2>2. ASSUME CheckinBonus > 0, NEW x \in Sessions, pc'[x] \in {"loaded", "claiming"}
        PROVE  LET k == held'[x].checkin
               IN  /\ k.streak >= 0
                   /\ \A d \in (k.last - k.streak + 1)..k.last :
                         d \in Days /\ rows'[Ref("checkin", By[x], d)][By[x]] > 0
    <3>1. /\ Earned(By[x], held[x].checkin) /\ By[x] \in Users
          /\ held[x].checkin.last \in Int /\ held[x].checkin.streak \in Int
          /\ held'[x].checkin = held[x].checkin
      BY <1>5, <2>2, SessionTyped DEF TokensInv, StreaksOK
    <3> DEFINE k == held[x].checkin
               v == By[x]
    <3> HIDE DEF k, v
    <3>2. /\ k.streak >= 0
          /\ \A d \in (k.last - k.streak + 1)..k.last :
                d \in Days /\ rows'[Ref("checkin", v, d)][v] > 0
      BY <1>13, <3>1, EarnedKept DEF k, v
    <3> QED
      BY <3>1, <3>2 DEF k, v
  <2>3. \A v \in Users : \A d \in Days : rows'[Ref("checkin", v, d)][v] >= 0
    <3>1. ASSUME NEW v \in Users, NEW d \in Days PROVE rows'[Ref("checkin", v, d)][v] >= 0
      <4>1. Ref("checkin", v, d) \in Refs
        BY RefsHave
      <4>2. rows'[Ref("checkin", v, d)][v] \in Int
        BY <1>4, <4>1
      <4> QED
        BY <1>13, <4>2
    <3> QED
      BY <3>1
  <2> QED
    BY <2>1, <2>2, <2>3 DEF StreaksOK, Earned, Ref
<1> QED
  BY <1>8, <1>9, <1>10, <1>12, <1>16 DEF TokensInv

-----------------------------------------------------------------------------
(* The weekly leaderboard reward.                                          *)

LEMMA PayoutTyped ==
    ASSUME TokensInv
    PROVE  /\ payout \in [on : BOOLEAN, week : Int, top : Rankings \cup {<<>>}, seen : Seq(Int)]
           /\ payout.top \in Seq(Users) /\ Len(payout.top) \in 0..3
           /\ payout.seen \in Seq(Int) /\ Len(payout.seen) \in Nat
           /\ DOMAIN payout.top = 1..Len(payout.top)
           /\ DOMAIN payout.seen = 1..Len(payout.seen)
           /\ \A i \in DOMAIN payout.top : payout.top[i] \in Users /\ Reward[i] \in Nat
<1>1. payout \in [on : BOOLEAN, week : Int, top : Rankings \cup {<<>>}, seen : Seq(Int)]
  BY DEF TokensInv, TokensTypeOK
<1>2. payout.top \in Seq(Users) /\ Len(payout.top) \in Nat /\ Len(payout.top) <= 3
  <2>1. CASE payout.top \in Rankings
    BY <2>1, TokensAssumption
  <2>2. CASE payout.top = <<>>
    BY <2>2
  <2> QED
    BY <1>1, <2>1, <2>2
<1>3. payout.seen \in Seq(Int)
  BY <1>1
<1>4. /\ Len(payout.seen) \in Nat /\ DOMAIN payout.seen = 1..Len(payout.seen)
      /\ DOMAIN payout.top = 1..Len(payout.top)
  BY <1>2, <1>3
<1>5. Reward \in [1..3 -> Nat]
  BY TokensAssumption
<1>6. ASSUME NEW i \in DOMAIN payout.top
      PROVE  payout.top[i] \in Users /\ Reward[i] \in Nat
  <2>1. i \in 1..Len(payout.top) /\ i \in 1..3
    BY <1>2, <1>4
  <2> QED
    BY <1>2, <1>5, <2>1
<1>7. Len(payout.top) \in 0..3
  <2>1. \A n \in Nat : n <= 3 => n \in 0..3
    OBVIOUS
  <2> QED
    BY <1>2, <2>1
<1> QED
  BY <1>1, <1>2, <1>3, <1>4, <1>6, <1>7

LEMMA WeekInt == \A d \in Days : Week(d) \in Weeks /\ Week(d) \in Int
<1>1. \A d \in Days : d \in Int
  BY DEF Days
<1> QED
  BY <1>1 DEF Week, Weeks

\* The steps of the scheduler that only change its own bookkeeping.
LEMMA PayoutStepKeeps ==
    ASSUME TokensInv, UNCHANGED <<moneyVars, flagVars, paidWeek, adminVars, sessionVars>>
    PROVE  /\ NoDebt' /\ FlagsOK' /\ MovesBalance' /\ StreaksOK' /\ WeekPaidOnce'
           /\ \A s \in Sessions : AwardOK(s)' /\ held'[s].tokens >= 0 /\ award'[s].seen >= 0
<1>1. /\ tokens' = tokens /\ rows' = rows /\ claimed' = claimed /\ invited' = invited
      /\ checkin' = checkin /\ pressed' = pressed /\ request' = request
      /\ pc' = pc /\ held' = held /\ award' = award /\ paidWeek' = paidWeek
  BY DEF moneyVars, flagVars, adminVars, sessionVars
<1>2. /\ SameRows({"join", "invite"}) /\ SameRows({"transfer", "deposit"})
      /\ SameRows({"checkin"}) /\ SameRows({"weekly"})
  BY <1>1 DEF SameRows
<1>3. FlagsOK' /\ MovesBalance' /\ StreaksOK' /\ WeekPaidOnce'
  BY <1>1, <1>2, FlagsKept, MovesKept, StreaksKept, WeeksKept DEF TokensInv
<1>4. NoDebt'
  BY <1>1 DEF TokensInv, BalancesOK, NoDebt
<1>5. \A s \in Sessions : AwardOK(s)' /\ held'[s].tokens >= 0 /\ award'[s].seen >= 0
  BY <1>1 DEF TokensInv, BalancesOK, ControlOK, AwardOK
<1> QED
  BY <1>3, <1>4, <1>5

LEMMA BeginPayoutStep ==
    ASSUME TokensInv, NEW top \in Rankings, BeginPayout(top)
    PROVE  TokensInv'
<1>1. /\ UNCHANGED <<moneyVars, flagVars, paidWeek, day, adminVars, sessionVars, lock>>
      /\ ~ payout.on /\ paidWeek # Week(day)
      /\ payout' = [on |-> TRUE, week |-> Week(day), top |-> top, seen |-> <<>>]
  BY DEF BeginPayout
<1>2. day \in Days /\ paidWeek <= Week(day) /\ paidWeek \in Int
  BY DEF TokensInv, TokensTypeOK, ControlOK, PayoutOK
<1>3. Week(day) \in Weeks /\ Week(day) \in Int
  BY <1>2, WeekInt
<1>4. paidWeek < Week(day)
  BY <1>1, <1>2, <1>3
<1>5. top \in Seq(Users) /\ Len(top) \in Nat
  BY TokensAssumption
<1>6. TokensTypeOK'
  BY <1>1, <1>3 DEF TokensInv, TokensTypeOK, moneyVars, flagVars, adminVars, sessionVars
<1>7. PayoutOK'
  BY <1>1, <1>2, <1>3, <1>4, <1>5 DEF PayoutOK, Week
<1>8. \A i \in DOMAIN payout'.seen : payout'.seen[i] >= 0
  BY <1>1
<1> QED
  BY <1>1, <1>6, <1>7, <1>8, PayoutStepKeeps DEF TokensInv, BalancesOK, ControlOK

LEMMA PayoutLookStep ==
    ASSUME TokensInv, PayoutLook
    PROVE  TokensInv'
<1> DEFINE k == Len(payout.seen)
           read == tokens[payout.top[k + 1]]
<1>1. /\ UNCHANGED <<moneyVars, flagVars, paidWeek, day, adminVars, sessionVars>>
      /\ payout.on /\ k < Len(payout.top)
      /\ payout' = [payout EXCEPT !.seen = Append(@, read)]
      /\ lock' = IF k > 0 THEN [lock EXCEPT ![payout.top[k]] = "scheduler"] ELSE lock
  BY DEF PayoutLook
<1>2. /\ payout.top \in Seq(Users) /\ Len(payout.top) \in 0..3
      /\ payout.seen \in Seq(Int) /\ k \in Nat
      /\ DOMAIN payout.top = 1..Len(payout.top) /\ DOMAIN payout.seen = 1..k
      /\ payout \in [on : BOOLEAN, week : Int, top : Rankings \cup {<<>>}, seen : Seq(Int)]
  BY PayoutTyped
<1>3. k + 1 \in DOMAIN payout.top
  BY <1>1, <1>2
<1>4. payout.top[k + 1] \in Users
  BY <1>3, PayoutTyped
<1>5. read \in Int /\ read >= 0
  BY <1>4 DEF TokensInv, TokensTypeOK, BalancesOK, NoDebt
<1> HIDE DEF read
<1>6. /\ Append(payout.seen, read) \in Seq(Int) /\ Len(Append(payout.seen, read)) = k + 1
      /\ \A i \in DOMAIN Append(payout.seen, read) : Append(payout.seen, read)[i] >= 0
  <2>1. \A i \in 1..k : payout.seen[i] >= 0
    BY <1>2 DEF TokensInv, BalancesOK
  <2> QED
    BY <1>2, <1>5, <2>1
<1>7. lock' \in [Users -> Sessions \cup {"free", "scheduler"}]
  BY <1>1 DEF TokensInv, TokensTypeOK
<1>8. payout'.on = payout.on /\ payout'.week = payout.week /\ payout'.top = payout.top
      /\ payout'.seen = Append(payout.seen, read)
      /\ payout' \in [on : BOOLEAN, week : Int, top : Rankings \cup {<<>>}, seen : Seq(Int)]
  BY <1>1, <1>2, <1>6
<1>9. TokensTypeOK'
  BY <1>1, <1>7, <1>8 DEF TokensInv, TokensTypeOK, moneyVars, flagVars, adminVars, sessionVars
<1>10. PayoutOK'
  <2>1. Len(payout'.seen) <= Len(payout'.top)
    BY <1>1, <1>2, <1>6, <1>8
  <2> QED
    BY <1>1, <1>8, <2>1 DEF TokensInv, ControlOK, PayoutOK
<1>11. \A i \in DOMAIN payout'.seen : payout'.seen[i] >= 0
  BY <1>6, <1>8
<1> QED
  BY <1>1, <1>9, <1>10, <1>11, PayoutStepKeeps DEF TokensInv, BalancesOK, ControlOK

LEMMA PayoutAbortStep ==
    ASSUME TokensInv, PayoutAbort
    PROVE  TokensInv'
<1>1. /\ UNCHANGED <<moneyVars, flagVars, paidWeek, day, adminVars, sessionVars>>
      /\ payout' = Resting
      /\ lock' = [u \in Users |-> IF lock[u] = "scheduler" THEN "free" ELSE lock[u]]
  BY DEF PayoutAbort
<1>2. lock' \in [Users -> Sessions \cup {"free", "scheduler"}]
  BY <1>1 DEF TokensInv, TokensTypeOK
<1>3. /\ Resting \in [on : BOOLEAN, week : Int, top : Rankings \cup {<<>>}, seen : Seq(Int)]
      /\ Resting.on = FALSE /\ Len(Resting.seen) = 0 /\ Len(Resting.top) = 0
      /\ DOMAIN Resting.seen = {}
  BY DEF Resting
<1>4. TokensTypeOK'
  BY <1>1, <1>2, <1>3 DEF TokensInv, TokensTypeOK, moneyVars, flagVars, adminVars, sessionVars
<1>5. PayoutOK'
  BY <1>1, <1>3 DEF TokensInv, ControlOK, PayoutOK
<1>6. \A i \in DOMAIN payout'.seen : payout'.seen[i] >= 0
  BY <1>1, <1>3
<1> QED
  BY <1>1, <1>4, <1>5, <1>6, PayoutStepKeeps DEF TokensInv, BalancesOK, ControlOK

LEMMA MidnightStep ==
    ASSUME TokensInv, Midnight
    PROVE  TokensInv'
<1>1. /\ UNCHANGED <<moneyVars, flagVars, paidWeek, adminVars, sessionVars, payout, lock>>
      /\ day < LastDay /\ day' = day + 1
  BY DEF Midnight
<1>2. FirstDay \in Int /\ LastDay \in Int
  BY TokensAssumption
<1>3. day' \in Days /\ day \in Days /\ day \in Int
  BY <1>1, <1>2 DEF TokensInv, ControlOK, PayoutOK, Days
<1>4. Week(day) <= Week(day') /\ Week(day) \in Int /\ Week(day') \in Int
  BY <1>1, <1>3 DEF Week
<1>5. TokensTypeOK'
  BY <1>1, <1>3 DEF TokensInv, TokensTypeOK, moneyVars, flagVars, adminVars, sessionVars
<1>6. PayoutOK'
  <2>1. payout.week \in Int /\ paidWeek \in Int
    BY DEF TokensInv, TokensTypeOK
  <2>2. /\ payout.on => payout.week \in Weeks /\ paidWeek < payout.week /\ payout.week <= Week(day)
        /\ paidWeek <= Week(day) /\ Len(payout.seen) <= Len(payout.top)
    BY DEF TokensInv, ControlOK, PayoutOK
  <2>3. /\ payout.on => payout.week <= Week(day')
        /\ paidWeek <= Week(day')
    BY <1>4, <2>1, <2>2
  <2> QED
    BY <1>1, <1>3, <2>2, <2>3 DEF PayoutOK, Week
<1>7. \A i \in DOMAIN payout'.seen : payout'.seen[i] >= 0
  BY <1>1 DEF TokensInv, BalancesOK
<1> QED
  BY <1>1, <1>5, <1>6, <1>7, PayoutStepKeeps DEF TokensInv, BalancesOK, ControlOK

\* A rank that pays was read: the balance of its winner is one of those the payout remembers.
LEMMA RankTyped ==
    ASSUME TokensInv, NEW u \in Users, RankOf(u) # 0
    PROVE  /\ RankOf(u) \in DOMAIN payout.top
           /\ RankOf(u) \in 1..3
           /\ Reward[RankOf(u)] \in Nat
<1>1. RankOf(u) \in DOMAIN payout.top
  BY DEF RankOf
<1>2. RankOf(u) \in 1..Len(payout.top) /\ Len(payout.top) \in 0..3
  BY <1>1, PayoutTyped
<1>3. RankOf(u) \in 1..3
  <2>1. \A n \in 0..3 : \A i \in 1..n : i \in 1..3
    OBVIOUS
  <2> QED
    BY <1>2, <2>1
<1> QED
  BY <1>1, <1>3, PayoutTyped

\* Nobody has a row of the week that is paid, since its marker is not set; the marker is
\* set with the rows.
LEMMA PayoutCommitStep ==
    ASSUME TokensInv, PayoutCommit
    PROVE  TokensInv'
<1>1. /\ UNCHANGED <<flagVars, day, adminVars, sessionVars>>
      /\ payout.on /\ Len(payout.seen) = Len(payout.top)
      /\ tokens' = [u \in Users |->
                       IF RankOf(u) = 0 THEN tokens[u]
                       ELSE payout.seen[RankOf(u)] + Reward[RankOf(u)]]
      /\ rows' = [r \in Refs |->
                     IF r.kind = "weekly" /\ r.when = payout.week /\ RankOf(r.of) # 0
                     THEN [rows[r] EXCEPT ![r.of] = @ + Reward[RankOf(r.of)]]
                     ELSE rows[r]]
      /\ paidWeek' = payout.week
      /\ payout' = Resting
      /\ lock' = [u \in Users |-> IF lock[u] = "scheduler" THEN "free" ELSE lock[u]]
  BY DEF PayoutCommit
<1>2. /\ rows \in [Refs -> [Users -> Int]] /\ paidWeek \in Int /\ payout.week \in Int
      /\ payout.week \in Weeks /\ paidWeek < payout.week /\ payout.week <= Week(day)
      /\ lock \in [Users -> Sessions \cup {"free", "scheduler"}]
      /\ day \in Days
  BY <1>1 DEF TokensInv, TokensTypeOK, ControlOK, PayoutOK
<1>3. ASSUME NEW u \in Users
      PROVE  tokens'[u] \in Nat
  <2>1. CASE RankOf(u) = 0
    BY <1>1, <2>1, UserTyped
  <2>2. CASE RankOf(u) # 0
    <3>1. /\ RankOf(u) \in DOMAIN payout.seen /\ Reward[RankOf(u)] \in Nat
          /\ payout.seen \in Seq(Int)
      BY <1>1, <2>2, RankTyped, PayoutTyped
    <3>2. payout.seen[RankOf(u)] \in Int /\ payout.seen[RankOf(u)] >= 0
      BY <3>1 DEF TokensInv, BalancesOK
    <3>3. tokens'[u] = payout.seen[RankOf(u)] + Reward[RankOf(u)]
      BY <1>1, <2>2
    <3> QED
      BY <3>1, <3>2, <3>3
  <2> QED
    BY <2>1, <2>2
<1>4. tokens' \in [Users -> Int] /\ NoDebt'
  <2>1. tokens' = [u \in Users |-> tokens'[u]]
    BY <1>1
  <2> QED
    BY <1>3, <2>1 DEF NoDebt
<1>5. ASSUME NEW r \in Refs
      PROVE  rows'[r] \in [Users -> Int]
  <2>1. CASE r.kind = "weekly" /\ r.when = payout.week /\ RankOf(r.of) # 0
    <3>1. rows'[r] = [rows[r] EXCEPT ![r.of] = @ + Reward[RankOf(r.of)]]
      BY <1>1, <2>1
    <3>2. r.of \in Users
      BY <2>1 DEF Refs, Ref
    <3>3. Reward[RankOf(r.of)] \in Int /\ rows[r] \in [Users -> Int]
      BY <1>2, <2>1, <3>2, RankTyped
    <3> QED
      BY <3>1, <3>2, <3>3
  <2>2. CASE ~ (r.kind = "weekly" /\ r.when = payout.week /\ RankOf(r.of) # 0)
    BY <1>1, <1>2, <2>2
  <2> QED
    BY <2>1, <2>2
<1>6. rows' \in [Refs -> [Users -> Int]]
  BY <1>1, <1>5
<1>7. /\ Resting \in [on : BOOLEAN, week : Int, top : Rankings \cup {<<>>}, seen : Seq(Int)]
      /\ Resting.on = FALSE /\ Len(Resting.seen) = 0 /\ Len(Resting.top) = 0
      /\ DOMAIN Resting.seen = {}
  BY DEF Resting
<1>8. TokensTypeOK'
  <2>1. lock' \in [Users -> Sessions \cup {"free", "scheduler"}]
    BY <1>1, <1>2
  <2> QED
    BY <1>1, <1>2, <1>4, <1>6, <1>7, <2>1
       DEF TokensInv, TokensTypeOK, flagVars, adminVars, sessionVars
<1>9. BalancesOK'
  BY <1>1, <1>4, <1>7 DEF TokensInv, BalancesOK, sessionVars
<1>10. ControlOK'
  <2>1. PayoutOK'
    BY <1>1, <1>2, <1>7 DEF PayoutOK, Week
  <2>2. \A s \in Sessions : AwardOK(s)'
    BY <1>1 DEF TokensInv, ControlOK, AwardOK, sessionVars
  <2> QED
    BY <2>1, <2>2 DEF ControlOK
<1>11. /\ SameRows({"join", "invite"}) /\ SameRows({"transfer", "deposit"})
       /\ SameRows({"checkin"})
  BY <1>1 DEF SameRows
<1>12. FlagsOK' /\ MovesBalance' /\ StreaksOK'
  BY <1>1, <1>11, FlagsKept, MovesKept, StreaksKept DEF TokensInv, flagVars, adminVars, sessionVars
<1>13. ASSUME NEW u \in Users, NEW w \in Weeks
       PROVE  LET paid == rows'[Ref("weekly", u, w)][u]
              IN  /\ paid # 0 => w <= payout.week
                  /\ paid \in {0, Reward[1], Reward[2], Reward[3]}
  <2> DEFINE ref == Ref("weekly", u, w)
  <2>1. ref \in Refs /\ ref.kind = "weekly" /\ ref.when = w /\ ref.of = u
    BY RefFields, RefsHave
  <2>2. /\ rows[ref][u] # 0 => w <= paidWeek
        /\ rows[ref][u] \in {0, Reward[1], Reward[2], Reward[3]}
        /\ rows[ref][u] \in Int
    BY <1>2, <2>1 DEF TokensInv, WeekPaidOnce
  <2>3. w \in Int
    <3>1. PICK d \in Days : w = Week(d)
      BY DEF Weeks
    <3> QED
      BY <3>1, WeekInt
  <2> HIDE DEF ref
  <2>4. CASE w = payout.week /\ RankOf(u) # 0
    <3>1. rows[ref][u] = 0
      BY <1>2, <2>2, <2>4
    <3>2. rows'[ref] = [rows[ref] EXCEPT ![u] = @ + Reward[RankOf(u)]]
      BY <1>1, <2>1, <2>4
    <3>3. Reward[RankOf(u)] \in Nat /\ RankOf(u) \in 1..3
      BY <2>4, RankTyped
    <3>4. rows'[ref][u] = Reward[RankOf(u)]
      BY <1>2, <2>1, <3>1, <3>2, <3>3
    <3>5. rows'[ref][u] \in {0, Reward[1], Reward[2], Reward[3]}
      BY <3>3, <3>4
    <3>6. w <= payout.week
      BY <1>2, <2>4
    <3> QED
      BY <3>5, <3>6 DEF ref
  <2>5. CASE ~ (w = payout.week /\ RankOf(u) # 0)
    <3>1. rows'[ref] = rows[ref]
      BY <1>1, <2>1, <2>5
    <3>2. rows'[ref][u] # 0 => w <= payout.week
      BY <1>2, <2>2, <2>3, <3>1
    <3> QED
      BY <2>2, <3>1, <3>2 DEF ref
  <2> QED
    BY <2>4, <2>5
<1>14. WeekPaidOnce'
  BY <1>1, <1>13 DEF WeekPaidOnce, Ref
<1> QED
  BY <1>8, <1>9, <1>10, <1>12, <1>14 DEF TokensInv

-----------------------------------------------------------------------------
LEMMA TokensInit == Init => TokensInv
<1> SUFFICES ASSUME Init PROVE TokensInv
  OBVIOUS
<1>1. /\ FirstDay \in Int /\ FirstDay \in Days /\ Start \in [Users -> Nat]
      /\ JoinBonus \in Nat /\ InviteBonus \in Nat
  BY TokensAssumption DEF Days
<1>2. /\ NoneHeld.tokens = 0 /\ Nothing.seen = 0 /\ Nothing.join = FALSE
      /\ Nothing.invite = FALSE /\ NoneHeld.checkin = Never
      /\ Never \in [last : Int, streak : Int]
      /\ NoneHeld \in [tokens : Int, claimed : BOOLEAN, invited : BOOLEAN,
                       checkin : [last : Int, streak : Int]]
      /\ Nothing \in [join : BOOLEAN, invite : BOOLEAN, seen : Int]
  BY <1>1 DEF NoneHeld, Nothing, Never
<1>3. /\ Resting \in [on : BOOLEAN, week : Int, top : Rankings \cup {<<>>}, seen : Seq(Int)]
      /\ Resting.on = FALSE /\ Len(Resting.seen) = 0 /\ Len(Resting.top) = 0
      /\ DOMAIN Resting.seen = {}
  BY DEF Resting
<1>4. \A r \in Refs : \A u \in Users : rows[r][u] = 0
  BY DEF Init
<1>5. TokensTypeOK
  BY <1>1, <1>2, <1>3 DEF Init, TokensTypeOK
<1>6. BalancesOK
  BY <1>1, <1>2, <1>3 DEF Init, BalancesOK, NoDebt
<1>7. ControlOK
  <2>1. PayoutOK
    <3>1. -1 <= Week(FirstDay)
      BY TokensAssumption DEF Week
    <3> QED
      BY <1>1, <1>3, <3>1 DEF Init, PayoutOK
  <2>2. \A s \in Sessions : AwardOK(s)
    BY <1>2 DEF Init, AwardOK
  <2> QED
    BY <2>1, <2>2 DEF ControlOK
<1>8. FlagsOK
  BY <1>4, RefsHave DEF Init, FlagsOK, FlagsMatchBonuses
<1>9. MovesBalance
  <2>1. ASSUME NEW t \in Transfers
        PROVE  LET moved == rows[Ref("transfer", t, 0)]
               IN  /\ moved[To[t]] = pressed[t] * Sum[t]
                   /\ moved[From[t]] \in (-2 * pressed[t] * Sum[t])..(-pressed[t] * Sum[t])
                   /\ \A u \in Users \ {From[t], To[t]} : moved[u] = 0
    <3>1. Sum[t] \in Nat /\ From[t] \in Users /\ To[t] \in Users /\ pressed[t] = 0
      BY TokensAssumption DEF Init
    <3>2. \A u \in Users : rows[Ref("transfer", t, 0)][u] = 0
      BY <1>4, RefsHave
    <3>3. /\ 0 * Sum[t] = 0 /\ -2 * 0 * Sum[t] = 0 /\ (-0) * Sum[t] = 0
      BY <3>1
    <3> QED
      BY <3>1, <3>2, <3>3
  <2>2. \A x \in Deposits : \A u \in Users :
           rows[Ref("deposit", x, 0)][u] = 0 /\ request[x] = "PENDING"
    BY <1>4, RefsHave DEF Init
  <2> QED
    BY <2>1, <2>2 DEF MovesBalance
<1>10. StreaksOK
  <2>1. \A u \in Users : Earned(u, Never)
    BY <1>1 DEF Earned, Never
  <2> QED
    BY <1>4, <2>1, RefsHave DEF Init, StreaksOK
<1>11. WeekPaidOnce
  BY <1>4, RefsHave DEF WeekPaidOnce
<1> QED
  BY <1>5, <1>6, <1>7, <1>8, <1>9, <1>10, <1>11 DEF TokensInv

LEMMA StutterStep ==
    ASSUME TokensInv, UNCHANGED vars
    PROVE  TokensInv'
<1>1. /\ UNCHANGED <<moneyVars, flagVars, paidWeek, adminVars, sessionVars>>
      /\ payout' = payout /\ day' = day /\ lock' = lock
  BY DEF vars
<1>2. TokensTypeOK'
  BY <1>1 DEF TokensInv, TokensTypeOK, moneyVars, flagVars, adminVars, sessionVars
<1>3. PayoutOK' /\ \A i \in DOMAIN payout'.seen : payout'.seen[i] >= 0
  BY <1>1 DEF TokensInv, ControlOK, PayoutOK, BalancesOK
<1> QED
  BY <1>1, <1>2, <1>3, PayoutStepKeeps DEF TokensInv, BalancesOK, ControlOK

LEMMA TokensStep == TokensInv /\ [Next]_vars => TokensInv'
<1> SUFFICES ASSUME TokensInv, [Next]_vars PROVE TokensInv'
  OBVIOUS
<1>1. ASSUME NEW s \in Sessions,
             \/ Load(s)
             \/ Leave(s)
             \/ \E joinOn, inviteOn \in BOOLEAN : BeginAward(s, joinOn, inviteOn)
             \/ CommitAward(s)
             \/ BeginCheckin(s)
             \/ ClaimDailyCheckin(s)
      PROVE  TokensInv'
  BY <1>1, LoadStep, LeaveStep, BeginAwardStep, CommitAwardStep, BeginCheckinStep, CheckinStep
<1>2. ASSUME NEW t \in Transfers, NEW percent \in FeePercents, Transfer(t, percent)
      PROVE  TokensInv'
  BY <1>2, TransferStep
<1>3. ASSUME NEW a \in Adjustments, AdminAdjust(a) PROVE TokensInv'
  BY <1>3, AdminAdjustStep
<1>4. ASSUME NEW x \in Deposits, ApproveTokens(x) \/ RejectTokens(x) PROVE TokensInv'
  BY <1>4, ApproveStep, RejectStep
<1>5. ASSUME NEW top \in Rankings, BeginPayout(top) PROVE TokensInv'
  BY <1>5, BeginPayoutStep
<1>6. CASE PayoutLook \/ PayoutCommit \/ PayoutAbort \/ Midnight
  BY <1>6, PayoutLookStep, PayoutCommitStep, PayoutAbortStep, MidnightStep
<1>7. CASE UNCHANGED vars
  BY <1>7, StutterStep
<1> QED
  BY <1>1, <1>2, <1>3, <1>4, <1>5, <1>6, <1>7 DEF Next

LEMMA TokensInvariant == Spec => []TokensInv
BY TokensInit, TokensStep, PTL DEF Spec

\* Every variable of the tokens keeps its type.
THEOREM TokenTypes == Spec => []TokensTypeOK
<1>1. TokensInv => TokensTypeOK
  BY DEF TokensInv
<1> QED
  BY <1>1, TokensInvariant, PTL

\* Nobody owes tokens, although awards, check-ins and payouts write balances they read
\* before: whatever they read was not negative either.
THEOREM TokensStayPositive == Spec => []NoDebt
<1>1. TokensInv => NoDebt
  BY DEF TokensInv, BalancesOK
<1> QED
  BY <1>1, TokensInvariant, PTL

\* The flags of the two bonuses of a user are set exactly if the bonus was recorded, and
\* the bonus of an invitation is only ever recorded for the one who invited him.
THEOREM FlagsFollowBonuses == Spec => []FlagsMatchBonuses
<1>1. TokensInv => FlagsMatchBonuses
  BY DEF TokensInv, FlagsOK
<1> QED
  BY <1>1, TokensInvariant, PTL

\* Every press of a transfer moves the sum and at most as much again as a fee, and an
\* approved token deposit is credited once, for every fee the setting may take.
THEOREM TransfersBalance == Spec => []MovesBalance
<1>1. TokensInv => MovesBalance
  BY DEF TokensInv
<1> QED
  BY <1>1, TokensInvariant, PTL

\* However late a session writes the streak it computed, every day of it has its row.
THEOREM StreaksEarned == Spec => []StreakEarned
<1>1. TokensInv => StreakEarned
  BY DEF TokensInv, StreaksOK, Earned, StreakEarned
<1> QED
  BY <1>1, TokensInvariant, PTL

\* A week is rewarded at most once, however often its payout fails and is tried again.
THEOREM WeeksPaidOnce == Spec => []WeekPaidOnce
<1>1. TokensInv => WeekPaidOnce
  BY DEF TokensInv
<1> QED
  BY <1>1, TokensInvariant, PTL

-----------------------------------------------------------------------------
(* Who writes the rows of the bonuses of a user.                           *)

BonusRowsKept == SameRows({"join", "invite"})

LEMMA OthersKeepBonusRows ==
    ASSUME TokensInv, [Next]_vars, ~ \E s \in Sessions : CommitAward(s)
    PROVE  BonusRowsKept
<1>1. ASSUME rows' = rows PROVE BonusRowsKept
  BY <1>1 DEF BonusRowsKept, SameRows
<1>2. ASSUME NEW u \in Users, NEW seen \in Int, NEW amount \in Int, NEW ref \in Refs,
             ref.kind \notin {"join", "invite"}, Record(u, seen, amount, ref)
      PROVE  BonusRowsKept
  <2>1. tokens \in [Users -> Int] /\ rows \in [Refs -> [Users -> Int]]
    BY DEF TokensInv, TokensTypeOK
  <2>2. \A r \in Refs \ {ref} : rows'[r] = rows[r]
    BY <1>2, <2>1, RecordEffect
  <2> QED
    BY <1>2, <2>2 DEF BonusRowsKept, SameRows
<1>3. ASSUME NEW s \in Sessions, ClaimDailyCheckin(s) PROVE BonusRowsKept
  <2>1. CASE CheckinBonus > 0
    <3>1. /\ By[s] \in Users /\ held[s].tokens \in Int /\ CheckinBonus \in Int /\ today[s] \in Days
      BY SessionTyped
    <3>2. Ref("checkin", By[s], today[s]) \in Refs /\ Ref("checkin", By[s], today[s]).kind = "checkin"
      BY <3>1, RefFields, RefsHave
    <3> QED
      BY <1>2, <1>3, <2>1, <3>1, <3>2 DEF ClaimDailyCheckin
  <2>2. CASE ~ CheckinBonus > 0
    BY <1>1, <1>3, <2>2 DEF ClaimDailyCheckin, moneyVars
  <2> QED
    BY <2>1, <2>2
<1>4. ASSUME NEW t \in Transfers, NEW percent \in FeePercents, Transfer(t, percent)
      PROVE  BonusRowsKept
  <2>1. Ref("transfer", t, 0) \in Refs /\ Ref("transfer", t, 0).kind = "transfer"
    BY RefFields, RefsHave
  <2>2. rows \in [Refs -> [Users -> Int]]
    BY DEF TokensInv, TokensTypeOK
  <2> QED
    BY <1>4, <2>1, <2>2 DEF Transfer, BonusRowsKept, SameRows
<1>5. ASSUME NEW a \in Adjustments, AdminAdjust(a) PROVE BonusRowsKept
  <2>1. Adjusted[a] \in Users /\ Adjustment[a] \in Int
    BY TokensAssumption
  <2>2. tokens[Adjusted[a]] \in Int
    BY <2>1, UserTyped
  <2>3. Ref("admin", a, 0) \in Refs /\ Ref("admin", a, 0).kind = "admin"
    BY RefFields, RefsHave
  <2> QED
    BY <1>2, <1>5, <2>1, <2>2, <2>3 DEF AdminAdjust
<1>6. ASSUME NEW x \in Deposits, ApproveTokens(x) PROVE BonusRowsKept
  <2>1. Depositor[x] \in Users /\ TokenAmount[x] \in Int
    BY TokensAssumption
  <2>2. tokens[Depositor[x]] \in Int
    BY <2>1, UserTyped
  <2>3. Ref("deposit", x, 0) \in Refs /\ Ref("deposit", x, 0).kind = "deposit"
    BY RefFields, RefsHave
  <2> QED
    BY <1>2, <1>6, <2>1, <2>2, <2>3 DEF ApproveTokens
<1>7. CASE PayoutCommit
  BY <1>7 DEF PayoutCommit, BonusRowsKept, SameRows
<1>8. CASE \/ \E s \in Sessions : \/ Load(s) \/ Leave(s) \/ BeginCheckin(s)
                                  \/ \E joinOn, inviteOn \in BOOLEAN : BeginAward(s, joinOn, inviteOn)
           \/ \E x \in Deposits : RejectTokens(x)
           \/ \E top \in Rankings : BeginPayout(top)
           \/ PayoutLook \/ PayoutAbort \/ Midnight
           \/ UNCHANGED vars
  <2>1. rows' = rows
    BY <1>8 DEF Load, Leave, BeginAward, BeginCheckin, RejectTokens, BeginPayout, PayoutLook,
                PayoutAbort, Midnight, vars, moneyVars
  <2> QED
    BY <1>1, <2>1
<1> QED
  BY <1>3, <1>4, <1>5, <1>6, <1>7, <1>8 DEF Next

\* A session pays the bonuses it has decided to pay, and only those.
LEMMA CommitPaysDue ==
    ASSUME TokensInv, NEW s \in Sessions, CommitAward(s), NEW u \in Users
    PROVE  /\ rows'[Ref("join", u, 0)] # rows[Ref("join", u, 0)] => By[s] = u /\ award[s].join
           /\ rows'[Ref("invite", u, 0)] # rows[Ref("invite", u, 0)] =>
                 By[s] = u /\ award[s].invite
<1> DEFINE joins == Ref("join", By[s], 0)
           invites == Ref("invite", By[s], 0)
<1>1. /\ By[s] \in Users /\ joins \in Refs /\ invites \in Refs
      /\ rows \in [Refs -> [Users -> Int]]
  BY SessionTyped, RefsHave DEF TokensInv, TokensTypeOK
<1>2. /\ rows' \in [Refs -> [Users -> Int]]
      /\ \A q \in Refs \ {joins, invites} : rows'[q] = rows[q]
      /\ rows'[joins][By[s]] = rows[joins][By[s]] + (IF award[s].join THEN JoinBonus ELSE 0)
      /\ \A v \in Users \ {By[s]} : rows'[joins][v] = rows[joins][v]
      /\ \A v \in Users :
            rows'[invites][v] = rows[invites][v]
               + (IF award[s].invite /\ v = Referrer[By[s]] THEN InviteBonus ELSE 0)
  BY AwardRows
<1>3. ASSUME ~ award[s].join PROVE rows'[joins] = rows[joins]
  <2>1. \A v \in Users : rows'[joins][v] = rows[joins][v]
    BY <1>1, <1>2, <1>3
  <2> QED
    BY <1>1, <1>2, <2>1
<1>4. ASSUME ~ award[s].invite PROVE rows'[invites] = rows[invites]
  <2>1. \A v \in Users : rows'[invites][v] = rows[invites][v]
    BY <1>1, <1>2, <1>4
  <2> QED
    BY <1>1, <1>2, <2>1
<1>5. ASSUME By[s] # u
      PROVE  /\ rows'[Ref("join", u, 0)] = rows[Ref("join", u, 0)]
             /\ rows'[Ref("invite", u, 0)] = rows[Ref("invite", u, 0)]
  <2>1. /\ Ref("join", u, 0) \in Refs \ {joins, invites}
        /\ Ref("invite", u, 0) \in Refs \ {joins, invites}
    BY <1>5, RefFields, RefsHave
  <2> QED
    BY <1>2, <2>1
<1> QED
  BY <1>3, <1>4, <1>5

\* A bonus that was paid is paid again only by a handler that had loaded the user before:
\* whoever loads him afterwards sees the flag.
THEOREM BonusAgainOnlyWhenOverlapping == Spec => PaidAgainOnlyWhenOverlapping
<1> DEFINE running(u, f) == {s \in Sessions : /\ By[s] = u /\ Kind[s] = "start"
                                              /\ pc[s] \in {"loaded", "awarding"} /\ ~ f[s]}
           Again == \A u \in Users :
              /\ claimed[u] /\ rows'[Ref("join", u, 0)] # rows[Ref("join", u, 0)] =>
                    running(u, [s \in Sessions |-> held[s].claimed]) # {}
              /\ invited[u] /\ rows'[Ref("invite", u, 0)] # rows[Ref("invite", u, 0)] =>
                    running(u, [s \in Sessions |-> held[s].invited]) # {}
<1>1. TokensInv /\ [Next]_vars => [Again]_vars
  <2> SUFFICES ASSUME TokensInv, [Next]_vars PROVE Again
    OBVIOUS
  <2>1. CASE ~ \E s \in Sessions : CommitAward(s)
    <3>1. \A u \in Users : /\ rows'[Ref("join", u, 0)] = rows[Ref("join", u, 0)]
                           /\ rows'[Ref("invite", u, 0)] = rows[Ref("invite", u, 0)]
      BY <2>1, OthersKeepBonusRows, RefFields, RefsHave DEF BonusRowsKept, SameRows
    <3> QED
      BY <3>1
  <2>2. ASSUME NEW s \in Sessions, CommitAward(s), NEW u \in Users
        PROVE  /\ rows'[Ref("join", u, 0)] # rows[Ref("join", u, 0)] =>
                     running(u, [x \in Sessions |-> held[x].claimed]) # {}
               /\ rows'[Ref("invite", u, 0)] # rows[Ref("invite", u, 0)] =>
                     running(u, [x \in Sessions |-> held[x].invited]) # {}
    <3>1. pc[s] = "awarding" /\ Kind[s] = "start"
      BY <2>2 DEF CommitAward, TokensInv, ControlOK, AwardOK
    <3>2. (award[s].join => ~ held[s].claimed) /\ (award[s].invite => ~ held[s].invited)
      BY DEF TokensInv, ControlOK, AwardOK
    <3>3. ASSUME rows'[Ref("join", u, 0)] # rows[Ref("join", u, 0)]
          PROVE  s \in running(u, [x \in Sessions |-> held[x].claimed])
      BY <2>2, <3>1, <3>2, <3>3, CommitPaysDue
    <3>4. ASSUME rows'[Ref("invite", u, 0)] # rows[Ref("invite", u, 0)]
          PROVE  s \in running(u, [x \in Sessions |-> held[x].invited])
      BY <2>2, <3>1, <3>2, <3>4, CommitPaysDue
    <3> QED
      BY <3>3, <3>4
  <2> QED
    BY <2>1, <2>2
<1> QED
  BY <1>1, TokensInvariant, PTL DEF Spec, PaidAgainOnlyWhenOverlapping

-----------------------------------------------------------------------------
(* The balances that only move under a lock.                               *)

RowsOf(u) == {r \in Refs : rows[r][u] # 0}

\* Only finitely many rows have been written, and the balance is their sum.
LockedOK(u) ==
    /\ IsFiniteSet(RowsOf(u))
    /\ tokens[u] = Start[u] + SumFunctionOnSet([r \in Refs |-> rows[r][u]], RowsOf(u))

LockedInv == TokensInv /\ \A u \in LockedOnly : LockedOK(u)

LEMMA LockedKept ==
    ASSUME NEW u \in Users, LockedOK(u),
           tokens'[u] = tokens[u], \A r \in Refs : rows'[r][u] = rows[r][u]
    PROVE  LockedOK(u)'
<1>1. /\ [r \in Refs |-> rows'[r][u]] = [r \in Refs |-> rows[r][u]]
      /\ RowsOf(u)' = RowsOf(u)
  BY DEF RowsOf
<1> QED
  BY <1>1 DEF LockedOK

\* The balance and one of the rows move together.
LEMMA LockedMoves ==
    ASSUME NEW u \in Users, LockedOK(u), tokens[u] \in Int,
           \A r \in Refs : rows[r][u] \in Int,
           NEW ref \in Refs, NEW d \in Int,
           tokens'[u] = tokens[u] + d, rows'[ref][u] = rows[ref][u] + d,
           \A r \in Refs : r # ref => rows'[r][u] = rows[r][u]
    PROVE  LockedOK(u)'
<1> DEFINE f == [r \in Refs |-> rows[r][u]]
           g == [r \in Refs |-> rows'[r][u]]
           F == RowsOf(u)
           G == RowsOf(u)'
<1> DEFINE H == F \cup {ref}
<1>1. F \subseteq H /\ G \subseteq H /\ ref \in H /\ H \subseteq Refs
  BY DEF RowsOf
<1>2. /\ \A r \in H : f[r] \in Int
      /\ \A r \in H : g[r] \in Int
      /\ \A r \in H : r # ref => g[r] = f[r]
      /\ g[ref] = f[ref] + d
  BY <1>1
<1>3. (\A r \in H \ F : f[r] = 0) /\ (\A r \in H \ G : g[r] = 0)
  BY <1>1 DEF RowsOf
<1>4. IsFiniteSet(F) /\ tokens[u] = Start[u] + SumFunctionOnSet(f, F)
  BY DEF LockedOK
<1>5. IsFiniteSet(H) /\ IsFiniteSet(G)
  BY <1>1, <1>4, FS_AddElement, FS_Subset
<1> HIDE DEF f, g, F, G, H
<1>7. SumFunctionOnSet(f, H) = SumFunctionOnSet(f, F)
  BY <1>1, <1>2, <1>3, <1>5, SumRestrict
<1>8. SumFunctionOnSet(g, H) = SumFunctionOnSet(g, G)
  BY <1>1, <1>2, <1>3, <1>5, SumRestrict
<1>9. SumFunctionOnSet(g, H) = SumFunctionOnSet(f, H) + d
  BY <1>1, <1>2, <1>5, SumUpdate
<1>10. SumFunctionOnSet(f, H) \in Int /\ Start[u] \in Int
  BY <1>2, <1>5, SumInt, TokensAssumption
<1>6. tokens'[u] = Start[u] + SumFunctionOnSet(g, G)
  BY <1>4, <1>7, <1>8, <1>9, <1>10
<1> QED
  BY <1>5, <1>6 DEF LockedOK, g, G

\* A posting from a balance that is read under the lock.
LEMMA LockedPosting ==
    ASSUME TokensInv, NEW u \in Users, LockedOK(u),
           NEW v \in Users, NEW amount \in Int, NEW ref \in Refs,
           Record(v, tokens[v], amount, ref)
    PROVE  LockedOK(u)'
<1>1. /\ tokens \in [Users -> Int] /\ rows \in [Refs -> [Users -> Int]]
  BY DEF TokensInv, TokensTypeOK
<1>2. tokens[v] \in Int
  BY <1>1
<1>3. /\ tokens'[v] = tokens[v] + amount
      /\ \A x \in Users \ {v} : tokens'[x] = tokens[x] /\ rows'[ref][x] = rows[ref][x]
      /\ rows'[ref][v] = rows[ref][v] + amount
      /\ \A r \in Refs \ {ref} : rows'[r] = rows[r]
  BY <1>1, <1>2, RecordEffect
<1>4. CASE u = v
  <2>1. tokens[u] \in Int /\ \A r \in Refs : rows[r][u] \in Int
    BY <1>1
  <2>2. /\ tokens'[u] = tokens[u] + amount /\ rows'[ref][u] = rows[ref][u] + amount
        /\ \A r \in Refs : r # ref => rows'[r][u] = rows[r][u]
    BY <1>3, <1>4
  <2> QED
    BY <2>1, <2>2, LockedMoves
<1>5. CASE u # v
  <2>1. tokens'[u] = tokens[u] /\ \A r \in Refs : rows'[r][u] = rows[r][u]
    BY <1>3, <1>5
  <2> QED
    BY <2>1, LockedKept
<1> QED
  BY <1>4, <1>5

LEMMA LockedTransfer ==
    ASSUME TokensInv, NEW u \in Users, LockedOK(u),
           NEW t \in Transfers, NEW percent \in FeePercents, Transfer(t, percent)
    PROVE  LockedOK(u)'
<1> DEFINE from == From[t]
           to == To[t]
           sum == Sum[t]
           fee == TransferFee(sum, percent)
           ref == Ref("transfer", t, 0)
<1>1. /\ tokens' = [tokens EXCEPT ![from] = @ - sum - fee, ![to] = @ + sum]
      /\ rows' = [rows EXCEPT ![ref][from] = @ - sum - fee, ![ref][to] = @ + sum]
  BY DEF Transfer
<1>2. from \in Users /\ to \in Users /\ from # to /\ sum \in Nat /\ percent \in 0..100
  BY TokensAssumption
<1>3. fee \in Nat /\ ref \in Refs
  BY <1>2, FeeBounds, RefsHave
<1>4. /\ tokens \in [Users -> Int] /\ rows \in [Refs -> [Users -> Int]]
  BY DEF TokensInv, TokensTypeOK
<1> HIDE DEF from, to, sum, fee, ref
<1>5. /\ tokens'[from] = tokens[from] - sum - fee /\ tokens'[to] = tokens[to] + sum
      /\ rows'[ref][from] = rows[ref][from] - sum - fee
      /\ rows'[ref][to] = rows[ref][to] + sum
      /\ \A v \in Users \ {from, to} : tokens'[v] = tokens[v] /\ rows'[ref][v] = rows[ref][v]
      /\ \A r \in Refs : r # ref => rows'[r] = rows[r]
  BY <1>1, <1>2, <1>3, <1>4
<1>6. tokens[u] \in Int /\ \A r \in Refs : rows[r][u] \in Int
  BY <1>4
<1>7. \A r \in Refs : r # ref => rows'[r][u] = rows[r][u]
  BY <1>5
<1>8. CASE u = from
  <2> DEFINE d == - sum - fee
  <2>1. d \in Int /\ tokens'[u] = tokens[u] + d /\ rows'[ref][u] = rows[ref][u] + d
    BY <1>2, <1>3, <1>5, <1>6, <1>8
  <2> HIDE DEF d
  <2> QED
    BY <1>3, <1>6, <1>7, <2>1, LockedMoves
<1>9. CASE u = to
  <2>1. sum \in Int /\ tokens'[u] = tokens[u] + sum /\ rows'[ref][u] = rows[ref][u] + sum
    BY <1>2, <1>5, <1>9
  <2> QED
    BY <1>3, <1>6, <1>7, <2>1, LockedMoves
<1>10. CASE u # from /\ u # to
  <2>1. tokens'[u] = tokens[u] /\ \A r \in Refs : rows'[r][u] = rows[r][u]
    BY <1>5, <1>7, <1>10
  <2> QED
    BY <2>1, LockedKept
<1> QED
  BY <1>8, <1>9, <1>10

\* An award and a check-in are of the user of the session, and of his referrer.
LEMMA LockedSession ==
    ASSUME TokensInv, NEW u \in LockedOnly, LockedOK(u), NEW s \in Sessions,
           CommitAward(s) \/ ClaimDailyCheckin(s)
    PROVE  LockedOK(u)'
<1>1. u \in Users /\ u # By[s] /\ u # Referrer[By[s]] /\ By[s] \in Users
  BY SessionTyped DEF LockedOnly
<1>2. tokens \in [Users -> Int] /\ rows \in [Refs -> [Users -> Int]]
  BY DEF TokensInv, TokensTypeOK
<1>3. CASE CommitAward(s)
  <2>1. Known(s, u) = tokens[u] /\ AwardTo(s, u) = 0
    BY <1>1 DEF Known, AwardTo
  <2>2. tokens'[u] = tokens[u]
    BY <1>1, <1>2, <1>3, <2>1 DEF CommitAward
  <2> DEFINE joins == Ref("join", By[s], 0)
             invites == Ref("invite", By[s], 0)
  <2>3. /\ \A q \in Refs \ {joins, invites} : rows'[q] = rows[q]
        /\ \A v \in Users \ {By[s]} : rows'[joins][v] = rows[joins][v]
        /\ \A v \in Users :
              rows'[invites][v] = rows[invites][v]
                 + (IF award[s].invite /\ v = Referrer[By[s]] THEN InviteBonus ELSE 0)
    BY <1>3, AwardRows
  <2>4. invites \in Refs
    BY <1>1, RefsHave
  <2> HIDE DEF joins, invites
  <2>5. rows'[invites][u] = rows[invites][u]
    BY <1>1, <1>2, <2>3, <2>4
  <2>6. \A r \in Refs : rows'[r][u] = rows[r][u]
    BY <1>1, <2>3, <2>5
  <2> QED
    BY <1>1, <2>2, <2>6, LockedKept
<1>4. CASE ClaimDailyCheckin(s)
  <2>1. CASE CheckinBonus > 0
    <3> DEFINE ref == Ref("checkin", By[s], today[s])
    <3>1. /\ held[s].tokens \in Int /\ CheckinBonus \in Int /\ today[s] \in Days
      BY SessionTyped
    <3>2. ref \in Refs
      BY <1>1, <3>1, RefsHave
    <3>3. Record(By[s], held[s].tokens, CheckinBonus, ref)
      BY <1>4, <2>1 DEF ClaimDailyCheckin
    <3> HIDE DEF ref
    <3>4. /\ tokens'[u] = tokens[u] /\ rows'[ref][u] = rows[ref][u]
          /\ \A r \in Refs \ {ref} : rows'[r] = rows[r]
      BY <1>1, <1>2, <3>1, <3>2, <3>3, RecordEffect
    <3> QED
      BY <1>1, <3>4, LockedKept
  <2>2. CASE ~ CheckinBonus > 0
    BY <1>1, <1>4, <2>2, LockedKept DEF ClaimDailyCheckin, moneyVars
  <2> QED
    BY <2>1, <2>2
<1> QED
  BY <1>3, <1>4

\* The payout is for the users on a leaderboard.
LEMMA LockedPayout ==
    ASSUME TokensInv, NEW u \in LockedOnly, LockedOK(u), PayoutCommit
    PROVE  LockedOK(u)'
<1>1. u \in Users /\ \A top \in Rankings : \A i \in DOMAIN top : top[i] # u
  BY DEF LockedOnly
<1>2. payout.top \in Rankings \cup {<<>>}
  BY DEF TokensInv, TokensTypeOK
<1>3. RankOf(u) = 0
  BY <1>1, <1>2 DEF RankOf
<1>4. tokens \in [Users -> Int] /\ rows \in [Refs -> [Users -> Int]]
  BY DEF TokensInv, TokensTypeOK
<1>5. tokens'[u] = tokens[u]
  BY <1>1, <1>3 DEF PayoutCommit
<1>6. ASSUME NEW r \in Refs
      PROVE  rows'[r][u] = rows[r][u]
  <2>1. rows'[r] = IF r.kind = "weekly" /\ r.when = payout.week /\ RankOf(r.of) # 0
                   THEN [rows[r] EXCEPT ![r.of] = @ + Reward[RankOf(r.of)]]
                   ELSE rows[r]
    BY DEF PayoutCommit
  <2>2. RankOf(r.of) # 0 => r.of # u
    BY <1>3
  <2>3. rows[r] \in [Users -> Int]
    BY <1>4
  <2> QED
    BY <1>1, <2>1, <2>2, <2>3
<1> QED
  BY <1>1, <1>5, <1>6, LockedKept

LEMMA LockedInit == Init => LockedInv
<1> SUFFICES ASSUME Init, NEW u \in LockedOnly PROVE LockedOK(u)
  BY TokensInit DEF LockedInv
<1>1. u \in Users /\ Start[u] \in Int
  BY TokensAssumption DEF LockedOnly
<1>2. RowsOf(u) = {}
  BY <1>1 DEF Init, RowsOf
<1>3. SumFunctionOnSet([r \in Refs |-> rows[r][u]], {}) = 0
  BY SumEmpty
<1> QED
  BY <1>1, <1>2, <1>3, FS_EmptySet DEF Init, LockedOK

LEMMA LockedStep == LockedInv /\ [Next]_vars => LockedInv'
<1> SUFFICES ASSUME LockedInv, [Next]_vars, NEW u \in LockedOnly PROVE LockedOK(u)'
  BY TokensStep DEF LockedInv, LockedOnly
<1>1. TokensInv /\ LockedOK(u) /\ u \in Users
  BY DEF LockedInv, LockedOnly
<1>2. ASSUME NEW s \in Sessions, CommitAward(s) \/ ClaimDailyCheckin(s) PROVE LockedOK(u)'
  BY <1>1, <1>2, LockedSession
<1>3. ASSUME NEW t \in Transfers, NEW percent \in FeePercents, Transfer(t, percent)
      PROVE  LockedOK(u)'
  BY <1>1, <1>3, LockedTransfer
<1>4. ASSUME NEW a \in Adjustments, AdminAdjust(a) PROVE LockedOK(u)'
  <2>1. Adjusted[a] \in Users /\ Adjustment[a] \in Int /\ Ref("admin", a, 0) \in Refs
    BY TokensAssumption, RefsHave
  <2> QED
    BY <1>1, <1>4, <2>1, LockedPosting DEF AdminAdjust
<1>5. ASSUME NEW x \in Deposits, ApproveTokens(x) PROVE LockedOK(u)'
  <2>1. Depositor[x] \in Users /\ TokenAmount[x] \in Int /\ Ref("deposit", x, 0) \in Refs
    BY TokensAssumption, RefsHave
  <2> QED
    BY <1>1, <1>5, <2>1, LockedPosting DEF ApproveTokens
<1>6. CASE PayoutCommit
  BY <1>1, <1>6, LockedPayout
<1>7. CASE \/ \E s \in Sessions : \/ Load(s) \/ Leave(s) \/ BeginCheckin(s)
                                  \/ \E joinOn, inviteOn \in BOOLEAN : BeginAward(s, joinOn, inviteOn)
           \/ \E x \in Deposits : RejectTokens(x)
           \/ \E top \in Rankings : BeginPayout(top)
           \/ PayoutLook \/ PayoutAbort \/ Midnight
           \/ UNCHANGED vars
  <2>1. tokens' = tokens /\ rows' = rows
    BY <1>7 DEF Load, Leave, BeginAward, BeginCheckin, RejectTokens, BeginPayout, PayoutLook,
                PayoutAbort, Midnight, vars, moneyVars
  <2> QED
    BY <1>1, <2>1, LockedKept
<1> QED
  BY <1>2, <1>3, <1>4, <1>5, <1>6, <1>7 DEF Next

LEMMA LockedInvariant == Spec => []LockedInv
BY LockedInit, LockedStep, PTL DEF Spec

\* Whoever has no session himself, has invited nobody who has one and is on no leaderboard
\* has exactly the tokens his token_transactions add up to: transfers, deposits and the
\* adjustments of the admins read the balance under its lock (game_service.py:57-157).
THEOREM LockedBalancesAreRows == Spec => []LockedBalanceMatchesRows
<1>1. LockedInv => LockedBalanceMatchesRows
  BY DEF LockedInv, LockedOK, RowsOf, LockedBalanceMatchesRows
<1> QED
  BY <1>1, LockedInvariant, PTL
=============================================================================
