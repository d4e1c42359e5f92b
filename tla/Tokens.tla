------------------------------- MODULE Tokens -------------------------------
(***************************************************************************)
(* Access Tokens outside the games: the bonuses of services/               *)
(* user_service.py (joining, inviting, the daily check-in), the weekly     *)
(* leaderboard reward, transfers between users, manual token deposits and  *)
(* the adjustments of the admins, all through TokenService.                *)
(*                                                                         *)
(* A session is one /start, one press of "check my membership" or one      *)
(* press of the check-in button.  Its handler loads the user, commits,     *)
(* asks Telegram about the required channels, and only then looks at the   *)
(* flags and credits tokens: from the user object of the beginning, since  *)
(* the row lock of TokenService does not refresh an object the session     *)
(* holds.  The weekly payout reads each winner without a lock before it    *)
(* locks him.  Transfers, deposits and adjustments load the users under    *)
(* the lock, and are one step.                                             *)
(***************************************************************************)
EXTENDS Integers, Sequences, Functions

CONSTANTS
    Users, NoUser,
    Referrer,       \* Referrer[u]: users.referred_by, or NoUser
    Start,          \* Start[u]: the tokens u has to begin with
    Sessions,       \* presses of /start, "check my membership" and check-in
    By,             \* By[s]: whose press it is
    Kind,           \* Kind[s]: "start" or "checkin"
    JoinBonus, InviteBonus, CheckinBonus,   \* the amounts in the settings
    Reward,         \* Reward[i]: weekly_leaderboard_reward_top<i>
    Rankings,       \* the leaderboards a week may end with
    FirstDay, LastDay,      \* bound: the days that are modelled
    Transfers,      \* confirmation messages of a transfer
    From, To, Sum,  \* who sends how much to whom
    FeePercents,    \* values the setting token_transfer_fee_percent takes
    MaxPresses,     \* bound: presses of one confirmation button
    Deposits,       \* requests of the type TOKEN
    Depositor, TokenAmount,
    Adjustments,    \* /token_add commands of the admins
    Adjusted, Adjustment

ASSUME TokensAssumption ==
    /\ NoUser \notin Users
    /\ Referrer \in [Users -> Users \cup {NoUser}]
    /\ \A u \in Users : Referrer[u] # u
    /\ Start \in [Users -> Nat]
    /\ By \in [Sessions -> Users]
    /\ Kind \in [Sessions -> {"start", "checkin"}]
    /\ JoinBonus \in Nat /\ InviteBonus \in Nat /\ CheckinBonus \in Nat
    /\ Reward \in [1..3 -> Nat]
    /\ \A r \in Rankings :
          /\ r \in Seq(Users) /\ Len(r) <= 3
          /\ \A i, j \in DOMAIN r : r[i] = r[j] => i = j
    /\ FirstDay \in Nat /\ LastDay \in Nat /\ FirstDay <= LastDay
    /\ From \in [Transfers -> Users] /\ To \in [Transfers -> Users]
    /\ \A t \in Transfers : From[t] # To[t]
    /\ Sum \in [Transfers -> Nat \ {0}]
    /\ FeePercents \subseteq 0..100
    /\ MaxPresses \in Nat
    /\ Depositor \in [Deposits -> Users]
    /\ TokenAmount \in [Deposits -> Nat \ {0}]
    /\ Adjusted \in [Adjustments -> Users]
    /\ Adjustment \in [Adjustments -> Int]

VARIABLES
    tokens,     \* users.token_balance
    rows,       \* rows[r][u]: the sum of u's token_transactions that refer to r
    claimed,    \* users.join_bonus_claimed
    invited,    \* users.referral_bonus_paid
    checkin,    \* users.last_checkin_date and users.checkin_streak
    paidWeek,   \* the setting weekly_leaderboard_last_payout
    day,        \* today
    pressed,    \* how often a transfer was confirmed
    request,    \* deposit_requests.status
    applied,    \* adjustments that were made
    pc,         \* where a session is
    held,       \* the user object of a session
    award,      \* what a session has decided to pay
    today,      \* the day a check-in session has taken for today
    payout,     \* the running weekly payout
    lock        \* who holds the row of a user between two steps

flagVars    == <<claimed, invited, checkin>>
moneyVars   == <<tokens, rows>>
adminVars   == <<pressed, request, applied>>
sessionVars == <<pc, held, award, today>>

vars == <<moneyVars, flagVars, paidWeek, day, adminVars, sessionVars, payout, lock>>

Days == FirstDay..LastDay

Week(d) == d \div 7

Weeks == {Week(d) : d \in Days}

\* token_transactions.reference_id
Ref(kind, of, when) == [kind |-> kind, of |-> of, when |-> when]

Refs == {Ref(k, u, 0) : k \in {"join", "invite"}, u \in Users}
           \cup {Ref("checkin", u, d) : u \in Users, d \in Days}
           \cup {Ref("weekly", u, w) : u \in Users, w \in Weeks}
           \cup {Ref("transfer", t, 0) : t \in Transfers}
           \cup {Ref("deposit", x, 0) : x \in Deposits}
           \cup {Ref("admin", a, 0) : a \in Adjustments}

Never  == [last |-> FirstDay - 2, streak |-> 0]
NoneHeld == [tokens |-> 0, claimed |-> FALSE, invited |-> FALSE, checkin |-> Never]
Nothing == [join |-> FALSE, invite |-> FALSE, seen |-> 0]
Resting == [on |-> FALSE, week |-> 0, top |-> <<>>, seen |-> <<>>]

Init ==
    /\ tokens = Start
    /\ rows = [r \in Refs |-> [u \in Users |-> 0]]
    /\ claimed = [u \in Users |-> FALSE]
    /\ invited = [u \in Users |-> FALSE]
    /\ checkin = [u \in Users |-> Never]
    /\ paidWeek = -1
    /\ day = FirstDay
    /\ pressed = [t \in Transfers |-> 0]
    /\ request = [x \in Deposits |-> "PENDING"]
    /\ applied = {}
    /\ pc = [s \in Sessions |-> "idle"]
    /\ held = [s \in Sessions |-> NoneHeld]
    /\ award = [s \in Sessions |-> Nothing]
    /\ today = [s \in Sessions |-> FirstDay]
    /\ payout = Resting
    /\ lock = [u \in Users |-> "free"]

Free(u) == lock[u] = "free"

-----------------------------------------------------------------------------
(* TokenService.                                                           *)

\* _record: the balance the session knows of u, plus amount, and a row.
Record(u, seen, amount, ref) ==
    /\ tokens' = [tokens EXCEPT ![u] = seen + amount]
    /\ rows' = [rows EXCEPT ![ref][u] = @ + amount]

TransferFee(amount, percent) == (amount * percent) \div 100

\* Mutant of Transfer: the balance is compared with the sum alone.
TransferWithoutFee(t, percent) ==
    LET fee == TransferFee(Sum[t], percent)
    IN  /\ pressed[t] < MaxPresses
        /\ Free(From[t]) /\ Free(To[t])
        /\ tokens[From[t]] >= Sum[t]
        /\ tokens' = [tokens EXCEPT ![From[t]] = @ - Sum[t] - fee, ![To[t]] = @ + Sum[t]]
        /\ rows' = [rows EXCEPT ![Ref("transfer", t, 0)][From[t]] = @ - Sum[t] - fee,
                                ![Ref("transfer", t, 0)][To[t]] = @ + Sum[t]]
        /\ pressed' = [pressed EXCEPT ![t] = @ + 1]
        /\ UNCHANGED <<flagVars, paidWeek, day, request, applied, sessionVars, payout, lock>>

\* Mutant of Transfer: the fee is taken without a row.
TransferFeeUnrecorded(t, percent) ==
    LET fee == TransferFee(Sum[t], percent)
    IN  /\ pressed[t] < MaxPresses
        /\ Free(From[t]) /\ Free(To[t])
        /\ tokens[From[t]] >= Sum[t] + fee
        /\ tokens' = [tokens EXCEPT ![From[t]] = @ - Sum[t] - fee, ![To[t]] = @ + Sum[t]]
        /\ rows' = [rows EXCEPT ![Ref("transfer", t, 0)][From[t]] = @ - Sum[t],
                                ![Ref("transfer", t, 0)][To[t]] = @ + Sum[t]]
        /\ pressed' = [pressed EXCEPT ![t] = @ + 1]
        /\ UNCHANGED <<flagVars, paidWeek, day, request, applied, sessionVars, payout, lock>>

\* Both users are locked in the order of their ids and read under the lock.  Nothing
\* remembers that a confirmation was used: every press transfers again.
Transfer(t, percent) ==
    LET fee == TransferFee(Sum[t], percent)
    IN  /\ pressed[t] < MaxPresses
        /\ Free(From[t]) /\ Free(To[t])
        /\ tokens[From[t]] >= Sum[t] + fee
        /\ tokens' = [tokens EXCEPT ![From[t]] = @ - Sum[t] - fee, ![To[t]] = @ + Sum[t]]
        /\ rows' = [rows EXCEPT ![Ref("transfer", t, 0)][From[t]] = @ - Sum[t] - fee,
                                ![Ref("transfer", t, 0)][To[t]] = @ + Sum[t]]
        /\ pressed' = [pressed EXCEPT ![t] = @ + 1]
        /\ UNCHANGED <<flagVars, paidWeek, day, request, applied, sessionVars, payout, lock>>

AdminAdjust(a) ==
    LET u == Adjusted[a]
    IN  /\ a \notin applied
        /\ Free(u)
        /\ tokens[u] + Adjustment[a] >= 0
        /\ Record(u, tokens[u], Adjustment[a], Ref("admin", a, 0))
        /\ applied' = applied \cup {a}
        /\ UNCHANGED <<flagVars, paidWeek, day, pressed, request, sessionVars, payout, lock>>

\* Mutant of ApproveTokens: an approved request can be approved again.
ApproveTwice(x) ==
    LET u == Depositor[x]
    IN  /\ request[x] # "REJECTED"
        /\ Free(u)
        /\ request' = [request EXCEPT ![x] = "APPROVED"]
        /\ Record(u, tokens[u], TokenAmount[x], Ref("deposit", x, 0))
        /\ UNCHANGED <<flagVars, paidWeek, day, pressed, applied, sessionVars, payout, lock>>

\* DepositService.approve for a request of the type TOKEN: one commit.
ApproveTokens(x) ==
    LET u == Depositor[x]
    IN  /\ request[x] = "PENDING"
        /\ Free(u)
        /\ request' = [request EXCEPT ![x] = "APPROVED"]
        /\ Record(u, tokens[u], TokenAmount[x], Ref("deposit", x, 0))
        /\ UNCHANGED <<flagVars, paidWeek, day, pressed, applied, sessionVars, payout, lock>>

\* Mutant of RejectTokens: a status that requests do not have.
RejectUnknown(x) ==
    /\ request[x] = "PENDING"
    /\ request' = [request EXCEPT ![x] = "CANCELLED"]
    /\ UNCHANGED <<moneyVars, flagVars, paidWeek, day, pressed, applied, sessionVars, payout, lock>>

RejectTokens(x) ==
    /\ request[x] = "PENDING"
    /\ request' = [request EXCEPT ![x] = "REJECTED"]
    /\ UNCHANGED <<moneyVars, flagVars, paidWeek, day, pressed, applied, sessionVars, payout, lock>>

-----------------------------------------------------------------------------
(* The handlers of /start, membership:check and check-in.                  *)

\* get_or_create loads the user, and the handler keeps the object.
Load(s) ==
    LET u == By[s]
    IN  /\ pc[s] = "idle"
        /\ pc' = [pc EXCEPT ![s] = "loaded"]
        /\ held' = [held EXCEPT ![s] = [tokens |-> tokens[u], claimed |-> claimed[u],
                                        invited |-> invited[u], checkin |-> checkin[u]]]
        /\ UNCHANGED <<moneyVars, flagVars, paidWeek, day, adminVars, award, today, payout, lock>>

\* The session ends, and its objects with it.
Close(s) ==
    /\ pc' = [pc EXCEPT ![s] = "done"]
    /\ held' = [held EXCEPT ![s] = NoneHeld]
    /\ award' = [award EXCEPT ![s] = Nothing]
    /\ today' = [today EXCEPT ![s] = FirstDay]

\* The handler ends without paying: not a member of a required channel, a bonus that is
\* switched off, a check-in that was already made, an exception, a restart.  What was
\* not committed is rolled back and the locks are given up.
Leave(s) ==
    /\ pc[s] \in {"loaded", "claiming", "awarding"}
    /\ Close(s)
    /\ lock' = [u \in Users |-> IF lock[u] = s THEN "free" ELSE lock[u]]
    /\ UNCHANGED <<moneyVars, flagVars, paidWeek, day, adminVars, payout>>

\* Mutant of BeginAward: the flag of the join bonus is not consulted.
BeginAwardUnchecked(s, joinOn, inviteOn) ==
    LET u      == By[s]
        r      == Referrer[u]
        join   == joinOn /\ JoinBonus > 0
        invite == r # NoUser /\ ~ held[s].invited /\ inviteOn /\ InviteBonus > 0
    IN  /\ pc[s] = "loaded"
        /\ Kind[s] = "start"
        /\ join \/ invite
        /\ join => Free(u)
        /\ lock' = IF join THEN [lock EXCEPT ![u] = s] ELSE lock
        /\ award' = [award EXCEPT ![s] = [join |-> join, invite |-> invite,
                                          seen |-> IF invite THEN tokens[r] ELSE 0]]
        /\ pc' = [pc EXCEPT ![s] = "awarding"]
        /\ UNCHANGED <<moneyVars, flagVars, paidWeek, day, adminVars, held, today, payout>>

\* award_start_bonuses up to the unlocked read of the referrer: what is due, by the
\* flags of the held object and the switches of the moment.  The join bonus has locked
\* the user's row by then.
BeginAward(s, joinOn, inviteOn) ==
    LET u      == By[s]
        r      == Referrer[u]
        join   == ~ held[s].claimed /\ joinOn /\ JoinBonus > 0
        invite == r # NoUser /\ ~ held[s].invited /\ inviteOn /\ InviteBonus > 0
    IN  /\ pc[s] = "loaded"
        /\ Kind[s] = "start"
        /\ join \/ invite
        /\ join => Free(u)
        /\ lock' = IF join THEN [lock EXCEPT ![u] = s] ELSE lock
        /\ award' = [award EXCEPT ![s] = [join |-> join, invite |-> invite,
                                          seen |-> IF invite THEN tokens[r] ELSE 0]]
        /\ pc' = [pc EXCEPT ![s] = "awarding"]
        /\ UNCHANGED <<moneyVars, flagVars, paidWeek, day, adminVars, held, today, payout>>

\* What the award of session s pays to user u.
AwardTo(s, u) ==
    (IF award[s].join /\ u = By[s] THEN JoinBonus ELSE 0)
       + (IF award[s].invite /\ u = Referrer[By[s]] THEN InviteBonus ELSE 0)

\* The balance of u that the session of s adds to.
Known(s, u) ==
    IF award[s].join /\ u = By[s] THEN held[s].tokens
    ELSE IF award[s].invite /\ u = Referrer[By[s]] THEN award[s].seen
    ELSE tokens[u]

\* Mutant of CommitAward: the flag of the invitation is set on the referrer's row.
AwardFlagsReferrer(s) ==
    LET u == By[s]
        r == Referrer[u]
    IN  /\ pc[s] = "awarding"
        /\ lock[u] \in {"free", s}
        /\ award[s].invite => Free(r)
        /\ tokens' = [x \in Users |-> Known(s, x) + AwardTo(s, x)]
        /\ rows' = [rows EXCEPT ![Ref("join", u, 0)][u] = @ + IF award[s].join THEN JoinBonus ELSE 0,
                                ![Ref("invite", u, 0)] = [x \in Users |->
                                    @[x] + IF award[s].invite /\ x = r THEN InviteBonus ELSE 0]]
        /\ claimed' = [claimed EXCEPT ![u] = @ \/ award[s].join]
        /\ invited' = IF award[s].invite THEN [invited EXCEPT ![r] = TRUE] ELSE invited
        /\ lock' = [lock EXCEPT ![u] = "free"]
        /\ Close(s)
        /\ UNCHANGED <<checkin, paidWeek, day, adminVars, payout>>

\* The rest of award_start_bonuses: the referrer is locked and credited, the flags are
\* written to the user's row, and everything is committed at once.
CommitAward(s) ==
    LET u == By[s]
        r == Referrer[u]
    IN  /\ pc[s] = "awarding"
        /\ lock[u] \in {"free", s}
        /\ award[s].invite => Free(r)
        /\ tokens' = [x \in Users |-> Known(s, x) + AwardTo(s, x)]
        /\ rows' = [rows EXCEPT ![Ref("join", u, 0)][u] = @ + IF award[s].join THEN JoinBonus ELSE 0,
                                ![Ref("invite", u, 0)] = [x \in Users |->
                                    @[x] + IF award[s].invite /\ x = r THEN InviteBonus ELSE 0]]
        /\ claimed' = [claimed EXCEPT ![u] = @ \/ award[s].join]
        /\ invited' = [invited EXCEPT ![u] = @ \/ award[s].invite]
        /\ lock' = [lock EXCEPT ![u] = "free"]
        /\ Close(s)
        /\ UNCHANGED <<checkin, paidWeek, day, adminVars, payout>>

\* claim_daily_checkin up to the question whether today's check-in was made: by the held
\* object, and with the date that all of the rest goes by.
BeginCheckin(s) ==
    /\ pc[s] = "loaded"
    /\ Kind[s] = "checkin"
    /\ held[s].checkin.last # day
    /\ today' = [today EXCEPT ![s] = day]
    /\ pc' = [pc EXCEPT ![s] = "claiming"]
    /\ UNCHANGED <<moneyVars, flagVars, paidWeek, day, adminVars, held, award, payout, lock>>

\* Mutant of NextStreak: a missed day does not break the streak.
StreakKept(c, d) == [last |-> d, streak |-> c.streak + 1]

\* The check-in of day d of a user whose last one is c.
NextStreak(c, d) ==
    [last |-> d, streak |-> IF c.last = d - 1 THEN c.streak + 1 ELSE 1]

\* The amount was read meanwhile, and the user's row is locked.  Date, streak and tokens
\* are computed from the held object, and it may be past midnight.
ClaimDailyCheckin(s) ==
    LET u == By[s]
        d == today[s]
    IN  /\ pc[s] = "claiming"
        /\ Free(u)
        /\ checkin' = [checkin EXCEPT ![u] = NextStreak(held[s].checkin, d)]
        /\ IF CheckinBonus > 0
           THEN Record(u, held[s].tokens, CheckinBonus, Ref("checkin", u, d))
           ELSE UNCHANGED moneyVars
        /\ Close(s)
        /\ UNCHANGED <<claimed, invited, paidWeek, day, adminVars, payout, lock>>

-----------------------------------------------------------------------------
(* The weekly leaderboard reward, at the end of each scheduler iteration.  *)

\* Mutant of BeginPayout: the marker of the last payout is not looked at.
BeginPayoutAgain(top) ==
    /\ ~ payout.on
    /\ \A i \in DOMAIN top : Reward[i] > 0
    /\ payout' = [on |-> TRUE, week |-> Week(day), top |-> top, seen |-> <<>>]
    /\ UNCHANGED <<moneyVars, flagVars, paidWeek, day, adminVars, sessionVars, lock>>

\* The reward is switched on and this week was not paid yet: the ranking is computed.
\* A rank without a reward is skipped: rankings are restricted to the ranks that pay.
BeginPayout(top) ==
    /\ ~ payout.on
    /\ paidWeek # Week(day)
    /\ \A i \in DOMAIN top : Reward[i] > 0
    /\ payout' = [on |-> TRUE, week |-> Week(day), top |-> top, seen |-> <<>>]
    /\ UNCHANGED <<moneyVars, flagVars, paidWeek, day, adminVars, sessionVars, lock>>

\* The next winner is read without a lock, after the one before him was locked.
PayoutLook ==
    LET k == Len(payout.seen)
    IN  /\ payout.on
        /\ k < Len(payout.top)
        /\ k > 0 => Free(payout.top[k])
        /\ payout' = [payout EXCEPT !.seen = Append(@, tokens[payout.top[k + 1]])]
        /\ lock' = IF k > 0 THEN [lock EXCEPT ![payout.top[k]] = "scheduler"] ELSE lock
        /\ UNCHANGED <<moneyVars, flagVars, paidWeek, day, adminVars, sessionVars>>

\* The rank of u in the running payout, or 0.
RankOf(u) ==
    IF \E i \in DOMAIN payout.top : payout.top[i] = u
    THEN CHOOSE i \in DOMAIN payout.top : payout.top[i] = u
    ELSE 0

\* The last winner is locked, and settings.set commits the rewards with the marker.
PayoutCommit ==
    LET n == Len(payout.top)
    IN  /\ payout.on
        /\ Len(payout.seen) = n
        /\ n > 0 => Free(payout.top[n])
        /\ tokens' = [u \in Users |->
                         IF RankOf(u) = 0 THEN tokens[u]
                         ELSE payout.seen[RankOf(u)] + Reward[RankOf(u)]]
        /\ rows' = [r \in Refs |->
                       IF r.kind = "weekly" /\ r.when = payout.week /\ RankOf(r.of) # 0
                       THEN [rows[r] EXCEPT ![r.of] = @ + Reward[RankOf(r.of)]]
                       ELSE rows[r]]
        /\ paidWeek' = payout.week
        /\ payout' = Resting
        /\ lock' = [u \in Users |-> IF lock[u] = "scheduler" THEN "free" ELSE lock[u]]
        /\ UNCHANGED <<flagVars, day, adminVars, sessionVars>>

\* The payout fails or the process restarts: all of it is rolled back.
PayoutAbort ==
    /\ payout.on
    /\ payout' = Resting
    /\ lock' = [u \in Users |-> IF lock[u] = "scheduler" THEN "free" ELSE lock[u]]
    /\ UNCHANGED <<moneyVars, flagVars, paidWeek, day, adminVars, sessionVars>>

Midnight ==
    /\ day < LastDay
    /\ day' = day + 1
    /\ UNCHANGED <<moneyVars, flagVars, paidWeek, adminVars, sessionVars, payout, lock>>

-----------------------------------------------------------------------------
Next ==
    \/ \E s \in Sessions :
         \/ Load(s)
         \/ Leave(s)
         \/ \E joinOn, inviteOn \in BOOLEAN : BeginAward(s, joinOn, inviteOn)
         \/ CommitAward(s)
         \/ BeginCheckin(s)
         \/ ClaimDailyCheckin(s)
    \/ \E t \in Transfers, percent \in FeePercents : Transfer(t, percent)
    \/ \E a \in Adjustments : AdminAdjust(a)
    \/ \E x \in Deposits : ApproveTokens(x) \/ RejectTokens(x)
    \/ \E top \in Rankings : BeginPayout(top)
    \/ PayoutLook
    \/ PayoutCommit
    \/ PayoutAbort
    \/ Midnight

Spec == Init /\ [][Next]_vars
-----------------------------------------------------------------------------
(* Properties.                                                             *)

TokensTypeOK ==
    /\ tokens \in [Users -> Int]
    /\ rows \in [Refs -> [Users -> Int]]
    /\ claimed \in [Users -> BOOLEAN] /\ invited \in [Users -> BOOLEAN]
    /\ checkin \in [Users -> [last : Int, streak : Int]]
    /\ paidWeek \in Int
    /\ day \in Int
    /\ pressed \in [Transfers -> Nat]
    /\ request \in [Deposits -> {"PENDING", "APPROVED", "REJECTED"}]
    /\ applied \subseteq Adjustments
    /\ pc \in [Sessions -> {"idle", "loaded", "claiming", "awarding", "done"}]
    /\ held \in [Sessions -> [tokens : Int, claimed : BOOLEAN, invited : BOOLEAN,
                              checkin : [last : Int, streak : Int]]]
    /\ award \in [Sessions -> [join : BOOLEAN, invite : BOOLEAN, seen : Int]]
    /\ today \in [Sessions -> Days]
    /\ payout \in [on : BOOLEAN, week : Int, top : Rankings \cup {<<>>}, seen : Seq(Int)]
    /\ lock \in [Users -> Sessions \cup {"free", "scheduler"}]

\* Nobody owes tokens: no transfer, award or payout, whatever balance it started from,
\* leaves a user below zero.
NoDebt == \A u \in Users : tokens[u] >= 0

\* A flag and the bonus it stands for are committed together: the flag of a user is set
\* exactly if the bonus was recorded for the right person (user_service.py:104-130).
FlagsMatchBonuses ==
    \A u \in Users :
        /\ claimed[u] <=> rows[Ref("join", u, 0)][u] > 0
        /\ invited[u] <=> \E r \in Users : rows[Ref("invite", u, 0)][r] > 0
        /\ \A r \in Users : rows[Ref("invite", u, 0)][r] # 0 => r = Referrer[u]

\* A bonus is paid again only to a handler that was already running when it was paid
\* first: for every session that loads the user afterwards, the flag is the end of it.
PaidAgainOnlyWhenOverlapping ==
    [][\A u \in Users :
         LET running(f) == {s \in Sessions : /\ By[s] = u /\ Kind[s] = "start"
                                             /\ pc[s] \in {"loaded", "awarding"} /\ ~ f[s]}
         IN  /\ claimed[u] /\ rows'[Ref("join", u, 0)] # rows[Ref("join", u, 0)] =>
                   running([s \in Sessions |-> held[s].claimed]) # {}
             /\ invited[u] /\ rows'[Ref("invite", u, 0)] # rows[Ref("invite", u, 0)] =>
                   running([s \in Sessions |-> held[s].invited]) # {}]_vars

\* A streak of n days was earned: where a check-in pays, and so leaves a row, the user has
\* one for each of the n days that end with the last one, however late a session writes
\* what it computed.
StreakEarned ==
    CheckinBonus > 0 => \A u \in Users :
        \A d \in (checkin[u].last - checkin[u].streak + 1)..checkin[u].last :
            rows[Ref("checkin", u, d)][u] > 0

\* A week is rewarded at most once: before the marker of a week is set nobody has a row
\* of it, and with it nobody has more than the best reward, although the payout is
\* retried every two seconds until it succeeds (game_service.py:376-425).
WeekPaidOnce ==
    \A u \in Users : \A w \in Weeks :
        LET paid == rows[Ref("weekly", u, w)][u]
        IN  /\ paid # 0 => w <= paidWeek
            /\ paid \in {0, Reward[1], Reward[2], Reward[3]}

\* Every press of a transfer moved the sum to the recipient and took the sum and a fee
\* of at most the whole sum from the sender, and every approved deposit was credited
\* once; nobody else has a row of it.
MovesBalance ==
    /\ \A t \in Transfers :
          LET moved == rows[Ref("transfer", t, 0)]
          IN  /\ moved[To[t]] = pressed[t] * Sum[t]
              /\ moved[From[t]] \in (-2 * pressed[t] * Sum[t])..(-pressed[t] * Sum[t])
              /\ \A u \in Users \ {From[t], To[t]} : moved[u] = 0
    /\ \A x \in Deposits : \A u \in Users :
          rows[Ref("deposit", x, 0)][u] =
             IF request[x] = "APPROVED" /\ u = Depositor[x] THEN TokenAmount[x] ELSE 0

\* The users whose balance only moves under a lock that was taken before it was read.
LockedOnly ==
    {u \in Users : /\ \A s \in Sessions : u # By[s] /\ u # Referrer[By[s]]
                   /\ \A top \in Rankings : \A i \in DOMAIN top : top[i] # u}

\* For them, the balance is what the rows say it is.
LockedBalanceMatchesRows ==
    \A u \in LockedOnly :
        tokens[u] = Start[u] +
            SumFunctionOnSet([r \in Refs |-> rows[r][u]], {r \in Refs : rows[r][u] # 0})

\* What user_service.py:87-88 and models/user.py:39-42 say: each of the two bonuses is
\* paid exactly once per user, however often /start or the button is pressed.
BonusOnce ==
    \A u, r \in Users :
        /\ rows[Ref("join", u, 0)][r] <= JoinBonus
        /\ rows[Ref("invite", u, 0)][r] <= InviteBonus
=============================================================================
