----------------------------- MODULE Tournament -----------------------------
(***************************************************************************)
(* app/services/tournament_service.py: tournaments with an entry fee and a *)
(* prize, both paid through the Toman wallet.                              *)
(*                                                                         *)
(* No operation locks the tournament's row, and WalletService commits in   *)
(* the middle of join, cancel and settle.  A call is one session; it is    *)
(* cut where it commits, and where it has read what it decides on.  A      *)
(* session writes a column only when the new value differs from the one it *)
(* has read, so a call keeps the row as it was read.                       *)
(*                                                                         *)
(* The score of a participant, counted from the users referred or the      *)
(* orders completed in the tournament's time, is any number at every look. *)
(***************************************************************************)
EXTENDS WalletService, SequencesExt

CONSTANTS
    Tournaments,
    Fees,       \* the entry fees an admin may set, 0 for a free tournament
    Prizes,     \* the prize credits an admin may set, 0 for a prize in kind
    Scores,     \* the scores a participant may have
    Nobody      \* winner_user_id is NULL

ASSUME TournamentAssumption ==
    /\ Tournaments \subseteq Refs
    /\ Fees \subseteq Nat
    /\ Prizes \subseteq Nat
    /\ Scores \subseteq Nat
    /\ Nobody \notin Users

VARIABLES
    tournament,     \* the tournament's row
    entrants,       \* the users of its participant rows, oldest first
    calls,          \* the calls of the service in progress
    disturbed       \* ghost: tournaments whose calls clashed, or stopped half-way

tournamentVars == <<tournament, entrants, calls, disturbed>>

TournamentStatuses == {"none", "ACTIVE", "ENDED", "CANCELLED", "SETTLED"}

Row0 == [status |-> "none", fee |-> 0, prize |-> 0, winner |-> Nobody]

TournamentRow ==
    [status : TournamentStatuses, fee : Fees \cup {0}, prize : Prizes \cup {0},
     winner : Users \cup {Nobody}]

\* No balance: the session has not loaded the wallet.
Unloaded == -1

\* A call: who joins (Nobody for the admins' operations), the row it read, whom it has
\* still to refund, and the balances its session remembers of the wallets it refunded.
Call ==
    [op : {"join", "end", "cancel", "settle"}, t : Tournaments, at : {"read", "paid", "refund"},
     who : Users \cup {Nobody}, row : TournamentRow, todo : Seq(Users),
     seen : [Users -> Nat \cup {Unloaded}]]

TournamentInit ==
    /\ tournament = [t \in Tournaments |-> Row0]
    /\ entrants = [t \in Tournaments |-> <<>>]
    /\ calls = <<>>
    /\ disturbed = {}

\* create, at the end of the admin's dialog.
CreateTournament(t, fee, prize) ==
    /\ tournament[t].status = "none"
    /\ tournament' = [tournament EXCEPT ![t] = [Row0 EXCEPT !.status = "ACTIVE", !.fee = fee,
                                                            !.prize = prize]]
    /\ UNCHANGED <<walletVars, entrants, calls, disturbed>>

-----------------------------------------------------------------------------
(* Calls: they begin with what they read, and end with their last commit.  *)

\* Calls that read what the other is about to write: two joins of one user, a join and
\* the cancellation that refunds the participants, two operations of the admins.
Clash(c, op, who) ==
    \/ c.op = "join" /\ op = "join" /\ c.who = who
    \/ {c.op, op} = {"join", "cancel"}
    \/ c.op # "join" /\ op # "join" /\ {c.op, op} # {"end"}

Begin(op, t, who) ==
    /\ calls' = Append(calls, [op |-> op, t |-> t, at |-> "read", who |-> who,
                               row |-> tournament[t], todo |-> <<>>,
                               seen |-> [u \in Users |-> Unloaded]])
    /\ disturbed' = IF \E i \in DOMAIN calls : calls[i].t = t /\ Clash(calls[i], op, who)
                    THEN disturbed \cup {t} ELSE disturbed
    /\ UNCHANGED <<walletVars, tournament, entrants>>

Done(i) == calls' = RemoveAt(calls, i)

\* The UPDATE of a flush: the columns the session changed since it read the row.
Flush(c, status, winner) ==
    tournament' = [tournament EXCEPT ![c.t].status = status,
                                     ![c.t].winner = IF winner = c.row.winner THEN @ ELSE winner]

\* A call ends early: the user has no wallet, the database fails or the process stops.
\* What it has committed stays; what it has not is rolled back.
CallStops(i) ==
    /\ Done(i)
    /\ disturbed' = IF calls[i].at = "read" THEN disturbed
                    ELSE disturbed \cup {calls[i].t}
    /\ UNCHANGED <<walletVars, tournament, entrants>>

-----------------------------------------------------------------------------
(* join.                                                                   *)

\* Both checks; the participants are looked up with the status already read.
BeginJoin(t, u) ==
    /\ tournament[t].status = "ACTIVE"
    /\ \A i \in DOMAIN entrants[t] : entrants[t][i] # u
    /\ Begin("join", t, u)

\* The entry fee, in a transaction of its own; too little money ends the call.
PayEntry(i) ==
    LET c == calls[i]
    IN  /\ c.op = "join" /\ c.at = "read" /\ c.row.fee > 0
        /\ \/ /\ Debit(c.who, wallet[c.who], c.row.fee, "TOURNAMENT_ENTRY", c.t)
              /\ calls' = [calls EXCEPT ![i].at = "paid"]
           \/ /\ wallet[c.who] < c.row.fee
              /\ Done(i)
              /\ UNCHANGED walletVars
        /\ UNCHANGED <<tournament, entrants, disturbed>>

AddParticipant(i) ==
    LET c == calls[i]
    IN  /\ c.op = "join"
        /\ c.at = "paid" \/ c.row.fee = 0
        /\ entrants' = [entrants EXCEPT ![c.t] = Append(@, c.who)]
        /\ Done(i)
        /\ UNCHANGED <<walletVars, tournament, disturbed>>

-----------------------------------------------------------------------------
(* end_now, cancel and settle, the admins' buttons.                        *)

BeginEnd(t) ==
    /\ tournament[t].status = "ACTIVE"
    /\ Begin("end", t, Nobody)

EndNow(i) ==
    /\ calls[i].op = "end"
    /\ Flush(calls[i], "ENDED", calls[i].row.winner)
    /\ Done(i)
    /\ UNCHANGED <<walletVars, entrants, disturbed>>

\* Mutant of Open: a cancelled tournament can be cancelled and settled once more.
OpenOrCancelled(t) == tournament[t].status \in {"ACTIVE", "ENDED", "CANCELLED"}

\* What cancel and settle ask of the status.
Open(t) == tournament[t].status \in {"ACTIVE", "ENDED"}

BeginCancel(t) ==
    /\ Open(t)
    /\ Begin("cancel", t, Nobody)

\* The participants are read; a free tournament has nobody to refund.
ReadParticipants(i) ==
    LET c == calls[i]
    IN  /\ c.op = "cancel" /\ c.at = "read"
        /\ calls' = [calls EXCEPT ![i].at = "refund",
                                  ![i].todo = IF c.row.fee > 0 THEN entrants[c.t] ELSE <<>>]
        /\ UNCHANGED <<walletVars, tournament, entrants, disturbed>>

\* One refund, committed by itself.  A wallet the session has refunded before is still
\* in its memory, and is credited from the balance it had then.
Refund(i) ==
    LET c == calls[i]
        u == Head(c.todo)
        balance == IF c.seen[u] = Unloaded THEN wallet[u] ELSE c.seen[u]
    IN  /\ c.op = "cancel" /\ c.at = "refund" /\ c.todo # <<>>
        /\ Credit(u, balance, c.row.fee, "REFUND", c.t)
        /\ calls' = [calls EXCEPT ![i].todo = Tail(@),
                                  ![i].seen[u] = balance + c.row.fee]
        /\ UNCHANGED <<tournament, entrants, disturbed>>

Cancelled(i) ==
    /\ calls[i].op = "cancel" /\ calls[i].at = "refund" /\ calls[i].todo = <<>>
    /\ Flush(calls[i], "CANCELLED", calls[i].row.winner)
    /\ Done(i)
    /\ UNCHANGED <<walletVars, entrants, disturbed>>

BeginSettle(t) ==
    /\ Open(t)
    /\ Begin("settle", t, Nobody)

\* leaderboard(limit=1): of the participants in the order of their rows, the first with
\* the highest score, if that is more than nothing.
Leader(us, score) ==
    LET best == {i \in DOMAIN us : \A j \in DOMAIN us : score[us[j]] <= score[us[i]]}
        first == CHOOSE i \in best : \A j \in best : i <= j
    IN  IF best = {} \/ score[us[first]] = 0 THEN Nobody ELSE us[first]

\* SETTLED and the winner are set before the prize is credited, and committed with it.
PayPrize(i, score) ==
    LET c == calls[i]
        winner == Leader(entrants[c.t], score)
    IN  /\ c.op = "settle"
        /\ Flush(c, "SETTLED", winner)
        /\ IF winner # Nobody /\ c.row.prize > 0
           THEN Credit(winner, wallet[winner], c.row.prize, "TOURNAMENT_PRIZE", c.t)
           ELSE UNCHANGED walletVars
        /\ Done(i)
        /\ UNCHANGED <<entrants, disturbed>>

-----------------------------------------------------------------------------
TournamentStart ==
    \E t \in Tournaments :
        \/ \E fee \in Fees, prize \in Prizes : CreateTournament(t, fee, prize)
        \/ \E u \in Users : BeginJoin(t, u)
        \/ BeginEnd(t)
        \/ BeginCancel(t)
        \/ BeginSettle(t)

TournamentStep ==
    \E i \in DOMAIN calls :
        \/ PayEntry(i)
        \/ AddParticipant(i)
        \/ EndNow(i)
        \/ ReadParticipants(i)
        \/ Refund(i)
        \/ Cancelled(i)
        \/ \E score \in [Users -> Scores] : PayPrize(i, score)
        \/ CallStops(i)

-----------------------------------------------------------------------------
(* What the money of a tournament promises.                                *)

\* How many rows of a type user u has for tournament t.
Posted(u, type, t) == Cardinality(RowsFor(u, type, t))

Entries(u, t) == Cardinality({i \in DOMAIN entrants[t] : entrants[t][i] = u})

\* The calls of an operation that have paid for t and not ended: a join between the
\* debit and the participant row, a cancellation between its first refund and its end.
HalfWay(op, t) == {i \in DOMAIN calls : calls[i].op = op /\ calls[i].t = t /\ calls[i].at # "read"}

\* What no interleaving and no stop can break: nobody takes part in a tournament
\* without having paid its fee, only participants are refunded or win, and a winner is
\* never announced without the prize, because both are in one commit (:243-259).
NothingUnpaid(t) ==
    \A u \in Users :
        /\ tournament[t].fee > 0 => Entries(u, t) <= Posted(u, "TOURNAMENT_ENTRY", t)
        /\ Posted(u, "REFUND", t) + Posted(u, "TOURNAMENT_PRIZE", t) > 0 => Entries(u, t) > 0
        /\ tournament[t].winner = u /\ tournament[t].prize > 0
               => Posted(u, "TOURNAMENT_PRIZE", t) > 0

\* What holds while the calls do not clash and none stops half-way: a user takes part
\* once and has paid once; a cancellation has refunded everyone once and nothing else
\* refunds; the prize is paid once, to the winner of a settled tournament.
PaidExactly(t) ==
    LET row == tournament[t]
    IN  \A u \in Users :
            /\ Entries(u, t) <= 1
            /\ row.fee > 0 =>
                   Posted(u, "TOURNAMENT_ENTRY", t) =
                       Entries(u, t) + Cardinality({i \in HalfWay("join", t) : calls[i].who = u})
            /\ HalfWay("cancel", t) = {} =>
                   Posted(u, "REFUND", t) =
                       IF row.status = "CANCELLED" /\ row.fee > 0 THEN Entries(u, t) ELSE 0
            /\ Posted(u, "TOURNAMENT_PRIZE", t) =
                   IF row.status = "SETTLED" /\ row.winner = u /\ row.prize > 0 THEN 1 ELSE 0

\* Fees, refunds and prizes: see NothingUnpaid and PaidExactly.  As long as no
\* tournament is disturbed, no credit is lost either: a wallet is the sum of its rows,
\* the payments' among them (docstrings of cancel :98-101 and settle :224-228).
TournamentMoney ==
    /\ \A t \in Tournaments : NothingUnpaid(t) /\ (t \notin disturbed => PaidExactly(t))
    /\ disturbed = {} =>
           \A u \in Users :
               wallet[u] = SumFunctionOnSet([i \in DOMAIN ledger[u] |-> ledger[u][i].amount],
                                            DOMAIN ledger[u])
=============================================================================
