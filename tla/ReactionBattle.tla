--------------------------- MODULE ReactionBattle ---------------------------
(***************************************************************************)
(* The two-player game of app/services/game_service.py: GameService, the   *)
(* part of TokenService it calls, and the scheduler that starts and        *)
(* expires games every two seconds.                                        *)
(*                                                                         *)
(* Every operation holds the row lock of its game from its first query to  *)
(* its commit.  An operation that reads nothing before it locks the user   *)
(* rows is one step.  cancel_game and react read a user without a lock     *)
(* while they hold the game, and keep the object: other transactions may   *)
(* change that user's tokens before the operation locks the user and       *)
(* writes, so these two are two steps, with what was seen in between.  The *)
(* scheduler takes every due game that nobody holds (SKIP LOCKED) in one   *)
(* transaction.                                                            *)
(***************************************************************************)
EXTENDS Integers, Sequences, Functions

CONSTANTS
    Users,      \* users with an Access Token balance
    Games,      \* games that may be created
    NoUser,     \* no opponent, no winner
    Creator,    \* Creator[g]: who opens g
    Entry,      \* Entry[g]: the stake of g
    Start,      \* Start[u]: the tokens u has to begin with
    MaxAborts   \* bound: how many handlers may fail while they hold a game

ASSUME BattleAssumption ==
    /\ NoUser \notin Users
    /\ Creator \in [Games -> Users]
    /\ Entry \in [Games -> Nat \ {0}]
    /\ Start \in [Users -> Nat]
    /\ MaxAborts \in Nat

VARIABLES
    tokens,     \* users.token_balance
    moved,      \* moved[g][u]: the sum of u's token_transactions that refer to g
    platform,   \* games with a row in platform_token_transactions (unique per game)
    status,     \* games.status, or "none"
    opponent,   \* games.opponent_id
    started,    \* games.reaction_started_at is set
    late,       \* games.expires_at has passed
    reacted,    \* game_reactions of a game, in the order of their commits
    winner,     \* games.winner_id
    holder,     \* the handler that holds the game's row between two steps
    aborts      \* how many handlers have failed so far

moneyVars == <<tokens, moved, platform>>
gameVars  == <<status, opponent, started, late, reacted, winner>>

vars == <<moneyVars, gameVars, holder, aborts>>

Free == [op |-> "free", user |-> NoUser, seen |-> 0]

Statuses == {"none", "waiting", "active", "completed", "cancelled", "expired"}

Terminal == {"completed", "cancelled", "expired"}

Fee(g) == (2 * Entry[g]) \div 10

Reward(g) == 2 * Entry[g] - Fee(g)

Players(g) == {Creator[g], opponent[g]}

Init ==
    /\ tokens = Start
    /\ moved = [g \in Games |-> [u \in Users |-> 0]]
    /\ platform = {}
    /\ status = [g \in Games |-> "none"]
    /\ opponent = [g \in Games |-> NoUser]
    /\ started = [g \in Games |-> FALSE]
    /\ late = [g \in Games |-> FALSE]
    /\ reacted = [g \in Games |-> <<>>]
    /\ winner = [g \in Games |-> NoUser]
    /\ holder = [g \in Games |-> Free]
    /\ aborts = 0

-----------------------------------------------------------------------------
(* TokenService._record for one user, and for all users of a batch.        *)

Record(g, u, seen, amount) ==
    /\ seen + amount >= 0
    /\ tokens' = [tokens EXCEPT ![u] = seen + amount]
    /\ moved' = [moved EXCEPT ![g][u] = @ + amount]

\* Credits(g, u) is what the transaction pays u for game g, for every game of a batch;
\* every balance is read under the user's lock.
RecordBatch(batch, Credits(_, _)) ==
    /\ tokens' = [u \in Users |->
                     tokens[u] + SumFunctionOnSet([g \in batch |-> Credits(g, u)], batch)]
    /\ moved' = [g \in Games |->
                    IF g \in batch THEN [u \in Users |-> moved[g][u] + Credits(g, u)]
                    ELSE moved[g]]

-----------------------------------------------------------------------------
(* The players' handlers.                                                  *)

CreateGame(g) ==
    /\ status[g] = "none"
    /\ tokens[Creator[g]] >= Entry[g]
    /\ Record(g, Creator[g], tokens[Creator[g]], -Entry[g])
    /\ status' = [status EXCEPT ![g] = "waiting"]
    /\ UNCHANGED <<platform, opponent, started, late, reacted, winner, holder, aborts>>

\* Mutant of JoinGame: the status is not looked at again under the lock.
JoinAgain(g, u) ==
    /\ status[g] \in {"waiting", "active"}
    /\ holder[g] = Free
    /\ u # Creator[g]
    /\ tokens[u] >= Entry[g]
    /\ Record(g, u, tokens[u], -Entry[g])
    /\ opponent' = [opponent EXCEPT ![g] = u]
    /\ status' = [status EXCEPT ![g] = "active"]
    /\ started' = [started EXCEPT ![g] = FALSE]
    /\ late' = [late EXCEPT ![g] = FALSE]
    /\ UNCHANGED <<platform, reacted, winner, holder, aborts>>

\* A game past its time that the scheduler has not reached yet can still be joined, and
\* gets a new time.
JoinGame(g, u) ==
    /\ status[g] = "waiting"
    /\ holder[g] = Free
    /\ u # Creator[g]
    /\ tokens[u] >= Entry[g]
    /\ Record(g, u, tokens[u], -Entry[g])
    /\ opponent' = [opponent EXCEPT ![g] = u]
    /\ status' = [status EXCEPT ![g] = "active"]
    /\ started' = [started EXCEPT ![g] = FALSE]
    /\ late' = [late EXCEPT ![g] = FALSE]
    /\ UNCHANGED <<platform, reacted, winner, holder, aborts>>

\* cancel_game up to its unlocked read of the creator.
BeginCancel(g) ==
    /\ status[g] = "waiting"
    /\ holder[g] = Free
    /\ holder' = [holder EXCEPT ![g] =
                     [op |-> "cancel", user |-> Creator[g], seen |-> tokens[Creator[g]]]]
    /\ UNCHANGED <<moneyVars, gameVars, aborts>>

\* Mutant of CancelGame: another spelling of the status.
CancelMisspelt(g) ==
    /\ holder[g].op = "cancel"
    /\ Record(g, Creator[g], holder[g].seen, Entry[g])
    /\ status' = [status EXCEPT ![g] = "canceled"]
    /\ holder' = [holder EXCEPT ![g] = Free]
    /\ UNCHANGED <<platform, opponent, started, late, reacted, winner, aborts>>

\* The rest of cancel_game: the refund is added to the balance seen before.
CancelGame(g) ==
    /\ holder[g].op = "cancel"
    /\ Record(g, Creator[g], holder[g].seen, Entry[g])
    /\ status' = [status EXCEPT ![g] = "cancelled"]
    /\ holder' = [holder EXCEPT ![g] = Free]
    /\ UNCHANGED <<platform, opponent, started, late, reacted, winner, aborts>>

\* Mutant of BeginReact: an earlier reaction of the player is not looked up.
BeginReactTwice(g, u) ==
    /\ status[g] = "active"
    /\ started[g]
    /\ holder[g] = Free
    /\ u \in Players(g)
    /\ holder' = [holder EXCEPT ![g] = [op |-> "react", user |-> u, seen |-> tokens[u]]]
    /\ UNCHANGED <<moneyVars, gameVars, aborts>>

\* react up to its unlocked read of the player.
BeginReact(g, u) ==
    /\ status[g] = "active"
    /\ started[g]
    /\ holder[g] = Free
    /\ u \in Players(g)
    /\ \A i \in DOMAIN reacted[g] : reacted[g][i] # u
    /\ holder' = [holder EXCEPT ![g] = [op |-> "react", user |-> u, seen |-> tokens[u]]]
    /\ UNCHANGED <<moneyVars, gameVars, aborts>>

\* The first reaction is only recorded.
FirstReaction(g) ==
    /\ holder[g].op = "react"
    /\ reacted[g] = <<>>
    /\ reacted' = [reacted EXCEPT ![g] = <<holder[g].user>>]
    /\ holder' = [holder EXCEPT ![g] = Free]
    /\ UNCHANGED <<moneyVars, status, opponent, started, late, winner, aborts>>

\* Mutant of Seen: the reward is added to the balance of whoever reacted last.
SeenOfReactor(g, u) == holder[g].seen

\* What the winner's balance is taken to be: the reacting player's own row was read
\* before it was locked.
Seen(g, u) == IF u = holder[g].user THEN holder[g].seen ELSE tokens[u]

\* Mutant of Settle: the winner is paid the whole pot, fee included.
SettleWholePot(g) ==
    /\ holder[g].op = "react"
    /\ Len(reacted[g]) = 1
    /\ g \notin platform
    /\ reacted' = [reacted EXCEPT ![g] = Append(@, holder[g].user)]
    /\ \E w \in {reacted[g][1], holder[g].user} :
          /\ winner' = [winner EXCEPT ![g] = w]
          /\ Record(g, w, Seen(g, w), 2 * Entry[g])
    /\ status' = [status EXCEPT ![g] = "completed"]
    /\ platform' = platform \cup {g}
    /\ holder' = [holder EXCEPT ![g] = Free]
    /\ UNCHANGED <<opponent, started, late, aborts>>

\* The second reaction settles the game.  Reactions are ordered by whole milliseconds of
\* the wall clock: of two equal ones, or after the clock was set back, the second may win.
Settle(g) ==
    /\ holder[g].op = "react"
    /\ Len(reacted[g]) = 1
    /\ g \notin platform
    /\ reacted' = [reacted EXCEPT ![g] = Append(@, holder[g].user)]
    /\ \E w \in {reacted[g][1], holder[g].user} :
          /\ winner' = [winner EXCEPT ![g] = w]
          /\ Record(g, w, Seen(g, w), Reward(g))
    /\ status' = [status EXCEPT ![g] = "completed"]
    /\ platform' = platform \cup {g}
    /\ holder' = [holder EXCEPT ![g] = Free]
    /\ UNCHANGED <<opponent, started, late, aborts>>

\* A handler that holds the game fails (a deadlock PostgreSQL breaks, a lost connection,
\* a restart): its transaction is rolled back and the row is free again.
Abort(g) ==
    /\ holder[g] # Free
    /\ aborts < MaxAborts
    /\ aborts' = aborts + 1
    /\ holder' = [holder EXCEPT ![g] = Free]
    /\ UNCHANGED <<moneyVars, gameVars>>

-----------------------------------------------------------------------------
(* The scheduler.                                                          *)

\* Mutant of TimeOut: joining clears the time of the game.
TimeOutWaiting(g) ==
    /\ status[g] = "waiting"
    /\ ~ late[g]
    /\ late' = [late EXCEPT ![g] = TRUE]
    /\ UNCHANGED <<moneyVars, status, opponent, started, reacted, winner, holder, aborts>>

\* expires_at passes.
TimeOut(g) ==
    /\ status[g] \in {"waiting", "active"}
    /\ ~ late[g]
    /\ late' = [late EXCEPT ![g] = TRUE]
    /\ UNCHANGED <<moneyVars, status, opponent, started, reacted, winner, holder, aborts>>

\* Mutant of Due: the rows are taken without a lock, held or not.
DueUnlocked(st) == {g \in Games : status[g] = st /\ late[g]}

\* The games of a status that are past their time and that nobody holds.
Due(st) == {g \in Games : status[g] = st /\ late[g] /\ holder[g] = Free}

ExpireWaiting ==
    LET batch == Due("waiting")
    IN  /\ batch # {}
        /\ RecordBatch(batch, LAMBDA g, u : IF u = Creator[g] THEN Entry[g] ELSE 0)
        /\ status' = [g \in Games |-> IF g \in batch THEN "expired" ELSE status[g]]
        /\ UNCHANGED <<platform, opponent, started, late, reacted, winner, holder, aborts>>

\* What an active game pays when its time is over: everything back if nobody reacted,
\* the reward to the only player who did otherwise.
TimeoutPayment(g, u) ==
    IF reacted[g] = <<>>
    THEN IF u \in Players(g) THEN Entry[g] ELSE 0
    ELSE IF u = reacted[g][1] THEN Reward(g) ELSE 0

ExpireActive ==
    LET batch   == Due("active")
        settled == {g \in batch : reacted[g] # <<>>}
    IN  /\ batch # {}
        /\ settled \cap platform = {}
        /\ RecordBatch(batch, TimeoutPayment)
        /\ status' = [g \in Games |->
                         IF g \in settled THEN "completed"
                         ELSE IF g \in batch THEN "expired" ELSE status[g]]
        /\ winner' = [g \in Games |-> IF g \in settled THEN reacted[g][1] ELSE winner[g]]
        /\ platform' = platform \cup settled
        /\ UNCHANGED <<opponent, started, late, reacted, holder, aborts>>

\* The delay after joining is over; an iteration starts up to 20 such games, each in a
\* transaction of its own.
StartReaction(g) ==
    /\ status[g] = "active"
    /\ holder[g] = Free
    /\ ~ started[g]
    /\ started' = [started EXCEPT ![g] = TRUE]
    /\ UNCHANGED <<moneyVars, status, opponent, late, reacted, winner, holder, aborts>>

-----------------------------------------------------------------------------
\* A handler that holds a game goes on.
Finish(g) == CancelGame(g) \/ FirstReaction(g) \/ Settle(g)

Next ==
    \/ \E g \in Games :
         \/ CreateGame(g)
         \/ BeginCancel(g)
         \/ \E u \in Users : JoinGame(g, u) \/ BeginReact(g, u)
         \/ Finish(g)
         \/ Abort(g)
         \/ TimeOut(g)
         \/ StartReaction(g)
    \/ ExpireWaiting
    \/ ExpireActive

Spec == Init /\ [][Next]_vars

\* The scheduler runs for ever and survives failed iterations, time passes, and a handler
\* that holds a row goes on.  Nobody has to join, cancel or react.
FairSpec ==
    /\ Spec
    /\ WF_vars(ExpireWaiting) /\ WF_vars(ExpireActive)
    /\ \A g \in Games : WF_vars(TimeOut(g)) /\ WF_vars(Finish(g))
-----------------------------------------------------------------------------
(* Properties.                                                             *)

BattleTypeOK ==
    /\ tokens \in [Users -> Int]
    /\ moved \in [Games -> [Users -> Int]]
    /\ platform \subseteq Games
    /\ status \in [Games -> Statuses]
    /\ opponent \in [Games -> Users \cup {NoUser}]
    /\ started \in [Games -> BOOLEAN]
    /\ late \in [Games -> BOOLEAN]
    /\ reacted \in [Games -> Seq(Users)]
    /\ winner \in [Games -> Users \cup {NoUser}]
    /\ holder \in [Games -> [op : {"free", "cancel", "react"},
                             user : Users \cup {NoUser}, seen : Int]]
    /\ aborts \in 0..MaxAborts

\* What the rows of u that refer to g must add up to.
Share(g, u) ==
    CASE status[g] = "waiting"   -> IF u = Creator[g] THEN -Entry[g] ELSE 0
      [] status[g] = "active"    -> IF u \in Players(g) THEN -Entry[g] ELSE 0
      [] status[g] = "completed" -> IF u = winner[g] THEN Reward(g) - Entry[g]
                                    ELSE IF u \in Players(g) THEN -Entry[g] ELSE 0
      [] OTHER                   -> 0

\* The pot of every game is accounted for at every moment: each entry is taken once, a
\* finished game has paid its reward once to its winner and its fee once to the platform,
\* a cancelled or expired one has returned each entry once, and no one else's tokens
\* were touched, however cancelling, joining, reacting and expiring race.
PotAccounted ==
    \A g \in Games :
        /\ \A u \in Users : moved[g][u] = Share(g, u)
        /\ g \in platform <=> status[g] = "completed"

\* The winner of a finished game is a player who reacted, and a game both players reacted
\* in is finished; a game nobody could react in is not won.
WinnerReacted ==
    \A g \in Games :
        /\ status[g] = "completed" => \E i \in DOMAIN reacted[g] : winner[g] = reacted[g][i]
        /\ status[g] # "completed" => winner[g] = NoUser /\ Len(reacted[g]) <= 1
        /\ reacted[g] # <<>> => started[g] /\ status[g] \in {"active", "completed"}
        /\ \A i, j \in DOMAIN reacted[g] :
              /\ reacted[g][i] \in Players(g)
              /\ reacted[g][i] = reacted[g][j] => i = j

\* Whoever holds a game between two steps still has the game it read: no one settles,
\* joins or expires a game under a handler that holds it.
HolderHasTheGame ==
    \A g \in Games :
        /\ holder[g].op = "cancel" => status[g] = "waiting"
        /\ holder[g].op = "react" =>
              /\ status[g] = "active" /\ started[g]
              /\ holder[g].user \in Players(g)
              /\ \A i \in DOMAIN reacted[g] : reacted[g][i] # holder[g].user

Rank(st) == CASE st = "none" -> 0 [] st = "waiting" -> 1 [] st = "active" -> 2
              [] OTHER -> 3

\* A game only moves forward, nobody takes the place of an opponent, and what a finished
\* game has paid is never paid again or taken back.
GameMovesForward ==
    [][\A g \in Games :
          /\ Rank(status'[g]) >= Rank(status[g])
          /\ opponent[g] # NoUser => opponent'[g] = opponent[g]
          /\ status[g] \in Terminal =>
                /\ status'[g] = status[g]
                /\ moved'[g] = moved[g]
                /\ winner'[g] = winner[g]]_vars

\* No stake is locked up for ever: every opened game is finished, cancelled or expired,
\* even if no player ever presses a button again.
GameEnds ==
    \A g \in Games :
        status[g] \in {"waiting", "active"} ~> status[g] \in Terminal

\* The users whose tokens were written from a balance that was read without a lock: who
\* cancelled a game, or won as the second to react.
WrittenFromStale(u) ==
    \E g \in Games :
        \/ status[g] = "cancelled" /\ Creator[g] = u
        \/ Len(reacted[g]) = 2 /\ winner[g] = u /\ reacted[g][2] = u

\* For everybody else, the balance is what the token_transactions say it is.
TokensMatchRows ==
    LET opened == {g \in Games : status[g] # "none"}
    IN  \A u \in Users : WrittenFromStale(u)
            \/ tokens[u] = Start[u] + SumFunctionOnSet([g \in opened |-> moved[g][u]], opened)
=============================================================================
