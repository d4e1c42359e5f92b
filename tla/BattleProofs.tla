---------------------------- MODULE BattleProofs ----------------------------
(***************************************************************************)
(* Proofs about ReactionBattle, for every set of users and games and every *)
(* stake.  BattleInv says of each game what its status means for its rows, *)
(* its reactions and its holder; it needs nothing of the balances.  The    *)
(* balances come after it, in TokensInv: every way to write them is a row  *)
(* of one game, or one row of each game of a batch, so a balance and the   *)
(* sum of its rows move together, by the lemmas on sums of RowProofs.      *)
(***************************************************************************)
EXTENDS ReactionBattle, RowProofs

USE BattleAssumption

\* BattleTypeOK without the balances.
Shapes ==
    /\ moved \in [Games -> [Users -> Int]]
    /\ platform \subseteq Games
    /\ status \in [Games -> Statuses]
    /\ opponent \in [Games -> Users \cup {NoUser}]
    /\ started \in [Games -> BOOLEAN]
    /\ late \in [Games -> BOOLEAN]
    /\ reacted \in [Games -> Seq(Users)]
    /\ winner \in [Games -> Users \cup {NoUser}]
    /\ DOMAIN holder = Games

(* The properties of one game, and what they need to know of it besides.   *)

Pot(g) ==
    /\ \A u \in Users : moved[g][u] = Share(g, u)
    /\ g \in platform <=> status[g] = "completed"

Won(g) ==
    /\ status[g] = "completed" => \E i \in DOMAIN reacted[g] : winner[g] = reacted[g][i]
    /\ status[g] # "completed" => winner[g] = NoUser /\ Len(reacted[g]) <= 1
    /\ reacted[g] # <<>> => started[g] /\ status[g] \in {"active", "completed"}
    /\ \A i, j \in DOMAIN reacted[g] :
          /\ reacted[g][i] \in Players(g)
          /\ reacted[g][i] = reacted[g][j] => i = j

\* An opponent joins a game and is never its creator.
Joined(g) ==
    /\ status[g] \in {"none", "waiting"} => opponent[g] = NoUser
    /\ status[g] \in {"active", "completed"} =>
          opponent[g] \in Users /\ opponent[g] # Creator[g]

Held(g) ==
    /\ holder[g].op = "cancel" => status[g] = "waiting"
    /\ holder[g].op = "react" =>
          /\ status[g] = "active" /\ started[g]
          /\ holder[g].user \in Players(g)
          /\ \A i \in DOMAIN reacted[g] : reacted[g][i] # holder[g].user

GameOK(g) == Pot(g) /\ Won(g) /\ Joined(g) /\ Held(g)

BattleInv == Shapes /\ \A g \in Games : GameOK(g)

LEMMA FeeType == \A g \in Games : Fee(g) \in Int /\ Reward(g) \in Int
BY SMT DEF Fee, Reward

\* Nothing of game h changes.
SameGame(h) ==
    /\ moved'[h] = moved[h]
    /\ h \in platform' <=> h \in platform
    /\ status'[h] = status[h]
    /\ opponent'[h] = opponent[h]
    /\ started'[h] = started[h]
    /\ reacted'[h] = reacted[h]
    /\ winner'[h] = winner[h]
    /\ holder'[h] = holder[h]

LEMMA Frame ==
    ASSUME NEW h \in Games, GameOK(h), SameGame(h)
    PROVE  GameOK(h)'
BY DEF GameOK, Pot, Won, Joined, Held, SameGame, Share, Players

-----------------------------------------------------------------------------
(* The players' handlers, one game each.                                   *)

LEMMA CreateOK ==
    ASSUME BattleInv, NEW g \in Games, CreateGame(g)
    PROVE  BattleInv'
<1> USE DEF BattleInv
<1>1. Shapes'
  BY DEF Shapes, CreateGame, Record, Statuses
<1>2. \A h \in Games : h # g => SameGame(h)
  BY DEF Shapes, CreateGame, Record, SameGame
<1>3. /\ status[g] = "none" /\ status'[g] = "waiting"
      /\ \A u \in Users : moved'[g][u] =
            IF u = Creator[g] THEN moved[g][u] - Entry[g] ELSE moved[g][u]
      /\ UNCHANGED <<platform, opponent, started, reacted, winner, holder>>
  BY DEF Shapes, CreateGame, Record
<1>4. Pot(g)'
  BY <1>3 DEF Shapes, GameOK, Pot, Share
<1>5. Won(g)'
  BY <1>3 DEF GameOK, Won, Players
<1>6. Joined(g)' /\ Held(g)'
  BY <1>3 DEF GameOK, Joined, Held, Players
<1> QED
  BY <1>1, <1>2, <1>4, <1>5, <1>6, Frame DEF GameOK

LEMMA JoinOK ==
    ASSUME BattleInv, NEW g \in Games, NEW u \in Users, JoinGame(g, u)
    PROVE  BattleInv'
<1> USE DEF BattleInv
<1>1. Shapes'
  BY DEF Shapes, JoinGame, Record, Statuses
<1>2. \A h \in Games : h # g => SameGame(h)
  BY DEF Shapes, JoinGame, Record, SameGame
<1>3. /\ status[g] = "waiting" /\ status'[g] = "active"
      /\ u # Creator[g] /\ opponent'[g] = u
      /\ \A v \in Users : moved'[g][v] =
            IF v = u THEN moved[g][v] - Entry[g] ELSE moved[g][v]
      /\ holder[g] = Free
      /\ UNCHANGED <<platform, reacted, winner, holder>>
  BY DEF Shapes, JoinGame, Record
<1>4. Pot(g)'
  BY <1>3 DEF Shapes, GameOK, Pot, Share, Players
<1>5. reacted[g] = <<>>
  BY <1>3 DEF GameOK, Won
<1>6. Won(g)'
  BY <1>3, <1>5 DEF GameOK, Won, Players
<1>7. Joined(g)' /\ Held(g)'
  BY <1>3 DEF GameOK, Joined, Held, Free
<1> QED
  BY <1>1, <1>2, <1>4, <1>6, <1>7, Frame DEF GameOK

\* Taking a game, giving it up and starting its reaction move no money.
LEMMA HolderOK ==
    ASSUME BattleInv, NEW g \in Games,
           \/ BeginCancel(g)
           \/ \E u \in Users : BeginReact(g, u)
           \/ Abort(g)
    PROVE  BattleInv'
<1> USE DEF BattleInv
<1>1. Shapes'
  BY DEF Shapes, BeginCancel, BeginReact, Abort, moneyVars, gameVars
<1>2. \A h \in Games : h # g => SameGame(h)
  BY DEF Shapes, BeginCancel, BeginReact, Abort, moneyVars, gameVars, SameGame
<1>3. UNCHANGED <<moved, platform, status, opponent, started, reacted, winner>>
  BY DEF BeginCancel, BeginReact, Abort, moneyVars, gameVars
<1>4. Pot(g)' /\ Won(g)' /\ Joined(g)'
  BY <1>3 DEF GameOK, Pot, Won, Joined, Share, Players
<1>5. Held(g)'
  <2>1. CASE BeginCancel(g)
    BY <2>1, <1>3 DEF Shapes, BeginCancel, Held
  <2>2. ASSUME NEW u \in Users, BeginReact(g, u)
        PROVE  Held(g)'
    BY <2>2, <1>3 DEF Shapes, BeginReact, Held, Players
  <2>3. CASE Abort(g)
    BY <2>3, <1>3 DEF Shapes, Abort, Held, Free
  <2> QED
    BY <2>1, <2>2, <2>3
<1> QED
  BY <1>1, <1>2, <1>4, <1>5, Frame DEF GameOK

LEMMA CancelOK ==
    ASSUME BattleInv, NEW g \in Games, CancelGame(g)
    PROVE  BattleInv'
<1> USE DEF BattleInv
<1>1. Shapes'
  BY DEF Shapes, CancelGame, Record, Statuses
<1>2. \A h \in Games : h # g => SameGame(h)
  BY DEF Shapes, CancelGame, Record, SameGame
<1>3. /\ status[g] = "waiting" /\ status'[g] = "cancelled"
      /\ \A v \in Users : moved'[g][v] =
            IF v = Creator[g] THEN moved[g][v] + Entry[g] ELSE moved[g][v]
      /\ holder'[g] = Free
      /\ UNCHANGED <<platform, reacted, winner, opponent>>
  BY DEF Shapes, CancelGame, Record, GameOK, Held
<1>4. Pot(g)'
  <2>1. ASSUME NEW v \in Users
        PROVE  moved[g][v] = (IF v = Creator[g] THEN -Entry[g] ELSE 0) /\ Share(g, v)' = 0
    BY <1>3 DEF GameOK, Pot, Share
  <2>2. \A v \in Users : moved'[g][v] = 0
    BY <2>1, <1>3
  <2> QED
    BY <2>1, <2>2, <1>3 DEF GameOK, Pot
<1>5. reacted[g] = <<>>
  BY <1>3 DEF GameOK, Won
<1>6. Won(g)'
  BY <1>3, <1>5 DEF GameOK, Won, Players
<1>7. Joined(g)' /\ Held(g)'
  BY <1>3 DEF GameOK, Joined, Held, Free
<1> QED
  BY <1>1, <1>2, <1>4, <1>6, <1>7, Frame DEF GameOK

LEMMA FirstReactionOK ==
    ASSUME BattleInv, NEW g \in Games, FirstReaction(g)
    PROVE  BattleInv'
<1> USE DEF BattleInv
<1>1. /\ status[g] = "active" /\ started[g]
      /\ holder[g].user \in Players(g) /\ Players(g) \subseteq Users
      /\ reacted[g] = <<>> /\ reacted'[g] = <<holder[g].user>>
      /\ holder'[g] = Free
      /\ UNCHANGED <<moved, platform, status, opponent, started, winner>>
  BY DEF FirstReaction, moneyVars, Shapes, GameOK, Held, Joined, Players
<1>2. Shapes'
  BY <1>1 DEF Shapes, FirstReaction, moneyVars
<1>3. \A h \in Games : h # g => SameGame(h)
  BY DEF Shapes, FirstReaction, moneyVars, SameGame
<1>4. Pot(g)' /\ Joined(g)' /\ Held(g)'
  BY <1>1 DEF GameOK, Pot, Joined, Held, Share, Players, Free
<1>5. Won(g)'
  BY <1>1 DEF GameOK, Won, Players
<1> QED
  BY <1>2, <1>3, <1>4, <1>5, Frame DEF GameOK

LEMMA SettleOK ==
    ASSUME BattleInv, NEW g \in Games, Settle(g)
    PROVE  BattleInv'
<1> USE DEF BattleInv
<1> DEFINE second == holder[g].user
           first == reacted[g][1]
<1>1. /\ status[g] = "active" /\ started[g]
      /\ second \in Players(g) /\ Players(g) \subseteq Users
      /\ \A i \in DOMAIN reacted[g] : reacted[g][i] # second
  BY DEF Settle, Shapes, GameOK, Held, Joined, Players
<1>2. /\ reacted[g] \in Seq(Users) /\ Len(reacted[g]) = 1
      /\ DOMAIN reacted[g] = {1} /\ first \in Players(g)
  <2>1. reacted[g] \in Seq(Users) /\ Len(reacted[g]) = 1
    BY DEF Settle, Shapes
  <2>2. DOMAIN reacted[g] = {1}
    BY <2>1
  <2> QED
    BY <2>1, <2>2 DEF GameOK, Won
<1>3. PICK w \in {first, second} :
         winner' = [winner EXCEPT ![g] = w] /\ Record(g, w, Seen(g, w), Reward(g))
  BY DEF Settle
<1>4. /\ reacted'[g] = Append(reacted[g], second)
      /\ status'[g] = "completed" /\ winner'[g] = w
      /\ platform' = platform \cup {g} /\ g \notin platform
      /\ holder'[g] = Free
      /\ UNCHANGED <<opponent, started>>
      /\ \A v \in Users : moved'[g][v] =
            IF v = w THEN moved[g][v] + Reward(g) ELSE moved[g][v]
  BY <1>3 DEF Settle, Shapes, Record
<1>5. Len(reacted'[g]) = 2 /\ reacted'[g][1] = first /\ reacted'[g][2] = second
      /\ reacted'[g] \in Seq(Users)
  BY <1>1, <1>2, <1>4
<1>6. w \in Players(g) /\ w \in Users
  BY <1>1, <1>2, <1>3
<1>7. Shapes'
  BY <1>3, <1>4, <1>5, <1>6, FeeType DEF Shapes, Settle, Record, Statuses
<1>8. \A h \in Games : h # g => SameGame(h)
  BY <1>3 DEF Shapes, Settle, Record, SameGame
<1>9. Pot(g)'
  BY <1>1, <1>4, <1>6, FeeType DEF Shapes, GameOK, Pot, Share, Players
<1>10. Won(g)'
  <2>1. DOMAIN reacted'[g] = {1, 2}
    BY <1>5
  <2>2. first # second
    BY <1>1, <1>2
  <2>3. Players(g)' = Players(g)
    BY <1>4 DEF Players
  <2>4. \E i \in DOMAIN reacted'[g] : winner'[g] = reacted'[g][i]
    BY <2>1, <1>3, <1>4, <1>5
  <2>5. \A i, j \in DOMAIN reacted'[g] :
           /\ reacted'[g][i] \in Players(g)
           /\ reacted'[g][i] = reacted'[g][j] => i = j
    BY <2>1, <2>2, <1>1, <1>2, <1>5
  <2> QED
    BY <2>3, <2>4, <2>5, <1>1, <1>4 DEF Won
<1>11. Joined(g)' /\ Held(g)'
  BY <1>1, <1>4 DEF GameOK, Joined, Held, Free
<1> QED
  BY <1>7, <1>8, <1>9, <1>10, <1>11, Frame DEF GameOK

-----------------------------------------------------------------------------
(* The scheduler.                                                          *)

LEMMA TimeOK ==
    ASSUME BattleInv, NEW g \in Games, TimeOut(g) \/ StartReaction(g)
    PROVE  BattleInv'
<1> USE DEF BattleInv
<1>1. Shapes'
  BY DEF Shapes, TimeOut, StartReaction, moneyVars
<1>2. \A h \in Games : h # g => SameGame(h)
  BY DEF Shapes, TimeOut, StartReaction, moneyVars, SameGame
<1>3. /\ UNCHANGED <<moved, platform, status, opponent, reacted, winner, holder>>
      /\ started'[g] = started[g] \/ started'[g] = TRUE
  BY DEF Shapes, TimeOut, StartReaction, moneyVars
<1>4. GameOK(g)'
  BY <1>3 DEF GameOK, Pot, Won, Joined, Held, Share, Players
<1> QED
  BY <1>1, <1>2, <1>4, Frame

LEMMA ExpireWaitingOK ==
    ASSUME BattleInv, ExpireWaiting
    PROVE  BattleInv'
<1> USE DEF BattleInv
<1>1. Shapes'
  <2>1. moved' \in [Games -> [Users -> Int]]
    <3> DEFINE pay(g, u) == IF u = Creator[g] THEN Entry[g] ELSE 0
    <3>1. moved' = [g \in Games |->
                      IF g \in Due("waiting") THEN [u \in Users |-> moved[g][u] + pay(g, u)]
                      ELSE moved[g]]
      BY DEF ExpireWaiting, RecordBatch
    <3>2. \A g \in Games, u \in Users : pay(g, u) \in Int
      OBVIOUS
    <3> HIDE DEF pay
    <3> QED
      BY <3>1, <3>2 DEF Shapes
  <2>2. status' \in [Games -> Statuses]
    BY DEF Shapes, ExpireWaiting, Statuses
  <2> QED
    BY <2>1, <2>2 DEF Shapes, ExpireWaiting
<1>2. \A g \in Games : g \notin Due("waiting") => SameGame(g)
  BY DEF Shapes, ExpireWaiting, RecordBatch, SameGame
<1>3. ASSUME NEW g \in Due("waiting")
      PROVE  g \in Games /\ GameOK(g)'
  <2>1. /\ g \in Games
        /\ status[g] = "waiting" /\ status'[g] = "expired"
        /\ \A v \in Users : moved'[g][v] =
              moved[g][v] + (IF v = Creator[g] THEN Entry[g] ELSE 0)
        /\ holder[g] = Free
        /\ UNCHANGED <<platform, reacted, winner, opponent, started, holder>>
    BY <1>3 DEF Shapes, ExpireWaiting, RecordBatch, Due
  <2>2. Pot(g)'
    <3>1. ASSUME NEW v \in Users
          PROVE  /\ moved[g][v] = IF v = Creator[g] THEN -Entry[g] ELSE 0
                 /\ Share(g, v)' = 0
      BY <2>1 DEF GameOK, Pot, Share
    <3>2. \A v \in Users : moved'[g][v] = 0
      BY <3>1, <2>1
    <3> QED
      BY <3>1, <3>2, <2>1 DEF GameOK, Pot
  <2>3. Won(g)'
    BY <2>1 DEF GameOK, Won, Players
  <2>4. Joined(g)' /\ Held(g)'
    BY <2>1 DEF GameOK, Joined, Held, Free
  <2> QED
    BY <2>1, <2>2, <2>3, <2>4 DEF GameOK
<1> QED
  BY <1>1, <1>2, <1>3, Frame

LEMMA ExpireActiveOK ==
    ASSUME BattleInv, ExpireActive
    PROVE  BattleInv'
<1> USE DEF BattleInv
<1> DEFINE settled == {g \in Due("active") : reacted[g] # <<>>}
<1>1. ASSUME NEW g \in Due("active")
      PROVE  /\ g \in Games /\ status[g] = "active" /\ holder[g] = Free
             /\ opponent[g] \in Users /\ opponent[g] # Creator[g]
             /\ Players(g) \subseteq Users
             /\ reacted[g] # <<>> => DOMAIN reacted[g] = {1} /\ reacted[g][1] \in Players(g)
  <2>1. g \in Games /\ status[g] = "active" /\ holder[g] = Free
    BY DEF Due
  <2>2. opponent[g] \in Users /\ opponent[g] # Creator[g] /\ Players(g) \subseteq Users
    BY <2>1 DEF GameOK, Joined, Players
  <2>3. ASSUME reacted[g] # <<>>
        PROVE  DOMAIN reacted[g] = {1} /\ reacted[g][1] \in Players(g)
    <3>1. reacted[g] \in Seq(Users) /\ Len(reacted[g]) <= 1
      BY <2>1 DEF Shapes, GameOK, Won
    <3>2. DOMAIN reacted[g] = {1}
      BY <3>1, <2>3
    <3> QED
      BY <3>2, <2>1 DEF GameOK, Won
  <2> QED
    BY <2>1, <2>2, <2>3
<1>2. /\ moved' = [g \in Games |->
                     IF g \in Due("active")
                     THEN [u \in Users |-> moved[g][u] + TimeoutPayment(g, u)]
                     ELSE moved[g]]
      /\ status' = [g \in Games |->
                      IF g \in settled THEN "completed"
                      ELSE IF g \in Due("active") THEN "expired" ELSE status[g]]
      /\ winner' = [g \in Games |-> IF g \in settled THEN reacted[g][1] ELSE winner[g]]
      /\ platform' = platform \cup settled
      /\ UNCHANGED <<opponent, started, late, reacted, holder>>
  BY DEF ExpireActive, RecordBatch
<1>3. \A g \in Games, u \in Users : TimeoutPayment(g, u) \in Int
  BY FeeType DEF TimeoutPayment
<1>4. Shapes'
  <2>1. moved' \in [Games -> [Users -> Int]]
    BY <1>2, <1>3 DEF Shapes
  <2>2. status' \in [Games -> Statuses]
    BY <1>2 DEF Shapes, Statuses
  <2>3. winner' \in [Games -> Users \cup {NoUser}]
    BY <1>1, <1>2 DEF Shapes
  <2>4. platform' \subseteq Games
    BY <1>1, <1>2 DEF Shapes
  <2> QED
    BY <2>1, <2>2, <2>3, <2>4, <1>2 DEF Shapes
<1>5. \A g \in Games : g \notin Due("active") => SameGame(g)
  BY <1>2 DEF Shapes, SameGame
<1>6. ASSUME NEW g \in Due("active")
      PROVE  GameOK(g)'
  <2>1. /\ g \in Games
        /\ \A v \in Users : moved'[g][v] = moved[g][v] + TimeoutPayment(g, v)
        /\ UNCHANGED <<opponent, started, reacted, holder>>
        /\ Players(g)' = Players(g)
    BY <1>1, <1>2 DEF Players
  <2>2. \A v \in Users : moved[g][v] = IF v \in Players(g) THEN -Entry[g] ELSE 0
    BY <1>1 DEF GameOK, Pot, Share
  <2>3. Joined(g)' /\ Held(g)'
    BY <1>1, <1>2, <2>1 DEF Joined, Held, Free
  <2>4. CASE reacted[g] = <<>>
    <3>1. status'[g] = "expired" /\ winner'[g] = winner[g]
      BY <1>2, <2>1, <2>4 DEF Shapes
    <3>2. g \notin platform'
      BY <1>1, <1>2, <2>4 DEF GameOK, Pot
    <3>3. \A v \in Users : moved'[g][v] = 0
      BY <2>1, <2>2, <2>4 DEF TimeoutPayment
    <3>4. \A v \in Users : Share(g, v)' = 0
      BY <3>1 DEF Share
    <3>5. Pot(g)'
      BY <3>1, <3>2, <3>3, <3>4 DEF Pot
    <3>6. Won(g)'
      BY <1>1, <2>1, <2>4, <3>1 DEF GameOK, Won
    <3> QED
      BY <2>3, <3>5, <3>6 DEF GameOK
  <2>5. CASE reacted[g] # <<>>
    <3> DEFINE w == reacted[g][1]
    <3>1. status'[g] = "completed" /\ winner'[g] = w /\ g \in platform'
      BY <1>2, <2>1, <2>5
    <3>2. w \in Players(g) /\ Reward(g) \in Int
      BY <1>1, <2>1, <2>5, FeeType
    <3>3. \A v \in Users : moved'[g][v] =
             (IF v \in Players(g) THEN -Entry[g] ELSE 0) + (IF v = w THEN Reward(g) ELSE 0)
      BY <2>1, <2>2, <2>5 DEF TimeoutPayment
    <3>4. \A v \in Users : Share(g, v)' =
             IF v = w THEN Reward(g) - Entry[g]
             ELSE IF v \in Players(g) THEN -Entry[g] ELSE 0
      BY <3>1, <2>1 DEF Share
    <3>5. \A v \in Users : moved'[g][v] = Share(g, v)'
      BY <3>2, <3>3, <3>4, <2>1
    <3>6. Pot(g)'
      BY <3>1, <3>5 DEF Pot
    <3>7. Won(g)'
      BY <1>1, <2>1, <2>5, <3>1 DEF GameOK, Won
    <3> QED
      BY <2>3, <3>6, <3>7 DEF GameOK
  <2> QED
    BY <2>4, <2>5
<1> QED
  BY <1>1, <1>4, <1>5, <1>6, Frame

-----------------------------------------------------------------------------
(* The theorems.                                                           *)

LEMMA InitOK == Init => BattleInv
<1> SUFFICES ASSUME Init PROVE BattleInv
  OBVIOUS
<1>1. Shapes
  BY DEF Init, Shapes, Statuses
<1>2. ASSUME NEW g \in Games PROVE GameOK(g)
  BY DEF Init, GameOK, Pot, Won, Joined, Held, Share, Free
<1> QED
  BY <1>1, <1>2 DEF BattleInv

LEMMA StepOK == BattleInv /\ [Next]_vars => BattleInv'
<1> SUFFICES ASSUME BattleInv, [Next]_vars PROVE BattleInv'
  OBVIOUS
<1>1. CASE UNCHANGED vars
  BY <1>1 DEF vars, moneyVars, gameVars, BattleInv, Shapes, GameOK, Pot, Won, Joined, Held,
              Share, Players
<1>2. CASE Next
  BY <1>2, CreateOK, JoinOK, HolderOK, CancelOK, FirstReactionOK, SettleOK, TimeOK,
     ExpireWaitingOK, ExpireActiveOK DEF Next, Finish
<1> QED
  BY <1>1, <1>2

LEMMA Invariant == Spec => []BattleInv
BY InitOK, StepOK, PTL DEF Spec

\* For any players, stakes and number of games: whatever way creating, joining, cancelling,
\* reacting and expiring interleave (game_service.py:177-340), the token rows of a game
\* add up to what its status says, and the fee is taken of completed games only.
THEOREM PotsAreAccountedFor == Spec => []PotAccounted
<1>1. BattleInv => PotAccounted
  BY DEF BattleInv, GameOK, Pot, PotAccounted
<1> QED
  BY <1>1, Invariant, PTL

\* A completed game has a winner who reacted, any other game has none, and nobody reacts
\* twice (GameService.react, 240-297).
THEOREM WinnersReacted == Spec => []WinnerReacted
<1>1. BattleInv => WinnerReacted
  BY DEF BattleInv, GameOK, Won, WinnerReacted
<1> QED
  BY <1>1, Invariant, PTL

\* A handler that waits while it holds a game finds it as it left it: the scheduler's SKIP
\* LOCKED and the other handlers' row locks keep away (game_service.py:218-230, 240-316).
THEOREM HoldersKeepTheGame == Spec => []HolderHasTheGame
<1>1. BattleInv => HolderHasTheGame
  BY DEF BattleInv, GameOK, Held, HolderHasTheGame
<1> QED
  BY <1>1, Invariant, PTL

\* What a step may do to one game.
Forward(g) ==
    /\ Rank(status'[g]) >= Rank(status[g])
    /\ opponent[g] # NoUser => opponent'[g] = opponent[g]
    /\ status[g] \in Terminal =>
          status'[g] = status[g] /\ moved'[g] = moved[g] /\ winner'[g] = winner[g]

LEMMA RankReflexive ==
    ASSUME NEW st \in Statuses
    PROVE  Rank(st) >= Rank(st)
BY DEF Rank, Statuses

LEMMA SameIsForward ==
    ASSUME BattleInv, NEW h \in Games, SameGame(h)
    PROVE  Forward(h)
<1>1. status[h] \in Statuses /\ status'[h] = status[h]
  BY DEF BattleInv, Shapes, SameGame
<1>2. Rank(status'[h]) >= Rank(status[h])
  BY <1>1, RankReflexive
<1> QED
  BY <1>1, <1>2 DEF Forward, SameGame

\* One game that nobody has finished yet, and whose opponent stays or was not there.
LEMMA OpenIsForward ==
    ASSUME BattleInv, NEW g \in Games, status'[g] \in Statuses,
           status[g] \notin Terminal,
           opponent'[g] = opponent[g] \/ status[g] = "waiting",
           \/ status'[g] = status[g]
           \/ status[g] = "none"
           \/ status[g] = "waiting" /\ status'[g] # "none"
           \/ status'[g] \in Terminal
    PROVE  Forward(g)
<1>1. Rank(status'[g]) >= Rank(status[g])
  BY DEF BattleInv, Shapes, Rank, Terminal, Statuses
<1>2. opponent[g] # NoUser => opponent'[g] = opponent[g]
  BY DEF BattleInv, GameOK, Joined
<1> QED
  BY <1>1, <1>2 DEF Forward

LEMMA PlayerStep ==
    ASSUME BattleInv, NEW g \in Games, NEW h \in Games,
           \/ CreateGame(g)
           \/ \E u \in Users : JoinGame(g, u)
           \/ Finish(g)
    PROVE  Forward(h)
<1>1. CASE h # g
  <2>1. SameGame(h)
    BY <1>1 DEF BattleInv, Shapes, CreateGame, JoinGame, Finish, CancelGame, FirstReaction,
                Settle, Record, SameGame, moneyVars
  <2> QED
    BY <2>1, SameIsForward
<1>2. CASE h = g
  <2>1. CASE CreateGame(g)
    BY <1>2, <2>1, OpenIsForward
       DEF CreateGame, BattleInv, Shapes, Statuses, Terminal
  <2>2. CASE \E u \in Users : JoinGame(g, u)
    BY <1>2, <2>2, OpenIsForward
       DEF JoinGame, BattleInv, Shapes, Statuses, Terminal
  <2>3. CASE CancelGame(g)
    BY <1>2, <2>3, OpenIsForward
       DEF CancelGame, BattleInv, GameOK, Held, Shapes, Statuses, Terminal
  <2>4. CASE FirstReaction(g)
    BY <1>2, <2>4, OpenIsForward
       DEF FirstReaction, BattleInv, GameOK, Held, Shapes, Statuses, Terminal
  <2>5. CASE Settle(g)
    BY <1>2, <2>5, OpenIsForward
       DEF Settle, BattleInv, GameOK, Held, Shapes, Statuses, Terminal
  <2> QED
    BY <2>1, <2>2, <2>3, <2>4, <2>5 DEF Finish
<1> QED
  BY <1>1, <1>2

LEMMA QuietStep ==
    ASSUME BattleInv, NEW h \in Games,
           UNCHANGED <<moved, status, opponent, winner>>
    PROVE  Forward(h)
<1>1. status[h] \in Statuses /\ status'[h] = status[h]
  BY DEF BattleInv, Shapes
<1>2. Rank(status'[h]) >= Rank(status[h])
  BY <1>1, RankReflexive
<1> QED
  BY <1>1, <1>2 DEF Forward

LEMMA ExpiryStep ==
    ASSUME BattleInv, NEW h \in Games, ExpireWaiting \/ ExpireActive
    PROVE  Forward(h)
<1> USE DEF BattleInv
<1>1. CASE ExpireWaiting
  <2>1. h \notin Due("waiting") => SameGame(h)
    BY <1>1 DEF Shapes, ExpireWaiting, RecordBatch, SameGame
  <2>2. h \in Due("waiting") => /\ status[h] = "waiting" /\ status'[h] = "expired"
                                /\ opponent'[h] = opponent[h]
    BY <1>1 DEF Shapes, ExpireWaiting, Due
  <2> QED
    BY <2>1, <2>2, SameIsForward, OpenIsForward DEF Statuses, Terminal
<1>2. CASE ExpireActive
  <2>1. h \notin Due("active") => SameGame(h)
    BY <1>2 DEF Shapes, ExpireActive, RecordBatch, SameGame
  <2>2. h \in Due("active") => /\ status[h] = "active"
                               /\ status'[h] \in {"completed", "expired"}
                               /\ opponent'[h] = opponent[h]
    BY <1>2 DEF Shapes, ExpireActive, Due
  <2> QED
    BY <2>1, <2>2, SameIsForward, OpenIsForward DEF Statuses, Terminal
<1> QED
  BY <1>1, <1>2

LEMMA StepForward ==
    ASSUME BattleInv, Next, NEW h \in Games
    PROVE  Forward(h)
<1>1. CASE \E g \in Games :
             CreateGame(g) \/ (\E u \in Users : JoinGame(g, u)) \/ Finish(g)
  BY <1>1, PlayerStep
<1>2. CASE \E g \in Games :
             \/ BeginCancel(g) \/ (\E u \in Users : BeginReact(g, u))
             \/ Abort(g) \/ TimeOut(g) \/ StartReaction(g)
  <2>1. UNCHANGED <<moved, status, opponent, winner>>
    BY <1>2 DEF BeginCancel, BeginReact, Abort, TimeOut, StartReaction, moneyVars, gameVars
  <2> QED
    BY <2>1, QuietStep
<1>3. CASE ExpireWaiting \/ ExpireActive
  BY <1>3, ExpiryStep
<1> QED
  BY <1>1, <1>2, <1>3 DEF Next

\* A finished game is final and an opponent is never replaced, whoever holds what when the
\* scheduler comes (the status checks under the lock, game_service.py:199-300).
THEOREM GamesMoveForward == Spec => GameMovesForward
<1>1. BattleInv /\ [Next]_vars => [\A g \in Games : Forward(g)]_vars
  BY StepForward
<1>2. BattleInv /\ [Next]_vars =>
        [\A g \in Games :
            /\ Rank(status'[g]) >= Rank(status[g])
            /\ opponent[g] # NoUser => opponent'[g] = opponent[g]
            /\ status[g] \in Terminal =>
                  /\ status'[g] = status[g]
                  /\ moved'[g] = moved[g]
                  /\ winner'[g] = winner[g]]_vars
  BY <1>1 DEF Forward
<1> QED
  BY <1>2, Invariant, PTL DEF Spec, GameMovesForward

-----------------------------------------------------------------------------
(* The balances.                                                           *)

Opened == {g \in Games : status[g] # "none"}

\* What the rows of u add up to.
Moved(u) == SumFunctionOnSet([g \in Opened |-> moved[g][u]], Opened)

\* The rest of BattleTypeOK; however many games there may be, finitely many are open.
Balances ==
    /\ tokens \in [Users -> Int]
    /\ holder \in [Games -> [op : {"free", "cancel", "react"},
                             user : Users \cup {NoUser}, seen : Int]]
    /\ aborts \in 0..MaxAborts
    /\ IsFiniteSet(Opened)

RowsOK(u) == WrittenFromStale(u) \/ tokens[u] = Start[u] + Moved(u)

TokensInv == BattleInv /\ Balances /\ \A u \in Users : RowsOK(u)

LEMMA MovedOver ==
    ASSUME BattleInv, Balances, NEW u \in Users,
           NEW S, IsFiniteSet(S), Opened \subseteq S, S \subseteq Games
    PROVE  /\ Moved(u) = SumFunctionOnSet([g \in S |-> moved[g][u]], S)
           /\ Moved(u) \in Int
<1> DEFINE f == [g \in Opened |-> moved[g][u]]
           h == [g \in S |-> moved[g][u]]
<1>1. \A g \in Games : moved[g][u] \in Int
  BY DEF BattleInv, Shapes
<1>2. \A g \in Games \ Opened : moved[g][u] = 0
  BY DEF Opened, BattleInv, GameOK, Pot, Share
<1>3. IsFiniteSet(Opened) /\ Opened \subseteq Games
  BY DEF Balances, Opened
<1>4. /\ \A g \in Opened : f[g] = h[g]
      /\ \A g \in Opened : f[g] \in Int
      /\ \A g \in S : h[g] \in Int
      /\ \A g \in S \ Opened : h[g] = 0
  BY <1>1, <1>2, <1>3
<1>5. Moved(u) = SumFunctionOnSet(f, Opened)
  BY DEF Moved
<1> HIDE DEF f, h
<1>6. SumFunctionOnSet(f, Opened) = SumFunctionOnSet(h, Opened)
  BY <1>3, <1>4, SumSame
<1>7. SumFunctionOnSet(h, S) = SumFunctionOnSet(h, Opened)
  BY <1>4, SumRestrict
<1>8. SumFunctionOnSet(f, Opened) \in Int
  BY <1>3, <1>4, SumInt
<1> QED
  BY <1>5, <1>6, <1>7, <1>8 DEF h

LEMMA MovedInt ==
    ASSUME BattleInv, Balances, NEW u \in Users
    PROVE  Moved(u) \in Int /\ Start[u] \in Int
<1>1. IsFiniteSet(Opened) /\ Opened \subseteq Games
  BY DEF Balances, Opened
<1>2. Moved(u) \in Int
  BY <1>1, MovedOver
<1> QED
  BY <1>2

\* A row of one game is written, or none.
LEMMA RowMoves ==
    ASSUME BattleInv, Balances, BattleInv', NEW u \in Users, NEW g \in Games, NEW d \in Int,
           Opened' = Opened \cup {g},
           moved'[g][u] = moved[g][u] + d,
           \A h \in Games : h # g => moved'[h][u] = moved[h][u]
    PROVE  Moved(u)' = Moved(u) + d
<1> DEFINE S == Opened \cup {g}
           f == [h \in S |-> moved[h][u]]
           k == [h \in S |-> moved'[h][u]]
<1>1. IsFiniteSet(S) /\ Opened \subseteq S /\ S \subseteq Games /\ g \in S
  BY FS_AddElement DEF Balances, Opened
<1>2. /\ \A h \in S : f[h] \in Int
      /\ k[g] = f[g] + d
      /\ \A h \in S : h # g => k[h] = f[h]
  BY <1>1 DEF BattleInv, Shapes
<1>3. Moved(u)' = SumFunctionOnSet(k, S)
  BY DEF Moved
<1>4. Moved(u) = SumFunctionOnSet(f, S)
  BY <1>1, MovedOver
<1> HIDE DEF f, k, S
<1> QED
  BY <1>1, <1>2, <1>3, <1>4, SumUpdate

\* A row of every game of a batch is written.
LEMMA BatchMoves ==
    ASSUME BattleInv, Balances, NEW u \in Users, NEW batch, batch \subseteq Opened, NEW pay,
           \A g \in batch : pay[g] \in Int,
           Opened' = Opened,
           \A g \in Games : moved'[g][u] = moved[g][u] + (IF g \in batch THEN pay[g] ELSE 0)
    PROVE  Moved(u)' = Moved(u) + SumFunctionOnSet(pay, batch)
<1> DEFINE f == [g \in Opened |-> moved[g][u]]
           p == [g \in Opened |-> IF g \in batch THEN pay[g] ELSE 0]
           k == [g \in Opened |-> moved'[g][u]]
<1>1. IsFiniteSet(Opened) /\ Opened \subseteq Games /\ IsFiniteSet(batch)
  BY FS_Subset DEF Balances, Opened
<1>2. /\ \A g \in Opened : f[g] \in Int /\ p[g] \in Int /\ k[g] = f[g] + p[g]
      /\ \A g \in Opened \ batch : p[g] = 0
      /\ \A g \in batch : p[g] = pay[g]
  BY <1>1 DEF BattleInv, Shapes
<1>3. Moved(u) = SumFunctionOnSet(f, Opened) /\ Moved(u)' = SumFunctionOnSet(k, Opened)
  BY DEF Moved
<1> HIDE DEF f, p, k
<1>4. SumFunctionOnSet(k, Opened) = SumFunctionOnSet(f, Opened) + SumFunctionOnSet(p, Opened)
  BY <1>1, <1>2, SumAdd
<1>5. \A g \in Opened : p[g] \in Int
  BY <1>2
<1>6. SumFunctionOnSet(p, Opened) = SumFunctionOnSet(p, batch)
  BY <1>1, <1>2, <1>5, SumRestrict
<1>7. SumFunctionOnSet(p, batch) = SumFunctionOnSet(pay, batch)
  BY <1>1, <1>2, SumSame
<1> QED
  BY <1>3, <1>4, <1>6, <1>7

\* A balance written from a stale read stays recorded as such: its game is over.
LEMMA StaleStays ==
    ASSUME BattleInv, Next, NEW u \in Users, WrittenFromStale(u)
    PROVE  WrittenFromStale(u)'
<1>1. PICK g \in Games : \/ status[g] = "cancelled" /\ Creator[g] = u
                         \/ Len(reacted[g]) = 2 /\ winner[g] = u /\ reacted[g][2] = u
  BY DEF WrittenFromStale
<1>2. Forward(g)
  BY StepForward
<1>3. CASE status[g] = "cancelled" /\ Creator[g] = u
  BY <1>2, <1>3 DEF Forward, Terminal, WrittenFromStale
<1>4. CASE Len(reacted[g]) = 2 /\ winner[g] = u /\ reacted[g][2] = u
  <2>1. status[g] = "completed"
    BY <1>4 DEF BattleInv, GameOK, Won
  <2>2. winner'[g] = winner[g]
    BY <1>2, <2>1 DEF Forward, Terminal
  <2>3. reacted'[g] = reacted[g]
    <3>1. ASSUME NEW h \in Games, FirstReaction(h) \/ Settle(h)
          PROVE  reacted'[g] = reacted[g]
      <4>1. status[h] = "active"
        BY <3>1 DEF FirstReaction, Settle, BattleInv, GameOK, Held
      <4> QED
        BY <2>1, <3>1, <4>1 DEF FirstReaction, Settle, BattleInv, Shapes
    <3>2. CASE ~ \E h \in Games : FirstReaction(h) \/ Settle(h)
      BY <3>2 DEF Next, Finish, CreateGame, BeginCancel, JoinGame, BeginReact, CancelGame,
                  Abort, TimeOut, StartReaction, ExpireWaiting, ExpireActive, moneyVars, gameVars
    <3> QED
      BY <3>1, <3>2
  <2> QED
    BY <1>4, <2>2, <2>3 DEF WrittenFromStale
<1> QED
  BY <1>1, <1>3, <1>4

\* One user's row of one game is written: that balance moves with it, unless it was
\* written from a stale read; the others stay.
LEMMA OneRowOK ==
    ASSUME TokensInv, BattleInv', Next, NEW g \in Games, NEW w \in Users, NEW d \in Int,
           NEW seen \in Int, Record(g, w, seen, d),
           Opened' = Opened \cup {g},
           seen = tokens[w] \/ WrittenFromStale(w)'
    PROVE  \A u \in Users : RowsOK(u)'
<1> SUFFICES ASSUME NEW u \in Users, ~ WrittenFromStale(u)'
             PROVE  tokens'[u] = Start[u] + Moved(u)'
  BY DEF RowsOK
<1>1. BattleInv /\ Balances /\ RowsOK(u)
  BY DEF TokensInv
<1>2. ~ WrittenFromStale(u)
  BY <1>1, StaleStays
<1>3. tokens[u] = Start[u] + Moved(u)
  BY <1>1, <1>2 DEF RowsOK
<1>4. Moved(u) \in Int /\ Start[u] \in Int
  BY <1>1, MovedInt
<1>5. /\ tokens' = [tokens EXCEPT ![w] = seen + d]
      /\ moved' = [moved EXCEPT ![g][w] = @ + d]
      /\ tokens \in [Users -> Int] /\ moved \in [Games -> [Users -> Int]]
  BY <1>1 DEF Record, Balances, BattleInv, Shapes
<1>6. \A h \in Games : h # g => moved'[h][u] = moved[h][u]
  BY <1>5
<1>7. CASE u = w
  <2>1. moved'[g][u] = moved[g][u] + d /\ tokens'[u] = tokens[u] + d
    BY <1>5, <1>7
  <2>2. Moved(u)' = Moved(u) + d
    BY <1>1, <1>6, <2>1, RowMoves
  <2> QED
    BY <1>3, <1>4, <2>1, <2>2
<1>8. CASE u # w
  <2>1. moved'[g][u] = moved[g][u] + 0 /\ tokens'[u] = tokens[u]
    BY <1>5, <1>8
  <2>2. Moved(u)' = Moved(u) + 0
    BY <1>1, <1>6, <2>1, RowMoves
  <2> QED
    BY <1>3, <1>4, <2>1, <2>2
<1> QED
  BY <1>7, <1>8

\* A row of every game of a batch is written: every balance moves by what the batch pays.
LEMMA BatchOK ==
    ASSUME TokensInv, Next, NEW u \in Users, NEW batch, batch \subseteq Opened, NEW p,
           \A g \in batch : p[g] \in Int,
           Opened' = Opened,
           tokens'[u] = tokens[u] + SumFunctionOnSet(p, batch),
           \A g \in Games : moved'[g][u] = moved[g][u] + (IF g \in batch THEN p[g] ELSE 0)
    PROVE  RowsOK(u)' /\ tokens'[u] \in Int
<1>1. BattleInv /\ Balances /\ RowsOK(u)
  BY DEF TokensInv
<1>2. IsFiniteSet(batch) /\ tokens[u] \in Int
  BY <1>1, FS_Subset DEF Balances
<1>3. SumFunctionOnSet(p, batch) \in Int
  BY <1>2, SumInt
<1>4. Moved(u)' = Moved(u) + SumFunctionOnSet(p, batch)
  BY <1>1, BatchMoves
<1>5. Moved(u) \in Int /\ Start[u] \in Int
  BY <1>1, MovedInt
<1>6. CASE WrittenFromStale(u)
  BY <1>1, <1>2, <1>3, <1>6, StaleStays DEF RowsOK
<1>7. CASE tokens[u] = Start[u] + Moved(u)
  <2>1. tokens'[u] = Start[u] + Moved(u)'
    BY <1>3, <1>4, <1>5, <1>7
  <2> QED
    BY <1>2, <1>3, <2>1 DEF RowsOK
<1> QED
  BY <1>1, <1>6, <1>7 DEF RowsOK

LEMMA ExpiryRows ==
    ASSUME TokensInv, Next, ExpireWaiting \/ ExpireActive
    PROVE  (\A u \in Users : RowsOK(u)') /\ Balances'
<1>1. /\ Opened' = Opened
      /\ Due("waiting") \subseteq Opened /\ Due("active") \subseteq Opened
      /\ UNCHANGED <<holder, aborts>>
  <2>1. UNCHANGED <<holder, aborts>>
    BY DEF ExpireWaiting, ExpireActive
  <2>2. \A g \in Games : status'[g] # "none" <=> status[g] # "none"
    <3>1. CASE ExpireWaiting
      <4>1. \A g \in Games : status'[g] = IF g \in Due("waiting") THEN "expired" ELSE status[g]
        BY <3>1 DEF ExpireWaiting
      <4> QED
        BY <4>1 DEF Due
    <3>2. CASE ExpireActive
      <4>1. \A g \in Games :
               \/ status'[g] = status[g]
               \/ g \in Due("active") /\ status'[g] \in {"completed", "expired"}
        BY <3>2 DEF ExpireActive
      <4> QED
        BY <4>1 DEF Due
    <3> QED
      BY <3>1, <3>2
  <2> QED
    BY <2>1, <2>2 DEF Opened, Due
<1>2. \E st \in {"waiting", "active"}, pay \in [Games -> [Users -> Int]] :
         /\ tokens' = [u \in Users |-> tokens[u] +
                          SumFunctionOnSet([g \in Due(st) |-> pay[g][u]], Due(st))]
         /\ \A g \in Games, u \in Users :
               moved'[g][u] = moved[g][u] + (IF g \in Due(st) THEN pay[g][u] ELSE 0)
  <2>0. \A st : Due(st) \subseteq Games
    BY DEF Due
  <2>1. moved \in [Games -> [Users -> Int]]
    BY DEF TokensInv, BattleInv, Shapes
  <2>2. CASE ExpireWaiting
    <3> DEFINE pay == [g \in Games |-> [u \in Users |-> IF u = Creator[g] THEN Entry[g] ELSE 0]]
    <3>1. pay \in [Games -> [Users -> Int]]
      OBVIOUS
    <3>2. /\ tokens' = [u \in Users |-> tokens[u] + SumFunctionOnSet(
                          [g \in Due("waiting") |-> IF u = Creator[g] THEN Entry[g] ELSE 0],
                          Due("waiting"))]
          /\ \A g \in Games, u \in Users :
               moved'[g][u] = IF g \in Due("waiting")
                              THEN moved[g][u] + (IF u = Creator[g] THEN Entry[g] ELSE 0)
                              ELSE moved[g][u]
      BY <2>2 DEF ExpireWaiting, RecordBatch
    <3>3. \A u \in Users : [g \in Due("waiting") |-> IF u = Creator[g] THEN Entry[g] ELSE 0]
                           = [g \in Due("waiting") |-> pay[g][u]]
      BY <2>0
    <3>4. \A g \in Games, u \in Users :
             moved'[g][u] = moved[g][u] + (IF g \in Due("waiting") THEN pay[g][u] ELSE 0)
      BY <2>1, <3>2
    <3>5. tokens' = [u \in Users |-> tokens[u] +
                        SumFunctionOnSet([g \in Due("waiting") |-> pay[g][u]], Due("waiting"))]
      BY <3>2, <3>3
    <3> HIDE DEF pay
    <3> QED
      BY <3>1, <3>4, <3>5
  <2>3. CASE ExpireActive
    <3> DEFINE pay == [g \in Games |-> [u \in Users |-> TimeoutPayment(g, u)]]
    <3>1. pay \in [Games -> [Users -> Int]]
      BY FeeType DEF TimeoutPayment
    <3>2. /\ tokens' = [u \in Users |-> tokens[u] + SumFunctionOnSet(
                          [g \in Due("active") |-> TimeoutPayment(g, u)], Due("active"))]
          /\ \A g \in Games, u \in Users :
               moved'[g][u] = IF g \in Due("active")
                              THEN moved[g][u] + TimeoutPayment(g, u)
                              ELSE moved[g][u]
      BY <2>3 DEF ExpireActive, RecordBatch
    <3>3. \A u \in Users : [g \in Due("active") |-> TimeoutPayment(g, u)]
                           = [g \in Due("active") |-> pay[g][u]]
      BY <2>0
    <3>4. \A g \in Games, u \in Users :
             moved'[g][u] = moved[g][u] + (IF g \in Due("active") THEN pay[g][u] ELSE 0)
      BY <2>1, <3>2
    <3>5. tokens' = [u \in Users |-> tokens[u] +
                        SumFunctionOnSet([g \in Due("active") |-> pay[g][u]], Due("active"))]
      BY <3>2, <3>3
    <3> HIDE DEF pay
    <3> QED
      BY <3>1, <3>4, <3>5
  <2> QED
    BY <2>2, <2>3
<1>3. PICK st \in {"waiting", "active"}, pay \in [Games -> [Users -> Int]] :
         /\ tokens' = [u \in Users |-> tokens[u] +
                          SumFunctionOnSet([g \in Due(st) |-> pay[g][u]], Due(st))]
         /\ \A g \in Games, u \in Users :
               moved'[g][u] = moved[g][u] + (IF g \in Due(st) THEN pay[g][u] ELSE 0)
  BY <1>2
<1>4. Due(st) \subseteq Opened
  BY <1>1
<1>5. \A u \in Users : tokens'[u] =
         tokens[u] + SumFunctionOnSet([g \in Due(st) |-> pay[g][u]], Due(st))
  BY <1>3
<1>6. ASSUME NEW u \in Users
      PROVE  RowsOK(u)' /\ tokens'[u] \in Int
  <2> DEFINE batch == Due(st)
             p == [g \in batch |-> pay[g][u]]
  <2>1. batch \subseteq Opened /\ Opened' = Opened
    BY <1>1, <1>4
  <2>2. \A g \in batch : p[g] \in Int
    BY <2>1 DEF Opened
  <2>3. tokens'[u] = tokens[u] + SumFunctionOnSet(p, batch)
    BY <1>5
  <2>4. \A g \in Games : moved'[g][u] = moved[g][u] + (IF g \in batch THEN p[g] ELSE 0)
    BY <1>3
  <2> HIDE DEF batch, p
  <2> QED
    BY <2>1, <2>2, <2>3, <2>4, BatchOK
<1>7. tokens' \in [Users -> Int]
  BY <1>3, <1>6
<1> QED
  BY <1>1, <1>6, <1>7 DEF TokensInv, Balances

\* A player's handler writes one row, from what it sees of the balance.
LEMMA PlayerRows ==
    ASSUME TokensInv, BattleInv', Next, NEW g \in Games,
           CreateGame(g) \/ (\E u \in Users : JoinGame(g, u)) \/ CancelGame(g) \/ Settle(g)
    PROVE  (\A u \in Users : RowsOK(u)') /\ Balances'
<1>1. /\ tokens \in [Users -> Int] /\ status \in [Games -> Statuses]
      /\ holder \in [Games -> [op : {"free", "cancel", "react"},
                               user : Users \cup {NoUser}, seen : Int]]
      /\ Free \in [op : {"free", "cancel", "react"}, user : Users \cup {NoUser}, seen : Int]
      /\ aborts \in 0..MaxAborts /\ IsFiniteSet(Opened)
      /\ winner \in [Games -> Users \cup {NoUser}]
      /\ reacted \in [Games -> Seq(Users)]
      /\ GameOK(g)
      /\ Creator[g] \in Users /\ Entry[g] \in Int /\ Reward(g) \in Int
  BY FeeType DEF TokensInv, BattleInv, Shapes, Balances, Free
<1>2. /\ Opened' = Opened \cup {g}
      /\ aborts' = aborts
      /\ holder' = holder \/ holder' = [holder EXCEPT ![g] = Free]
  <2>1. status' = [status EXCEPT ![g] = status'[g]] /\ status'[g] # "none"
    BY <1>1 DEF CreateGame, JoinGame, CancelGame, Settle
  <2>2. Opened' = Opened \cup {g}
    BY <1>1, <2>1 DEF Opened
  <2> QED
    BY <2>2 DEF CreateGame, JoinGame, CancelGame, Settle
<1> DEFINE Written == \E w \in Users, d \in Int, seen \in Int :
                         /\ Record(g, w, seen, d)
                         /\ seen = tokens[w] \/ WrittenFromStale(w)'
<1>3. Written
  <2>1. CASE CreateGame(g)
    BY <1>1, <2>1 DEF CreateGame
  <2>2. ASSUME NEW u \in Users, JoinGame(g, u)
        PROVE  Written
    BY <1>1, <2>2 DEF JoinGame
  <2>3. CASE CancelGame(g)
    <3>1. status'[g] = "cancelled" /\ Record(g, Creator[g], holder[g].seen, Entry[g])
      BY <1>1, <2>3 DEF CancelGame
    <3>2. WrittenFromStale(Creator[g])'
      BY <3>1 DEF WrittenFromStale
    <3> QED
      BY <1>1, <3>1, <3>2
  <2>4. CASE Settle(g)
    <3>1. PICK w \in {reacted[g][1], holder[g].user} :
             winner' = [winner EXCEPT ![g] = w] /\ Record(g, w, Seen(g, w), Reward(g))
      BY <2>4 DEF Settle
    <3>2. /\ Len(reacted[g]) = 1 /\ holder[g].op = "react"
          /\ reacted' = [reacted EXCEPT ![g] = Append(@, holder[g].user)]
      BY <2>4 DEF Settle
    <3>3. holder[g].user \in Users
      BY <1>1, <3>2 DEF GameOK, Held, Joined, Players
    <3>4. reacted[g][1] \in Users
      BY <1>1, <3>2
    <3>5. CASE w = holder[g].user
      <4>1. reacted'[g] = Append(reacted[g], w) /\ winner'[g] = w
        BY <1>1, <3>1, <3>2, <3>5
      <4>2. Len(reacted'[g]) = 2 /\ reacted'[g][2] = w
        <5>1. reacted[g] \in Seq(Users) /\ w \in Users
          BY <1>1, <3>3, <3>5
        <5> QED
          BY <5>1, <3>2, <4>1, AppendProperties
      <4>3. WrittenFromStale(w)'
        BY <4>1, <4>2 DEF WrittenFromStale
      <4>4. Seen(g, w) \in Int
        BY <1>1, <3>5 DEF Seen
      <4> QED
        BY <1>1, <3>1, <3>3, <3>5, <4>3, <4>4
    <3>6. CASE w # holder[g].user
      <4>1. Seen(g, w) = tokens[w] /\ w \in Users
        BY <3>1, <3>4, <3>6 DEF Seen
      <4> QED
        BY <1>1, <3>1, <4>1
    <3> QED
      BY <3>5, <3>6
  <2> QED
    BY <2>1, <2>2, <2>3, <2>4
<1>4. PICK w \in Users, d \in Int, seen \in Int :
         /\ Record(g, w, seen, d)
         /\ seen = tokens[w] \/ WrittenFromStale(w)'
  BY <1>3
<1>5. \A u \in Users : RowsOK(u)'
  BY <1>2, <1>4, OneRowOK
<1>6. tokens' \in [Users -> Int]
  BY <1>1, <1>4 DEF Record
<1>7. IsFiniteSet(Opened')
  BY <1>1, <1>2, FS_AddElement
<1>8. holder' \in [Games -> [op : {"free", "cancel", "react"},
                             user : Users \cup {NoUser}, seen : Int]]
  BY <1>1, <1>2
<1> QED
  BY <1>1, <1>2, <1>5, <1>6, <1>7, <1>8 DEF Balances

\* The other steps write no balance and no row.
LEMMA QuietRows ==
    ASSUME TokensInv, Next, NEW g \in Games,
           \/ BeginCancel(g) \/ (\E u \in Users : BeginReact(g, u)) \/ FirstReaction(g)
           \/ Abort(g) \/ TimeOut(g) \/ StartReaction(g)
    PROVE  (\A u \in Users : RowsOK(u)') /\ Balances'
<1>1. /\ tokens \in [Users -> Int]
      /\ holder \in [Games -> [op : {"free", "cancel", "react"},
                               user : Users \cup {NoUser}, seen : Int]]
      /\ aborts \in 0..MaxAborts /\ IsFiniteSet(Opened)
  BY DEF TokensInv, Balances
<1>2. UNCHANGED <<tokens, moved, status>>
  BY DEF BeginCancel, BeginReact, FirstReaction, Abort, TimeOut, StartReaction,
         moneyVars, gameVars
<1>3. Opened' = Opened /\ \A u \in Users : Moved(u)' = Moved(u)
  BY <1>2 DEF Opened, Moved
<1>4. \A u \in Users : RowsOK(u)'
  BY <1>2, <1>3, StaleStays DEF RowsOK, TokensInv
<1>5. holder' \in [Games -> [op : {"free", "cancel", "react"},
                             user : Users \cup {NoUser}, seen : Int]]
  BY <1>1 DEF BeginCancel, BeginReact, FirstReaction, Abort, TimeOut, StartReaction, Free
<1>6. aborts' \in 0..MaxAborts
  BY <1>1 DEF BeginCancel, BeginReact, FirstReaction, Abort, TimeOut, StartReaction
<1> QED
  BY <1>1, <1>2, <1>3, <1>4, <1>5, <1>6 DEF Balances

LEMMA TokensInitOK == Init => TokensInv
<1> SUFFICES ASSUME Init PROVE TokensInv
  OBVIOUS
<1>1. BattleInv
  BY InitOK
<1>2. Opened = {}
  BY DEF Init, Opened
<1>3. Balances
  BY <1>2, FS_EmptySet DEF Init, Balances, Free
<1>4. ASSUME NEW u \in Users PROVE tokens[u] = Start[u] + Moved(u)
  <2>1. Moved(u) = 0
    BY <1>2, SumEmpty DEF Moved
  <2> QED
    BY <2>1 DEF Init
<1> QED
  BY <1>1, <1>3, <1>4 DEF TokensInv, RowsOK

LEMMA TokensStepOK == TokensInv /\ [Next]_vars => TokensInv'
<1> SUFFICES ASSUME TokensInv, [Next]_vars PROVE TokensInv'
  OBVIOUS
<1>1. BattleInv'
  BY StepOK DEF TokensInv
<1>2. CASE UNCHANGED vars
  <2>1. UNCHANGED <<tokens, moved, status, reacted, winner, holder, aborts>>
    BY <1>2 DEF vars, moneyVars, gameVars
  <2>2. Opened' = Opened /\ \A u \in Users : Moved(u)' = Moved(u)
    BY <2>1 DEF Opened, Moved
  <2> QED
    BY <1>1, <2>1, <2>2 DEF TokensInv, Balances, RowsOK, WrittenFromStale
<1>3. CASE Next
  <2>1. (\A u \in Users : RowsOK(u)') /\ Balances'
    <3>1. CASE ExpireWaiting \/ ExpireActive
      BY <1>3, <3>1, ExpiryRows
    <3>2. CASE \E g \in Games : CreateGame(g) \/ (\E u \in Users : JoinGame(g, u))
                                  \/ CancelGame(g) \/ Settle(g)
      BY <1>1, <1>3, <3>2, PlayerRows
    <3>3. CASE \E g \in Games :
                 \/ BeginCancel(g) \/ (\E u \in Users : BeginReact(g, u)) \/ FirstReaction(g)
                 \/ Abort(g) \/ TimeOut(g) \/ StartReaction(g)
      BY <1>3, <3>3, QuietRows
    <3> QED
      BY <1>3, <3>1, <3>2, <3>3 DEF Next, Finish
  <2> QED
    BY <1>1, <2>1 DEF TokensInv
<1> QED
  BY <1>2, <1>3

LEMMA BalancesInvariant == Spec => []TokensInv
BY TokensInitOK, TokensStepOK, PTL DEF Spec

\* The types of the whole state: no balance, stake or reaction is ever anything else than
\* the code can store.
THEOREM BattleTypes == Spec => []BattleTypeOK
<1>1. TokensInv => BattleTypeOK
  BY DEF TokensInv, BattleInv, Shapes, Balances, BattleTypeOK
<1> QED
  BY <1>1, BalancesInvariant, PTL

\* For any number of games at once: who never cancelled a game and never won as the second
\* to react has exactly the tokens its token_transactions add up to.  Only the two balances
\* that TokenService reads without a lock (game_service.py:218-230, 255-289) can differ.
THEOREM TokensAreRows == Spec => []TokensMatchRows
<1>1. TokensInv => TokensMatchRows
  BY DEF TokensInv, RowsOK, Moved, Opened, TokensMatchRows
<1> QED
  BY <1>1, BalancesInvariant, PTL
=============================================================================
