--------------------------- MODULE MCReactionBattle ---------------------------
(* An instance of ReactionBattle for TLC: two games among three players. *)
EXTENDS ReactionBattle, TLC

CONSTANTS u1, u2, u3, g1, g2

MCUsers == {u1, u2, u3}
MCGames == {g1, g2}
MCCreator == g1 :> u1 @@ g2 :> u2
MCEntry == g1 :> 10 @@ g2 :> 15
MCStart == u1 :> 25 @@ u2 :> 25 @@ u3 :> 15
=============================================================================
