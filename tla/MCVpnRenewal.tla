---------------------------- MODULE MCVpnRenewal ----------------------------
(* u1 renews s1 in both ways; its panel is of either type. *)
EXTENDS VpnRenewal, TLC

CONSTANTS u1, s1, r1, r2, d1, q1

MCOwner == s1 :> u1
MCPanelOf == s1 :> q1
MCFirstExpire == s1 :> 2
MCServiceOf == r1 :> s1 @@ r2 :> s1
MCVia == r1 :> "quote" @@ r2 :> "order"
MCPrice == r1 :> 3 @@ r2 :> 4
MCDays == s1 :> 2
MCCredited == d1 :> u1
MCSum == d1 :> 7
=============================================================================
