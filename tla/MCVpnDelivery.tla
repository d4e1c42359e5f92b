---------------------------- MODULE MCVpnDelivery ---------------------------
(* Two orders of one user in one second. *)
EXTENDS VpnDelivery, TLC

CONSTANTS o1, o2, q1, q2, a1, none

MCName == o1 :> a1 @@ o2 :> a1
MCPriority == q1 :> 100 @@ q2 :> 100
=============================================================================
