------------------------------ MODULE MCFunds -------------------------------
(* An instance of Funds for TLC: u1 pays, both users take part. *)
EXTENDS Funds

CONSTANTS u1, u2, p1, o1, t1, earlier, nobody

MCRefs == {p1, t1, earlier}
MCPayer == p1 :> u1
MCHolder == o1 :> u1
MCOpening == u1 :> 2 @@ u2 :> 1
=============================================================================
