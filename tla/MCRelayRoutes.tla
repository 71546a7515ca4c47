----------------------------- MODULE MCRelayRoutes -----------------------------
(* Small instances of RelayRoutes: the connections of one route.              *)
EXTENDS RelayRoutes

CONSTANTS r1, c1, c2, c3

MCRoutes == {r1}
MCTwoConnections == {c1, c2}
MCThreeConnections == {c1, c2, c3}
=============================================================================
