--------------------------- MODULE MCGatewayHttp ---------------------------
(* Requests of two wallets over two sessions.                               *)
EXTENDS GatewayHttp, TLC

CONSTANTS w1, w2

AllPaths == DOMAIN Routes \cup {"other", "%zz"}

Symmetry == Permutations(Req) \cup Permutations(Address) \cup Permutations(SessionId)
=============================================================================
