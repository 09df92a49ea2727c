--------------------------- MODULE MCRequestCycle ---------------------------
(* Instances of RequestCycle for TLC. *)
EXTENDS RequestCycle, TLC

CONSTANTS r1, r2, p1, p2

MCPeers == {p1, p2}
\* Two requests to two peers, or to one.
TwoPeers == r1 :> p1 @@ r2 :> p2
OnePeer == r1 :> p1 @@ r2 :> p1
MCRequests == {r1, r2}
CommunityKinds == {"response", "badResponse", "mismatch"}
=============================================================================
