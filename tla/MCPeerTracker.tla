--------------------------- MODULE MCPeerTracker ----------------------------
(* Two peers, two blocks; a peer expires at the second tick.                 *)
EXTENDS PeerTracker

CONSTANTS a1, a2, s1, s2

MCAddrs == {a1, a2}
MCSlots == {s1, s2}
=============================================================================
