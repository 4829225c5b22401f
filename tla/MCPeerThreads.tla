--------------------------- MODULE MCPeerThreads ---------------------------
(* Two peers that are each other's successor. *)
EXTENDS PeerThreads, TLC

CONSTANTS p1, p2

Ring2 == p1 :> p2 @@ p2 :> p1
=============================================================================
