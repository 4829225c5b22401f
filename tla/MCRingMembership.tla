-------------------------- MODULE MCRingMembership --------------------------
(* A small set of node IDs for TLC. *)
EXTENDS RingMembership

Peer5 == {3, 5, 7, 9, 12}
=============================================================================
