--------------------------- MODULE MCFingerTable ---------------------------
(* A ring of four peers with four-bit IDs for TLC. *)
EXTENDS FingerTable, TLC

CONSTANT r1

\* The last entry of 9 starts at the smallest ID, which nobody is in charge of.
Peer4 == {1, 5, 9, 12}
Next4 == 1 :> 5 @@ 5 :> 9 @@ 9 :> 12 @@ 12 :> 1
Prev4 == 1 :> 12 @@ 5 :> 1 @@ 9 :> 5 @@ 12 :> 9

\* 9 is the ID of a peer, and an entry of 1 and one of 5 start there.
HashOne == r1 :> 9
EntryAny == [r \in Request |-> Peer]
=============================================================================
