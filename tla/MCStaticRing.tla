---------------------------- MODULE MCStaticRing ----------------------------
(* Small rings for TLC. *)
EXTENDS StaticRing, TLC

CONSTANTS r1, r2, r3, k1, k2, k3, v1, v2

Succ(ring) == [p \in Range(ring) |->
  LET i == CHOOSE j \in DOMAIN ring : ring[j] = p IN ring[1 + (i % Len(ring))]]
Pred(ring) == [p \in Range(ring) |->
  CHOOSE q \in Range(ring) : Succ(ring)[q] = p]

\* Four peers: a LOOKUP passes through two of them.
Ring4 == <<10, 40, 90, 130>>
Peer4 == Range(Ring4)
Next4 == Succ(Ring4)
Prev4 == Pred(Ring4)

\* Each request may enter at any peer, or all at one.
EntryAny == [r \in Request |-> Peer]
EntryOne == [r \in Request |-> {10}]

\* 40: the very ID of a peer; 145: past the last peer; 10: the smallest ID.
HashEdges == k1 :> <<40, 0>> @@ k2 :> <<79, 66>> @@ k3 :> <<90, 0>>
\* Two keys with the same first two bytes (90), one with others.
HashSame == k1 :> <<50, 40>> @@ k2 :> <<50, 40>> @@ k3 :> <<79, 66>>

Symmetric == Permutations(Request)
=============================================================================
