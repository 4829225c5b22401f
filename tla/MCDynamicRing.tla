--------------------------- MODULE MCDynamicRing ---------------------------
(* Small sets of peers and keys for TLC. *)
EXTENDS DynamicRing, TLC

CONSTANTS r1, r2, k1, k2, v1, v2

Peer3 == {300, 600, 1100}

\* 600 is the ID of a peer; 512 the hash of a key of one byte, which shares its first
\* byte with the other key.
TwoKeys == k1 :> <<2, 88>> @@ k2 :> <<2, 0>>
\* Keys that are nobody's ID.
KeysInside == k1 :> <<2, 87>> @@ k2 :> <<2, 0>>

Set(k, v) == [op |-> "SET", key |-> k, val |-> v]
Get(k) == [op |-> "GET", key |-> k, val |-> None]

\* One client writes, the other reads the same or writes the other key.
AsksTwo == r1 :> {Set(k1, v1)} @@ r2 :> {Get(k1), Set(k2, v2)}
AsksOne == r1 :> {Set(k1, v1)}
EntryAny == [r \in Request |-> Peer]
EntryLast == [r \in Request |-> {1100}]
=============================================================================
