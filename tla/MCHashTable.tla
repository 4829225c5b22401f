----------------------------- MODULE MCHashTable -----------------------------
(* Few addresses whose hash values collide in small tables, for TLC. *)
EXTENDS HashTable, TLC

CONSTANTS p1, p2, p3, p4

\* Three addresses that stay together through two doublings, and one apart.
HashFour == p1 :> 0 @@ p2 :> 8 @@ p3 :> 16 @@ p4 :> 1

\* The names of elements, keys and values do not matter, those of addresses do.
Symmetric == Permutations(Elem) \cup Permutations(Key) \cup Permutations(Value)
=============================================================================
