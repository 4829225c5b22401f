----------------------------- MODULE Block5Arcs -----------------------------
(***************************************************************************)
(* The arithmetic of the ring in Block 5 (jft.DHT/dht.c).  It differs from *)
(* Block 4 in the hash, which is the first two bytes of the key as one     *)
(* number, and in the case of a peer that has no successor yet.            *)
(***************************************************************************)
EXTENDS Integers, FiniteSetsExt
Block4 == INSTANCE RingArcs

CONSTANT unknown   \* dht.h: 65536, above every two-byte ID

thisPeer    == "thisPeer"
nextPeer    == "nextPeer"
unknownPeer == "unknownPeer"

InArc(lo, hi, h) == Block4!InArc(lo, hi, h)

\* A peer without successor thinks it is in charge of everything.
checkPeer(node, prev, next, h) ==
  CASE next = unknown \/ InArc(prev, node, h) -> thisPeer
    [] next # unknown /\ ~InArc(prev, node, h) /\ InArc(node, next, h) -> nextPeer
    [] OTHER -> unknownPeer

\* x lies strictly between lo and hi, going up from lo and past zero.
Between(lo, x, hi) == IF lo < hi THEN lo < x /\ x < hi ELSE x > lo \/ x < hi

-----------------------------------------------------------------------------
\* Keys hash to their first two bytes, big-endian; rv_memcpy writes the start of
\* a finger the same way.
ringHashing(id) == id[1] * 256 + id[2]

exponential_of_two[n \in Nat] == IF n = 0 THEN 1 ELSE 2 * exponential_of_two[n - 1]

\* A slip: the search does not stop at an entry that is the hash value itself.
lookupUpTo(h, ft, size) ==
  LET Slot == 0..(size - 1)
      IDs == {ft[i] : i \in Slot}
      below == {i \in Slot : \A j \in 0..i : ft[j] <= h}
  IN IF h < Min(IDs) \/ h > Max(IDs) \/ below = {}
       THEN Max({i \in Slot : ft[i] = Max(IDs)})
       ELSE Max(below)

\* finger_table_lookup in the first size entries: with h outside of all of
\* them, or below the first, the last of the largest; else the last of those
\* that lead up to h.
finger_table_lookup(h, ft, size) ==
  LET Slot == 0..(size - 1)
      IDs == {ft[i] : i \in Slot}
      below == {i \in Slot : \A j \in 0..i : ft[j] < h}
  IN IF h < Min(IDs) \/ h > Max(IDs) \/ below = {}
       THEN Max({i \in Slot : ft[i] = Max(IDs)})
       ELSE Max(below)
=============================================================================
