------------------------------ MODULE RingArcs ------------------------------
(***************************************************************************)
(* The arithmetic of the ring, shared by both blocks: where a key falls on *)
(* the ring and which of a peer, its successor or somebody else a peer     *)
(* believes to be in charge of it (ringHashing and checkPeer of dht.c).    *)
(***************************************************************************)
EXTENDS Integers

thisPeer    == "thisPeer"
nextPeer    == "nextPeer"
unknownPeer == "unknownPeer"

Byte == 0..255

\* The first two bytes of a key, the part of it that travels in LOOKUP and
\* REPLY as the hash ID.
HashID == Byte \X Byte

\* DHT/dht.c: each of the two bytes modulo 80, added up (0..158).
ringHashing(id) == (id[1] % 80) + (id[2] % 80)

\* The test checkPeer makes of the arc that ends in hi and starts after lo.
\* When the arc passes zero the code compares with a strict < on its far end,
\* so hi itself belongs to no arc that wraps.
InArc(lo, hi, h) ==
  \/ lo < h /\ h <= hi
  \/ lo > hi /\ (h > lo \/ h < hi)

checkPeer(node, prev, next, h) ==
  CASE InArc(prev, node, h) -> thisPeer
    [] ~InArc(prev, node, h) /\ InArc(node, next, h) -> nextPeer
    [] OTHER -> unknownPeer
=============================================================================
