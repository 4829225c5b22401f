-------------------------- MODULE FingerTableProofs --------------------------
(***************************************************************************)
(* FingerTable for every ring of at least two peers, every number of bits  *)
(* and every set of requests and FINGERs: the tables are right, no LOOKUP  *)
(* overshoots, and a peer goes down only after a clash.                    *)
(*                                                                         *)
(* First the arithmetic: the powers of two, the arcs of the ring (Owns),   *)
(* Between, and what finger_table_lookup finds in a table whose entries    *)
(* are in charge of where they start (TableGoesAhead).  Then the steps, as *)
(* what they do to messages, lists and tables (Effect), and the invariant  *)
(* in three parts: TInv of the tables, LInv of LOOKUPs and REPLYs, which   *)
(* TInv sends ahead and which fill TInv's tables, and WInv of the entries  *)
(* that wait for an answer.                                                *)
(***************************************************************************)
EXTENDS FingerTable, SeqLemmas, FiniteSetTheorems

-----------------------------------------------------------------------------
(* The powers of two.  A set of naturals that is not empty has a smallest  *)
(* element (SmallestNat), which serves for induction.                      *)

Powers(n, g) == g \in [0..n -> Nat] /\ g[0] = 1 /\ \A i \in 1..n : g[i] = 2 * g[i - 1]

LEMMA PowersUnique ==
  ASSUME NEW n \in Nat, NEW k \in Nat, NEW g, NEW h, Powers(n, g), Powers(k, h),
         NEW j \in Nat, j <= n, j <= k
  PROVE  g[j] = h[j]
<1> DEFINE Bad == {i \in Nat : i <= n /\ i <= k /\ g[i] # h[i]}
<1>1. SUFFICES ASSUME Bad # {} PROVE FALSE
  OBVIOUS
<1>2. PICK i : i \in Bad /\ \A y \in Bad : i <= y
  <2>1. Bad \subseteq Nat
    OBVIOUS
  <2> HIDE DEF Bad
  <2>2. QED
    BY <1>1, <2>1, SmallestNat
<1>3. i # 0
  BY <1>2 DEF Powers
<1>4. i - 1 \in Nat /\ i - 1 \notin Bad
  BY <1>2, <1>3
<1>5. g[i - 1] = h[i - 1]
  BY <1>2, <1>4
<1>6. g[i] = 2 * g[i - 1] /\ h[i] = 2 * h[i - 1]
  BY <1>2, <1>3 DEF Powers
<1>7. QED
  BY <1>2, <1>5, <1>6

LEMMA PowersExist ==
  ASSUME NEW n \in Nat
  PROVE  \E g : Powers(n, g)
<1> DEFINE Bad == {i \in Nat : ~\E g : Powers(i, g)}
<1>1. SUFFICES ASSUME Bad # {} PROVE FALSE
  OBVIOUS
<1>2. PICK i : i \in Bad /\ \A y \in Bad : i <= y
  <2>1. Bad \subseteq Nat
    OBVIOUS
  <2> HIDE DEF Bad
  <2>2. QED
    BY <1>1, <2>1, SmallestNat
<1>3. i # 0
  <2>1. Powers(0, [l \in 0..0 |-> 1])
    BY DEF Powers
  <2>2. QED
    BY <1>2, <2>1
<1>4. i - 1 \in Nat /\ i - 1 \notin Bad
  BY <1>2, <1>3
<1>5. PICK g : Powers(i - 1, g)
  BY <1>4
<1> DEFINE h == [l \in 0..i |-> IF l = i THEN 2 * g[i - 1] ELSE g[l]]
<1>6. Powers(i, h)
  <2>1. g[i - 1] \in Nat /\ \A l \in 0..(i - 1) : g[l] \in Nat
    BY <1>4, <1>5 DEF Powers
  <2>2. h \in [0..i -> Nat]
    BY <1>2, <2>1
  <2>3. h[0] = 1
    BY <1>2, <1>3, <1>5 DEF Powers
  <2>4. \A l \in 1..i : h[l] = 2 * h[l - 1]
    BY <1>2, <1>5 DEF Powers
  <2>5. QED
    BY <2>2, <2>3, <2>4 DEF Powers
<1>7. QED
  BY <1>2, <1>6

LEMMA PowersOfTwo ==
  /\ exponential_of_two[0] = 1
  /\ \A n \in Nat : exponential_of_two[n] \in Nat
  /\ \A n \in Nat \ {0} : exponential_of_two[n] = 2 * exponential_of_two[n - 1]
<1> DEFINE G(n) == CHOOSE g : Powers(n, g)
           F == [n \in Nat |-> G(n)[n]]
           D(f) == [n \in Nat |-> IF n = 0 THEN 1 ELSE 2 * f[n - 1]]
<1>1. \A n \in Nat : Powers(n, G(n))
  BY PowersExist
<1> HIDE DEF G
<1>2. F[0] = 1 /\ \A n \in Nat : F[n] \in Nat
  BY <1>1 DEF Powers
<1>3. ASSUME NEW n \in Nat \ {0} PROVE F[n] = 2 * F[n - 1]
  <2>1. n - 1 \in Nat /\ Powers(n, G(n)) /\ Powers(n - 1, G(n - 1))
    BY <1>1
  <2>2. G(n)[n - 1] = G(n - 1)[n - 1]
    BY <2>1, PowersUnique
  <2>3. G(n)[n] = 2 * G(n)[n - 1]
    BY <2>1 DEF Powers
  <2>4. QED
    BY <2>1, <2>2, <2>3
<1>4. F = D(F)
  BY <1>2, <1>3
<1>5. exponential_of_two = CHOOSE f : f = D(f)
  BY DEF exponential_of_two
<1> HIDE DEF F, D
<1>6. exponential_of_two = D(exponential_of_two)
  BY <1>4, <1>5
<1>7. /\ exponential_of_two[0] = 1
      /\ \A n \in Nat \ {0} : exponential_of_two[n] = 2 * exponential_of_two[n - 1]
  BY <1>6 DEF D
<1> DEFINE Bad == {n \in Nat : exponential_of_two[n] \notin Nat}
<1>8. Bad = {}
  <2>1. SUFFICES ASSUME Bad # {} PROVE FALSE
    OBVIOUS
  <2>2. PICK i : i \in Bad /\ \A y \in Bad : i <= y
    <3>1. Bad \subseteq Nat
      OBVIOUS
    <3> HIDE DEF Bad
    <3>2. QED
      BY <2>1, <3>1, SmallestNat
  <2>3. i # 0
    BY <1>7, <2>2
  <2>4. i - 1 \in Nat /\ i - 1 \notin Bad
    BY <2>2, <2>3
  <2>5. QED
    BY <1>7, <2>2, <2>3, <2>4
<1>9. QED
  BY <1>7, <1>8

LEMMA PowersGrow ==
  ASSUME NEW i \in Nat, NEW j \in Nat, i < j
  PROVE  /\ exponential_of_two[i] \in Nat \ {0}
         /\ exponential_of_two[i] < exponential_of_two[j]
<1> DEFINE Bad == {n \in Nat : ~(exponential_of_two[n] > 0)}
           Worse == {n \in Nat : i < n /\ ~(exponential_of_two[i] < exponential_of_two[n])}
<1>1. /\ exponential_of_two[0] = 1
      /\ \A n \in Nat : exponential_of_two[n] \in Nat
      /\ \A n \in Nat \ {0} : exponential_of_two[n] = 2 * exponential_of_two[n - 1]
  BY PowersOfTwo
<1>2. Bad = {}
  <2>1. SUFFICES ASSUME Bad # {} PROVE FALSE
    OBVIOUS
  <2>2. PICK n : n \in Bad /\ \A y \in Bad : n <= y
    <3>1. Bad \subseteq Nat
      OBVIOUS
    <3> HIDE DEF Bad
    <3>2. QED
      BY <2>1, <3>1, SmallestNat
  <2>3. n # 0
    BY <1>1, <2>2
  <2>4. n - 1 \in Nat /\ n - 1 \notin Bad
    BY <2>2, <2>3
  <2>5. QED
    BY <1>1, <2>2, <2>3, <2>4
<1>3. Worse = {}
  <2>1. SUFFICES ASSUME Worse # {} PROVE FALSE
    OBVIOUS
  <2>2. PICK n : n \in Worse /\ \A y \in Worse : n <= y
    <3>1. Worse \subseteq Nat
      OBVIOUS
    <3> HIDE DEF Worse
    <3>2. QED
      BY <2>1, <3>1, SmallestNat
  <2>3. n - 1 \in Nat /\ n - 1 \notin Worse
    BY <2>2
  <2>4. n - 1 = i \/ exponential_of_two[i] < exponential_of_two[n - 1]
    BY <2>2, <2>3
  <2>5. exponential_of_two[n] = 2 * exponential_of_two[n - 1] /\ exponential_of_two[n - 1] > 0
    BY <1>1, <1>2, <2>2, <2>3
  <2>6. QED
    BY <1>1, <2>2, <2>3, <2>4, <2>5
<1>4. QED
  BY <1>1, <1>2, <1>3

-----------------------------------------------------------------------------
(* The ring.                                                               *)

LEMMA SizeOfRing ==
  /\ constant \in Nat /\ constant = unknown /\ Bits \in Nat \ {0} /\ 0 \in Index
  /\ ID = 0..(constant - 1) /\ Peer \subseteq ID
  /\ \A p \in Peer : p \in Nat /\ p < constant /\ p # unknown
BY PowersOfTwo, SizeAssumption, RingAssumption DEF constant, ID, Index

LEMMA LowestPeer == Lowest \in Peer /\ \A q \in Peer : Lowest <= q
<1>1. Peer # {} /\ Peer \subseteq Nat
  <2>1. Peer # {}
    BY RingAssumption, FS_EmptySet
  <2>2. QED
    BY <2>1, SizeOfRing
<1>2. \E p \in Peer : \A q \in Peer : p <= q
  BY <1>1, SmallestNat
<1>3. QED
  BY <1>2 DEF Lowest

\* Neighbours: there is no peer between them.
LEMMA Neighbours ==
  ASSUME NEW p \in Peer
  PROVE  /\ nextID[p] \in Peer /\ prevID[p] \in Peer
         /\ prevID[nextID[p]] = p /\ nextID[prevID[p]] = p
         /\ \/ p < nextID[p] /\ \A q \in Peer : q <= p \/ q >= nextID[p]
            \/ p > nextID[p] /\ \A q \in Peer : q <= p /\ q >= nextID[p]
BY RingAssumption

Owns(q, h) == \/ prevID[q] < h /\ h <= q
              \/ prevID[q] > q /\ (h > prevID[q] \/ h < q)

LEMMA CheckIs ==
  ASSUME NEW p \in Peer, NEW h \in ID
  PROVE  /\ Check(p, h) = thisPeer <=> Owns(p, h)
         /\ Check(p, h) = nextPeer <=> ~Owns(p, h) /\ Owns(nextID[p], h)
         /\ Check(p, h) = unknownPeer <=> ~Owns(p, h) /\ ~Owns(nextID[p], h)
         /\ Check(p, h) \in {thisPeer, nextPeer, unknownPeer}
<1>1. nextID[p] \in Peer /\ nextID[p] # unknown /\ prevID[nextID[p]] = p
  BY Neighbours, SizeOfRing
<1>2. /\ InArc(prevID[p], p, h) <=> Owns(p, h)
      /\ InArc(p, nextID[p], h) <=> Owns(nextID[p], h)
  BY <1>1 DEF InArc, Block4!InArc, Owns
<1>3. thisPeer # nextPeer /\ thisPeer # unknownPeer /\ nextPeer # unknownPeer
  BY DEF thisPeer, nextPeer, unknownPeer
<1> HIDE DEF InArc, Owns, thisPeer, nextPeer, unknownPeer
<1>4. QED
  BY <1>1, <1>2, <1>3 DEF Check, checkPeer

\* One peer is in charge, and nobody of the smallest ID.
LEMMA NobodyOwnsLowest ==
  ASSUME NEW q \in Peer
  PROVE  ~Owns(q, Lowest)
<1>1. /\ prevID[q] \in Peer /\ nextID[prevID[q]] = q /\ Lowest \in Peer
      /\ \A x \in Peer : x \in Nat /\ Lowest <= x
  BY LowestPeer, Neighbours, SizeOfRing
<1>2. /\ prevID[q] \in Nat /\ q \in Nat /\ Lowest \in Nat
      /\ Lowest <= prevID[q] /\ Lowest <= q
  BY <1>1
<1>3. prevID[q] > q => q <= Lowest
  BY <1>1, <1>2, Neighbours
<1>4. QED
  BY <1>2, <1>3 DEF Owns

LEMMA OwnsItself ==
  ASSUME NEW q \in Peer, q # Lowest
  PROVE  Owns(q, q)
<1>1. /\ prevID[q] \in Peer /\ nextID[prevID[q]] = q /\ Lowest \in Peer /\ Lowest <= q
      /\ \A x \in Peer : x \in Nat
  BY LowestPeer, Neighbours, SizeOfRing
<1>2. Lowest < q
  BY <1>1
<1>3. prevID[q] < q
  BY <1>1, <1>2, Neighbours
<1>4. QED
  BY <1>1, <1>3 DEF Owns

LEMMA NotBoth ==
  ASSUME NEW p \in Peer, NEW h \in ID, Owns(p, h)
  PROVE  ~Owns(nextID[p], h)
<1>1. /\ prevID[p] \in Peer /\ nextID[prevID[p]] = p /\ nextID[p] \in Peer /\ prevID[nextID[p]] = p
      /\ \A x \in Peer : x \in Nat
      /\ h \in Nat
  BY Neighbours, SizeOfRing
<1>2. /\ \/ p < nextID[p] /\ \A q \in Peer : q <= p \/ q >= nextID[p]
         \/ p > nextID[p] /\ \A q \in Peer : q <= p /\ q >= nextID[p]
      /\ \/ prevID[p] < p /\ \A q \in Peer : q <= prevID[p] \/ q >= p
         \/ prevID[p] > p /\ \A q \in Peer : q <= prevID[p] /\ q >= p
  BY <1>1, Neighbours
<1>3. QED
  BY <1>1, <1>2 DEF Owns

-----------------------------------------------------------------------------
(* Between.                                                                *)

\* What a LOOKUP is sent for lies past the successor of the peer that sends it.
Beyond(p, h) == h \in ID /\ h # Lowest /\ h # p /\ ~Owns(nextID[p], h)

LEMMA NextIsBefore ==
  ASSUME NEW p \in Peer, NEW h, Beyond(p, h)
  PROVE  Between(p, nextID[p], h)
<1>1. /\ nextID[p] \in Peer /\ prevID[nextID[p]] = p /\ h \in Nat
      /\ \A x \in Peer : x \in Nat
      /\ Lowest \in Peer /\ \A x \in Peer : Lowest <= x
  BY Neighbours, SizeOfRing, LowestPeer DEF Beyond
<1>2. p > nextID[p] => nextID[p] = Lowest
  BY <1>1, Neighbours
<1>3. QED
  BY <1>1, <1>2, Neighbours DEF Beyond, Owns, Between

LEMMA BetweenNotOwner ==
  ASSUME NEW p \in Peer, NEW q \in Peer, NEW h \in ID, Between(p, q, h)
  PROVE  ~Owns(q, h)
<1>1. /\ prevID[q] \in Peer /\ nextID[prevID[q]] = q /\ h \in Nat
      /\ \A x \in Peer : x \in Nat
  BY Neighbours, SizeOfRing
<1>2. \/ prevID[q] < q /\ (p <= prevID[q] \/ p >= q)
      \/ prevID[q] > q /\ p <= prevID[q] /\ p >= q
  BY <1>1, Neighbours
<1>3. QED
  BY <1>1, <1>2 DEF Owns, Between

LEMMA BetweenGoesOn ==
  ASSUME NEW o \in Peer, NEW p \in Peer, NEW q \in Peer, NEW h \in ID,
         Between(o, p, h), Between(p, q, h)
  PROVE  Between(o, q, h)
BY SizeOfRing DEF Between

-----------------------------------------------------------------------------
(* Where entries start and what lookups in a table find.                   *)

LEMMA Starts ==
  ASSUME NEW p \in Peer, NEW k \in Index
  PROVE  LET e == exponential_of_two[k] IN
         /\ e \in Nat \ {0} /\ e < constant
         /\ Start(p, k) = IF p + e < constant THEN p + e ELSE p + e - constant
         /\ Start(p, k) \in ID /\ Start(p, k) # p
<1> DEFINE e == exponential_of_two[k]
<1>1. e \in Nat \ {0} /\ e < constant
  <2>1. k \in Nat /\ Bits \in Nat /\ k < Bits
    BY SizeOfRing DEF Index
  <2>2. QED
    BY <2>1, PowersGrow DEF constant
<1>2. p \in Nat /\ p < constant /\ constant \in Nat /\ ID = 0..(constant - 1)
  BY SizeOfRing
<1>3. \A c \in Nat, x \in Nat : x < c + c /\ 0 < c => x % c = IF x < c THEN x ELSE x - c
  OBVIOUS
<1>4. Start(p, k) = (p + e) % constant
  BY DEF Start
<1> HIDE DEF e, constant
<1>5. Start(p, k) = IF p + e < constant THEN p + e ELSE p + e - constant
  <2>1. p + e \in Nat /\ p + e < constant + constant /\ 0 < constant
    BY <1>1, <1>2
  <2>2. PICK x, c : x = p + e /\ c = constant
    OBVIOUS
  <2>3. x % c = IF x < c THEN x ELSE x - c
    BY <1>2, <1>3, <2>1, <2>2
  <2>4. Start(p, k) = x % c
    BY <1>4, <2>2
  <2>5. QED
    BY <1>1, <1>2, <2>1, <2>2, <2>3, <2>4
<1>6. Start(p, k) \in ID /\ Start(p, k) # p
  BY <1>1, <1>2, <1>5
<1>7. QED
  BY <1>1, <1>5, <1>6 DEF e

\* Once the peer in charge of a start lies before the peer whose table it is,
\* so do those of all later starts.
LEMMA PastZero ==
  ASSUME NEW p \in Peer, NEW i \in Index, NEW j \in Index, i < j,
         NEW a \in Peer, NEW b \in Peer,
         Owns(a, Start(p, i)), Owns(b, Start(p, j)), a <= p
  PROVE  b <= p
<1> DEFINE e == exponential_of_two[i]
           f == exponential_of_two[j]
<1>1. /\ e \in Nat \ {0} /\ f \in Nat \ {0} /\ f < constant
      /\ Start(p, i) = IF p + e < constant THEN p + e ELSE p + e - constant
      /\ Start(p, j) = IF p + f < constant THEN p + f ELSE p + f - constant
  BY Starts
<1>2. e < f
  <2>1. i \in Nat /\ j \in Nat
    BY SizeOfRing DEF Index
  <2>2. QED
    BY <2>1, PowersGrow
<1>3. /\ constant \in Nat /\ p \in Nat /\ a \in Nat /\ b \in Nat /\ p < constant
      /\ \A x \in Peer : x \in Nat
      /\ prevID[a] \in Peer /\ nextID[prevID[a]] = a
      /\ prevID[b] \in Peer /\ nextID[prevID[b]] = b
      /\ prevID[a] \in Nat /\ prevID[b] \in Nat
  BY SizeOfRing, Neighbours
<1> HIDE DEF e, f, constant
<1>4. SUFFICES ASSUME b > p PROVE FALSE
  BY <1>3
<1>5. p <= prevID[b] /\ (prevID[b] > b => b <= p)
  BY <1>3, <1>4, Neighbours
<1>6. ~(p + f >= constant)
  BY <1>1, <1>3, <1>4, <1>5 DEF Owns
<1>7. p + e < constant
  BY <1>1, <1>2, <1>3, <1>6
<1>8. prevID[a] > a /\ p + e > prevID[a]
  BY <1>1, <1>3, <1>7 DEF Owns
<1>9. \A x \in Peer : x <= prevID[a]
  BY <1>3, <1>8, Neighbours
<1>10. p + f > b
  BY <1>1, <1>2, <1>3, <1>6, <1>8, <1>9
<1>11. QED
  BY <1>1, <1>3, <1>4, <1>5, <1>6, <1>10 DEF Owns

LEMMA LargestNat ==
  ASSUME NEW n \in Nat, NEW S, S \subseteq 0..n, S # {}
  PROVE  Max(S) \in S /\ \A y \in S : y <= Max(S)
<1> DEFINE T == {n - x : x \in S}
<1>1. T \subseteq Nat /\ T # {}
  <2>1. \A x \in S : x \in Nat /\ n - x \in Nat
    OBVIOUS
  <2>2. PICK x \in S : TRUE
    OBVIOUS
  <2>3. n - x \in T
    BY <2>2
  <2>4. QED
    BY <2>1, <2>3
<1>2. PICK t \in T : \A y \in T : t <= y
  <2> HIDE DEF T
  <2>1. QED
    BY <1>1, SmallestNat
<1>3. PICK x \in S : t = n - x
  BY <1>2
<1>4. \A y \in S : x >= y
  <2> TAKE y \in S
  <2>1. n - y \in T
    OBVIOUS
  <2>2. t <= n - y
    BY <1>2, <2>1
  <2>3. QED
    BY <1>3, <2>2
<1>5. \E z \in S : \A y \in S : z >= y
  BY <1>4
<1>6. QED
  BY <1>5 DEF Max

LEMMA TableLookup ==
  ASSUME NEW ft, NEW size \in Nat \ {0}, \A i \in 0..(size - 1) : ft[i] \in Peer, NEW h \in Nat
  PROVE  LET r == finger_table_lookup(h, ft, size) IN
         /\ r \in 0..(size - 1)
         /\ \/ /\ \A i \in 0..(size - 1) : ft[i] <= ft[r]
               /\ \/ \A i \in 0..(size - 1) : h < ft[i]
                  \/ \A i \in 0..(size - 1) : h > ft[i]
                  \/ h <= ft[0]
            \/ /\ \A i \in 0..r : ft[i] < h
               /\ \E i \in 0..(size - 1) : h <= ft[i]
<1> DEFINE Slot == 0..(size - 1)
           IDs == {ft[i] : i \in Slot}
           below == {i \in Slot : \A j \in 0..i : ft[j] < h}
           top == {i \in Slot : ft[i] = Max(IDs)}
           r == finger_table_lookup(h, ft, size)
<1>1. IDs # {} /\ IDs \subseteq Nat /\ IDs \subseteq 0..constant /\ constant \in Nat
  <2>1. \A x \in Peer : x \in Nat /\ x \in 0..constant
    BY SizeOfRing
  <2>2. 0 \in Slot
    OBVIOUS
  <2>3. QED
    BY <2>1, <2>2, SizeOfRing
<1>2. /\ Max(IDs) \in IDs /\ \A y \in IDs : y <= Max(IDs)
      /\ Min(IDs) \in IDs /\ \A y \in IDs : Min(IDs) <= y
  <2> HIDE DEF IDs
  <2>1. QED
    BY <1>1, LargestNat, SmallestNat
<1>3. r = IF h < Min(IDs) \/ h > Max(IDs) \/ below = {} THEN Max(top) ELSE Max(below)
  BY DEF finger_table_lookup
<1>4. Max(top) \in top
  <2>1. top # {} /\ top \subseteq 0..(size - 1) /\ size - 1 \in Nat
    BY <1>2
  <2> HIDE DEF top
  <2>2. QED
    BY <2>1, LargestNat
<1>5. below # {} => Max(below) \in below
  <2>1. below \subseteq 0..(size - 1) /\ size - 1 \in Nat
    OBVIOUS
  <2> HIDE DEF below
  <2>2. QED
    BY <2>1, LargestNat
<1>6. \A i \in Slot : ft[i] \in IDs /\ ft[i] \in Nat
  BY <1>1
<1>7. \A y \in IDs : \E i \in Slot : y = ft[i]
  OBVIOUS
<1>8. below = {} => h <= ft[0]
  <2>1. 0 \in Slot /\ ft[0] \in Nat /\ \A j \in 0..0 : j = 0
    BY <1>6
  <2>2. ft[0] < h => 0 \in below
    BY <2>1
  <2> HIDE DEF below
  <2>3. QED
    BY <2>1, <2>2
<1> HIDE DEF r, IDs
<1>9. CASE h < Min(IDs) \/ h > Max(IDs) \/ below = {}
  <2>1. r \in Slot /\ ft[r] = Max(IDs)
    BY <1>3, <1>4, <1>9
  <2>2. \A i \in Slot : ft[i] <= ft[r]
    BY <1>2, <1>6, <2>1
  <2>3. \/ \A i \in Slot : h < ft[i]
        \/ \A i \in Slot : h > ft[i]
        \/ h <= ft[0]
    <3>1. Min(IDs) \in Nat /\ Max(IDs) \in Nat
      BY <1>1, <1>2
    <3> HIDE DEF below
    <3>2. QED
      BY <1>2, <1>6, <1>8, <1>9, <3>1
  <2>4. QED
    BY <2>1, <2>2, <2>3 DEF r
<1>10. CASE ~(h < Min(IDs) \/ h > Max(IDs) \/ below = {})
  <2>1. r \in below
    BY <1>3, <1>5, <1>10
  <2>2. PICK i \in Slot : ft[i] = Max(IDs)
    BY <1>2, <1>7
  <2>3. h <= ft[i]
    <3>1. Max(IDs) \in Nat
      BY <1>1, <1>2
    <3> HIDE DEF below
    <3>2. QED
      BY <1>10, <2>2, <3>1
  <2>4. QED
    BY <2>1, <2>3 DEF r
<1>11. QED
  BY <1>9, <1>10

\* A lookup never overshoots: the entry found lies before what is looked up.
LEMMA TableGoesAhead ==
  ASSUME NEW p \in Peer, NEW ft, NEW size \in 1..Bits,
         ft[0] = nextID[p],
         \A i \in 1..(size - 1) : ft[i] \in Peer /\ Owns(ft[i], Start(p, i)),
         NEW h, Beyond(p, h)
  PROVE  LET r == finger_table_lookup(h, ft, size) IN
         /\ r \in 0..(size - 1) /\ ft[r] \in Peer /\ Between(p, ft[r], h)
<1> DEFINE r == finger_table_lookup(h, ft, size)
<1>1. /\ Bits \in Nat /\ size \in Nat \ {0} /\ h \in Nat /\ p \in Nat
      /\ \A i \in 0..(size - 1) : i \in Index
      /\ \A x \in Peer : x \in Nat
  BY SizeOfRing DEF Beyond, Index
<1>2. /\ nextID[p] \in Peer /\ prevID[nextID[p]] = p
      /\ \/ p < nextID[p]
         \/ p > nextID[p] /\ \A q \in Peer : q <= p /\ q >= nextID[p]
  BY Neighbours
<1>3. \A i \in 0..(size - 1) : ft[i] \in Peer /\ ft[i] \in Nat
  <2> TAKE i \in 0..(size - 1)
  <2>1. i = 0 \/ i \in 1..(size - 1)
    BY <1>1
  <2>2. ft[i] \in Peer
    BY <1>2, <2>1
  <2>3. QED
    BY <1>1, <2>2
<1>4. /\ r \in 0..(size - 1)
      /\ \/ /\ \A i \in 0..(size - 1) : ft[i] <= ft[r]
            /\ \/ \A i \in 0..(size - 1) : h < ft[i]
               \/ \A i \in 0..(size - 1) : h > ft[i]
               \/ h <= ft[0]
         \/ /\ \A i \in 0..r : ft[i] < h
            /\ \E i \in 0..(size - 1) : h <= ft[i]
  BY <1>1, <1>3, TableLookup
<1> HIDE DEF r
<1>5. /\ 0 \in 0..(size - 1) /\ 0 \in 0..r /\ r \in 0..r /\ r \in Nat /\ ft[r] \in Nat
      /\ nextID[p] \in Nat /\ ~Owns(nextID[p], h) /\ h # p
  BY <1>1, <1>2, <1>3, <1>4 DEF Beyond
<1> SUFFICES Between(p, ft[r], h)
  BY <1>3, <1>4 DEF r
<1>6. CASE p < nextID[p]
  <2>1. h < p \/ h > nextID[p]
    BY <1>1, <1>2, <1>5, <1>6 DEF Owns
  <2>2. CASE \A i \in 0..(size - 1) : ft[i] <= ft[r]
    <3>1. ft[r] > p
      BY <1>1, <1>2, <1>3, <1>5, <1>6, <2>2
    <3>2. h < p \/ ft[r] < h
      BY <1>1, <1>2, <1>3, <1>4, <1>5, <2>1, <2>2
    <3>3. QED
      BY <1>1, <1>5, <3>1, <3>2 DEF Between
  <2>3. CASE /\ \A i \in 0..r : ft[i] < h
             /\ \E i \in 0..(size - 1) : h <= ft[i]
    <3>1. PICK i \in 0..(size - 1) : h <= ft[i]
      BY <2>3
    <3>2. h > p /\ ft[r] < h /\ nextID[p] < h
      BY <1>1, <1>2, <1>5, <1>6, <2>1, <2>3
    <3>3. r < i
      <4>1. i \notin 0..r
        BY <1>1, <1>3, <2>3, <3>1
      <4>2. QED
        BY <1>5, <3>1, <4>1
    <3>4. ft[i] > p
      BY <1>1, <1>3, <3>1, <3>2
    <3>5. ft[r] > p
      <4>1. SUFFICES ASSUME ft[r] <= p PROVE FALSE
        BY <1>1, <1>5
      <4>2. r # 0
        BY <1>1, <1>5, <1>6, <4>1
      <4>3. /\ r \in 1..(size - 1) /\ i \in 1..(size - 1) /\ r \in Index /\ i \in Index
        BY <1>1, <1>4, <1>5, <3>1, <3>3, <4>2
      <4>4. /\ ft[r] \in Peer /\ Owns(ft[r], Start(p, r))
            /\ ft[i] \in Peer /\ Owns(ft[i], Start(p, i))
        BY <4>3
      <4>5. PICK a \in Peer, b \in Peer : a = ft[r] /\ b = ft[i]
        BY <4>4
      <4>6. Owns(a, Start(p, r)) /\ Owns(b, Start(p, i)) /\ a <= p
        BY <4>1, <4>4, <4>5
      <4>7. b <= p
        BY <3>3, <4>3, <4>6, PastZero
      <4>8. QED
        BY <1>1, <3>4, <4>5, <4>7
    <3>6. QED
      BY <1>1, <1>5, <3>2, <3>5 DEF Between
  <2>4. QED
    BY <1>3, <1>4, <2>2, <2>3
<1>7. CASE p > nextID[p]
  <2>1. nextID[p] = Lowest
    <3>1. Lowest \in Peer /\ \A q \in Peer : Lowest <= q
      BY LowestPeer
    <3>2. Lowest \in Nat /\ Lowest <= nextID[p] /\ nextID[p] <= Lowest
      BY <1>1, <1>2, <1>5, <1>7, <3>1
    <3>3. QED
      BY <1>5, <3>2
  <2>2. h < p /\ h > nextID[p]
    BY <1>1, <1>2, <1>5, <1>7, <2>1 DEF Beyond, Owns
  <2>3. ft[r] < h
    BY <1>1, <1>2, <1>3, <1>4, <1>5, <2>2
  <2>4. QED
    BY <1>1, <1>3, <1>4, <1>5, <2>2, <2>3 DEF Between
<1>8. QED
  BY <1>2, <1>6, <1>7

-----------------------------------------------------------------------------
(* The invariant.                                                          *)

Waiting(p) == Range(infoList[p])

\* What p is to get an answer on: a HASH it has sent on, or that answer.
Awaited(p) == {m \in net : \/ m.type = "HASH" /\ m.from = p
                           \/ m.type = "FINAL" /\ m.to = p}

\* A build goes on while a table was asked for and is not complete.
Builds ==
  \A p \in Peer :
    /\ socket[p] # 0 <=> required[p] /\ ~complete[p]
    /\ complete[p] => required[p]

\* The first entry is the successor, any other one the peer in charge.
Owned ==
  \A p \in Peer :
    /\ ft_Elem[p][0] = IF required[p] THEN nextID[p] ELSE NULL
    /\ \A k \in Index \ {0} : ft_Elem[p][k] # NULL => Owns(ft_Elem[p][k], Start(p, k))

TInv == TypeOK /\ Builds /\ Owned /\ FilledFromBelow

\* A REPLY names the peer in charge.
RepliesRight == \A m \in net : m.type = "REPLY" => Owns(m.chosen, m.id)

\* A LOOKUP lies ahead of the peer that asks, and none is sent for what the
\* successor is in charge of.
LookupsAhead == \A m \in net : m.type = "LOOKUP" /\ m.id # Lowest => Between(m.orig, m.to, m.id)
NotForNext == \A p \in Peer : \A o \in Open(p) : ~Owns(nextID[p], o.id)

LInv == RepliesRight /\ LookupsAhead /\ NotForNext

\* A client's request is a HASH of its own until it is put in a list; a peer
\* forwards a HASH only to the peer in charge, where it goes no further.
FromClients ==
  \A m \in net : m.type = "HASH" =>
    /\ m.from = Client =>
         /\ m.conn = m.req /\ m.req \in asked
         /\ \A p \in Peer : \A e \in Waiting(p) : e.req # m.req
         /\ \A n \in net : n.type = "HASH" /\ n.from = Client /\ n.req = m.req => n = m
    /\ m.from # Client => Owns(m.to, hashID[m.req])

OneEach(s) == \A i, j \in 1..Len(s) : s[i].req = s[j].req => i = j

Listed ==
  \A p \in Peer :
    /\ OneEach(infoList[p])
    /\ \A e \in Waiting(p) : e.req \in asked /\ e.caller = Client

\* At a peer without a clash: one entry for an ID that is looked up, and one
\* LOOKUP or REPLY for it, until the request is forwarded.
OneForAnID(p) ==
  /\ \A e, f \in Waiting(p) :
       hashID[e.req] = hashID[f.req] /\ ~Owns(nextID[p], hashID[e.req]) => e = f
  /\ \A e \in Waiting(p), o \in Open(p) : o.id = hashID[e.req] =>
       /\ o.tag = e.req /\ e.final = NULL
       /\ \A n \in Open(p) : n.id = o.id => n = o

\* And what it awaits has an entry, on a connection of its own.
Expected(p) ==
  /\ \A e \in Waiting(p) : e.final \in {NULL, e.req}
  /\ \A m \in Awaited(p) : \E e \in Waiting(p) : e.req = m.conn /\ e.final = m.conn
  /\ \A m, n \in Awaited(p) : m.conn = n.conn => m = n

Unclashed == \A p \in Peer \ clash : OneForAnID(p) /\ Expected(p)

WInv == FromClients /\ Listed /\ Unclashed /\ DownOnlyAfterClash

IInv == TInv /\ LInv /\ WInv

-----------------------------------------------------------------------------
(* Messages and lists.                                                     *)

LEMMA MessageFields ==
  ASSUME TypeOK, NEW m \in net
  PROVE  /\ m.to \in Peer
         /\ m.type = "FINGER" => m.n \in Finger
         /\ m.type = "HASH" => /\ m.req \in Request /\ m.conn \in Tag
                               /\ m.from \in Peer \cup {Client} /\ hashID[m.req] \in ID
         /\ m.type = "LOOKUP" => m.tag \in Tag /\ m.orig \in Peer /\ m.id \in ID
         /\ m.type = "REPLY" => m.tag \in Tag /\ m.chosen \in Peer /\ m.id \in ID
         /\ m.type = "FINAL" => m.conn \in Tag
<1>1. m \in Message
  BY DEF TypeOK
<1>2. QED
  BY <1>1, InputAssumption DEF Message

LEMMA HashSentOn ==
  ASSUME TypeOK, NEW m \in net, m.type = "HASH", NEW p, NEW q
  PROVE  [m EXCEPT !.from = p, !.to = q] =
           [type |-> "HASH", req |-> m.req, conn |-> m.conn, from |-> p, to |-> q]
<1>1. m \in Message
  BY DEF TypeOK
<1>2. m \in [type: {"HASH"}, req: Request, conn: Tag, from: Peer \cup {Client}, to: Peer]
  BY <1>1 DEF Message
<1>3. PICK n : n = [m EXCEPT !.from = p]
  OBVIOUS
<1>4. n = [type |-> "HASH", req |-> m.req, conn |-> m.conn, from |-> p, to |-> m.to]
  BY <1>2, <1>3
<1>5. [n EXCEPT !.to = q] =
        [type |-> "HASH", req |-> m.req, conn |-> m.conn, from |-> p, to |-> q]
  BY <1>4
<1>6. QED
  BY <1>3, <1>5

LEMMA LookupSentOn ==
  ASSUME TypeOK, NEW m \in net, m.type = "LOOKUP", NEW q
  PROVE  [m EXCEPT !.to = q] =
           [type |-> "LOOKUP", tag |-> m.tag, orig |-> m.orig, to |-> q, id |-> m.id]
<1>1. m \in Message
  BY DEF TypeOK
<1>2. m \in [type: {"LOOKUP"}, tag: Tag, orig: Peer, to: Peer, id: ID]
  BY <1>1 DEF Message
<1>3. QED
  BY <1>2

LEMMA ListOf ==
  ASSUME TypeOK, NEW p \in Peer
  PROVE  LET s == infoList[p] IN
         /\ s \in Seq(InfoEntry) /\ Len(s) \in Nat /\ DOMAIN s = 1..Len(s)
         /\ Waiting(p) = {s[i] : i \in 1..Len(s)} /\ Waiting(p) \subseteq InfoEntry
         /\ \A e \in Waiting(p) : /\ e.req \in Request /\ e.caller \in Peer \cup {Client}
                                  /\ e.final \in Tag \cup {NULL} /\ hashID[e.req] \in ID
<1>1. infoList[p] \in Seq(InfoEntry)
  BY DEF TypeOK
<1>2. Len(infoList[p]) \in Nat /\ DOMAIN infoList[p] = 1..Len(infoList[p])
  BY <1>1, LenProperties
<1>3. \A i \in 1..Len(infoList[p]) : infoList[p][i] \in InfoEntry
  BY <1>1, ElementOfSeq
<1>4. Waiting(p) = {infoList[p][i] : i \in 1..Len(infoList[p])}
  BY <1>2 DEF Waiting, Range
<1>5. Waiting(p) \subseteq InfoEntry
  BY <1>3, <1>4
<1>6. QED
  BY <1>1, <1>2, <1>4, <1>5, InputAssumption DEF InfoEntry

LEMMA ListGrows ==
  ASSUME NEW s \in Seq(InfoEntry), NEW e \in InfoEntry, NEW t, t = Append(s, e)
  PROVE  /\ t \in Seq(InfoEntry) /\ Range(t) = Range(s) \cup {e}
         /\ OneEach(s) /\ (\A f \in Range(s) : f.req # e.req) => OneEach(t)
<1>1. /\ Len(s) \in Nat /\ t \in Seq(InfoEntry) /\ Len(t) = Len(s) + 1
      /\ \A j \in 1..Len(s) : t[j] = s[j]
      /\ t[Len(s) + 1] = e
      /\ DOMAIN s = 1..Len(s)
  BY AppendProperties, LenProperties
<1>2. Range(t) = Range(s) \cup {e}
  BY AppendRange
<1>3. ASSUME OneEach(s), \A f \in Range(s) : f.req # e.req PROVE OneEach(t)
  <2> SUFFICES ASSUME NEW i \in 1..Len(t), NEW j \in 1..Len(t), t[i].req = t[j].req
               PROVE  i = j
    BY DEF OneEach
  <2>1. i \in 1..Len(s) \/ i = Len(s) + 1
    BY <1>1
  <2>2. j \in 1..Len(s) \/ j = Len(s) + 1
    BY <1>1
  <2>3. \A l \in 1..Len(s) : t[l].req # e.req
    BY <1>1, <1>3 DEF Range
  <2>4. QED
    BY <1>1, <1>3, <2>1, <2>2, <2>3 DEF OneEach
<1>4. QED
  BY <1>1, <1>2, <1>3

WithFinal(s, i, tag) == [s EXCEPT ![i].final = tag]

LEMMA ListForwards ==
  ASSUME NEW s \in Seq(InfoEntry), NEW i \in 1..Len(s), NEW tag \in Tag,
         NEW t, t = WithFinal(s, i, tag)
  PROVE  \E f \in InfoEntry :
           /\ f.req = s[i].req /\ f.caller = s[i].caller /\ f.final = tag
           /\ t \in Seq(InfoEntry) /\ Range(t) \subseteq Range(s) \cup {f}
           /\ OneEach(s) => Range(t) = (Range(s) \ {s[i]}) \cup {f} /\ OneEach(t)
<1> DEFINE e == s[i]
           f == [e EXCEPT !.final = tag]
<1>1. Len(s) \in Nat /\ DOMAIN s = 1..Len(s) /\ e \in InfoEntry /\ s[i] = e
  BY LenProperties, ElementOfSeq
<1>2. f \in InfoEntry /\ f.req = e.req /\ f.caller = e.caller /\ f.final = tag
  BY <1>1 DEF InfoEntry
<1>3. t = [s EXCEPT ![i] = f]
  BY DEF WithFinal
<1> HIDE DEF f, e
<1>4. /\ t \in Seq(InfoEntry) /\ Len(t) = Len(s) /\ DOMAIN t = 1..Len(s)
      /\ \A l \in 1..Len(s) : t[l] = IF l = i THEN f ELSE s[l]
  <2>1. t \in Seq(InfoEntry) /\ Len(t) = Len(s)
    BY <1>2, <1>3, ExceptSeq
  <2>2. QED
    BY <1>1, <1>3, <2>1
<1>5. Range(t) = {t[l] : l \in 1..Len(s)} /\ Range(s) = {s[l] : l \in 1..Len(s)}
  BY <1>1, <1>4 DEF Range
<1>6. Range(t) \subseteq Range(s) \cup {f}
  BY <1>4, <1>5
<1>7. ASSUME OneEach(s) PROVE Range(t) = (Range(s) \ {e}) \cup {f} /\ OneEach(t)
  <2>1. \A l \in 1..Len(s) : s[l] = e => l = i
    BY <1>1, <1>7 DEF OneEach
  <2>2. Range(t) = (Range(s) \ {e}) \cup {f}
    BY <1>1, <1>4, <1>5, <2>1
  <2>3. OneEach(t)
    BY <1>1, <1>2, <1>4, <1>7 DEF OneEach
  <2>4. QED
    BY <2>2, <2>3
<1>8. QED
  BY <1>1, <1>2, <1>4, <1>6, <1>7

LEMMA ListShrinks ==
  ASSUME NEW s \in Seq(InfoEntry), NEW i \in 1..Len(s), NEW t, t = RemoveAt(s, i)
  PROVE  /\ t \in Seq(InfoEntry) /\ Range(t) \subseteq Range(s)
         /\ OneEach(s) => Range(t) = Range(s) \ {s[i]} /\ OneEach(t)
<1>1. /\ Len(s) \in Nat /\ t \in Seq(InfoEntry) /\ Len(t) = Len(s) - 1
      /\ \A j \in 1..(Len(s) - 1) : t[j] = IF j < i THEN s[j] ELSE s[j + 1]
      /\ Range(s) = {s[l] : l \in 1..Len(s)}
  BY RemoveAtElements, RemoveAtType, LenProperties DEF Range
<1>2. Range(t) = {t[j] : j \in 1..(Len(s) - 1)}
  BY <1>1, LenProperties DEF Range
<1>3. Range(t) \subseteq Range(s) /\ Range(s) \ {s[i]} \subseteq Range(t)
  BY RemoveAtRange
<1>4. ASSUME NEW j \in 1..(Len(s) - 1)
      PROVE  \E l \in 1..Len(s) : t[j] = s[l] /\ l # i /\ l = IF j < i THEN j ELSE j + 1
  BY <1>1
<1>5. ASSUME OneEach(s) PROVE OneEach(t) /\ \A j \in 1..(Len(s) - 1) : t[j] # s[i]
  <2>1. ASSUME NEW j \in 1..(Len(s) - 1) PROVE t[j] # s[i]
    BY <1>4, <1>5 DEF OneEach
  <2>2. ASSUME NEW j \in 1..(Len(s) - 1), NEW k \in 1..(Len(s) - 1), t[j].req = t[k].req
        PROVE  j = k
    <3>1. PICK l \in 1..Len(s) : t[j] = s[l] /\ l = IF j < i THEN j ELSE j + 1
      BY <1>4
    <3>2. PICK n \in 1..Len(s) : t[k] = s[n] /\ n = IF k < i THEN k ELSE k + 1
      BY <1>4
    <3>3. l = n
      BY <1>5, <2>2, <3>1, <3>2 DEF OneEach
    <3>4. QED
      BY <1>1, <3>1, <3>2, <3>3
  <2>3. QED
    BY <1>1, <2>1, <2>2 DEF OneEach
<1>6. QED
  BY <1>1, <1>2, <1>3, <1>5

-----------------------------------------------------------------------------
(* What the steps read in a table.                                         *)

LEMMA TableParts ==
  ASSUME TInv, NEW p \in Peer
  PROVE  /\ ft_Elem[p] \in [Index -> Peer \cup {NULL}]
         /\ NULL \notin Peer /\ Bits \in Nat \ {0} /\ Index = 0..(Bits - 1) /\ 0 \in Index
         /\ socket[p] \in 0..MaxFingers /\ MaxFingers \in Nat
         /\ (socket[p] # 0 => socket[p] \in Finger)
         /\ tableCounter[p] \in (-1)..(Bits - 1)
         /\ (socket[p] # 0 <=> required[p] /\ ~complete[p])
         /\ (complete[p] => required[p] /\ Full(ft_Elem[p]))
         /\ ft_Elem[p][0] = (IF required[p] THEN nextID[p] ELSE NULL)
         /\ nextID[p] \in Peer
         /\ (\A k \in Index \ {0} : ft_Elem[p][k] # NULL => Owns(ft_Elem[p][k], Start(p, k)))
         /\ (\A i \in 0..(tableCounter[p] - 1) : ft_Elem[p][i] # NULL)
<1>1. /\ ft_Elem[p] \in [Index -> Peer \cup {NULL}] /\ socket[p] \in 0..MaxFingers
      /\ tableCounter[p] \in (-1)..(Bits - 1)
  BY DEF TInv, TypeOK
<1>2. NULL \notin Peer /\ MaxFingers \in Nat /\ Bits \in Nat \ {0} /\ 0 \in Index
  BY SizeOfRing, InputAssumption, SizeAssumption
<1>3. /\ (socket[p] # 0 <=> required[p] /\ ~complete[p]) /\ (complete[p] => required[p])
      /\ (complete[p] => Full(ft_Elem[p]))
      /\ \A i \in 0..(tableCounter[p] - 1) : ft_Elem[p][i] # NULL
  BY DEF TInv, Builds, FilledFromBelow
<1>4. /\ ft_Elem[p][0] = (IF required[p] THEN nextID[p] ELSE NULL)
      /\ \A k \in Index \ {0} : ft_Elem[p][k] # NULL => Owns(ft_Elem[p][k], Start(p, k))
  BY DEF TInv, Owned
<1>5. nextID[p] \in Peer
  BY Neighbours
<1>6. socket[p] # 0 => socket[p] \in Finger
  BY <1>1, <1>2 DEF Finger
<1>7. QED
  BY <1>1, <1>2, <1>3, <1>4, <1>5, <1>6 DEF Index

LEMMA OnwardsGoes ==
  ASSUME TInv, NEW p \in Peer, NEW h \in ID
  PROVE  /\ Onwards(p, h) \in Peer
         /\ Beyond(p, h) => Between(p, Onwards(p, h), h)
<1>1. CASE ~complete[p]
  <2>1. Onwards(p, h) = nextID[p] /\ nextID[p] \in Peer
    BY <1>1, TableParts DEF Onwards
  <2>2. QED
    BY <2>1, NextIsBefore
<1>2. CASE complete[p]
  <2>1. PICK ft : ft = ft_Elem[p]
    OBVIOUS
  <2> DEFINE r == finger_table_lookup(h, ft, Bits)
  <2>2. Onwards(p, h) = ft[r]
    BY <1>2, <2>1 DEF Onwards
  <2>3. /\ Bits \in Nat \ {0} /\ h \in Nat /\ ft[0] = nextID[p]
        /\ \A i \in 0..(Bits - 1) : ft[i] \in Peer
        /\ \A i \in 1..(Bits - 1) : ft[i] \in Peer /\ Owns(ft[i], Start(p, i))
    <3>1. \A i \in Index : ft[i] # NULL
      BY <1>2, <2>1, TableParts DEF Full
    <3>2. ft \in [Index -> Peer \cup {NULL}] /\ Index = 0..(Bits - 1) /\ Bits \in Nat \ {0}
      BY <2>1, TableParts
    <3>3. \A i \in 0..(Bits - 1) : ft[i] \in Peer
      BY <3>1, <3>2
    <3>4. \A i \in 1..(Bits - 1) : i \in Index \ {0}
      BY <3>2
    <3>5. \A i \in 1..(Bits - 1) : Owns(ft[i], Start(p, i))
      <4>1. \A k \in Index \ {0} : ft[k] # NULL => Owns(ft[k], Start(p, k))
        BY <2>1, TableParts
      <4>2. QED
        BY <3>1, <3>4, <4>1
    <3>6. ft[0] = nextID[p]
      BY <1>2, <2>1, TableParts
    <3>7. h \in Nat
      BY SizeOfRing
    <3>8. \A i \in 1..(Bits - 1) : ft[i] \in Peer
      BY <3>2, <3>3
    <3>9. QED
      BY <3>2, <3>3, <3>5, <3>6, <3>7, <3>8
  <2>4. r \in 0..(Bits - 1)
    <3> HIDE DEF r
    <3>1. finger_table_lookup(h, ft, Bits) \in 0..(Bits - 1)
      BY <2>3, TableLookup
    <3>2. QED
      BY <3>1 DEF r
  <2>5. ASSUME Beyond(p, h) PROVE Between(p, ft[r], h)
    <3>1. Bits \in 1..Bits
      BY <2>3
    <3>2. QED
      BY <2>3, <2>5, <3>1, TableGoesAhead
  <2> HIDE DEF r
  <2>6. QED
    BY <2>2, <2>3, <2>4, <2>5
<1>3. QED
  BY <1>1, <1>2

LEMMA BuildGoes ==
  ASSUME TInv, NEW p \in Peer, Building(p)
  PROVE  LET k == tableCounter[p] + 1
             q == ft_Elem[p][finger_table_lookup(Start(p, k), ft_Elem[p], k)] IN
         /\ required[p] /\ ~complete[p] /\ socket[p] \in Finger
         /\ k \in Index \ {0} /\ k \in Nat /\ Start(p, k) \in ID /\ Start(p, k) # p
         /\ \A i \in 0..(k - 1) : ft_Elem[p][i] # NULL
         /\ q \in Peer
         /\ Beyond(p, Start(p, k)) => Between(p, q, Start(p, k))
<1>1. PICK ft, k : ft = ft_Elem[p] /\ k = tableCounter[p] + 1
  OBVIOUS
<1>2. /\ Bits \in Nat \ {0} /\ Index = 0..(Bits - 1) /\ k \in 1..(Bits - 1)
      /\ ft[k - 1] # NULL /\ \A i \in 0..(k - 2) : ft[i] # NULL
  BY <1>1, TableParts DEF Building
<1>3. required[p] /\ ~complete[p] /\ socket[p] \in Finger
  BY TableParts DEF Building
<1>4. k \in Index \ {0} /\ k \in Nat /\ k \in 1..Bits /\ k \in Nat \ {0}
  BY <1>2
<1>5. Start(p, k) \in ID /\ Start(p, k) # p /\ Start(p, k) \in Nat
  BY <1>4, Starts, SizeOfRing
<1>6. \A i \in 0..(k - 1) : i \in Index /\ ft[i] # NULL /\ ft[i] \in Peer
  <2> TAKE i \in 0..(k - 1)
  <2>1. i \in Index /\ (i = k - 1 \/ i \in 0..(k - 2))
    BY <1>2
  <2>2. ft[i] # NULL
    BY <1>2, <2>1
  <2>3. ft[i] \in Peer \cup {NULL}
    BY <1>1, <2>1, TableParts
  <2>4. QED
    BY <2>1, <2>2, <2>3
<1>7. ft[0] = nextID[p]
  BY <1>1, <1>3, TableParts
<1>8. \A i \in 1..(k - 1) : ft[i] \in Peer /\ Owns(ft[i], Start(p, i))
  <2> TAKE i \in 1..(k - 1)
  <2>1. i \in 0..(k - 1) /\ i # 0
    BY <1>4
  <2>2. i \in Index \ {0} /\ ft[i] # NULL /\ ft[i] \in Peer
    BY <1>6, <2>1
  <2>3. QED
    BY <1>1, <2>2, TableParts
<1> DEFINE r == finger_table_lookup(Start(p, k), ft, k)
<1>9. r \in 0..(k - 1)
  <2> HIDE DEF r
  <2>1. PICK h : h = Start(p, k)
    OBVIOUS
  <2>2. h \in Nat
    BY <1>5, <2>1
  <2>3. finger_table_lookup(h, ft, k) \in 0..(k - 1)
    BY <1>4, <1>6, <2>2, TableLookup
  <2>4. QED
    BY <2>1, <2>3 DEF r
<1>10. ASSUME Beyond(p, Start(p, k)) PROVE Between(p, ft[r], Start(p, k))
  <2>1. PICK h : h = Start(p, k)
    OBVIOUS
  <2>2. Beyond(p, h)
    BY <1>10, <2>1
  <2>3. Between(p, ft[finger_table_lookup(h, ft, k)], h)
    BY <1>4, <1>7, <1>8, <2>2, TableGoesAhead
  <2>4. QED
    BY <2>1, <2>3
<1> HIDE DEF r
<1>11. ft[r] \in Peer
  BY <1>6, <1>9
<1>12. QED
  BY <1>1, <1>3, <1>4, <1>5, <1>6, <1>10, <1>11 DEF r

-----------------------------------------------------------------------------
(* What the steps do, in terms of the messages sent and of the tables.     *)

HashMsg(r, c, f, q) == [type |-> "HASH", req |-> r, conn |-> c, from |-> f, to |-> q]
LookupMsg(t, o, q, h) == [type |-> "LOOKUP", tag |-> t, orig |-> o, to |-> q, id |-> h]
ReplyMsg(t, c, q, h) == [type |-> "REPLY", tag |-> t, chosen |-> c, to |-> q, id |-> h]
FinalMsg(c, q) == [type |-> "FINAL", conn |-> c, to |-> q]
FingerMsg(n, q) == [type |-> "FINGER", n |-> n, to |-> q]
NewEntry(r, c, f) == [req |-> r, caller |-> c, final |-> f]

LEMMA HashFields ==
  ASSUME NEW r \in Request, NEW c \in Tag, NEW f \in Peer \cup {Client}, NEW q \in Peer
  PROVE  LET h == HashMsg(r, c, f, q) IN
         /\ h \in Message /\ h.type = "HASH" /\ h.req = r /\ h.conn = c /\ h.from = f /\ h.to = q
         /\ h.type # "LOOKUP" /\ h.type # "REPLY" /\ h.type # "FINAL"
BY DEF HashMsg, Message

LEMMA LookupFields ==
  ASSUME NEW t \in Tag, NEW o \in Peer, NEW q \in Peer, NEW i \in ID
  PROVE  LET h == LookupMsg(t, o, q, i) IN
         /\ h \in Message /\ h.type = "LOOKUP" /\ h.tag = t /\ h.orig = o /\ h.to = q /\ h.id = i
         /\ h.type # "HASH" /\ h.type # "REPLY" /\ h.type # "FINAL"
BY DEF LookupMsg, Message

LEMMA ReplyFields ==
  ASSUME NEW t \in Tag, NEW c \in Peer, NEW q \in Peer, NEW i \in ID
  PROVE  LET h == ReplyMsg(t, c, q, i) IN
         /\ h \in Message /\ h.type = "REPLY" /\ h.tag = t /\ h.chosen = c /\ h.to = q /\ h.id = i
         /\ h.type # "HASH" /\ h.type # "LOOKUP" /\ h.type # "FINAL"
BY DEF ReplyMsg, Message

LEMMA FinalFields ==
  ASSUME NEW c \in Tag, NEW q \in Peer
  PROVE  LET h == FinalMsg(c, q) IN
         /\ h \in Message /\ h.type = "FINAL" /\ h.conn = c /\ h.to = q
         /\ h.type # "HASH" /\ h.type # "LOOKUP" /\ h.type # "REPLY"
BY DEF FinalMsg, Message

LEMMA FingerFields ==
  ASSUME NEW n \in Finger, NEW q \in Peer
  PROVE  LET h == FingerMsg(n, q) IN
         /\ h \in Message /\ h.type = "FINGER"
         /\ h.type # "HASH" /\ h.type # "LOOKUP" /\ h.type # "REPLY" /\ h.type # "FINAL"
BY DEF FingerMsg, Message

LEMMA EntryFields ==
  ASSUME NEW r \in Request, NEW c \in Peer \cup {Client}, NEW f \in Tag \cup {NULL}
  PROVE  LET e == NewEntry(r, c, f) IN
         e \in InfoEntry /\ e.req = r /\ e.caller = c /\ e.final = f
BY DEF NewEntry, InfoEntry

LEMMA Tags ==
  /\ Request \subseteq Tag /\ NULL \notin Tag /\ NULL \notin Peer /\ Client \notin Peer
  /\ \A n \in Finger, k \in Index : <<n, k>> \in Tag
  /\ \A r \in Request : hashID[r] \in ID
BY InputAssumption DEF Tag

\* ClientSend, HashHere, HashNext, HashUnknown, LookupNext, LookupOn, HandleFinal.
Sends(r, q) ==
  /\ r \notin asked /\ asked' = asked \cup {r}
  /\ net' = net \cup {HashMsg(r, r, Client, q)}
  /\ UNCHANGED <<table, replaced, infoList, answered, status, clash>>

Answered(m, caller, r, conn) ==
  \/ /\ caller = Client /\ answered' = answered \cup {r} /\ net' = net \ {m}
  \/ /\ caller \in Peer /\ answered' = answered /\ net' = (net \ {m}) \cup {FinalMsg(conn, caller)}

SentOn(p, m) ==
  /\ m.type = "HASH" /\ m.to = p
  /\ ~Owns(p, hashID[m.req]) /\ Owns(nextID[p], hashID[m.req])
  /\ net' = (net \ {m}) \cup {HashMsg(m.req, m.conn, p, nextID[p])}
  /\ infoList' = [infoList EXCEPT ![p] = Append(infoList[p], NewEntry(m.req, m.from, m.conn))]
  /\ UNCHANGED <<table, replaced, asked, answered, status, clash>>

LooksUp(p, m, q, h) ==
  /\ m.type = "HASH" /\ m.to = p /\ h = hashID[m.req] /\ q \in Peer
  /\ ~Owns(p, h) /\ ~Owns(nextID[p], h)
  /\ Beyond(p, h) => Between(p, q, h)
  /\ net' = (net \ {m}) \cup {LookupMsg(m.req, p, q, h)}
  /\ infoList' = [infoList EXCEPT ![p] = Append(infoList[p], NewEntry(m.req, m.from, NULL))]
  /\ clash \subseteq clash' /\ clash' \subseteq clash \cup {p}
  /\ \/ p \in clash'
     \/ /\ \A e \in Waiting(p) : hashID[e.req] # h
        /\ \A o \in Open(p) : o.id # h
  /\ UNCHANGED <<table, replaced, asked, answered, status>>

Resolves(p, m) ==
  /\ m.type = "LOOKUP" /\ m.to = p /\ Owns(nextID[p], m.id)
  /\ net' = (net \ {m}) \cup {ReplyMsg(m.tag, nextID[p], m.orig, m.id)}
  /\ UNCHANGED <<table, replaced, infoList, asked, answered, status, clash>>

GoesOn(p, m) ==
  /\ m.type = "LOOKUP" /\ m.to = p /\ (Owns(p, m.id) \/ ~Owns(nextID[p], m.id))
  /\ \/ net' = net \ {m}
     \/ \E q \in Peer : /\ net' = (net \ {m}) \cup {LookupMsg(m.tag, m.orig, q, m.id)}
                        /\ Beyond(p, m.id) => Between(p, q, m.id)
  /\ UNCHANGED <<table, replaced, infoList, asked, answered, status, clash>>

LEMMA ClientSendDoes ==
  ASSUME TypeOK, NEW r \in Request, ClientSend(r)
  PROVE  \E q \in Peer : Sends(r, q)
<1>1. PICK q \in Entry[r] :
        net' = net \cup {[type |-> "HASH", req |-> r, conn |-> r, from |-> Client, to |-> q]}
  BY DEF ClientSend
<1>2. q \in Peer
  BY InputAssumption
<1>3. QED
  BY <1>1, <1>2 DEF ClientSend, Sends, HashMsg

LEMMA HashHereDoes ==
  ASSUME TypeOK, NEW p \in Peer, NEW m \in net, HashHere(p, m)
  PROVE  /\ m.type = "HASH" /\ m.to = p /\ Owns(p, hashID[m.req])
         /\ Answered(m, m.from, m.req, m.conn)
         /\ UNCHANGED <<table, replaced, infoList, asked, status, clash>>
<1>1. m.type = "HASH" /\ m.to = p /\ Check(p, hashID[m.req]) = thisPeer
  BY DEF HashHere, Read
<1>2. m.from \in Peer \cup {Client} /\ hashID[m.req] \in ID /\ Client \notin Peer
  BY <1>1, MessageFields, Tags
<1>3. Owns(p, hashID[m.req])
  BY <1>1, <1>2, CheckIs
<1>4. Answer(m.from, m.req, m.conn, m)
  BY DEF HashHere
<1>5. Answered(m, m.from, m.req, m.conn)
  BY <1>2, <1>4 DEF Answer, Answered, FinalMsg
<1>6. QED
  BY <1>1, <1>3, <1>5 DEF HashHere

LEMMA HashNextDoes ==
  ASSUME TypeOK, NEW p \in Peer, NEW m \in net, HashNext(p, m)
  PROVE  SentOn(p, m)
<1>1. m.type = "HASH" /\ m.to = p /\ Check(p, hashID[m.req]) = nextPeer
  BY DEF HashNext, Read
<1>2. ~Owns(p, hashID[m.req]) /\ Owns(nextID[p], hashID[m.req])
  BY <1>1, MessageFields, CheckIs
<1>3. [m EXCEPT !.from = p, !.to = nextID[p]] = HashMsg(m.req, m.conn, p, nextID[p])
  <2>1. PICK q : q = nextID[p]
    OBVIOUS
  <2>2. [m EXCEPT !.from = p, !.to = q] = HashMsg(m.req, m.conn, p, q)
    BY <1>1, HashSentOn, Zenon DEF HashMsg
  <2>3. QED
    BY <2>1, <2>2
<1>4. QED
  BY <1>1, <1>2, <1>3 DEF HashNext, Pass, SentOn, NewEntry

LEMMA HashUnknownDoes ==
  ASSUME TInv, NEW p \in Peer, NEW m \in net, HashUnknown(p, m)
  PROVE  LooksUp(p, m, Onwards(p, hashID[m.req]), hashID[m.req])
<1>1. PICK h, q : h = hashID[m.req] /\ q = Onwards(p, h)
  OBVIOUS
<1>2. TypeOK
  BY DEF TInv
<1>3. m.type = "HASH" /\ m.to = p /\ Check(p, h) = unknownPeer
  BY <1>1 DEF HashUnknown, Read
<1>4. h \in ID
  BY <1>1, <1>2, <1>3, MessageFields
<1>5. ~Owns(p, h) /\ ~Owns(nextID[p], h)
  BY <1>3, <1>4, CheckIs
<1>6. q \in Peer /\ (Beyond(p, h) => Between(p, q, h))
  BY <1>1, <1>4, OnwardsGoes
<1>7. clash' = IF \/ \E i \in DOMAIN infoList[p] : hashID[infoList[p][i].req] = h
                  \/ \E o \in Open(p) : o.id = h
                 THEN clash \cup {p} ELSE clash
  BY <1>1 DEF HashUnknown
<1>8. \A e \in Waiting(p) : \E i \in DOMAIN infoList[p] : e = infoList[p][i]
  BY DEF Waiting, Range
<1>9. /\ clash \subseteq clash' /\ clash' \subseteq clash \cup {p}
      /\ \/ p \in clash'
         \/ /\ \A e \in Waiting(p) : hashID[e.req] # h
            /\ \A o \in Open(p) : o.id # h
  BY <1>7, <1>8
<1>10. /\ net' = (net \ {m}) \cup {LookupMsg(m.req, p, q, h)}
       /\ infoList' = [infoList EXCEPT ![p] = Append(infoList[p], NewEntry(m.req, m.from, NULL))]
       /\ UNCHANGED <<table, replaced, asked, answered, status>>
  BY <1>1 DEF HashUnknown, Pass, LookupMsg, NewEntry
<1>11. LooksUp(p, m, q, h)
  BY <1>1, <1>3, <1>5, <1>6, <1>9, <1>10 DEF LooksUp
<1>12. QED
  BY <1>1, <1>11

LEMMA LookupNextDoes ==
  ASSUME TypeOK, NEW p \in Peer, NEW m \in net, LookupNext(p, m)
  PROVE  Resolves(p, m)
<1>1. m.type = "LOOKUP" /\ m.to = p /\ Check(p, m.id) = nextPeer
  BY DEF LookupNext, Read
<1>2. Owns(nextID[p], m.id)
  BY <1>1, MessageFields, CheckIs
<1>3. QED
  BY <1>1, <1>2 DEF LookupNext, Pass, Resolves, ReplyMsg

LEMMA LookupOnDoes ==
  ASSUME TInv, NEW p \in Peer, NEW m \in net, LookupOn(p, m)
  PROVE  GoesOn(p, m)
<1>1. TypeOK
  BY DEF TInv
<1>2. m.type = "LOOKUP" /\ m.to = p /\ Check(p, m.id) # nextPeer
  BY DEF LookupOn, Read
<1>3. Owns(p, m.id) \/ ~Owns(nextID[p], m.id)
  BY <1>1, <1>2, MessageFields, CheckIs
<1>4. PICK q : q = Onwards(p, m.id)
  OBVIOUS
<1>5. q \in Peer /\ (Beyond(p, m.id) => Between(p, q, m.id))
  BY <1>1, <1>2, <1>4, MessageFields, OnwardsGoes
<1>6. [m EXCEPT !.to = q] = LookupMsg(m.tag, m.orig, q, m.id)
  BY <1>1, <1>2, LookupSentOn DEF LookupMsg
<1>7. \/ net' = net \ {m}
      \/ net' = (net \ {m}) \cup {LookupMsg(m.tag, m.orig, q, m.id)}
  BY <1>4, <1>6 DEF LookupOn, Pass
<1>8. QED
  BY <1>2, <1>3, <1>5, <1>7 DEF LookupOn, GoesOn

Forwards(p, m) ==
  \/ net' = net \ {m} /\ infoList' = infoList
  \/ \E i \in 1..Len(infoList[p]) :
       /\ hashID[infoList[p][i].req] = m.id
       /\ net' = (net \ {m}) \cup {HashMsg(infoList[p][i].req, m.tag, p, m.chosen)}
       /\ infoList' = [infoList EXCEPT ![p] = [infoList[p] EXCEPT ![i].final = m.tag]]

Concludes(p, m) ==
  /\ m.type = "FINAL" /\ m.to = p
  /\ \/ \E i \in 1..Len(infoList[p]) :
          /\ infoList[p][i].final = m.conn
          /\ Answered(m, infoList[p][i].caller, infoList[p][i].req, infoList[p][i].req)
          /\ infoList' = [infoList EXCEPT ![p] = RemoveAt(infoList[p], i)]
          /\ UNCHANGED status
     \/ /\ \A e \in Waiting(p) : e.final # m.conn
        /\ status' = [status EXCEPT ![p] = "down"]
        /\ net' = net \ {m} /\ UNCHANGED <<infoList, answered>>
  /\ UNCHANGED <<table, replaced, asked, clash>>

\* A table with some empty entries filled by a peer that was chosen.
Fills(p, chosen, id, ft) ==
  /\ ft \in [Index -> Peer \cup {NULL}]
  /\ \A k \in Index : \/ ft[k] = ft_Elem[p][k]
                      \/ /\ required[p] /\ ft_Elem[p][k] = NULL
                         /\ ft[k] = chosen /\ Start(p, k) = id
  /\ ft_Elem' = [ft_Elem EXCEPT ![p] = ft]
  /\ \/ UNCHANGED <<complete, answered, socket>>
     \/ /\ required[p] /\ ~complete[p] /\ Full(ft)
        /\ complete' = [complete EXCEPT ![p] = TRUE]
        /\ answered' = answered \cup {socket[p]}
        /\ socket' = [socket EXCEPT ![p] = 0]

LEMMA FirstOf ==
  ASSUME TypeOK, NEW p \in Peer, NEW S, S \subseteq 1..Len(infoList[p]),
         NEW i, i = IF S # {} THEN Min(S) ELSE 0
  PROVE  (i = 0 /\ S = {}) \/ (i # 0 /\ i \in S /\ i \in 1..Len(infoList[p]))
<1>1. Len(infoList[p]) \in Nat
  BY ListOf
<1>2. CASE S # {}
  <2>1. i \in S
    BY <1>1, <1>2, FirstMatch
  <2>2. i \in 1..Len(infoList[p]) /\ i # 0
    BY <1>1, <2>1
  <2>3. QED
    BY <2>1, <2>2
<1>3. QED
  BY <1>2

LEMMA HandleFinalDoes ==
  ASSUME TypeOK, NEW p \in Peer, NEW m \in net, HandleFinal(p, m)
  PROVE  Concludes(p, m)
<1> DEFINE S == {j \in 1..Len(infoList[p]) : infoList[p][j].final = m.conn}
<1>1. PICK i : i = SelectInSeq(infoList[p], LAMBDA e : e.final = m.conn)
  OBVIOUS
<1>2. (i = 0 /\ S = {}) \/ (i # 0 /\ i \in S /\ i \in 1..Len(infoList[p]))
  <2>1. i = IF S # {} THEN Min(S) ELSE 0
    BY <1>1 DEF SelectInSeq
  <2>2. S \subseteq 1..Len(infoList[p])
    OBVIOUS
  <2> HIDE DEF S
  <2>3. QED
    BY <2>1, <2>2, FirstOf
<1>3. m.type = "FINAL" /\ m.to = p
  BY DEF HandleFinal, Read
<1>4. UNCHANGED <<table, replaced, asked, clash>>
  BY DEF HandleFinal
<1>5. CASE i # 0
  <2>1. PICK e : e = infoList[p][i]
    OBVIOUS
  <2>2. /\ Answer(e.caller, e.req, e.req, m)
        /\ infoList' = [infoList EXCEPT ![p] = RemoveAt(infoList[p], i)]
        /\ UNCHANGED status
    BY <1>1, <1>5, <2>1 DEF HandleFinal
  <2>3. i \in 1..Len(infoList[p]) /\ e.final = m.conn
    BY <1>2, <1>5, <2>1
  <2>4. e.caller \in Peer \cup {Client} /\ Client \notin Peer
    <3>1. e \in Waiting(p)
      BY <2>1, <2>3, ListOf
    <3>2. QED
      BY <3>1, ListOf, Tags
  <2>5. Answered(m, e.caller, e.req, e.req)
    BY <2>2, <2>4 DEF Answer, Answered, FinalMsg
  <2>6. QED
    BY <1>3, <1>4, <2>1, <2>2, <2>3, <2>5 DEF Concludes
<1>6. CASE i = 0
  <2>1. \A e \in Waiting(p) : e.final # m.conn
    BY <1>2, <1>6, ListOf
  <2>2. /\ status' = [status EXCEPT ![p] = "down"]
        /\ net' = net \ {m} /\ UNCHANGED <<infoList, answered>>
    BY <1>1, <1>6 DEF HandleFinal
  <2>3. QED
    BY <1>3, <1>4, <2>1, <2>2 DEF Concludes
<1>7. QED
  BY <1>5, <1>6

LEMMA HandleReplyDoes ==
  ASSUME TypeOK, NEW p \in Peer, NEW m \in net, HandleReply(p, m)
  PROVE  /\ m.type = "REPLY" /\ m.to = p
         /\ \E ft : Fills(p, m.chosen, m.id, ft)
         /\ Forwards(p, m)
         /\ UNCHANGED <<tableCounter, required, replaced, asked, status, clash>>
<1>1. m.type = "REPLY" /\ m.to = p
  BY DEF HandleReply, Read
<1>2. m.chosen \in Peer
  BY <1>1, MessageFields
<1> DEFINE building == required[p] /\ ~complete[p]
           fillsIn(k) == building /\ k \in check_finger_table_input(p, m.id) /\ ft_Elem[p][k] = NULL
           f == [k \in Index |-> IF fillsIn(k) THEN m.chosen ELSE ft_Elem[p][k]]
           done == building /\ Full(f)
           S == {j \in 1..Len(infoList[p]) : hashID[infoList[p][j].req] = m.id}
<1>3. /\ ft_Elem' = [ft_Elem EXCEPT ![p] = f]
      /\ complete' = [complete EXCEPT ![p] = complete[p] \/ done]
      /\ answered' = IF done THEN answered \cup {socket[p]} ELSE answered
      /\ socket' = IF done THEN [socket EXCEPT ![p] = 0] ELSE socket
      /\ UNCHANGED <<tableCounter, required, replaced, asked, status, clash>>
  BY DEF HandleReply
<1>4. Fills(p, m.chosen, m.id, f)
  <2>1. ft_Elem[p] \in [Index -> Peer \cup {NULL}] /\ complete \in [Peer -> BOOLEAN]
    BY DEF TypeOK
  <2>2. f \in [Index -> Peer \cup {NULL}]
    BY <1>2, <2>1
  <2>3. \A k \in Index : \/ f[k] = ft_Elem[p][k]
                         \/ /\ required[p] /\ ft_Elem[p][k] = NULL
                            /\ f[k] = m.chosen /\ Start(p, k) = m.id
    BY DEF check_finger_table_input
  <2> HIDE DEF f
  <2>4. CASE done
    <3>1. complete' = [complete EXCEPT ![p] = TRUE]
      BY <1>3, <2>4
    <3>2. QED
      BY <1>3, <2>2, <2>3, <2>4, <3>1 DEF Fills
  <2>5. CASE ~done
    <3>1. complete' = complete
      BY <1>3, <2>1, <2>5
    <3>2. QED
      BY <1>3, <2>2, <2>3, <2>5, <3>1 DEF Fills
  <2>6. QED
    BY <2>4, <2>5
<1>5. PICK i : i = SelectInSeq(infoList[p], LAMBDA e : hashID[e.req] = m.id)
  OBVIOUS
<1>6. (i = 0 /\ S = {}) \/ (i # 0 /\ i \in S /\ i \in 1..Len(infoList[p]))
  <2>1. i = IF S # {} THEN Min(S) ELSE 0
    BY <1>5 DEF SelectInSeq
  <2>2. S \subseteq 1..Len(infoList[p])
    OBVIOUS
  <2> HIDE DEF S
  <2>3. QED
    BY <2>1, <2>2, FirstOf
<1> HIDE DEF f
<1>7. CASE i = 0
  <2>1. net' = net \ {m} /\ infoList' = infoList
    BY <1>5, <1>7 DEF HandleReply
  <2>2. QED
    BY <1>1, <1>3, <1>4, <2>1 DEF Forwards
<1>8. CASE i # 0
  <2>1. /\ net' = (net \ {m}) \cup {HashMsg(infoList[p][i].req, m.tag, p, m.chosen)}
        /\ infoList' = [infoList EXCEPT ![p][i].final = m.tag]
    BY <1>5, <1>8 DEF HandleReply, Pass, HashMsg
  <2>2. infoList' = [infoList EXCEPT ![p] = [infoList[p] EXCEPT ![i].final = m.tag]]
    BY <2>1
  <2>3. i \in 1..Len(infoList[p]) /\ hashID[infoList[p][i].req] = m.id
    BY <1>6, <1>8
  <2>4. QED
    BY <1>1, <1>3, <1>4, <2>1, <2>2, <2>3 DEF Forwards
<1>9. QED
  BY <1>7, <1>8

\* ClientFinger, HandleFinger, ReadReplaced, BuildNext and BuildLookup.
AsksForTable(n, q) ==
  /\ asked' = asked \cup {n} /\ net' = net \cup {FingerMsg(n, q)}
  /\ UNCHANGED <<table, replaced, infoList, answered, status, clash>>

StartsTable(p, m) ==
  /\ m.type = "FINGER"
  /\ ft_Elem' = [ft_Elem EXCEPT ![p] = [i \in Index |-> IF i = 0 THEN nextID[p] ELSE NULL]]
  /\ socket' = [socket EXCEPT ![p] = m.n]
  /\ tableCounter' = [tableCounter EXCEPT ![p] = 0]
  /\ required' = [required EXCEPT ![p] = TRUE]
  /\ complete' = [complete EXCEPT ![p] = FALSE]
  /\ replaced' = [replaced EXCEPT ![p] = replaced[p] \cup ({socket[p]} \ {0})]
  /\ net' = net \ {m}
  /\ UNCHANGED <<infoList, asked, answered, status, clash>>

Hangs(p) ==
  /\ status' = [status EXCEPT ![p] = "hung"]
  /\ UNCHANGED <<table, replaced, infoList, net, asked, answered, clash>>

Entered(p, k) ==
  /\ required[p] /\ ~complete[p] /\ socket[p] \in Finger
  /\ k \in Index \ {0} /\ \A i \in 0..(k - 1) : ft_Elem[p][i] # NULL
  /\ tableCounter' = [tableCounter EXCEPT ![p] = k]

EntersNext(p, k) ==
  /\ Entered(p, k) /\ Owns(nextID[p], Start(p, k))
  /\ ft_Elem' = [ft_Elem EXCEPT ![p] = [ft_Elem[p] EXCEPT ![k] = nextID[p]]]
  /\ \/ /\ k = Bits - 1
        /\ complete' = [complete EXCEPT ![p] = TRUE]
        /\ answered' = answered \cup {socket[p]}
        /\ socket' = [socket EXCEPT ![p] = 0]
     \/ UNCHANGED <<complete, answered, socket>>
  /\ UNCHANGED <<required, replaced, infoList, net, asked, status, clash>>

LooksForEntry(p, k, q, s) ==
  /\ Entered(p, k) /\ q \in Peer /\ s \in ID /\ ~Owns(nextID[p], s)
  /\ s # Lowest => Between(p, q, s)
  /\ net' = net \cup {LookupMsg(<<socket[p], k>>, p, q, s)}
  /\ clash \subseteq clash' /\ clash' \subseteq clash \cup {p}
  /\ p \in clash' \/ \A e \in Waiting(p) : hashID[e.req] # s
  /\ UNCHANGED <<ft_Elem, socket, required, complete, replaced, infoList, asked, answered, status>>

AnswersHere(p, m) ==
  /\ m.type = "HASH" /\ m.to = p /\ Owns(p, hashID[m.req])
  /\ Answered(m, m.from, m.req, m.conn)
  /\ UNCHANGED <<table, replaced, infoList, asked, status, clash>>

TakesReply(p, m) ==
  /\ m.type = "REPLY" /\ m.to = p
  /\ \E ft : Fills(p, m.chosen, m.id, ft)
  /\ Forwards(p, m)
  /\ UNCHANGED <<tableCounter, required, replaced, asked, status, clash>>

LEMMA BuildEnters ==
  ASSUME TInv, NEW p \in Peer, Building(p),
         tableCounter' = [tableCounter EXCEPT ![p] = tableCounter[p] + 1]
  PROVE  Entered(p, tableCounter[p] + 1)
BY BuildGoes DEF Entered

LEMMA BuildNextDoes ==
  ASSUME TInv, NEW p \in Peer, BuildNext(p)
  PROVE  \E k \in Index : EntersNext(p, k)
<1>1. PICK k : k = tableCounter[p] + 1
  OBVIOUS
<1>2. Building(p) /\ Check(p, Start(p, k)) = nextPeer
  BY <1>1 DEF BuildNext
<1>3. k \in Index /\ Start(p, k) \in ID
  BY <1>1, <1>2, BuildGoes
<1>4. Owns(nextID[p], Start(p, k))
  BY <1>2, <1>3, CheckIs
<1>5. tableCounter' = [tableCounter EXCEPT ![p] = k]
  BY <1>1 DEF BuildNext
<1>6. Entered(p, k)
  BY <1>1, <1>2, <1>5, BuildEnters
<1>7. ft_Elem' = [ft_Elem EXCEPT ![p] = [ft_Elem[p] EXCEPT ![k] = nextID[p]]]
  <2>1. ft_Elem' = [ft_Elem EXCEPT ![p][k] = nextID[p]]
    BY <1>1 DEF BuildNext
  <2>2. QED
    BY <2>1
<1>8. /\ \/ /\ k = Bits - 1
            /\ complete' = [complete EXCEPT ![p] = TRUE]
            /\ answered' = answered \cup {socket[p]}
            /\ socket' = [socket EXCEPT ![p] = 0]
         \/ UNCHANGED <<complete, answered, socket>>
      /\ UNCHANGED <<required, replaced, infoList, net, asked, status, clash>>
  BY <1>1 DEF BuildNext
<1>9. EntersNext(p, k)
  BY <1>4, <1>6, <1>7, <1>8 DEF EntersNext
<1>10. QED
  BY <1>3, <1>9

LEMMA BuildLookupDoes ==
  ASSUME TInv, NEW p \in Peer, BuildLookup(p)
  PROVE  \E k \in Index, q \in Peer, s \in ID : LooksForEntry(p, k, q, s)
<1>1. PICK k, s : k = tableCounter[p] + 1 /\ s = Start(p, k)
  OBVIOUS
<1>2. PICK q : q = ft_Elem[p][finger_table_lookup(s, ft_Elem[p], k)]
  OBVIOUS
<1>3. Building(p) /\ Check(p, s) # nextPeer
  BY <1>1 DEF BuildLookup
<1>4. /\ k \in Index /\ s \in ID /\ s # p /\ q \in Peer
      /\ Beyond(p, s) => Between(p, q, s)
  BY <1>1, <1>2, <1>3, BuildGoes
<1>5. ~Owns(nextID[p], s)
  BY <1>3, <1>4, CheckIs, NotBoth
<1>6. s # Lowest => Between(p, q, s)
  BY <1>4, <1>5 DEF Beyond
<1>7. tableCounter' = [tableCounter EXCEPT ![p] = k]
  BY <1>1 DEF BuildLookup
<1>8. Entered(p, k)
  BY <1>1, <1>3, <1>7, BuildEnters
<1>9. net' = net \cup {LookupMsg(<<socket[p], k>>, p, q, s)}
  BY <1>1, <1>2 DEF BuildLookup, LookupMsg
<1>10. clash' = IF \E i \in DOMAIN infoList[p] : hashID[infoList[p][i].req] = s
                  THEN clash \cup {p} ELSE clash
  BY <1>1 DEF BuildLookup
<1>11. \A e \in Waiting(p) : \E i \in DOMAIN infoList[p] : e = infoList[p][i]
  BY DEF Waiting, Range
<1>12. /\ clash \subseteq clash' /\ clash' \subseteq clash \cup {p}
       /\ p \in clash' \/ \A e \in Waiting(p) : hashID[e.req] # s
  BY <1>10, <1>11
<1>13. UNCHANGED <<ft_Elem, socket, required, complete, replaced, infoList, asked, answered, status>>
  BY DEF BuildLookup
<1>14. LooksForEntry(p, k, q, s)
  BY <1>4, <1>5, <1>6, <1>8, <1>9, <1>12, <1>13 DEF LooksForEntry
<1>15. QED
  BY <1>4, <1>14

Effect ==
  \/ \E r \in Request, q \in Peer : Sends(r, q)
  \/ \E n \in Finger, q \in Peer : AsksForTable(n, q)
  \/ \E p \in Peer : Hangs(p)
  \/ \E p \in Peer, k \in Index : EntersNext(p, k)
  \/ \E p \in Peer, k \in Index, q \in Peer, s \in ID : LooksForEntry(p, k, q, s)
  \/ \E p \in Peer, m \in net : AnswersHere(p, m)
  \/ \E p \in Peer, m \in net : SentOn(p, m)
  \/ \E p \in Peer, m \in net, q \in Peer, h \in ID : LooksUp(p, m, q, h)
  \/ \E p \in Peer, m \in net : Resolves(p, m)
  \/ \E p \in Peer, m \in net : GoesOn(p, m)
  \/ \E p \in Peer, m \in net : TakesReply(p, m)
  \/ \E p \in Peer, m \in net : Concludes(p, m)
  \/ \E p \in Peer, m \in net : StartsTable(p, m)

LEMMA StepsDo ==
  ASSUME TInv, Next
  PROVE  Effect
<1>1. TypeOK
  BY DEF TInv
<1>2. ASSUME NEW r \in Request, ClientSend(r) PROVE Effect
  BY <1>1, <1>2, ClientSendDoes DEF Effect
<1>3. ASSUME NEW n \in Finger, ClientFinger(n) PROVE Effect
  <2>1. \E q \in Peer : AsksForTable(n, q)
    BY <1>3 DEF ClientFinger, AsksForTable, FingerMsg
  <2>2. QED
    BY <2>1 DEF Effect
<1>4. ASSUME NEW p \in Peer, ReadReplaced(p) PROVE Effect
  <2>1. Hangs(p)
    BY <1>4 DEF ReadReplaced, Hangs
  <2>2. QED
    BY <2>1 DEF Effect
<1>5. ASSUME NEW p \in Peer, BuildNext(p) PROVE Effect
  BY <1>5, BuildNextDoes DEF Effect
<1>6. ASSUME NEW p \in Peer, BuildLookup(p) PROVE Effect
  BY <1>6, BuildLookupDoes DEF Effect
<1>7. ASSUME NEW p \in Peer, NEW m \in net, HashHere(p, m) PROVE Effect
  <2>1. AnswersHere(p, m)
    BY <1>1, <1>7, HashHereDoes DEF AnswersHere
  <2>2. QED
    BY <2>1 DEF Effect
<1>8. ASSUME NEW p \in Peer, NEW m \in net, HashNext(p, m) PROVE Effect
  <2>1. SentOn(p, m)
    BY <1>1, <1>8, HashNextDoes
  <2>2. QED
    BY <2>1 DEF Effect
<1>9. ASSUME NEW p \in Peer, NEW m \in net, HashUnknown(p, m) PROVE Effect
  <2>1. m.type = "HASH"
    BY <1>9 DEF HashUnknown, Read
  <2>2. hashID[m.req] \in ID
    BY <1>1, <2>1, MessageFields
  <2>3. Onwards(p, hashID[m.req]) \in Peer
    BY <2>2, OnwardsGoes
  <2>4. LooksUp(p, m, Onwards(p, hashID[m.req]), hashID[m.req])
    BY <1>9, HashUnknownDoes
  <2>5. QED
    BY <2>2, <2>3, <2>4 DEF Effect
<1>10. ASSUME NEW p \in Peer, NEW m \in net, LookupNext(p, m) PROVE Effect
  <2>1. Resolves(p, m)
    BY <1>1, <1>10, LookupNextDoes
  <2>2. QED
    BY <2>1 DEF Effect
<1>11. ASSUME NEW p \in Peer, NEW m \in net, LookupOn(p, m) PROVE Effect
  <2>1. GoesOn(p, m)
    BY <1>11, LookupOnDoes
  <2>2. QED
    BY <2>1 DEF Effect
<1>12. ASSUME NEW p \in Peer, NEW m \in net, HandleReply(p, m) PROVE Effect
  <2>1. TakesReply(p, m)
    BY <1>1, <1>12, HandleReplyDoes DEF TakesReply
  <2>2. QED
    BY <2>1 DEF Effect
<1>13. ASSUME NEW p \in Peer, NEW m \in net, HandleFinal(p, m) PROVE Effect
  <2>1. Concludes(p, m)
    BY <1>1, <1>13, HandleFinalDoes
  <2>2. QED
    BY <2>1 DEF Effect
<1>14. ASSUME NEW p \in Peer, NEW m \in net, HandleFinger(p, m) PROVE Effect
  <2>1. StartsTable(p, m)
    BY <1>14 DEF HandleFinger, StartsTable, Read
  <2>2. QED
    BY <2>1 DEF Effect
<1>15. QED
  BY <1>2, <1>3, <1>4, <1>5, <1>6, <1>7, <1>8, <1>9, <1>10, <1>11, <1>12, <1>13, <1>14
     DEF Next, Handle, Build

-----------------------------------------------------------------------------
(* The types and the tables.                                               *)

TableTypes ==
  /\ ft_Elem \in [Peer -> [Index -> Peer \cup {NULL}]]
  /\ socket \in [Peer -> 0..MaxFingers] /\ tableCounter \in [Peer -> (-1)..(Bits - 1)]
  /\ required \in [Peer -> BOOLEAN] /\ complete \in [Peer -> BOOLEAN]

OtherTypes ==
  /\ replaced \in [Peer -> SUBSET Finger]
  /\ infoList \in [Peer -> Seq(InfoEntry)]
  /\ net \in SUBSET Message
  /\ asked \in SUBSET (Request \cup Finger) /\ answered \in SUBSET (Request \cup Finger)
  /\ status \in [Peer -> {"up", "hung", "down"}]
  /\ clash \in SUBSET Peer

Tables == TableTypes /\ Builds /\ Owned /\ FilledFromBelow

LEMMA Parts == TInv <=> Tables /\ OtherTypes
BY DEF TInv, Tables, TypeOK, TableTypes, OtherTypes

LEMMA TablesKept ==
  ASSUME TInv, UNCHANGED table
  PROVE  Tables'
<1>1. Tables
  BY Parts
<1>2. QED
  BY <1>1 DEF table, Tables, TableTypes, Builds, Owned, FilledFromBelow, Full, Start

LEMMA EntersNextTables ==
  ASSUME TInv, NEW p \in Peer, NEW k \in Index, EntersNext(p, k)
  PROVE  Tables'
<1>1. /\ required[p] /\ ~complete[p] /\ socket[p] \in Finger
      /\ k \in Index \ {0} /\ \A i \in 0..(k - 1) : ft_Elem[p][i] # NULL
      /\ tableCounter' = [tableCounter EXCEPT ![p] = k]
  BY DEF EntersNext, Entered
<1>2. /\ Bits \in Nat \ {0} /\ Index = 0..(Bits - 1) /\ nextID[p] \in Peer /\ NULL \notin Peer
      /\ k \in Nat /\ socket[p] # 0 /\ MaxFingers \in Nat
  BY <1>1, TableParts, SizeAssumption DEF Finger
<1>3. TableTypes /\ Builds /\ Owned /\ FilledFromBelow
  BY Parts DEF Tables
<1>4. PICK ft : ft = [ft_Elem[p] EXCEPT ![k] = nextID[p]]
  OBVIOUS
<1>5. /\ ft \in [Index -> Peer \cup {NULL}]
      /\ \A i \in Index : ft[i] = IF i = k THEN nextID[p] ELSE ft_Elem[p][i]
  BY <1>2, <1>3, <1>4 DEF TableTypes
<1>6. /\ ft_Elem' = [ft_Elem EXCEPT ![p] = ft] /\ required' = required
      /\ Owns(nextID[p], Start(p, k))
  BY <1>4 DEF EntersNext
<1>7. \/ /\ k = Bits - 1
         /\ complete' = [complete EXCEPT ![p] = TRUE] /\ socket' = [socket EXCEPT ![p] = 0]
      \/ complete' = complete /\ socket' = socket
  BY DEF EntersNext
<1>8. TableTypes'
  <2>1. ft_Elem' \in [Peer -> [Index -> Peer \cup {NULL}]]
    BY <1>3, <1>5, <1>6 DEF TableTypes
  <2>2. tableCounter' \in [Peer -> (-1)..(Bits - 1)]
    BY <1>1, <1>2, <1>3 DEF TableTypes
  <2>3. 0 \in 0..MaxFingers
    BY <1>2
  <2>4. socket' \in [Peer -> 0..MaxFingers]
    BY <1>3, <1>7, <2>3 DEF TableTypes
  <2>5. required' \in [Peer -> BOOLEAN] /\ complete' \in [Peer -> BOOLEAN]
    BY <1>3, <1>6, <1>7 DEF TableTypes
  <2>6. QED
    BY <2>1, <2>2, <2>4, <2>5 DEF TableTypes
<1>9. \A q \in Peer : /\ ft_Elem'[q] = IF q = p THEN ft ELSE ft_Elem[q]
                      /\ tableCounter'[q] = IF q = p THEN k ELSE tableCounter[q]
                      /\ q # p => complete'[q] = complete[q] /\ socket'[q] = socket[q]
  BY <1>1, <1>3, <1>6, <1>7 DEF TableTypes
<1>10. \/ k = Bits - 1 /\ complete'[p] /\ socket'[p] = 0
       \/ ~complete'[p] /\ socket'[p] # 0
  BY <1>1, <1>2, <1>3, <1>7 DEF TableTypes
<1>11. Builds'
  BY <1>1, <1>3, <1>6, <1>9, <1>10 DEF Builds
<1>12. Owned'
  <2> SUFFICES ASSUME NEW q \in Peer
               PROVE  /\ ft_Elem'[q][0] = IF required[q] THEN nextID[q] ELSE NULL
                      /\ \A l \in Index \ {0} :
                           ft_Elem'[q][l] # NULL => Owns(ft_Elem'[q][l], Start(q, l))
    BY <1>6 DEF Owned, Owns, Start
  <2>1. CASE q # p
    BY <1>3, <1>9, <2>1 DEF Owned
  <2>2. CASE q = p
    <3>1. ft[0] = ft_Elem[p][0]
      BY <1>1, <1>2, <1>5
    <3>2. \A l \in Index \ {0} : ft[l] # NULL => Owns(ft[l], Start(p, l))
      BY <1>3, <1>5, <1>6 DEF Owned
    <3>3. QED
      BY <1>3, <1>9, <2>2, <3>1, <3>2 DEF Owned
  <2>3. QED
    BY <2>1, <2>2
<1>13. FilledFromBelow'
  <2> SUFFICES ASSUME NEW q \in Peer
               PROVE  /\ \A i \in 0..(tableCounter'[q] - 1) : ft_Elem'[q][i] # NULL
                      /\ complete'[q] => \A i \in Index : ft_Elem'[q][i] # NULL
    BY DEF FilledFromBelow, Full
  <2>1. CASE q # p
    BY <1>3, <1>9, <2>1 DEF FilledFromBelow, Full
  <2>2. CASE q = p
    <3>1. \A i \in 0..k : i \in Index /\ ft[i] # NULL
      BY <1>1, <1>2, <1>5
    <3>2. \A i \in 0..(k - 1) : i \in 0..k
      BY <1>2
    <3>3. k = Bits - 1 => \A i \in Index : ft[i] # NULL
      BY <1>2, <3>1
    <3>4. QED
      BY <1>9, <1>10, <2>2, <3>1, <3>2, <3>3
  <2>3. QED
    BY <2>1, <2>2
<1>14. QED
  BY <1>8, <1>11, <1>12, <1>13 DEF Tables

LEMMA LooksForEntryTables ==
  ASSUME TInv, NEW p \in Peer, NEW k \in Index, NEW q \in Peer, NEW s \in ID,
         LooksForEntry(p, k, q, s)
  PROVE  Tables'
<1>1. TableTypes /\ Builds /\ Owned /\ FilledFromBelow
  BY Parts DEF Tables
<1>2. /\ k \in Index \ {0} /\ \A i \in 0..(k - 1) : ft_Elem[p][i] # NULL
      /\ tableCounter' = [tableCounter EXCEPT ![p] = k]
      /\ UNCHANGED <<ft_Elem, socket, required, complete>>
  BY DEF LooksForEntry, Entered
<1>3. Bits \in Nat \ {0} /\ Index = 0..(Bits - 1)
  BY TableParts
<1>4. TableTypes'
  BY <1>1, <1>2, <1>3 DEF TableTypes
<1>5. Builds' /\ Owned'
  BY <1>1, <1>2 DEF Builds, Owned, Owns, Start
<1>6. FilledFromBelow'
  <2>1. \A x \in Peer : tableCounter'[x] = IF x = p THEN k ELSE tableCounter[x]
    BY <1>1, <1>2 DEF TableTypes
  <2>2. QED
    BY <1>1, <1>2, <2>1 DEF FilledFromBelow, Full
<1>7. QED
  BY <1>4, <1>5, <1>6 DEF Tables

LEMMA StartsTableTables ==
  ASSUME TInv, NEW p \in Peer, NEW m \in net, StartsTable(p, m)
  PROVE  Tables'
<1>1. TableTypes /\ Builds /\ Owned /\ FilledFromBelow
  BY Parts DEF Tables
<1>2. m.n \in Finger
  BY MessageFields DEF StartsTable, TInv
<1>3. /\ Bits \in Nat \ {0} /\ Index = 0..(Bits - 1) /\ nextID[p] \in Peer /\ 0 \in Index
      /\ m.n # 0 /\ m.n \in 0..MaxFingers /\ NULL \notin Peer
  BY <1>2, TableParts, SizeAssumption DEF Finger
<1>4. PICK ft : ft = [i \in Index |-> IF i = 0 THEN nextID[p] ELSE NULL]
  OBVIOUS
<1>5. ft \in [Index -> Peer \cup {NULL}] /\ \A i \in Index : ft[i] = IF i = 0 THEN nextID[p] ELSE NULL
  BY <1>3, <1>4
<1>6. /\ ft_Elem' = [ft_Elem EXCEPT ![p] = ft] /\ socket' = [socket EXCEPT ![p] = m.n]
      /\ tableCounter' = [tableCounter EXCEPT ![p] = 0]
      /\ required' = [required EXCEPT ![p] = TRUE] /\ complete' = [complete EXCEPT ![p] = FALSE]
  BY <1>4 DEF StartsTable
<1>7. TableTypes'
  BY <1>1, <1>3, <1>5, <1>6 DEF TableTypes
<1>8. \A q \in Peer : /\ ft_Elem'[q] = IF q = p THEN ft ELSE ft_Elem[q]
                      /\ socket'[q] = IF q = p THEN m.n ELSE socket[q]
                      /\ tableCounter'[q] = IF q = p THEN 0 ELSE tableCounter[q]
                      /\ required'[q] = IF q = p THEN TRUE ELSE required[q]
                      /\ complete'[q] = IF q = p THEN FALSE ELSE complete[q]
  BY <1>1, <1>6 DEF TableTypes
<1>9. Builds'
  BY <1>1, <1>3, <1>8 DEF Builds
<1>10. Owned'
  <2> SUFFICES ASSUME NEW q \in Peer
               PROVE  /\ ft_Elem'[q][0] = IF required'[q] THEN nextID[q] ELSE NULL
                      /\ \A l \in Index \ {0} :
                           ft_Elem'[q][l] # NULL => Owns(ft_Elem'[q][l], Start(q, l))
    BY DEF Owned, Owns, Start
  <2>1. CASE q # p
    BY <1>1, <1>8, <2>1 DEF Owned
  <2>2. CASE q = p
    BY <1>3, <1>5, <1>8, <2>2
  <2>3. QED
    BY <2>1, <2>2
<1>11. FilledFromBelow'
  <2> SUFFICES ASSUME NEW q \in Peer
               PROVE  /\ \A i \in 0..(tableCounter'[q] - 1) : ft_Elem'[q][i] # NULL
                      /\ complete'[q] => \A i \in Index : ft_Elem'[q][i] # NULL
    BY DEF FilledFromBelow, Full
  <2>1. CASE q # p
    BY <1>1, <1>8, <2>1 DEF FilledFromBelow, Full
  <2>2. CASE q = p
    <3>1. \A i \in 0..(0 - 1) : FALSE
      OBVIOUS
    <3>2. tableCounter'[q] = 0 /\ ~complete'[q]
      BY <1>8, <2>2
    <3>3. QED
      BY <3>1, <3>2
  <2>3. QED
    BY <2>1, <2>2
<1>12. QED
  BY <1>7, <1>9, <1>10, <1>11 DEF Tables

LEMMA TakesReplyTables ==
  ASSUME TInv, RepliesRight, NEW p \in Peer, NEW m \in net, TakesReply(p, m)
  PROVE  Tables'
<1>1. TableTypes /\ Builds /\ Owned /\ FilledFromBelow
  BY Parts DEF Tables
<1>2. m.chosen \in Peer /\ Owns(m.chosen, m.id) /\ NULL \notin Peer
  BY MessageFields, Tags DEF TakesReply, TInv, RepliesRight
<1>3. PICK ft : Fills(p, m.chosen, m.id, ft)
  BY DEF TakesReply
<1>4. /\ ft \in [Index -> Peer \cup {NULL}] /\ ft_Elem' = [ft_Elem EXCEPT ![p] = ft]
      /\ \A k \in Index : \/ ft[k] = ft_Elem[p][k]
                          \/ /\ required[p] /\ ft_Elem[p][k] = NULL
                             /\ ft[k] = m.chosen /\ Start(p, k) = m.id
      /\ UNCHANGED <<tableCounter, required>>
  BY <1>3 DEF Fills, TakesReply
<1>5. \/ UNCHANGED <<complete, socket>>
      \/ /\ required[p] /\ ~complete[p] /\ Full(ft)
         /\ complete' = [complete EXCEPT ![p] = TRUE]
         /\ socket' = [socket EXCEPT ![p] = 0]
  BY <1>3 DEF Fills
<1>6. /\ Bits \in Nat \ {0} /\ Index = 0..(Bits - 1) /\ nextID[p] \in Peer /\ 0 \in Index
      /\ 0 \in 0..MaxFingers
  BY TableParts
<1>7. TableTypes'
  BY <1>1, <1>4, <1>5, <1>6 DEF TableTypes
<1>8. \A q \in Peer : /\ ft_Elem'[q] = IF q = p THEN ft ELSE ft_Elem[q]
                      /\ q # p => complete'[q] = complete[q] /\ socket'[q] = socket[q]
  BY <1>1, <1>4, <1>5 DEF TableTypes
<1>9. \/ complete'[p] = complete[p] /\ socket'[p] = socket[p]
      \/ required[p] /\ Full(ft) /\ complete'[p] /\ socket'[p] = 0
  BY <1>1, <1>5 DEF TableTypes
<1>10. Builds'
  BY <1>1, <1>4, <1>8, <1>9 DEF Builds
<1>11. Owned'
  <2> SUFFICES ASSUME NEW q \in Peer
               PROVE  /\ ft_Elem'[q][0] = IF required[q] THEN nextID[q] ELSE NULL
                      /\ \A l \in Index \ {0} :
                           ft_Elem'[q][l] # NULL => Owns(ft_Elem'[q][l], Start(q, l))
    BY <1>4 DEF Owned, Owns, Start
  <2>1. CASE q # p
    BY <1>1, <1>8, <2>1 DEF Owned
  <2>2. CASE q = p
    <3>1. ft[0] = ft_Elem[p][0]
      BY <1>1, <1>2, <1>4, <1>6 DEF Owned
    <3>2. \A l \in Index \ {0} : ft[l] # NULL => Owns(ft[l], Start(p, l))
      BY <1>1, <1>2, <1>4 DEF Owned
    <3>3. QED
      BY <1>1, <1>8, <2>2, <3>1, <3>2 DEF Owned
  <2>3. QED
    BY <2>1, <2>2
<1>12. FilledFromBelow'
  <2> SUFFICES ASSUME NEW q \in Peer
               PROVE  /\ \A i \in 0..(tableCounter[q] - 1) : ft_Elem'[q][i] # NULL
                      /\ complete'[q] => \A i \in Index : ft_Elem'[q][i] # NULL
    BY <1>4 DEF FilledFromBelow, Full
  <2>1. CASE q # p
    BY <1>1, <1>8, <2>1 DEF FilledFromBelow, Full
  <2>2. CASE q = p
    <3>1. \A i \in Index : ft_Elem[p][i] # NULL => ft[i] # NULL
      BY <1>2, <1>4
    <3>2. \A i \in 0..(tableCounter[p] - 1) : i \in Index /\ ft_Elem[p][i] # NULL
      BY <1>6, TableParts
    <3>3. complete'[p] => \A i \in Index : ft[i] # NULL
      BY <1>1, <1>9, <3>1 DEF FilledFromBelow, Full
    <3>4. QED
      BY <1>8, <2>2, <3>1, <3>2, <3>3
  <2>3. QED
    BY <2>1, <2>2
<1>13. QED
  BY <1>7, <1>10, <1>11, <1>12 DEF Tables

LEMMA TablesStep ==
  ASSUME TInv, RepliesRight, Effect
  PROVE  Tables'
<1>1. ASSUME NEW r \in Request, NEW q \in Peer, Sends(r, q) PROVE UNCHANGED table
  BY <1>1 DEF Sends
<1>2. ASSUME NEW n \in Finger, NEW q \in Peer, AsksForTable(n, q) PROVE UNCHANGED table
  BY <1>2 DEF AsksForTable
<1>3. ASSUME NEW p \in Peer, Hangs(p) PROVE UNCHANGED table
  BY <1>3 DEF Hangs
<1>4. ASSUME NEW p \in Peer, NEW m \in net,
             \/ AnswersHere(p, m) \/ SentOn(p, m) \/ Resolves(p, m) \/ GoesOn(p, m)
             \/ Concludes(p, m)
      PROVE  UNCHANGED table
  BY <1>4 DEF AnswersHere, SentOn, Resolves, GoesOn, Concludes
<1>5. ASSUME NEW p \in Peer, NEW m \in net, NEW q \in Peer, NEW h \in ID, LooksUp(p, m, q, h)
      PROVE  UNCHANGED table
  BY <1>5 DEF LooksUp
<1>6. QED
  BY <1>1, <1>2, <1>3, <1>4, <1>5, TablesKept, EntersNextTables, LooksForEntryTables,
     StartsTableTables, TakesReplyTables DEF Effect

LEMMA AnsweredTypes ==
  ASSUME OtherTypes, NEW m, NEW r \in Request, NEW conn \in Tag, NEW caller \in Peer \cup {Client},
         Answered(m, caller, r, conn)
  PROVE  net' \in SUBSET Message /\ answered' \in SUBSET (Request \cup Finger)
<1>1. net \in SUBSET Message /\ answered \in SUBSET (Request \cup Finger)
  BY DEF OtherTypes
<1>2. caller \in Peer => FinalMsg(conn, caller) \in Message
  BY FinalFields
<1>3. QED
  BY <1>1, <1>2 DEF Answered

LEMMA OthersStep ==
  ASSUME TInv, Effect
  PROVE  OtherTypes'
<1> DEFINE Reqs == Request \cup Finger
<1>1. /\ replaced \in [Peer -> SUBSET Finger] /\ infoList \in [Peer -> Seq(InfoEntry)]
      /\ net \in SUBSET Message /\ asked \in SUBSET Reqs /\ answered \in SUBSET Reqs
      /\ status \in [Peer -> {"up", "hung", "down"}] /\ clash \in SUBSET Peer
  BY Parts DEF OtherTypes
<1>2. OtherTypes /\ TypeOK
  BY Parts DEF TInv
<1>3. ASSUME NEW r \in Request, NEW q \in Peer, Sends(r, q) PROVE OtherTypes'
  <2>1. HashMsg(r, r, Client, q) \in Message
    BY Tags, HashFields
  <2>2. QED
    BY <1>1, <1>3, <2>1 DEF Sends, OtherTypes
<1>4. ASSUME NEW n \in Finger, NEW q \in Peer, AsksForTable(n, q) PROVE OtherTypes'
  <2>1. FingerMsg(n, q) \in Message
    BY FingerFields
  <2>2. QED
    BY <1>1, <1>4, <2>1 DEF AsksForTable, OtherTypes
<1>5. ASSUME NEW p \in Peer, Hangs(p) PROVE OtherTypes'
  BY <1>1, <1>5 DEF Hangs, OtherTypes
<1>6. ASSUME NEW p \in Peer, NEW k \in Index, EntersNext(p, k) PROVE OtherTypes'
  BY <1>1, <1>6 DEF EntersNext, Entered, OtherTypes
<1>7. ASSUME NEW p \in Peer, NEW k \in Index, NEW q \in Peer, NEW s \in ID, LooksForEntry(p, k, q, s)
      PROVE  OtherTypes'
  <2>1. <<socket[p], k>> \in Tag
    BY <1>7, Tags DEF LooksForEntry, Entered
  <2>2. LookupMsg(<<socket[p], k>>, p, q, s) \in Message
    BY <2>1, LookupFields
  <2>3. QED
    BY <1>1, <1>7, <2>2 DEF LooksForEntry, OtherTypes
<1>8. ASSUME NEW p \in Peer, NEW m \in net, AnswersHere(p, m) PROVE OtherTypes'
  <2>1. m.req \in Request /\ m.conn \in Tag /\ m.from \in Peer \cup {Client}
    BY <1>2, <1>8, MessageFields DEF AnswersHere
  <2>2. net' \in SUBSET Message /\ answered' \in SUBSET Reqs
    BY <1>2, <1>8, <2>1, AnsweredTypes DEF AnswersHere
  <2>3. QED
    BY <1>1, <1>8, <2>2 DEF AnswersHere, OtherTypes
<1>9. ASSUME NEW p \in Peer, NEW m \in net, SentOn(p, m) PROVE OtherTypes'
  <2>1. /\ m.req \in Request /\ m.conn \in Tag /\ m.from \in Peer \cup {Client}
        /\ nextID[p] \in Peer
    BY <1>2, <1>9, MessageFields, Neighbours DEF SentOn
  <2>2. HashMsg(m.req, m.conn, p, nextID[p]) \in Message
    BY <2>1, HashFields
  <2>3. NewEntry(m.req, m.from, m.conn) \in InfoEntry
    BY <2>1, EntryFields
  <2>4. Append(infoList[p], NewEntry(m.req, m.from, m.conn)) \in Seq(InfoEntry)
    BY <1>1, <2>3, AppendProperties
  <2>5. infoList' \in [Peer -> Seq(InfoEntry)]
    BY <1>1, <1>9, <2>4 DEF SentOn
  <2>6. QED
    BY <1>1, <1>9, <2>2, <2>5 DEF SentOn, OtherTypes
<1>10. ASSUME NEW p \in Peer, NEW m \in net, NEW q \in Peer, NEW h \in ID, LooksUp(p, m, q, h)
       PROVE  OtherTypes'
  <2>1. m.req \in Request /\ m.from \in Peer \cup {Client} /\ m.req \in Tag
    BY <1>2, <1>10, MessageFields, Tags DEF LooksUp
  <2>2. LookupMsg(m.req, p, q, h) \in Message
    BY <2>1, LookupFields
  <2>3. NewEntry(m.req, m.from, NULL) \in InfoEntry
    BY <2>1, EntryFields
  <2>4. Append(infoList[p], NewEntry(m.req, m.from, NULL)) \in Seq(InfoEntry)
    BY <1>1, <2>3, AppendProperties
  <2>5. infoList' \in [Peer -> Seq(InfoEntry)]
    BY <1>1, <1>10, <2>4 DEF LooksUp
  <2>6. QED
    BY <1>1, <1>10, <2>2, <2>5 DEF LooksUp, OtherTypes
<1>11. ASSUME NEW p \in Peer, NEW m \in net, Resolves(p, m) PROVE OtherTypes'
  <2>1. m.tag \in Tag /\ m.orig \in Peer /\ m.id \in ID /\ nextID[p] \in Peer
    BY <1>2, <1>11, MessageFields, Neighbours DEF Resolves
  <2>2. ReplyMsg(m.tag, nextID[p], m.orig, m.id) \in Message
    BY <2>1, ReplyFields
  <2>3. QED
    BY <1>1, <1>11, <2>2 DEF Resolves, OtherTypes
<1>12. ASSUME NEW p \in Peer, NEW m \in net, GoesOn(p, m) PROVE OtherTypes'
  <2>1. m.tag \in Tag /\ m.orig \in Peer /\ m.id \in ID
    BY <1>2, <1>12, MessageFields DEF GoesOn
  <2>2. \A q \in Peer : LookupMsg(m.tag, m.orig, q, m.id) \in Message
    BY <2>1, LookupFields
  <2>3. net' \in SUBSET Message
    BY <1>1, <1>12, <2>2 DEF GoesOn
  <2>4. QED
    BY <1>1, <1>12, <2>3 DEF GoesOn, OtherTypes
<1>13. ASSUME NEW p \in Peer, NEW m \in net, TakesReply(p, m) PROVE OtherTypes'
  <2>1. m.tag \in Tag /\ m.chosen \in Peer /\ Forwards(p, m)
    BY <1>2, <1>13, MessageFields DEF TakesReply
  <2>2. answered' \in SUBSET Reqs
    <3>1. PICK ft : Fills(p, m.chosen, m.id, ft)
      BY <1>13 DEF TakesReply
    <3>2. required[p] /\ ~complete[p] => socket[p] \in Finger
      BY TableParts
    <3>3. QED
      BY <1>1, <3>1, <3>2 DEF Fills
  <2>3. net' \in SUBSET Message /\ infoList' \in [Peer -> Seq(InfoEntry)]
    <3>1. CASE net' = net \ {m} /\ infoList' = infoList
      BY <1>1, <3>1
    <3>2. ASSUME NEW i \in 1..Len(infoList[p]),
                 net' = (net \ {m}) \cup {HashMsg(infoList[p][i].req, m.tag, p, m.chosen)},
                 infoList' = [infoList EXCEPT ![p] = [infoList[p] EXCEPT ![i].final = m.tag]]
          PROVE  net' \in SUBSET Message /\ infoList' \in [Peer -> Seq(InfoEntry)]
      <4>1. infoList[p][i].req \in Request
        <5>1. infoList[p][i] \in Waiting(p)
          BY <1>2, ListOf
        <5>2. QED
          BY <1>2, <5>1, ListOf
      <4>2. HashMsg(infoList[p][i].req, m.tag, p, m.chosen) \in Message
        BY <2>1, <4>1, HashFields
      <4>3. PICK t : t = WithFinal(infoList[p], i, m.tag)
        OBVIOUS
      <4>4. t \in Seq(InfoEntry)
        BY <1>1, <2>1, <4>3, ListForwards
      <4>5. QED
        BY <1>1, <3>2, <4>2, <4>3, <4>4 DEF WithFinal
    <3>3. QED
      BY <2>1, <3>1, <3>2 DEF Forwards
  <2>4. QED
    BY <1>1, <1>13, <2>2, <2>3 DEF TakesReply, OtherTypes
<1>14. ASSUME NEW p \in Peer, NEW m \in net, Concludes(p, m) PROVE OtherTypes'
  <2>1. ASSUME NEW i \in 1..Len(infoList[p]),
               Answered(m, infoList[p][i].caller, infoList[p][i].req, infoList[p][i].req),
               infoList' = [infoList EXCEPT ![p] = RemoveAt(infoList[p], i)],
               UNCHANGED status
        PROVE  OtherTypes'
    <3>1. PICK e : e = infoList[p][i]
      OBVIOUS
    <3>2. e.caller \in Peer \cup {Client} /\ e.req \in Request /\ e.req \in Tag
      <4>1. e \in Waiting(p)
        BY <1>2, <3>1, ListOf
      <4>2. QED
        BY <1>2, <4>1, ListOf, Tags
    <3>3. net' \in SUBSET Message /\ answered' \in SUBSET Reqs
      BY <1>2, <2>1, <3>1, <3>2, AnsweredTypes
    <3>4. RemoveAt(infoList[p], i) \in Seq(InfoEntry)
      BY <1>1, RemoveAtType
    <3>5. infoList' \in [Peer -> Seq(InfoEntry)]
      BY <1>1, <2>1, <3>4
    <3>6. QED
      BY <1>1, <1>14, <2>1, <3>3, <3>5 DEF Concludes, OtherTypes
  <2>2. ASSUME status' = [status EXCEPT ![p] = "down"], net' = net \ {m},
               UNCHANGED <<infoList, answered>>
        PROVE  OtherTypes'
    BY <1>1, <1>14, <2>2 DEF Concludes, OtherTypes
  <2>3. QED
    BY <1>14, <2>1, <2>2 DEF Concludes
<1>15. ASSUME NEW p \in Peer, NEW m \in net, StartsTable(p, m) PROVE OtherTypes'
  <2>1. socket[p] \in {0} \cup Finger
    BY TableParts
  <2>2. replaced' \in [Peer -> SUBSET Finger]
    BY <1>1, <1>15, <2>1 DEF StartsTable
  <2>3. QED
    BY <1>1, <1>15, <2>2 DEF StartsTable, OtherTypes
<1>16. QED
  BY <1>3, <1>4, <1>5, <1>6, <1>7, <1>8, <1>9, <1>10, <1>11, <1>12, <1>13, <1>14, <1>15
     DEF Effect

-----------------------------------------------------------------------------
(* LOOKUPs and REPLYs.                                                     *)

Sound(m) ==
  /\ m.type = "LOOKUP" => /\ m.id # Lowest => Between(m.orig, m.to, m.id)
                          /\ ~Owns(nextID[m.orig], m.id)
  /\ m.type = "REPLY" => Owns(m.chosen, m.id) /\ ~Owns(nextID[m.to], m.id)

LEMMA AllSound ==
  ASSUME TypeOK
  PROVE  LInv <=> \A m \in net : Sound(m)
<1>1. ASSUME LInv, NEW m \in net PROVE Sound(m)
  <2>1. CASE m.type = "LOOKUP"
    <3>1. m \in Open(m.orig) /\ m.orig \in Peer
      BY <2>1, MessageFields DEF Open
    <3>2. QED
      BY <1>1, <2>1, <3>1 DEF LInv, LookupsAhead, NotForNext, Sound
  <2>2. CASE m.type = "REPLY"
    <3>1. m \in Open(m.to) /\ m.to \in Peer
      BY <2>2, MessageFields DEF Open
    <3>2. QED
      BY <1>1, <2>2, <3>1 DEF LInv, RepliesRight, NotForNext, Sound
  <2>3. QED
    BY <2>1, <2>2 DEF Sound
<1>2. ASSUME \A m \in net : Sound(m) PROVE LInv
  BY <1>2 DEF LInv, RepliesRight, LookupsAhead, NotForNext, Open, Sound
<1>3. QED
  BY <1>1, <1>2

LEMMA BetweenGoesFurther ==
  ASSUME NEW o \in Peer, NEW p \in Peer, NEW q \in Peer, NEW h \in ID, h # Lowest,
         Between(o, p, h), ~Owns(nextID[p], h), Beyond(p, h) => Between(p, q, h)
  PROVE  Between(o, q, h)
<1>1. h # p
  BY SizeOfRing DEF Between
<1>2. QED
  BY <1>1, BetweenGoesOn DEF Beyond

LEMMA LookupsStep ==
  ASSUME TInv, LInv, TypeOK', Effect
  PROVE  LInv'
<1>1. TypeOK /\ \A m \in net : Sound(m)
  BY AllSound DEF TInv
<1>2. SUFFICES \A m \in net' : Sound(m)
  <2>1. TypeOK' => (LInv' <=> \A m \in net' : Sound(m))
    <3>1. (TypeOK => (LInv <=> \A m \in net : Sound(m)))'
      BY AllSound, PTL
    <3>2. QED
      BY <3>1 DEF Sound, Owns, Lowest, Between
  <2>2. QED
    BY <2>1
<1>3. ASSUME net' \subseteq net PROVE \A m \in net' : Sound(m)
  BY <1>1, <1>3
<1>4. ASSUME NEW n, net' \subseteq net \cup {n}, Sound(n) PROVE \A m \in net' : Sound(m)
  BY <1>1, <1>4
<1>5. ASSUME NEW n, n.type # "LOOKUP", n.type # "REPLY" PROVE Sound(n)
  BY <1>5 DEF Sound
<1>6. ASSUME NEW r \in Request, NEW q \in Peer, Sends(r, q) PROVE \A m \in net' : Sound(m)
  <2>1. Sound(HashMsg(r, r, Client, q))
    BY <1>5, Tags, HashFields
  <2>2. QED
    BY <1>4, <1>6, <2>1 DEF Sends
<1>7. ASSUME NEW n \in Finger, NEW q \in Peer, AsksForTable(n, q) PROVE \A m \in net' : Sound(m)
  <2>1. Sound(FingerMsg(n, q))
    BY <1>5, FingerFields
  <2>2. QED
    BY <1>4, <1>7, <2>1 DEF AsksForTable
<1>8. ASSUME NEW p \in Peer, Hangs(p) PROVE \A m \in net' : Sound(m)
  BY <1>3, <1>8 DEF Hangs
<1>9. ASSUME NEW p \in Peer, NEW k \in Index, EntersNext(p, k) PROVE \A m \in net' : Sound(m)
  BY <1>3, <1>9 DEF EntersNext
<1>10. ASSUME NEW p \in Peer, NEW k \in Index, NEW q \in Peer, NEW s \in ID, LooksForEntry(p, k, q, s)
       PROVE  \A m \in net' : Sound(m)
  <2>1. <<socket[p], k>> \in Tag
    BY <1>10, Tags DEF LooksForEntry, Entered
  <2>2. PICK x : x = LookupMsg(<<socket[p], k>>, p, q, s)
    OBVIOUS
  <2>3. x.type = "LOOKUP" /\ x.orig = p /\ x.to = q /\ x.id = s
    BY <2>1, <2>2, LookupFields
  <2>4. Sound(x)
    BY <1>10, <2>3 DEF LooksForEntry, Sound
  <2>5. net' \subseteq net \cup {x}
    BY <1>10, <2>2 DEF LooksForEntry
  <2>6. QED
    BY <1>4, <2>4, <2>5
<1>11. ASSUME NEW m \in net, NEW r \in Request, NEW conn \in Tag, NEW caller \in Peer \cup {Client},
              Answered(m, caller, r, conn)
       PROVE  \A n \in net' : Sound(n)
  <2>1. caller \in Peer => Sound(FinalMsg(conn, caller))
    BY <1>5, FinalFields
  <2>2. QED
    BY <1>3, <1>4, <1>11, <2>1 DEF Answered
<1>12. ASSUME NEW p \in Peer, NEW m \in net, AnswersHere(p, m) PROVE \A n \in net' : Sound(n)
  <2>1. m.req \in Request /\ m.conn \in Tag /\ m.from \in Peer \cup {Client}
    BY <1>1, <1>12, MessageFields DEF AnswersHere
  <2>2. QED
    BY <1>11, <1>12, <2>1 DEF AnswersHere
<1>13. ASSUME NEW p \in Peer, NEW m \in net, SentOn(p, m) PROVE \A n \in net' : Sound(n)
  <2>1. m.req \in Request /\ m.conn \in Tag /\ nextID[p] \in Peer
    BY <1>1, <1>13, MessageFields, Neighbours DEF SentOn
  <2>2. Sound(HashMsg(m.req, m.conn, p, nextID[p]))
    BY <1>5, <2>1, HashFields
  <2>3. QED
    BY <1>4, <1>13, <2>2 DEF SentOn
<1>14. ASSUME NEW p \in Peer, NEW m \in net, NEW q \in Peer, NEW h \in ID, LooksUp(p, m, q, h)
       PROVE  \A n \in net' : Sound(n)
  <2>1. m.req \in Tag
    BY <1>1, <1>14, MessageFields, Tags DEF LooksUp
  <2>2. PICK x : x = LookupMsg(m.req, p, q, h)
    OBVIOUS
  <2>3. x.type = "LOOKUP" /\ x.orig = p /\ x.to = q /\ x.id = h
    BY <2>1, <2>2, LookupFields
  <2>4. ~Owns(p, h) /\ ~Owns(nextID[p], h) /\ (Beyond(p, h) => Between(p, q, h))
    BY <1>14 DEF LooksUp
  <2>5. h # Lowest => Between(p, q, h)
    BY <2>4, OwnsItself DEF Beyond
  <2>6. Sound(x)
    BY <2>3, <2>4, <2>5 DEF Sound
  <2>7. net' \subseteq net \cup {x}
    BY <1>14, <2>2 DEF LooksUp
  <2>8. QED
    BY <1>4, <2>6, <2>7
<1>15. ASSUME NEW p \in Peer, NEW m \in net, Resolves(p, m) PROVE \A n \in net' : Sound(n)
  <2>1. /\ m.tag \in Tag /\ m.orig \in Peer /\ m.id \in ID /\ nextID[p] \in Peer
        /\ m.type = "LOOKUP" /\ Owns(nextID[p], m.id)
    BY <1>1, <1>15, MessageFields, Neighbours DEF Resolves
  <2>2. PICK x : x = ReplyMsg(m.tag, nextID[p], m.orig, m.id)
    OBVIOUS
  <2>3. x.type = "REPLY" /\ x.chosen = nextID[p] /\ x.to = m.orig /\ x.id = m.id
    BY <2>1, <2>2, ReplyFields
  <2>4. ~Owns(nextID[m.orig], m.id)
    BY <1>1, <2>1 DEF Sound
  <2>5. Sound(x)
    BY <2>1, <2>3, <2>4 DEF Sound
  <2>6. net' \subseteq net \cup {x}
    BY <1>15, <2>2 DEF Resolves
  <2>7. QED
    BY <1>4, <2>5, <2>6
<1>16. ASSUME NEW p \in Peer, NEW m \in net, GoesOn(p, m) PROVE \A n \in net' : Sound(n)
  <2>1. /\ m.tag \in Tag /\ m.orig \in Peer /\ m.id \in ID
        /\ m.type = "LOOKUP" /\ m.to = p /\ (Owns(p, m.id) \/ ~Owns(nextID[p], m.id))
    BY <1>1, <1>16, MessageFields DEF GoesOn
  <2>2. ASSUME NEW q \in Peer, net' = (net \ {m}) \cup {LookupMsg(m.tag, m.orig, q, m.id)},
               Beyond(p, m.id) => Between(p, q, m.id)
        PROVE  \A n \in net' : Sound(n)
    <3>1. PICK x : x = LookupMsg(m.tag, m.orig, q, m.id)
      OBVIOUS
    <3>2. x.type = "LOOKUP" /\ x.orig = m.orig /\ x.to = q /\ x.id = m.id
      BY <2>1, <3>1, LookupFields
    <3>3. ~Owns(nextID[m.orig], m.id) /\ (m.id # Lowest => Between(m.orig, p, m.id))
      BY <1>1, <2>1 DEF Sound
    <3>4. m.id # Lowest => Between(m.orig, q, m.id)
      <4>1. SUFFICES ASSUME m.id # Lowest PROVE Between(m.orig, q, m.id)
        OBVIOUS
      <4>2. Between(m.orig, p, m.id)
        BY <3>3, <4>1
      <4>3. ~Owns(p, m.id)
        BY <2>1, <4>2, BetweenNotOwner
      <4>4. QED
        BY <2>1, <2>2, <4>1, <4>2, <4>3, BetweenGoesFurther
    <3>5. Sound(x)
      BY <3>2, <3>3, <3>4 DEF Sound
    <3>6. net' \subseteq net \cup {x}
      BY <2>2, <3>1
    <3>7. QED
      BY <1>4, <3>5, <3>6
  <2>3. QED
    BY <1>3, <1>16, <2>2 DEF GoesOn
<1>17. ASSUME NEW p \in Peer, NEW m \in net, TakesReply(p, m) PROVE \A n \in net' : Sound(n)
  <2>1. m.tag \in Tag /\ m.chosen \in Peer /\ Forwards(p, m)
    BY <1>1, <1>17, MessageFields DEF TakesReply
  <2>2. ASSUME NEW i \in 1..Len(infoList[p])
        PROVE  Sound(HashMsg(infoList[p][i].req, m.tag, p, m.chosen))
    <3>1. infoList[p][i] \in Waiting(p)
      BY <1>1, ListOf
    <3>2. infoList[p][i].req \in Request
      BY <1>1, <3>1, ListOf
    <3>3. QED
      BY <1>5, <2>1, <3>2, HashFields
  <2>3. QED
    BY <1>3, <1>4, <2>1, <2>2 DEF Forwards
<1>18. ASSUME NEW p \in Peer, NEW m \in net, Concludes(p, m) PROVE \A n \in net' : Sound(n)
  <2>1. ASSUME NEW i \in 1..Len(infoList[p]),
               Answered(m, infoList[p][i].caller, infoList[p][i].req, infoList[p][i].req)
        PROVE  \A n \in net' : Sound(n)
    <3>1. PICK e : e = infoList[p][i]
      OBVIOUS
    <3>2. e \in Waiting(p)
      BY <1>1, <3>1, ListOf
    <3>3. e.caller \in Peer \cup {Client} /\ e.req \in Request /\ e.req \in Tag
      BY <1>1, <3>2, ListOf, Tags
    <3>4. QED
      BY <1>11, <2>1, <3>1, <3>3
  <2>2. QED
    BY <1>3, <1>18, <2>1 DEF Concludes
<1>19. ASSUME NEW p \in Peer, NEW m \in net, StartsTable(p, m) PROVE \A n \in net' : Sound(n)
  BY <1>3, <1>19 DEF StartsTable
<1>20. QED
  BY <1>6, <1>7, <1>8, <1>9, <1>10, <1>12, <1>13, <1>14, <1>15, <1>16, <1>17, <1>18, <1>19
     DEF Effect

-----------------------------------------------------------------------------
(* Entries, LOOKUPs and answers.  What a peer without a clash keeps, as a  *)
(* relation of its entries W, the LOOKUPs O it waits for and the answers A *)
(* it awaits.                                                              *)

Matched(W, O, A, next) ==
  /\ \A e, f \in W : hashID[e.req] = hashID[f.req] /\ ~Owns(next, hashID[e.req]) => e = f
  /\ \A e \in W, o \in O : o.id = hashID[e.req] =>
       o.tag = e.req /\ e.final = NULL /\ \A n \in O : n.id = o.id => n = o
  /\ \A e \in W : e.final \in {NULL, e.req}
  /\ \A m \in A : \E e \in W : e.req = m.conn /\ e.final = m.conn
  /\ \A m, n \in A : m.conn = n.conn => m = n

LEMMA UnclashedMatch ==
  Unclashed <=> \A p \in Peer \ clash : Matched(Waiting(p), Open(p), Awaited(p), nextID[p])
BY DEF Unclashed, OneForAnID, Expected, Matched

LEMMA MatchedFewer ==
  ASSUME NEW W, NEW O, NEW A, NEW next, Matched(W, O, A, next),
         NEW P, P \subseteq O, NEW B, B \subseteq A
  PROVE  Matched(W, P, B, next)
BY DEF Matched

LEMMA MatchedLookup ==
  ASSUME NEW W, NEW O, NEW A, NEW next, Matched(W, O, A, next),
         NEW x, \A e \in W : hashID[e.req] # x.id,
         NEW P, P \subseteq O \cup {x}, NEW B, B \subseteq A
  PROVE  Matched(W, P, B, next)
BY DEF Matched

LEMMA MatchedLookupMoved ==
  ASSUME NEW W, NEW O, NEW A, NEW next, Matched(W, O, A, next),
         NEW m \in O, NEW x, x.id = m.id, x.tag = m.tag,
         NEW P, P \subseteq (O \ {m}) \cup {x}, NEW B, B \subseteq A
  PROVE  Matched(W, P, B, next)
BY DEF Matched

LEMMA MatchedAnswer ==
  ASSUME NEW W, NEW O, NEW A, NEW next, Matched(W, O, A, next),
         NEW m \in A, NEW x, x.conn = m.conn,
         NEW P, P \subseteq O, NEW B, B \subseteq (A \ {m}) \cup {x}
  PROVE  Matched(W, P, B, next)
BY DEF Matched

LEMMA MatchedSentOn ==
  ASSUME NEW W, NEW O, NEW A, NEW next, Matched(W, O, A, next),
         NEW e, \A f \in W : f.req # e.req, e.final = e.req,
         Owns(next, hashID[e.req]), \A o \in O : ~Owns(next, o.id),
         NEW x, x.conn = e.req,
         NEW P, P \subseteq O, NEW B, B \subseteq A \cup {x}
  PROVE  Matched(W \cup {e}, P, B, next)
BY DEF Matched

LEMMA MatchedLooksUp ==
  ASSUME NEW W, NEW O, NEW A, NEW next, Matched(W, O, A, next),
         NEW e, e.final = NULL, NEW x, x.tag = e.req, x.id = hashID[e.req],
         \A f \in W : hashID[f.req] # x.id, \A o \in O : o.id # x.id,
         NEW P, P \subseteq O \cup {x}, NEW B, B \subseteq A
  PROVE  Matched(W \cup {e}, P, B, next)
BY DEF Matched

LEMMA MatchedForwards ==
  ASSUME NEW W, NEW O, NEW A, NEW next, Matched(W, O, A, next),
         \A e, f \in W : e.req = f.req => e = f,
         NEW r \in O, NEW e \in W, hashID[e.req] = r.id, ~Owns(next, r.id), e.req # NULL,
         NEW f, f.req = e.req, f.final = r.tag, NEW x, x.conn = r.tag,
         NEW P, P \subseteq O \ {r}, NEW B, B \subseteq A \cup {x}
  PROVE  Matched((W \ {e}) \cup {f}, P, B, next)
<1>1. r.tag = e.req /\ e.final = NULL /\ \A n \in O : n.id = r.id => n = r
  BY DEF Matched
<1>2. \A a \in A : a.conn # e.req
  <2> TAKE a \in A
  <2>1. PICK g \in W : g.req = a.conn /\ g.final = a.conn
    BY DEF Matched
  <2>2. QED
    BY <1>1, <2>1
<1> DEFINE V == (W \ {e}) \cup {f}
<1>3. \A g, h \in V : hashID[g.req] = hashID[h.req] /\ ~Owns(next, hashID[g.req]) => g = h
  BY DEF Matched
<1>4. \A g \in V, o \in P : o.id = hashID[g.req] =>
        o.tag = g.req /\ g.final = NULL /\ \A n \in P : n.id = o.id => n = o
  BY <1>1 DEF Matched
<1>5. \A g \in V : g.final \in {NULL, g.req}
  BY <1>1 DEF Matched
<1>6. \A m \in B : \E g \in V : g.req = m.conn /\ g.final = m.conn
  <2> TAKE m \in B
  <2>1. CASE m = x
    BY <1>1, <2>1
  <2>2. CASE m \in A
    <3>1. PICK g \in W : g.req = m.conn /\ g.final = m.conn
      BY <2>2 DEF Matched
    <3>2. g # e
      BY <1>1, <3>1
    <3>3. QED
      BY <3>1, <3>2
  <2>3. QED
    BY <2>1, <2>2
<1>7. \A m, n \in B : m.conn = n.conn => m = n
  BY <1>1, <1>2 DEF Matched
<1>8. QED
  BY <1>3, <1>4, <1>5, <1>6, <1>7 DEF Matched

LEMMA MatchedConcludes ==
  ASSUME NEW W, NEW O, NEW A, NEW next, Matched(W, O, A, next),
         NEW m \in A, NEW e \in W, e.final = m.conn,
         NEW P, P \subseteq O, NEW B, B \subseteq A \ {m}
  PROVE  Matched(W \ {e}, P, B, next)
BY DEF Matched

LEMMA RequestsKept ==
  ASSUME TypeOK, FromClients, Listed, asked \subseteq asked',
         \A n \in net' : n.type = "HASH" =>
           n \in net \/ (n.from # Client /\ Owns(n.to, hashID[n.req])),
         \A p \in Peer : /\ OneEach(infoList'[p])
                         /\ \A e \in Waiting(p)' :
                              \E f \in Waiting(p) : f.req = e.req /\ f.caller = e.caller
  PROVE  FromClients' /\ Listed'
<1>1. Listed'
  <2> SUFFICES ASSUME NEW p \in Peer
               PROVE  /\ OneEach(infoList'[p])
                      /\ \A e \in Waiting(p)' : e.req \in asked' /\ e.caller = Client
    BY DEF Listed, OneEach
  <2>1. QED
    BY DEF Listed
<1>2. FromClients'
  <2> SUFFICES ASSUME NEW m \in net', m.type = "HASH"
               PROVE  /\ m.from = Client =>
                           /\ m.conn = m.req /\ m.req \in asked'
                           /\ \A p \in Peer : \A e \in Waiting(p)' : e.req # m.req
                           /\ \A n \in net' :
                                n.type = "HASH" /\ n.from = Client /\ n.req = m.req => n = m
                      /\ m.from # Client => Owns(m.to, hashID[m.req])
    BY DEF FromClients, Owns
  <2>1. CASE m \in net
    <3>1. ASSUME m.from = Client
          PROVE  /\ m.conn = m.req /\ m.req \in asked'
                 /\ \A p \in Peer : \A e \in Waiting(p)' : e.req # m.req
                 /\ \A n \in net' : n.type = "HASH" /\ n.from = Client /\ n.req = m.req => n = m
      BY <2>1, <3>1 DEF FromClients
    <3>2. QED
      BY <2>1, <3>1 DEF FromClients
  <2>2. CASE m \notin net
    BY <2>2
  <2>3. QED
    BY <2>1, <2>2
<1>3. QED
  BY <1>1, <1>2

Lists(p, e) == infoList' = [infoList EXCEPT ![p] = Append(infoList[p], e)]

\* Of the HASHes, m is read and one may be sent to the peer in charge.
HashRead(m) ==
  \A n \in net' : n.type = "HASH" =>
    (n \in net /\ n # m) \/ (n.from # Client /\ Owns(n.to, hashID[n.req]))

LEMMA RequestsListed ==
  ASSUME TypeOK, FromClients, Listed, NEW p \in Peer, NEW m \in net, m.type = "HASH", m.to = p,
         ~Owns(p, hashID[m.req]), NEW e \in InfoEntry, e.req = m.req, e.caller = m.from,
         asked' = asked, Lists(p, e), HashRead(m)
  PROVE  /\ m.from = Client /\ m.conn = m.req /\ \A f \in Waiting(p) : f.req # m.req
         /\ \A q \in Peer : Waiting(q)' = IF q = p THEN Waiting(p) \cup {e} ELSE Waiting(q)
         /\ FromClients' /\ Listed'
<1>1. m.from = Client
  BY DEF FromClients
<1>2. m.conn = m.req /\ m.req \in asked /\ \A q \in Peer : \A f \in Waiting(q) : f.req # m.req
  BY <1>1 DEF FromClients
<1>3. infoList \in [Peer -> Seq(InfoEntry)]
  BY DEF TypeOK
<1>4. PICK t : t = Append(infoList[p], e)
  OBVIOUS
<1>5. Range(t) = Waiting(p) \cup {e} /\ OneEach(t)
  <2>1. infoList[p] \in Seq(InfoEntry) /\ OneEach(infoList[p])
    BY <1>3 DEF Listed
  <2>2. \A f \in Range(infoList[p]) : f.req # e.req
    BY <1>2 DEF Waiting
  <2>3. QED
    BY <1>4, <2>1, <2>2, ListGrows DEF Waiting
<1>6. \A q \in Peer : infoList'[q] = IF q = p THEN t ELSE infoList[q]
  BY <1>3, <1>4 DEF Lists
<1>7. \A q \in Peer : Waiting(q)' = IF q = p THEN Waiting(p) \cup {e} ELSE Waiting(q)
  <2> TAKE q \in Peer
  <2>1. CASE q = p
    <3>1. infoList'[q] = t
      BY <1>6, <2>1
    <3>2. Waiting(q)' = Range(t)
      BY <3>1 DEF Waiting
    <3>3. QED
      BY <1>5, <2>1, <3>2
  <2>2. CASE q # p
    <3>1. infoList'[q] = infoList[q]
      BY <1>6, <2>2
    <3>2. Waiting(q)' = Waiting(q)
      BY <3>1 DEF Waiting
    <3>3. QED
      BY <2>2, <3>2
  <2>3. QED
    BY <2>1, <2>2
<1>8. Listed'
  <2> SUFFICES ASSUME NEW q \in Peer
               PROVE  /\ OneEach(infoList'[q])
                      /\ \A f \in Waiting(q)' : f.req \in asked' /\ f.caller = Client
    BY DEF Listed, OneEach
  <2>1. OneEach(infoList'[q])
    BY <1>5, <1>6 DEF Listed
  <2>2. \A f \in Waiting(q)' : f.req \in asked /\ f.caller = Client
    BY <1>1, <1>2, <1>7 DEF Listed
  <2>3. QED
    BY <2>1, <2>2
<1>9. FromClients'
  <2> SUFFICES ASSUME NEW n \in net', n.type = "HASH"
               PROVE  /\ n.from = Client =>
                           /\ n.conn = n.req /\ n.req \in asked'
                           /\ \A q \in Peer : \A f \in Waiting(q)' : f.req # n.req
                           /\ \A l \in net' :
                                l.type = "HASH" /\ l.from = Client /\ l.req = n.req => l = n
                      /\ n.from # Client => Owns(n.to, hashID[n.req])
    BY DEF FromClients, Owns
  <2>1. ASSUME n.from # Client PROVE Owns(n.to, hashID[n.req])
    BY <2>1 DEF FromClients, HashRead
  <2>2. ASSUME n.from = Client
        PROVE  /\ n.conn = n.req /\ n.req \in asked'
               /\ \A q \in Peer : \A f \in Waiting(q)' : f.req # n.req
               /\ \A l \in net' : l.type = "HASH" /\ l.from = Client /\ l.req = n.req => l = n
    <3>1. n \in net /\ n # m
      BY <2>2 DEF HashRead
    <3>2. n.conn = n.req /\ n.req \in asked /\ \A q \in Peer : \A f \in Waiting(q) : f.req # n.req
      BY <2>2, <3>1 DEF FromClients
    <3>3. n.req # m.req
      BY <1>1, <2>2, <3>1 DEF FromClients
    <3>4. \A l \in net' : l.type = "HASH" /\ l.from = Client /\ l.req = n.req => l = n
      BY <2>2, <3>1 DEF FromClients, HashRead
    <3>5. \A q \in Peer : \A f \in Waiting(q)' : f.req # n.req
      BY <1>7, <3>2, <3>3
    <3>6. QED
      BY <3>2, <3>4, <3>5
  <2>3. QED
    BY <2>1, <2>2
<1>10. QED
  BY <1>1, <1>2, <1>7, <1>8, <1>9

\* What is left to show of a step.
LEMMA WInvFrom ==
  ASSUME FromClients', Listed', DownOnlyAfterClash',
         \A q \in Peer : q \notin clash' => Matched(Waiting(q)', Open(q)', Awaited(q)', nextID[q])
  PROVE  WInv'
<1>1. (Unclashed <=> \A p \in Peer \ clash : Matched(Waiting(p), Open(p), Awaited(p), nextID[p]))'
  BY UnclashedMatch, PTL
<1>2. \A p \in Peer \ clash' : Matched(Waiting(p), Open(p), Awaited(p), nextID[p])'
  BY DEF Matched, Owns
<1>3. Unclashed'
  BY <1>1, <1>2
<1>4. QED
  BY <1>3 DEF WInv

LEMMA MatchedNow ==
  ASSUME WInv, NEW p \in Peer, p \notin clash
  PROVE  Matched(Waiting(p), Open(p), Awaited(p), nextID[p])
BY UnclashedMatch DEF WInv

LEMMA MatchedStill ==
  ASSUME WInv, NEW p \in Peer, p \notin clash, infoList'[p] = infoList[p],
         Open(p)' \subseteq Open(p), Awaited(p)' \subseteq Awaited(p)
  PROVE  Matched(Waiting(p)', Open(p)', Awaited(p)', nextID[p])
<1>1. Waiting(p)' = Waiting(p)
  BY DEF Waiting
<1>2. QED
  BY <1>1, MatchedNow, MatchedFewer

LEMMA StillUp ==
  ASSUME WInv, clash \subseteq clash', status' = status
  PROVE  DownOnlyAfterClash'
BY DEF WInv, DownOnlyAfterClash

LEMMA RequestsUnlisted ==
  ASSUME TypeOK, WInv, asked \subseteq asked', infoList' = infoList,
         \A n \in net' : n.type = "HASH" =>
           n \in net \/ (n.from # Client /\ Owns(n.to, hashID[n.req]))
  PROVE  FromClients' /\ Listed'
<1>1. FromClients /\ Listed
  BY DEF WInv
<1>2. \A p \in Peer : Waiting(p)' = Waiting(p) /\ infoList'[p] = infoList[p]
  BY DEF Waiting
<1>3. \A p \in Peer : /\ OneEach(infoList'[p])
                      /\ \A e \in Waiting(p)' :
                           \E f \in Waiting(p) : f.req = e.req /\ f.caller = e.caller
  BY <1>1, <1>2 DEF Listed
<1>4. QED
  BY <1>1, <1>3, RequestsKept

LEMMA QuietStep ==
  ASSUME TypeOK, WInv, asked \subseteq asked', infoList' = infoList, clash' = clash,
         DownOnlyAfterClash',
         \A n \in net' : n \in net \/ n.type = "FINGER"
  PROVE  WInv'
<1>1. FromClients' /\ Listed'
  BY RequestsUnlisted
<1>2. ASSUME NEW q \in Peer, q \notin clash'
      PROVE  Matched(Waiting(q)', Open(q)', Awaited(q)', nextID[q])
  <2>1. Open(q)' \subseteq Open(q) /\ Awaited(q)' \subseteq Awaited(q)
    BY DEF Open, Awaited
  <2>2. QED
    BY <1>2, <2>1, MatchedStill
<1>3. QED
  BY <1>1, <1>2, WInvFrom

LEMMA SendsStep ==
  ASSUME TypeOK, WInv, NEW r \in Request, NEW q \in Peer, Sends(r, q)
  PROVE  WInv'
<1>1. PICK h : h = HashMsg(r, r, Client, q)
  OBVIOUS
<1>2. h.type = "HASH" /\ h.req = r /\ h.conn = r /\ h.from = Client /\ h.to = q /\ Client \notin Peer
  BY <1>1, Tags, HashFields
<1>3. /\ r \notin asked /\ asked' = asked \cup {r} /\ net' = net \cup {h}
      /\ infoList' = infoList /\ clash' = clash /\ status' = status
  BY <1>1 DEF Sends
<1>4. FromClients /\ Listed
  BY DEF WInv
<1>5. \A p \in Peer : Waiting(p)' = Waiting(p) /\ infoList'[p] = infoList[p]
  BY <1>3 DEF Waiting
<1>6. Listed'
  <2> SUFFICES ASSUME NEW p \in Peer
               PROVE  /\ OneEach(infoList'[p])
                      /\ \A e \in Waiting(p)' : e.req \in asked' /\ e.caller = Client
    BY DEF Listed, OneEach
  <2>1. QED
    BY <1>3, <1>4, <1>5 DEF Listed
<1>7. FromClients'
  <2> SUFFICES ASSUME NEW m \in net', m.type = "HASH"
               PROVE  /\ m.from = Client =>
                           /\ m.conn = m.req /\ m.req \in asked'
                           /\ \A p \in Peer : \A e \in Waiting(p)' : e.req # m.req
                           /\ \A n \in net' :
                                n.type = "HASH" /\ n.from = Client /\ n.req = m.req => n = m
                      /\ m.from # Client => Owns(m.to, hashID[m.req])
    BY DEF FromClients, Owns
  <2>1. CASE m = h
    <3>1. \A p \in Peer : \A e \in Waiting(p)' : e.req # r
      BY <1>3, <1>4, <1>5 DEF Listed
    <3>2. \A n \in net : n.type = "HASH" /\ n.from = Client => n.req # r
      BY <1>3, <1>4 DEF FromClients
    <3>3. QED
      BY <1>2, <1>3, <2>1, <3>1, <3>2
  <2>2. CASE m # h
    <3>1. m \in net
      BY <1>3, <2>2
    <3>2. ASSUME m.from = Client
          PROVE  /\ m.conn = m.req /\ m.req \in asked'
                 /\ \A p \in Peer : \A e \in Waiting(p)' : e.req # m.req
                 /\ \A n \in net' :
                      n.type = "HASH" /\ n.from = Client /\ n.req = m.req => n = m
      <4>1. /\ m.conn = m.req /\ m.req \in asked
            /\ \A p \in Peer : \A e \in Waiting(p) : e.req # m.req
            /\ \A n \in net : n.type = "HASH" /\ n.from = Client /\ n.req = m.req => n = m
        BY <1>4, <2>2, <3>1, <3>2 DEF FromClients
      <4>2. m.req # r
        BY <1>3, <4>1
      <4>3. QED
        BY <1>2, <1>3, <1>5, <4>1, <4>2
    <3>3. QED
      BY <1>4, <3>1, <3>2 DEF FromClients
  <2>3. QED
    BY <2>1, <2>2
<1>8. ASSUME NEW p \in Peer, p \notin clash'
      PROVE  Matched(Waiting(p)', Open(p)', Awaited(p)', nextID[p])
  <2>1. Open(p)' \subseteq Open(p) /\ Awaited(p)' \subseteq Awaited(p)
    BY <1>2, <1>3 DEF Open, Awaited
  <2>2. QED
    BY <1>3, <1>8, <2>1, MatchedStill
<1>9. DownOnlyAfterClash'
  BY <1>3, StillUp
<1>10. QED
  BY <1>6, <1>7, <1>8, <1>9, WInvFrom

LEMMA LooksForEntryStep ==
  ASSUME TypeOK, WInv, NEW p \in Peer, NEW k \in Index, NEW q \in Peer, NEW s \in ID,
         LooksForEntry(p, k, q, s)
  PROVE  WInv'
<1>1. <<socket[p], k>> \in Tag
  BY Tags DEF LooksForEntry, Entered
<1>2. PICK x : x = LookupMsg(<<socket[p], k>>, p, q, s)
  OBVIOUS
<1>3. /\ x.type = "LOOKUP" /\ x.orig = p /\ x.id = s
      /\ x.type # "HASH" /\ x.type # "REPLY" /\ x.type # "FINAL"
  BY <1>1, <1>2, LookupFields
<1>4. /\ net' = net \cup {x} /\ clash \subseteq clash'
      /\ p \in clash' \/ \A e \in Waiting(p) : hashID[e.req] # s
      /\ infoList' = infoList /\ asked' = asked /\ status' = status
  BY <1>2 DEF LooksForEntry
<1>5. FromClients' /\ Listed'
  BY <1>3, <1>4, RequestsUnlisted
<1>6. ASSUME NEW y \in Peer, y \notin clash'
      PROVE  Matched(Waiting(y)', Open(y)', Awaited(y)', nextID[y])
  <2>1. Awaited(y)' \subseteq Awaited(y) /\ infoList'[y] = infoList[y] /\ Waiting(y)' = Waiting(y)
    BY <1>3, <1>4 DEF Awaited, Waiting
  <2>2. CASE y # p
    <3>1. Open(y)' \subseteq Open(y)
      BY <1>3, <1>4, <2>2 DEF Open
    <3>2. QED
      BY <1>4, <1>6, <2>1, <3>1, MatchedStill
  <2>3. CASE y = p
    <3>1. Open(y)' \subseteq Open(y) \cup {x}
      BY <1>3, <1>4 DEF Open
    <3>2. \A e \in Waiting(y) : hashID[e.req] # x.id
      BY <1>3, <1>4, <1>6, <2>3
    <3>3. Matched(Waiting(y), Open(y), Awaited(y), nextID[y])
      BY <1>4, <1>6, MatchedNow
    <3>4. QED
      BY <2>1, <3>1, <3>2, <3>3, MatchedLookup
  <2>4. QED
    BY <2>2, <2>3
<1>7. DownOnlyAfterClash'
  BY <1>4, StillUp
<1>8. QED
  BY <1>5, <1>6, <1>7, WInvFrom

LEMMA AnswersHereStep ==
  ASSUME TypeOK, WInv, NEW p \in Peer, NEW m \in net, AnswersHere(p, m)
  PROVE  WInv'
<1>1. /\ m.type = "HASH" /\ m.conn \in Tag /\ Client \notin Peer
      /\ Answered(m, m.from, m.req, m.conn)
      /\ asked' = asked /\ infoList' = infoList /\ clash' = clash /\ status' = status
  BY MessageFields, Tags DEF AnswersHere
<1>2. PICK x : x = FinalMsg(m.conn, m.from)
  OBVIOUS
<1>3. m.from \in Peer => /\ x.type = "FINAL" /\ x.conn = m.conn /\ x.to = m.from
                         /\ x.type # "HASH" /\ x.type # "LOOKUP" /\ x.type # "REPLY"
  BY <1>1, <1>2, FinalFields
<1>4. \/ net' = net \ {m}
      \/ m.from \in Peer /\ net' = (net \ {m}) \cup {x}
  BY <1>1, <1>2 DEF Answered
<1>5. FromClients' /\ Listed'
  BY <1>1, <1>3, <1>4, RequestsUnlisted
<1>6. ASSUME NEW y \in Peer, y \notin clash'
      PROVE  Matched(Waiting(y)', Open(y)', Awaited(y)', nextID[y])
  <2>1. Open(y)' \subseteq Open(y) /\ infoList'[y] = infoList[y] /\ Waiting(y)' = Waiting(y)
    BY <1>1, <1>3, <1>4 DEF Open, Waiting
  <2>2. CASE y # m.from
    <3>1. Awaited(y)' \subseteq Awaited(y)
      BY <1>3, <1>4, <2>2 DEF Awaited
    <3>2. QED
      BY <1>1, <1>6, <2>1, <3>1, MatchedStill
  <2>3. CASE y = m.from
    <3>1. m \in Awaited(y) /\ Awaited(y)' \subseteq (Awaited(y) \ {m}) \cup {x} /\ x.conn = m.conn
      BY <1>1, <1>3, <1>4, <2>3 DEF Awaited
    <3>2. Matched(Waiting(y), Open(y), Awaited(y), nextID[y])
      BY <1>1, <1>6, MatchedNow
    <3>3. QED
      BY <2>1, <3>1, <3>2, MatchedAnswer
  <2>4. QED
    BY <2>2, <2>3
<1>7. DownOnlyAfterClash'
  BY <1>1, StillUp
<1>8. QED
  BY <1>5, <1>6, <1>7, WInvFrom

LEMMA SentOnStep ==
  ASSUME TypeOK, LInv, WInv, NEW p \in Peer, NEW m \in net, SentOn(p, m)
  PROVE  WInv'
<1>1. /\ m.type = "HASH" /\ m.to = p /\ ~Owns(p, hashID[m.req]) /\ Owns(nextID[p], hashID[m.req])
      /\ asked' = asked /\ clash' = clash /\ status' = status
  BY DEF SentOn
<1>2. /\ m.req \in Request /\ m.conn \in Tag /\ m.from \in Peer \cup {Client}
      /\ nextID[p] \in Peer /\ Client \notin Peer
  BY <1>1, MessageFields, Neighbours, Tags
<1>3. PICK x, e : x = HashMsg(m.req, m.conn, p, nextID[p]) /\ e = NewEntry(m.req, m.from, m.conn)
  OBVIOUS
<1>4. /\ x.type = "HASH" /\ x.req = m.req /\ x.conn = m.conn /\ x.from = p /\ x.to = nextID[p]
      /\ x.type # "LOOKUP" /\ x.type # "REPLY" /\ x.type # "FINAL"
  BY <1>2, <1>3, HashFields
<1>5. e \in InfoEntry /\ e.req = m.req /\ e.caller = m.from /\ e.final = m.conn
  BY <1>2, <1>3, EntryFields
<1>6. /\ net' = (net \ {m}) \cup {x}
      /\ infoList' = [infoList EXCEPT ![p] = Append(infoList[p], e)]
  BY <1>3 DEF SentOn
<1>7. HashRead(m) /\ Lists(p, e)
  BY <1>1, <1>2, <1>4, <1>6 DEF HashRead, Lists
<1>8. FromClients /\ Listed
  BY DEF WInv
<1>9. /\ m.from = Client /\ m.conn = m.req /\ \A f \in Waiting(p) : f.req # m.req
      /\ \A q \in Peer : Waiting(q)' = IF q = p THEN Waiting(p) \cup {e} ELSE Waiting(q)
      /\ FromClients' /\ Listed'
  BY <1>1, <1>5, <1>7, <1>8, RequestsListed
<1>10. ASSUME NEW y \in Peer, y \notin clash'
       PROVE  Matched(Waiting(y)', Open(y)', Awaited(y)', nextID[y])
  <2>1. Open(y)' \subseteq Open(y)
    BY <1>4, <1>6 DEF Open
  <2>2. Matched(Waiting(y), Open(y), Awaited(y), nextID[y])
    BY <1>1, <1>10, MatchedNow
  <2>3. CASE y # p
    <3>1. Awaited(y)' \subseteq Awaited(y) /\ Waiting(y)' = Waiting(y)
      BY <1>4, <1>6, <1>9, <2>3 DEF Awaited
    <3>2. QED
      BY <2>1, <2>2, <3>1, MatchedFewer
  <2>4. CASE y = p
    <3>1. Awaited(y)' \subseteq Awaited(y) \cup {x} /\ Waiting(y)' = Waiting(y) \cup {e}
      BY <1>4, <1>6, <1>9, <2>4 DEF Awaited
    <3>2. \A o \in Open(y) : ~Owns(nextID[y], o.id)
      BY DEF LInv, NotForNext
    <3>3. /\ \A f \in Waiting(y) : f.req # e.req
          /\ e.final = e.req /\ x.conn = e.req /\ Owns(nextID[y], hashID[e.req])
      BY <1>1, <1>4, <1>5, <1>9, <2>4
    <3>4. Matched(Waiting(y) \cup {e}, Open(y)', Awaited(y)', nextID[y])
      BY <2>1, <2>2, <3>1, <3>2, <3>3, MatchedSentOn
    <3>5. QED
      BY <3>1, <3>4
  <2>5. QED
    BY <2>3, <2>4
<1>11. DownOnlyAfterClash'
  BY <1>1, StillUp
<1>12. QED
  BY <1>9, <1>10, <1>11, WInvFrom

LEMMA LooksUpStep ==
  ASSUME TypeOK, WInv, NEW p \in Peer, NEW m \in net, NEW q \in Peer, NEW h \in ID,
         LooksUp(p, m, q, h)
  PROVE  WInv'
<1>1. /\ m.type = "HASH" /\ m.to = p /\ h = hashID[m.req] /\ ~Owns(p, hashID[m.req])
      /\ asked' = asked /\ clash \subseteq clash' /\ status' = status
      /\ \/ p \in clash'
         \/ /\ \A e \in Waiting(p) : hashID[e.req] # h
            /\ \A o \in Open(p) : o.id # h
  BY DEF LooksUp
<1>2. m.req \in Request /\ m.req \in Tag /\ m.from \in Peer \cup {Client}
  BY <1>1, MessageFields, Tags
<1>3. PICK x, e : x = LookupMsg(m.req, p, q, h) /\ e = NewEntry(m.req, m.from, NULL)
  OBVIOUS
<1>4. /\ x.type = "LOOKUP" /\ x.tag = m.req /\ x.orig = p /\ x.to = q /\ x.id = h
      /\ x.type # "HASH" /\ x.type # "REPLY" /\ x.type # "FINAL"
  BY <1>2, <1>3, LookupFields
<1>5. e \in InfoEntry /\ e.req = m.req /\ e.caller = m.from /\ e.final = NULL
  BY <1>2, <1>3, EntryFields
<1>6. /\ net' = (net \ {m}) \cup {x}
      /\ infoList' = [infoList EXCEPT ![p] = Append(infoList[p], e)]
  BY <1>3 DEF LooksUp
<1>7. HashRead(m) /\ Lists(p, e)
  BY <1>4, <1>6 DEF HashRead, Lists
<1>8. FromClients /\ Listed
  BY DEF WInv
<1>9. /\ \A y \in Peer : Waiting(y)' = IF y = p THEN Waiting(p) \cup {e} ELSE Waiting(y)
      /\ FromClients' /\ Listed'
  BY <1>1, <1>5, <1>7, <1>8, RequestsListed
<1>10. ASSUME NEW y \in Peer, y \notin clash'
       PROVE  Matched(Waiting(y)', Open(y)', Awaited(y)', nextID[y])
  <2>1. Awaited(y)' \subseteq Awaited(y)
    BY <1>4, <1>6 DEF Awaited
  <2>2. Matched(Waiting(y), Open(y), Awaited(y), nextID[y])
    BY <1>1, <1>10, MatchedNow
  <2>3. CASE y # p
    <3>1. Open(y)' \subseteq Open(y) /\ Waiting(y)' = Waiting(y)
      BY <1>4, <1>6, <1>9, <2>3 DEF Open
    <3>2. QED
      BY <2>1, <2>2, <3>1, MatchedFewer
  <2>4. CASE y = p
    <3>1. Open(y)' \subseteq Open(y) \cup {x} /\ Waiting(y)' = Waiting(y) \cup {e}
      BY <1>4, <1>6, <1>9, <2>4 DEF Open
    <3>2. /\ \A f \in Waiting(y) : hashID[f.req] # x.id
          /\ \A o \in Open(y) : o.id # x.id
          /\ e.final = NULL /\ x.tag = e.req /\ x.id = hashID[e.req]
      BY <1>1, <1>4, <1>5, <1>10, <2>4
    <3>3. Matched(Waiting(y) \cup {e}, Open(y)', Awaited(y)', nextID[y])
      BY <2>1, <2>2, <3>1, <3>2, MatchedLooksUp
    <3>4. QED
      BY <3>1, <3>3
  <2>5. QED
    BY <2>3, <2>4
<1>11. DownOnlyAfterClash'
  BY <1>1, StillUp
<1>12. QED
  BY <1>9, <1>10, <1>11, WInvFrom

\* A LOOKUP or its REPLY takes the place of a LOOKUP.
LEMMA LookupMovesStep ==
  ASSUME TypeOK, WInv, NEW m \in net, m.type = "LOOKUP",
         NEW x, x.type # "HASH" /\ x.type # "FINAL", x.id = m.id, x.tag = m.tag,
         x.type = "LOOKUP" => x.orig = m.orig, x.type = "REPLY" => x.to = m.orig,
         net' \subseteq (net \ {m}) \cup {x},
         asked' = asked, infoList' = infoList, clash' = clash, status' = status
  PROVE  WInv'
<1>1. FromClients' /\ Listed'
  BY RequestsUnlisted
<1>2. ASSUME NEW y \in Peer, y \notin clash'
      PROVE  Matched(Waiting(y)', Open(y)', Awaited(y)', nextID[y])
  <2>1. Awaited(y)' \subseteq Awaited(y) /\ infoList'[y] = infoList[y] /\ Waiting(y)' = Waiting(y)
    BY DEF Awaited, Waiting
  <2>2. CASE y # m.orig
    <3>1. Open(y)' \subseteq Open(y)
      BY <2>2 DEF Open
    <3>2. QED
      BY <1>2, <2>1, <3>1, MatchedStill
  <2>3. CASE y = m.orig
    <3>1. m \in Open(y) /\ Open(y)' \subseteq (Open(y) \ {m}) \cup {x}
      BY <2>3 DEF Open
    <3>2. Matched(Waiting(y), Open(y), Awaited(y), nextID[y])
      BY <1>2, MatchedNow
    <3>3. QED
      BY <2>1, <3>1, <3>2, MatchedLookupMoved
  <2>4. QED
    BY <2>2, <2>3
<1>3. DownOnlyAfterClash'
  BY StillUp
<1>4. QED
  BY <1>1, <1>2, <1>3, WInvFrom

LEMMA ResolvesStep ==
  ASSUME TypeOK, WInv, NEW p \in Peer, NEW m \in net, Resolves(p, m)
  PROVE  WInv'
<1>1. /\ m.type = "LOOKUP" /\ m.tag \in Tag /\ m.orig \in Peer /\ m.id \in ID /\ nextID[p] \in Peer
      /\ asked' = asked /\ infoList' = infoList /\ clash' = clash /\ status' = status
  BY MessageFields, Neighbours DEF Resolves
<1>2. PICK x : x = ReplyMsg(m.tag, nextID[p], m.orig, m.id)
  OBVIOUS
<1>3. x.type = "REPLY" /\ x.to = m.orig /\ x.id = m.id /\ x.tag = m.tag
  BY <1>1, <1>2, ReplyFields
<1>4. /\ x.type # "HASH" /\ x.type # "FINAL" /\ x.type # "LOOKUP"
      /\ net' \subseteq (net \ {m}) \cup {x}
  BY <1>2, <1>3 DEF Resolves
<1>5. QED
  BY <1>1, <1>3, <1>4, LookupMovesStep

LEMMA GoesOnStep ==
  ASSUME TypeOK, WInv, NEW p \in Peer, NEW m \in net, GoesOn(p, m)
  PROVE  WInv'
<1>1. /\ m.type = "LOOKUP" /\ m.tag \in Tag /\ m.orig \in Peer /\ m.id \in ID
      /\ asked' = asked /\ infoList' = infoList /\ clash' = clash /\ status' = status
  BY MessageFields DEF GoesOn
<1>2. PICK q \in Peer : net' \subseteq (net \ {m}) \cup {LookupMsg(m.tag, m.orig, q, m.id)}
  <2>1. m.orig \in Peer
    BY <1>1
  <2>2. QED
    BY <2>1 DEF GoesOn
<1>3. PICK x : x = LookupMsg(m.tag, m.orig, q, m.id)
  OBVIOUS
<1>4. x.type = "LOOKUP" /\ x.orig = m.orig /\ x.id = m.id /\ x.tag = m.tag
  BY <1>1, <1>3, LookupFields
<1>5. /\ x.type # "HASH" /\ x.type # "FINAL" /\ x.type # "REPLY"
      /\ net' \subseteq (net \ {m}) \cup {x}
  BY <1>2, <1>3, <1>4
<1>6. QED
  BY <1>1, <1>4, <1>5, LookupMovesStep

\* One entry is changed or taken out.
Relists(p, t) == infoList' = [infoList EXCEPT ![p] = t]

LEMMA RequestsRelisted ==
  ASSUME TypeOK, WInv, NEW p \in Peer, NEW t, Relists(p, t), asked' = asked, OneEach(t),
         \A e \in Range(t) : \E f \in Waiting(p) : f.req = e.req /\ f.caller = e.caller,
         \A n \in net' : n.type = "HASH" =>
           n \in net \/ (n.from # Client /\ Owns(n.to, hashID[n.req]))
  PROVE  /\ \A q \in Peer : Waiting(q)' = IF q = p THEN Range(t) ELSE Waiting(q)
         /\ FromClients' /\ Listed'
<1>1. infoList \in [Peer -> Seq(InfoEntry)] /\ FromClients /\ Listed
  BY DEF TypeOK, WInv
<1>2. \A q \in Peer : infoList'[q] = IF q = p THEN t ELSE infoList[q]
  BY <1>1 DEF Relists
<1>3. \A q \in Peer : Waiting(q)' = IF q = p THEN Range(t) ELSE Waiting(q)
  <2> TAKE q \in Peer
  <2>1. CASE q = p
    <3>1. infoList'[q] = t
      BY <1>2, <2>1
    <3>2. QED
      BY <2>1, <3>1 DEF Waiting
  <2>2. CASE q # p
    <3>1. infoList'[q] = infoList[q]
      BY <1>2, <2>2
    <3>2. QED
      BY <2>2, <3>1 DEF Waiting
  <2>3. QED
    BY <2>1, <2>2
<1>4. \A q \in Peer : /\ OneEach(infoList'[q])
                      /\ \A e \in Waiting(q)' :
                           \E f \in Waiting(q) : f.req = e.req /\ f.caller = e.caller
  <2> TAKE q \in Peer
  <2>1. OneEach(infoList'[q])
    BY <1>1, <1>2 DEF Listed
  <2>2. \A e \in Waiting(q)' : \E f \in Waiting(q) : f.req = e.req /\ f.caller = e.caller
    BY <1>3
  <2>3. QED
    BY <2>1, <2>2
<1>5. FromClients' /\ Listed'
  BY <1>1, <1>4, RequestsKept
<1>6. QED
  BY <1>3, <1>5

\* No request is listed twice.
LEMMA OneEntry ==
  ASSUME TypeOK, Listed, NEW p \in Peer
  PROVE  OneEach(infoList[p]) /\ \A e, f \in Waiting(p) : e.req = f.req => e = f
<1>1. OneEach(infoList[p])
  BY DEF Listed
<1>2. Waiting(p) = {infoList[p][i] : i \in 1..Len(infoList[p])}
  BY ListOf
<1>3. QED
  BY <1>1, <1>2 DEF OneEach

LEMMA TakesReplyStep ==
  ASSUME TypeOK, LInv, WInv, NEW p \in Peer, NEW m \in net, TakesReply(p, m)
  PROVE  WInv'
<1>1. /\ m.type = "REPLY" /\ m.to = p /\ Forwards(p, m)
      /\ asked' = asked /\ clash' = clash /\ status' = status
  BY DEF TakesReply
<1>2. /\ m.tag \in Tag /\ m.chosen \in Peer /\ m.id \in ID /\ NULL \notin Tag /\ Client \notin Peer
      /\ Owns(m.chosen, m.id)
  BY <1>1, MessageFields, Tags DEF LInv, RepliesRight
<1>3. m \in Open(p) /\ ~Owns(nextID[p], m.id)
  BY <1>1 DEF Open, LInv, NotForNext
<1>4. DownOnlyAfterClash'
  BY <1>1, StillUp
<1>5. CASE net' = net \ {m} /\ infoList' = infoList
  <2>1. asked \subseteq asked' /\ \A n \in net' : n \in net
    BY <1>1, <1>5
  <2>2. QED
    BY <1>1, <1>4, <1>5, <2>1, QuietStep
<1>6. ASSUME NEW i \in 1..Len(infoList[p]),
             hashID[infoList[p][i].req] = m.id,
             net' = (net \ {m}) \cup {HashMsg(infoList[p][i].req, m.tag, p, m.chosen)},
             infoList' = [infoList EXCEPT ![p] = [infoList[p] EXCEPT ![i].final = m.tag]]
      PROVE  WInv'
  <2>1. PICK e, x, t : /\ e = infoList[p][i] /\ x = HashMsg(infoList[p][i].req, m.tag, p, m.chosen)
                       /\ t = WithFinal(infoList[p], i, m.tag)
    OBVIOUS
  <2>2. e \in Waiting(p) /\ e.req \in Request /\ e.req \in Tag /\ hashID[e.req] = m.id
    BY <1>6, <2>1, ListOf, Tags
  <2>3. /\ x.type = "HASH" /\ x.req = e.req /\ x.conn = m.tag /\ x.from = p /\ x.to = m.chosen
        /\ x.type # "LOOKUP" /\ x.type # "REPLY" /\ x.type # "FINAL"
    BY <1>2, <2>1, <2>2, HashFields
  <2>4. net' = (net \ {m}) \cup {x} /\ Relists(p, t)
    BY <1>6, <2>1 DEF Relists, WithFinal
  <2>5. infoList[p] \in Seq(InfoEntry) /\ OneEach(infoList[p])
    BY OneEntry DEF TypeOK, WInv
  <2>6. PICK f \in InfoEntry : /\ f.req = e.req /\ f.caller = e.caller /\ f.final = m.tag
                               /\ OneEach(t) /\ Range(t) = (Waiting(p) \ {e}) \cup {f}
    BY <1>2, <2>1, <2>5, ListForwards DEF Waiting
  <2>7. \A g \in Range(t) : \E h \in Waiting(p) : h.req = g.req /\ h.caller = g.caller
    BY <2>2, <2>6
  <2>8. \A n \in net' : n.type = "HASH" => n \in net \/ (n.from # Client /\ Owns(n.to, hashID[n.req]))
    BY <1>2, <2>2, <2>3, <2>4
  <2>9. /\ \A q \in Peer : Waiting(q)' = IF q = p THEN Range(t) ELSE Waiting(q)
        /\ FromClients' /\ Listed'
    BY <1>1, <2>4, <2>6, <2>7, <2>8, RequestsRelisted
  <2>10. ASSUME NEW y \in Peer, y \notin clash'
         PROVE  Matched(Waiting(y)', Open(y)', Awaited(y)', nextID[y])
    <3>1. Matched(Waiting(y), Open(y), Awaited(y), nextID[y])
      BY <1>1, <2>10, MatchedNow
    <3>2. CASE y # p
      <4>1. /\ Open(y)' \subseteq Open(y) /\ Awaited(y)' \subseteq Awaited(y)
            /\ Waiting(y)' = Waiting(y)
        BY <2>3, <2>4, <2>9, <3>2 DEF Open, Awaited
      <4>2. QED
        BY <3>1, <4>1, MatchedFewer
    <3>3. CASE y = p
      <4>1. /\ Open(p)' \subseteq Open(p) \ {m} /\ Awaited(p)' \subseteq Awaited(p) \cup {x}
            /\ Waiting(p)' = (Waiting(p) \ {e}) \cup {f}
        BY <2>3, <2>4, <2>6, <2>9 DEF Open, Awaited
      <4>2. \A g, h \in Waiting(p) : g.req = h.req => g = h
        BY OneEntry DEF WInv
      <4>3. e.req # NULL
        BY <1>2, <2>2
      <4>4. Matched(Waiting(p), Open(p), Awaited(p), nextID[p])
        BY <3>1, <3>3
      <4>5. Matched((Waiting(p) \ {e}) \cup {f}, Open(p)', Awaited(p)', nextID[p])
        BY <1>3, <2>2, <2>3, <2>6, <4>1, <4>2, <4>3, <4>4, MatchedForwards
      <4>6. QED
        BY <3>3, <4>1, <4>5
    <3>4. QED
      BY <3>2, <3>3
  <2>11. QED
    BY <1>4, <2>9, <2>10, WInvFrom
<1>7. QED
  BY <1>1, <1>5, <1>6 DEF Forwards

LEMMA ConcludesStep ==
  ASSUME TypeOK, WInv, NEW p \in Peer, NEW m \in net, Concludes(p, m)
  PROVE  WInv'
<1>1. m.type = "FINAL" /\ m.to = p /\ asked' = asked /\ clash' = clash
  BY DEF Concludes
<1>2. m \in Awaited(p)
  BY <1>1 DEF Awaited
<1>3. ASSUME NEW i \in 1..Len(infoList[p]),
             infoList[p][i].final = m.conn,
             Answered(m, infoList[p][i].caller, infoList[p][i].req, infoList[p][i].req),
             infoList' = [infoList EXCEPT ![p] = RemoveAt(infoList[p], i)],
             UNCHANGED status
      PROVE  WInv'
  <2>1. PICK e, t : e = infoList[p][i] /\ t = RemoveAt(infoList[p], i)
    OBVIOUS
  <2>2. e \in Waiting(p) /\ e.final = m.conn
    BY <1>3, <2>1, ListOf
  <2>3. e.caller = Client /\ Client \notin Peer
    BY <2>2, Tags DEF WInv, Listed
  <2>4. net' = net \ {m}
    BY <1>3, <2>1, <2>3 DEF Answered
  <2>5. Relists(p, t)
    BY <1>3, <2>1 DEF Relists
  <2>6. infoList[p] \in Seq(InfoEntry) /\ OneEach(infoList[p])
    BY OneEntry DEF TypeOK, WInv
  <2>7. OneEach(t) /\ Range(t) = Waiting(p) \ {e}
    BY <2>1, <2>6, ListShrinks DEF Waiting
  <2>8. \A g \in Range(t) : \E h \in Waiting(p) : h.req = g.req /\ h.caller = g.caller
    BY <2>7
  <2>9. \A n \in net' : n.type = "HASH" => n \in net \/ (n.from # Client /\ Owns(n.to, hashID[n.req]))
    BY <2>4
  <2>10. /\ \A q \in Peer : Waiting(q)' = IF q = p THEN Range(t) ELSE Waiting(q)
         /\ FromClients' /\ Listed'
    BY <1>1, <2>5, <2>7, <2>8, <2>9, RequestsRelisted
  <2>11. ASSUME NEW y \in Peer, y \notin clash'
         PROVE  Matched(Waiting(y)', Open(y)', Awaited(y)', nextID[y])
    <3>1. Matched(Waiting(y), Open(y), Awaited(y), nextID[y])
      BY <1>1, <2>11, MatchedNow
    <3>2. Open(y)' \subseteq Open(y) /\ Awaited(y)' \subseteq Awaited(y) \ {m}
      BY <2>4 DEF Open, Awaited
    <3>3. CASE y # p
      <4>1. Waiting(y)' = Waiting(y) /\ Awaited(y)' \subseteq Awaited(y)
        BY <2>10, <3>2, <3>3
      <4>2. QED
        BY <3>1, <3>2, <4>1, MatchedFewer
    <3>4. CASE y = p
      <4>1. Waiting(y)' = Waiting(y) \ {e}
        BY <2>7, <2>10, <3>4
      <4>2. m \in Awaited(y) /\ e \in Waiting(y)
        BY <1>2, <2>2, <3>4
      <4>3. Matched(Waiting(y) \ {e}, Open(y)', Awaited(y)', nextID[y])
        BY <2>2, <3>1, <3>2, <4>2, MatchedConcludes
      <4>4. QED
        BY <4>1, <4>3
    <3>5. QED
      BY <3>3, <3>4
  <2>12. DownOnlyAfterClash'
    BY <1>1, <1>3, StillUp
  <2>13. QED
    BY <2>10, <2>11, <2>12, WInvFrom
<1>4. ASSUME \A e \in Waiting(p) : e.final # m.conn,
             status' = [status EXCEPT ![p] = "down"], net' = net \ {m}, infoList' = infoList
      PROVE  WInv'
  <2>1. p \in clash
    <3>1. SUFFICES ASSUME p \notin clash PROVE FALSE
      OBVIOUS
    <3>2. Matched(Waiting(p), Open(p), Awaited(p), nextID[p])
      BY <3>1, MatchedNow
    <3>3. QED
      BY <1>2, <1>4, <3>2 DEF Matched
  <2>2. DownOnlyAfterClash'
    BY <1>1, <1>4, <2>1 DEF WInv, DownOnlyAfterClash, TypeOK
  <2>3. asked \subseteq asked' /\ \A n \in net' : n \in net
    BY <1>1, <1>4
  <2>4. QED
    BY <1>1, <1>4, <2>2, <2>3, QuietStep
<1>5. QED
  BY <1>3, <1>4 DEF Concludes

\* The ID after a peer's own belongs to its successor, or is the smallest.
LEMMA StartsAtNext ==
  ASSUME NEW p \in Peer, NEW h \in ID, h # Lowest,
         h = IF p + 1 < constant THEN p + 1 ELSE p + 1 - constant
  PROVE  Owns(nextID[p], h)
<1>1. /\ p \in Nat /\ constant \in Nat /\ p < constant /\ h \in Nat
      /\ nextID[p] \in Peer /\ nextID[p] \in Nat /\ prevID[nextID[p]] = p
      /\ \A q \in Peer : q \in Nat /\ q < constant
  <2>1. h \in Nat /\ constant \in Nat /\ \A q \in Peer : q \in Nat /\ q < constant
    BY SizeOfRing
  <2>2. nextID[p] \in Peer /\ prevID[nextID[p]] = p
    BY Neighbours
  <2>3. QED
    BY <2>1, <2>2
<1>2. CASE p < nextID[p]
  <2>1. p + 1 < constant
    BY <1>1, <1>2
  <2>2. QED
    BY <1>1, <1>2, <2>1 DEF Owns
<1>3. CASE p > nextID[p]
  <2>1. nextID[p] = Lowest
    <3>1. \A q \in Peer : q >= nextID[p]
      BY <1>1, <1>3, Neighbours
    <3>2. Lowest \in Peer /\ Lowest <= nextID[p] /\ Lowest \in Nat
      BY <1>1, LowestPeer
    <3>3. QED
      BY <1>1, <3>1, <3>2
  <2>2. h > p \/ h < nextID[p] \/ h = nextID[p]
    BY <1>1, <1>3
  <2>3. QED
    BY <1>1, <1>3, <2>1, <2>2 DEF Owns
<1>4. QED
  BY <1>2, <1>3, Neighbours

-----------------------------------------------------------------------------
(* All of the invariant.                                                   *)

LEMMA WaitingStep ==
  ASSUME TypeOK, LInv, WInv, Effect
  PROVE  WInv'
<1>1. ASSUME NEW r \in Request, NEW q \in Peer, Sends(r, q) PROVE WInv'
  BY <1>1, SendsStep
<1>2. ASSUME NEW n \in Finger, NEW q \in Peer, AsksForTable(n, q) PROVE WInv'
  <2>1. FingerMsg(n, q).type = "FINGER"
    BY FingerFields
  <2>2. /\ asked \subseteq asked' /\ infoList' = infoList /\ clash' = clash /\ status' = status
        /\ \A l \in net' : l \in net \/ l.type = "FINGER"
    BY <1>2, <2>1 DEF AsksForTable
  <2>3. DownOnlyAfterClash'
    BY <2>2, StillUp
  <2>4. QED
    BY <2>2, <2>3, QuietStep
<1>3. ASSUME NEW p \in Peer, Hangs(p) PROVE WInv'
  <2>1. /\ asked' = asked /\ infoList' = infoList /\ clash' = clash /\ net' = net
        /\ status' = [status EXCEPT ![p] = "hung"]
    BY <1>3 DEF Hangs
  <2>2. DownOnlyAfterClash'
    BY <2>1 DEF WInv, DownOnlyAfterClash, TypeOK
  <2>3. QED
    BY <2>1, <2>2, QuietStep
<1>4. ASSUME NEW p \in Peer, NEW k \in Index, EntersNext(p, k) PROVE WInv'
  <2>1. /\ asked' = asked /\ infoList' = infoList /\ clash' = clash /\ net' = net
        /\ status' = status
    BY <1>4 DEF EntersNext
  <2>2. DownOnlyAfterClash'
    BY <2>1, StillUp
  <2>3. QED
    BY <2>1, <2>2, QuietStep
<1>5. ASSUME NEW p \in Peer, NEW k \in Index, NEW q \in Peer, NEW s \in ID, LooksForEntry(p, k, q, s)
      PROVE  WInv'
  BY <1>5, LooksForEntryStep
<1>6. ASSUME NEW p \in Peer, NEW m \in net, AnswersHere(p, m) PROVE WInv'
  BY <1>6, AnswersHereStep
<1>7. ASSUME NEW p \in Peer, NEW m \in net, SentOn(p, m) PROVE WInv'
  BY <1>7, SentOnStep
<1>8. ASSUME NEW p \in Peer, NEW m \in net, NEW q \in Peer, NEW h \in ID, LooksUp(p, m, q, h)
      PROVE  WInv'
  BY <1>8, LooksUpStep
<1>9. ASSUME NEW p \in Peer, NEW m \in net, Resolves(p, m) PROVE WInv'
  BY <1>9, ResolvesStep
<1>10. ASSUME NEW p \in Peer, NEW m \in net, GoesOn(p, m) PROVE WInv'
  BY <1>10, GoesOnStep
<1>11. ASSUME NEW p \in Peer, NEW m \in net, TakesReply(p, m) PROVE WInv'
  BY <1>11, TakesReplyStep
<1>12. ASSUME NEW p \in Peer, NEW m \in net, Concludes(p, m) PROVE WInv'
  BY <1>12, ConcludesStep
<1>13. ASSUME NEW p \in Peer, NEW m \in net, StartsTable(p, m) PROVE WInv'
  <2>1. /\ asked' = asked /\ infoList' = infoList /\ clash' = clash /\ status' = status
        /\ \A l \in net' : l \in net
    BY <1>13 DEF StartsTable
  <2>2. DownOnlyAfterClash'
    BY <2>1, StillUp
  <2>3. QED
    BY <2>1, <2>2, QuietStep
<1>14. QED
  BY <1>1, <1>2, <1>3, <1>4, <1>5, <1>6, <1>7, <1>8, <1>9, <1>10, <1>11, <1>12, <1>13 DEF Effect

LEMMA InitInv == Init => IInv
<1> SUFFICES ASSUME Init PROVE IInv
  OBVIOUS
<1>1. /\ Bits \in Nat \ {0} /\ Index = 0..(Bits - 1) /\ 0 \in Index /\ MaxFingers \in Nat
      /\ 0 \in 0..MaxFingers /\ -1 \in (-1)..(Bits - 1)
  BY SizeOfRing, SizeAssumption DEF Index
<1>2. infoList \in [Peer -> Seq(InfoEntry)] /\ \A p \in Peer : infoList[p] = <<>> /\ Waiting(p) = {}
  <2>1. infoList = [p \in Peer |-> <<>>]
    BY DEF Init
  <2>2. <<>> \in Seq(InfoEntry) /\ DOMAIN <<>> = {}
    BY EmptySeq
  <2>3. QED
    BY <2>1, <2>2 DEF Waiting, Range
<1>3. TypeOK
  BY <1>1, <1>2 DEF Init, TypeOK
<1>4. Builds
  BY DEF Init, Builds
<1>5. Owned
  BY <1>1 DEF Init, Owned
<1>6. FilledFromBelow
  <2>1. \A i \in 0..((-1) - 1) : FALSE
    OBVIOUS
  <2>2. \A p \in Peer : tableCounter[p] = -1 /\ ~complete[p]
    BY DEF Init
  <2>3. QED
    BY <2>1, <2>2 DEF FilledFromBelow
<1>7. LInv
  <2>1. net = {}
    BY DEF Init
  <2>2. QED
    BY <1>3, <2>1, AllSound
<1>8. FromClients /\ Listed
  <2>1. net = {}
    BY DEF Init
  <2>2. \A p \in Peer : OneEach(infoList[p])
    <3>1. Len(<<>>) = 0 /\ \A i \in 1..0 : FALSE
      OBVIOUS
    <3>2. QED
      BY <1>2, <3>1 DEF OneEach
  <2>3. QED
    BY <1>2, <2>1, <2>2 DEF FromClients, Listed
<1>9. Unclashed
  <2>1. \A p \in Peer : Waiting(p) = {} /\ Open(p) = {} /\ Awaited(p) = {}
    BY <1>2 DEF Init, Open, Awaited
  <2>2. \A p \in Peer : Matched({}, {}, {}, nextID[p])
    BY DEF Matched
  <2>3. QED
    BY <2>1, <2>2, UnclashedMatch
<1>10. DownOnlyAfterClash
  BY DEF Init, DownOnlyAfterClash
<1>11. QED
  BY <1>3, <1>4, <1>5, <1>6, <1>7, <1>8, <1>9, <1>10 DEF IInv, TInv, WInv

LEMMA Inductive == IInv /\ [Next]_vars => IInv'
<1> SUFFICES ASSUME IInv, [Next]_vars PROVE IInv'
  OBVIOUS
<1>1. TInv /\ LInv /\ WInv /\ TypeOK
  BY DEF IInv, TInv
<1>2. CASE Next
  <2>1. Effect
    BY <1>1, <1>2, StepsDo
  <2>2. Tables' /\ OtherTypes'
    BY <1>1, <2>1, TablesStep, OthersStep DEF LInv
  <2>3. TInv'
    <3>1. (TInv <=> Tables /\ OtherTypes)'
      BY Parts, PTL
    <3>2. QED
      BY <2>2, <3>1
  <2>4. TypeOK'
    BY <2>3 DEF TInv
  <2>5. LInv'
    BY <1>1, <2>1, <2>4, LookupsStep
  <2>6. WInv'
    BY <1>1, <2>1, WaitingStep
  <2>7. QED
    BY <2>3, <2>5, <2>6 DEF IInv
<1>3. CASE UNCHANGED vars
  <2>1. UNCHANGED table /\ UNCHANGED <<replaced, infoList, net, asked, answered, status, clash>>
    BY <1>3 DEF vars
  <2>2. Tables'
    BY <1>1, <2>1, TablesKept
  <2>3. OtherTypes'
    BY <1>1, <2>1, Parts DEF OtherTypes
  <2>4. TInv'
    <3>1. (TInv <=> Tables /\ OtherTypes)'
      BY Parts, PTL
    <3>2. QED
      BY <2>2, <2>3, <3>1
  <2>5. LInv'
    BY <1>1, <2>1 DEF LInv, RepliesRight, LookupsAhead, NotForNext, Open, Owns
  <2>6. WInv'
    <3>1. asked \subseteq asked' /\ \A l \in net' : l \in net
      BY <2>1
    <3>2. clash \subseteq clash' /\ infoList' = infoList /\ clash' = clash /\ status' = status
      BY <2>1
    <3>3. DownOnlyAfterClash'
      BY <1>1, <3>2, StillUp
    <3>4. QED
      BY <1>1, <3>1, <3>2, <3>3, QuietStep
  <2>7. QED
    BY <2>4, <2>5, <2>6 DEF IInv
<1>4. QED
  BY <1>2, <1>3

THEOREM Invariance == Spec => []IInv
<1>1. Init => IInv
  BY InitInv
<1>2. IInv /\ [Next]_vars => IInv'
  BY Inductive
<1>3. QED
  BY <1>1, <1>2, PTL DEF Spec

\* Every entry names the peer in charge of the ID it starts at, and no lookup
\* in a table reads an empty one, in every ring and with every interleaving of
\* builds, replaced FINGERs, late REPLYs and clients' requests.
THEOREM TablesAreRight == Spec => []TablesRight
<1>1. IInv => TablesRight
  <2> SUFFICES ASSUME IInv PROVE TablesRight
    OBVIOUS
  <2>1. TInv /\ TypeOK /\ FilledFromBelow
    BY DEF IInv, TInv
  <2>2. ASSUME NEW p \in Peer, NEW k \in Index, ft_Elem[p][k] # NULL, Start(p, k) # Lowest
        PROVE  Check(ft_Elem[p][k], Start(p, k)) = thisPeer
    <3>1. PICK q : q = ft_Elem[p][k]
      OBVIOUS
    <3>2. q \in Peer /\ Start(p, k) \in ID
      <4>1. ft_Elem[p][k] \in Peer \cup {NULL}
        BY <2>1, TableParts
      <4>2. QED
        BY <2>2, <3>1, <4>1, Starts
    <3>3. Owns(q, Start(p, k))
      <4>1. CASE k # 0
        BY <2>1, <2>2, <3>1, <4>1, TableParts
      <4>2. CASE k = 0
        <5>1. q = nextID[p]
          BY <2>1, <2>2, <3>1, <4>2, TableParts
        <5>2. exponential_of_two[0] = 1
          BY PowersOfTwo
        <5>3. Start(p, k) = IF p + 1 < constant THEN p + 1 ELSE p + 1 - constant
          BY <4>2, <5>2, Starts
        <5>4. QED
          BY <2>2, <3>2, <5>1, <5>3, StartsAtNext
      <4>3. QED
        BY <4>1, <4>2
    <3>4. QED
      BY <3>1, <3>2, <3>3, CheckIs
  <2>3. EntriesRight
    BY <2>2 DEF EntriesRight
  <2>4. QED
    BY <2>1, <2>3 DEF TablesRight
<1>2. QED
  BY <1>1, Invariance, PTL

\* Whoever a LOOKUP has been sent to lies before the peer in charge of its ID,
\* if there is one, so that peer is never asked and drops nothing.
THEOREM LookupsNeverOvershoot == Spec => []NeverOvershoots
<1>1. IInv => NeverOvershoots
  <2> SUFFICES ASSUME IInv, NEW m \in net, m.type = "LOOKUP", m.id # Lowest
               PROVE  Between(m.orig, m.to, m.id) /\ Check(m.to, m.id) # thisPeer
    BY DEF NeverOvershoots
  <2>1. Between(m.orig, m.to, m.id)
    BY DEF IInv, LInv, LookupsAhead
  <2>2. m.orig \in Peer /\ m.to \in Peer /\ m.id \in ID
    BY MessageFields DEF IInv, TInv
  <2>3. QED
    BY <2>1, <2>2, BetweenNotOwner, CheckIs
<1>2. QED
  BY <1>1, Invariance, PTL

\* Nothing but two answers for one ID brings a peer down: without a clash every
\* answer finds the entry it is for.
THEOREM DownOnlyByClash == Spec => []DownOnlyAfterClash
<1>1. IInv => DownOnlyAfterClash
  BY DEF IInv, WInv
<1>2. QED
  BY <1>1, Invariance, PTL
=============================================================================
