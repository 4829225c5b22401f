-------------------------------- MODULE UTHash --------------------------------
(***************************************************************************)
(* The part of uthash.h that hashing.c uses, as operators on a record: the *)
(* handles linked twice, in the order they were added (prev, next) and per *)
(* bucket (hh_prev, hh_next), the buckets with their counters, and the     *)
(* doubling of the buckets.  A handle and its element are one here, tbl is *)
(* the record itself, and NULL as its head is a table without elements.    *)
(***************************************************************************)
EXTENDS Integers, SequencesExt

CONSTANTS Elem,      \* addresses of elements
          Ptr,       \* values of hashKey, the pointer that serves as the key
          hashv,     \* HASH_JEN of each pointer
          NULL,
          HASH_INITIAL_NUM_BUCKETS,
          HASH_BKT_CAPACITY_THRESH

ASSUME HashAssumption ==
  /\ IsFiniteSet(Elem) /\ hashv \in [Ptr -> Nat] /\ NULL \notin Elem \cup Ptr
  /\ HASH_INITIAL_NUM_BUCKETS \in Nat \ {0}
  /\ HASH_BKT_CAPACITY_THRESH \in Nat \ {0}

Unlinked == [e \in Elem |-> NULL]
EmptyBuckets(n) == [b \in 0..(n - 1) |-> [hh_head |-> NULL, count |-> 0, expand_mult |-> 0]]

NoTable ==
  [head |-> NULL, tail |-> NULL, next |-> Unlinked, prev |-> Unlinked,
   hh_next |-> Unlinked, hh_prev |-> Unlinked, key |-> Unlinked,
   num_items |-> 0, num_buckets |-> 0, buckets |-> EmptyBuckets(0),
   ideal_chain_maxlen |-> 0, nonideal_items |-> 0, ineff_expands |-> 0,
   noexpand |-> FALSE]

\* What one sees following the links f from e, cut off where a right list ends.
Follow(f, e) ==
  LET link == [x \in Elem \cup {NULL} |-> IF x = NULL THEN NULL ELSE f[x]]
      place[i \in 1..Cardinality(Elem) + 1] == IF i = 1 THEN e ELSE link[place[i - 1]]
  IN [i \in 1..Cardinality({j \in DOMAIN place : place[j] # NULL}) |-> place[i]]

Chain(t, b) == Follow(t.hh_next, t.buckets[b].hh_head)
AppOrder(t) == Follow(t.next, t.head)
InTable(t) == ToSet(AppOrder(t))

HASH_TO_BKT(h, n) == h % n

-----------------------------------------------------------------------------
\* A new table that holds e alone.
HASH_MAKE_TABLE(e) ==
  [NoTable EXCEPT !.head = e, !.tail = e, !.num_buckets = HASH_INITIAL_NUM_BUCKETS,
                  !.buckets = EmptyBuckets(HASH_INITIAL_NUM_BUCKETS)]

HASH_APPEND_LIST(t, e) ==
  [t EXCEPT !.next = [@ EXCEPT ![e] = NULL, ![t.tail] = e],
            !.prev[e] = t.tail, !.tail = e]

\* The links of a handle put in front of the bucket bkt.
PushFront(t, e, bkt) ==
  [t EXCEPT !.hh_next[e] = bkt.hh_head,
            !.hh_prev = [x \in Elem |-> CASE x = e -> NULL
                                          [] x # e /\ x = bkt.hh_head -> e
                                          [] OTHER -> @[x]]]

\* One handle moves to its bucket among twice as many, which counts those
\* beyond the ideal length.
Rehash(t, e) ==
  LET b == HASH_TO_BKT(hashv[t.key[e]], t.num_buckets)
      bkt == t.buckets[b]
      n == bkt.count + 1
      over == n > t.ideal_chain_maxlen
  IN [PushFront(t, e, bkt) EXCEPT
        !.buckets[b] = [hh_head |-> e, count |-> n,
           expand_mult |-> IF over /\ n > bkt.expand_mult * t.ideal_chain_maxlen
                             THEN bkt.expand_mult + 1 ELSE bkt.expand_mult],
        !.nonideal_items = IF over THEN @ + 1 ELSE @]

\* Twice the buckets, refilled chain by chain; after two doublings that left
\* more than half of the elements beyond the ideal length there is no third.
HASH_EXPAND_BUCKETS(t) ==
  LET n2 == 2 * t.num_buckets
      moving == FlattenSeq([i \in 1..t.num_buckets |-> Chain(t, i - 1)])
      emptied == [t EXCEPT !.num_buckets = n2, !.buckets = EmptyBuckets(n2),
                           !.ideal_chain_maxlen = (t.num_items + n2 - 1) \div n2,
                           !.nonideal_items = 0]
      after[i \in 0..Len(moving)] ==
        IF i = 0 THEN emptied ELSE Rehash(after[i - 1], moving[i])
      spread == after[Len(moving)]
      ineff == IF spread.nonideal_items > t.num_items \div 2
                 THEN t.ineff_expands + 1 ELSE 0
  IN [spread EXCEPT !.ineff_expands = ineff, !.noexpand = @ \/ ineff > 1]

HASH_ADD_TO_BKT(t, e, b) ==
  LET bkt == t.buckets[b]
      added == [PushFront(t, e, bkt) EXCEPT !.buckets[b].count = bkt.count + 1,
                                            !.buckets[b].hh_head = e]
  IN IF /\ bkt.count + 1 >= (bkt.expand_mult + 1) * HASH_BKT_CAPACITY_THRESH
        /\ ~t.noexpand
       THEN HASH_EXPAND_BUCKETS(added) ELSE added

HASH_ADD_PTR(t, e, p) ==
  LET listed == IF t.head = NULL THEN HASH_MAKE_TABLE(e) ELSE HASH_APPEND_LIST(t, e)
      keyed == [listed EXCEPT !.key[e] = p, !.num_items = @ + 1]
  IN HASH_ADD_TO_BKT(keyed, e, HASH_TO_BKT(hashv[p], keyed.num_buckets))

-----------------------------------------------------------------------------
\* The first element of the bucket's chain with that key, or NULL.
HASH_FIND_PTR(t, p) ==
  IF t.head = NULL THEN NULL
  ELSE LET chain == Chain(t, HASH_TO_BKT(hashv[p], t.num_buckets))
           i == SelectInSeq(chain, LAMBDA e : t.key[e] = p)
       IN IF i = 0 THEN NULL ELSE chain[i]

\* The link f of x set to y, if x is an element.
Patch(f, x, y) == [z \in Elem |-> IF z = x THEN y ELSE f[z]]

\* A slip: the chain loses the handle only where it is not the head.
HASH_DEL_IN_BKT_NoHead(t, b, e) ==
  [t EXCEPT !.buckets[b].count = @ - 1,
            !.hh_next = Patch(@, t.hh_prev[e], t.hh_next[e]),
            !.hh_prev = Patch(@, t.hh_next[e], t.hh_prev[e])]

HASH_DEL_IN_BKT(t, b, e) ==
  [t EXCEPT !.buckets[b].count = @ - 1,
            !.buckets[b].hh_head = IF @ = e THEN t.hh_next[e] ELSE @,
            !.hh_next = Patch(@, t.hh_prev[e], t.hh_next[e]),
            !.hh_prev = Patch(@, t.hh_next[e], t.hh_prev[e])]

\* What the links of e, now free, hold is of no concern.
Forget(t, e) ==
  [t EXCEPT !.next[e] = NULL, !.prev[e] = NULL, !.hh_next[e] = NULL,
            !.hh_prev[e] = NULL, !.key[e] = NULL]

HASH_DEL(t, e) ==
  IF t.prev[e] = NULL /\ t.next[e] = NULL THEN NoTable
  ELSE LET unlisted == [t EXCEPT
                 !.tail = IF t.tail = e THEN t.prev[e] ELSE @,
                 !.head = IF t.prev[e] = NULL THEN t.next[e] ELSE @,
                 !.next = Patch(@, t.prev[e], t.next[e]),
                 !.prev = Patch(@, t.next[e], t.prev[e]),
                 !.num_items = @ - 1]
           b == HASH_TO_BKT(hashv[t.key[e]], t.num_buckets)
       IN Forget(HASH_DEL_IN_BKT(unlisted, b, e), e)

-----------------------------------------------------------------------------
\* HASH_FSCK, part by part: what uthash itself tests after each call when it
\* is compiled for debugging.
LinkedBothWays(f, g, s) ==
  \A i \in DOMAIN s : g[s[i]] = IF i = 1 THEN NULL ELSE s[i - 1]

\* The items the buckets count.
Counted(t) ==
  LET sum[n \in 0..t.num_buckets] ==
        IF n = 0 THEN 0 ELSE sum[n - 1] + t.buckets[n - 1].count
  IN sum[t.num_buckets]

HASH_FSCK(t) ==
  t.head # NULL =>
    /\ \A b \in DOMAIN t.buckets :
         /\ LinkedBothWays(t.hh_next, t.hh_prev, Chain(t, b))
         /\ Len(Chain(t, b)) = t.buckets[b].count
    /\ Counted(t) = t.num_items
    /\ LinkedBothWays(t.next, t.prev, AppOrder(t))
    /\ Len(AppOrder(t)) = t.num_items
    /\ t.tail = Last(AppOrder(t))
=============================================================================
