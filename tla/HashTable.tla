------------------------------ MODULE HashTable ------------------------------
(***************************************************************************)
(* peerHashing over set, get and delete of hashing.c.  The table is keyed  *)
(* by pointers: keyProcessing looks for a stored key with the same bytes   *)
(* and takes its address, or copies the key to a fresh one.  Memory that   *)
(* nothing points to any more is never given back; since it can never be   *)
(* told apart either, a fresh address is any that is not in use.           *)
(***************************************************************************)
EXTENDS UTHash, TableOps

\* What stands for "no value" in an answer is not a value.
ASSUME NoneAssumption == None \notin Value

VARIABLES hTab,      \* the table
          keyAt,     \* the bytes a hashKey points to
          valueOf,   \* hashValue of each element
          response   \* what peerHashing made of the last request
vars == <<hTab, keyAt, valueOf, response>>

LiveElem == InTable(hTab)
LivePtr == {hTab.key[e] : e \in LiveElem}

TypeOK == /\ hTab.head \in Elem \cup {NULL} /\ hTab.tail \in Elem \cup {NULL}
          /\ hTab.num_items \in 0..Cardinality(Elem)
          /\ keyAt \in [Ptr -> Key \cup {None}]
          /\ valueOf \in [Elem -> Value \cup {None}]
          /\ response \in Response \cup {None}

Init == /\ hTab = NoTable
        /\ keyAt = [p \in Ptr |-> None]
        /\ valueOf = [e \in Elem |-> None]
        /\ response = None

-----------------------------------------------------------------------------
\* A slip: the key is always copied.
keyProcessingCopy(k) == Ptr \ LivePtr

\* The address of k's bytes: that of the first element with the same bytes in
\* the order of insertion, or a fresh one.
keyProcessing(k) ==
  LET i == SelectInSeq(AppOrder(hTab), LAMBDA e : keyAt[hTab.key[e]] = k)
  IN IF i = 0 THEN Ptr \ LivePtr ELSE {hTab.key[AppOrder(hTab)[i]]}

\* set once the key is found at e or e is fresh: what is there goes first.
setAt(t, e, p) ==
  HASH_ADD_PTR(IF HASH_FIND_PTR(t, p) = NULL THEN t ELSE HASH_DEL(t, e), e, p)

\* Bytes and values of what is no longer in the table are forgotten.
Keep(t, at, val) ==
  /\ hTab' = t
  /\ keyAt' = [p \in Ptr |-> IF \E e \in InTable(t) : t.key[e] = p THEN at[p] ELSE None]
  /\ valueOf' = [e \in Elem |-> IF e \in InTable(t) THEN val[e] ELSE None]

set(k, v) ==
  \E p \in keyProcessing(k) :
    \E e \in IF HASH_FIND_PTR(hTab, p) = NULL THEN Elem \ LiveElem
                                              ELSE {HASH_FIND_PTR(hTab, p)} :
      Keep(setAt(hTab, e, p), [keyAt EXCEPT ![p] = k], [valueOf EXCEPT ![e] = v])

delete(k) ==
  \E p \in keyProcessing(k) :
    LET e == HASH_FIND_PTR(hTab, p) IN
    Keep(IF e = NULL THEN hTab ELSE HASH_DEL(hTab, e), keyAt, valueOf)

\* The element get returns, for the address keyProcessing chose.
get(p) == HASH_FIND_PTR(hTab, p)

-----------------------------------------------------------------------------
Acknowledge(op) == [op |-> op, key |-> None, val |-> None]

peerSet(c) == /\ c.op = "SET" /\ set(c.key, c.val)
              /\ response' = Acknowledge("SET")

\* Key and value of the response are those of the element found.
peerGet(c) ==
  /\ c.op = "GET"
  /\ \E p \in keyProcessing(c.key) :
       LET e == get(p) IN
       response' = IF e = NULL THEN Acknowledge("GET")
                   ELSE [op |-> "GET", key |-> keyAt[hTab.key[e]], val |-> valueOf[e]]
  /\ UNCHANGED <<hTab, keyAt, valueOf>>

peerDelete(c) == /\ c.op = "DEL" /\ delete(c.key)
                 /\ response' = Acknowledge("DEL")

peerHashing(c) == peerSet(c) \/ peerGet(c) \/ peerDelete(c)

Next == \E c \in Call : peerHashing(c)

Spec == Init /\ [][Next]_vars

-----------------------------------------------------------------------------
\* Unless doubling was given up, a chain that has reached its threshold is one
\* the last doubling left that long, and within its multiple of the ideal length:
\* "a longer yet-still-bounded value" (uthash.h:1174).
ChainBounded ==
  hTab.noexpand \/ \A b \in DOMAIN hTab.buckets :
    LET bkt == hTab.buckets[b] IN
    \/ bkt.count < (bkt.expand_mult + 1) * HASH_BKT_CAPACITY_THRESH
    \/ bkt.count <= (bkt.expand_mult + 1) * hTab.ideal_chain_maxlen

Interned ==
  \A d, e \in LiveElem : d # e => keyAt[hTab.key[d]] # keyAt[hTab.key[e]]

\* After every call, through doublings and the freeing of the table with its
\* last element: the links, counters and tail are consistent (HASH_FSCK,
\* uthash.h:526), the chains bounded, and the same bytes are never stored at two
\* addresses, on which it rests that a table keyed by addresses serves as one
\* keyed by bytes.
Consistent == TypeOK /\ HASH_FSCK(hTab) /\ ChainBounded /\ Interned

\* The value a reader of the bytes k would be given.
Stored(k) ==
  LET found == {e \in LiveElem : keyAt[hTab.key[e]] = k /\ HASH_FIND_PTR(hTab, hTab.key[e]) = e}
  IN IF found = {} THEN None ELSE valueOf[CHOOSE e \in found : TRUE]

Map == INSTANCE TableMap WITH tab <- [k \in Key |-> Stored(k)], response <- response

\* peerHashing over uthash is a map with the responses of a map.
ImplementsMap == Map!MapSpec
=============================================================================
