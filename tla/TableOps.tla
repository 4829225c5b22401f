------------------------------ MODULE TableOps ------------------------------
(***************************************************************************)
(* The requests a client can make and what peerHashing of dht.c does with  *)
(* one of them: the hash table afterwards and the response.  The table is  *)
(* the map set, get and delete of hashing.c keep.                          *)
(***************************************************************************)
CONSTANTS Key, Value, None

Call == [op: {"SET"}, key: Key, val: Value]
          \cup [op: {"GET", "DEL"}, key: Key, val: {None}]

\* The response of peerHashing: key and value only when a GET finds the key.
Response == [op: {"SET", "GET", "DEL"}, key: Key \cup {None}, val: Value \cup {None}]

\* The table after the request, and what the caller is told.
Apply(tab, c) == CASE c.op = "SET" -> [tab EXCEPT ![c.key] = c.val]
                   [] c.op = "DEL" -> [tab EXCEPT ![c.key] = None]
                   [] OTHER -> tab

\* A slip: key and value change places in the response.
ResultSwapped(tab, c) ==
  IF c.op = "GET" /\ tab[c.key] # None
    THEN [op |-> c.op, key |-> tab[c.key], val |-> c.key]
    ELSE [op |-> c.op, key |-> None, val |-> None]

Result(tab, c) ==
  IF c.op = "GET" /\ tab[c.key] # None
    THEN [op |-> c.op, key |-> c.key, val |-> tab[c.key]]
    ELSE [op |-> c.op, key |-> None, val |-> None]
=============================================================================
