# Specifications of the DHT blocks (RNVS WS19/20)

TLA+ models, TLC runs and TLAPS proofs for the distributed hash tables of this repository.

## 1. The system

| Part | Source | State | Operations |
|---|---|---|---|
| Block 4 peer, static ring | `DHT/peer.c`, `DHT/dht.c` | own ID and both neighbours (argv), hash table, list of pending requests (`hashRequestInfoList`), watched sockets | HASH, LOOKUP, REPLY, FINAL, end of stream, `createConnection` |
| Block 5 peer, dynamic ring | `jft.DHT/peer.c`, `jft.DHT/dht.c` | the same, neighbours learnt at run time, finger table, mutex, stabilizing thread | the same plus JOIN, STABILIZE, NOTIFY, FINGER/FACK |
| Table of keys | `*/hashing.c`, `uthash.h` | uthash keyed by interned key pointers | set, get, delete |
| Reading a request | `*/dht.c` | bytes of one connection | `firstByteDecode`, `getHashRequestInfo`, `getPeerRequest` |
| Key arithmetic | `*/dht.c` | none | `ringHashing`, `checkPeer`, `checkJoinPeer`, `finger_table_lookup` |
| NTP client | `Block6/` | RTT array, window | request, response, dispersion |
| Earlier NTP client | `NTP/` | one socket per request | request, response |

Peers share nothing and talk over TCP. They open a connection for every message, so messages of different connections overtake
each other; the answer to a forwarded request comes back on the connection it was forwarded on (`finalSocket`). A Block 4
peer is one thread around `select`. A Block 5 peer has a second thread that sends STABILIZE every two seconds; the two
threads share `nextID` under one mutex. The client programs are not in the repository.

What is hard here, by component (each with its line in `PROJECT.json` under `hazards`):

* Static ring: pending requests of one peer identified only by two bytes of their key; answers in any order; a client
  that leaves or a peer that exits while others wait for it; the boundaries of the arcs. Correct means: one peer in
  charge of a key, requests executed there once, the right answer to the right client, everyone answered.
* Membership: joins and stabilizing rounds of several peers interleave, NOTIFYs overtake each other, a newcomer is
  reachable before it knows its neighbours. Correct means: one ring in the order of the IDs, and back to it after each join.
* Routing in the dynamic ring: neighbours change under a LOOKUP; a JOIN moves a range of keys but no values.
* Finger table: filled entry by entry from REPLYs; restarted by a second FINGER; must never overshoot.
* Mutex and backlog: connections are opened while the mutex is held, to peers whose queues may be full.
* Descriptors: numbers are kept in the pending list and given out again by the system; some are never closed.
* Table of keys: found by address, so the same bytes must have one address; buckets that double; memory used again.
* Reading a request: TCP cuts where it likes, one `recv` does not fill a header.
* NTP client: UDP without a timeout or a check of which request a response answers.

## 2. The modules

| Module | What it is |
|---|---|
| `RingArcs` | `ringHashing`, `checkPeer` of Block 4 |
| `TableOps` | requests, responses and what `peerHashing` does to a table |
| `KVStore` | abstract specification: one linearizable map, each request takes effect and is answered at most once |
| `StaticRing` | Block 4: peers, pending lists, connections, clients that leave; the properties and the refinement mapping |
| `SelectLoop` | Block 4: the select loop of one peer, its descriptors and the numbers in its pending list |
| `RingMembership` | Block 5: JOIN, STABILIZE, NOTIFY |
| `Block5Arcs` | `ringHashing`, `checkPeer`, `finger_table_lookup` of Block 5 |
| `DynamicRing` | Block 5: HASH, LOOKUP, REPLY, FINAL composed with `RingMembership`; mapped to `KVStore` |
| `FingerTable` | Block 5 in a ring at rest: FINGER, the branch that fills the table, REPLYs, lookups along it |
| `PeerThreads` | Block 5: two threads per peer, the mutex, the queues of listeners |
| `UTHash` | the macros of `uthash.h` that `hashing.c` uses, on a record |
| `TableMap` | abstract specification: a map and the response to the last request |
| `HashTable` | `peerHashing` over set, get, delete of `hashing.c`; refines `TableMap` |
| `RequestStream` | how a request is read off a connection |
| `NTPTimes` | the time fields of a response: how servers write them, how `ntp.c` reads them |
| `NTPNet` | external: UDP and the servers |
| `NTPClient` | `Block6/ntpclient.c` and `NTP/ntpclient.c` |
| `MC...` | small instances of the module after the prefix, for TLC |
| `SeqLemmas` | what `SelectInSeq` (first match), `RemoveAt`, `Append` and `EXCEPT` make of a list; least elements of sets of naturals |
| `StaticRingProofs`, `SelectLoopProofs`, `RingMembershipProofs`, `DynamicRingProofs`, `FingerTableProofs`, `NTPClientProofs` | theorems about the module before `Proofs` |
| `PeerProofs` | theorems about what a peer does by itself: `RequestStream`, `HashTable`, `PeerThreads` |

How they compose: `StaticRing` and `DynamicRing` use `TableOps` for what a request does, which `HashTable` shows the code to do; they take
the linked list of pending requests for the sequence it stands for. `DynamicRing` INSTANCEs `RingMembership` for the neighbours.
`FingerTable` and `DynamicRing` share `Block5Arcs`. `SelectLoop` and `PeerThreads` look at one peer's descriptors and at what threads wait for, and
leave contents out. `NTPClient` is built on `NTPNet`, and that on `NTPTimes`.

Operators that are named by a comment as "a slip" are variants of a handler with one plausible mistake; no specification uses them.
They are what each property is tried against.

### StaticRing and the code

| Variable | Code |
|---|---|
| `prevID`, `nextID` | argv[4], argv[7] (constants) |
| `infoList[p]` | `hashRequestInfoList`; `conn`/`caller` stand for `callerSocket`, `final` for `finalSocket` |
| `hTab[p]` | `hTab` |
| `net` | bytes sent on a connection and not read; `conn` names the client connection they serve |
| `status[p]` | `"up"`; `"hung"` inside the retry loop of `createConnection`; `"down"` after `exit` or a NULL dereference |
| `call`, `answer`, `gone` | the clients' side |
| `clash` | history: peers where two requests with one hash ID have waited together |

`HashHere`, `HashNext`, `HashUnknown`, `LookupNext`, `LookupOn`, `HandleReply`, `HandleFinal`, `StrayFinal` and `ReadEOF` are the
branches of the select loop. A connection to an exited peer is refused for ever, so its opener becomes `"hung"`. At the
end of a stream the code closes the socket but still decodes a byte it did not read; every decoding leads to a `recv` on
the closed socket and to `exit`, hence `ReadEOF` needs no choice. A FINAL for a client that has left may or may not be followed by a read of
the closed client socket in the same pass over `read_fds`: that is the one nondeterministic outcome, in `HandleFinal`.
`finalSocket` is uninitialized until a connection is open; it is modelled as `None`, since a stale value would have to be a
live descriptor of this peer to matter. Keys of length 1 whose neighbour byte is compared by `findHashRequestInfo` are left out.

### RingMembership and the code

`Stabilize` is one round of the thread; `HandleStabilize`, `HandleNotify`, `JoinHere`, `JoinOn` are the handlers, `StartFounder` and
`StartJoiner` the two ways `main` begins. Only the first peer is started without a friend. Peers do not stop. The thread reads
`nextID` and connects under the mutex, so a round is one action. `slot` tells rounds of one peer apart; the code has no such number.

### DynamicRing and the code

`M` is `RingMembership` on the variables `started`, `prevID`, `nextID`, `mnet`; `Membership` is any of its steps. A connection is named `<<r, hops>>`: in
Block 5 a pending request also serves other peers, so an answer may travel back over several, and the name says which. `MaxHops` bounds the
connections opened for one request. `HashHere` ... `HandleFinal` are the branches of `peer.c`. `LookupDropped` is the branch that does
nothing. `findHashRequestInfo` returns a set: a key of one byte is compared with a byte that is not its own and may be anything.
`ran`, `dropped` and `clash` are history. The ring stops with the first peer that dies. `store` and `outcome` map to `KVStore`; the refinement is
asked of the steps at which the peers agree who is in charge, since between a JOIN and the end of its stabilizing round two
peers, or none, may think they are.

### FingerTable and the code

| Variable | Code |
|---|---|
| `ft_Elem[p]` | `ft_Elem` (the peer an entry names, or `NULL`) |
| `socket[p]`, `tableCounter[p]` | `fingerTableSocket`, `tableCounter` |
| `required[p]`, `complete[p]` | `tableIsRequired`, `tableIsComplete` |
| `replaced[p]` | FINGER sockets left in `master` when a later FINGER took their place |
| `infoList`, `net`, `clash` | as in `StaticRing` |

`HandleFinger` is the FINGER branch, `BuildNext` and `BuildLookup` are one pass of the branch for `i == fingerTableSocket`, which is
taken again and again because the rest of the FINGER is left unread. `HandleReply` fills the entry whose start the ID is (the
code's index 16 is the empty set of `check_finger_table_input`; the entry behind the array that the code reads in that case is
never written to). `ReadReplaced` is what becomes of a socket that lost its place. A table that was built
is used by `Onwards`.

### PeerThreads and the code

`queue[p]` are connections the system has made and the peer has not accepted; a connection to a full queue waits. `Stabilize`/`StabilizeSent`
are the thread's round, which holds the mutex while it connects. `Accept`, `Handle`, `Lock` and `Connected` are the main thread; JOIN and NOTIFY are
handled under the mutex. What a handler connects for is a choice over what it may do (`Outgoing`). The ring is as the peers know it.

### SelectLoop and the code

`fds` is the descriptor table (`Free`, a connection, or `Unwatched`: opened for a LOOKUP or REPLY and never closed), `master` and `ready` are the
two `fd_set`s, `list` the pending requests with the descriptor numbers they keep. `Select` and `At(i)` are the loop over
`0..fdmax`; `Accept`, `HashHere`, ..., `Final`, end of stream are its branches. `createConnection` without a descriptor spins: `"full"`.
Of a call only its hash ID is kept (`HereIDs`, `NextIDs`, `FarIDs`, by who is in charge of it). `Reply` finds its request as
`findHashRequestInfo` does, the first with the same two bytes, whether or not that one has been forwarded already; it is given the new
`finalSocket`, and the answer on the old one finds nothing (`FinalLost`, NULL at `peer.c:320`). `clash` is the history of such calls. `EndOfStream` always
exits, for the reason given for `ReadEOF` above: whatever the byte decodes to (`dht.c:44-55`), the next `recv` on the closed descriptor fails (`dht.c:85-88`, `186-190`).

### UTHash, HashTable and the code

A table is a record with the fields of `UT_hash_table` and, per element, those of `UT_hash_handle`; an element is its address. `HASH_FIND_PTR`, `HASH_ADD_PTR`,
`HASH_DELETE`, `HASH_EXPAND_BUCKETS` and `HASH_FSCK` are the macros of those names. `keyProcessing` gives the address of a stored key with
the same bytes, or a fresh one; `setAt`, `get` and `delete` follow `hashing.c`. An address is fresh if nothing in the table uses it: leaked memory
is never referred to again, so it cannot be told from memory that is free.

### RequestStream and the code

`Deliver` brings any number of further bytes, `SenderCloses` ends the stream. `firstByteDecode`, `ReadHeader`, `ReadData` and `getPeerRequest` are the `recv`s of `peer.c`
and `dht.c`. A byte is its place in the message. Bytes of a header that has not come are whatever `malloc` left: any lengths.

### NTP modules and the code

`NTPNet` has the packets, with `Lose` and `Duplicate`, and servers that take and return time. `NTPTimes` has times as bytes of base `Base`, so that
the era of a count of `Width` bytes ends within the bound. In `NTPClient`, `Send`, `Receive` (or, in the earlier client, `ReceiveFirst`, which also closes
the socket) and `Sleep` are the body of the inner loop, `ReceiveFails` the uninitialized address size. `program` says which of the two clients runs. A
socket gets any port the system has; a client without servers is done at once. The powers of `Base` and what `ntp.c` reads (`Unsigned`) are recursive
functions. `ErasAssumption`: servers' clocks show times of the first two eras, 1900 to 2172. `createNTPRequest` writes the time 320 bytes above a local pointer; what lies there in `main`'s frame
depends on the compiler, hence `overwritten` is chosen once: `gcc -O0` has `T1_unix` there.

## 3. Runs

| Run | Instance | Shows |
|---|---|---|
| `ring_kv` | 4 peers, 2 requests entering anywhere, keys on an ID, past the last ID and on the smallest one, 1 client leaves | `NeverMisrouted`; `Served` under fairness |
| `ring_same` | 4 peers, 3 requests at one peer, 2 keys with one hash ID, 1 client leaves | `OneUnderWay`, `AnswersMatchCalls`, `StoppedOnlyByFault`, and a refinement of `KVStore` until two such requests wait together |
| `fd_loop` | 5 descriptors and the listener, 3 connections from outside, 1 client leaves | `ReadsWhatIsThere`; `Served` unless a client leaves, the peer has stopped or descriptors run out for good |
| `fd_reply` | 7 descriptors, 2 connections from outside, two far hash IDs, 1 client leaves | `OwnAnswers`, also after a clash; `ExitsOnlyByFault` |
| `join_patient` | 5 peers in any order, one round per peer at a time | `NobodyPassedOver`, `NextNarrows`, `PrevNarrows`, `Converges` |
| `dyn_join` | 3 peers started at any time with any friend, 2 requests for keys that share their first byte, 1 connection beyond the client's for each | `DownOnlyAfterClash`, `AnswersMatchCalls`, `NeverLost`, `NeverOwnNeighbour`, `NeverTakesBack`, and steps of `KVStore` while the peers agree (`ImplementsWhenAgreed`) |
| `dyn_lookup` | 3 peers, 1 request | the comment at `jft.DHT/peer.c:344` does not hold: violation expected |
| `finger_table` | 4 peers of 4-bit IDs, 2 FINGERs, 1 request with the ID of two tables' entries, one table with an entry at the smallest ID | `TablesRight`, `NeverOvershoots`, `DownOnlyAfterClash`; `TableBuilt` and `Served` under fairness |
| `threads` | 2 peers, queue of 1, 2 calls, 1 JOIN, 1 round each | `MutexHeld`, `CircleStays`; `ComesBackUnlessCircle` under fairness |
| `table_map` | 4 addresses for 3 keys, 3 elements, buckets that double from 1 at chains of 2 | `Consistent` (links, counters, chains, one address per key), refinement of `TableMap` |
| `stream` | header 6, peer request 10, reads of 3 bytes, lengths up to 3 | `DecodesWhatWasSent`, `GetsOut` |
| `ntp` | both clients, 2 servers, 3 requests each, 2 ports, window 2, 1 fault, an era of 16 units that ends | `OwnAnswer`, `OffsetWithinDelay`, `DispersionOfServer`, `Finishes` |

Every run also checks its module's `TypeOK`, by name or, in `finger_table`, `table_map`, `fd_loop`, `stream` and `threads`, as a part of the first invariant (`ring_same`,
`dyn_lookup` and `fd_reply` leave it to the other run of their module).

Bounds. Four peers are the smallest ring in which a LOOKUP is passed on by a peer that neither asked nor answers. Three
requests at one peer are enough for two to be confused and a third to meet the result. `MaxAborts = 1`: one client
that leaves is enough to bring down a chain of peers. Five joiners give joins at the front of, inside and
past the end of a ring of three or more. `MaxRounds` bounds unfinished STABILIZE rounds. Three peers in the dynamic ring give a founder, a join behind
it and one that takes part of a range whose owner has values; both clients enter at the peer with the largest ID, whose LOOKUPs pass zero, and
`MaxHops = 1` lets a request be forwarded once; one that would need a second connection, because its first peer was wrong, stays unread. Four entries in a finger table
of four peers give entries known at once, looked up by one hop and by several, and entries that pass zero. Five descriptors run out with three
connections and are used again before. Seven are the fewest with which two calls of one hash ID are read, two sockets for their LOOKUPs forgotten and both REPLYs
taken while both calls wait, so that a `finalSocket` is overwritten and its answer finds no request (`fd_reply` does reach `FinalLost`, with nobody gone). Queues of one stand for the code's `BACKLOG` of 10: what matters is which of the connections that
come to a peer at one time do not fit. In `table_map` three of the addresses share a bucket through two doublings; the
second case of `ChainBounded` (section 4) takes five elements, more than a run can afford, and is left to the proof. In `threads` the two peers do come to wait for each other
(ten steps are enough), so `CircleStays` is not empty. `MaxFaults` bounds datagrams lost or
duplicated; one is enough to put a client out of step, and three requests per server are one more than the window and than the request a duplicate
is first taken for.

Symmetry is used where names do not matter and no liveness is checked: requests of `ring_same` (all enter at one peer), elements, keys
and values of `table_map` (addresses keep their names, they have hash values). Deadlock is checked in `table_map` and not an error elsewhere: a
ring is idle once requests are answered, joins end, the NTP client ends, and `threads` is about the deadlocks there are.

Fairness. `Serve(p, r)`: `select` reports every readable socket and the loop serves each one it reports, so a message to
a running peer is read (weak fairness per peer and request, in Block 5 also per finger and FINGER). A hung peer is not `"up"`, so nothing is
assumed of it. `Build` is served like a socket, because the FINGER's stays readable. Membership: the same for messages, and
weak fairness of the stabilizing thread, which wakes up every two seconds. `PeerThreads`: both threads run, and a connection is made when there
is room for it, though a mutex that is free only now and then may be missed. `SelectLoop`: the loop runs, and other peers answer. `RequestStream`: what was sent comes, a peer that answers closes, the reader
runs. NTP: the client runs, servers answer what reaches them, what is not lost comes. Clients and the user who starts peers owe nothing.

## 4. What was learnt about the code

A disagreement with the repository's own words, shown by a run (`findings` in `PROJECT.json`):

* A newcomer without successor takes itself to be in charge of everything, so it drops a LOOKUP that reaches it (`dyn_lookup`, "There won't be
  the case of thisPeer with LOOKUP").

Others are built into the models and named by the properties, without a run of their own:

* The same newcomer accepts JOINs as if it were alone ("1 Peer in Ring", `jft.DHT/dht.c:58`; `checkJoinPeer` in `RingMembership`).
* A header in two pieces is analysed after the first ("Get the Header", `jft.DHT/dht.c:104`; `DecodesWhatWasSent` is about headers that come whole).
* No NTP request carries its transmit time ("seal the Transmit Timestamp", `Block6/ntp.c:31`): it goes into the caller's stack frame instead, at `gcc -O0` over
  `T1_unix`, and delay and offset are then meaningless; `OffsetWithinDelay` holds where the compiler keeps something unused there.

Static ring:

* A key that hashes to the smallest node ID has no peer in charge (`ExactlyOneInCharge`, the strict `<` of `dht.c:36`); its
  LOOKUP circles for ever. `Served` excludes exactly these keys.
* Two requests with the same first two key bytes waiting at one peer: the second REPLY finds the first entry again,
  the first request is executed twice, and a FINAL then finds no entry and the peer dies (`StoppedOnlyByFault`, and `ExitsOnlyByFault` at the descriptors, name
  this as one of two causes; `ImplementsUntilClash` holds only up to there).
* A client that leaves before its answer takes its peer down, and with it peers that connect to it.
* The second test of `checkPeer` at a peer is the first at its successor, so the comment at `DHT/peer.c:231` is right for the static ring (`RoutingCorrect`).
* A pending request keeps nothing of its client but a descriptor number, and numbers are soon given out again; yet an answer always goes to its own
  client (`OwnAnswers`): a number is closed under a pending request only at the end of a stream, and there the peer exits. Without clients that leave,
  it reads nothing that has nothing to say (`ReadsWhatIsThere`), until the sockets opened for LOOKUPs and REPLYs have used up the table.

Dynamic ring:

* Without patience (`Patient = FALSE`) `NobodyPassedOver` fails within a few steps: two peers that join between the same members before a
  stabilizing round leave the first one out for good.
* A JOIN from below all members of a ring of two or more is forwarded for ever, and is accepted by a newcomer that knows no successor yet.
* With two unfinished rounds per peer (`MaxRounds = 2`), a STABILIZE delayed past two joins sets a newcomer's `prevID` wrong for good, even
  with patient joins: `prevID` is only set when unknown. `join_patient` therefore assumes that a round ends before the next one begins.
* A JOIN moves keys and no values; the old owner keeps them and, once it has both neighbours, never serves them again (`NeverTakesBack`).
* A REPLY is matched by two bytes of the key only, so a key of one byte may be taken for one it shares that byte with, and a finger's ID for a client's
  request. That is the only way joins and finger tables bring a peer down (`DownOnlyAfterClash` in both modules).
* A table is complete only if no entry starts at the smallest ID, since nobody is in charge of that; its FINGER is then never acknowledged, and clients'
  requests are served all the same (`TableBuilt` and `Served` in `finger_table`). A second FINGER takes the socket away from the first, which is never acknowledged either.
* `finger_table_lookup` never overshoots, but goes to the entry that is nearest from below only when the hash lies between the smallest and the largest ID of the
  table, and to the largest otherwise, so there is no bound of the kind Chord has: a LOOKUP takes up to as many hops as there are peers.
* Full queues: with a queue of one, two peers with two unfinished rounds each already block each other by stabilizing; three do with one call and one
  round each. `ComesBackUnlessCircle` says that nothing else keeps a main thread waiting, `CircleStays` that a circle is for good: no thread of the program gives a
  connection up.
* A chain may be longer than the threshold `HASH_ADD_TO_BKT` doubles at, also while doubling is allowed. The doubling of five elements with the hashes 0, 8, 2, 1
  and 3 from one bucket, at a threshold of two, leaves a chain of two whose `expand_mult` is 0, so the next addition to it doubles nothing. What holds, and what
  `ChainBounded` says, is that a chain is either below its threshold or within `expand_mult + 1` times the ideal length `HASH_EXPAND_BUCKETS` computes.

NTP: waiting for each answer keeps the client in step unless a datagram is duplicated; a lost one stops it for good. Times are read right until 2036 and a whole
era behind afterwards; delays are not affected.

## 5. Proofs

Each theorem is about the component's `Spec`, for every value of the constants that satisfies the named assumptions. All but the one about
arcs come from an inductive invariant whose parts were first checked with TLC; each action has a lemma of its own.

### Block 4

`StaticRingProofs`, for every ring that satisfies `RingAssumption` (the argv neighbours are inverse to each other and in the order of the
IDs), every set of requests, entry peers, keys and hash IDs (`InputAssumption`) and every bound:

* `TypeCorrect`, `RoutingCorrect`, `NoDuplicates`. The inductive invariant `IInv` adds
  to the properties that values lie where their key belongs (`Placement`) and two facts: only clients' requests wait in a list (`OnlyClientsWait`) and every message serves a request
  that was called (`Called`). The first is needed because an entry made for another peer would send a FINAL for a different
  connection than the one just read, and it follows from `NeverMisrouted`: what a peer forwards reaches the peer in charge, which
  does not queue it. The second keeps a new request apart from those under way. `Forward` and `Consume` say once what replacing
  one message by another of the same request preserves.
* `ExactlyOneInCharge`: arcs of different peers are disjoint, and every hash value but the smallest ID lies in one. The peer in
  charge is found as the smallest ID not below the hash value, or the smallest of all. With `Placement` it gives `OneCopy`: no key is in two tables.
* `AnswersCorrect`, also after requests were confused. `AInv` adds that entries and messages keep the call and the hash ID of their connection,
  where stored values come from, and that a FINAL carries a result of the call of the connection it travels on.
* `StopsExplained`. `BInv` says, as long as no two requests of one hash ID have waited together, that a peer has one entry for each ID it looks up
  and that each REPLY, FINAL and forwarded request under way finds the entry that waits for it (`AllAwaited`); then a
  peer is up unless a client has left.
* `RingImplementsKVStore`: the refinement mapping of `StaticRing` takes every step up to the first such clash to a step of `KVStore` or a stutter.
  `BInv` is what makes it work: a request that is executed has not been executed before, and nobody has been told its outcome.

`SelectLoopProofs`, for every finite set of descriptors, all hash IDs (`HashIDAssumption`) and any number of connections: `ReadsWhatComes`,
`AnswersToSenders`, `ExitsExplained`. The inductive invariant `SInv` has parts that hold under different conditions:

* `TInv` always: the types, `WatchedAreTheConnections` (`master` is exactly the open connections the loop is to read) and what names a connection;
* `LInv` until the peer exits: each pending request's descriptors are those of its own client and of a connection opened for its call (`Waiting`), though
  numbers closed earlier in the same pass have been given out again, and also after a clash. This is what sends answers to their clients;
* `CInv` until a clash: every connection opened for a call has a request that waits for it (`Outs`), each hash ID has one request (`OnePerID`), and each far
  call read is awaited until its REPLY (`Awaited`). So a REPLY finds the request it is for, and a FINAL its own;
* `Unread` while nobody has left: what `select` reported and the loop has still to come to can be read.

With the last two, the steps at which the peer exits need a client that left (`LEndOfStream`) or a clash (`LFinalLost`, `LNothingFound`). `Handled` says once
what a branch does to the descriptors; one lemma per branch says what it does to the requests.

### Block 5

`RingMembershipProofs`, for every set of IDs (`IDAssumption`):

* any number of rounds, patient or not: `TypeCorrect`; `PrevOnlyNarrows`, from the clauses of `checkJoinPeer`; `NeverSelf`. The code never asks whether a
  caller or an ID is its own, so the last needs a reason: while a JOIN is under way, the peers fall into two parts, its caller in one and the holder of
  the JOIN in the other, and no neighbour and no other message of one part is in the other (`Apart`).
* with patient joins and `MaxRounds <= 1`, as in `join_patient`: `NobodyLeftOut` (`NobodyPassedOver`) and `NextOnlyNarrows`. The invariant `PInv` says that the peers
  are either a ring with at most one JOIN on its way in it (`Steady`), or a ring and one newcomer placed between two neighbours of it, one of which may still
  have to find out (`LetIn`); every answer under way confirms a successor but the one that tells of the newcomer. A next newcomer starts only
  when the ring is complete, which takes `LetIn` back to `Steady`. Both hypotheses are needed: TLC refutes `NobodyPassedOver` when either is dropped.

`DynamicRingProofs` gets the membership from there (`MP`, `StepOfMembers`), for any finite set of peers, patient or not, any rounds, keys and requests
(`MembershipAssumption`, `PeersAssumption`, `RequestAssumption`):

* `TypeCorrect`, `NeverSelf`; `NeverBack` from `PrevStep`: a peer with two neighbours only raises its `prevID`.
* `OneOwner`, from `PInv` of `RingMembershipProofs` and with its hypotheses: no two peers that know both their neighbours are in charge of one key, at any
  moment of a join. A newcomer that knows only one of them may claim keys of others, so nothing more holds.
* `AnswersCorrect` from `AInv`: a client is told what became of its own request, also where pending requests were confused.
* `NobodyDown` and `RequestsUnderWay` from `DInv`: a connection is in the hands of one message or entry (`Exclusive`, `OneEntry`), what comes back
  on it finds the entry that waits for it (`Awaited`, `OwnConnection`), and a REPLY finds, first in the list, the request whose LOOKUP
  it answers (`RepliesExpected`), at every peer at which nothing could be confused. `clash` counts a request only where a REPLY can be taken for that of
  an earlier pending one, so the theorem says no less than it must.
* `OneMapWhenAgreed` from `KInv`, which adds that a request is in one place (`OneEach`) and that only running peers are asked (`Alive`):
  a step of agreeing peers is a step of `KVStore` or a stutter.

`FingerTableProofs`, for every ring of at least two peers, every number of bits, of FINGERs and of requests (`SizeAssumption`, `RingAssumption`, `InputAssumption`):
`TablesAreRight`, `LookupsNeverOvershoot`, `DownOnlyByClash`. The invariant has three parts that need each other: `TInv` of tables (entries filled from below, each
with the peer in charge of its start), `LInv` of messages (a REPLY names the peer in charge; a LOOKUP lies ahead of the peer that asks), since a table sends LOOKUPs ahead
and REPLYs fill it, and `WInv` of entries that wait. `TableGoesAhead` says what `finger_table_lookup` finds in such a table.

### Two threads and a table

`PeerProofs` on `PeerThreads`, for every set of peers, ring, length of queues and number of calls, newcomers and rounds (`ThreadsAssumption`): `MutexAlwaysHeld`
and `CircleForGood`. `MutexHeld` is inductive as it stands: what makes it so is that no handler outside the mutex connects for a JOIN (`OutgoingRight`), which is how
`Connected` tells whether to give the mutex back. For `CircleStays`, only accepting makes room in a full queue and a peer of the circle does not accept
(`FullStays`); so it stays where it is, or its other thread does and keeps the mutex (`WaiterStays`). The second needs `MutexHeld`: a thread that had the mutex and did not
connect could give it back.

`PeerProofs` on `HashTable`, for every finite set of elements and addresses, hash function, threshold, set of keys and values (`HashAssumption`, `NoneAssumption`):

* `TableConsistent`: everything `HASH_FSCK` tests, the bound of the chains, and no key stored at two addresses.
* `TableIsMap`: the refinement of `TableMap`. Every request that `peerHashing` carries out through addresses, chains and links is the operation on the map of keys to
  values, with the same response. It needs the first: `get` finds a key by its address, so the same bytes must not lie at two.
* `Expansion`: a doubling loses and duplicates no element, puts each in the chain of its hash, and bounds the chains.

The inductive invariant (`Inv`) says that the table is `NoTable`, or that its elements are a list of distinct addresses linked both ways in the order of insertion, that each bucket's chain is
linked the same way and holds exactly the elements of its hash, that `count` and `num_items` are the lengths, and that bytes are interned. The lists themselves (the order of
insertion, the order in a chain) are not in the state: the invariant says that there are such lists, since `HASH_FSCK` only follows links, and following is not
inductive before one knows that the links do not run in a circle. From below: `FollowList` (following the links of a list returns it), `LinkAppend`, `LinkPush`,
`LinkRemove` (what the three ways of writing two or three links do to a list), `ChainPush`, `RehashStep` and `Expansion` (one element, then all, moved to its
new bucket), `BucketAdd`, `TableAdd` and `TableDel` (the macros), `Found` (`HASH_FIND_PTR`), `Address` (`keyProcessing`), `SetEffect` and `DelEffect` (`hashing.c`), `PeerHashing`.

### Requests and time

`PeerProofs` on `RequestStream`, for every length of header, peer request, read and message (`StreamAssumption`): `DecodingCorrect`. The invariant adds
`Progress`: while data is read and nothing was cut, the lengths found are those sent, as many bytes have been taken as the first byte, the header and the
data make up, and each byte of the data is the one at its place. It gives that the data is the body when its length is
right, and that it can never be longer, since no more has been sent.

`NTPClientProofs`, for every list of servers, number of requests, window, size of bytes and number of faults (`ClientAssumption`, `NetAssumption`,
`ErasAssumption`, `TimesAssumption`): `TypeCorrect`, `AnswersAreOwn`, `OffsetsAreRight`, `DispersionsAreRight`. `IInv` adds that no request
is ahead of the loops (`Numbered`), that without duplicates only the packet the client waits for is under way (`InStep`), that what a packet is stamped with
lies between the times of its client (`Stamped`), and that the rows printed are the entries of the array (`Rows`). The arithmetic is proved too: that the
bytes of a time are read as the time less at most one era (`TimeRead`), for every `Base` and `Width`.

The library's induction theorems cannot be instantiated, because they take an operator. Where a fact is about every number (powers of two,
powers of `Base`, that the recursive functions exist, the first match in a list) it is proved from its least counterexample, which exists by `SmallestNat` (`SeqLemmas`).

### Only model-checked

Every invariant and every action property of a run that passes is proved. What runs under fairness is not: `Served`, `Converges`, `TableBuilt`, `GetsOut`, `Finishes`,
`ComesBackUnlessCircle`; liveness is out of the prover's reach. So is, by nature, the run that ends in a violation, `dyn_lookup`.

## 6. Plan

The models were built in the order of section 2, core first: the static ring and its map, membership, routing and finger tables on top of it, then what one peer does by itself, last NTP;
each was proved about once its runs passed. What would come next: the descriptors of Block 5 as in `SelectLoop`, since there a FINGER's socket is replaced while it
is watched; endless rounds in `PeerThreads`; and a bound on the hops of a LOOKUP along finger tables.

## 7. Not modelled

* The positions of bits in the first byte of a request and of fields in a header: conversions without control.
* `getHashRequestInfo` allocates the size of a pointer (`jft.DHT/dht.c:92`, 8 bytes, 24 with `malloc`'s rounding) for a structure of 48: its last fields lie in the memory behind. What
  that overwrites has no bounded set of outcomes; the models take the structure to have its own memory.
* `finalSocket` before it is set is uninitialized. `StaticRing` and `DynamicRing` take it to equal no live connection.
* The links of the pending list (`next`, `freeInfo`): a sequence stands for them.
* Lookups of several requests at once while finger tables are built, and rings of more than four peers with tables.
* The descriptors of Block 5 (its `hazards` entry says what is not closed), start-up (`getaddrinfo`, `bind`), and refused or timed-out
  connections other than to a peer that exited.
* A connection reset while a FACK is sent.
* Peers that stop or are restarted in Block 5: nothing handles it there, and nothing is persisted.
* Endless rounds against one mutex: rounds are bounded in `PeerThreads`, so whether the thread may keep the main thread from the mutex for ever
  is not examined.
* `NTPClient` takes it that `CLOCK_REALTIME` does not go back, and leaves out the rounding of doubles. What `NTP/` prints: its `analizeTheResponse`
  reads fixed point as doubles.
* The branch of `HASH_EXPAND_BUCKETS` that gives up doubling is in the model and needs eight elements to be taken; it is not reached in `table_map`.
* Macros of `uthash.h` that `hashing.c` does not use, and build output.
