-------------------------- MODULE StaticRingProofs --------------------------
(***************************************************************************)
(* For every ring, every set of requests and any number of clients that    *)
(* leave: the types, that nothing is misrouted or stored in the wrong      *)
(* place, that a request is under way at most once, which hash values have *)
(* exactly one peer in charge, that clients get the answers to their own   *)
(* calls, what stops a peer, and that the ring is one map (KVStore) until  *)
(* two requests of one hash ID wait together.                              *)
(***************************************************************************)
EXTENDS StaticRing, SeqLemmas

-----------------------------------------------------------------------------
(* The ring.                                                               *)

LEMMA Neighbours ==
  ASSUME NEW p \in Peer
  PROVE  /\ prevID[p] \in Peer /\ nextID[p] \in Peer
         /\ prevID[nextID[p]] = p /\ nextID[prevID[p]] = p
         /\ p \in Nat /\ prevID[p] \in Nat /\ nextID[p] \in Nat
BY RingAssumption

LEMMA HashIsNat ==
  ASSUME NEW id \in HashID
  PROVE  Hash(id) \in Nat
BY DEF Hash, ringHashing, HashID, Byte

\* checkPeer's second test at a peer is the first test at its successor
\* (dht.c:36 and 38): they cannot disagree as long as the neighbours agree.
LEMMA NextIsInCharge ==
  ASSUME NEW p \in Peer, NEW h
  PROVE  /\ Check(p, h) = nextPeer => Check(nextID[p], h) = thisPeer
         /\ Check(p, h) = unknownPeer => Check(nextID[p], h) # thisPeer
<1>1. Check(nextID[p], h) = thisPeer <=> InArc(p, nextID[p], h)
  BY Neighbours DEF Check, checkPeer, thisPeer, nextPeer, unknownPeer
<1>2. Check(p, h) = nextPeer => InArc(p, nextID[p], h)
  BY DEF Check, checkPeer, thisPeer, nextPeer, unknownPeer
<1>3. Check(p, h) = unknownPeer => ~InArc(p, nextID[p], h)
  BY DEF Check, checkPeer, thisPeer, nextPeer, unknownPeer
<1>4. QED
  BY <1>1, <1>2, <1>3

\* Two peers are never both in charge: their arcs are disjoint.
LEMMA AtMostOne ==
  ASSUME NEW p \in Peer, NEW q \in Peer, NEW h \in Nat, p < q,
         InArc(prevID[p], p, h), InArc(prevID[q], q, h)
  PROVE  FALSE
<1>1. /\ p \in Nat /\ q \in Nat /\ prevID[p] \in Nat /\ prevID[q] \in Nat
      /\ prevID[p] \in Peer /\ prevID[q] \in Peer
      /\ nextID[prevID[p]] = p /\ nextID[prevID[q]] = q
  BY Neighbours
<1>2. prevID[q] < q /\ p <= prevID[q]
  BY <1>1, RingAssumption
<1>3. \/ prevID[p] < p
      \/ prevID[p] > p /\ q <= prevID[p]
  BY <1>1, RingAssumption
<1>4. QED
  BY <1>1, <1>2, <1>3 DEF InArc

-----------------------------------------------------------------------------
(* Messages and list entries.                                              *)

LEMMA HashFields ==
  ASSUME TypeOK, NEW m \in net, m.type = "HASH"
  PROVE  /\ m.conn \in Request /\ m.from \in Peer \cup {Client}
         /\ m.to \in Peer /\ m.call \in Call
BY DEF TypeOK, Message

LEMMA LookupFields ==
  ASSUME TypeOK, NEW m \in net, m.type = "LOOKUP"
  PROVE  /\ m.conn \in Request /\ m.orig \in Peer /\ m.to \in Peer /\ m.id \in HashID
         /\ m = [type |-> "LOOKUP", conn |-> m.conn, orig |-> m.orig,
                 to |-> m.to, id |-> m.id]
BY DEF TypeOK, Message

LEMMA ReplyFields ==
  ASSUME TypeOK, NEW m \in net, m.type = "REPLY"
  PROVE  m.conn \in Request /\ m.chosen \in Peer /\ m.to \in Peer /\ m.id \in HashID
BY DEF TypeOK, Message

LEMMA FinalFields ==
  ASSUME TypeOK, NEW m \in net, m.type = "FINAL"
  PROVE  m.conn \in Request /\ m.to \in Peer /\ m.res \in Response
BY DEF TypeOK, Message

LEMMA CallKey ==
  ASSUME NEW c \in Call
  PROVE  /\ c.key \in Key /\ hashID[c.key] \in HashID
         /\ c.op \in {"SET", "GET", "DEL"} /\ c.val \in Value \cup {None}
BY InputAssumption DEF Call

LEMMA TableType ==
  ASSUME NEW tab \in [Key -> Value \cup {None}], NEW c \in Call
  PROVE  /\ Apply(tab, c) \in [Key -> Value \cup {None}]
         /\ Result(tab, c) \in Response
         /\ \A k \in Key \ {c.key} : Apply(tab, c)[k] = tab[k]
<1>1. c.key \in Key /\ c.op \in {"SET", "GET", "DEL"} /\ c.val \in Value \cup {None}
  BY CallKey
<1>2. Result(tab, c) \in Response
  BY <1>1 DEF Result, Response
<1>3. QED
  BY <1>1, <1>2 DEF Apply

-----------------------------------------------------------------------------
(* The inductive invariant.  Only requests of clients wait in a list (what *)
(* a peer forwards arrives at the peer in charge), every message belongs   *)
(* to a request that was called.                                           *)

LocalEntry == {e \in InfoEntry : e.caller = Client}

OnlyClientsWait == infoList \in [Peer -> Seq(LocalEntry)]

Called == \A m \in net : call[m.conn] # None

\* A value lies only at the peer in charge of its key.
Placement ==
  \A p \in Peer, k \in Key : hTab[p][k] # None => InCharge(p, k)

IInv == /\ TypeOK /\ OnlyClientsWait /\ Called
        /\ NeverMisrouted /\ Placement /\ OneUnderWay

LEMMA EntryFields ==
  ASSUME OnlyClientsWait, NEW p \in Peer, NEW i \in 1..Len(infoList[p])
  PROVE  /\ infoList[p][i] \in LocalEntry
         /\ infoList[p][i].conn \in Request /\ infoList[p][i].caller = Client
         /\ infoList[p][i].call \in Call
<1>1. infoList[p] \in Seq(LocalEntry)
  BY DEF OnlyClientsWait
<1>2. infoList[p][i] \in LocalEntry
  BY <1>1, ElementOfSeq
<1>3. QED
  BY <1>2 DEF LocalEntry, InfoEntry

LEMMA FoundByID ==
  ASSUME OnlyClientsWait, NEW p \in Peer, NEW id, findHashRequestInfo(p, id) # 0
  PROVE  /\ findHashRequestInfo(p, id) \in 1..Len(infoList[p])
         /\ hashID[infoList[p][findHashRequestInfo(p, id)].call.key] = id
<1> DEFINE M == {i \in 1..Len(infoList[p]) : hashID[infoList[p][i].call.key] = id}
<1>1. findHashRequestInfo(p, id) = IF M # {} THEN Min(M) ELSE 0
  BY DEF findHashRequestInfo, SelectInSeq
<1>2. M # {} /\ findHashRequestInfo(p, id) = Min(M)
  BY <1>1
<1>3. Len(infoList[p]) \in Nat
  BY LenProperties DEF OnlyClientsWait
<1>4. Min(M) \in 1..Len(infoList[p]) /\ Min(M) \in M
  BY <1>2, <1>3, FirstMatch
<1>5. QED
  BY <1>2, <1>4

LEMMA FoundByFinal ==
  ASSUME OnlyClientsWait, NEW p \in Peer, NEW m, getClientRequestInfo(p, m) # 0
  PROVE  getClientRequestInfo(p, m) \in 1..Len(infoList[p])
<1> DEFINE M == {i \in 1..Len(infoList[p]) :
                   infoList[p][i].final = m.conn /\ infoList[p][i].call.op = m.res.op}
<1>1. getClientRequestInfo(p, m) = IF M # {} THEN Min(M) ELSE 0
  BY DEF getClientRequestInfo, SelectInSeq
<1>2. M # {} /\ getClientRequestInfo(p, m) = Min(M)
  BY <1>1
<1>3. Len(infoList[p]) \in Nat
  BY LenProperties DEF OnlyClientsWait
<1>4. QED
  BY <1>2, <1>3, FirstMatch

\* The list invariant gives the weaker type.
LEMMA ListType == OnlyClientsWait => infoList \in [Peer -> Seq(InfoEntry)]
<1> SUFFICES ASSUME OnlyClientsWait, NEW p \in Peer
             PROVE  infoList[p] \in Seq(InfoEntry)
  BY DEF OnlyClientsWait
<1>1. infoList[p] \in Seq(LocalEntry) /\ LocalEntry \subseteq InfoEntry
  BY DEF OnlyClientsWait, LocalEntry
<1>2. QED
  BY <1>1, SeqMonotonic

-----------------------------------------------------------------------------
(* What a step does to the messages: one is read, at most one is sent in   *)
(* its place for the same request.                                         *)

LEMMA Forward ==
  ASSUME IInv, NEW m \in net, NEW o \in Message, o.conn = m.conn, RoutedRight(o),
         net' \subseteq (net \ {m}) \cup {o}, call' = call
  PROVE  net' \in SUBSET Message /\ Called' /\ NeverMisrouted' /\ OneUnderWay'
<1>1. net \in SUBSET Message
  BY DEF IInv, TypeOK
<1>2. net' \in SUBSET Message
  BY <1>1
<1>3. Called'
  BY DEF IInv, Called
<1>4. NeverMisrouted'
  BY DEF IInv, NeverMisrouted, RoutedRight
<1>5. OneUnderWay'
  BY DEF IInv, OneUnderWay
<1>6. QED
  BY <1>2, <1>3, <1>4, <1>5

LEMMA Consume ==
  ASSUME IInv, net' \subseteq net, call' = call
  PROVE  net' \in SUBSET Message /\ Called' /\ NeverMisrouted' /\ OneUnderWay'
<1>1. net \in SUBSET Message
  BY DEF IInv, TypeOK
<1>2. Called' /\ NeverMisrouted' /\ OneUnderWay'
  BY DEF IInv, Called, NeverMisrouted, RoutedRight, OneUnderWay
<1>3. QED
  BY <1>1, <1>2

LEMMA PassNet ==
  ASSUME TypeOK, NEW p \in Peer, NEW m \in net, NEW o, Pass(p, m, o)
  PROVE  /\ net' \subseteq (net \ {m}) \cup {o}
         /\ status' \in [Peer -> {"up", "hung", "down"}]
BY DEF Pass, TypeOK

\* The rest of the invariant is about variables a routing step leaves alone.
LEMMA RestKept ==
  ASSUME IInv, UNCHANGED <<hTab, call, answer, gone>>
  PROVE  /\ hTab' \in [Peer -> [Key -> Value \cup {None}]]
         /\ call' \in [Request -> Call \cup {None}]
         /\ answer' \in [Request -> Response \cup {None}]
         /\ gone' \in SUBSET Request
         /\ Placement'
BY DEF IInv, TypeOK, Placement

\* Putting the parts of the invariant together again.
LEMMA Assemble ==
  ASSUME status' \in [Peer -> {"up", "hung", "down"}], OnlyClientsWait',
         hTab' \in [Peer -> [Key -> Value \cup {None}]],
         net' \in SUBSET Message, Called', NeverMisrouted', OneUnderWay', Placement',
         call' \in [Request -> Call \cup {None}],
         answer' \in [Request -> Response \cup {None}],
         gone' \in SUBSET Request, clash' \in SUBSET Peer
  PROVE  IInv'
<1>1. infoList' \in [Peer -> Seq(InfoEntry)]
  <2> SUFFICES ASSUME NEW p \in Peer
               PROVE  infoList'[p] \in Seq(InfoEntry)
    BY DEF OnlyClientsWait
  <2>1. infoList'[p] \in Seq(LocalEntry) /\ LocalEntry \subseteq InfoEntry
    BY DEF OnlyClientsWait, LocalEntry
  <2>2. QED
    BY <2>1, SeqMonotonic
<1>2. QED
  BY <1>1 DEF IInv, TypeOK

-----------------------------------------------------------------------------
(* One lemma per action.                                                   *)

LEMMA SendStep ==
  ASSUME IInv, NEW r \in Request, ClientSend(r)
  PROVE  IInv'
<1>1. PICK c \in Call, p \in Entry[r] :
        /\ call' = [call EXCEPT ![r] = c]
        /\ net' = net \cup {[type |-> "HASH", conn |-> r, from |-> Client,
                             to |-> p, call |-> c]}
  BY DEF ClientSend
<1> DEFINE h == [type |-> "HASH", conn |-> r, from |-> Client, to |-> p, call |-> c]
<1>2. p \in Peer /\ c # None /\ h \in Message
  BY InputAssumption DEF Message
<1>3. call \in [Request -> Call \cup {None}] /\ net \in SUBSET Message /\ call[r] = None
  BY DEF IInv, TypeOK, ClientSend
<1>4. \A m \in net : m.conn # r
  BY <1>3 DEF IInv, Called
<1>5. net' \in SUBSET Message /\ call' \in [Request -> Call \cup {None}]
  BY <1>1, <1>2, <1>3
<1>6. Called'
  <2>1. \A m \in net : call'[m.conn] = call[m.conn]
    BY <1>1, <1>3, <1>4
  <2>2. call'[h.conn] = c
    BY <1>1, <1>3
  <2>3. QED
    BY <1>1, <1>2, <2>1, <2>2 DEF IInv, Called
<1>7. NeverMisrouted'
  BY <1>1 DEF IInv, NeverMisrouted, RoutedRight
<1>8. OneUnderWay'
  BY <1>1, <1>4 DEF IInv, OneUnderWay
<1>9. QED
  BY <1>5, <1>6, <1>7, <1>8, Assemble
     DEF IInv, TypeOK, OnlyClientsWait, Placement, ClientSend

LEMMA AbortStep ==
  ASSUME IInv, NEW r \in Request, ClientAbort(r)
  PROVE  IInv'
BY Consume, Assemble DEF ClientAbort, IInv, TypeOK, OnlyClientsWait, Placement

LEMMA HashHereStep ==
  ASSUME IInv, NEW p \in Peer, NEW m \in net, HashHere(p, m)
  PROVE  IInv'
<1> DEFINE res == Result(hTab[p], m.call)
           f == [type |-> "FINAL", conn |-> m.conn, to |-> m.from, res |-> res]
<1>1. /\ m.conn \in Request /\ m.from \in Peer \cup {Client} /\ m.call \in Call
      /\ m.call.key \in Key
  BY HashFields, CallKey DEF IInv, HashHere, ReadHash
<1>2. hTab \in [Peer -> [Key -> Value \cup {None}]]
  BY DEF IInv, TypeOK
<1>3. /\ Apply(hTab[p], m.call) \in [Key -> Value \cup {None}] /\ res \in Response
      /\ \A k \in Key \ {m.call.key} : Apply(hTab[p], m.call)[k] = hTab[p][k]
  BY <1>1, <1>2, TableType
<1>4. hTab' = [hTab EXCEPT ![p] = Apply(hTab[p], m.call)] /\ InCharge(p, m.call.key)
  BY DEF HashHere
<1>5. hTab' \in [Peer -> [Key -> Value \cup {None}]]
  BY <1>2, <1>3, <1>4
<1>6. Placement'
  <2> SUFFICES ASSUME NEW q \in Peer, NEW k \in Key, hTab'[q][k] # None
               PROVE  InCharge(q, k)
    BY DEF Placement, InCharge, Check, Hash
  <2>1. CASE q = p /\ k = m.call.key
    BY <1>4, <2>1
  <2>2. CASE ~(q = p /\ k = m.call.key)
    BY <1>2, <1>3, <1>4, <2>2 DEF IInv, Placement
  <2>3. QED
    BY <2>1, <2>2
<1>7. answer' \in [Request -> Response \cup {None}]
  BY <1>1, <1>3 DEF HashHere, ToClient, IInv, TypeOK
<1>8. net' \in SUBSET Message /\ Called' /\ NeverMisrouted' /\ OneUnderWay'
  <2>1. CASE m.from = Client
    <3>1. net' \subseteq net /\ call' = call
      BY <2>1 DEF HashHere, ToPeer
    <3>2. QED
      BY <3>1, Consume
  <2>2. CASE m.from # Client
    <3>1. f \in Message /\ f.conn = m.conn /\ RoutedRight(f)
      BY <1>1, <1>3, <2>2 DEF Message, RoutedRight
    <3>2. net' \subseteq (net \ {m}) \cup {f} /\ call' = call
      BY DEF HashHere, ToPeer
    <3>3. QED
      BY <3>1, <3>2, Forward
  <2>3. QED
    BY <2>1, <2>2
<1>9. QED
  BY <1>5, <1>6, <1>7, <1>8, Assemble DEF HashHere, IInv, TypeOK, OnlyClientsWait

\* A HASH that is not for this peer came from a client.
LEMMA FromClient ==
  ASSUME IInv, NEW p \in Peer, NEW m \in net, ReadHash(p, m), ~InCharge(p, m.call.key)
  PROVE  /\ m.from = Client /\ Info(m) \in LocalEntry
         /\ hashID[m.call.key] \in HashID /\ m.conn \in Request /\ m.call \in Call
<1>1. m.conn \in Request /\ m.call \in Call /\ hashID[m.call.key] \in HashID
  BY HashFields, CallKey DEF IInv, ReadHash
<1>2. m.from = Client
  BY DEF IInv, NeverMisrouted, RoutedRight, ReadHash
<1>3. QED
  BY <1>1, <1>2 DEF Info, LocalEntry, InfoEntry

LEMMA HashNextStep ==
  ASSUME IInv, NEW p \in Peer, NEW m \in net, HashNext(p, m)
  PROVE  IInv'
<1> DEFINE o == [type |-> "HASH", conn |-> m.conn, from |-> p,
                 to |-> nextID[p], call |-> m.call]
           e == [Info(m) EXCEPT !.final = IF Connects(nextID[p]) THEN m.conn ELSE None]
<1>1. ReadHash(p, m) /\ Check(p, Hash(hashID[m.call.key])) = nextPeer
  BY DEF HashNext
<1>2. ~InCharge(p, m.call.key) /\ InCharge(nextID[p], m.call.key)
  BY <1>1, NextIsInCharge DEF InCharge, thisPeer, nextPeer
<1>3. /\ m.from = Client /\ m.conn \in Request /\ m.call \in Call
      /\ Info(m) \in LocalEntry
  BY <1>1, <1>2, FromClient
<1>4. e \in LocalEntry
  BY <1>3 DEF LocalEntry, InfoEntry, Info
<1>5. OnlyClientsWait'
  <2>1. infoList[p] \in Seq(LocalEntry)
    BY DEF IInv, OnlyClientsWait
  <2>2. Append(infoList[p], e) \in Seq(LocalEntry)
    BY <1>4, <2>1, AppendProperties
  <2>3. infoList' = [infoList EXCEPT ![p] = Append(infoList[p], e)]
    BY DEF HashNext
  <2>4. QED
    BY <2>2, <2>3 DEF IInv, OnlyClientsWait
<1>6. o \in Message /\ o.conn = m.conn /\ RoutedRight(o)
  BY <1>2, <1>3, Neighbours DEF Message, RoutedRight
<1>7. net' \subseteq (net \ {m}) \cup {o} /\ status' \in [Peer -> {"up", "hung", "down"}]
  BY PassNet DEF HashNext, IInv
<1>8. net' \in SUBSET Message /\ Called' /\ NeverMisrouted' /\ OneUnderWay'
  BY <1>6, <1>7, Forward DEF HashNext
<1>9. QED
  BY <1>5, <1>7, <1>8, RestKept, Assemble DEF HashNext, IInv, TypeOK

LEMMA HashUnknownStep ==
  ASSUME IInv, NEW p \in Peer, NEW m \in net, HashUnknown(p, m)
  PROVE  IInv'
<1> DEFINE id == hashID[m.call.key]
           o == [type |-> "LOOKUP", conn |-> m.conn, orig |-> p, to |-> nextID[p], id |-> id]
<1>1. ReadHash(p, m) /\ Check(p, Hash(id)) = unknownPeer
  BY DEF HashUnknown
<1>2. ~InCharge(p, m.call.key) /\ Check(nextID[p], Hash(id)) # thisPeer
  BY <1>1, NextIsInCharge DEF InCharge, thisPeer, unknownPeer
<1>3. m.conn \in Request /\ id \in HashID /\ Info(m) \in LocalEntry
  BY <1>1, <1>2, FromClient
<1>4. OnlyClientsWait'
  <2>1. infoList[p] \in Seq(LocalEntry)
    BY DEF IInv, OnlyClientsWait
  <2>2. Append(infoList[p], Info(m)) \in Seq(LocalEntry)
    BY <1>3, <2>1, AppendProperties
  <2>3. infoList' = [infoList EXCEPT ![p] = Append(infoList[p], Info(m))]
    BY DEF HashUnknown
  <2>4. QED
    BY <2>2, <2>3 DEF IInv, OnlyClientsWait
<1>5. o \in Message /\ o.conn = m.conn /\ RoutedRight(o)
  BY <1>2, <1>3, Neighbours DEF Message, RoutedRight
<1>6. net' \subseteq (net \ {m}) \cup {o} /\ status' \in [Peer -> {"up", "hung", "down"}]
  BY PassNet DEF HashUnknown, IInv
<1>7. net' \in SUBSET Message /\ Called' /\ NeverMisrouted' /\ OneUnderWay'
  BY <1>5, <1>6, Forward DEF HashUnknown
<1>8. clash' \in SUBSET Peer
  BY DEF HashUnknown, IInv, TypeOK
<1>9. QED
  BY <1>4, <1>6, <1>7, <1>8, RestKept, Assemble DEF HashUnknown

LEMMA LookupNextStep ==
  ASSUME IInv, NEW p \in Peer, NEW m \in net, LookupNext(p, m)
  PROVE  IInv'
<1> DEFINE o == [type |-> "REPLY", conn |-> m.conn, chosen |-> nextID[p],
                 to |-> m.orig, id |-> m.id]
<1>1. m.conn \in Request /\ m.orig \in Peer /\ m.id \in HashID
  BY LookupFields DEF IInv, LookupNext, ReadLookup
<1>2. Check(nextID[p], Hash(m.id)) = thisPeer
  BY NextIsInCharge DEF LookupNext
<1>3. o \in Message /\ o.conn = m.conn /\ RoutedRight(o)
  BY <1>1, <1>2, Neighbours DEF Message, RoutedRight
<1>4. net' \subseteq (net \ {m}) \cup {o} /\ status' \in [Peer -> {"up", "hung", "down"}]
  BY PassNet DEF LookupNext, IInv
<1>5. net' \in SUBSET Message /\ Called' /\ NeverMisrouted' /\ OneUnderWay'
  BY <1>3, <1>4, Forward DEF LookupNext
<1>6. QED
  BY <1>4, <1>5, RestKept, Assemble DEF LookupNext, IInv, TypeOK, OnlyClientsWait

LEMMA LookupOnStep ==
  ASSUME IInv, NEW p \in Peer, NEW m \in net, LookupOn(p, m)
  PROVE  IInv'
<1> DEFINE o == [m EXCEPT !.to = nextID[p]]
<1>1. /\ m.conn \in Request /\ m.orig \in Peer /\ m.id \in HashID
      /\ m = [type |-> "LOOKUP", conn |-> m.conn, orig |-> m.orig,
              to |-> m.to, id |-> m.id]
  BY LookupFields DEF IInv, LookupOn, ReadLookup
<1>2. /\ net' \in SUBSET Message /\ Called' /\ NeverMisrouted' /\ OneUnderWay'
      /\ status' \in [Peer -> {"up", "hung", "down"}]
  <2>1. CASE Check(p, Hash(m.id)) = unknownPeer
    <3>1. o = [type |-> "LOOKUP", conn |-> m.conn, orig |-> m.orig,
               to |-> nextID[p], id |-> m.id]
      BY <1>1
    <3>2. Check(nextID[p], Hash(m.id)) # thisPeer
      BY <2>1, NextIsInCharge
    <3>3. o \in Message /\ o.conn = m.conn /\ RoutedRight(o)
      BY <1>1, <3>1, <3>2, Neighbours DEF Message, RoutedRight
    <3>4. Pass(p, m, o) /\ call' = call
      BY <2>1 DEF LookupOn
    <3>5. net' \subseteq (net \ {m}) \cup {o} /\ status' \in [Peer -> {"up", "hung", "down"}]
      BY <3>4, PassNet DEF IInv
    <3>6. QED
      BY <3>3, <3>4, <3>5, Forward
  <2>2. CASE Check(p, Hash(m.id)) # unknownPeer
    BY <2>2, Consume DEF LookupOn, IInv, TypeOK
  <2>3. QED
    BY <2>1, <2>2
<1>3. QED
  BY <1>2, RestKept, Assemble DEF LookupOn, IInv, TypeOK, OnlyClientsWait

\* The entry a REPLY finds has the hash ID of the LOOKUP it answers, so its
\* request goes to the peer in charge even if it is another client's.
LEMMA HandleReplyStep ==
  ASSUME IInv, NEW p \in Peer, NEW m \in net, HandleReply(p, m)
  PROVE  IInv'
<1> DEFINE i == findHashRequestInfo(p, m.id)
           o == [type |-> "HASH", conn |-> m.conn, from |-> p,
                 to |-> m.chosen, call |-> infoList[p][i].call]
<1>1. m.conn \in Request /\ m.chosen \in Peer /\ m.id \in HashID /\ m.type = "REPLY"
  BY ReplyFields DEF IInv, HandleReply
<1>2. CASE Connects(m.chosen) /\ i # 0
  <2>1. /\ i \in 1..Len(infoList[p])
        /\ hashID[infoList[p][i].call.key] = m.id
    BY <1>2, FoundByID DEF IInv
  <2>2. infoList[p][i] \in LocalEntry /\ infoList[p][i].call \in Call
    BY <2>1, EntryFields DEF IInv
  <2>3. InCharge(m.chosen, infoList[p][i].call.key)
    BY <1>1, <2>1 DEF IInv, NeverMisrouted, RoutedRight, InCharge
  <2>4. o \in Message /\ o.conn = m.conn /\ RoutedRight(o)
    BY <1>1, <2>2, <2>3 DEF Message, RoutedRight
  <2>5. /\ net' = (net \ {m}) \cup {o} /\ call' = call /\ status' = status
        /\ infoList' = [infoList EXCEPT ![p][i].final = m.conn]
    BY <1>2 DEF HandleReply
  <2>6. net' \in SUBSET Message /\ Called' /\ NeverMisrouted' /\ OneUnderWay'
    BY <2>4, <2>5, Forward
  <2>7. OnlyClientsWait'
    <3> DEFINE e == [infoList[p][i] EXCEPT !.final = m.conn]
    <3>1. e \in LocalEntry
      BY <1>1, <2>2 DEF LocalEntry, InfoEntry
    <3>2. infoList \in [Peer -> Seq(LocalEntry)] /\ infoList[p] \in Seq(LocalEntry)
      BY DEF IInv, OnlyClientsWait
    <3>3. [infoList[p] EXCEPT ![i] = e] \in Seq(LocalEntry)
      BY <2>1, <3>1, <3>2, ExceptSeq
    <3>4. infoList' = [infoList EXCEPT ![p] = [infoList[p] EXCEPT ![i] = e]]
      BY <2>5, Zenon
    <3>5. QED
      BY <3>2, <3>3, <3>4 DEF OnlyClientsWait
  <2>8. QED
    BY <2>5, <2>6, <2>7, RestKept, Assemble DEF HandleReply, IInv, TypeOK
<1>3. CASE ~(Connects(m.chosen) /\ i # 0)
  <2>1. /\ net' = net \ {m} /\ call' = call /\ infoList' = infoList
        /\ status' \in [Peer -> {"up", "hung", "down"}]
    BY <1>3 DEF HandleReply, IInv, TypeOK
  <2>2. net' \in SUBSET Message /\ Called' /\ NeverMisrouted' /\ OneUnderWay'
    BY <2>1, Consume
  <2>3. QED
    BY <2>1, <2>2, RestKept, Assemble DEF HandleReply, IInv, TypeOK, OnlyClientsWait
<1>4. QED
  BY <1>2, <1>3

LEMMA HandleFinalStep ==
  ASSUME IInv, NEW p \in Peer, NEW m \in net, HandleFinal(p, m)
  PROVE  IInv'
<1> DEFINE i == getClientRequestInfo(p, m)
           e == infoList[p][i]
<1>1. i \in 1..Len(infoList[p])
  BY FoundByFinal DEF HandleFinal, IInv
<1>2. e.conn \in Request /\ e.caller = Client
  BY <1>1, EntryFields DEF IInv
<1>3. m.res \in Response
  BY FinalFields DEF HandleFinal, ReadFinal, IInv
<1>4. answer' \in [Request -> Response \cup {None}]
  BY <1>2, <1>3 DEF HandleFinal, ToClient, IInv, TypeOK
<1>5. net' \subseteq net /\ call' = call
  BY <1>2 DEF HandleFinal, ToPeer
<1>6. net' \in SUBSET Message /\ Called' /\ NeverMisrouted' /\ OneUnderWay'
  BY <1>5, Consume
<1>7. OnlyClientsWait'
  <2>1. infoList[p] \in Seq(LocalEntry)
    BY DEF IInv, OnlyClientsWait
  <2>2. RemoveAt(infoList[p], i) \in Seq(LocalEntry)
    BY <1>1, <2>1, RemoveAtType
  <2>3. infoList' = [infoList EXCEPT ![p] = RemoveAt(infoList[p], i)]
    BY DEF HandleFinal
  <2>4. QED
    BY <2>2, <2>3 DEF IInv, OnlyClientsWait
<1>8. status' \in [Peer -> {"up", "hung", "down"}]
  BY DEF HandleFinal, IInv, TypeOK
<1>9. Placement' /\ hTab' \in [Peer -> [Key -> Value \cup {None}]]
  BY DEF HandleFinal, IInv, TypeOK, Placement
<1>10. QED
  BY <1>4, <1>6, <1>7, <1>8, <1>9, Assemble DEF HandleFinal, IInv, TypeOK

LEMMA StopStep ==
  ASSUME IInv, NEW p \in Peer, ReadEOF(p) \/ \E m \in net : StrayFinal(p, m)
  PROVE  IInv'
<1>1. /\ net' \subseteq net /\ call' = call /\ infoList' = infoList /\ clash' = clash
      /\ status' \in [Peer -> {"up", "hung", "down"}]
      /\ UNCHANGED <<hTab, call, answer, gone>>
  BY DEF ReadEOF, StrayFinal, IInv, TypeOK
<1>2. net' \in SUBSET Message /\ Called' /\ NeverMisrouted' /\ OneUnderWay'
  BY <1>1, Consume
<1>3. QED
  BY <1>1, <1>2, RestKept, Assemble DEF IInv, TypeOK, OnlyClientsWait

-----------------------------------------------------------------------------
LEMMA InitInv == Init => IInv
<1> SUFFICES ASSUME Init PROVE IInv
  OBVIOUS
<1>1. OnlyClientsWait
  BY EmptySeq DEF Init, OnlyClientsWait
<1>2. TypeOK
  BY <1>1, ListType DEF Init, TypeOK
<1>3. QED
  BY <1>1, <1>2 DEF Init, IInv, Called, NeverMisrouted, Placement, OneUnderWay

LEMMA NextInv == IInv /\ [Next]_vars => IInv'
<1> SUFFICES ASSUME IInv, [Next]_vars PROVE IInv'
  OBVIOUS
<1>1. CASE UNCHANGED vars
  BY <1>1, Consume, RestKept, Assemble DEF vars, IInv, TypeOK, OnlyClientsWait
<1>2. ASSUME NEW r \in Request, ClientSend(r) \/ ClientAbort(r) PROVE IInv'
  BY <1>2, SendStep, AbortStep
<1>3. ASSUME NEW p \in Peer, ReadEOF(p) PROVE IInv'
  BY <1>3, StopStep
<1>4. ASSUME NEW p \in Peer, NEW m \in net, Handle(p, m) PROVE IInv'
  BY <1>4, HashHereStep, HashNextStep, HashUnknownStep, LookupNextStep, LookupOnStep,
     HandleReplyStep, HandleFinalStep, StopStep DEF Handle
<1>5. QED
  BY <1>1, <1>2, <1>3, <1>4 DEF Next

LEMMA Invariant == Spec => []IInv
BY InitInv, NextInv, PTL DEF Spec

\* Every variable keeps its type, for any ring and any requests.
THEOREM TypeCorrect == Spec => []TypeOK
BY Invariant, PTL DEF IInv

\* DHT/peer.c:231 is right: a LOOKUP never reaches the peer in charge, and
\* REPLYs and forwarded requests always name it.
THEOREM RoutingCorrect == Spec => []NeverMisrouted
BY Invariant, PTL DEF IInv

\* No request is under way twice, whatever entries the REPLYs and FINALs find.
THEOREM NoDuplicates == Spec => []OneUnderWay
BY Invariant, PTL DEF IInv

-----------------------------------------------------------------------------
(* Who is in charge.                                                       *)

LEMMA InChargeIsArc ==
  ASSUME NEW p \in Peer, NEW h
  PROVE  Check(p, h) = thisPeer <=> InArc(prevID[p], p, h)
BY DEF Check, checkPeer, thisPeer, nextPeer, unknownPeer

\* The predecessor of a peer is the next lower one, or the highest one if the
\* peer is the lowest.
LEMMA Predecessor ==
  ASSUME NEW p \in Peer
  PROVE  \/ prevID[p] < p /\ \A q \in Peer : q <= prevID[p] \/ q >= p
         \/ prevID[p] > p /\ \A q \in Peer : q <= prevID[p] /\ q >= p
<1>1. prevID[p] \in Peer /\ nextID[prevID[p]] = p
  BY Neighbours
<1>2. QED
  BY <1>1, RingAssumption

LEMMA SomeoneInCharge ==
  ASSUME NEW h \in Nat, h # Min(Peer)
  PROVE  \E p \in Peer : Check(p, h) = thisPeer
<1> DEFINE U == {q \in Peer : q >= h}
<1>1. Peer \subseteq Nat /\ Peer # {}
  BY RingAssumption
<1>2. Min(Peer) \in Peer /\ \A q \in Peer : Min(Peer) <= q
  BY <1>1, SmallestNat
<1>3. CASE U # {}
  <2>1. U \subseteq Nat
    BY <1>1
  <2>2. Min(U) \in U /\ \A q \in U : Min(U) <= q
    BY <1>3, <2>1, SmallestNat
  <2> DEFINE p == Min(U)
  <2>3. p \in Peer /\ p >= h /\ prevID[p] \in Peer /\ prevID[p] \in Nat /\ p \in Nat
    BY <2>2, Neighbours
  <2>4. CASE prevID[p] < p
    <3>1. prevID[p] < h
      BY <2>2, <2>3, <2>4
    <3>2. InArc(prevID[p], p, h)
      BY <2>3, <3>1 DEF InArc
    <3>3. QED
      BY <2>3, <3>2, InChargeIsArc
  <2>5. CASE ~(prevID[p] < p)
    <3>1. prevID[p] > p /\ \A q \in Peer : q >= p
      BY <2>3, <2>5, Predecessor
    <3>2. p = Min(Peer)
      <4>1. Min(Peer) \in Nat /\ Min(Peer) <= p /\ Min(Peer) >= p
        BY <1>1, <1>2, <2>3, <3>1
      <4>2. QED
        BY <2>3, <4>1
    <3>3. InArc(prevID[p], p, h)
      BY <2>3, <3>1, <3>2 DEF InArc
    <3>4. QED
      BY <2>3, <3>3, InChargeIsArc
  <2>6. QED
    BY <2>4, <2>5
<1>4. CASE U = {}
  <2> DEFINE p == Min(Peer)
  <2>1. p \in Peer /\ prevID[p] \in Peer /\ prevID[p] \in Nat /\ p \in Nat
    BY <1>2, Neighbours
  <2>2. prevID[p] < h
    BY <1>4, <2>1
  <2>3. prevID[p] > p
    BY <1>2, <2>1, Predecessor
  <2>4. InArc(prevID[p], p, h)
    BY <2>1, <2>2, <2>3 DEF InArc
  <2>5. QED
    BY <2>1, <2>4, InChargeIsArc
<1>5. QED
  BY <1>3, <1>4

LEMMA NobodyInCharge ==
  ASSUME NEW p \in Peer, Check(p, Min(Peer)) = thisPeer
  PROVE  FALSE
<1>1. Peer \subseteq Nat /\ Peer # {}
  BY RingAssumption
<1>2. Min(Peer) \in Peer /\ Min(Peer) \in Nat /\ \A q \in Peer : Min(Peer) <= q
  BY <1>1, SmallestNat
<1>3. InArc(prevID[p], p, Min(Peer))
  BY InChargeIsArc
<1>4. prevID[p] \in Peer /\ prevID[p] \in Nat /\ p \in Nat
  BY Neighbours
<1>5. prevID[p] > p /\ Min(Peer) < p
  BY <1>2, <1>3, <1>4, Predecessor DEF InArc
<1>6. QED
  BY <1>2, <1>4, <1>5, Predecessor

\* Every key has exactly one peer in charge, however the ring is laid out,
\* except those that hash to the smallest node ID, which have none: there the
\* strict comparison of checkPeer (dht.c:36) leaves a gap.
THEOREM ExactlyOneInCharge ==
  ASSUME NEW k \in Key
  PROVE  /\ Owned(k) <=> Hash(hashID[k]) # Min(Peer)
         /\ \A p, q \in Peer : InCharge(p, k) /\ InCharge(q, k) => p = q
<1> DEFINE h == Hash(hashID[k])
<1>1. h \in Nat
  BY HashIsNat, InputAssumption
<1>2. Owned(k) <=> h # Min(Peer)
  BY <1>1, SomeoneInCharge, NobodyInCharge DEF Owned, InCharge
<1>3. ASSUME NEW p \in Peer, NEW q \in Peer, InCharge(p, k), InCharge(q, k)
      PROVE  p = q
  <2>1. InArc(prevID[p], p, h) /\ InArc(prevID[q], q, h)
    BY <1>3, InChargeIsArc DEF InCharge
  <2>2. p \in Nat /\ q \in Nat
    BY Neighbours
  <2>3. QED
    BY <1>1, <2>1, <2>2, AtMostOne
<1>4. QED
  BY <1>2, <1>3

\* There is never a second copy of a value, at another peer, that a later SET or
\* DEL would miss: no two arcs overlap (checkPeer, dht.c:36).
NoSecondCopy ==
  \A k \in Key, p, q \in Peer : hTab[p][k] # None /\ hTab[q][k] # None => p = q

THEOREM OneCopy == Spec => []NoSecondCopy
<1>1. IInv => NoSecondCopy
  <2> SUFFICES ASSUME IInv, NEW k \in Key, NEW p \in Peer, NEW q \in Peer,
                      hTab[p][k] # None, hTab[q][k] # None
               PROVE  p = q
    BY DEF NoSecondCopy
  <2>1. InCharge(p, k) /\ InCharge(q, k)
    BY DEF IInv, Placement
  <2>2. QED
    BY <2>1, ExactlyOneInCharge
<1>2. QED
  BY <1>1, Invariant, PTL

-----------------------------------------------------------------------------
(* Answers.  What a client is told belongs to its request because a        *)
(* connection is the finalSocket of at most one entry, that of the request *)
(* which was forwarded on it: also after requests have been confused.      *)

Waiting(p) == Range(infoList[p])
ID(e) == hashID[e.call.key]

\* Somebody has set this value for this key.
Stored(k, v) ==
  \E s \in Request : call[s] # None /\ call[s].key = k /\ call[s].val = v

\* A response that may be given to this call.
Tells(res, c) == /\ res.op = c.op /\ res.key \in {None, c.key}
                 /\ res.val # None => Stored(c.key, res.val)

EntriesKept == \A p \in Peer : \A e \in Waiting(p) :
  /\ call[e.conn] = e.call
  /\ e.final # None => call[e.final] # None

HashesKept == \A m \in net : m.type = "HASH" =>
  /\ m.from = Client => call[m.conn] = m.call
  /\ \E s \in Request : call[s] = m.call

ValuesStored == \A p \in Peer, k \in Key : hTab[p][k] # None => Stored(k, hTab[p][k])

FinalsMatch == \A m \in net, p \in Peer : \A e \in Waiting(p) : e.final = m.conn =>
  \/ m.type = "HASH" /\ m.from = p /\ m.call = e.call
  \/ m.type = "FINAL" /\ m.to = p /\ Tells(m.res, e.call)

AInv == EntriesKept /\ HashesKept /\ ValuesStored /\ FinalsMatch /\ AnswersMatchCalls

LEMMA WaitingFields ==
  ASSUME OnlyClientsWait, NEW p \in Peer
  PROVE  /\ infoList[p] \in Seq(LocalEntry)
         /\ \A i \in 1..Len(infoList[p]) : infoList[p][i] \in Waiting(p)
         /\ \A e \in Waiting(p) : /\ e \in LocalEntry /\ e.conn \in Request
                                  /\ e.caller = Client /\ e.call \in Call
                                  /\ e.final \in Request \cup {None}
<1>1. infoList[p] \in Seq(LocalEntry)
  BY DEF OnlyClientsWait
<1>2. DOMAIN infoList[p] = 1..Len(infoList[p])
  BY <1>1, LenProperties
<1>3. Waiting(p) \subseteq LocalEntry
  BY <1>1, RangeOfSeq DEF Waiting
<1>4. QED
  BY <1>1, <1>2, <1>3 DEF Waiting, Range, LocalEntry, InfoEntry

LEMMA CallIsNotNone == \A c \in Call : c # None
BY InputAssumption

LEMMA ConnIsNotNone == \A r \in Request : r # None
BY InputAssumption

\* What the two searches of the list find, and that they find it.
LEMMA SearchByID ==
  ASSUME OnlyClientsWait, NEW p \in Peer, NEW id
  PROVE  LET i == findHashRequestInfo(p, id) IN
         /\ i # 0 => /\ i \in 1..Len(infoList[p]) /\ infoList[p][i] \in Waiting(p)
                     /\ ID(infoList[p][i]) = id
         /\ (\E e \in Waiting(p) : ID(e) = id) => i # 0
<1> DEFINE M == {i \in 1..Len(infoList[p]) : hashID[infoList[p][i].call.key] = id}
<1>1. findHashRequestInfo(p, id) = IF M # {} THEN Min(M) ELSE 0
  BY DEF findHashRequestInfo, SelectInSeq
<1>2. Len(infoList[p]) \in Nat /\ DOMAIN infoList[p] = 1..Len(infoList[p])
  BY WaitingFields, LenProperties
<1>3. M # {} => Min(M) \in 1..Len(infoList[p]) /\ Min(M) \in M
  <2>1. M \subseteq 1..Len(infoList[p])
    OBVIOUS
  <2> HIDE DEF M
  <2>2. QED
    BY <1>2, <2>1, FirstMatch
<1>4. (\E e \in Waiting(p) : ID(e) = id) => M # {}
  BY <1>2 DEF Waiting, Range, ID
<1>5. \A i \in M : infoList[p][i] \in Waiting(p) /\ ID(infoList[p][i]) = id
  BY WaitingFields DEF ID
<1> HIDE DEF M
<1>6. QED
  BY <1>1, <1>2, <1>3, <1>4, <1>5

LEMMA SearchByFinal ==
  ASSUME OnlyClientsWait, NEW p \in Peer, NEW m
  PROVE  LET i == getClientRequestInfo(p, m) IN
         /\ i # 0 => /\ i \in 1..Len(infoList[p]) /\ infoList[p][i] \in Waiting(p)
                     /\ infoList[p][i].final = m.conn
                     /\ infoList[p][i].call.op = m.res.op
         /\ (\E e \in Waiting(p) : e.final = m.conn /\ e.call.op = m.res.op) => i # 0
<1> DEFINE M == {i \in 1..Len(infoList[p]) :
                   infoList[p][i].final = m.conn /\ infoList[p][i].call.op = m.res.op}
<1>1. getClientRequestInfo(p, m) = IF M # {} THEN Min(M) ELSE 0
  BY DEF getClientRequestInfo, SelectInSeq
<1>2. Len(infoList[p]) \in Nat /\ DOMAIN infoList[p] = 1..Len(infoList[p])
  BY WaitingFields, LenProperties
<1>3. M # {} => Min(M) \in 1..Len(infoList[p]) /\ Min(M) \in M
  <2>1. M \subseteq 1..Len(infoList[p])
    OBVIOUS
  <2> HIDE DEF M
  <2>2. QED
    BY <1>2, <2>1, FirstMatch
<1>4. (\E e \in Waiting(p) : e.final = m.conn /\ e.call.op = m.res.op) => M # {}
  BY <1>2 DEF Waiting, Range
<1>5. \A i \in M : /\ infoList[p][i] \in Waiting(p) /\ infoList[p][i].final = m.conn
                   /\ infoList[p][i].call.op = m.res.op
  BY WaitingFields
<1> HIDE DEF M
<1>6. QED
  BY <1>1, <1>2, <1>3, <1>4, <1>5

\* What becomes of the sets of entries when a list changes.
LEMMA ListAppend ==
  ASSUME OnlyClientsWait, NEW p \in Peer, NEW e \in LocalEntry,
         infoList' = [infoList EXCEPT ![p] = Append(@, e)]
  PROVE  \A q \in Peer : Waiting(q)' = IF q = p THEN Waiting(p) \cup {e} ELSE Waiting(q)
<1>1. infoList \in [Peer -> Seq(LocalEntry)] /\ infoList[p] \in Seq(LocalEntry)
  BY DEF OnlyClientsWait
<1>2. Range(Append(infoList[p], e)) = Range(infoList[p]) \cup {e}
  BY <1>1, AppendRange
<1>3. QED
  BY <1>1, <1>2 DEF Waiting

\* setFinalSocket: the entry as it is once its request has been forwarded.
Forwarded(e, c) == [e EXCEPT !.final = c]
SetsFinal(p, i, c) == infoList' = [infoList EXCEPT ![p][i].final = c]

LEMMA ListReplace ==
  ASSUME OnlyClientsWait, NEW p \in Peer, NEW i \in 1..Len(infoList[p]), NEW c \in Request,
         SetsFinal(p, i, c)
  PROVE  LET e == infoList[p][i]
             f == Forwarded(e, c) IN
         /\ f \in LocalEntry /\ f.conn = e.conn /\ f.call = e.call /\ f.final = c
         /\ infoList'[p] = [infoList[p] EXCEPT ![i] = f]
         /\ \A q \in Peer \ {p} : infoList'[q] = infoList[q] /\ Waiting(q)' = Waiting(q)
         /\ Waiting(p)' \subseteq Waiting(p) \cup {f}
         /\ (Waiting(p) \ {e}) \cup {f} \subseteq Waiting(p)'
<1> DEFINE e == infoList[p][i]
           f == Forwarded(e, c)
<1>1. infoList \in [Peer -> Seq(LocalEntry)] /\ infoList[p] \in Seq(LocalEntry)
  BY DEF OnlyClientsWait
<1>2. e \in LocalEntry
  BY <1>1, ElementOfSeq
<1>3. f \in LocalEntry /\ f.conn = e.conn /\ f.call = e.call /\ f.final = c
  BY <1>2 DEF LocalEntry, InfoEntry, Forwarded
<1>4. infoList' = [infoList EXCEPT ![p] = [infoList[p] EXCEPT ![i] = f]]
  BY Zenon DEF Forwarded, SetsFinal
<1> HIDE DEF f
<1>5. infoList'[p] = [infoList[p] EXCEPT ![i] = f] /\ \A q \in Peer \ {p} : infoList'[q] = infoList[q]
  BY <1>1, <1>4
<1>6. /\ Range([infoList[p] EXCEPT ![i] = f]) \subseteq Range(infoList[p]) \cup {f}
      /\ (Range(infoList[p]) \ {infoList[p][i]}) \cup {f}
           \subseteq Range([infoList[p] EXCEPT ![i] = f])
  BY <1>1, <1>3, ExceptRange
<1>7. QED
  BY <1>3, <1>5, <1>6 DEF Waiting, f

LEMMA ListRemove ==
  ASSUME OnlyClientsWait, NEW p \in Peer, NEW i \in 1..Len(infoList[p]),
         infoList' = [infoList EXCEPT ![p] = RemoveAt(@, i)]
  PROVE  /\ \A q \in Peer \ {p} : infoList'[q] = infoList[q] /\ Waiting(q)' = Waiting(q)
         /\ infoList'[p] = RemoveAt(infoList[p], i)
         /\ Waiting(p)' \subseteq Waiting(p)
         /\ Waiting(p) \ {infoList[p][i]} \subseteq Waiting(p)'
<1>1. infoList \in [Peer -> Seq(LocalEntry)] /\ infoList[p] \in Seq(LocalEntry)
  BY DEF OnlyClientsWait
<1>2. /\ Range(RemoveAt(infoList[p], i)) \subseteq Range(infoList[p])
      /\ Range(infoList[p]) \ {infoList[p][i]} \subseteq Range(RemoveAt(infoList[p], i))
  BY <1>1, RemoveAtRange
<1>3. /\ infoList'[p] = RemoveAt(infoList[p], i)
      /\ \A q \in Peer \ {p} : infoList'[q] = infoList[q]
  BY <1>1
<1>4. QED
  BY <1>2, <1>3 DEF Waiting
\* What a request does to the values and what its response may say.
LEMMA ApplyAndResult ==
  ASSUME NEW tab \in [Key -> Value \cup {None}], NEW c \in Call
  PROVE  /\ \A k \in Key : Apply(tab, c)[k] # None =>
              \/ tab[k] # None /\ Apply(tab, c)[k] = tab[k]
              \/ k = c.key /\ Apply(tab, c)[k] = c.val
         /\ Result(tab, c) # None
         /\ Result(tab, c).op = c.op /\ Result(tab, c).key \in {None, c.key}
         /\ Result(tab, c).val # None =>
              tab[c.key] # None /\ Result(tab, c).val = tab[c.key]
<1>1. c.key \in Key /\ c.op \in {"SET", "GET", "DEL"}
  BY CallKey
<1>2. \A k \in Key : Apply(tab, c)[k] # None =>
        \/ tab[k] # None /\ Apply(tab, c)[k] = tab[k]
        \/ k = c.key /\ Apply(tab, c)[k] = c.val
  BY <1>1 DEF Apply
<1>3. Result(tab, c) # None
  BY TableType, InputAssumption
<1>4. QED
  BY <1>1, <1>2, <1>3 DEF Result

LEMMA AnswersAreTold ==
  AnswersMatchCalls <=>
    \A r \in Request : answer[r] # None => call[r] # None /\ Tells(answer[r], call[r])
BY DEF AnswersMatchCalls, Tells, Stored

LEMMA AnswersInit == Init => AInv
<1> SUFFICES ASSUME Init PROVE AInv
  OBVIOUS
<1>1. \A p \in Peer : Waiting(p) = {}
  BY DEF Init, Waiting, Range
<1>2. QED
  BY <1>1 DEF Init, AInv, EntriesKept, HashesKept, ValuesStored, FinalsMatch,
              AnswersMatchCalls

\* A step that leaves the tables, the calls and the answers alone.
LEMMA AnswersFramed ==
  ASSUME AInv, UNCHANGED <<hTab, call, answer>>, EntriesKept', HashesKept', FinalsMatch'
  PROVE  AInv'
BY DEF AInv, ValuesStored, Stored, AnswersMatchCalls

\* A message of the search for the peer in charge is read: it is nobody's
\* forwarded connection, and what replaces it is not either.
LEMMA AnswersRouted ==
  ASSUME AInv, UNCHANGED <<infoList, hTab, call, answer>>,
         \/ net' \subseteq net
         \/ \E m \in net : \E o : /\ m.type \in {"LOOKUP", "REPLY"}
                                  /\ o.type \in {"LOOKUP", "REPLY"} /\ o.conn = m.conn
                                  /\ net' \subseteq (net \ {m}) \cup {o}
  PROVE  AInv'
<1>1. EntriesKept'
  BY DEF AInv, EntriesKept, Waiting
<1>2. HashesKept'
  BY DEF AInv, HashesKept
<1>3. FinalsMatch'
  <2>1. \A p \in Peer : Waiting(p)' = Waiting(p)
    BY DEF Waiting
  <2>2. \A res, c : Tells(res, c)' = Tells(res, c)
    BY DEF Tells, Stored
  <2>3. CASE net' \subseteq net
    BY <2>1, <2>2, <2>3 DEF AInv, FinalsMatch
  <2>4. ASSUME NEW m \in net, NEW o, m.type \in {"LOOKUP", "REPLY"}, o.conn = m.conn,
               net' \subseteq (net \ {m}) \cup {o}
        PROVE  FinalsMatch'
    <3>1. \A p \in Peer : \A e \in Waiting(p) : e.final # o.conn
      BY <2>4 DEF AInv, FinalsMatch
    <3>2. QED
      BY <2>1, <2>2, <2>4, <3>1 DEF AInv, FinalsMatch
  <2>5. QED
    BY <2>3, <2>4
<1>4. QED
  BY <1>1, <1>2, <1>3, AnswersFramed

LEMMA SendAnswers ==
  ASSUME IInv, AInv, NEW r \in Request, ClientSend(r)
  PROVE  AInv'
<1>1. PICK c \in Call, p \in Entry[r] :
        /\ call' = [call EXCEPT ![r] = c]
        /\ net' = net \cup {[type |-> "HASH", conn |-> r, from |-> Client,
                             to |-> p, call |-> c]}
  BY DEF ClientSend
<1> DEFINE h == [type |-> "HASH", conn |-> r, from |-> Client, to |-> p, call |-> c]
<1>2. call \in [Request -> Call \cup {None}] /\ call[r] = None /\ c # None
  BY CallIsNotNone DEF IInv, TypeOK, ClientSend
<1>3. UNCHANGED <<infoList, hTab, answer>>
  BY DEF ClientSend
<1>4. /\ \A s \in Request : s # r => call'[s] = call[s]
      /\ call'[r] = c
  BY <1>1, <1>2
<1>5. \A q \in Peer : /\ Waiting(q)' = Waiting(q)
                      /\ \A e \in Waiting(q) : /\ e.conn \in Request /\ e.call # None
                                               /\ e.final \in Request \cup {None}
  BY <1>3, WaitingFields, CallIsNotNone DEF Waiting, IInv
<1>6. \A k, v : Stored(k, v) => Stored(k, v)'
  BY <1>2, <1>4 DEF Stored
<1>7. \A res, d : Tells(res, d) => Tells(res, d)'
  BY <1>6 DEF Tells
<1>8. \A m \in net : m.conn # r
  BY <1>2 DEF IInv, Called
<1>9. EntriesKept'
  BY <1>2, <1>4, <1>5 DEF AInv, EntriesKept
<1>10. HashesKept'
  <2>1. ASSUME NEW m \in net, m.type = "HASH"
        PROVE  /\ m.from = Client => call'[m.conn] = m.call
               /\ \E s \in Request : call'[s] = m.call
    <3>1. m.conn \in Request /\ m.call # None
      BY <2>1, HashFields, CallIsNotNone DEF IInv
    <3>2. QED
      BY <1>2, <1>4, <1>8, <2>1, <3>1 DEF AInv, HashesKept
  <2>2. /\ h.from = Client => call'[h.conn] = h.call
        /\ \E s \in Request : call'[s] = h.call
    BY <1>4
  <2>3. QED
    BY <1>1, <2>1, <2>2 DEF HashesKept
<1>11. ValuesStored'
  BY <1>3, <1>6 DEF AInv, ValuesStored
<1>12. FinalsMatch'
  <2>1. \A q \in Peer : \A e \in Waiting(q) : e.final # r
    BY <1>2, <1>5, ConnIsNotNone DEF AInv, EntriesKept
  <2>2. QED
    BY <1>1, <1>5, <1>7, <2>1 DEF AInv, FinalsMatch
<1>13. AnswersMatchCalls'
  BY <1>2, <1>3, <1>4, <1>6 DEF AInv, AnswersMatchCalls, Stored
<1>14. QED
  BY <1>9, <1>10, <1>11, <1>12, <1>13 DEF AInv

\* The request is executed: its response may be given to its call, and travels
\* on the connection the request came on.
LEMMA HashHereAnswers ==
  ASSUME IInv, AInv, NEW p \in Peer, NEW m \in net, HashHere(p, m)
  PROVE  AInv'
<1> DEFINE res == Result(hTab[p], m.call)
           f == [type |-> "FINAL", conn |-> m.conn, to |-> m.from, res |-> res]
<1>1. /\ m.type = "HASH" /\ m.conn \in Request /\ m.call \in Call
      /\ m.from \in Peer \cup {Client} /\ m.call.key \in Key
  BY HashFields, CallKey DEF IInv, HashHere, ReadHash
<1>2. hTab \in [Peer -> [Key -> Value \cup {None}]]
  BY DEF IInv, TypeOK
<1>3. UNCHANGED <<infoList, call>> /\ net' \subseteq (net \ {m}) \cup {f}
  BY DEF HashHere, ToPeer
<1>4. /\ \A q \in Peer : Waiting(q)' = Waiting(q)
      /\ \A k, v : Stored(k, v)' = Stored(k, v)
      /\ \A x, c : Tells(x, c)' = Tells(x, c)
  BY <1>3 DEF Waiting, Stored, Tells
<1>5. PICK s \in Request : call[s] = m.call
  BY <1>1 DEF AInv, HashesKept
<1>6. Stored(m.call.key, m.call.val)
  BY <1>1, <1>5, CallIsNotNone DEF Stored
<1>7. Tells(res, m.call)
  <2>1. /\ res.op = m.call.op /\ res.key \in {None, m.call.key}
        /\ res.val # None => hTab[p][m.call.key] # None /\ res.val = hTab[p][m.call.key]
    BY <1>1, <1>2, ApplyAndResult
  <2>2. QED
    BY <1>1, <2>1 DEF Tells, AInv, ValuesStored
<1>8. EntriesKept'
  BY <1>3, <1>4 DEF AInv, EntriesKept
<1>9. HashesKept'
  BY <1>3 DEF AInv, HashesKept
<1>10. ValuesStored'
  <2> SUFFICES ASSUME NEW q \in Peer, NEW k \in Key, hTab'[q][k] # None
               PROVE  Stored(k, hTab'[q][k])
    BY <1>4 DEF ValuesStored
  <2>1. hTab'[q] = IF q = p THEN Apply(hTab[p], m.call) ELSE hTab[q]
    BY <1>2 DEF HashHere
  <2>2. CASE q = p /\ hTab[p][k] # None /\ hTab'[p][k] = hTab[p][k]
    BY <2>2 DEF AInv, ValuesStored
  <2>3. CASE q = p /\ k = m.call.key /\ hTab'[p][k] = m.call.val
    BY <1>6, <2>3
  <2>4. CASE q # p
    BY <2>1, <2>4 DEF AInv, ValuesStored
  <2>5. QED
    BY <1>1, <1>2, <2>1, <2>2, <2>3, <2>4, ApplyAndResult
<1>11. FinalsMatch'
  <2> SUFFICES ASSUME NEW n \in net', NEW q \in Peer, NEW e \in Waiting(q), e.final = n.conn
               PROVE  \/ n.type = "HASH" /\ n.from = q /\ n.call = e.call
                      \/ n.type = "FINAL" /\ n.to = q /\ Tells(n.res, e.call)
    BY <1>4 DEF FinalsMatch
  <2>1. CASE n \in net
    BY <2>1 DEF AInv, FinalsMatch
  <2>2. CASE n = f
    <3>1. m.from = q /\ m.call = e.call
      BY <1>1, <2>2 DEF AInv, FinalsMatch
    <3>2. QED
      BY <1>7, <2>2, <3>1
  <2>3. QED
    BY <1>3, <2>1, <2>2
<1>12. AnswersMatchCalls'
  <2>1. \A r \in Request : answer[r] # None => call[r] # None /\ Tells(answer[r], call[r])
    BY AnswersAreTold DEF AInv
  <2>2. m.from = Client => call[m.conn] = m.call /\ m.call # None
    BY <1>1, CallIsNotNone DEF AInv, HashesKept
  <2>3. \A r \in Request : answer'[r] = IF r = m.conn /\ m.from = Client THEN res ELSE answer[r]
    BY DEF HashHere, ToClient, IInv, TypeOK
  <2>4. \A r \in Request : answer'[r] # None => call'[r] # None /\ Tells(answer'[r], call'[r])
    BY <1>3, <1>7, <2>1, <2>2, <2>3
  <2>5. \A r \in Request : answer'[r] # None => call'[r] # None /\ Tells(answer[r], call[r])'
    BY <1>3, <1>4, <2>4
  <2>6. QED
    BY <2>5 DEF AnswersMatchCalls, Tells, Stored
<1>13. QED
  BY <1>8, <1>9, <1>10, <1>11, <1>12 DEF AInv

\* A request of a client joins the list: its connection is nobody's
\* finalSocket yet.
LEMMA NobodysFinal ==
  ASSUME AInv, NEW m \in net, m.type \in {"LOOKUP", "REPLY"} \/ (m.type = "HASH" /\ m.from = Client)
  PROVE  \A q \in Peer : \A e \in Waiting(q) : e.final # m.conn
BY InputAssumption DEF AInv, FinalsMatch

\* p reads the request m of a client, puts e in its list and sends o.
Enlists(p, m, e, o) ==
  /\ m \in net /\ m.type = "HASH" /\ m.from = Client
  /\ e \in LocalEntry /\ e.conn = m.conn /\ e.call = m.call /\ e.final \in {None, m.conn}
  /\ infoList' = [infoList EXCEPT ![p] = Append(@, e)]
  /\ o.conn = m.conn /\ net' \subseteq (net \ {m}) \cup {o}
  /\ o.type = "HASH" => o.from = p /\ o.call = m.call
  /\ e.final = m.conn => o.type = "HASH"
  /\ UNCHANGED <<hTab, call, answer>>

LEMMA JoinsTheList ==
  ASSUME IInv, AInv, NEW p \in Peer, NEW m, NEW e, NEW o, Enlists(p, m, e, o)
  PROVE  AInv'
<1> USE DEF Enlists
<1>1. m.conn \in Request /\ m.call \in Call /\ call[m.conn] = m.call
  BY HashFields DEF IInv, AInv, HashesKept
<1>2. \A q \in Peer : Waiting(q)' = IF q = p THEN Waiting(p) \cup {e} ELSE Waiting(q)
  BY ListAppend DEF IInv
<1>3. \A x, c : Tells(x, c)' = Tells(x, c)
  BY DEF Tells, Stored
<1>4. EntriesKept'
  <2>1. call[e.conn] = e.call /\ (e.final # None => call[e.final] # None)
    BY <1>1, CallIsNotNone
  <2>2. QED
    BY <1>2, <2>1 DEF AInv, EntriesKept
<1>5. HashesKept'
  BY <1>1, InputAssumption DEF AInv, HashesKept
<1>6. FinalsMatch'
  <2> SUFFICES ASSUME NEW n \in net', NEW q \in Peer, NEW g \in Waiting(q)', g.final = n.conn
               PROVE  \/ n.type = "HASH" /\ n.from = q /\ n.call = g.call
                      \/ n.type = "FINAL" /\ n.to = q /\ Tells(n.res, g.call)
    BY <1>3 DEF FinalsMatch
  <2>1. n \in net \ {m} \/ n = o
    OBVIOUS
  <2>2. g \in Waiting(q) \/ (g = e /\ q = p)
    BY <1>2
  <2>3. CASE n = o
    BY <2>2, <2>3, NobodysFinal
  <2>4. CASE n \in net \ {m}
    <3>1. n.conn \in Request /\ n.conn # None /\ n.conn # m.conn
      BY <2>4, InputAssumption DEF IInv, OneUnderWay, TypeOK, Message
    <3>2. g # e
      BY <3>1
    <3>3. QED
      BY <2>2, <2>4, <3>2 DEF AInv, FinalsMatch
  <2>5. QED
    BY <2>1, <2>3, <2>4
<1>7. QED
  BY <1>4, <1>5, <1>6, AnswersFramed

LEMMA NextEnlists ==
  ASSUME IInv, NEW p \in Peer, NEW m \in net, HashNext(p, m)
  PROVE  Enlists(p, m, [Info(m) EXCEPT !.final = IF Connects(nextID[p]) THEN m.conn ELSE None],
                 [type |-> "HASH", conn |-> m.conn, from |-> p, to |-> nextID[p],
                  call |-> m.call])
<1> DEFINE o == [type |-> "HASH", conn |-> m.conn, from |-> p,
                 to |-> nextID[p], call |-> m.call]
           e == [Info(m) EXCEPT !.final = IF Connects(nextID[p]) THEN m.conn ELSE None]
<1>1. ReadHash(p, m) /\ ~InCharge(p, m.call.key)
  BY DEF HashNext, InCharge, thisPeer, nextPeer
<1>2. m.type = "HASH" /\ m.from = Client /\ Info(m) \in LocalEntry /\ m.conn \in Request
  BY <1>1, FromClient DEF ReadHash
<1>3. e \in LocalEntry /\ e.conn = m.conn /\ e.call = m.call /\ e.final \in {None, m.conn}
  BY <1>2 DEF LocalEntry, InfoEntry, Info
<1>4. net' \subseteq (net \ {m}) \cup {o}
  BY PassNet DEF HashNext, IInv
<1>5. infoList' = [infoList EXCEPT ![p] = Append(@, e)] /\ UNCHANGED <<hTab, call, answer>>
  BY DEF HashNext
<1>6. QED
  BY <1>2, <1>3, <1>4, <1>5 DEF Enlists

LEMMA UnknownEnlists ==
  ASSUME IInv, NEW p \in Peer, NEW m \in net, HashUnknown(p, m)
  PROVE  Enlists(p, m, Info(m),
                 [type |-> "LOOKUP", conn |-> m.conn, orig |-> p, to |-> nextID[p],
                  id |-> hashID[m.call.key]])
<1> DEFINE o == [type |-> "LOOKUP", conn |-> m.conn, orig |-> p, to |-> nextID[p],
                 id |-> hashID[m.call.key]]
<1>1. ReadHash(p, m) /\ ~InCharge(p, m.call.key)
  BY DEF HashUnknown, InCharge, thisPeer, unknownPeer
<1>2. m.type = "HASH" /\ m.from = Client /\ Info(m) \in LocalEntry /\ m.conn \in Request
  BY <1>1, FromClient DEF ReadHash
<1>3. Info(m).conn = m.conn /\ Info(m).call = m.call /\ Info(m).final = None
  BY DEF Info
<1>4. net' \subseteq (net \ {m}) \cup {o}
  BY PassNet DEF HashUnknown, IInv
<1>5. infoList' = [infoList EXCEPT ![p] = Append(@, Info(m))] /\ UNCHANGED <<hTab, call, answer>>
  BY DEF HashUnknown
<1>6. QED
  BY <1>2, <1>3, <1>4, <1>5, ConnIsNotNone DEF Enlists

\* The entry a REPLY finds is given the connection the REPLY was asked for,
\* which is nobody's finalSocket until then.
LEMMA ReplyAnswers ==
  ASSUME IInv, AInv, NEW p \in Peer, NEW m \in net, HandleReply(p, m)
  PROVE  AInv'
<1> DEFINE i == findHashRequestInfo(p, m.id)
           e == infoList[p][i]
           f == Forwarded(e, m.conn)
           o == [type |-> "HASH", conn |-> m.conn, from |-> p, to |-> m.chosen, call |-> e.call]
<1>1. m.type = "REPLY" /\ m.conn \in Request /\ UNCHANGED <<hTab, call, answer>>
  BY ReplyFields DEF HandleReply, IInv
<1>2. CASE Connects(m.chosen) /\ i # 0
  <2>1. i \in 1..Len(infoList[p]) /\ e \in Waiting(p)
    BY <1>2, SearchByID DEF IInv
  <2>2. net' = (net \ {m}) \cup {o} /\ SetsFinal(p, i, m.conn)
    BY <1>2 DEF HandleReply, SetsFinal
  <2>3. e \in LocalEntry /\ e.conn \in Request /\ e.call \in Call /\ call[e.conn] = e.call
    BY <2>1, WaitingFields DEF IInv, AInv, EntriesKept
  <2>4. /\ f.conn = e.conn /\ f.call = e.call /\ f.final = m.conn
        /\ infoList'[p] = [infoList[p] EXCEPT ![i] = f]
        /\ \A q \in Peer \ {p} : infoList'[q] = infoList[q] /\ Waiting(q)' = Waiting(q)
        /\ Waiting(p)' \subseteq Waiting(p) \cup {f}
        /\ (Waiting(p) \ {e}) \cup {f} \subseteq Waiting(p)'
    <3>1. OnlyClientsWait
      BY DEF IInv
    <3> HIDE DEF i, o
    <3>2. QED
      BY <1>1, <2>1, <2>2, <3>1, ListReplace
  <2>5. o.type = "HASH" /\ o.from = p /\ o.from # Client /\ o.call = e.call /\ o.conn = m.conn
    BY InputAssumption
  <2> HIDE DEF f, e, o, i
  <2>6. EntriesKept'
    <3>1. call[m.conn] # None
      BY DEF IInv, Called
    <3>2. QED
      BY <1>1, <2>3, <2>4, <3>1 DEF AInv, EntriesKept
  <2>7. HashesKept'
    BY <1>1, <2>2, <2>3, <2>5 DEF AInv, HashesKept
  <2>8. FinalsMatch'
    <3> SUFFICES ASSUME NEW n \in net', NEW q \in Peer, NEW g \in Waiting(q)', g.final = n.conn
                 PROVE  \/ n.type = "HASH" /\ n.from = q /\ n.call = g.call
                        \/ n.type = "FINAL" /\ n.to = q /\ Tells(n.res, g.call)
      BY <1>1 DEF FinalsMatch, Tells, Stored
    <3>1. n \in net \ {m} \/ n = o
      BY <2>2
    <3>2. g \in Waiting(q) \/ (g = f /\ q = p)
      BY <2>4
    <3>3. CASE n = o
      BY <1>1, <2>4, <2>5, <3>2, <3>3, NobodysFinal
    <3>4. CASE n \in net \ {m}
      <4>1. n.conn # m.conn
        BY <3>4 DEF IInv, OneUnderWay
      <4>2. QED
        BY <2>4, <3>2, <3>4, <4>1 DEF AInv, FinalsMatch
    <3>5. QED
      BY <3>1, <3>3, <3>4
  <2>9. QED
    BY <1>1, <2>6, <2>7, <2>8, AnswersFramed
<1>3. CASE ~(Connects(m.chosen) /\ i # 0)
  <2>1. net' \subseteq net /\ infoList' = infoList
    BY <1>3 DEF HandleReply
  <2>2. QED
    BY <1>1, <2>1, AnswersRouted
<1>4. QED
  BY <1>2, <1>3

\* The response found by its connection is one for the call of the entry,
\* and the entry's connection is that of the client who made the call.
LEMMA FinalAnswers ==
  ASSUME IInv, AInv, NEW p \in Peer, NEW m \in net, HandleFinal(p, m)
  PROVE  AInv'
<1> DEFINE i == getClientRequestInfo(p, m)
           e == infoList[p][i]
<1>1. i # 0 /\ UNCHANGED <<hTab, call>> /\ infoList' = [infoList EXCEPT ![p] = RemoveAt(@, i)]
  BY DEF HandleFinal
<1>2. i \in 1..Len(infoList[p]) /\ e \in Waiting(p) /\ e.final = m.conn
  BY <1>1, SearchByFinal DEF IInv
<1>3. e.conn \in Request /\ e.caller = Client /\ e.call \in Call /\ call[e.conn] = e.call
  BY <1>2, WaitingFields DEF IInv, AInv, EntriesKept
<1>4. net' \subseteq net /\ answer' = [answer EXCEPT ![e.conn] = m.res]
  BY <1>3 DEF HandleFinal, ToClient, ToPeer
<1>5. \A q \in Peer : Waiting(q)' \subseteq Waiting(q)
  BY <1>1, <1>2, ListRemove DEF IInv
<1>6. m.type = "FINAL"
  BY DEF HandleFinal, ReadFinal
<1> HIDE DEF e, i
<1>7. Tells(m.res, e.call)
  BY <1>2, <1>6 DEF AInv, FinalsMatch
<1>8. \A x, c : Tells(x, c)' = Tells(x, c)
  BY <1>1 DEF Tells, Stored
<1>9. EntriesKept' /\ HashesKept' /\ ValuesStored'
  BY <1>1, <1>4, <1>5 DEF AInv, EntriesKept, HashesKept, ValuesStored, Stored
<1>10. FinalsMatch'
  BY <1>4, <1>5, <1>8 DEF AInv, FinalsMatch
<1>11. AnswersMatchCalls'
  <2>1. \A r \in Request : answer[r] # None => call[r] # None /\ Tells(answer[r], call[r])
    BY AnswersAreTold DEF AInv
  <2>2. \A r \in Request : answer'[r] = IF r = e.conn THEN m.res ELSE answer[r]
    BY <1>4 DEF IInv, TypeOK
  <2>3. \A r \in Request : answer'[r] # None => call'[r] # None /\ Tells(answer'[r], call'[r])
    BY <1>1, <1>3, <1>7, <2>1, <2>2, CallIsNotNone
  <2>4. QED
    BY <1>1, <2>3 DEF AnswersMatchCalls, Tells, Stored
<1>12. QED
  BY <1>9, <1>10, <1>11 DEF AInv

LEMMA LookupAnswers ==
  ASSUME IInv, AInv, NEW p \in Peer, NEW m \in net, LookupNext(p, m) \/ LookupOn(p, m)
  PROVE  AInv'
<1>1. m.type = "LOOKUP" /\ UNCHANGED <<infoList, hTab, call, answer>>
  BY DEF LookupNext, LookupOn, ReadLookup
<1>2. CASE LookupNext(p, m)
  BY <1>1, <1>2, PassNet, AnswersRouted DEF LookupNext, IInv
<1>3. CASE LookupOn(p, m)
  <2> DEFINE o == [m EXCEPT !.to = nextID[p]]
  <2>1. o.type = "LOOKUP" /\ o.conn = m.conn
    <3>1. m = [type |-> "LOOKUP", conn |-> m.conn, orig |-> m.orig, to |-> m.to, id |-> m.id]
      BY <1>1, LookupFields DEF IInv
    <3>2. QED
      BY <3>1
  <2>2. net' \subseteq net \/ net' \subseteq (net \ {m}) \cup {o}
    BY <1>3, PassNet DEF LookupOn, IInv
  <2> HIDE DEF o
  <2>3. QED
    BY <1>1, <2>1, <2>2, AnswersRouted
<1>4. QED
  BY <1>2, <1>3

LEMMA AnswersNext == IInv /\ AInv /\ [Next]_vars => AInv'
<1> SUFFICES ASSUME IInv, AInv, [Next]_vars PROVE AInv'
  OBVIOUS
<1>1. CASE UNCHANGED vars
  BY <1>1, AnswersRouted DEF vars
<1>2. ASSUME NEW r \in Request, ClientSend(r) \/ ClientAbort(r) PROVE AInv'
  BY <1>2, SendAnswers, AnswersRouted DEF ClientAbort
<1>3. ASSUME NEW p \in Peer, ReadEOF(p) PROVE AInv'
  BY <1>3, AnswersRouted DEF ReadEOF
<1>4. ASSUME NEW p \in Peer, NEW m \in net, Handle(p, m) PROVE AInv'
  <2>1. CASE HashNext(p, m) \/ HashUnknown(p, m)
    <3>1. \E e, o : Enlists(p, m, e, o)
      BY <2>1, NextEnlists, UnknownEnlists
    <3>2. QED
      BY <3>1, JoinsTheList
  <2>2. CASE StrayFinal(p, m)
    BY <2>2, AnswersRouted DEF StrayFinal
  <2>3. QED
    BY <1>4, <2>1, <2>2, HashHereAnswers, LookupAnswers, ReplyAnswers, FinalAnswers DEF Handle
<1>5. QED
  BY <1>1, <1>2, <1>3, <1>4 DEF Next

LEMMA AnswersInvariant == Spec => [](IInv /\ AInv)
<1>1. Init => IInv /\ AInv
  BY InitInv, AnswersInit
<1>2. IInv /\ AInv /\ [Next]_vars => (IInv /\ AInv)'
  BY NextInv, AnswersNext
<1>3. QED
  BY <1>1, <1>2, PTL DEF Spec

\* No client is told the outcome of another client's request: an answer has
\* the operation and the key that were asked for, and a value that somebody
\* stored for that key (getClientRequestInfo, dht.c, matches by finalSocket).
THEOREM AnswersCorrect == Spec => []AnswersMatchCalls
BY AnswersInvariant, PTL DEF AInv

-----------------------------------------------------------------------------
(* As long as two requests with one hash ID have not waited together, every *)
(* message finds the entry it was sent for, so nobody dereferences NULL.    *)

\* At p the request of connection c waits for the REPLY about id.
AwaitsReply(p, c, id) ==
  /\ Check(p, Hash(id)) = unknownPeer
  /\ \E e \in Waiting(p) : e.conn = c /\ ID(e) = id /\ e.final = None

Awaited(m) ==
  /\ m.type = "LOOKUP" => AwaitsReply(m.orig, m.conn, m.id)
  /\ m.type = "REPLY" => AwaitsReply(m.to, m.conn, m.id)
  /\ m.type = "HASH" /\ m.from # Client =>
       \E e \in Waiting(m.from) : e.final = m.conn /\ e.call = m.call
  /\ m.type = "FINAL" =>
       \E e \in Waiting(m.to) : e.final = m.conn /\ e.call.op = m.res.op

AllAwaited == \A m \in net : Awaited(m)

\* An entry is forwarded on the connection opened for it.
OwnConnection == \A p \in Peer : \A e \in Waiting(p) : e.final \in {None, e.conn}

\* Of the requests a peer sends LOOKUPs for, no two have one hash ID.
OneForEachID == \A p \in Peer : \A i, j \in DOMAIN infoList[p] :
  /\ ID(infoList[p][i]) = ID(infoList[p][j])
  /\ Check(p, Hash(ID(infoList[p][i]))) = unknownPeer
  => i = j

Unanswered == \A m \in net : answer[m.conn] = None

AllUp == gone = {} => \A p \in Peer : status[p] = "up"

BInv == clash = {} =>
          OwnConnection /\ OneForEachID /\ Unanswered /\ AllAwaited /\ AllUp

\* A message stays awaited as long as the entries of its connection stay.
LEMMA StaysAwaited ==
  ASSUME IInv, NEW n \in net, Awaited(n),
         \A q \in Peer : \A w \in Waiting(q) :
           w.conn = n.conn \/ w.final = n.conn => w \in Waiting(q)'
  PROVE  Awaited(n)'
<1>1. /\ n.type = "LOOKUP" => n.orig \in Peer
      /\ n.type = "REPLY" => n.to \in Peer
      /\ n.type = "HASH" /\ n.from # Client => n.from \in Peer
      /\ n.type = "FINAL" => n.to \in Peer
  BY DEF IInv, TypeOK, Message
<1>2. ASSUME n.type = "LOOKUP" PROVE AwaitsReply(n.orig, n.conn, n.id)'
  BY <1>1, <1>2 DEF Awaited, AwaitsReply, Check, Hash, ID
<1>3. ASSUME n.type = "REPLY" PROVE AwaitsReply(n.to, n.conn, n.id)'
  BY <1>1, <1>3 DEF Awaited, AwaitsReply, Check, Hash, ID
<1>4. ASSUME n.type = "HASH", n.from # Client
      PROVE  \E e \in Waiting(n.from)' : e.final = n.conn /\ e.call = n.call
  BY <1>1, <1>4 DEF Awaited
<1>5. ASSUME n.type = "FINAL"
      PROVE  \E e \in Waiting(n.to)' : e.final = n.conn /\ e.call.op = n.res.op
  BY <1>1, <1>5 DEF Awaited
<1>6. QED
  BY <1>2, <1>3, <1>4, <1>5 DEF Awaited

\* Passing a message on hangs nobody as long as no client has left.
LEMMA PassUp ==
  ASSUME AllUp, NEW p \in Peer, NEW m \in net, NEW o, o.to \in Peer, Pass(p, m, o), gone' = gone
  PROVE  /\ AllUp'
         /\ net' \subseteq (net \ {m}) \cup {o}
         /\ o \in net' \ (net \ {m}) => Connects(o.to)
BY DEF AllUp, Pass, Connects

LEMMA StepsInit == Init => BInv
<1> SUFFICES ASSUME Init PROVE BInv
  OBVIOUS
<1>1. \A p \in Peer : Waiting(p) = {} /\ DOMAIN infoList[p] = {}
  BY DEF Init, Waiting, Range
<1>2. QED
  BY <1>1 DEF Init, BInv, OwnConnection, OneForEachID, Unanswered, AllAwaited, AllUp

\* A step that leaves the lists alone and sends at most one message, which the
\* entry of the message it replaces awaits.
LEMMA StepsRouted ==
  ASSUME IInv, OwnConnection, OneForEachID, Unanswered, AllAwaited,
         UNCHANGED <<infoList, answer>>,
         NEW o, net' \subseteq net \cup {o},
         o \in net' \ net => Awaited(o) /\ answer[o.conn] = None
  PROVE  OwnConnection' /\ OneForEachID' /\ Unanswered' /\ AllAwaited'
<1>1. \A q \in Peer : Waiting(q)' = Waiting(q)
  BY DEF Waiting
<1>2. OwnConnection' /\ OneForEachID'
  BY <1>1 DEF OwnConnection, OneForEachID, ID, Check, Hash
<1>3. Unanswered'
  BY DEF Unanswered
<1>4. \A n : Awaited(n)' <=> Awaited(n)
  BY DEF Awaited, AwaitsReply, Waiting, Check, Hash, ID
<1>5. AllAwaited'
  BY <1>4 DEF AllAwaited
<1>6. QED
  BY <1>2, <1>3, <1>5

LEMMA SendSteps ==
  ASSUME IInv, AInv, BInv, NEW r \in Request, ClientSend(r) \/ ClientAbort(r)
  PROVE  BInv'
<1> SUFFICES ASSUME clash' = {}
             PROVE  OwnConnection' /\ OneForEachID' /\ Unanswered' /\ AllAwaited' /\ AllUp'
  BY DEF BInv
<1>1. /\ clash = {} /\ UNCHANGED <<status, infoList, answer>>
      /\ OwnConnection /\ OneForEachID /\ Unanswered /\ AllAwaited /\ AllUp
  BY DEF BInv, ClientSend, ClientAbort
<1>2. CASE ClientSend(r)
  <2>1. PICK c \in Call, p \in Entry[r] :
          net' = net \cup {[type |-> "HASH", conn |-> r, from |-> Client, to |-> p, call |-> c]}
    BY <1>2 DEF ClientSend
  <2> DEFINE h == [type |-> "HASH", conn |-> r, from |-> Client, to |-> p, call |-> c]
  <2>2. answer[r] = None
    BY <1>2 DEF ClientSend, AInv, AnswersMatchCalls
  <2>3. Awaited(h) /\ h.conn = r
    BY DEF Awaited
  <2>4. AllUp'
    BY <1>1, <1>2 DEF ClientSend, AllUp
  <2>5. net' = net \cup {h}
    BY <2>1
  <2> HIDE DEF h
  <2>6. QED
    BY <1>1, <2>2, <2>3, <2>4, <2>5, StepsRouted
<1>3. CASE ClientAbort(r)
  <2>1. net' = net /\ AllUp'
    BY <1>3 DEF ClientAbort, AllUp
  <2>2. QED
    BY <1>1, <2>1, StepsRouted
<1>4. QED
  BY <1>2, <1>3

LEMMA HashHereSteps ==
  ASSUME IInv, BInv, NEW p \in Peer, NEW m \in net, HashHere(p, m)
  PROVE  BInv'
<1> SUFFICES ASSUME clash' = {}
             PROVE  OwnConnection' /\ OneForEachID' /\ Unanswered' /\ AllAwaited' /\ AllUp'
  BY DEF BInv
<1>1. /\ clash = {} /\ UNCHANGED <<status, infoList, gone>>
      /\ OwnConnection /\ OneForEachID /\ Unanswered /\ AllAwaited /\ AllUp
  BY DEF BInv, HashHere
<1>2. AllUp'
  BY <1>1 DEF AllUp
<1> DEFINE res == Result(hTab[p], m.call)
           f == [type |-> "FINAL", conn |-> m.conn, to |-> m.from, res |-> res]
<1>3. m.type = "HASH" /\ m.conn \in Request /\ m.call \in Call
  BY HashFields DEF IInv, HashHere, ReadHash
<1>4. CASE m.from = Client
  <2>1. net' = net \ {m} /\ \A r \in Request : r # m.conn => answer'[r] = answer[r]
    BY <1>4 DEF HashHere, ToPeer, ToClient, IInv, TypeOK
  <2>2. Unanswered'
    <3>1. \A n \in net \ {m} : n.conn \in Request /\ n.conn # m.conn
      BY DEF IInv, OneUnderWay, TypeOK, Message
    <3>2. QED
      BY <1>1, <2>1, <3>1 DEF Unanswered
  <2>3. OwnConnection' /\ OneForEachID' /\ AllAwaited'
    BY <1>1, <2>1 DEF OwnConnection, OneForEachID, AllAwaited, Awaited, AwaitsReply,
                      Waiting, Check, Hash, ID
  <2>4. QED
    BY <1>2, <2>2, <2>3
<1>5. CASE m.from # Client
  <2>1. net' \subseteq net \cup {f} /\ answer' = answer
    BY <1>5 DEF HashHere, ToPeer, ToClient
  <2>2. \E e \in Waiting(m.from) : e.final = m.conn /\ e.call = m.call
    BY <1>1, <1>3, <1>5 DEF AllAwaited, Awaited
  <2>3. res.op = m.call.op
    BY DEF Result
  <2>4. Awaited(f) /\ answer[f.conn] = None
    <3> HIDE DEF res
    <3>1. QED
      BY <1>1, <2>2, <2>3 DEF Awaited, Unanswered
  <2> HIDE DEF f
  <2>5. QED
    BY <1>1, <1>2, <2>1, <2>4, StepsRouted
<1>6. QED
  BY <1>4, <1>5

LEMMA LookupSteps ==
  ASSUME IInv, BInv, NEW p \in Peer, NEW m \in net, LookupNext(p, m) \/ LookupOn(p, m)
  PROVE  BInv'
<1> SUFFICES ASSUME clash' = {}
             PROVE  OwnConnection' /\ OneForEachID' /\ Unanswered' /\ AllAwaited' /\ AllUp'
  BY DEF BInv
<1>1. /\ clash = {} /\ UNCHANGED <<infoList, answer, gone>>
      /\ OwnConnection /\ OneForEachID /\ Unanswered /\ AllAwaited /\ AllUp
  BY DEF BInv, LookupNext, LookupOn
<1>2. /\ m.type = "LOOKUP" /\ m.conn \in Request /\ m.orig \in Peer /\ m.id \in HashID
      /\ m = [type |-> "LOOKUP", conn |-> m.conn, orig |-> m.orig, to |-> m.to, id |-> m.id]
  BY LookupFields DEF IInv, LookupNext, LookupOn, ReadLookup
<1>3. AwaitsReply(m.orig, m.conn, m.id) /\ answer[m.conn] = None
  BY <1>1, <1>2 DEF AllAwaited, Awaited, Unanswered
<1>4. CASE LookupNext(p, m)
  <2> DEFINE o == [type |-> "REPLY", conn |-> m.conn, chosen |-> nextID[p],
                   to |-> m.orig, id |-> m.id]
  <2>1. o.to \in Peer /\ o.conn = m.conn /\ Awaited(o)
    BY <1>2, <1>3 DEF Awaited
  <2>2. Pass(p, m, o)
    BY <1>4 DEF LookupNext
  <2> HIDE DEF o
  <2>3. AllUp' /\ net' \subseteq net \cup {o}
    BY <1>1, <2>1, <2>2, PassUp
  <2>4. QED
    BY <1>1, <1>3, <2>1, <2>3, StepsRouted
<1>5. CASE LookupOn(p, m) /\ Check(p, Hash(m.id)) = unknownPeer
  <2> DEFINE o == [m EXCEPT !.to = nextID[p]]
  <2>1. o = [type |-> "LOOKUP", conn |-> m.conn, orig |-> m.orig, to |-> nextID[p], id |-> m.id]
    BY <1>2
  <2>2. Pass(p, m, o)
    BY <1>5 DEF LookupOn
  <2> HIDE DEF o
  <2>3. o.to \in Peer /\ o.conn = m.conn /\ Awaited(o)
    BY <1>2, <1>3, <2>1, Neighbours DEF Awaited
  <2>4. AllUp' /\ net' \subseteq net \cup {o}
    BY <1>1, <2>2, <2>3, PassUp
  <2>5. QED
    BY <1>1, <1>3, <2>3, <2>4, StepsRouted
<1>6. CASE LookupOn(p, m) /\ Check(p, Hash(m.id)) # unknownPeer
  <2>1. net' \subseteq net /\ status' = status
    BY <1>6 DEF LookupOn
  <2>2. AllUp'
    BY <1>1, <2>1 DEF AllUp
  <2>3. QED
    BY <1>1, <2>1, <2>2, StepsRouted
<1>7. QED
  BY <1>4, <1>5, <1>6

\* A new entry has an ID of its own among those a LOOKUP is sent for, or needs
\* no LOOKUP; nothing else is disturbed.
LEMMA EnlistSteps ==
  ASSUME IInv, OwnConnection, OneForEachID, Unanswered, AllAwaited,
         NEW p \in Peer, NEW m, NEW e, NEW o, Enlists(p, m, e, o),
         \/ Check(p, Hash(ID(e))) # unknownPeer
         \/ \A i \in DOMAIN infoList[p] : ID(infoList[p][i]) # ID(e),
         o \in net' => Awaited(o)'
  PROVE  OwnConnection' /\ OneForEachID' /\ Unanswered' /\ AllAwaited'
<1>1. \A q \in Peer : Waiting(q)' = IF q = p THEN Waiting(p) \cup {e} ELSE Waiting(q)
  BY ListAppend DEF IInv, Enlists
<1>2. OwnConnection'
  BY <1>1 DEF OwnConnection, Enlists
<1>3. OneForEachID'
  <2> SUFFICES ASSUME NEW q \in Peer, NEW i \in DOMAIN infoList'[q],
                      NEW j \in DOMAIN infoList'[q],
                      ID(infoList'[q][i]) = ID(infoList'[q][j]),
                      Check(q, Hash(ID(infoList'[q][i]))) = unknownPeer
               PROVE  i = j
    BY DEF OneForEachID, Check, Hash, ID
  <2>1. infoList \in [Peer -> Seq(LocalEntry)] /\ infoList[p] \in Seq(LocalEntry)
    BY DEF IInv, OnlyClientsWait
  <2>2. CASE q # p
    BY <2>1, <2>2 DEF Enlists, OneForEachID
  <2>3. CASE q = p
    <3> DEFINE n == Len(infoList[p])
    <3>1. infoList'[p] = Append(infoList[p], e) /\ e \in LocalEntry
      BY <2>1 DEF Enlists
    <3>2. /\ n \in Nat /\ DOMAIN infoList[p] = 1..n /\ DOMAIN infoList'[p] = 1..(n + 1)
          /\ infoList'[p][n + 1] = e
          /\ \A k \in 1..n : infoList'[p][k] = infoList[p][k]
      BY <2>1, <3>1, AppendProperties, LenProperties
    <3> HIDE DEF n
    <3>3. (i \in 1..n \/ i = n + 1) /\ (j \in 1..n \/ j = n + 1)
      BY <2>3, <3>2
    <3>4. CASE i \in 1..n /\ j \in 1..n
      BY <2>3, <3>2, <3>4 DEF OneForEachID
    <3>5. CASE i = n + 1 \/ j = n + 1
      BY <2>3, <3>2, <3>3, <3>5
    <3>6. QED
      BY <3>3, <3>4, <3>5
  <2>4. QED
    BY <2>2, <2>3
<1>4. Unanswered'
  BY DEF Unanswered, Enlists
<1>5. AllAwaited'
  <2> SUFFICES ASSUME NEW n \in net', n # o PROVE Awaited(n)'
    BY DEF AllAwaited
  <2>1. n \in net /\ Awaited(n)
    BY DEF Enlists, AllAwaited
  <2>2. QED
    BY <1>1, <2>1, StaysAwaited
<1>6. QED
  BY <1>2, <1>3, <1>4, <1>5

LEMMA HashNextSteps ==
  ASSUME IInv, BInv, NEW p \in Peer, NEW m \in net, HashNext(p, m)
  PROVE  BInv'
<1> SUFFICES ASSUME clash' = {}
             PROVE  OwnConnection' /\ OneForEachID' /\ Unanswered' /\ AllAwaited' /\ AllUp'
  BY DEF BInv
<1>1. /\ clash = {} /\ UNCHANGED gone
      /\ OwnConnection /\ OneForEachID /\ Unanswered /\ AllAwaited /\ AllUp
  BY DEF BInv, HashNext
<1> DEFINE o == [type |-> "HASH", conn |-> m.conn, from |-> p, to |-> nextID[p],
                 call |-> m.call]
           e == [Info(m) EXCEPT !.final = IF Connects(nextID[p]) THEN m.conn ELSE None]
<1>2. Enlists(p, m, e, o)
  BY NextEnlists
<1>3. Pass(p, m, o) /\ Check(p, Hash(hashID[m.call.key])) = nextPeer
  BY DEF HashNext
<1>4. /\ o.to = nextID[p] /\ o.type = "HASH" /\ o.from = p /\ o.conn = m.conn /\ o.call = m.call
      /\ (Connects(nextID[p]) => e.final = m.conn)
      /\ e.call = m.call
  BY DEF Info
<1> HIDE DEF o, e
<1>5. o.to \in Peer
  BY <1>4, Neighbours
<1>6. AllUp' /\ (o \in net' \ (net \ {m}) => Connects(o.to))
  BY <1>1, <1>3, <1>5, PassUp
<1>7. Check(p, Hash(ID(e))) # unknownPeer
  BY <1>3, <1>4 DEF ID, nextPeer, unknownPeer
<1>8. o \in net' => Awaited(o)'
  <2>1. CASE o \in net \ {m}
    BY <1>4, <2>1 DEF IInv, OneUnderWay
  <2>2. CASE o \in net' \ (net \ {m})
    <3>1. e.final = m.conn
      BY <1>4, <1>6, <2>2
    <3>2. Waiting(p)' = Waiting(p) \cup {e}
      BY <1>2, ListAppend DEF IInv, Enlists
    <3>3. QED
      BY <1>4, <3>1, <3>2 DEF Awaited
  <2>3. QED
    BY <2>1, <2>2
<1>9. OwnConnection' /\ OneForEachID' /\ Unanswered' /\ AllAwaited'
  BY <1>1, <1>2, <1>7, <1>8, EnlistSteps
<1>10. QED
  BY <1>6, <1>9

LEMMA HashUnknownSteps ==
  ASSUME IInv, BInv, NEW p \in Peer, NEW m \in net, HashUnknown(p, m)
  PROVE  BInv'
<1> SUFFICES ASSUME clash' = {}
             PROVE  OwnConnection' /\ OneForEachID' /\ Unanswered' /\ AllAwaited' /\ AllUp'
  BY DEF BInv
<1> DEFINE o == [type |-> "LOOKUP", conn |-> m.conn, orig |-> p, to |-> nextID[p],
                 id |-> hashID[m.call.key]]
           e == Info(m)
<1>1. /\ clash = {} /\ UNCHANGED gone
      /\ \A i \in DOMAIN infoList[p] : hashID[infoList[p][i].call.key] # hashID[m.call.key]
  BY DEF HashUnknown
<1>2. OwnConnection /\ OneForEachID /\ Unanswered /\ AllAwaited /\ AllUp
  BY <1>1 DEF BInv
<1>3. Enlists(p, m, e, o)
  BY UnknownEnlists
<1>4. Pass(p, m, o) /\ Check(p, Hash(hashID[m.call.key])) = unknownPeer
  BY DEF HashUnknown
<1>5. /\ o.to = nextID[p] /\ o.type = "LOOKUP" /\ o.conn = m.conn /\ o.orig = p
      /\ o.id = hashID[m.call.key]
      /\ e.conn = m.conn /\ e.call = m.call /\ e.final = None
  BY DEF Info
<1> HIDE DEF o, e
<1>6. o.to \in Peer
  BY <1>5, Neighbours
<1>7. AllUp'
  BY <1>1, <1>2, <1>4, <1>6, PassUp
<1>8. \A i \in DOMAIN infoList[p] : ID(infoList[p][i]) # ID(e)
  BY <1>1, <1>5 DEF ID
<1>9. Awaited(o)'
  <2>1. Waiting(p)' = Waiting(p) \cup {e}
    BY <1>3, ListAppend DEF IInv, Enlists
  <2>2. e \in Waiting(p)' /\ hashID[e.call.key] = o.id
    BY <1>5, <2>1
  <2>3. AwaitsReply(p, m.conn, o.id)'
    BY <1>4, <1>5, <2>2 DEF AwaitsReply, ID, Check, Hash
  <2>4. QED
    BY <1>5, <2>3 DEF Awaited
<1>10. OwnConnection' /\ OneForEachID' /\ Unanswered' /\ AllAwaited'
  BY <1>2, <1>3, <1>8, <1>9, EnlistSteps
<1>11. QED
  BY <1>7, <1>10

\* The entry a REPLY finds is the one its LOOKUP was sent for.
LEMMA ReplyFindsItsEntry ==
  ASSUME IInv, OneForEachID, NEW p \in Peer, NEW m, AwaitsReply(p, m.conn, m.id)
  PROVE  LET i == findHashRequestInfo(p, m.id) IN
         /\ i # 0 /\ i \in 1..Len(infoList[p]) /\ infoList[p][i] \in Waiting(p)
         /\ infoList[p][i].conn = m.conn /\ infoList[p][i].final = None
         /\ ID(infoList[p][i]) = m.id
<1> DEFINE i == findHashRequestInfo(p, m.id)
<1>1. PICK e \in Waiting(p) : e.conn = m.conn /\ ID(e) = m.id /\ e.final = None
  BY DEF AwaitsReply
<1>2. PICK j \in DOMAIN infoList[p] : infoList[p][j] = e
  BY DEF Waiting, Range
<1>3. i # 0 /\ i \in 1..Len(infoList[p]) /\ infoList[p][i] \in Waiting(p)
      /\ ID(infoList[p][i]) = m.id
  BY <1>1, SearchByID DEF IInv
<1> HIDE DEF i
<1>4. DOMAIN infoList[p] = 1..Len(infoList[p])
  BY WaitingFields, LenProperties DEF IInv
<1>5. i = j
  BY <1>1, <1>2, <1>3, <1>4 DEF OneForEachID, AwaitsReply
<1>6. QED
  BY <1>1, <1>2, <1>3, <1>5 DEF i

LEMMA ReplySteps ==
  ASSUME IInv, BInv, NEW p \in Peer, NEW m \in net, HandleReply(p, m)
  PROVE  BInv'
<1> SUFFICES ASSUME clash' = {}
             PROVE  OwnConnection' /\ OneForEachID' /\ Unanswered' /\ AllAwaited' /\ AllUp'
  BY DEF BInv
<1> DEFINE i == findHashRequestInfo(p, m.id)
           e == infoList[p][i]
           f == Forwarded(e, m.conn)
           o == [type |-> "HASH", conn |-> m.conn, from |-> p, to |-> m.chosen, call |-> e.call]
<1>1. /\ clash = {} /\ UNCHANGED <<gone, answer>>
      /\ OwnConnection /\ OneForEachID /\ Unanswered /\ AllAwaited /\ AllUp
  BY DEF BInv, HandleReply
<1>2. m.type = "REPLY" /\ m.to = p /\ m.conn \in Request /\ m.chosen \in Peer
  BY ReplyFields DEF IInv, HandleReply
<1>3. AwaitsReply(p, m.conn, m.id)
  BY <1>1, <1>2 DEF AllAwaited, Awaited
<1>4. /\ i # 0 /\ i \in 1..Len(infoList[p]) /\ e \in Waiting(p)
      /\ e.conn = m.conn /\ e.final = None
  BY <1>1, <1>3, ReplyFindsItsEntry
<1>5. CASE ~Connects(m.chosen)
  <2>1. gone # {}
    BY <1>1, <1>2, <1>5 DEF AllUp, Connects
  <2>2. AllUp' /\ net' \subseteq net /\ infoList' = infoList
    BY <1>1, <1>5, <2>1 DEF AllUp, HandleReply
  <2>3. QED
    BY <1>1, <2>2, StepsRouted
<1>6. CASE Connects(m.chosen)
  <2>1. /\ net' = (net \ {m}) \cup {o} /\ status' = status
        /\ SetsFinal(p, i, m.conn)
    BY <1>4, <1>6 DEF HandleReply, SetsFinal
  <2>2. AllUp'
    BY <1>1, <2>1 DEF AllUp
  <2>3. /\ f.conn = e.conn /\ f.call = e.call /\ f.final = m.conn
        /\ infoList'[p] = [infoList[p] EXCEPT ![i] = f]
        /\ \A q \in Peer \ {p} : infoList'[q] = infoList[q] /\ Waiting(q)' = Waiting(q)
        /\ Waiting(p)' \subseteq Waiting(p) \cup {f}
        /\ (Waiting(p) \ {e}) \cup {f} \subseteq Waiting(p)'
    <3>1. OnlyClientsWait
      BY DEF IInv
    <3> HIDE DEF i, o
    <3>2. QED
      BY <1>2, <1>4, <2>1, <3>1, ListReplace
  <2>4. o.type = "HASH" /\ o.conn = m.conn /\ o.from = p /\ o.call = e.call
    OBVIOUS
  <2>5. infoList[p] \in Seq(LocalEntry) /\ DOMAIN infoList[p] = 1..Len(infoList[p])
    BY WaitingFields, LenProperties DEF IInv
  <2> HIDE DEF i, e, f, o
  <2>6. OwnConnection'
    BY <1>1, <1>4, <2>3 DEF OwnConnection
  <2>7. OneForEachID'
    <3>1. \A q \in Peer : DOMAIN infoList'[q] = DOMAIN infoList[q]
      BY <2>3
    <3>2. \A q \in Peer : \A j \in DOMAIN infoList[q] :
            ID(infoList'[q][j]) = ID(infoList[q][j])
      BY <2>3 DEF ID, e
    <3>3. QED
      BY <1>1, <3>1, <3>2 DEF OneForEachID, Check, Hash, ID
  <2>8. Unanswered'
    BY <1>1, <2>1, <2>4 DEF Unanswered
  <2>9. AllAwaited'
    <3> SUFFICES ASSUME NEW n \in net' PROVE Awaited(n)'
      BY DEF AllAwaited
    <3>1. CASE n = o
      BY <2>3, <2>4, <3>1 DEF Awaited
    <3>2. CASE n \in net \ {m}
      <4>1. n.conn # m.conn /\ n.conn # None
        BY <3>2, InputAssumption DEF IInv, OneUnderWay, TypeOK, Message
      <4>2. \A q \in Peer : \A w \in Waiting(q) :
              w.conn = n.conn \/ w.final = n.conn => w \in Waiting(q)'
        BY <1>4, <2>3, <4>1
      <4>3. QED
        BY <1>1, <3>2, <4>2, StaysAwaited DEF AllAwaited
    <3>3. QED
      BY <2>1, <3>1, <3>2
  <2>10. QED
    BY <2>2, <2>6, <2>7, <2>8, <2>9
<1>7. QED
  BY <1>5, <1>6

\* The response goes to the entry whose connection it came in on, and no other
\* message is waited for by that entry.
LEMMA FinalSteps ==
  ASSUME IInv, BInv, NEW p \in Peer, NEW m \in net, HandleFinal(p, m)
  PROVE  BInv'
<1> SUFFICES ASSUME clash' = {}
             PROVE  OwnConnection' /\ OneForEachID' /\ Unanswered' /\ AllAwaited' /\ AllUp'
  BY DEF BInv
<1> DEFINE i == getClientRequestInfo(p, m)
           e == infoList[p][i]
<1>1. clash = {} /\ UNCHANGED gone /\ i # 0 /\ infoList' = [infoList EXCEPT ![p] = RemoveAt(@, i)]
  BY DEF HandleFinal
<1>2. OwnConnection /\ OneForEachID /\ Unanswered /\ AllAwaited /\ AllUp
  BY <1>1 DEF BInv
<1>3. i \in 1..Len(infoList[p]) /\ e \in Waiting(p) /\ e.final = m.conn
  BY <1>1, SearchByFinal DEF IInv
<1>4. e.conn \in Request /\ e.caller = Client /\ e.conn = m.conn
  <2>1. e.conn \in Request /\ e.caller = Client
    BY <1>3, WaitingFields DEF IInv
  <2>2. m.conn # None
    BY ConnIsNotNone, FinalFields DEF IInv, HandleFinal, ReadFinal
  <2>3. QED
    BY <1>2, <1>3, <2>1, <2>2 DEF OwnConnection
<1>5. /\ net' = net \ {m} /\ answer' = [answer EXCEPT ![m.conn] = m.res]
      /\ status' = status \/ e.conn \in gone
  BY <1>4 DEF HandleFinal, ToClient, ToPeer
<1> HIDE DEF i, e
<1>6. /\ \A q \in Peer \ {p} : infoList'[q] = infoList[q] /\ Waiting(q)' = Waiting(q)
      /\ infoList'[p] = RemoveAt(infoList[p], i)
      /\ Waiting(p)' \subseteq Waiting(p)
      /\ Waiting(p) \ {e} \subseteq Waiting(p)'
  BY <1>1, <1>3, ListRemove DEF IInv, e
<1>7. AllUp'
  BY <1>1, <1>2, <1>5 DEF AllUp
<1>8. OwnConnection'
  BY <1>2, <1>6 DEF OwnConnection
<1>9. \A n \in net \ {m} : n.conn \in Request /\ n.conn # m.conn
  BY DEF IInv, OneUnderWay, TypeOK, Message
<1>10. Unanswered'
  BY <1>2, <1>5, <1>9 DEF Unanswered, IInv, TypeOK
<1>11. AllAwaited'
  <2> SUFFICES ASSUME NEW n \in net \ {m} PROVE Awaited(n)'
    BY <1>5 DEF AllAwaited
  <2>1. \A q \in Peer : \A w \in Waiting(q) :
          w.conn = n.conn \/ w.final = n.conn => w \in Waiting(q)'
    BY <1>3, <1>4, <1>6, <1>9
  <2>2. QED
    BY <1>2, <2>1, StaysAwaited DEF AllAwaited
<1>12. OneForEachID'
  <2> SUFFICES ASSUME NEW q \in Peer, NEW j \in DOMAIN infoList'[q],
                      NEW k \in DOMAIN infoList'[q],
                      ID(infoList'[q][j]) = ID(infoList'[q][k]),
                      Check(q, Hash(ID(infoList'[q][j]))) = unknownPeer
               PROVE  j = k
    BY DEF OneForEachID, Check, Hash, ID
  <2>1. CASE q # p
    BY <1>2, <1>6, <2>1 DEF OneForEachID
  <2>2. CASE q = p
    <3> DEFINE n == Len(infoList[p])
               Old(x) == IF x < i THEN x ELSE x + 1
    <3>1. infoList[p] \in Seq(LocalEntry)
      BY DEF IInv, OnlyClientsWait
    <3>2. /\ n \in Nat /\ DOMAIN infoList[p] = 1..n /\ i \in 1..n
          /\ DOMAIN infoList'[p] = 1..(n - 1)
          /\ \A x \in 1..(n - 1) : infoList'[p][x] = infoList[p][Old(x)]
      <4>1. RemoveAt(infoList[p], i) \in Seq(LocalEntry) /\ Len(RemoveAt(infoList[p], i)) = n - 1
        BY <1>3, <3>1, RemoveAtType, RemoveAtElements
      <4>2. \A x \in 1..(n - 1) : RemoveAt(infoList[p], i)[x] = infoList[p][Old(x)]
        BY <1>3, <3>1, RemoveAtElements
      <4>3. n \in Nat /\ DOMAIN infoList[p] = 1..n
            /\ DOMAIN RemoveAt(infoList[p], i) = 1..(n - 1)
        BY <3>1, <4>1, LenProperties
      <4>4. QED
        BY <1>3, <1>6, <4>2, <4>3
    <3> HIDE DEF n
    <3>3. j \in 1..(n - 1) /\ k \in 1..(n - 1)
      BY <2>2, <3>2
    <3>4. Old(j) \in 1..n /\ Old(k) \in 1..n
      BY <3>2, <3>3
    <3>5. infoList'[p][j] = infoList[p][Old(j)] /\ infoList'[p][k] = infoList[p][Old(k)]
      BY <3>2, <3>3
    <3>6. Old(j) = Old(k)
      <4> HIDE DEF Old
      <4>1. QED
        BY <1>2, <2>2, <3>2, <3>4, <3>5 DEF OneForEachID
    <3>7. QED
      BY <3>2, <3>3, <3>6
  <2>3. QED
    BY <2>1, <2>2
<1>13. QED
  BY <1>7, <1>8, <1>10, <1>11, <1>12

\* A response always finds its entry: getClientRequestInfo does not return NULL.
LEMMA NoStrayFinal ==
  ASSUME IInv, AllAwaited, NEW p \in Peer, NEW m \in net, StrayFinal(p, m)
  PROVE  FALSE
<1>1. m.type = "FINAL" /\ m.to = p /\ getClientRequestInfo(p, m) = 0
  BY DEF StrayFinal, ReadFinal
<1>2. \E e \in Waiting(p) : e.final = m.conn /\ e.call.op = m.res.op
  BY <1>1 DEF AllAwaited, Awaited
<1>3. QED
  BY <1>1, <1>2, SearchByFinal DEF IInv

LEMMA StopSteps ==
  ASSUME IInv, BInv, NEW p \in Peer, ReadEOF(p) \/ \E m \in net : StrayFinal(p, m)
  PROVE  BInv'
<1> SUFFICES ASSUME clash' = {}
             PROVE  OwnConnection' /\ OneForEachID' /\ Unanswered' /\ AllAwaited' /\ AllUp'
  BY DEF BInv
<1>1. /\ clash = {} /\ net' \subseteq net /\ UNCHANGED <<infoList, answer, gone>>
      /\ OwnConnection /\ OneForEachID /\ Unanswered /\ AllAwaited /\ AllUp
  BY DEF BInv, ReadEOF, StrayFinal
<1>2. Severed(p) # {}
  BY <1>1, NoStrayFinal DEF ReadEOF
<1>3. gone # {}
  <2>1. CASE \E m \in net : m.type = "HASH" /\ m.from = p /\ status[m.to] = "down"
    BY <1>1, <2>1, HashFields DEF AllUp, IInv
  <2>2. CASE \E j \in DOMAIN infoList[p] :
               IF infoList[p][j].caller = Client THEN infoList[p][j].conn \in gone
               ELSE status[infoList[p][j].caller] = "down"
    <3>1. DOMAIN infoList[p] = 1..Len(infoList[p])
      BY WaitingFields, LenProperties DEF IInv
    <3>2. QED
      BY <2>2, <3>1, EntryFields DEF IInv
  <2>3. QED
    BY <1>2, <2>1, <2>2 DEF Severed
<1>4. AllUp'
  BY <1>1, <1>3 DEF AllUp
<1>5. QED
  BY <1>1, <1>4, StepsRouted

LEMMA StepsNext == IInv /\ AInv /\ BInv /\ [Next]_vars => BInv'
<1> SUFFICES ASSUME IInv, AInv, BInv, [Next]_vars PROVE BInv'
  OBVIOUS
<1>1. CASE UNCHANGED vars
  <2>1. CASE clash # {}
    BY <1>1, <2>1 DEF vars, BInv
  <2>2. CASE clash = {}
    <3>1. AllUp'
      BY <1>1, <2>2 DEF BInv, AllUp, vars
    <3>2. OwnConnection' /\ OneForEachID' /\ Unanswered' /\ AllAwaited'
      BY <1>1, <2>2, StepsRouted DEF vars, BInv
    <3>3. QED
      BY <3>1, <3>2 DEF BInv
  <2>3. QED
    BY <2>1, <2>2
<1>2. ASSUME NEW r \in Request, ClientSend(r) \/ ClientAbort(r) PROVE BInv'
  BY <1>2, SendSteps
<1>3. ASSUME NEW p \in Peer, ReadEOF(p) PROVE BInv'
  BY <1>3, StopSteps
<1>4. ASSUME NEW p \in Peer, NEW m \in net, Handle(p, m) PROVE BInv'
  BY <1>4, HashHereSteps, HashNextSteps, HashUnknownSteps, LookupSteps, ReplySteps,
     FinalSteps, StopSteps DEF Handle
<1>5. QED
  BY <1>1, <1>2, <1>3, <1>4 DEF Next

LEMMA StepsInvariant == Spec => [](IInv /\ AInv /\ BInv)
<1>1. Init => IInv /\ AInv /\ BInv
  BY InitInv, AnswersInit, StepsInit
<1>2. IInv /\ AInv /\ BInv /\ [Next]_vars => (IInv /\ AInv /\ BInv)'
  BY NextInv, AnswersNext, StepsNext
<1>3. QED
  BY <1>1, <1>2, PTL DEF Spec

\* A peer exits or hangs only if a client has left unanswered, or two requests
\* for one hash ID have waited together: neither findHashRequestInfo nor
\* getClientRequestInfo returns NULL to a caller that takes the entry for
\* granted (DHT/peer.c), and createConnection is never refused.
THEOREM StopsExplained == Spec => []StoppedOnlyByFault
<1>1. BInv => StoppedOnlyByFault
  BY DEF BInv, AllUp, StoppedOnlyByFault
<1>2. QED
  BY <1>1, StepsInvariant, PTL

-----------------------------------------------------------------------------
(* The ring implements one linearizable map: a request takes effect where  *)
(* it is executed and is answered when its client is.                      *)

Out(ans, msgs, r) ==
  IF ans[r] # None THEN ans[r]
  ELSE IF \E m \in msgs : m.type = "FINAL" /\ m.conn = r
    THEN (CHOOSE m \in msgs : m.type = "FINAL" /\ m.conn = r).res
    ELSE None

LEMMA OutcomeIsOut ==
  /\ outcome = [r \in Request |-> Out(answer, net, r)]
  /\ outcome' = [r \in Request |-> Out(answer', net', r)]
BY DEF outcome, Out

\* With one message under way per connection the CHOOSE has no choice.
LEMMA OutIs ==
  ASSUME NEW ans, NEW msgs, \A m, n \in msgs : m.conn = n.conn => m = n, NEW r
  PROVE  /\ ans[r] # None => Out(ans, msgs, r) = ans[r]
         /\ \A m \in msgs : ans[r] = None /\ m.type = "FINAL" /\ m.conn = r =>
              Out(ans, msgs, r) = m.res
         /\ (ans[r] = None /\ \A m \in msgs : m.conn = r => m.type # "FINAL") =>
              Out(ans, msgs, r) = None
BY DEF Out

LEMMA OneUnderWayTwice ==
  ASSUME IInv, IInv'
  PROVE  /\ \A m, n \in net : m.conn = n.conn => m = n
         /\ \A m, n \in net' : m.conn = n.conn => m = n
BY DEF IInv, OneUnderWay

\* The outcome of a request changes only with its answer or its FINAL.
LEMMA OutKept ==
  ASSUME IInv, IInv', NEW r, answer'[r] = answer[r],
         \A n : n.type = "FINAL" /\ n.conn = r => (n \in net' <=> n \in net)
  PROVE  Out(answer', net', r) = Out(answer, net, r)
<1>1. CASE answer[r] # None
  BY <1>1, OneUnderWayTwice, OutIs
<1>2. CASE answer[r] = None /\ \E n \in net : n.type = "FINAL" /\ n.conn = r
  <2>1. PICK n \in net : n.type = "FINAL" /\ n.conn = r
    BY <1>2
  <2>2. Out(answer, net, r) = n.res
    BY <1>2, <2>1, OneUnderWayTwice, OutIs
  <2>3. Out(answer', net', r) = n.res
    BY <1>2, <2>1, OneUnderWayTwice, OutIs
  <2>4. QED
    BY <2>2, <2>3
<1>3. CASE answer[r] = None /\ \A n \in net : n.conn = r => n.type # "FINAL"
  <2>1. Out(answer, net, r) = None
    BY <1>3, OneUnderWayTwice, OutIs
  <2>2. \A n \in net' : n.conn = r => n.type # "FINAL"
    BY <1>3
  <2>3. Out(answer', net', r) = None
    BY <1>3, <2>2, OneUnderWayTwice, OutIs
  <2>4. QED
    BY <2>1, <2>3
<1>4. QED
  BY <1>1, <1>2, <1>3

\* Requests that are neither executed nor answered leave the map alone.
LEMMA KVFramed ==
  ASSUME IInv, IInv', UNCHANGED <<hTab, answer>>,
         \A m : m.type = "FINAL" => (m \in net' <=> m \in net)
  PROVE  UNCHANGED <<store, outcome>>
<1>1. store' = store
  BY DEF store
<1>2. \A r \in Request : Out(answer', net', r) = Out(answer, net, r)
  BY OutKept
<1>3. QED
  BY <1>1, <1>2, OutcomeIsOut

\* Only the peer in charge of a key changes what the map holds for it.
LEMMA StoreApplied ==
  ASSUME IInv, NEW p \in Peer, NEW c \in Call, InCharge(p, c.key),
         hTab' = [hTab EXCEPT ![p] = Apply(hTab[p], c)]
  PROVE  store' = Apply(store, c) /\ Result(store, c) = Result(hTab[p], c)
<1>1. c.key \in Key /\ c.op \in {"SET", "GET", "DEL"}
  BY CallKey
<1>2. Owned(c.key) /\ Owner(c.key) = p
  <2>1. \A q \in Peer : InCharge(q, c.key) => q = p
    BY <1>1, ExactlyOneInCharge
  <2>2. QED
    BY <2>1 DEF Owned, Owner
<1>3. \A k \in Key : Owned(k) => Owner(k) \in Peer
  BY DEF Owned, Owner
<1>4. hTab \in [Peer -> [Key -> Value \cup {None}]]
  BY DEF IInv, TypeOK
<1>5. \A k \in Key : store[k] = IF Owned(k) THEN hTab[Owner(k)][k] ELSE None
  BY DEF store
<1>6. \A k \in Key : store'[k] = IF Owned(k) THEN hTab'[Owner(k)][k] ELSE None
  BY DEF store, Owned, Owner, InCharge, Check, Hash
<1>7. store = [k \in Key |-> store[k]] /\ store' = [k \in Key |-> store'[k]]
  BY DEF store
<1>8. \A k \in Key : hTab'[p][k] = Apply(hTab[p], c)[k]
  BY <1>4
<1>9. \A k \in Key : store'[k] = IF k = c.key THEN Apply(hTab[p], c)[k] ELSE store[k]
  <2> TAKE k \in Key
  <2>1. CASE k = c.key
    BY <1>1, <1>2, <1>6, <1>8, <2>1
  <2>2. CASE k # c.key /\ Owned(k) /\ Owner(k) = p
    BY <1>4, <1>5, <1>6, <1>8, <2>2, TableType
  <2>3. CASE k # c.key /\ Owned(k) /\ Owner(k) # p
    BY <1>3, <1>4, <1>5, <1>6, <2>3
  <2>4. CASE k # c.key /\ ~Owned(k)
    BY <1>5, <1>6, <2>4
  <2>5. QED
    BY <2>1, <2>2, <2>3, <2>4
<1>10. store[c.key] = hTab[p][c.key]
  BY <1>1, <1>2, <1>5
<1>11. Result(store, c) = Result(hTab[p], c)
  BY <1>10 DEF Result
<1>12. \A k \in Key : Apply(store, c)[k] = IF k = c.key THEN Apply(hTab[p], c)[k] ELSE store[k]
  BY <1>1, <1>4, <1>7, <1>10 DEF Apply
<1>13. Apply(store, c) = [k \in Key |-> Apply(store, c)[k]]
  BY <1>1, <1>7 DEF Apply
<1> HIDE DEF Apply
<1>14. store' = Apply(store, c)
  BY <1>7, <1>9, <1>12, <1>13
<1>15. QED
  BY <1>11, <1>14

LEMMA SameTableOps ==
  \A tab, c : KV!Apply(tab, c) = Apply(tab, c) /\ KV!Result(tab, c) = Result(tab, c)
BY DEF KV!Apply, KV!Result, Apply, Result

\* The request is executed for the client whose connection it came for.
LEMMA ExecutesItsCall ==
  ASSUME IInv, AInv, OwnConnection, Unanswered, AllAwaited,
         NEW m \in net, m.type = "HASH"
  PROVE  /\ m.conn \in Request /\ m.call \in Call /\ call[m.conn] = m.call
         /\ m.call # None /\ answer[m.conn] = None /\ outcome[m.conn] = None
<1>1. m.conn \in Request /\ m.call \in Call /\ m.from \in Peer \cup {Client}
  BY HashFields DEF IInv
<1>2. call[m.conn] = m.call
  <2>1. CASE m.from = Client
    BY <2>1 DEF AInv, HashesKept
  <2>2. CASE m.from # Client
    <3>1. PICK e \in Waiting(m.from) : e.final = m.conn /\ e.call = m.call
      BY <2>2 DEF AllAwaited, Awaited
    <3>2. e.conn = m.conn
      BY <1>1, <2>2, <3>1, ConnIsNotNone DEF OwnConnection
    <3>3. QED
      BY <1>1, <2>2, <3>1, <3>2 DEF AInv, EntriesKept
  <2>3. QED
    BY <2>1, <2>2
<1>3. m.call # None /\ answer[m.conn] = None
  BY <1>1, CallIsNotNone DEF Unanswered
<1>4. outcome[m.conn] = None
  <2>1. \A n \in net : n.conn = m.conn => n.type # "FINAL"
    BY DEF IInv, OneUnderWay
  <2>2. Out(answer, net, m.conn) = None
    BY <1>3, <2>1, OutIs DEF IInv, OneUnderWay
  <2>3. QED
    BY <1>1, <2>2, OutcomeIsOut
<1>5. QED
  BY <1>1, <1>2, <1>3, <1>4

LEMMA HashHereCommits ==
  ASSUME IInv, IInv', AInv, OwnConnection, Unanswered, AllAwaited,
         NEW p \in Peer, NEW m \in net, HashHere(p, m)
  PROVE  KV!Commit(m.conn) \/ KV!CommitAndReply(m.conn)
<1> DEFINE res == Result(hTab[p], m.call)
           f == [type |-> "FINAL", conn |-> m.conn, to |-> m.from, res |-> res]
<1>1. m.type = "HASH" /\ InCharge(p, m.call.key) /\ call' = call
      /\ hTab' = [hTab EXCEPT ![p] = Apply(hTab[p], m.call)]
  BY DEF HashHere, ReadHash
<1>2. /\ m.conn \in Request /\ m.call \in Call /\ call[m.conn] = m.call
      /\ m.call # None /\ answer[m.conn] = None /\ outcome[m.conn] = None
  BY <1>1, ExecutesItsCall
<1>3. store' = Apply(store, m.call) /\ Result(store, m.call) = res
  BY <1>1, <1>2, StoreApplied
<1>4. net' = (net \ {m}) \cup (IF m.from = Client THEN {} ELSE {f})
  BY DEF HashHere, ToPeer
<1>5. answer' = IF m.from = Client THEN [answer EXCEPT ![m.conn] = res] ELSE answer
  BY DEF HashHere, ToClient
<1>6. res # None
  <2>1. hTab[p] \in [Key -> Value \cup {None}]
    BY DEF IInv, TypeOK
  <2>2. QED
    BY <1>2, <2>1, ApplyAndResult
<1>7. answer \in [Request -> Response \cup {None}]
  BY DEF IInv, TypeOK
<1>8. \A r \in Request : r # m.conn => Out(answer', net', r) = Out(answer, net, r)
  <2> SUFFICES ASSUME NEW r \in Request, r # m.conn
               PROVE  Out(answer', net', r) = Out(answer, net, r)
    OBVIOUS
  <2>1. answer'[r] = answer[r]
    BY <1>2, <1>5, <1>7
  <2>2. \A n : n.conn = r => (n \in net' <=> n \in net)
    BY <1>4
  <2>3. QED
    BY <2>1, <2>2, OutKept
<1>9. Out(answer', net', m.conn) = res
  <2>1. CASE m.from = Client
    <3>1. answer'[m.conn] = res
      BY <1>2, <1>5, <1>7, <2>1
    <3>2. QED
      BY <1>6, <3>1, OneUnderWayTwice, OutIs
  <2>2. CASE m.from # Client
    <3>1. answer'[m.conn] = None /\ f \in net' /\ f.type = "FINAL" /\ f.conn = m.conn /\ f.res = res
      BY <1>2, <1>4, <1>5, <2>2
    <3> HIDE DEF f, res
    <3>2. QED
      BY <3>1, OneUnderWayTwice, OutIs
  <2>3. QED
    BY <2>1, <2>2
<1>10. outcome' = [outcome EXCEPT ![m.conn] = res]
  <2> HIDE DEF res
  <2>1. QED
    BY <1>2, <1>8, <1>9, OutcomeIsOut
<1>11. KV!TakeEffect(m.conn)
  BY <1>2, <1>3, <1>10, SameTableOps DEF KV!TakeEffect
<1>12. CASE m.from = Client
  BY <1>1, <1>2, <1>3, <1>5, <1>11, <1>12, SameTableOps DEF KV!CommitAndReply
<1>13. CASE m.from # Client
  BY <1>1, <1>5, <1>11, <1>13 DEF KV!Commit
<1>14. QED
  BY <1>12, <1>13

LEMMA FinalReplies ==
  ASSUME IInv, IInv', OwnConnection, Unanswered,
         NEW p \in Peer, NEW m \in net, HandleFinal(p, m)
  PROVE  m.conn \in Request /\ KV!Reply(m.conn)
<1> DEFINE i == getClientRequestInfo(p, m)
           e == infoList[p][i]
<1>1. i # 0 /\ UNCHANGED <<hTab, call>> /\ m.type = "FINAL"
  BY DEF HandleFinal, ReadFinal
<1>2. m.conn \in Request /\ m.conn # None /\ m.res \in Response /\ m.res # None
  BY <1>1, FinalFields, InputAssumption DEF IInv
<1>3. i \in 1..Len(infoList[p]) /\ e \in Waiting(p) /\ e.final = m.conn
  BY <1>1, SearchByFinal DEF IInv
<1>4. e.caller = Client /\ e.conn = m.conn
  BY <1>2, <1>3, WaitingFields DEF OwnConnection, IInv
<1>5. net' = net \ {m} /\ answer' = [answer EXCEPT ![m.conn] = m.res]
  BY <1>4 DEF HandleFinal, ToClient, ToPeer
<1>6. answer[m.conn] = None /\ answer \in [Request -> Response \cup {None}]
  BY DEF Unanswered, IInv, TypeOK
<1>7. Out(answer, net, m.conn) = m.res
  BY <1>1, <1>6, OneUnderWayTwice, OutIs
<1>8. Out(answer', net', m.conn) = m.res
  <2>1. answer'[m.conn] = m.res
    BY <1>2, <1>5, <1>6
  <2>2. QED
    BY <1>2, <2>1, OneUnderWayTwice, OutIs
<1>9. \A r \in Request : r # m.conn => Out(answer', net', r) = Out(answer, net, r)
  <2> SUFFICES ASSUME NEW r \in Request, r # m.conn
               PROVE  Out(answer', net', r) = Out(answer, net, r)
    OBVIOUS
  <2>1. answer'[r] = answer[r]
    BY <1>5, <1>6
  <2>2. \A n : n.conn = r => (n \in net' <=> n \in net)
    BY <1>5
  <2>3. QED
    BY <2>1, <2>2, OutKept
<1>10. outcome' = outcome
  BY <1>7, <1>8, <1>9, OutcomeIsOut
<1>11. outcome[m.conn] = m.res
  BY <1>2, <1>7, OutcomeIsOut
<1>12. store' = store
  BY <1>1 DEF store
<1>13. QED
  BY <1>1, <1>2, <1>5, <1>6, <1>10, <1>11, <1>12 DEF KV!Reply

\* Every other step leaves what clients see of the map alone.
LEMMA OthersStutter ==
  ASSUME IInv, IInv', NEW p \in Peer, NEW m \in net,
         \/ HashNext(p, m) \/ HashUnknown(p, m) \/ LookupNext(p, m) \/ LookupOn(p, m)
         \/ HandleReply(p, m)
  PROVE  UNCHANGED KV!kvVars
<1>1. UNCHANGED <<hTab, call, answer>> /\ m.type \in {"HASH", "LOOKUP", "REPLY"}
  BY DEF HashNext, HashUnknown, LookupNext, LookupOn, HandleReply, ReadHash, ReadLookup
<1>2. \A n : n.type = "FINAL" => (n \in net' <=> n \in net)
  <2>1. CASE HashNext(p, m)
    BY <1>1, <2>1 DEF HashNext, Pass
  <2>2. CASE HashUnknown(p, m)
    BY <1>1, <2>2 DEF HashUnknown, Pass
  <2>3. CASE LookupNext(p, m)
    BY <1>1, <2>3 DEF LookupNext, Pass
  <2>4. CASE LookupOn(p, m)
    <3>1. [m EXCEPT !.to = nextID[p]].type # "FINAL"
      <4>1. m.type = "LOOKUP"
        BY <2>4 DEF LookupOn, ReadLookup
      <4>2. m = [type |-> "LOOKUP", conn |-> m.conn, orig |-> m.orig, to |-> m.to, id |-> m.id]
        BY <4>1, LookupFields DEF IInv
      <4>3. QED
        BY <4>2
    <3>2. QED
      BY <1>1, <2>4, <3>1 DEF LookupOn, Pass
  <2>5. CASE HandleReply(p, m)
    BY <1>1, <2>5 DEF HandleReply
  <2>6. QED
    BY <2>1, <2>2, <2>3, <2>4, <2>5
<1>3. QED
  BY <1>1, <1>2, KVFramed DEF KV!kvVars

LEMMA InitMaps == Init => KV!KVInit
<1> SUFFICES ASSUME Init PROVE KV!KVInit
  OBVIOUS
<1>1. store = [k \in Key |-> None]
  BY DEF Init, store, Owned, Owner
<1>2. outcome = [r \in Request |-> None]
  BY DEF Init, outcome
<1>3. QED
  BY <1>1, <1>2 DEF Init, KV!KVInit

LEMMA StepMaps ==
  IInv /\ AInv /\ BInv /\ [Next]_vars => [clash' = {} => KV!KVNext]_(KV!kvVars)
<1> SUFFICES ASSUME IInv, AInv, BInv, [Next]_vars, clash' = {}
             PROVE  KV!KVNext \/ UNCHANGED KV!kvVars
  OBVIOUS
<1>1. IInv'
  BY NextInv
<1>2. CASE UNCHANGED vars
  <2>1. UNCHANGED <<store, outcome>>
    BY <1>1, <1>2, KVFramed DEF vars
  <2>2. QED
    BY <1>2, <2>1 DEF vars, KV!kvVars
<1>3. ASSUME NEW r \in Request, ClientSend(r)
      PROVE  KV!KVNext
  <2>1. \A m : m.type = "FINAL" => (m \in net' <=> m \in net)
    BY <1>3 DEF ClientSend
  <2>2. UNCHANGED <<store, outcome, answer>>
    BY <1>1, <1>3, <2>1, KVFramed DEF ClientSend
  <2>3. call[r] = None /\ \E c \in KV!Call : call' = [call EXCEPT ![r] = c]
    BY <1>3 DEF ClientSend, KV!Call, Call
  <2>4. QED
    BY <2>2, <2>3 DEF KV!Invoke, KV!KVNext
<1>4. ASSUME NEW r \in Request, ClientAbort(r)
      PROVE  UNCHANGED KV!kvVars
  BY <1>1, <1>4, KVFramed DEF ClientAbort, KV!kvVars
<1>5. ASSUME NEW p \in Peer, ReadEOF(p)
      PROVE  UNCHANGED KV!kvVars
  BY <1>1, <1>5, KVFramed DEF ReadEOF, KV!kvVars
<1>6. ASSUME NEW p \in Peer, NEW m \in net, Handle(p, m)
      PROVE  KV!KVNext \/ UNCHANGED KV!kvVars
  <2>1. clash = {}
    BY <1>6 DEF Handle, HashHere, HashNext, HashUnknown, LookupNext, LookupOn, HandleReply,
                HandleFinal, StrayFinal
  <2>2. OwnConnection /\ Unanswered /\ AllAwaited
    BY <2>1 DEF BInv
  <2>3. m \in net /\ m.conn \in Request
    BY DEF IInv, TypeOK, Message
  <2>4. CASE HashHere(p, m)
    BY <1>1, <2>2, <2>3, <2>4, HashHereCommits DEF KV!KVNext
  <2>5. CASE HandleFinal(p, m)
    BY <1>1, <2>2, <2>5, FinalReplies DEF KV!KVNext
  <2>6. CASE StrayFinal(p, m)
    BY <2>2, <2>6, NoStrayFinal
  <2>7. QED
    BY <1>1, <1>6, <2>4, <2>5, <2>6, OthersStutter DEF Handle
<1>7. QED
  BY <1>2, <1>3, <1>4, <1>5, <1>6 DEF Next

\* Until two requests with one hash ID wait at one peer, the ring is one
\* linearizable map: every step of peers and clients is a step of KVStore or
\* invisible in it, for any ring and any number of requests and clients that
\* leave; a value can be lost or a request executed twice only after that.
THEOREM RingImplementsKVStore == Spec => ImplementsUntilClash
<1>1. Spec => KV!KVInit
  BY InitMaps DEF Spec
<1>2. Spec => [][clash' = {} => KV!KVNext]_(KV!kvVars)
  BY StepMaps, StepsInvariant, PTL DEF Spec
<1>3. QED
  BY <1>1, <1>2 DEF ImplementsUntilClash
=============================================================================
