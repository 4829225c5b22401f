------------------------- MODULE DynamicRingProofs --------------------------
(***************************************************************************)
(* Requests while peers join, for any peers, keys and requests: the types, *)
(* that no peer becomes its own neighbour or takes a key back, that keys   *)
(* have one owner when joins are patient, that clients are told the        *)
(* outcome of their own requests, and, as long as no two pending requests  *)
(* can be confused, that no peer is brought down, no request is lost, and  *)
(* that the ring is one map whenever one peer is in charge of each key.    *)
(***************************************************************************)
EXTENDS DynamicRing, SeqLemmas, FiniteSetTheorems

MP == INSTANCE RingMembershipProofs WITH net <- mnet

-----------------------------------------------------------------------------
(* The membership is that of RingMembership: what is proved there holds    *)
(* here.                                                                   *)

LEMMA SameCardinality ==
  ASSUME NEW S
  PROVE  M!Cardinality(S) = MP!Cardinality(S)
BY DEF M!Cardinality, MP!Cardinality

LEMMA SameStart ==
  ASSUME NEW p \in Peer
  PROVE  /\ M!StartFounder(p) <=> MP!StartFounder(p)
         /\ M!StartJoiner(p) <=> MP!StartJoiner(p)
         /\ M!Stabilize(p) <=> MP!Stabilize(p)
<1>1. M!Members = MP!Members
  BY DEF M!Members, MP!Members
<1>2. \A S : M!RightRing(S) <=> MP!RightRing(S)
  BY SameCardinality DEF M!RightRing, MP!RightRing, M!Between, MP!Between
<1>3. (M!Settled <=> MP!Settled) /\ (M!Acceptable(p) <=> MP!Acceptable(p))
  BY <1>1, <1>2 DEF M!Settled, MP!Settled, M!Acceptable, MP!Acceptable
<1>4. QED
  BY <1>1, <1>3 DEF M!StartFounder, MP!StartFounder, M!StartJoiner, MP!StartJoiner,
                    M!Stabilize, MP!Stabilize

LEMMA SameHandle ==
  ASSUME NEW p \in Peer, NEW m \in mnet
  PROVE  M!Handle(p, m) <=> MP!Handle(p, m)
BY DEF M!Handle, MP!Handle, M!HandleStabilize, MP!HandleStabilize, M!HandleNotify,
       MP!HandleNotify, M!JoinHere, MP!JoinHere, M!JoinOn, MP!JoinOn, M!checkJoinPeer,
       MP!checkJoinPeer, M!thisPeer, MP!thisPeer, M!unknownPeer, MP!unknownPeer

LEMMA SameMembership ==
  /\ M!Init <=> MP!Init
  /\ M!Next <=> MP!Next
  /\ M!TypeOK <=> MP!TypeOK
  /\ M!NeverOwnNeighbour <=> MP!NeverOwnNeighbour
<1>1. M!Next <=> MP!Next
  BY SameStart, SameHandle DEF M!Next, MP!Next
<1>2. M!TypeOK <=> MP!TypeOK
  BY DEF M!TypeOK, MP!TypeOK, M!Message, MP!Message
<1>3. /\ M!Init <=> MP!Init
      /\ M!NeverOwnNeighbour <=> MP!NeverOwnNeighbour
  BY DEF M!Init, MP!Init, M!NeverOwnNeighbour, MP!NeverOwnNeighbour
<1>4. QED
  BY <1>1, <1>2, <1>3

\* A step of the whole system is one of the membership or leaves it alone.
LEMMA StepOfMembers ==
  [Next]_vars => [MP!Next]_(MP!vars)
<1> SUFFICES ASSUME [Next]_vars PROVE MP!Next \/ UNCHANGED members
  BY DEF members, MP!vars
<1>1. ASSUME NEW p \in Peer, NEW m \in net, Handle(p, m) PROVE UNCHANGED members
  BY <1>1 DEF Handle, HashHere, HashNext, HashUnknown, LookupNext, LookupOn, LookupDropped,
              HandleReply, HandleFinal
<1>2. ASSUME NEW r \in Request, ClientSend(r) PROVE UNCHANGED members
  BY <1>2 DEF ClientSend
<1>3. Membership => MP!Next
  BY SameMembership DEF Membership
<1>4. QED
  BY <1>1, <1>2, <1>3 DEF Next, vars

LEMMA MembersInit == Init => MP!NInv
BY SameMembership, MP!NInit, MembershipAssumption DEF Init

LEMMA MembersNext == MP!NInv /\ [Next]_vars => MP!NInv'
BY StepOfMembers, MP!NNext, MembershipAssumption

LEMMA MembersInvariant == Spec => []MP!NInv
BY MembersInit, MembersNext, PTL DEF Spec

\* Requests do not disturb the membership: no peer becomes its own neighbour,
\* so checkPeer (dht.c) never sees an arc from a peer to itself.
THEOREM NeverSelf == Spec => []NeverOwnNeighbour
<1>1. MP!NInv => NeverOwnNeighbour
  BY SameMembership DEF MP!NInv, NeverOwnNeighbour
<1>2. QED
  BY <1>1, MembersInvariant, PTL

-----------------------------------------------------------------------------
(* A peer with both neighbours only ever raises its prevID, so an arc that *)
(* passes zero never becomes one that does not.                            *)

LEMMA PrevRises ==
  ASSUME MP!NInv, [Next]_vars, NEW p \in Peer, prevID[p] # unknown, nextID[p] # unknown
  PROVE  /\ prevID[p] \in Nat /\ prevID'[p] \in Nat /\ prevID[p] # p /\ nextID'[p] # unknown
         /\ \/ prevID'[p] = prevID[p]
            \/ prevID'[p] > prevID[p] /\ MP!Between(prevID[p], prevID'[p], p)
<1>1. /\ prevID[p] \in Peer /\ nextID[p] \in Peer /\ prevID[p] # p
      /\ prevID'[p] \in Peer \cup {unknown}
  <2>1. MP!TypeOK /\ MP!TypeOK' /\ MP!NeverOwnNeighbour
    BY MembersNext DEF MP!NInv
  <2>2. QED
    BY <2>1 DEF MP!TypeOK, MP!NeverOwnNeighbour
<1>2. MP!TypeOK /\ [MP!Next]_(MP!vars)
  BY StepOfMembers DEF MP!NInv
<1>3. nextID'[p] # unknown
  BY <1>2, MP!StaysKnown, MembershipAssumption
<1>4. prevID'[p] # prevID[p] => prevID'[p] > prevID[p] /\ MP!Between(prevID[p], prevID'[p], p)
  BY <1>2, MP!PrevStep, MembershipAssumption
<1>5. QED
  BY <1>1, <1>3, <1>4, MembershipAssumption

LEMMA ArcNarrows ==
  ASSUME NEW p \in Nat, NEW lo \in Nat, NEW up \in Nat, NEW h \in Nat,
         lo # p, up = lo \/ (up > lo /\ MP!Between(lo, up, p)), InArc(up, p, h)
  PROVE  InArc(lo, p, h)
BY DEF MP!Between, InArc, Block4!InArc

\* Who a peer takes to be in charge, whatever its neighbours.
LEMMA CheckFacts ==
  ASSUME NEW p, NEW id
  PROVE  /\ Check(p, id) = thisPeer <=>
              nextID[p] = unknown \/ InArc(prevID[p], p, ringHashing(id))
         /\ Check(p, id) \in {thisPeer, nextPeer, unknownPeer}
         /\ Check(p, id) # thisPeer => nextID[p] # unknown
BY DEF Check, checkPeer, thisPeer, nextPeer, unknownPeer

LEMMA HashIsNat ==
  ASSUME NEW k \in Key
  PROVE  keyID[k] \in (0..255) \X (0..255) /\ ringHashing(keyID[k]) \in Nat
<1>1. keyID[k] \in (0..255) \X (0..255)
  BY RequestAssumption
<1>2. keyID[k][1] \in 0..255 /\ keyID[k][2] \in 0..255
  BY <1>1
<1>3. \A a, b \in 0..255 : a * 256 + b \in Nat
  OBVIOUS
<1>4. QED
  BY <1>1, <1>2, <1>3 DEF ringHashing

\* A key that went to another peer does not come back to one that has both
\* neighbours: checkJoinPeer (dht.c:57) accepts nobody farther than prevID.
THEOREM NeverBack == Spec => NeverTakesBack
<1>1. ASSUME MP!NInv, [Next]_vars, NEW p \in Peer, NEW k \in Key,
             prevID[p] # unknown, nextID[p] # unknown, InCharge(p, k)'
      PROVE  InCharge(p, k)
  <2> DEFINE h == ringHashing(keyID[k])
  <2>1. h \in Nat /\ p \in Nat
    BY HashIsNat, MembershipAssumption
  <2>2. nextID'[p] = unknown \/ InArc(prevID'[p], p, h)
    BY <1>1 DEF InCharge, Check, checkPeer, thisPeer, nextPeer, unknownPeer
  <2> HIDE DEF h
  <2>3. InArc(prevID[p], p, h)
    BY <1>1, <2>1, <2>2, PrevRises, ArcNarrows
  <2>4. QED
    BY <2>3, CheckFacts DEF InCharge, h
<1>2. MP!NInv /\ [Next]_vars =>
        [\A p \in Peer, k \in Key :
           prevID[p] # unknown /\ nextID[p] # unknown /\ ~InCharge(p, k) => ~InCharge(p, k)']_vars
  BY <1>1
<1>3. QED
  BY <1>2, MembersInvariant, PTL DEF Spec, NeverTakesBack

LEMMA RingInit == Init => MP!PInv
BY SameMembership, MP!PInit, MembershipAssumption DEF Init

LEMMA RingNext ==
  ASSUME Patient, MaxRounds <= 1
  PROVE  MP!NInv /\ MP!PInv /\ [Next]_vars => MP!PInv'
BY StepOfMembers, MP!PNext, MembershipAssumption

\* Ranges whose ends do not lie in each other do not overlap.
LEMMA RangesApart ==
  ASSUME NEW lo \in Nat, NEW p \in Nat, NEW up \in Nat, NEW q \in Nat, NEW h \in Nat,
         p # q, lo # p, up # q, ~MP!Between(lo, q, p), ~MP!Between(up, p, q),
         InArc(lo, p, h)
  PROVE  ~InArc(up, q, h)
BY DEF MP!Between, InArc, Block4!InArc

\* When peers come one after the other and have one STABILIZE round under way
\* each, no two that know both their neighbours execute requests for the same
\* key, whatever newcomer is on its way between them (checkPeer and
\* checkJoinPeer, dht.c).
THEOREM OneOwner ==
  ASSUME Patient, MaxRounds <= 1
  PROVE  Spec => [](\A p, q \in Peer, k \in Key :
           /\ p # q /\ InCharge(p, k) /\ InCharge(q, k)
           => \E u \in {p, q} : prevID[u] = unknown \/ nextID[u] = unknown)
<1> DEFINE Owners == \A p, q \in Peer, k \in Key :
           /\ p # q /\ InCharge(p, k) /\ InCharge(q, k)
           => \E u \in {p, q} : prevID[u] = unknown \/ nextID[u] = unknown
<1>1. ASSUME MP!NInv, MP!PInv PROVE Owners
  <2> SUFFICES ASSUME NEW p \in Peer, NEW q \in Peer, NEW k \in Key, p # q,
                      InCharge(p, k), InCharge(q, k),
                      prevID[p] # unknown, prevID[q] # unknown,
                      nextID[p] # unknown, nextID[q] # unknown
               PROVE  FALSE
    OBVIOUS
  <2>1. MP!NobodyPassedOver
    BY <1>1, MP!RingHasNobodyBetween, MembershipAssumption
  <2>2. p \in MP!Members /\ q \in MP!Members
    BY <1>1 DEF MP!NInv, MP!OnlyStarted, MP!Members
  <2>3. ~MP!Between(prevID[p], q, p) /\ ~MP!Between(prevID[q], p, q)
    BY <2>1, <2>2 DEF MP!NobodyPassedOver
  <2>4. /\ p \in Nat /\ q \in Nat /\ prevID[p] \in Nat /\ prevID[q] \in Nat
        /\ prevID[p] # p /\ prevID[q] # q
    BY <1>1, MembershipAssumption DEF MP!NInv, MP!TypeOK, MP!NeverOwnNeighbour
  <2>5. /\ InArc(prevID[p], p, ringHashing(keyID[k]))
        /\ InArc(prevID[q], q, ringHashing(keyID[k]))
    BY CheckFacts DEF InCharge
  <2>6. QED
    BY <2>3, <2>4, <2>5, HashIsNat, RangesApart
<1>2. MP!NInv /\ MP!PInv /\ [Next]_vars => (MP!NInv /\ MP!PInv)'
  BY RingNext, MembersNext
<1>3. Init => MP!NInv /\ MP!PInv
  BY RingInit, MembersInit
<1> HIDE DEF Owners
<1>4. Spec => []Owners
  BY <1>1, <1>2, <1>3, PTL DEF Spec
<1>5. QED
  BY <1>4 DEF Owners

-----------------------------------------------------------------------------
(* The parts of messages, entries and connections.                         *)

LEMMA CallParts ==
  ASSUME NEW c \in Call
  PROVE  /\ c.key \in Key /\ keyID[c.key] \in (0..255) \X (0..255) /\ c # None
         /\ c.op \in {"SET", "GET", "DEL"} /\ c.val \in Value \cup {None}
BY RequestAssumption DEF Call

LEMMA ConnParts ==
  ASSUME NEW c \in Conn
  PROVE  /\ c[1] \in Request /\ c[2] \in 0..MaxHops /\ c[2] \in Int /\ c # None
         /\ c[2] < MaxHops => /\ Further(c) \in Conn /\ Further(c)[1] = c[1]
                              /\ Further(c)[2] = c[2] + 1
BY RequestAssumption DEF Conn, Further

LEMMA FirstConn ==
  ASSUME NEW r \in Request
  PROVE  <<r, 0>> \in Conn /\ <<r, 0>>[1] = r /\ <<r, 0>>[2] = 0
BY RequestAssumption DEF Conn

LEMMA MessageParts ==
  ASSUME TypeOK, NEW m \in net
  PROVE  /\ m.conn \in Conn /\ m.to \in Peer
         /\ m.type \in {"HASH", "LOOKUP", "REPLY", "FINAL"}
         /\ m.type = "HASH" =>
              /\ m.req \in Request /\ m.from \in Peer \cup {Client}
              /\ m = [type |-> "HASH", req |-> m.req, conn |-> m.conn, from |-> m.from, to |-> m.to]
         /\ m.type = "LOOKUP" =>
              /\ m.orig \in Peer /\ m.id \in (0..255) \X (0..255)
              /\ m = [type |-> "LOOKUP", conn |-> m.conn, orig |-> m.orig, to |-> m.to, id |-> m.id]
         /\ m.type = "REPLY" => m.chosen \in Peer /\ m.id \in (0..255) \X (0..255)
         /\ m.type = "FINAL" => m.res \in Response
BY DEF TypeOK, Message

LEMMA TableType ==
  ASSUME NEW tab \in [Key -> Value \cup {None}], NEW c \in Call
  PROVE  /\ Apply(tab, c) \in [Key -> Value \cup {None}]
         /\ Result(tab, c) \in Response
         /\ \A k \in Key \ {c.key} : Apply(tab, c)[k] = tab[k]
<1>1. c.key \in Key /\ c.op \in {"SET", "GET", "DEL"} /\ c.val \in Value \cup {None}
  BY CallParts
<1>2. Result(tab, c) \in Response
  BY <1>1 DEF Result, Response
<1>3. QED
  BY <1>1, <1>2 DEF Apply

\* The entries of a list, without their order.
Waiting(p) == Range(infoList[p])

LEMMA WaitingParts ==
  ASSUME TypeOK, NEW p \in Peer
  PROVE  /\ infoList[p] \in Seq(InfoEntry) /\ Len(infoList[p]) \in Nat
         /\ DOMAIN infoList[p] = 1..Len(infoList[p])
         /\ \A i \in 1..Len(infoList[p]) : infoList[p][i] \in Waiting(p)
         /\ \A e \in Waiting(p) : \E i \in 1..Len(infoList[p]) : e = infoList[p][i]
         /\ \A e \in Waiting(p) :
              /\ e \in InfoEntry /\ e.req \in Request /\ e.conn \in Conn
              /\ e.caller \in Peer \cup {Client} /\ e.final \in Conn \cup {None}
<1>1. infoList[p] \in Seq(InfoEntry)
  BY DEF TypeOK
<1>2. DOMAIN infoList[p] = 1..Len(infoList[p]) /\ Len(infoList[p]) \in Nat
  BY <1>1, LenProperties
<1>3. Waiting(p) \subseteq InfoEntry
  BY <1>1, RangeOfSeq DEF Waiting
<1>4. /\ \A i \in 1..Len(infoList[p]) : infoList[p][i] \in Waiting(p)
      /\ \A e \in Waiting(p) : \E i \in 1..Len(infoList[p]) : e = infoList[p][i]
  BY <1>2 DEF Waiting, Range
<1>5. \A e \in InfoEntry : /\ e.req \in Request /\ e.conn \in Conn
                           /\ e.caller \in Peer \cup {Client} /\ e.final \in Conn \cup {None}
  BY DEF InfoEntry
<1>6. QED
  BY <1>1, <1>2, <1>3, <1>4, <1>5

\* getClientRequestInfo finds an entry of the connection and operation if
\* there is one.
LEMMA SearchByFinal ==
  ASSUME TypeOK, NEW p \in Peer, NEW m
  PROVE  LET i == getClientRequestInfo(p, m) IN
         /\ i # 0 => /\ i \in 1..Len(infoList[p]) /\ infoList[p][i] \in Waiting(p)
                     /\ infoList[p][i].final = m.conn
         /\ (\E e \in Waiting(p) : e.final = m.conn /\ call[e.req].op = m.res.op) => i # 0
<1> DEFINE S == {i \in 1..Len(infoList[p]) :
                   infoList[p][i].final = m.conn /\ call[infoList[p][i].req].op = m.res.op}
<1>1. getClientRequestInfo(p, m) = IF S # {} THEN Min(S) ELSE 0
  BY DEF getClientRequestInfo, SelectInSeq
<1>2. S # {} => Min(S) \in 1..Len(infoList[p]) /\ Min(S) \in S
  <2>1. S \subseteq 1..Len(infoList[p])
    OBVIOUS
  <2> HIDE DEF S
  <2>2. QED
    BY <2>1, FirstMatch, WaitingParts
<1>3. (\E e \in Waiting(p) : e.final = m.conn /\ call[e.req].op = m.res.op) => S # {}
  <2> SUFFICES ASSUME NEW e \in Waiting(p), e.final = m.conn, call[e.req].op = m.res.op
               PROVE  S # {}
    OBVIOUS
  <2>1. PICK i \in 1..Len(infoList[p]) : e = infoList[p][i]
    BY WaitingParts
  <2>2. i \in S
    BY <2>1
  <2>3. QED
    BY <2>2
<1>4. \A i \in S : infoList[p][i] \in Waiting(p) /\ infoList[p][i].final = m.conn
  BY WaitingParts
<1>5. 0 \notin 1..Len(infoList[p])
  BY WaitingParts
<1> HIDE DEF S
<1>6. QED
  BY <1>1, <1>2, <1>3, <1>4, <1>5

-----------------------------------------------------------------------------
(* What the steps do to messages, lists and answers, with the neighbours   *)
(* left out: only how a request got there matters for what follows.        *)

\* Every request that messages and entries name has been called.
Called ==
  /\ \A m \in net : call[m.conn[1]] # None /\ (m.type = "HASH" => call[m.req] # None)
  /\ \A p \in Peer : \A e \in Waiting(p) :
       /\ call[e.req] # None /\ call[e.conn[1]] # None
       /\ e.final # None => call[e.final[1]] # None

TInv == TypeOK /\ Called

Sends(r, c, h) ==
  /\ c \in Call /\ call[r] = None /\ call' = [call EXCEPT ![r] = c]
  /\ h \in Message /\ h.type = "HASH" /\ h.req = r /\ h.conn = <<r, 0>>
  /\ h.from = Client /\ h.to \in started
  /\ net' = net \cup {h}
  /\ UNCHANGED <<members, infoList, hTab, answer, ran, clash>>

\* F is the FINAL that a peer is sent, or nothing when a client is answered.
Replies(m, F, conn, caller, res) ==
  /\ net' = (net \ {m}) \cup F /\ F \subseteq Message
  /\ \A f \in F : f.type = "FINAL" /\ f.conn = conn /\ f.to = caller /\ f.res = res
  /\ \A f, g \in F : f = g
  /\ F = {} <=> caller = Client
  /\ answer' \in [Request -> Response \cup {None}]
  /\ \A r \in Request : answer'[r] = IF caller = Client /\ r = conn[1] THEN res ELSE answer[r]

Executes(p, m, F) ==
  /\ m \in net /\ m.type = "HASH" /\ m.to = p /\ Check(p, IDOf(m)) = thisPeer
  /\ Replies(m, F, m.conn, m.from, Result(hTab[p], call[m.req]))
  /\ hTab' = [hTab EXCEPT ![p] = Apply(@, call[m.req])]
  /\ ran' = ran \cup {m.req}
  /\ UNCHANGED <<members, infoList, call, clash>>

Passes(m, o) ==
  /\ m \in net /\ m.type = "LOOKUP" /\ o \in Message
  /\ o.conn = m.conn /\ o.id = m.id
  /\ \/ o.type = "LOOKUP" /\ o.orig = m.orig
     \/ o.type = "REPLY" /\ o.to = m.orig /\ o.chosen = nextID[m.to]
  /\ o.to # unknown /\ (o.to = m.orig \/ o.to = nextID[m.to])
  /\ net' = (net \ {m}) \cup {o}
  /\ UNCHANGED <<members, infoList, hTab, call, answer, ran, clash>>

Drops(m) ==
  /\ m \in net /\ net' = net \ {m}
  /\ \/ m.type = "LOOKUP" /\ dropped' = dropped \cup {m.conn[1]} /\ UNCHANGED down
     \/ m.type = "REPLY" /\ 0 \in findHashRequestInfo(m.to, m.id) /\ UNCHANGED down
     \/ m.type = "FINAL" /\ getClientRequestInfo(m.to, m) = 0 /\ down' = down \cup {m.to}
  /\ UNCHANGED <<members, infoList, hTab, call, answer, ran, clash>>

Enlists(p, m, e, o) ==
  /\ m \in net /\ m.type = "HASH" /\ m.to = p
  /\ e \in InfoEntry /\ e.req = m.req /\ e.conn = m.conn /\ e.caller = m.from
  /\ o \in Message /\ o.to = nextID[p] /\ o.conn[1] = m.conn[1]
  /\ \/ /\ o.type = "HASH" /\ o.req = m.req /\ o.from = p
        /\ e.final = o.conn /\ o.conn[2] = m.conn[2] + 1
        /\ UNCHANGED clash
     \/ /\ o.type = "LOOKUP" /\ o.orig = p /\ o.id = IDOf(m)
        /\ e.final = None /\ o.conn = m.conn
        /\ clash \subseteq clash'
        /\ p \notin clash' => \A i \in 1..Len(infoList[p]) :
             ~Finds(infoList[p][i], o.id) /\ ~MayFind(infoList[p][i], o.id)
  /\ net' = (net \ {m}) \cup {o}
  /\ infoList' = [infoList EXCEPT ![p] = Append(@, e)]
  /\ UNCHANGED <<members, hTab, call, answer, ran>>

SetsFinal(p, i, c) == infoList' = [infoList EXCEPT ![p][i].final = c]

Forwards(p, m, i, o) ==
  /\ m \in net /\ m.type = "REPLY" /\ m.to = p
  /\ i \in 1..Len(infoList[p]) /\ i \in findHashRequestInfo(p, m.id)
  /\ o \in Message /\ o.type = "HASH" /\ o.req = infoList[p][i].req /\ o.from = p
  /\ o.to = m.chosen /\ o.conn[1] = m.conn[1] /\ o.conn[2] = m.conn[2] + 1
  /\ net' = (net \ {m}) \cup {o}
  /\ SetsFinal(p, i, o.conn)
  /\ UNCHANGED <<members, hTab, call, answer, ran, clash>>

Returns(p, m, i, F) ==
  /\ m \in net /\ m.type = "FINAL" /\ m.to = p
  /\ i \in 1..Len(infoList[p]) /\ infoList[p][i].final = m.conn
  /\ Replies(m, F, infoList[p][i].conn, infoList[p][i].caller, m.res)
  /\ infoList' = [infoList EXCEPT ![p] = RemoveAt(@, i)]
  /\ UNCHANGED <<members, hTab, call, ran, clash>>

Rests == UNCHANGED <<infoList, hTab, net, call, answer, ran, clash>>

LEMMA SendShape ==
  ASSUME TInv, NEW r \in Request, ClientSend(r)
  PROVE  \E c, h : Sends(r, c, h)
<1>1. PICK c \in Asks[r], p \in started \cap Entry[r] :
        /\ call' = [call EXCEPT ![r] = c]
        /\ net' = net \cup {[type |-> "HASH", req |-> r, conn |-> <<r, 0>>,
                             from |-> Client, to |-> p]}
  BY DEF ClientSend
<1> DEFINE h == [type |-> "HASH", req |-> r, conn |-> <<r, 0>>, from |-> Client, to |-> p]
<1>2. c \in Call /\ p \in Peer /\ p \in started
  BY RequestAssumption
<1>3. h \in Message /\ h.type = "HASH" /\ h.req = r /\ h.conn = <<r, 0>>
      /\ h.from = Client /\ h.to \in started
  BY <1>2, FirstConn DEF Message
<1>4. Sends(r, c, h)
  BY <1>1, <1>2, <1>3 DEF Sends, ClientSend
<1>5. QED
  BY <1>4

LEMMA AnswerShape ==
  ASSUME TypeOK, NEW m, NEW conn \in Conn, NEW caller \in Peer \cup {Client},
         NEW res \in Response, Answer(m, conn, caller, res)
  PROVE  \E F : Replies(m, F, conn, caller, res)
<1> DEFINE f == [type |-> "FINAL", conn |-> conn, to |-> caller, res |-> res]
           F == {x \in {f} : caller # Client}
<1>1. net' = (net \ {m}) \cup F
  BY DEF Answer
<1>2. caller # Client => f \in Message
  BY DEF Message
<1>3. f.type = "FINAL" /\ f.conn = conn /\ f.to = caller /\ f.res = res
  OBVIOUS
<1>4. conn[1] \in Request /\ answer \in [Request -> Response \cup {None}]
  BY ConnParts DEF TypeOK
<1>5. /\ answer' \in [Request -> Response \cup {None}]
      /\ \A r \in Request : answer'[r] = IF caller = Client /\ r = conn[1] THEN res ELSE answer[r]
  BY <1>4 DEF Answer
<1> HIDE DEF f
<1>6. Replies(m, F, conn, caller, res)
  BY <1>1, <1>2, <1>3, <1>5 DEF Replies
<1> HIDE DEF F
<1>7. QED
  BY <1>6

LEMMA HashHereShape ==
  ASSUME TInv, NEW p \in Peer, NEW m \in net, HashHere(p, m)
  PROVE  \E F : Executes(p, m, F)
<1>1. m.type = "HASH" /\ m.conn \in Conn /\ m.req \in Request /\ m.from \in Peer \cup {Client}
  BY MessageParts DEF TInv, HashHere, Read
<1>2. call[m.req] \in Call /\ hTab[p] \in [Key -> Value \cup {None}]
  BY <1>1 DEF TInv, Called, TypeOK
<1>3. Result(hTab[p], call[m.req]) \in Response
  BY <1>2, TableType
<1>4. PICK F : Replies(m, F, m.conn, m.from, Result(hTab[p], call[m.req]))
  BY <1>1, <1>3, AnswerShape DEF TInv, HashHere
<1>5. Executes(p, m, F)
  BY <1>1, <1>4 DEF Executes, HashHere, Read
<1>6. QED
  BY <1>5

LEMMA LookupShape ==
  ASSUME TInv, NEW p \in Peer, NEW m \in net, LookupNext(p, m) \/ LookupOn(p, m)
  PROVE  \E o : Passes(m, o)
<1>1. /\ m.type = "LOOKUP" /\ m.to = p /\ Check(p, m.id) # thisPeer
      /\ UNCHANGED <<members, infoList, hTab, call, answer, ran, clash>>
  BY DEF LookupNext, LookupOn, Read, thisPeer, nextPeer, unknownPeer
<1>2. /\ m.orig \in Peer /\ m.id \in (0..255) \X (0..255) /\ m.conn \in Conn
      /\ m = [type |-> "LOOKUP", conn |-> m.conn, orig |-> m.orig, to |-> m.to, id |-> m.id]
  BY <1>1, MessageParts DEF TInv
<1>3. nextID[p] \in Peer /\ \A q \in Peer : q # unknown
  BY <1>1, CheckFacts, MembershipAssumption DEF TInv, TypeOK, M!TypeOK
<1>4. CASE LookupNext(p, m)
  <2> DEFINE o == [type |-> "REPLY", conn |-> m.conn, chosen |-> nextID[p],
                   to |-> m.orig, id |-> m.id]
  <2>1. /\ o \in Message /\ o.conn = m.conn /\ o.id = m.id /\ o.type = "REPLY" /\ o.to = m.orig
        /\ o.chosen = nextID[p]
    BY <1>2, <1>3 DEF Message
  <2>2. net' = (net \ {m}) \cup {o}
    BY <1>4 DEF LookupNext, Pass
  <2> HIDE DEF o
  <2>3. Passes(m, o)
    BY <1>1, <1>2, <1>3, <2>1, <2>2 DEF Passes
  <2>4. QED
    BY <2>3
<1>5. CASE LookupOn(p, m)
  <2> DEFINE o == [m EXCEPT !.to = nextID[p]]
  <2>1. o = [type |-> "LOOKUP", conn |-> m.conn, orig |-> m.orig, to |-> nextID[p], id |-> m.id]
    BY <1>2
  <2>2. net' = (net \ {m}) \cup {o}
    BY <1>5 DEF LookupOn, Pass
  <2> HIDE DEF o
  <2>3. o \in Message /\ o.conn = m.conn /\ o.id = m.id /\ o.type = "LOOKUP"
        /\ o.orig = m.orig /\ o.to = nextID[p]
    BY <1>2, <1>3, <2>1 DEF Message
  <2>4. Passes(m, o)
    BY <1>1, <1>3, <2>2, <2>3 DEF Passes
  <2>5. QED
    BY <2>4
<1>6. QED
  BY <1>4, <1>5

LEMMA HashParts ==
  ASSUME TInv, NEW p \in Peer, NEW m \in net, Read(p, m, "HASH")
  PROVE  /\ m.type = "HASH" /\ m.to = p /\ m.req \in Request /\ m.conn \in Conn
         /\ m.from \in Peer \cup {Client} /\ call[m.req] \in Call
         /\ m = [type |-> "HASH", req |-> m.req, conn |-> m.conn, from |-> m.from, to |-> m.to]
         /\ IDOf(m) \in (0..255) \X (0..255)
<1>1. /\ m.type = "HASH" /\ m.to = p /\ m.req \in Request /\ m.conn \in Conn
      /\ m.from \in Peer \cup {Client}
      /\ m = [type |-> "HASH", req |-> m.req, conn |-> m.conn, from |-> m.from, to |-> m.to]
  BY MessageParts DEF TInv, Read
<1>2. call[m.req] \in Call
  BY <1>1 DEF TInv, Called, TypeOK
<1>3. QED
  BY <1>1, <1>2, CallParts DEF IDOf

LEMMA HashNextShape ==
  ASSUME TInv, NEW p \in Peer, NEW m \in net, HashNext(p, m)
  PROVE  \E e, o : Enlists(p, m, e, o)
<1> DEFINE o == [m EXCEPT !.conn = Further(@), !.from = p, !.to = nextID[p]]
           e == Info(m, Further(m.conn))
<1>1. /\ m.type = "HASH" /\ m.to = p /\ m.req \in Request /\ m.conn \in Conn
      /\ m.from \in Peer \cup {Client}
      /\ m = [type |-> "HASH", req |-> m.req, conn |-> m.conn, from |-> m.from, to |-> m.to]
  BY HashParts DEF HashNext
<1>2. Further(m.conn) \in Conn /\ Further(m.conn)[1] = m.conn[1]
      /\ Further(m.conn)[2] = m.conn[2] + 1
  BY <1>1, ConnParts DEF HashNext
<1>3. nextID[p] \in Peer
  BY CheckFacts DEF HashNext, TInv, TypeOK, M!TypeOK, thisPeer, nextPeer
<1>4. o = [type |-> "HASH", req |-> m.req, conn |-> Further(m.conn), from |-> p, to |-> nextID[p]]
  <2> DEFINE a == [m EXCEPT !.conn = Further(@)]
             b == [a EXCEPT !.from = p]
  <2>1. a = [type |-> "HASH", req |-> m.req, conn |-> Further(m.conn), from |-> m.from, to |-> m.to]
    BY <1>1
  <2> HIDE DEF a
  <2>2. b = [type |-> "HASH", req |-> m.req, conn |-> Further(m.conn), from |-> p, to |-> m.to]
    BY <2>1
  <2> HIDE DEF b
  <2>3. [b EXCEPT !.to = nextID[p]]
          = [type |-> "HASH", req |-> m.req, conn |-> Further(m.conn), from |-> p, to |-> nextID[p]]
    BY <2>2
  <2>4. o = [b EXCEPT !.to = nextID[p]]
    BY Zenon DEF a, b
  <2>5. QED
    BY <2>3, <2>4
<1>5. /\ e \in InfoEntry /\ e.req = m.req /\ e.conn = m.conn /\ e.caller = m.from
      /\ e.final = Further(m.conn)
  BY <1>1, <1>2 DEF Info, InfoEntry
<1>6. net' = (net \ {m}) \cup {o} /\ infoList' = [infoList EXCEPT ![p] = Append(@, e)]
  BY DEF HashNext, Pass, put_in_the_list
<1>7. UNCHANGED <<members, hTab, call, answer, ran, clash>>
  BY DEF HashNext
<1> HIDE DEF o, e
<1>8. /\ o \in Message /\ o.type = "HASH" /\ o.req = m.req /\ o.from = p /\ o.to = nextID[p]
      /\ o.conn = Further(m.conn)
  BY <1>1, <1>2, <1>3, <1>4 DEF Message
<1>9. Enlists(p, m, e, o)
  BY <1>1, <1>2, <1>5, <1>6, <1>7, <1>8 DEF Enlists
<1>10. QED
  BY <1>9

LEMMA HashUnknownShape ==
  ASSUME TInv, NEW p \in Peer, NEW m \in net, HashUnknown(p, m)
  PROVE  \E e, o : Enlists(p, m, e, o)
<1> DEFINE o == [type |-> "LOOKUP", conn |-> m.conn, orig |-> p, to |-> nextID[p],
                 id |-> IDOf(m)]
           e == Info(m, None)
<1>1. /\ m.type = "HASH" /\ m.to = p /\ m.req \in Request /\ m.conn \in Conn
      /\ m.from \in Peer \cup {Client} /\ IDOf(m) \in (0..255) \X (0..255)
  BY HashParts DEF HashUnknown
<1>2. nextID[p] \in Peer
  BY CheckFacts DEF HashUnknown, TInv, TypeOK, M!TypeOK, thisPeer, unknownPeer
<1>3. /\ e \in InfoEntry /\ e.req = m.req /\ e.conn = m.conn /\ e.caller = m.from
      /\ e.final = None
  BY <1>1 DEF Info, InfoEntry
<1>4. /\ o \in Message /\ o.type = "LOOKUP" /\ o.orig = p /\ o.id = IDOf(m) /\ o.to = nextID[p]
      /\ o.conn = m.conn
  BY <1>1, <1>2 DEF Message
<1>5. net' = (net \ {m}) \cup {o} /\ infoList' = [infoList EXCEPT ![p] = Append(@, e)]
  BY DEF HashUnknown, Pass, put_in_the_list
<1>6. UNCHANGED <<members, hTab, call, answer, ran>>
  BY DEF HashUnknown
<1> HIDE DEF o, e
<1>7. /\ clash \subseteq clash'
      /\ p \notin clash' => \A i \in 1..Len(infoList[p]) :
           ~Finds(infoList[p][i], o.id) /\ ~MayFind(infoList[p][i], o.id)
  BY <1>4, WaitingParts DEF HashUnknown, TInv
<1>8. Enlists(p, m, e, o)
  BY <1>1, <1>3, <1>4, <1>5, <1>6, <1>7 DEF Enlists
<1>9. QED
  BY <1>8

\* What findHashRequestInfo may return.
LEMMA SearchByID ==
  ASSUME TypeOK, NEW p \in Peer, NEW id, NEW i \in findHashRequestInfo(p, id)
  PROVE  /\ i = 0 \/ i \in 1..Len(infoList[p])
         /\ i = 0 => \A j \in 1..Len(infoList[p]) : ~Finds(infoList[p][j], id)
         /\ i # 0 => /\ Finds(infoList[p][i], id) \/ MayFind(infoList[p][i], id)
                     /\ \A j \in 1..(i - 1) : ~Finds(infoList[p][j], id)
BY WaitingParts DEF findHashRequestInfo

LEMMA ReplyShape ==
  ASSUME TInv, NEW p \in Peer, NEW m \in net, HandleReply(p, m)
  PROVE  Drops(m) \/ \E i, o : Forwards(p, m, i, o)
<1>1. /\ m.type = "REPLY" /\ m.to = p /\ UNCHANGED <<members, hTab, call, answer, ran, clash>>
  BY DEF HandleReply, Read
<1>2. m.conn \in Conn /\ m.chosen \in Peer /\ \A q \in Peer : q # unknown
  BY <1>1, MessageParts, MembershipAssumption DEF TInv
<1>3. PICK i \in findHashRequestInfo(p, m.id) :
        IF i = 0
          THEN net' = net \ {m} /\ UNCHANGED infoList
          ELSE /\ m.conn[2] < MaxHops
               /\ Pass(m, [type |-> "HASH", req |-> infoList[p][i].req,
                           conn |-> Further(m.conn), from |-> p, to |-> m.chosen])
               /\ infoList' = [infoList EXCEPT ![p][i].final = Further(m.conn)]
  BY DEF HandleReply
<1>4. CASE i = 0
  BY <1>1, <1>3, <1>4 DEF Drops, HandleReply
<1>5. CASE i # 0
  <2> DEFINE o == [type |-> "HASH", req |-> infoList[p][i].req,
                   conn |-> Further(m.conn), from |-> p, to |-> m.chosen]
  <2>1. i \in 1..Len(infoList[p]) /\ infoList[p][i].req \in Request
    BY <1>5, SearchByID, WaitingParts DEF TInv
  <2>2. Further(m.conn) \in Conn /\ Further(m.conn)[1] = m.conn[1]
        /\ Further(m.conn)[2] = m.conn[2] + 1
    BY <1>2, <1>3, <1>5, ConnParts
  <2>3. /\ o \in Message /\ o.type = "HASH" /\ o.req = infoList[p][i].req /\ o.from = p
        /\ o.to = m.chosen /\ o.conn = Further(m.conn)
    BY <1>2, <2>1, <2>2 DEF Message
  <2>4. net' = (net \ {m}) \cup {o}
        /\ infoList' = [infoList EXCEPT ![p][i].final = Further(m.conn)]
    BY <1>3, <1>5 DEF Pass
  <2> HIDE DEF o
  <2>5. SetsFinal(p, i, o.conn)
    BY <2>3, <2>4 DEF SetsFinal
  <2>6. o.conn[1] = m.conn[1] /\ o.conn[2] = m.conn[2] + 1
    BY <2>2, <2>3
  <2>7. Forwards(p, m, i, o)
    BY <1>1, <2>1, <2>3, <2>4, <2>5, <2>6, Zenon DEF Forwards
  <2>8. QED
    BY <2>7
<1>6. QED
  BY <1>4, <1>5

LEMMA FinalShape ==
  ASSUME TInv, NEW p \in Peer, NEW m \in net, HandleFinal(p, m)
  PROVE  Drops(m) \/ \E i, F : Returns(p, m, i, F)
<1> DEFINE i == getClientRequestInfo(p, m)
           e == infoList[p][i]
<1>1. /\ m.type = "FINAL" /\ m.to = p /\ m.res \in Response
      /\ UNCHANGED <<members, hTab, call, ran, clash>>
  BY MessageParts DEF HandleFinal, Read, TInv
<1>2. CASE i = 0
  BY <1>1, <1>2 DEF HandleFinal, Drops
<1>3. CASE i # 0
  <2>1. i \in 1..Len(infoList[p]) /\ e \in Waiting(p) /\ e.final = m.conn
    BY <1>3, SearchByFinal DEF TInv
  <2>2. e.conn \in Conn /\ e.caller \in Peer \cup {Client}
    BY <2>1, WaitingParts DEF TInv
  <2>3. Answer(m, e.conn, e.caller, m.res)
        /\ infoList' = [infoList EXCEPT ![p] = RemoveAt(@, i)] /\ UNCHANGED down
    BY <1>3 DEF HandleFinal, remove_info_from_list
  <2> HIDE DEF i
  <2>4. PICK F : Replies(m, F, e.conn, e.caller, m.res)
    BY <1>1, <2>2, <2>3, AnswerShape DEF TInv
  <2>5. Returns(p, m, i, F)
    BY <1>1, <2>1, <2>3, <2>4 DEF Returns
  <2>6. QED
    BY <2>3, <2>5
<1>4. QED
  BY <1>2, <1>3

\* Every step has one of these shapes.
LEMMA StepShape ==
  ASSUME TInv, [Next]_vars
  PROVE  \/ Rests
         \/ \E r \in Request : \E c, h : Sends(r, c, h)
         \/ \E p \in Peer : \E m, F : Executes(p, m, F)
         \/ \E m, o : Passes(m, o)
         \/ \E m : Drops(m)
         \/ \E p \in Peer : \E m, e, o : Enlists(p, m, e, o)
         \/ \E p \in Peer : \E m, i, o : Forwards(p, m, i, o)
         \/ \E p \in Peer : \E m, i, F : Returns(p, m, i, F)
<1>1. CASE UNCHANGED vars
  BY <1>1 DEF vars, Rests
<1>2. CASE Membership
  BY <1>2 DEF Membership, Rests
<1>3. ASSUME NEW p \in Peer, NEW m \in net, LookupDropped(p, m) PROVE Drops(m)
  BY <1>3 DEF LookupDropped, Read, Drops
<1>4. QED
  BY <1>1, <1>2, <1>3, SendShape, HashHereShape, HashNextShape, HashUnknownShape, LookupShape,
     ReplyShape, FinalShape DEF Next, Handle

-----------------------------------------------------------------------------
(* What becomes of the lists, in order and as sets.                        *)

LEMMA ListAppended ==
  ASSUME TypeOK, NEW p \in Peer, NEW e \in InfoEntry,
         infoList' = [infoList EXCEPT ![p] = Append(@, e)]
  PROVE  /\ infoList' \in [Peer -> Seq(InfoEntry)]
         /\ infoList'[p] = Append(infoList[p], e)
         /\ \A q \in Peer \ {p} : infoList'[q] = infoList[q]
         /\ \A q \in Peer : Waiting(q)' = IF q = p THEN Waiting(p) \cup {e} ELSE Waiting(q)
         /\ Len(infoList'[p]) = Len(infoList[p]) + 1
         /\ \A i \in 1..Len(infoList[p]) : infoList'[p][i] = infoList[p][i]
         /\ infoList'[p][Len(infoList[p]) + 1] = e
<1>1. infoList \in [Peer -> Seq(InfoEntry)] /\ infoList[p] \in Seq(InfoEntry)
  BY DEF TypeOK
<1>2. Range(Append(infoList[p], e)) = Range(infoList[p]) \cup {e}
  BY <1>1, AppendRange
<1>3. /\ Append(infoList[p], e) \in Seq(InfoEntry)
      /\ Len(Append(infoList[p], e)) = Len(infoList[p]) + 1
      /\ \A i \in 1..Len(infoList[p]) : Append(infoList[p], e)[i] = infoList[p][i]
      /\ Append(infoList[p], e)[Len(infoList[p]) + 1] = e
  BY <1>1, AppendProperties
<1>4. infoList'[p] = Append(infoList[p], e) /\ \A q \in Peer \ {p} : infoList'[q] = infoList[q]
  BY <1>1
<1>5. infoList' \in [Peer -> Seq(InfoEntry)]
  BY <1>1, <1>3
<1>6. ASSUME NEW q \in Peer
      PROVE  Waiting(q)' = IF q = p THEN Waiting(p) \cup {e} ELSE Waiting(q)
  <2>1. CASE q = p
    BY <1>2, <1>4, <2>1 DEF Waiting
  <2>2. CASE q # p
    BY <1>4, <2>2 DEF Waiting
  <2>3. QED
    BY <2>1, <2>2
<1>7. QED
  BY <1>3, <1>4, <1>5, <1>6

\* An entry as it is once its request has been forwarded on connection c.
Forwarded(e, c) == [e EXCEPT !.final = c]

LEMMA ListForwarded ==
  ASSUME TypeOK, NEW p \in Peer, NEW i \in 1..Len(infoList[p]), NEW c \in Conn,
         SetsFinal(p, i, c)
  PROVE  LET e == infoList[p][i]
             f == Forwarded(e, c) IN
         /\ infoList' \in [Peer -> Seq(InfoEntry)]
         /\ e \in Waiting(p) /\ f.req = e.req /\ f.conn = e.conn /\ f.caller = e.caller
         /\ f.final = c /\ f \in Waiting(p)'
         /\ \A q \in Peer \ {p} : infoList'[q] = infoList[q] /\ Waiting(q)' = Waiting(q)
         /\ Len(infoList'[p]) = Len(infoList[p])
         /\ \A j \in 1..Len(infoList[p]) : infoList'[p][j] = IF j = i THEN f ELSE infoList[p][j]
         /\ Waiting(p)' \subseteq Waiting(p) \cup {f}
         /\ Waiting(p) \ {e} \subseteq Waiting(p)'
<1> DEFINE e == infoList[p][i]
           f == Forwarded(e, c)
<1>1. infoList \in [Peer -> Seq(InfoEntry)] /\ infoList[p] \in Seq(InfoEntry)
      /\ DOMAIN infoList[p] = 1..Len(infoList[p])
  BY WaitingParts DEF TypeOK
<1>2. e \in InfoEntry /\ e \in Waiting(p)
  BY WaitingParts
<1>3. /\ f \in InfoEntry /\ f.req = e.req /\ f.conn = e.conn /\ f.caller = e.caller
      /\ f.final = c
  BY <1>2 DEF InfoEntry, Forwarded
<1>4. infoList' = [infoList EXCEPT ![p] = [infoList[p] EXCEPT ![i] = f]]
  BY Zenon DEF Forwarded, SetsFinal
<1> HIDE DEF f
<1>5. infoList'[p] = [infoList[p] EXCEPT ![i] = f] /\ \A q \in Peer \ {p} : infoList'[q] = infoList[q]
  BY <1>1, <1>4
<1>6. /\ Range([infoList[p] EXCEPT ![i] = f]) \subseteq Range(infoList[p]) \cup {f}
      /\ (Range(infoList[p]) \ {infoList[p][i]}) \cup {f}
           \subseteq Range([infoList[p] EXCEPT ![i] = f])
  BY <1>1, <1>3, ExceptRange
<1>7. [infoList[p] EXCEPT ![i] = f] \in Seq(InfoEntry)
      /\ Len([infoList[p] EXCEPT ![i] = f]) = Len(infoList[p])
  BY <1>1, <1>3, ExceptSeq
<1>8. \A j \in 1..Len(infoList[p]) : infoList'[p][j] = IF j = i THEN f ELSE infoList[p][j]
  BY <1>1, <1>5
<1>9. infoList' \in [Peer -> Seq(InfoEntry)]
  BY <1>1, <1>4, <1>7
<1>10. QED
  BY <1>2, <1>3, <1>5, <1>6, <1>7, <1>8, <1>9 DEF Waiting, f

LEMMA ListRemoved ==
  ASSUME TypeOK, NEW p \in Peer, NEW i \in 1..Len(infoList[p]),
         infoList' = [infoList EXCEPT ![p] = RemoveAt(@, i)]
  PROVE  /\ infoList' \in [Peer -> Seq(InfoEntry)]
         /\ \A q \in Peer \ {p} : infoList'[q] = infoList[q] /\ Waiting(q)' = Waiting(q)
         /\ Len(infoList'[p]) = Len(infoList[p]) - 1
         /\ \A j \in 1..(Len(infoList[p]) - 1) :
              infoList'[p][j] = IF j < i THEN infoList[p][j] ELSE infoList[p][j + 1]
         /\ Waiting(p)' \subseteq Waiting(p)
         /\ Waiting(p) \ {infoList[p][i]} \subseteq Waiting(p)'
<1>1. infoList \in [Peer -> Seq(InfoEntry)] /\ infoList[p] \in Seq(InfoEntry)
  BY DEF TypeOK
<1>2. /\ Range(RemoveAt(infoList[p], i)) \subseteq Range(infoList[p])
      /\ Range(infoList[p]) \ {infoList[p][i]} \subseteq Range(RemoveAt(infoList[p], i))
  BY <1>1, RemoveAtRange
<1>3. /\ Len(RemoveAt(infoList[p], i)) = Len(infoList[p]) - 1
      /\ \A j \in 1..(Len(infoList[p]) - 1) :
           RemoveAt(infoList[p], i)[j] = IF j < i THEN infoList[p][j] ELSE infoList[p][j + 1]
  BY <1>1, RemoveAtElements
<1>4. RemoveAt(infoList[p], i) \in Seq(InfoEntry)
  BY <1>1, RemoveAtType
<1>5. /\ infoList'[p] = RemoveAt(infoList[p], i)
      /\ \A q \in Peer \ {p} : infoList'[q] = infoList[q]
  BY <1>1
<1>6. infoList' \in [Peer -> Seq(InfoEntry)]
  BY <1>1, <1>4
<1>7. QED
  BY <1>2, <1>3, <1>5, <1>6 DEF Waiting

-----------------------------------------------------------------------------
(* Types: a LOOKUP or HASH is only ever sent on to a successor, and an     *)
(* entry or message never names a request nobody has made.                 *)

LEMMA ReplyTypes ==
  ASSUME TypeOK, NEW m, NEW F, NEW conn, NEW caller, NEW res, Replies(m, F, conn, caller, res)
  PROVE  net' \in SUBSET Message /\ answer' \in [Request -> Response \cup {None}]
BY DEF Replies, TypeOK

\* The histories and the peers that exited.
LEMMA HistoryTypes ==
  ASSUME TypeOK, [Next]_vars
  PROVE  down' \in SUBSET Peer /\ dropped' \in SUBSET Request /\ clash' \in SUBSET Peer
<1>1. ASSUME NEW p \in Peer, NEW m \in net, Handle(p, m)
      PROVE  down' \in SUBSET Peer /\ dropped' \in SUBSET Request /\ clash' \in SUBSET Peer
  <2>1. m.conn[1] \in Request
    BY MessageParts, ConnParts
  <2>2. QED
    BY <1>1, <2>1 DEF Handle, HashHere, HashNext, HashUnknown, LookupNext, LookupOn,
                      LookupDropped, HandleReply, HandleFinal, TypeOK
<1>2. QED
  BY <1>1 DEF Next, Membership, ClientSend, vars, TypeOK

LEMMA MembersType ==
  ASSUME TypeOK, [Next]_vars
  PROVE  M!TypeOK'
<1>1. MP!TypeOK'
  BY SameMembership, StepOfMembers, MP!TypeNext, MembershipAssumption DEF TypeOK
<1>2. QED
  BY <1>1 DEF M!TypeOK, MP!TypeOK, M!Message, MP!Message

LEMMA TypeInit == Init => TInv
<1> SUFFICES ASSUME Init PROVE TInv
  OBVIOUS
<1>1. M!TypeOK
  BY SameMembership, MembersInit DEF MP!NInv
<1>2. <<>> \in Seq(InfoEntry)
  BY EmptySeq
<1>3. TypeOK
  BY <1>1, <1>2 DEF Init, TypeOK
<1>4. \A p \in Peer : Waiting(p) = {}
  BY DEF Init, Waiting, Range
<1>5. QED
  BY <1>3, <1>4 DEF Init, TInv, Called

\* A call once made is never undone.
LEMMA CallKept ==
  ASSUME TypeOK, NEW r \in Request, NEW c, NEW h, Sends(r, c, h)
  PROVE  /\ call' \in [Request -> Call \cup {None}]
         /\ \A s \in Request : call'[s] = IF s = r THEN c ELSE call[s]
         /\ c # None
BY CallParts DEF Sends, TypeOK

LEMMA TypeParts ==
  ASSUME TInv, [Next]_vars
  PROVE  /\ infoList' \in [Peer -> Seq(InfoEntry)]
         /\ hTab' \in [Peer -> [Key -> Value \cup {None}]]
         /\ net' \in SUBSET Message
         /\ call' \in [Request -> Call \cup {None}]
         /\ answer' \in [Request -> Response \cup {None}]
         /\ ran' \in SUBSET Request
<1> DEFINE Goal == /\ infoList' \in [Peer -> Seq(InfoEntry)]
                   /\ hTab' \in [Peer -> [Key -> Value \cup {None}]]
                   /\ net' \in SUBSET Message
                   /\ call' \in [Request -> Call \cup {None}]
                   /\ answer' \in [Request -> Response \cup {None}]
                   /\ ran' \in SUBSET Request
<1>0. /\ infoList \in [Peer -> Seq(InfoEntry)]
      /\ hTab \in [Peer -> [Key -> Value \cup {None}]]
      /\ net \in SUBSET Message
      /\ call \in [Request -> Call \cup {None}]
      /\ answer \in [Request -> Response \cup {None}]
      /\ ran \in SUBSET Request /\ TypeOK
  BY DEF TInv, TypeOK
<1>1. CASE Rests
  BY <1>0, <1>1 DEF Rests
<1>2. ASSUME NEW r \in Request, NEW c, NEW h, Sends(r, c, h) PROVE Goal
  BY <1>0, <1>2, CallKept DEF Sends
<1>3. ASSUME NEW p \in Peer, NEW m, NEW F, Executes(p, m, F) PROVE Goal
  <2>1. m.req \in Request /\ call[m.req] \in Call
    BY <1>0, <1>3, MessageParts DEF Executes, TInv, Called
  <2>2. Apply(hTab[p], call[m.req]) \in [Key -> Value \cup {None}]
    BY <1>0, <2>1, TableType
  <2>3. hTab' \in [Peer -> [Key -> Value \cup {None}]]
    BY <1>0, <1>3, <2>2 DEF Executes
  <2>4. net' \in SUBSET Message /\ answer' \in [Request -> Response \cup {None}]
    BY <1>0, <1>3, ReplyTypes DEF Executes
  <2>5. QED
    BY <1>0, <1>3, <2>1, <2>3, <2>4 DEF Executes
<1>4. ASSUME NEW m, NEW o, Passes(m, o) PROVE Goal
  BY <1>0, <1>4 DEF Passes
<1>5. ASSUME NEW m, Drops(m) PROVE Goal
  BY <1>0, <1>5 DEF Drops
<1>6. ASSUME NEW p \in Peer, NEW m, NEW e, NEW o, Enlists(p, m, e, o) PROVE Goal
  <2>1. infoList' \in [Peer -> Seq(InfoEntry)]
    BY <1>0, <1>6, ListAppended DEF Enlists
  <2>2. QED
    BY <1>0, <1>6, <2>1 DEF Enlists
<1>7. ASSUME NEW p \in Peer, NEW m, NEW i, NEW o, Forwards(p, m, i, o) PROVE Goal
  <2>1. o.conn \in Conn
    BY <1>7 DEF Forwards, Message
  <2>2. infoList' \in [Peer -> Seq(InfoEntry)]
    BY <1>0, <1>7, <2>1, ListForwarded DEF Forwards
  <2>3. QED
    BY <1>0, <1>7, <2>2 DEF Forwards
<1>8. ASSUME NEW p \in Peer, NEW m, NEW i, NEW F, Returns(p, m, i, F) PROVE Goal
  <2>1. infoList' \in [Peer -> Seq(InfoEntry)]
    BY <1>0, <1>8, ListRemoved DEF Returns
  <2>2. net' \in SUBSET Message /\ answer' \in [Request -> Response \cup {None}]
    BY <1>0, <1>8, ReplyTypes DEF Returns
  <2>3. QED
    BY <1>0, <1>8, <2>1, <2>2 DEF Returns
<1>9. QED
  BY <1>1, <1>2, <1>3, <1>4, <1>5, <1>6, <1>7, <1>8, StepShape

\* Fields as they are used below: of a message to be sent, of a reply.
LEMMA NewMessage ==
  ASSUME NEW o \in Message
  PROVE  o.conn \in Conn /\ o.conn[1] \in Request /\ o.conn[2] \in Int /\ o.conn # None
<1>1. o.conn \in Conn
  BY DEF Message
<1>2. QED
  BY <1>1, ConnParts

LEMMA CalledNext ==
  ASSUME TInv, [Next]_vars
  PROVE  Called'
<1>0. TypeOK /\ call \in [Request -> Call \cup {None}]
  BY DEF TInv, TypeOK
<1>1. CASE Rests
  BY <1>1 DEF Rests, TInv, Called, Waiting
<1>2. ASSUME NEW r \in Request, NEW c, NEW h, Sends(r, c, h) PROVE Called'
  <2>1. /\ \A s \in Request : call[s] # None => call'[s] # None
        /\ call'[r] # None
    BY <1>0, <1>2, CallKept
  <2>2. h.req = r /\ h.conn[1] = r /\ net' = net \cup {h} /\ UNCHANGED infoList
    BY <1>2, FirstConn DEF Sends
  <2>3. \A m \in net : m.conn[1] \in Request /\ (m.type = "HASH" => m.req \in Request)
    BY <1>0, MessageParts, ConnParts
  <2>4. \A p \in Peer : \A e \in Waiting(p) : /\ e.req \in Request /\ e.conn[1] \in Request
                                             /\ e.final # None => e.final[1] \in Request
    BY <1>0, WaitingParts, ConnParts
  <2>5. \A p \in Peer : Waiting(p)' = Waiting(p)
    BY <2>2 DEF Waiting
  <2>6. \A m \in net' : call'[m.conn[1]] # None /\ (m.type = "HASH" => call'[m.req] # None)
    BY <2>1, <2>2, <2>3 DEF TInv, Called
  <2>7. \A p \in Peer : \A e \in Waiting(p)' :
          /\ call'[e.req] # None /\ call'[e.conn[1]] # None
          /\ e.final # None => call'[e.final[1]] # None
    <3> SUFFICES ASSUME NEW p \in Peer, NEW e \in Waiting(p)
                 PROVE  /\ call'[e.req] # None /\ call'[e.conn[1]] # None
                        /\ e.final # None => call'[e.final[1]] # None
      BY <2>5
    <3>1. /\ call[e.req] # None /\ call[e.conn[1]] # None
          /\ e.final # None => call[e.final[1]] # None
      BY DEF TInv, Called
    <3>2. /\ e.req \in Request /\ e.conn[1] \in Request
          /\ e.final # None => e.final[1] \in Request
      BY <1>0, WaitingParts, ConnParts
    <3>3. \A s \in Request : call[s] # None => call'[s] # None
      BY <2>1
    <3>4. QED
      BY <3>1, <3>2, <3>3, Zenon
  <2>8. QED
    BY <2>6, <2>7 DEF Called
<1>3. ASSUME NEW p \in Peer, NEW m, NEW F, Executes(p, m, F) PROVE Called'
  <2>1. \A n \in net' : n \in net \/ (n.type = "FINAL" /\ n.conn = m.conn)
    BY <1>3 DEF Executes, Replies
  <2>2. m \in net /\ UNCHANGED <<infoList, call>>
    BY <1>3 DEF Executes
  <2>3. QED
    BY <2>1, <2>2 DEF TInv, Called, Waiting
<1>4. ASSUME NEW m, NEW o, Passes(m, o) PROVE Called'
  <2>1. m \in net /\ o.conn = m.conn /\ o.type # "HASH" /\ net' = (net \ {m}) \cup {o}
        /\ UNCHANGED <<infoList, call>>
    BY <1>4 DEF Passes
  <2>2. QED
    BY <2>1 DEF TInv, Called, Waiting
<1>5. ASSUME NEW m, Drops(m) PROVE Called'
  BY <1>5 DEF Drops, TInv, Called, Waiting
<1>6. ASSUME NEW p \in Peer, NEW m, NEW e, NEW o, Enlists(p, m, e, o) PROVE Called'
  <2>1. /\ m \in net /\ m.type = "HASH" /\ e.req = m.req /\ e.conn = m.conn
        /\ o.conn[1] = m.conn[1] /\ (o.type = "HASH" => o.req = m.req)
        /\ e.final \in {None, o.conn}
        /\ net' = (net \ {m}) \cup {o} /\ UNCHANGED call
        /\ e \in InfoEntry /\ infoList' = [infoList EXCEPT ![p] = Append(@, e)]
    BY <1>6 DEF Enlists
  <2>2. \A q \in Peer : Waiting(q)' = IF q = p THEN Waiting(p) \cup {e} ELSE Waiting(q)
    BY <1>0, <2>1, ListAppended
  <2>3. QED
    BY <2>1, <2>2 DEF TInv, Called
<1>7. ASSUME NEW p \in Peer, NEW m, NEW i, NEW o, Forwards(p, m, i, o) PROVE Called'
  <2> DEFINE e == infoList[p][i]
             f == Forwarded(e, o.conn)
  <2>1. /\ m \in net /\ o.conn[1] = m.conn[1] /\ o.req = e.req /\ o.conn \in Conn
        /\ net' = (net \ {m}) \cup {o} /\ UNCHANGED call /\ i \in 1..Len(infoList[p])
    BY <1>7, NewMessage DEF Forwards
  <2>2. SetsFinal(p, i, o.conn)
    BY <1>7 DEF Forwards
  <2>3. /\ e \in Waiting(p) /\ f.req = e.req /\ f.conn = e.conn /\ f.final = o.conn
        /\ Waiting(p)' \subseteq Waiting(p) \cup {f}
        /\ \A q \in Peer \ {p} : Waiting(q)' = Waiting(q)
    BY <1>0, <2>1, <2>2, ListForwarded
  <2> HIDE DEF e, f
  <2>4. QED
    BY <2>1, <2>3 DEF TInv, Called
<1>8. ASSUME NEW p \in Peer, NEW m, NEW i, NEW F, Returns(p, m, i, F) PROVE Called'
  <2> DEFINE e == infoList[p][i]
  <2>1. /\ e \in Waiting(p) /\ UNCHANGED call
        /\ \A n \in net' : n \in net \/ (n.type = "FINAL" /\ n.conn = e.conn)
    BY <1>0, <1>8, WaitingParts DEF Returns, Replies
  <2>2. \A q \in Peer : Waiting(q)' \subseteq Waiting(q)
    BY <1>0, <1>8, ListRemoved DEF Returns
  <2> HIDE DEF e
  <2>3. QED
    BY <2>1, <2>2 DEF TInv, Called
<1>9. QED
  BY <1>1, <1>2, <1>3, <1>4, <1>5, <1>6, <1>7, <1>8, StepShape

LEMMA TypeNext == TInv /\ [Next]_vars => TInv'
<1> SUFFICES ASSUME TInv, [Next]_vars PROVE TInv'
  OBVIOUS
<1>1. TypeOK'
  BY TypeParts, HistoryTypes, MembersType DEF TypeOK, TInv
<1>2. QED
  BY <1>1, CalledNext DEF TInv

LEMMA TypeInvariant == Spec => []TInv
BY TypeInit, TypeNext, PTL DEF Spec

\* Whatever the neighbours are, what peers keep and send is well formed: in
\* particular no LOOKUP and no HASH goes to the unknown ID 65536, which
\* peer.c would connect to (peer.c:297 and peer.c:371).
THEOREM TypeCorrect == Spec => []TypeOK
BY TypeInvariant, PTL DEF TInv

-----------------------------------------------------------------------------
(* The shapes once more, as facts about the sets of entries.               *)

LEMMA SendFacts ==
  ASSUME TInv, NEW r \in Request, NEW c, NEW h, Sends(r, c, h)
  PROVE  /\ c \in Call /\ call[r] = None /\ h.type = "HASH" /\ h.req = r /\ h.conn = <<r, 0>>
         /\ h.from = Client /\ h.to \in started /\ h.conn[1] = r /\ h.conn[2] = 0
         /\ net' = net \cup {h} /\ UNCHANGED <<infoList, hTab, answer, ran, clash>>
         /\ \A q \in Peer : Waiting(q)' = Waiting(q)
         /\ \A s \in Request : call'[s] = IF s = r THEN c ELSE call[s]
         /\ \A s \in Request : call[s] # None => s # r /\ call'[s] = call[s]
         /\ \A n \in net : n.conn[1] # r /\ (n.type = "HASH" => n.req # r)
         /\ \A q \in Peer : \A e \in Waiting(q) :
              e.req # r /\ e.conn[1] # r /\ (e.final # None => e.final[1] # r)
<1>1. /\ c \in Call /\ call[r] = None /\ h.type = "HASH" /\ h.req = r /\ h.conn = <<r, 0>>
      /\ h.from = Client /\ h.to \in started
      /\ net' = net \cup {h} /\ UNCHANGED <<infoList, hTab, answer, ran, clash>>
  BY DEF Sends
<1>2. h.conn[1] = r /\ h.conn[2] = 0
  BY <1>1, FirstConn
<1>3. /\ \A s \in Request : call'[s] = IF s = r THEN c ELSE call[s]
  BY CallKept DEF TInv
<1>4. \A q \in Peer : Waiting(q)' = Waiting(q)
  BY <1>1 DEF Waiting
<1>5. \A n \in net : n.conn[1] # r /\ (n.type = "HASH" => n.req # r)
  BY <1>1 DEF TInv, Called
<1>6. \A q \in Peer : \A e \in Waiting(q) :
        e.req # r /\ e.conn[1] # r /\ (e.final # None => e.final[1] # r)
  BY <1>1 DEF TInv, Called
<1>7. \A s \in Request : call[s] # None => s # r /\ call'[s] = call[s]
  BY <1>1, <1>3
<1>8. QED
  BY <1>1, <1>2, <1>3, <1>4, <1>5, <1>6, <1>7

LEMMA ExecuteFacts ==
  ASSUME TInv, NEW p \in Peer, NEW m, NEW F, Executes(p, m, F)
  PROVE  /\ m \in net /\ m.type = "HASH" /\ m.to = p /\ m.conn \in Conn
         /\ m.req \in Request /\ m.from \in Peer \cup {Client}
         /\ call[m.req] \in Call /\ hTab[p] \in [Key -> Value \cup {None}]
         /\ net' = (net \ {m}) \cup F /\ F \subseteq Message
         /\ \A f \in F : /\ f.type = "FINAL" /\ f.conn = m.conn /\ f.to = m.from
                         /\ f.res = Result(hTab[p], call[m.req])
         /\ \A f, g \in F : f = g
         /\ F = {} <=> m.from = Client
         /\ \A r \in Request : answer'[r] =
              IF m.from = Client /\ r = m.conn[1] THEN Result(hTab[p], call[m.req]) ELSE answer[r]
         /\ \A q \in Peer : hTab'[q] = IF q = p THEN Apply(hTab[p], call[m.req]) ELSE hTab[q]
         /\ ran' = ran \cup {m.req} /\ UNCHANGED <<infoList, call, clash, members>>
         /\ \A q \in Peer : Waiting(q)' = Waiting(q)
<1>1. /\ m \in net /\ m.type = "HASH" /\ m.to = p
      /\ Replies(m, F, m.conn, m.from, Result(hTab[p], call[m.req]))
      /\ hTab' = [hTab EXCEPT ![p] = Apply(@, call[m.req])]
      /\ ran' = ran \cup {m.req} /\ UNCHANGED <<infoList, call, clash, members>>
  BY DEF Executes
<1>2. m.conn \in Conn /\ m.req \in Request /\ m.from \in Peer \cup {Client}
  BY <1>1, MessageParts DEF TInv
<1>3. call[m.req] \in Call /\ hTab \in [Peer -> [Key -> Value \cup {None}]]
  BY <1>1, <1>2 DEF TInv, Called, TypeOK
<1>4. \A q \in Peer : hTab'[q] = IF q = p THEN Apply(hTab[p], call[m.req]) ELSE hTab[q]
  BY <1>1, <1>3
<1>5. \A q \in Peer : Waiting(q)' = Waiting(q)
  BY <1>1 DEF Waiting
<1>6. QED
  BY <1>1, <1>2, <1>3, <1>4, <1>5 DEF Replies

LEMMA PassFacts ==
  ASSUME TInv, NEW m, NEW o, Passes(m, o)
  PROVE  /\ m \in net /\ m.type = "LOOKUP" /\ m.conn \in Conn
         /\ o.type \in {"LOOKUP", "REPLY"} /\ o.conn = m.conn
         /\ net' = (net \ {m}) \cup {o}
         /\ UNCHANGED <<infoList, hTab, call, answer, ran, clash, members>>
         /\ \A q \in Peer : Waiting(q)' = Waiting(q)
<1>1. /\ m \in net /\ m.type = "LOOKUP" /\ o.type \in {"LOOKUP", "REPLY"} /\ o.conn = m.conn
      /\ net' = (net \ {m}) \cup {o}
      /\ UNCHANGED <<infoList, hTab, call, answer, ran, clash, members>>
  BY DEF Passes
<1>2. QED
  BY <1>1, MessageParts DEF Waiting, TInv

LEMMA DropFacts ==
  ASSUME NEW m, Drops(m)
  PROVE  /\ m \in net /\ m.type # "HASH" /\ net' = net \ {m}
         /\ UNCHANGED <<infoList, hTab, call, answer, ran, clash, members>>
         /\ \A q \in Peer : Waiting(q)' = Waiting(q)
BY DEF Drops, Waiting

LEMMA EnlistFacts ==
  ASSUME TInv, NEW p \in Peer, NEW m, NEW e, NEW o, Enlists(p, m, e, o)
  PROVE  /\ m \in net /\ m.type = "HASH" /\ m.to = p /\ m.conn \in Conn /\ m.conn # None
         /\ e.req = m.req /\ e.conn = m.conn /\ e.caller = m.from
         /\ o.conn \in Conn /\ o.conn # None /\ o.conn[1] = m.conn[1]
         /\ \/ /\ o.type = "HASH" /\ o.req = m.req /\ o.from = p /\ o.from # Client
               /\ e.final = o.conn /\ o.conn[2] = m.conn[2] + 1
            \/ o.type = "LOOKUP" /\ e.final = None /\ o.conn = m.conn
         /\ m.conn[2] \in Int
         /\ net' = (net \ {m}) \cup {o}
         /\ UNCHANGED <<hTab, call, answer, ran, members>> /\ clash \subseteq clash'
         /\ \A q \in Peer : Waiting(q)' = IF q = p THEN Waiting(p) \cup {e} ELSE Waiting(q)
<1>1. /\ m \in net /\ m.type = "HASH" /\ m.to = p
      /\ e.req = m.req /\ e.conn = m.conn /\ e.caller = m.from
      /\ o \in Message /\ o.conn[1] = m.conn[1]
      /\ \/ /\ o.type = "HASH" /\ o.req = m.req /\ o.from = p
            /\ e.final = o.conn /\ o.conn[2] = m.conn[2] + 1
         \/ o.type = "LOOKUP" /\ e.final = None /\ o.conn = m.conn
      /\ net' = (net \ {m}) \cup {o}
      /\ UNCHANGED <<hTab, call, answer, ran, members>> /\ clash \subseteq clash'
  BY DEF Enlists
<1>2. e \in InfoEntry /\ infoList' = [infoList EXCEPT ![p] = Append(@, e)]
  BY DEF Enlists
<1>3. \A q \in Peer : Waiting(q)' = IF q = p THEN Waiting(p) \cup {e} ELSE Waiting(q)
  BY <1>2, ListAppended DEF TInv
<1>4. m.conn \in Conn /\ m.conn # None /\ m.conn[2] \in Int
  BY <1>1, MessageParts, ConnParts DEF TInv
<1>5. o.conn \in Conn /\ o.conn # None
  BY <1>1, NewMessage
<1>6. p # Client
  BY RequestAssumption
<1>7. QED
  BY <1>1, <1>3, <1>4, <1>5, <1>6

LEMMA ForwardFacts ==
  ASSUME TInv, NEW p \in Peer, NEW m, NEW i, NEW o, Forwards(p, m, i, o)
  PROVE  LET e == infoList[p][i]
             f == Forwarded(e, o.conn) IN
         /\ m \in net /\ m.type = "REPLY" /\ m.to = p /\ m.conn \in Conn /\ m.conn[2] \in Int
         /\ o.conn \in Conn /\ o.conn # None /\ o.conn[1] = m.conn[1]
         /\ o.conn[2] = m.conn[2] + 1
         /\ o.type = "HASH" /\ o.req = e.req /\ o.from = p /\ o.from # Client
         /\ e \in Waiting(p) /\ f.req = e.req /\ f.conn = e.conn /\ f.caller = e.caller
         /\ f.final = o.conn
         /\ net' = (net \ {m}) \cup {o}
         /\ UNCHANGED <<hTab, call, answer, ran, clash, members>>
         /\ \A q \in Peer \ {p} : Waiting(q)' = Waiting(q)
         /\ Waiting(p)' \subseteq Waiting(p) \cup {f}
<1> DEFINE e == infoList[p][i]
           f == Forwarded(e, o.conn)
<1>1. /\ m \in net /\ m.type = "REPLY" /\ m.to = p /\ o \in Message
      /\ o.conn[1] = m.conn[1] /\ o.conn[2] = m.conn[2] + 1
      /\ o.type = "HASH" /\ o.req = e.req /\ o.from = p
      /\ net' = (net \ {m}) \cup {o} /\ i \in 1..Len(infoList[p])
      /\ UNCHANGED <<hTab, call, answer, ran, clash, members>>
  BY DEF Forwards
<1>2. SetsFinal(p, i, o.conn)
  BY DEF Forwards
<1>3. m.conn \in Conn /\ m.conn[2] \in Int
  BY <1>1, MessageParts, ConnParts DEF TInv
<1>4. o.conn \in Conn /\ o.conn # None
  BY <1>1, NewMessage
<1>5. p # Client
  BY RequestAssumption
<1>6. /\ e \in Waiting(p) /\ f.req = e.req /\ f.conn = e.conn /\ f.caller = e.caller
      /\ f.final = o.conn
      /\ \A q \in Peer \ {p} : Waiting(q)' = Waiting(q)
      /\ Waiting(p)' \subseteq Waiting(p) \cup {f}
  BY <1>1, <1>2, <1>4, ListForwarded DEF TInv
<1> HIDE DEF e, f
<1>7. QED
  BY <1>1, <1>3, <1>4, <1>5, <1>6 DEF e, f

LEMMA ReturnFacts ==
  ASSUME TInv, NEW p \in Peer, NEW m, NEW i, NEW F, Returns(p, m, i, F)
  PROVE  LET e == infoList[p][i] IN
         /\ m \in net /\ m.type = "FINAL" /\ m.to = p
         /\ e \in Waiting(p) /\ e.final = m.conn /\ e.conn \in Conn /\ e.conn[1] \in Request
         /\ e.req \in Request /\ e.caller \in Peer \cup {Client} /\ e.final # None
         /\ net' = (net \ {m}) \cup F /\ F \subseteq Message
         /\ \A f \in F : f.type = "FINAL" /\ f.conn = e.conn /\ f.to = e.caller /\ f.res = m.res
         /\ \A f, g \in F : f = g
         /\ F = {} <=> e.caller = Client
         /\ \A r \in Request : answer'[r] =
              IF e.caller = Client /\ r = e.conn[1] THEN m.res ELSE answer[r]
         /\ UNCHANGED <<hTab, call, ran, clash, members>>
         /\ \A q \in Peer : Waiting(q)' \subseteq Waiting(q)
<1> DEFINE e == infoList[p][i]
<1>1. /\ m \in net /\ m.type = "FINAL" /\ m.to = p /\ i \in 1..Len(infoList[p])
      /\ e.final = m.conn /\ Replies(m, F, e.conn, e.caller, m.res)
      /\ UNCHANGED <<hTab, call, ran, clash, members>>
  BY DEF Returns
<1>2. infoList' = [infoList EXCEPT ![p] = RemoveAt(@, i)]
  BY DEF Returns
<1>3. \A q \in Peer : Waiting(q)' \subseteq Waiting(q)
  BY <1>1, <1>2, ListRemoved DEF TInv
<1>4. e \in Waiting(p) /\ e.conn \in Conn /\ e.req \in Request /\ e.caller \in Peer \cup {Client}
  BY <1>1, WaitingParts DEF TInv
<1>5. e.conn[1] \in Request /\ m.conn # None
  BY <1>1, <1>4, MessageParts, ConnParts DEF TInv
<1> HIDE DEF e
<1>6. QED
  BY <1>1, <1>3, <1>4, <1>5 DEF Replies, e

-----------------------------------------------------------------------------
(* What clients are told.  However requests are confused, a connection is  *)
(* opened once, for one request: the entry whose finalSocket it is, the    *)
(* HASH sent on it, the entry made of that HASH and the FINAL that comes   *)
(* back on it name the same request.                                       *)

\* res is an outcome that r, executed, may have.
Told(r, res) ==
  /\ r \in ran /\ res.op = call[r].op /\ res.key \in {None, call[r].key}
  /\ res.val # None =>
       \E s \in Request : call[s] # None /\ call[s].key = call[r].key /\ call[s].val = res.val

FromClients ==
  /\ \A m \in net : m.type = "HASH" /\ m.from = Client => m.conn = <<m.req, 0>>
  /\ \A p \in Peer : \A e \in Waiting(p) : e.caller = Client => e.conn = <<e.req, 0>>

ValuesStored == \A p \in Peer, k \in Key : hTab[p][k] # None =>
  \E s \in Request : call[s] # None /\ call[s].key = k /\ call[s].val = hTab[p][k]

\* One message looks for the peer in charge, on the last connection opened.
OneLive == \A m, n \in net :
  m.type # "FINAL" /\ n.type # "FINAL" /\ m.conn[1] = n.conn[1] => m = n

Foremost == \A m \in net : m.type # "FINAL" =>
  /\ \A n \in net : n.conn[1] = m.conn[1] => n.conn[2] <= m.conn[2]
  /\ \A p \in Peer : \A e \in Waiting(p) :
       /\ e.conn[1] = m.conn[1] => e.conn[2] <= m.conn[2]
       /\ e.final # None /\ e.final[1] = m.conn[1] => e.final[2] <= m.conn[2]

FinalsMatch == \A p \in Peer : \A e \in Waiting(p) : e.final # None =>
  /\ \A m \in net : m.conn = e.final =>
       /\ m.type = "HASH" => m.from = p /\ m.req = e.req
       /\ m.type = "FINAL" => m.to = p /\ Told(e.req, m.res)
  /\ \A q \in Peer : \A f \in Waiting(q) : f.conn = e.final => f.caller = p /\ f.req = e.req

AInv == /\ TInv /\ FromClients /\ ValuesStored /\ OneLive /\ Foremost /\ FinalsMatch
        /\ (\A r \in ran : call[r] # None) /\ AnswersMatchCalls

LEMMA MatchIsTold ==
  AnswersMatchCalls <=> \A r \in Request : answer[r] # None => Told(r, answer[r])
BY DEF AnswersMatchCalls, Told

LEMMA AnswersInit == Init => AInv
<1> SUFFICES ASSUME Init PROVE AInv
  OBVIOUS
<1>1. \A p \in Peer : Waiting(p) = {}
  BY DEF Init, Waiting, Range
<1>2. net = {} /\ ran = {} /\ \A p \in Peer, k \in Key : hTab[p][k] = None
  BY DEF Init
<1>3. AnswersMatchCalls
  BY DEF Init, AnswersMatchCalls
<1>4. TInv
  BY TypeInit
<1>5. QED
  BY <1>1, <1>2, <1>3, <1>4 DEF AInv, FromClients, ValuesStored, OneLive, Foremost, FinalsMatch

\* Calls are made once and what was executed stays so: an outcome once right
\* stays right.
LEMMA CallsStay ==
  ASSUME TInv, [Next]_vars
  PROVE  (\A s \in Request : call[s] # None => call'[s] = call[s]) /\ ran \subseteq ran'
<1> DEFINE Goal == (\A s \in Request : call[s] # None => call'[s] = call[s]) /\ ran \subseteq ran'
<1>1. CASE Rests
  BY <1>1 DEF Rests
<1>2. ASSUME NEW r \in Request, NEW c, NEW h, Sends(r, c, h) PROVE Goal
  BY <1>2, SendFacts
<1>3. ASSUME NEW p \in Peer, NEW m, NEW F, Executes(p, m, F) PROVE Goal
  BY <1>3 DEF Executes
<1>4. ASSUME NEW m, NEW o, Passes(m, o) PROVE Goal
  BY <1>4 DEF Passes
<1>5. ASSUME NEW m, Drops(m) PROVE Goal
  BY <1>5 DEF Drops
<1>6. ASSUME NEW p \in Peer, NEW m, NEW e, NEW o, Enlists(p, m, e, o) PROVE Goal
  BY <1>6 DEF Enlists
<1>7. ASSUME NEW p \in Peer, NEW m, NEW i, NEW o, Forwards(p, m, i, o) PROVE Goal
  BY <1>7 DEF Forwards
<1>8. ASSUME NEW p \in Peer, NEW m, NEW i, NEW F, Returns(p, m, i, F) PROVE Goal
  BY <1>8 DEF Returns
<1>9. QED
  BY <1>1, <1>2, <1>3, <1>4, <1>5, <1>6, <1>7, <1>8, StepShape

LEMMA ToldStays ==
  ASSUME TInv, [Next]_vars, NEW r \in Request, call[r] # None, NEW res, Told(r, res)
  PROVE  Told(r, res)'
<1>1. call'[r] = call[r] /\ r \in ran'
  BY CallsStay DEF Told
<1>2. CASE res.val # None
  <2>1. PICK s \in Request : call[s] # None /\ call[s].key = call[r].key /\ call[s].val = res.val
    BY <1>2 DEF Told
  <2>2. call'[s] = call[s]
    BY <2>1, CallsStay
  <2>3. QED
    BY <1>1, <2>1, <2>2 DEF Told
<1>3. CASE res.val = None
  BY <1>1, <1>3 DEF Told
<1>4. QED
  BY <1>2, <1>3

LEMMA ApplyAndResult ==
  ASSUME NEW tab \in [Key -> Value \cup {None}], NEW c \in Call
  PROVE  /\ \A k \in Key : Apply(tab, c)[k] # None =>
              \/ tab[k] # None /\ Apply(tab, c)[k] = tab[k]
              \/ k = c.key /\ Apply(tab, c)[k] = c.val
         /\ Result(tab, c) # None
         /\ Result(tab, c).op = c.op /\ Result(tab, c).key \in {None, c.key}
         /\ Result(tab, c).val # None =>
              tab[c.key] # None /\ Result(tab, c).val = tab[c.key]
<1>1. c.key \in Key /\ c.op \in {"SET", "GET", "DEL"}
  BY CallParts
<1>2. \A k \in Key : Apply(tab, c)[k] # None =>
        \/ tab[k] # None /\ Apply(tab, c)[k] = tab[k]
        \/ k = c.key /\ Apply(tab, c)[k] = c.val
  BY <1>1 DEF Apply
<1>3. Result(tab, c) # None
  BY TableType, RequestAssumption
<1>4. QED
  BY <1>1, <1>2, <1>3 DEF Result

\* What is executed is told right.
LEMMA ExecutedIsTold ==
  ASSUME AInv, NEW p \in Peer, NEW m, NEW F, Executes(p, m, F),
         NEW res, res = Result(hTab[p], call[m.req])
  PROVE  Told(m.req, res)'
<1>1. /\ m.req \in Request /\ call[m.req] \in Call /\ hTab[p] \in [Key -> Value \cup {None}]
      /\ ran' = ran \cup {m.req} /\ UNCHANGED call
  BY ExecuteFacts DEF AInv
<1>2. /\ res.op = call[m.req].op /\ res.key \in {None, call[m.req].key}
      /\ res.val # None =>
           hTab[p][call[m.req].key] # None /\ res.val = hTab[p][call[m.req].key]
  BY <1>1, ApplyAndResult
<1>3. res.val # None =>
        \E s \in Request : call[s] # None /\ call[s].key = call[m.req].key /\ call[s].val = res.val
  BY <1>1, <1>2, CallParts DEF AInv, ValuesStored
<1>4. QED
  BY <1>1, <1>2, <1>3 DEF Told

LEMMA ValuesNext ==
  ASSUME AInv, [Next]_vars
  PROVE  ValuesStored'
<1>1. CASE UNCHANGED hTab
  <2> SUFFICES ASSUME NEW p \in Peer, NEW k \in Key, hTab[p][k] # None
               PROVE  \E s \in Request : call'[s] # None /\ call'[s].key = k /\ call'[s].val = hTab[p][k]
    BY <1>1 DEF ValuesStored
  <2>1. PICK s \in Request : call[s] # None /\ call[s].key = k /\ call[s].val = hTab[p][k]
    BY DEF AInv, ValuesStored
  <2>2. call'[s] = call[s]
    BY <2>1, CallsStay DEF AInv
  <2>3. QED
    BY <2>1, <2>2
<1>2. ASSUME NEW p \in Peer, NEW m, NEW F, Executes(p, m, F) PROVE ValuesStored'
  <2>1. /\ m.req \in Request /\ call[m.req] \in Call /\ hTab[p] \in [Key -> Value \cup {None}]
        /\ UNCHANGED call /\ call[m.req] # None
        /\ \A q \in Peer : hTab'[q] = IF q = p THEN Apply(hTab[p], call[m.req]) ELSE hTab[q]
    BY <1>2, ExecuteFacts, CallParts DEF AInv
  <2>2. \A k \in Key : Apply(hTab[p], call[m.req])[k] # None =>
          \/ hTab[p][k] # None /\ Apply(hTab[p], call[m.req])[k] = hTab[p][k]
          \/ k = call[m.req].key /\ Apply(hTab[p], call[m.req])[k] = call[m.req].val
    BY <2>1, ApplyAndResult
  <2>3. ASSUME NEW q \in Peer, NEW k \in Key, hTab'[q][k] # None
        PROVE  \E s \in Request : call[s] # None /\ call[s].key = k /\ call[s].val = hTab'[q][k]
    <3>1. CASE hTab[q][k] # None /\ hTab'[q][k] = hTab[q][k]
      BY <3>1 DEF AInv, ValuesStored
    <3>2. CASE q = p /\ k = call[m.req].key /\ hTab'[q][k] = call[m.req].val
      BY <2>1, <3>2
    <3>3. QED
      BY <2>1, <2>2, <2>3, <3>1, <3>2
  <2>4. QED
    BY <2>1, <2>3 DEF ValuesStored
<1>3. TInv
  BY DEF AInv
<1>4. UNCHANGED hTab \/ \E p \in Peer : \E m, F : Executes(p, m, F)
  BY <1>3, StepShape DEF Rests, Sends, Passes, Drops, Enlists, Forwards, Returns
<1>5. QED
  BY <1>1, <1>2, <1>4

LEMMA ConnectionsNext ==
  ASSUME AInv, [Next]_vars
  PROVE  FromClients' /\ OneLive'
<1> USE DEF AInv
<1>1. CASE Rests
  BY <1>1 DEF Rests, FromClients, OneLive, Waiting
<1>2. ASSUME NEW r \in Request, NEW c, NEW h, Sends(r, c, h) PROVE FromClients' /\ OneLive'
  <2>1. /\ net' = net \cup {h} /\ h.conn = <<r, 0>> /\ h.req = r /\ h.conn[1] = r
        /\ \A q \in Peer : Waiting(q)' = Waiting(q)
        /\ \A n \in net : n.conn[1] # r
    BY <1>2, SendFacts
  <2>2. QED
    BY <2>1 DEF FromClients, OneLive
<1>3. ASSUME NEW p \in Peer, NEW m, NEW F, Executes(p, m, F) PROVE FromClients' /\ OneLive'
  <2>1. /\ \A n \in net' : n \in net \/ n.type = "FINAL"
        /\ \A q \in Peer : Waiting(q)' = Waiting(q)
    BY <1>3, ExecuteFacts
  <2>2. QED
    BY <2>1 DEF FromClients, OneLive
<1>4. ASSUME NEW m, NEW o, Passes(m, o) PROVE FromClients' /\ OneLive'
  <2>1. /\ m \in net /\ m.type = "LOOKUP" /\ o.type # "HASH" /\ o.conn = m.conn
        /\ net' = (net \ {m}) \cup {o}
        /\ \A q \in Peer : Waiting(q)' = Waiting(q)
    BY <1>4, PassFacts
  <2>2. QED
    BY <2>1 DEF FromClients, OneLive
<1>5. ASSUME NEW m, Drops(m) PROVE FromClients' /\ OneLive'
  BY <1>5, DropFacts DEF FromClients, OneLive
<1>6. ASSUME NEW p \in Peer, NEW m, NEW e, NEW o, Enlists(p, m, e, o)
      PROVE  FromClients' /\ OneLive'
  <2>1. /\ m \in net /\ m.type = "HASH" /\ o.conn[1] = m.conn[1]
        /\ e.req = m.req /\ e.conn = m.conn /\ e.caller = m.from
        /\ (o.type = "HASH" => o.from # Client)
        /\ net' = (net \ {m}) \cup {o}
        /\ \A q \in Peer : Waiting(q)' = IF q = p THEN Waiting(p) \cup {e} ELSE Waiting(q)
    BY <1>6, EnlistFacts
  <2>2. QED
    BY <2>1 DEF FromClients, OneLive
<1>7. ASSUME NEW p \in Peer, NEW m, NEW i, NEW o, Forwards(p, m, i, o)
      PROVE  FromClients' /\ OneLive'
  <2> DEFINE e == infoList[p][i]
             f == Forwarded(e, o.conn)
  <2>1. /\ m \in net /\ m.type = "REPLY" /\ o.conn[1] = m.conn[1] /\ o.from # Client
        /\ e \in Waiting(p) /\ f.req = e.req /\ f.conn = e.conn /\ f.caller = e.caller
        /\ net' = (net \ {m}) \cup {o}
        /\ \A q \in Peer \ {p} : Waiting(q)' = Waiting(q)
        /\ Waiting(p)' \subseteq Waiting(p) \cup {f}
    BY <1>7, ForwardFacts
  <2> HIDE DEF e, f
  <2>2. QED
    BY <2>1 DEF FromClients, OneLive
<1>8. ASSUME NEW p \in Peer, NEW m, NEW i, NEW F, Returns(p, m, i, F)
      PROVE  FromClients' /\ OneLive'
  <2>1. /\ \A n \in net' : n \in net \/ n.type = "FINAL"
        /\ \A q \in Peer : Waiting(q)' \subseteq Waiting(q)
    BY <1>8, ReturnFacts
  <2>2. QED
    BY <2>1 DEF FromClients, OneLive
<1>9. QED
  BY <1>1, <1>2, <1>3, <1>4, <1>5, <1>6, <1>7, <1>8, StepShape

LEMMA Hops ==
  ASSUME TypeOK
  PROVE  /\ \A n \in net : n.conn[2] \in Int /\ n.conn[2] >= 0
         /\ \A q \in Peer : \A e \in Waiting(q) :
              e.conn[2] \in Int /\ (e.final # None => e.final[2] \in Int)
<1>1. \A n \in net : n.conn \in Conn
  BY MessageParts
<1>2. ASSUME NEW n \in net PROVE n.conn[2] \in Int /\ n.conn[2] >= 0
  <2>1. n.conn[2] \in 0..MaxHops
    BY <1>1, ConnParts
  <2>2. QED
    BY <2>1, RequestAssumption
<1>3. ASSUME NEW q \in Peer, NEW e \in Waiting(q)
      PROVE  e.conn[2] \in Int /\ (e.final # None => e.final[2] \in Int)
  BY WaitingParts, ConnParts
<1>4. QED
  BY <1>2, <1>3

LEMMA ForemostNext ==
  ASSUME AInv, [Next]_vars
  PROVE  Foremost'
<1> USE DEF AInv
<1>0. TInv /\ OneLive /\ Foremost
      /\ (\A n \in net : n.conn[2] \in Int /\ n.conn[2] >= 0)
      /\ \A q \in Peer : \A g \in Waiting(q) :
           g.conn[2] \in Int /\ (g.final # None => g.final[2] \in Int)
  BY Hops DEF TInv
<1> HIDE DEF AInv
<1>1. CASE Rests
  BY <1>0, <1>1 DEF Rests, Foremost, Waiting
<1>2. ASSUME NEW r \in Request, NEW c, NEW h, Sends(r, c, h) PROVE Foremost'
  <2>1. /\ net' = net \cup {h} /\ h.conn[1] = r /\ h.conn[2] = 0
        /\ \A q \in Peer : Waiting(q)' = Waiting(q)
        /\ \A n \in net : n.conn[1] # r
        /\ \A q \in Peer : \A e \in Waiting(q) :
             e.conn[1] # r /\ (e.final # None => e.final[1] # r)
    BY <1>0, <1>2, SendFacts
  <2>2. QED
    BY <1>0, <2>1 DEF Foremost
<1>3. ASSUME NEW p \in Peer, NEW m, NEW F, Executes(p, m, F) PROVE Foremost'
  <2>1. /\ m \in net /\ m.type = "HASH" /\ net' = (net \ {m}) \cup F
        /\ \A f \in F : f.type = "FINAL" /\ f.conn = m.conn
        /\ \A q \in Peer : Waiting(q)' = Waiting(q)
    BY <1>0, <1>3, ExecuteFacts
  <2>2. \A n \in net' : n.type # "FINAL" => n \in net /\ n.conn[1] # m.conn[1]
    BY <1>0, <2>1 DEF OneLive
  <2>3. QED
    BY <1>0, <2>1, <2>2 DEF Foremost
<1>4. ASSUME NEW m, NEW o, Passes(m, o) PROVE Foremost'
  <2>1. /\ m \in net /\ m.type # "FINAL" /\ o.conn = m.conn /\ net' = (net \ {m}) \cup {o}
        /\ \A q \in Peer : Waiting(q)' = Waiting(q)
    BY <1>0, <1>4, PassFacts
  <2>2. QED
    BY <1>0, <2>1 DEF Foremost
<1>5. ASSUME NEW m, Drops(m) PROVE Foremost'
  BY <1>0, <1>5, DropFacts DEF Foremost
<1>6. ASSUME NEW p \in Peer, NEW m, NEW e, NEW o, Enlists(p, m, e, o) PROVE Foremost'
  <2>1. /\ m \in net /\ m.type = "HASH" /\ o.conn[1] = m.conn[1]
        /\ o.conn[2] \in {m.conn[2], m.conn[2] + 1}
        /\ e.conn = m.conn /\ e.final \in {None, o.conn}
        /\ net' = (net \ {m}) \cup {o}
        /\ \A q \in Peer : Waiting(q)' = IF q = p THEN Waiting(p) \cup {e} ELSE Waiting(q)
    BY <1>0, <1>6, EnlistFacts
  <2>2. \A n \in net \ {m} : n.type # "FINAL" => n.conn[1] # m.conn[1]
    BY <1>0, <2>1 DEF OneLive
  <2>3. m.conn[2] \in Int /\ o.conn[2] \in Int /\ o.conn[2] >= m.conn[2]
    BY <1>0, <2>1
  <2>4. /\ \A n \in net : n.conn[1] = m.conn[1] => n.conn[2] <= o.conn[2]
        /\ \A q \in Peer : \A g \in Waiting(q) :
             /\ g.conn[1] = m.conn[1] => g.conn[2] <= o.conn[2]
             /\ g.final # None /\ g.final[1] = m.conn[1] => g.final[2] <= o.conn[2]
    BY <1>0, <2>1, <2>3 DEF Foremost
  <2>5. /\ e.conn[2] <= o.conn[2] /\ e.conn[1] = m.conn[1]
        /\ e.final # None => e.final[1] = m.conn[1] /\ e.final[2] <= o.conn[2]
    BY <2>1, <2>3
  <2>6. QED
    BY <1>0, <2>1, <2>2, <2>3, <2>4, <2>5 DEF Foremost
<1>7. ASSUME NEW p \in Peer, NEW m, NEW i, NEW o, Forwards(p, m, i, o) PROVE Foremost'
  <2> DEFINE e == infoList[p][i]
             f == Forwarded(e, o.conn)
  <2>1. /\ m \in net /\ m.type = "REPLY" /\ o.conn[1] = m.conn[1]
        /\ o.conn[2] = m.conn[2] + 1
        /\ e \in Waiting(p) /\ f.conn = e.conn /\ f.final = o.conn
        /\ net' = (net \ {m}) \cup {o}
        /\ \A q \in Peer \ {p} : Waiting(q)' = Waiting(q)
        /\ Waiting(p)' \subseteq Waiting(p) \cup {f}
    BY <1>0, <1>7, ForwardFacts
  <2> HIDE DEF e, f
  <2>2. \A n \in net \ {m} : n.type # "FINAL" => n.conn[1] # m.conn[1]
    BY <1>0, <2>1 DEF OneLive
  <2>3. m.conn[2] \in Int /\ o.conn[2] \in Int /\ o.conn[2] >= m.conn[2]
    BY <1>0, <2>1
  <2>4. /\ \A n \in net : n.conn[1] = m.conn[1] => n.conn[2] <= o.conn[2]
        /\ \A q \in Peer : \A g \in Waiting(q) :
             /\ g.conn[1] = m.conn[1] => g.conn[2] <= o.conn[2]
             /\ g.final # None /\ g.final[1] = m.conn[1] => g.final[2] <= o.conn[2]
    BY <1>0, <2>1, <2>3 DEF Foremost
  <2>5. \A n \in net \ {m} : n.type # "FINAL" =>
          /\ f.conn[1] = n.conn[1] => f.conn[2] <= n.conn[2]
          /\ f.final[1] # n.conn[1]
    BY <1>0, <2>1, <2>2 DEF Foremost
  <2>6. f.conn[1] = m.conn[1] => f.conn[2] <= o.conn[2]
    BY <2>1, <2>4
  <2>7. \A q \in Peer : \A g \in Waiting(q)' : g \in Waiting(q) \/ g = f
    BY <2>1
  <2>8. f.final[2] <= o.conn[2] /\ f.final[1] = m.conn[1]
    BY <2>1, <2>3
  <2>9. QED
    BY <1>0, <2>1, <2>2, <2>3, <2>4, <2>5, <2>6, <2>7, <2>8 DEF Foremost
<1>8. ASSUME NEW p \in Peer, NEW m, NEW i, NEW F, Returns(p, m, i, F) PROVE Foremost'
  <2> DEFINE e == infoList[p][i]
  <2>1. /\ e \in Waiting(p) /\ net' = (net \ {m}) \cup F
        /\ \A f \in F : f.type = "FINAL" /\ f.conn = e.conn
        /\ \A q \in Peer : Waiting(q)' \subseteq Waiting(q)
    BY <1>0, <1>8, ReturnFacts
  <2> HIDE DEF e
  <2>2. QED
    BY <1>0, <2>1 DEF Foremost
<1>9. QED
  BY <1>0, <1>1, <1>2, <1>3, <1>4, <1>5, <1>6, <1>7, <1>8, StepShape

\* The connection just opened is nobody's yet.
LEMMA NewConnection ==
  ASSUME AInv, NEW m \in net, m.type # "FINAL", NEW c, c[1] = m.conn[1], c[2] = m.conn[2] + 1
  PROVE  /\ \A n \in net : n.conn # c
         /\ \A q \in Peer : \A e \in Waiting(q) : e.conn # c /\ (e.final # None => e.final # c)
<1>1. m.conn[2] \in Int
  BY Hops DEF AInv, TInv
<1>2. QED
  BY <1>1 DEF AInv, Foremost

LEMMA FinalsMatchNext ==
  ASSUME AInv, [Next]_vars
  PROVE  FinalsMatch'
<1>0. TInv /\ FinalsMatch
  BY DEF AInv
<1>a. \A q \in Peer : \A e \in Waiting(q) : \A res : Told(e.req, res) => Told(e.req, res)'
  <2> SUFFICES ASSUME NEW q \in Peer, NEW e \in Waiting(q), NEW res, Told(e.req, res)
               PROVE  Told(e.req, res)'
    OBVIOUS
  <2>1. e.req \in Request /\ call[e.req] # None
    BY <1>0, WaitingParts DEF TInv, Called
  <2>2. QED
    BY <1>0, <2>1, ToldStays
<1>1. CASE Rests
  BY <1>0, <1>a, <1>1 DEF Rests, FinalsMatch, Waiting
<1>2. ASSUME NEW r \in Request, NEW c, NEW h, Sends(r, c, h) PROVE FinalsMatch'
  <2>1. /\ net' = net \cup {h} /\ h.conn[1] = r
        /\ \A q \in Peer : Waiting(q)' = Waiting(q)
        /\ \A q \in Peer : \A e \in Waiting(q) : e.final # None => e.final[1] # r
    BY <1>0, <1>2, SendFacts
  <2>2. QED
    BY <1>0, <1>a, <2>1 DEF FinalsMatch
<1>3. ASSUME NEW p \in Peer, NEW m, NEW F, Executes(p, m, F) PROVE FinalsMatch'
  <2>0. PICK res : res = Result(hTab[p], call[m.req])
    OBVIOUS
  <2>1. /\ m \in net /\ m.type = "HASH" /\ net' = (net \ {m}) \cup F
        /\ \A f \in F : f.type = "FINAL" /\ f.conn = m.conn /\ f.to = m.from /\ f.res = res
        /\ \A q \in Peer : Waiting(q)' = Waiting(q)
    BY <1>0, <1>3, <2>0, ExecuteFacts
  <2>2. Told(m.req, res)'
    BY <1>3, <2>0, ExecutedIsTold
  <2>3. ASSUME NEW q \in Peer, NEW g \in Waiting(q), g.final # None, g.final = m.conn
        PROVE  m.from = q /\ m.req = g.req
    BY <1>0, <2>1, <2>3 DEF FinalsMatch
  <2>4. ASSUME NEW q \in Peer, NEW g \in Waiting(q), g.final # None
        PROVE  \A n \in net' : n.conn = g.final =>
                    /\ n.type = "HASH" => n.from = q /\ n.req = g.req
                    /\ n.type = "FINAL" => n.to = q /\ Told(g.req, n.res)'
    <3>1. ASSUME NEW n \in net, n.conn = g.final
          PROVE  /\ n.type = "HASH" => n.from = q /\ n.req = g.req
                 /\ n.type = "FINAL" => n.to = q /\ Told(g.req, n.res)'
      BY <1>0, <1>a, <2>4, <3>1 DEF FinalsMatch
    <3>2. ASSUME NEW n \in F, n.conn = g.final
          PROVE  n.type = "FINAL" /\ n.to = q /\ Told(g.req, n.res)'
      <4>1. n.type = "FINAL" /\ n.conn = m.conn /\ n.to = m.from /\ n.res = res
        BY <2>1
      <4>2. m.from = q /\ m.req = g.req
        BY <2>3, <2>4, <3>2, <4>1
      <4>3. QED
        BY <2>2, <4>1, <4>2
    <3>3. QED
      BY <2>1, <3>1, <3>2
  <2>5. QED
    BY <1>0, <2>1, <2>4 DEF FinalsMatch
<1>4. ASSUME NEW m, NEW o, Passes(m, o) PROVE FinalsMatch'
  <2>1. /\ o.type \in {"LOOKUP", "REPLY"} /\ net' = (net \ {m}) \cup {o}
        /\ \A q \in Peer : Waiting(q)' = Waiting(q)
    BY <1>0, <1>4, PassFacts
  <2>2. QED
    BY <1>0, <1>a, <2>1 DEF FinalsMatch
<1>5. ASSUME NEW m, Drops(m) PROVE FinalsMatch'
  BY <1>0, <1>a, <1>5, DropFacts DEF FinalsMatch
<1>6. ASSUME NEW p \in Peer, NEW m, NEW e, NEW o, Enlists(p, m, e, o) PROVE FinalsMatch'
  <2>1. /\ m \in net /\ m.type = "HASH" /\ m.conn # None
        /\ e.req = m.req /\ e.conn = m.conn /\ e.caller = m.from
        /\ \/ /\ o.type = "HASH" /\ o.req = m.req /\ o.from = p /\ e.final = o.conn
           \/ o.type = "LOOKUP" /\ e.final = None
        /\ net' = (net \ {m}) \cup {o}
        /\ \A q \in Peer : Waiting(q)' = IF q = p THEN Waiting(p) \cup {e} ELSE Waiting(q)
    BY <1>0, <1>6, EnlistFacts
  <2>2. o.type = "HASH" =>
          /\ \A n \in net : n.conn # o.conn
          /\ \A q \in Peer : \A g \in Waiting(q) :
               g.conn # o.conn /\ (g.final # None => g.final # o.conn)
          /\ e.conn # o.conn
    <3>1. o.type = "HASH" => o.conn[1] = m.conn[1] /\ o.conn[2] = m.conn[2] + 1
      BY <1>0, <1>6, EnlistFacts
    <3>2. QED
      BY <2>1, <3>1, NewConnection
  <2>3. \A q \in Peer : \A g \in Waiting(q) : g.final = m.conn =>
          e.caller = q /\ e.req = g.req
    BY <1>0, <2>1 DEF FinalsMatch
  <2>4. ASSUME NEW q \in Peer, NEW g \in Waiting(q)', g.final # None
        PROVE  /\ \A n \in net' : n.conn = g.final =>
                    /\ n.type = "HASH" => n.from = q /\ n.req = g.req
                    /\ n.type = "FINAL" => n.to = q /\ Told(g.req, n.res)'
               /\ \A x \in Peer : \A f \in Waiting(x)' :
                    f.conn = g.final => f.caller = q /\ f.req = g.req
    <3>1. CASE g \in Waiting(q)
      BY <1>0, <1>a, <2>1, <2>2, <2>3, <2>4, <3>1 DEF FinalsMatch
    <3>2. CASE q = p /\ g = e
      BY <2>1, <2>2, <2>4, <3>2
    <3>3. QED
      BY <2>1, <3>1, <3>2
  <2>5. QED
    BY <2>4 DEF FinalsMatch
<1>7. ASSUME NEW p \in Peer, NEW m, NEW i, NEW o, Forwards(p, m, i, o) PROVE FinalsMatch'
  <2> DEFINE e == infoList[p][i]
             f == Forwarded(e, o.conn)
  <2>1. /\ m \in net /\ m.type = "REPLY" /\ o.conn # None
        /\ o.conn[1] = m.conn[1] /\ o.conn[2] = m.conn[2] + 1
        /\ o.type = "HASH" /\ o.req = e.req /\ o.from = p
        /\ e \in Waiting(p) /\ f.req = e.req /\ f.conn = e.conn /\ f.caller = e.caller
        /\ f.final = o.conn
        /\ net' = (net \ {m}) \cup {o}
        /\ \A q \in Peer \ {p} : Waiting(q)' = Waiting(q)
        /\ Waiting(p)' \subseteq Waiting(p) \cup {f}
    BY <1>0, <1>7, ForwardFacts
  <2> HIDE DEF e, f
  <2>2. /\ \A n \in net : n.conn # o.conn
        /\ \A q \in Peer : \A g \in Waiting(q) :
             g.conn # o.conn /\ (g.final # None => g.final # o.conn)
    BY <2>1, NewConnection
  <2>3. \A q \in Peer : \A g \in Waiting(q)' : g \in Waiting(q) \/ (q = p /\ g = f)
    BY <2>1
  <2>4. ASSUME NEW q \in Peer, NEW g \in Waiting(q)', g.final # None
        PROVE  /\ \A n \in net' : n.conn = g.final =>
                    /\ n.type = "HASH" => n.from = q /\ n.req = g.req
                    /\ n.type = "FINAL" => n.to = q /\ Told(g.req, n.res)'
               /\ \A x \in Peer : \A k \in Waiting(x)' :
                    k.conn = g.final => k.caller = q /\ k.req = g.req
    <3>1. CASE g \in Waiting(q)
      BY <1>0, <1>a, <2>1, <2>2, <2>3, <2>4, <3>1 DEF FinalsMatch
    <3>2. CASE q = p /\ g = f
      BY <2>1, <2>2, <2>3, <3>2
    <3>3. QED
      BY <2>3, <3>1, <3>2
  <2>5. QED
    BY <2>4 DEF FinalsMatch
<1>8. ASSUME NEW p \in Peer, NEW m, NEW i, NEW F, Returns(p, m, i, F) PROVE FinalsMatch'
  <2>0. PICK e : e = infoList[p][i]
    OBVIOUS
  <2>1. /\ m \in net /\ m.type = "FINAL"
        /\ e \in Waiting(p) /\ e.final = m.conn /\ e.final # None
        /\ net' = (net \ {m}) \cup F
        /\ \A f \in F : f.type = "FINAL" /\ f.conn = e.conn /\ f.to = e.caller /\ f.res = m.res
        /\ \A q \in Peer : Waiting(q)' \subseteq Waiting(q)
    BY <1>0, <1>8, <2>0, ReturnFacts
  <2>2. Told(e.req, m.res)'
    BY <1>0, <1>a, <2>1 DEF FinalsMatch
  <2>3. ASSUME NEW q \in Peer, NEW g \in Waiting(q), g.final # None, g.final = e.conn
        PROVE  e.caller = q /\ e.req = g.req
    BY <1>0, <2>1, <2>3 DEF FinalsMatch
  <2>4. ASSUME NEW q \in Peer, NEW g \in Waiting(q), g.final # None
        PROVE  \A n \in net' : n.conn = g.final =>
                    /\ n.type = "HASH" => n.from = q /\ n.req = g.req
                    /\ n.type = "FINAL" => n.to = q /\ Told(g.req, n.res)'
    <3>1. ASSUME NEW n \in net, n.conn = g.final
          PROVE  /\ n.type = "HASH" => n.from = q /\ n.req = g.req
                 /\ n.type = "FINAL" => n.to = q /\ Told(g.req, n.res)'
      BY <1>0, <1>a, <2>4, <3>1 DEF FinalsMatch
    <3>2. ASSUME NEW n \in F, n.conn = g.final
          PROVE  n.type = "FINAL" /\ n.to = q /\ Told(g.req, n.res)'
      <4>1. n.type = "FINAL" /\ n.conn = e.conn /\ n.to = e.caller /\ n.res = m.res
        BY <2>1
      <4>2. e.caller = q /\ e.req = g.req
        BY <2>3, <2>4, <3>2, <4>1
      <4>3. QED
        BY <2>2, <4>1, <4>2
    <3>3. QED
      BY <2>1, <3>1, <3>2
  <2>5. QED
    BY <1>0, <2>1, <2>4 DEF FinalsMatch
<1>9. QED
  BY <1>0, <1>1, <1>2, <1>3, <1>4, <1>5, <1>6, <1>7, <1>8, StepShape

LEMMA AnswersNext ==
  ASSUME AInv, [Next]_vars
  PROVE  AnswersMatchCalls'
<1>0. TInv /\ FinalsMatch /\ FromClients
  BY DEF AInv
<1>1. SUFFICES ASSUME NEW r \in Request, NEW res, res # None, answer'[r] = res
               PROVE  Told(r, res)'
  <2>1. \A r \in Request : answer'[r] # None => Told(r, answer[r])'
    BY <1>1
  <2>2. QED
    BY <2>1 DEF AnswersMatchCalls, Told
<1>2. CASE answer[r] = res
  <2>1. Told(r, res)
    BY <1>1, <1>2, MatchIsTold DEF AInv
  <2>2. call[r] # None
    BY <2>1 DEF Told, AInv
  <2>3. QED
    BY <1>0, <2>1, <2>2, ToldStays
<1>3. ASSUME NEW p \in Peer, NEW m, NEW F, Executes(p, m, F), answer[r] # res
      PROVE  Told(r, res)'
  <2>1. /\ m.from = Client /\ r = m.conn[1] /\ res = Result(hTab[p], call[m.req])
        /\ m \in net /\ m.type = "HASH"
    BY <1>0, <1>1, <1>3, ExecuteFacts
  <2>2. m.conn = <<m.req, 0>>
    BY <1>0, <2>1 DEF FromClients
  <2>3. r = m.req
    BY <2>1, <2>2
  <2>4. QED
    BY <1>3, <2>1, <2>3, ExecutedIsTold
<1>4. ASSUME NEW p \in Peer, NEW m, NEW i, NEW F, Returns(p, m, i, F), answer[r] # res
      PROVE  Told(r, res)'
  <2>0. PICK e : e = infoList[p][i]
    OBVIOUS
  <2>1. /\ e.caller = Client /\ r = e.conn[1] /\ res = m.res /\ e.final # None
        /\ e \in Waiting(p) /\ m \in net /\ m.type = "FINAL" /\ m.conn = e.final
    BY <1>0, <1>1, <1>4, <2>0, ReturnFacts
  <2>2. e.conn = <<e.req, 0>> /\ Told(e.req, res)
    BY <1>0, <2>1 DEF FromClients, FinalsMatch
  <2>3. r = e.req
    BY <2>1, <2>2
  <2>4. call[r] # None
    BY <2>2, <2>3 DEF Told, AInv
  <2>5. QED
    BY <1>0, <2>2, <2>3, <2>4, ToldStays
<1>5. \/ answer' = answer
      \/ \E p \in Peer : \E m, F : Executes(p, m, F)
      \/ \E p \in Peer : \E m, i, F : Returns(p, m, i, F)
  BY <1>0, StepShape DEF Rests, Sends, Passes, Drops, Enlists, Forwards
<1>6. QED
  BY <1>1, <1>2, <1>3, <1>4, <1>5

LEMMA AInvNext == AInv /\ [Next]_vars => AInv'
<1> SUFFICES ASSUME AInv, [Next]_vars PROVE AInv'
  OBVIOUS
<1>0. TInv /\ TInv' /\ \A r \in ran : call[r] # None
  BY TypeNext DEF AInv
<1>1. ASSUME NEW r \in ran' PROVE call'[r] # None
  <2>1. r \in Request
    BY <1>0 DEF TInv, TypeOK
  <2>2. CASE r \in ran
    BY <1>0, <2>1, <2>2, CallsStay
  <2>3. ASSUME NEW p \in Peer, NEW m, NEW F, Executes(p, m, F), r \notin ran
        PROVE  call'[r] # None
    BY <1>0, <2>3, ExecuteFacts, CallParts
  <2>4. ran' = ran \/ \E p \in Peer : \E m, F : Executes(p, m, F)
    BY <1>0, StepShape DEF Rests, Sends, Passes, Drops, Enlists, Forwards, Returns
  <2>5. QED
    BY <2>2, <2>3, <2>4
<1>2. FromClients' /\ OneLive' /\ ValuesStored' /\ Foremost' /\ FinalsMatch'
  BY ConnectionsNext, ValuesNext, ForemostNext, FinalsMatchNext
<1>3. QED
  BY <1>0, <1>1, <1>2, AnswersNext DEF AInv

LEMMA AnswersInvariant == Spec => []AInv
BY AnswersInit, AInvNext, PTL DEF Spec

\* A client is told what became of its own request: a peer that takes the
\* REPLY of one pending request for that of another (findHashRequestInfo,
\* peer.c) sends the wrong one on, and the answer still goes the way the
\* request that was executed had come.
THEOREM AnswersCorrect == Spec => []AnswersMatchCalls
BY AnswersInvariant, PTL DEF AInv

-----------------------------------------------------------------------------
(* Nothing goes wrong where no two pending requests can be confused: a     *)
(* connection is in the hands of one message or entry, what comes back on  *)
(* it finds the entry that waits for it, and a REPLY finds, first in the   *)
(* list, the request whose LOOKUP it answers.                              *)

\* A connection on which a peer was sent a request is waited on: by whoever
\* carries the request on, or the answer back.
Exclusive ==
  /\ \A m, n \in net : m.type \in {"HASH", "FINAL"} /\ n.type \in {"HASH", "FINAL"}
                       /\ m.conn = n.conn => m = n
  /\ \A m \in net : m.type \in {"HASH", "FINAL"} =>
       \A p \in Peer : \A e \in Waiting(p) : e.conn # m.conn
  /\ \A p, q \in Peer : \A e \in Waiting(p) : \A f \in Waiting(q) : e.conn = f.conn => p = q

OneEntry == \A p \in Peer : \A i, j \in 1..Len(infoList[p]) :
  infoList[p][i].conn = infoList[p][j].conn => i = j

Awaited == \A p \in Peer : p \notin clash =>
  /\ \A m \in net : (m.type = "HASH" /\ m.from = p) \/ (m.type = "FINAL" /\ m.to = p) =>
       \E e \in Waiting(p) : e.final = m.conn
  /\ \A q \in Peer : \A f \in Waiting(q) : f.caller = p => \E e \in Waiting(p) : e.final = f.conn

OwnConnection == \A p \in Peer : p \notin clash =>
  \A e \in Waiting(p) : e.final = None \/ (e.final[1] = e.conn[1] /\ e.final[2] = e.conn[2] + 1)

\* The entry at i is the one that findHashRequestInfo finds for m.
FoundAt(p, i, m) ==
  /\ infoList[p][i].conn = m.conn /\ infoList[p][i].final = None
  /\ Finds(infoList[p][i], m.id)
  /\ \A j \in 1..(i - 1) : ~Finds(infoList[p][j], m.id) /\ ~MayFind(infoList[p][j], m.id)
Expected(p, m) == \E i \in 1..Len(infoList[p]) : FoundAt(p, i, m)

RepliesExpected == \A m \in net :
  /\ m.type = "LOOKUP" /\ m.orig \notin clash => Expected(m.orig, m)
  /\ m.type = "REPLY" /\ m.to \notin clash => Expected(m.to, m)

DInv == AInv /\ Exclusive /\ OneEntry /\ Awaited /\ OwnConnection /\ RepliesExpected

LEMMA DInit == Init => DInv
<1> SUFFICES ASSUME Init PROVE DInv
  OBVIOUS
<1>1. \A p \in Peer : Waiting(p) = {} /\ 1..Len(infoList[p]) = {}
  BY DEF Init, Waiting, Range
<1>2. net = {}
  BY DEF Init
<1>3. OneEntry
  BY <1>1 DEF OneEntry
<1>4. QED
  BY <1>1, <1>2, <1>3, AnswersInit DEF DInv, Exclusive, Awaited, OwnConnection, RepliesExpected

\* Two entries on one connection are one.
LEMMA EntryOfConn ==
  ASSUME TypeOK, OneEntry, NEW p \in Peer, NEW e \in Waiting(p), NEW f \in Waiting(p),
         e.conn = f.conn
  PROVE  e = f
<1>1. PICK i \in 1..Len(infoList[p]) : e = infoList[p][i]
  BY WaitingParts
<1>2. PICK j \in 1..Len(infoList[p]) : f = infoList[p][j]
  BY WaitingParts
<1>3. QED
  BY <1>1, <1>2 DEF OneEntry

\* The search for the request of an ID finds what is expected.
LEMMA SearchFinds ==
  ASSUME TypeOK, NEW p \in Peer, NEW m, Expected(p, m), NEW i \in findHashRequestInfo(p, m.id)
  PROVE  i # 0 /\ i \in 1..Len(infoList[p]) /\ FoundAt(p, i, m)
<1>1. PICK k \in 1..Len(infoList[p]) : FoundAt(p, k, m)
  BY DEF Expected
<1>2. Len(infoList[p]) \in Nat
  BY WaitingParts
<1>3. i # 0 /\ i \in 1..Len(infoList[p])
  BY <1>1, SearchByID DEF FoundAt
<1>4. /\ Finds(infoList[p][i], m.id) \/ MayFind(infoList[p][i], m.id)
      /\ \A j \in 1..(i - 1) : ~Finds(infoList[p][j], m.id)
  BY <1>3, SearchByID
<1>5. k \in Int /\ i \in Int /\ k >= 1 /\ i >= 1
  BY <1>2, <1>3
<1>6. ~(k \in 1..(i - 1))
  BY <1>1, <1>4 DEF FoundAt
<1>7. ~(i \in 1..(k - 1))
  BY <1>1, <1>4 DEF FoundAt
<1>8. i = k
  BY <1>5, <1>6, <1>7
<1>9. QED
  BY <1>1, <1>3, <1>8

\* The entry that is answered was the only one on its connection.
LEMMA EntryGone ==
  ASSUME TInv, OneEntry, NEW p \in Peer, NEW i \in 1..Len(infoList[p]),
         infoList' = [infoList EXCEPT ![p] = RemoveAt(@, i)], NEW g \in Waiting(p)'
  PROVE  g.conn # infoList[p][i].conn
<1>1. /\ infoList'[p] \in Seq(InfoEntry) /\ Len(infoList'[p]) = Len(infoList[p]) - 1
      /\ \A j \in 1..(Len(infoList[p]) - 1) :
           infoList'[p][j] = IF j < i THEN infoList[p][j] ELSE infoList[p][j + 1]
  BY ListRemoved DEF TInv
<1>2. DOMAIN infoList'[p] = 1..(Len(infoList[p]) - 1)
  BY <1>1, LenProperties
<1>3. PICK j \in 1..(Len(infoList[p]) - 1) : g = infoList'[p][j]
  BY <1>2 DEF Waiting, Range
<1>4. Len(infoList[p]) \in Nat
  BY WaitingParts DEF TInv
<1>5. \E k \in 1..Len(infoList[p]) : k # i /\ g = infoList[p][k]
  <2>1. CASE j < i
    BY <1>1, <1>3, <1>4, <2>1
  <2>2. CASE ~(j < i)
    <3>1. j + 1 \in 1..Len(infoList[p]) /\ j + 1 # i
      BY <1>3, <1>4, <2>2
    <3>2. g = infoList[p][j + 1]
      BY <1>1, <1>3, <2>2
    <3>3. QED
      BY <3>1, <3>2
  <2>3. QED
    BY <2>1, <2>2
<1>6. QED
  BY <1>5 DEF OneEntry

LEMMA OneEntryNext ==
  ASSUME DInv, [Next]_vars
  PROVE  OneEntry'
<1>0. TInv /\ TypeOK /\ OneEntry /\ Exclusive
  BY DEF DInv, AInv, TInv
<1>1. CASE UNCHANGED infoList
  BY <1>0, <1>1 DEF OneEntry
<1>2. ASSUME NEW p \in Peer, NEW m, NEW e, NEW o, Enlists(p, m, e, o) PROVE OneEntry'
  <2>1. /\ m \in net /\ m.type = "HASH" /\ e.conn = m.conn
    BY <1>0, <1>2, EnlistFacts
  <2>2. e \in InfoEntry /\ infoList' = [infoList EXCEPT ![p] = Append(@, e)]
    BY <1>2 DEF Enlists
  <2>3. /\ \A q \in Peer \ {p} : infoList'[q] = infoList[q]
        /\ Len(infoList'[p]) = Len(infoList[p]) + 1
        /\ \A i \in 1..Len(infoList[p]) : infoList'[p][i] = infoList[p][i]
        /\ infoList'[p][Len(infoList[p]) + 1] = e
        /\ Len(infoList[p]) \in Nat
    BY <1>0, <2>2, ListAppended, WaitingParts
  <2>4. \A i \in 1..Len(infoList[p]) : infoList[p][i].conn # e.conn
    BY <1>0, <2>1, WaitingParts DEF Exclusive
  <2>5. \A i, j \in 1..Len(infoList'[p]) : infoList'[p][i].conn = infoList'[p][j].conn => i = j
    BY <1>0, <2>3, <2>4 DEF OneEntry
  <2>6. \A q \in Peer \ {p} : \A i, j \in 1..Len(infoList'[q]) :
          infoList'[q][i].conn = infoList'[q][j].conn => i = j
    BY <1>0, <2>3 DEF OneEntry
  <2>7. QED
    BY <2>5, <2>6 DEF OneEntry
<1>3. ASSUME NEW p \in Peer, NEW m, NEW i, NEW o, Forwards(p, m, i, o) PROVE OneEntry'
  <2>0. PICK f : f = Forwarded(infoList[p][i], o.conn)
    OBVIOUS
  <2>1. /\ i \in 1..Len(infoList[p]) /\ o.conn \in Conn /\ SetsFinal(p, i, o.conn)
    BY <1>0, <1>3, NewMessage DEF Forwards
  <2>2. /\ \A q \in Peer \ {p} : infoList'[q] = infoList[q]
        /\ Len(infoList'[p]) = Len(infoList[p]) /\ f.conn = infoList[p][i].conn
        /\ \A j \in 1..Len(infoList[p]) : infoList'[p][j] = IF j = i THEN f ELSE infoList[p][j]
    BY <1>0, <2>0, <2>1, ListForwarded
  <2>3. \A j \in 1..Len(infoList[p]) : infoList'[p][j].conn = infoList[p][j].conn
    BY <2>2
  <2>4. \A j, k \in 1..Len(infoList'[p]) : infoList'[p][j].conn = infoList'[p][k].conn => j = k
    BY <1>0, <2>2, <2>3 DEF OneEntry
  <2>5. \A q \in Peer \ {p} : \A j, k \in 1..Len(infoList'[q]) :
          infoList'[q][j].conn = infoList'[q][k].conn => j = k
    BY <1>0, <2>2 DEF OneEntry
  <2>6. QED
    BY <2>4, <2>5 DEF OneEntry
<1>4. ASSUME NEW p \in Peer, NEW m, NEW i, NEW F, Returns(p, m, i, F) PROVE OneEntry'
  <2>1. i \in 1..Len(infoList[p]) /\ infoList' = [infoList EXCEPT ![p] = RemoveAt(@, i)]
    BY <1>4 DEF Returns
  <2>2. /\ \A q \in Peer \ {p} : infoList'[q] = infoList[q]
        /\ Len(infoList'[p]) = Len(infoList[p]) - 1 /\ Len(infoList[p]) \in Nat
        /\ \A j \in 1..(Len(infoList[p]) - 1) :
             infoList'[p][j] = IF j < i THEN infoList[p][j] ELSE infoList[p][j + 1]
    BY <1>0, <2>1, ListRemoved, WaitingParts
  <2>3. \A j, k \in 1..Len(infoList'[p]) : infoList'[p][j].conn = infoList'[p][k].conn => j = k
    BY <1>0, <2>1, <2>2 DEF OneEntry
  <2>4. \A q \in Peer \ {p} : \A j, k \in 1..Len(infoList'[q]) :
          infoList'[q][j].conn = infoList'[q][k].conn => j = k
    BY <1>0, <2>2 DEF OneEntry
  <2>5. QED
    BY <2>3, <2>4 DEF OneEntry
<1>5. \/ UNCHANGED infoList
      \/ \E p \in Peer : \E m, e, o : Enlists(p, m, e, o)
      \/ \E p \in Peer : \E m, i, o : Forwards(p, m, i, o)
      \/ \E p \in Peer : \E m, i, F : Returns(p, m, i, F)
  BY <1>0, StepShape DEF Rests, Sends, Executes, Passes, Drops
<1>6. QED
  BY <1>1, <1>2, <1>3, <1>4, <1>5

LEMMA ExclusiveNext ==
  ASSUME DInv, [Next]_vars
  PROVE  Exclusive'
<1>0. TInv /\ TypeOK /\ AInv /\ OneEntry /\ Exclusive
  BY DEF DInv, AInv, TInv
<1>1. CASE Rests
  BY <1>0, <1>1 DEF Rests, Exclusive, Waiting
<1>2. ASSUME NEW r \in Request, NEW c, NEW h, Sends(r, c, h) PROVE Exclusive'
  <2>1. /\ net' = net \cup {h} /\ h.conn[1] = r
        /\ \A q \in Peer : Waiting(q)' = Waiting(q)
        /\ \A n \in net : n.conn[1] # r
        /\ \A q \in Peer : \A e \in Waiting(q) : e.conn[1] # r
    BY <1>0, <1>2, SendFacts
  <2>2. QED
    BY <1>0, <2>1 DEF Exclusive
<1>3. ASSUME NEW p \in Peer, NEW m, NEW F, Executes(p, m, F) PROVE Exclusive'
  <2>1. /\ m \in net /\ m.type = "HASH" /\ net' = (net \ {m}) \cup F
        /\ \A f \in F : f.conn = m.conn
        /\ \A f, g \in F : f = g
        /\ \A q \in Peer : Waiting(q)' = Waiting(q)
    BY <1>0, <1>3, ExecuteFacts
  <2>2. QED
    BY <1>0, <2>1 DEF Exclusive
<1>4. ASSUME NEW m, NEW o, Passes(m, o) PROVE Exclusive'
  <2>1. /\ o.type \in {"LOOKUP", "REPLY"} /\ net' = (net \ {m}) \cup {o}
        /\ \A q \in Peer : Waiting(q)' = Waiting(q)
    BY <1>0, <1>4, PassFacts
  <2>2. QED
    BY <1>0, <2>1 DEF Exclusive
<1>5. ASSUME NEW m, Drops(m) PROVE Exclusive'
  <2>1. net' \subseteq net /\ \A q \in Peer : Waiting(q)' = Waiting(q)
    BY <1>5, DropFacts
  <2>2. QED
    BY <1>0, <2>1 DEF Exclusive
<1>6. ASSUME NEW p \in Peer, NEW m, NEW e, NEW o, Enlists(p, m, e, o) PROVE Exclusive'
  <2>1. /\ m \in net /\ m.type = "HASH" /\ e.conn = m.conn
        /\ net' = (net \ {m}) \cup {o}
        /\ \/ o.type = "HASH" /\ o.conn[1] = m.conn[1] /\ o.conn[2] = m.conn[2] + 1
           \/ o.type = "LOOKUP"
        /\ \A q \in Peer : Waiting(q)' = IF q = p THEN Waiting(p) \cup {e} ELSE Waiting(q)
    BY <1>0, <1>6, EnlistFacts
  <2>2. o.type = "HASH" => /\ \A n \in net : n.conn # o.conn
                           /\ \A q \in Peer : \A g \in Waiting(q) : g.conn # o.conn
    BY <1>0, <2>1, NewConnection
  <2>3. \A q \in Peer : \A g \in Waiting(q) : g.conn # e.conn
    BY <1>0, <2>1 DEF Exclusive
  <2>4. \A n \in net \ {m} : n.type \in {"HASH", "FINAL"} => n.conn # e.conn
    BY <1>0, <2>1 DEF Exclusive
  <2>5. \A x, n \in net' : x.type \in {"HASH", "FINAL"} /\ n.type \in {"HASH", "FINAL"}
                           /\ x.conn = n.conn => x = n
    BY <1>0, <2>1, <2>2 DEF Exclusive
  <2>6. \A n \in net' : n.type \in {"HASH", "FINAL"} =>
          \A q \in Peer : \A g \in Waiting(q)' : g.conn # n.conn
    BY <1>0, <2>1, <2>2, <2>4 DEF Exclusive
  <2>7. \A x, q \in Peer : \A g \in Waiting(x)' : \A f \in Waiting(q)' : g.conn = f.conn => x = q
    BY <1>0, <2>1, <2>3 DEF Exclusive
  <2>8. QED
    BY <2>5, <2>6, <2>7 DEF Exclusive
<1>7. ASSUME NEW p \in Peer, NEW m, NEW i, NEW o, Forwards(p, m, i, o) PROVE Exclusive'
  <2>0. PICK e, f : e = infoList[p][i] /\ f = Forwarded(e, o.conn)
    OBVIOUS
  <2>1. /\ m \in net /\ m.type = "REPLY" /\ net' = (net \ {m}) \cup {o}
        /\ o.conn[1] = m.conn[1] /\ o.conn[2] = m.conn[2] + 1
        /\ e \in Waiting(p) /\ f.conn = e.conn
        /\ \A q \in Peer \ {p} : Waiting(q)' = Waiting(q)
        /\ Waiting(p)' \subseteq Waiting(p) \cup {f}
    BY <1>0, <1>7, <2>0, ForwardFacts
  <2>2. /\ \A n \in net : n.conn # o.conn
        /\ \A q \in Peer : \A g \in Waiting(q) : g.conn # o.conn
    BY <1>0, <2>1, NewConnection
  <2>3. \A q \in Peer : \A g \in Waiting(q)' : \E k \in Waiting(q) : g.conn = k.conn
    BY <2>1
  <2>4. \A x, n \in net' : x.type \in {"HASH", "FINAL"} /\ n.type \in {"HASH", "FINAL"}
                           /\ x.conn = n.conn => x = n
    BY <1>0, <2>1, <2>2 DEF Exclusive
  <2>5. QED
    BY <1>0, <2>1, <2>2, <2>3, <2>4 DEF Exclusive
<1>8. ASSUME NEW p \in Peer, NEW m, NEW i, NEW F, Returns(p, m, i, F) PROVE Exclusive'
  <2>0. PICK e : e = infoList[p][i]
    OBVIOUS
  <2>1. /\ m \in net /\ m.type = "FINAL" /\ e \in Waiting(p)
        /\ net' = (net \ {m}) \cup F
        /\ \A f \in F : f.type = "FINAL" /\ f.conn = e.conn
        /\ \A f, g \in F : f = g
        /\ \A q \in Peer : Waiting(q)' \subseteq Waiting(q)
    BY <1>0, <1>8, <2>0, ReturnFacts
  <2>2. \A g \in Waiting(p)' : g.conn # e.conn
    BY <1>0, <1>8, <2>0, EntryGone DEF Returns
  <2>3. \A q \in Peer : \A g \in Waiting(q)' : g.conn # e.conn
    BY <1>0, <2>1, <2>2 DEF Exclusive
  <2>4. \A n \in net : n.type \in {"HASH", "FINAL"} => n.conn # e.conn
    BY <1>0, <2>1 DEF Exclusive
  <2>5. QED
    BY <1>0, <2>1, <2>3, <2>4 DEF Exclusive
<1>9. QED
  BY <1>0, <1>1, <1>2, <1>3, <1>4, <1>5, <1>6, <1>7, <1>8, StepShape

\* The REPLY is taken for the request it answers.
LEMMA ForwardsRight ==
  ASSUME DInv, NEW p \in Peer, NEW m, NEW i, NEW o, Forwards(p, m, i, o), p \notin clash
  PROVE  FoundAt(p, i, m)
<1>1. /\ m \in net /\ m.type = "REPLY" /\ m.to = p /\ i \in findHashRequestInfo(p, m.id)
  BY DEF Forwards
<1>2. Expected(p, m)
  BY <1>1 DEF DInv, RepliesExpected
<1>3. QED
  BY <1>1, <1>2, SearchFinds DEF DInv, AInv, TInv

LEMMA OwnConnectionNext ==
  ASSUME DInv, [Next]_vars
  PROVE  OwnConnection'
<1>0. TInv /\ TypeOK /\ OwnConnection
  BY DEF DInv, AInv, TInv
<1>1. ASSUME UNCHANGED clash, \A q \in Peer : Waiting(q)' \subseteq Waiting(q)
      PROVE  OwnConnection'
  BY <1>0, <1>1 DEF OwnConnection
<1>2. ASSUME NEW p \in Peer, NEW m, NEW e, NEW o, Enlists(p, m, e, o) PROVE OwnConnection'
  <2>1. /\ e.conn = m.conn /\ o.conn[1] = m.conn[1] /\ clash \subseteq clash'
        /\ \/ e.final = o.conn /\ o.conn[2] = m.conn[2] + 1
           \/ e.final = None
        /\ \A q \in Peer : Waiting(q)' = IF q = p THEN Waiting(p) \cup {e} ELSE Waiting(q)
    BY <1>0, <1>2, EnlistFacts
  <2>2. QED
    BY <1>0, <2>1 DEF OwnConnection
<1>3. ASSUME NEW p \in Peer, NEW m, NEW i, NEW o, Forwards(p, m, i, o) PROVE OwnConnection'
  <2>0. PICK e, f : e = infoList[p][i] /\ f = Forwarded(e, o.conn)
    OBVIOUS
  <2>1. /\ o.conn[1] = m.conn[1] /\ o.conn[2] = m.conn[2] + 1
        /\ f.conn = e.conn /\ f.final = o.conn /\ UNCHANGED clash
        /\ \A q \in Peer \ {p} : Waiting(q)' = Waiting(q)
        /\ Waiting(p)' \subseteq Waiting(p) \cup {f}
    BY <1>0, <1>3, <2>0, ForwardFacts
  <2>2. p \notin clash => e.conn = m.conn
    BY <1>3, <2>0, ForwardsRight DEF FoundAt
  <2>3. QED
    BY <1>0, <2>1, <2>2 DEF OwnConnection
<1>4. \/ UNCHANGED clash /\ \A q \in Peer : Waiting(q)' \subseteq Waiting(q)
      \/ \E p \in Peer : \E m, e, o : Enlists(p, m, e, o)
      \/ \E p \in Peer : \E m, i, o : Forwards(p, m, i, o)
  <2>1. UNCHANGED <<clash, infoList>> =>
          UNCHANGED clash /\ \A q \in Peer : Waiting(q)' \subseteq Waiting(q)
    BY DEF Waiting
  <2>2. ASSUME NEW p \in Peer, NEW m, NEW i, NEW F, Returns(p, m, i, F)
        PROVE  UNCHANGED clash /\ \A q \in Peer : Waiting(q)' \subseteq Waiting(q)
    BY <1>0, <2>2, ReturnFacts
  <2>3. QED
    BY <1>0, <2>1, <2>2, StepShape DEF Rests, Sends, Executes, Passes, Drops
<1>5. QED
  BY <1>1, <1>2, <1>3, <1>4

LEMMA AwaitedNext ==
  ASSUME DInv, [Next]_vars
  PROVE  Awaited'
<1>0. TInv /\ TypeOK /\ AInv /\ OneEntry /\ Exclusive /\ Awaited /\ Client \notin Peer
  BY RequestAssumption DEF DInv, AInv, TInv
<1>1. CASE Rests
  BY <1>0, <1>1 DEF Rests, Awaited, Waiting
<1>2. ASSUME NEW r \in Request, NEW c, NEW h, Sends(r, c, h) PROVE Awaited'
  <2>1. /\ net' = net \cup {h} /\ h.type = "HASH" /\ h.from = Client /\ UNCHANGED clash
        /\ \A q \in Peer : Waiting(q)' = Waiting(q)
    BY <1>0, <1>2, SendFacts
  <2>2. QED
    BY <1>0, <2>1 DEF Awaited
<1>3. ASSUME NEW p \in Peer, NEW m, NEW F, Executes(p, m, F) PROVE Awaited'
  <2>1. /\ m \in net /\ m.type = "HASH" /\ net' = (net \ {m}) \cup F /\ UNCHANGED clash
        /\ \A f \in F : f.type = "FINAL" /\ f.conn = m.conn /\ f.to = m.from
        /\ \A q \in Peer : Waiting(q)' = Waiting(q)
    BY <1>0, <1>3, ExecuteFacts
  <2>2. QED
    BY <1>0, <2>1 DEF Awaited
<1>4. ASSUME NEW m, NEW o, Passes(m, o) PROVE Awaited'
  <2>1. /\ o.type \in {"LOOKUP", "REPLY"} /\ net' = (net \ {m}) \cup {o} /\ UNCHANGED clash
        /\ \A q \in Peer : Waiting(q)' = Waiting(q)
    BY <1>0, <1>4, PassFacts
  <2>2. QED
    BY <1>0, <2>1 DEF Awaited
<1>5. ASSUME NEW m, Drops(m) PROVE Awaited'
  BY <1>0, <1>5, DropFacts DEF Awaited
<1>6. ASSUME NEW p \in Peer, NEW m, NEW e, NEW o, Enlists(p, m, e, o) PROVE Awaited'
  <2>1. /\ m \in net /\ m.type = "HASH" /\ e.conn = m.conn /\ e.caller = m.from
        /\ \/ o.type = "HASH" /\ o.from = p /\ e.final = o.conn
           \/ o.type = "LOOKUP"
        /\ net' = (net \ {m}) \cup {o} /\ clash \subseteq clash'
        /\ \A q \in Peer : Waiting(q)' = IF q = p THEN Waiting(p) \cup {e} ELSE Waiting(q)
    BY <1>0, <1>6, EnlistFacts
  <2>2. ASSUME NEW x \in Peer, x \notin clash'
        PROVE  \A n \in net' : (n.type = "HASH" /\ n.from = x) \/ (n.type = "FINAL" /\ n.to = x) =>
                 \E g \in Waiting(x)' : g.final = n.conn
    <3>1. \A n \in net : (n.type = "HASH" /\ n.from = x) \/ (n.type = "FINAL" /\ n.to = x) =>
            \E g \in Waiting(x)' : g.final = n.conn
      BY <1>0, <2>1, <2>2 DEF Awaited
    <3>2. o.type = "HASH" /\ o.from = x => \E g \in Waiting(x)' : g.final = o.conn
      BY <2>1
    <3>3. QED
      BY <2>1, <3>1, <3>2
  <2>3. ASSUME NEW x \in Peer, x \notin clash', NEW q \in Peer, NEW f \in Waiting(q)', f.caller = x
        PROVE  \E g \in Waiting(x)' : g.final = f.conn
    <3>1. \E g \in Waiting(x) : g.final = f.conn
      BY <1>0, <2>1, <2>3 DEF Awaited
    <3>2. QED
      BY <2>1, <3>1
  <2>4. QED
    BY <2>2, <2>3 DEF Awaited
<1>7. ASSUME NEW p \in Peer, NEW m, NEW i, NEW o, Forwards(p, m, i, o) PROVE Awaited'
  <2>0. PICK e, f : e = infoList[p][i] /\ f = Forwarded(e, o.conn)
    OBVIOUS
  <2>1. /\ m \in net /\ m.type = "REPLY" /\ net' = (net \ {m}) \cup {o} /\ UNCHANGED clash
        /\ o.type = "HASH" /\ o.from = p /\ o.conn # None
        /\ e \in Waiting(p) /\ f.conn = e.conn /\ f.caller = e.caller /\ f.final = o.conn
        /\ \A q \in Peer \ {p} : Waiting(q)' = Waiting(q)
        /\ Waiting(p)' \subseteq Waiting(p) \cup {f}
    BY <1>0, <1>7, <2>0, ForwardFacts
  <2>2. f \in Waiting(p)' /\ Waiting(p) \ {e} \subseteq Waiting(p)'
    <3>1. i \in 1..Len(infoList[p]) /\ o.conn \in Conn /\ SetsFinal(p, i, o.conn)
      BY <1>7, NewMessage DEF Forwards
    <3>2. QED
      BY <1>0, <2>0, <3>1, ListForwarded
  <2>3. p \notin clash => e.final = None
    BY <1>7, <2>0, ForwardsRight DEF FoundAt
  <2>4. ASSUME NEW x \in Peer, x \notin clash, NEW c, c # None, NEW g \in Waiting(x), g.final = c
        PROVE  \E k \in Waiting(x)' : k.final = c
    BY <2>1, <2>2, <2>3, <2>4
  <2>5. /\ \A n \in net : n.conn # None
        /\ \A q \in Peer : \A k \in Waiting(q) : k.conn # None
    BY <1>0, MessageParts, WaitingParts, ConnParts
  <2>6. ASSUME NEW x \in Peer, x \notin clash,
               NEW n \in net', (n.type = "HASH" /\ n.from = x) \/ (n.type = "FINAL" /\ n.to = x)
        PROVE  \E g \in Waiting(x)' : g.final = n.conn
    <3>1. CASE n = o
      BY <2>1, <2>2, <2>6, <3>1
    <3>2. CASE n \in net
      BY <1>0, <2>4, <2>5, <2>6, <3>2 DEF Awaited
    <3>3. QED
      BY <2>1, <3>1, <3>2
  <2>7. ASSUME NEW x \in Peer, x \notin clash, NEW q \in Peer, NEW k \in Waiting(q)', k.caller = x
        PROVE  \E g \in Waiting(x)' : g.final = k.conn
    <3>1. \E j \in Waiting(q) : j.conn = k.conn /\ j.caller = x
      BY <2>1, <2>7
    <3>2. QED
      BY <1>0, <2>4, <2>5, <2>7, <3>1 DEF Awaited
  <2>8. QED
    BY <2>1, <2>6, <2>7 DEF Awaited
<1>8. ASSUME NEW p \in Peer, NEW m, NEW i, NEW F, Returns(p, m, i, F) PROVE Awaited'
  <2>0. PICK e : e = infoList[p][i]
    OBVIOUS
  <2>1. /\ m \in net /\ m.type = "FINAL" /\ e \in Waiting(p) /\ e.final = m.conn
        /\ net' = (net \ {m}) \cup F /\ UNCHANGED clash
        /\ \A f \in F : f.type = "FINAL" /\ f.conn = e.conn /\ f.to = e.caller
        /\ \A q \in Peer : Waiting(q)' \subseteq Waiting(q)
    BY <1>0, <1>8, <2>0, ReturnFacts
  <2>2. /\ Waiting(p) \ {e} \subseteq Waiting(p)'
        /\ \A q \in Peer \ {p} : Waiting(q)' = Waiting(q)
    BY <1>0, <1>8, <2>0, ListRemoved DEF Returns
  <2>3. ASSUME NEW x \in Peer, NEW c, c # m.conn, NEW g \in Waiting(x), g.final = c
        PROVE  \E k \in Waiting(x)' : k.final = c
    BY <2>1, <2>2, <2>3
  <2>4. /\ \A q \in Peer : \A k \in Waiting(q) : k.conn # m.conn
        /\ \A n \in net \ {m} : n.type \in {"HASH", "FINAL"} => n.conn # m.conn
    BY <1>0, <2>1 DEF Exclusive
  <2>5. ASSUME NEW x \in Peer, x \notin clash, NEW q \in Peer, NEW k \in Waiting(q), k.caller = x
        PROVE  \E g \in Waiting(x)' : g.final = k.conn
    BY <1>0, <2>3, <2>4, <2>5 DEF Awaited
  <2>6. ASSUME NEW x \in Peer, x \notin clash,
               NEW n \in net', (n.type = "HASH" /\ n.from = x) \/ (n.type = "FINAL" /\ n.to = x)
        PROVE  \E g \in Waiting(x)' : g.final = n.conn
    <3>1. CASE n \in F
      BY <2>1, <2>5, <2>6, <3>1
    <3>2. CASE n \in net \ {m}
      BY <1>0, <2>3, <2>4, <2>6, <3>2 DEF Awaited
    <3>3. QED
      BY <2>1, <3>1, <3>2
  <2>7. QED
    BY <2>1, <2>5, <2>6 DEF Awaited
<1>9. QED
  BY <1>0, <1>1, <1>2, <1>3, <1>4, <1>5, <1>6, <1>7, <1>8, StepShape

\* What is found stays found, at i or where i has moved to, k.
LEMMA FoundStays ==
  ASSUME TInv, [Next]_vars, NEW p \in Peer, NEW i \in 1..Len(infoList[p]), NEW m, FoundAt(p, i, m),
         NEW k \in Nat, infoList'[p][k] = infoList[p][i],
         \A j \in 1..(k - 1) : \E l \in 1..(i - 1) : infoList'[p][j].req = infoList[p][l].req
  PROVE  FoundAt(p, k, m)'
<1>1. \A l \in 1..Len(infoList[p]) : call'[infoList[p][l].req] = call[infoList[p][l].req]
  BY CallsStay, WaitingParts DEF TInv, Called
<1>2. 1..(i - 1) \subseteq 1..Len(infoList[p])
  BY WaitingParts DEF TInv
<1>3. ASSUME NEW j \in 1..(k - 1)
      PROVE  ~(Finds(infoList[p][j], m.id)') /\ ~(MayFind(infoList[p][j], m.id)')
  <2>1. PICK l \in 1..(i - 1) : infoList'[p][j].req = infoList[p][l].req
    BY <1>3
  <2>2. ~Finds(infoList[p][l], m.id) /\ ~MayFind(infoList[p][l], m.id)
    BY DEF FoundAt
  <2>3. call'[infoList'[p][j].req] = call[infoList[p][l].req]
    BY <1>1, <1>2, <2>1
  <2>4. QED
    BY <2>2, <2>3 DEF Finds, MayFind, IDOf
<1>4. Finds(infoList[p][k], m.id)' /\ infoList'[p][k].conn = m.conn /\ infoList'[p][k].final = None
  BY <1>1 DEF FoundAt, Finds, IDOf
<1>5. QED
  BY <1>3, <1>4 DEF FoundAt

\* In particular while the list is left alone or grows.
LEMMA ExpectedStays ==
  ASSUME TInv, [Next]_vars, NEW p \in Peer, NEW m, Expected(p, m),
         Len(infoList'[p]) \in Nat, Len(infoList'[p]) >= Len(infoList[p]),
         \A i \in 1..Len(infoList[p]) : infoList'[p][i] = infoList[p][i]
  PROVE  Expected(p, m)'
<1>1. PICK i \in 1..Len(infoList[p]) : FoundAt(p, i, m)
  BY DEF Expected
<1>2. Len(infoList[p]) \in Nat
  BY WaitingParts DEF TInv
<1>3. i \in Nat /\ i \in 1..Len(infoList'[p]) /\ 1..(i - 1) \subseteq 1..Len(infoList[p])
  BY <1>2
<1>4. FoundAt(p, i, m)'
  BY <1>1, <1>3, FoundStays
<1>5. QED
  BY <1>3, <1>4 DEF Expected

LEMMA RepliesNext ==
  ASSUME DInv, [Next]_vars
  PROVE  RepliesExpected'
<1>0. TInv /\ TypeOK /\ AInv /\ OneLive /\ RepliesExpected
  BY DEF DInv, AInv, TInv
<1>a. ASSUME UNCHANGED infoList, NEW p \in Peer, NEW m, Expected(p, m) PROVE Expected(p, m)'
  BY <1>0, <1>a, ExpectedStays, WaitingParts
<1>b. \A m \in net : /\ m.type = "LOOKUP" => m.orig \in Peer
                     /\ m.type = "REPLY" => m.to \in Peer
  BY <1>0, MessageParts
<1>1. ASSUME UNCHANGED <<infoList, clash>>,
             \A n \in net' : n \in net \/ n.type \in {"HASH", "FINAL"}
      PROVE  RepliesExpected'
  BY <1>0, <1>a, <1>b, <1>1 DEF RepliesExpected
<1>2. ASSUME NEW m, NEW o, Passes(m, o) PROVE RepliesExpected'
  <2>1. /\ m \in net /\ m.type = "LOOKUP" /\ o.conn = m.conn /\ o.id = m.id
        /\ \/ o.type = "LOOKUP" /\ o.orig = m.orig
           \/ o.type = "REPLY" /\ o.to = m.orig
        /\ net' = (net \ {m}) \cup {o} /\ UNCHANGED <<infoList, clash>>
    BY <1>2 DEF Passes
  <2>2. m.orig \notin clash => Expected(m.orig, o)
    BY <1>0, <2>1 DEF RepliesExpected, Expected, FoundAt
  <2>3. m.orig \notin clash => Expected(m.orig, o)'
    BY <1>a, <1>b, <2>1, <2>2
  <2>4. ASSUME NEW n \in net
        PROVE  /\ n.type = "LOOKUP" /\ n.orig \notin clash => Expected(n.orig, n)'
               /\ n.type = "REPLY" /\ n.to \notin clash => Expected(n.to, n)'
    BY <1>0, <1>a, <1>b, <2>1 DEF RepliesExpected
  <2>5. QED
    BY <2>1, <2>3, <2>4 DEF RepliesExpected
<1>3. ASSUME NEW p \in Peer, NEW m, NEW e, NEW o, Enlists(p, m, e, o) PROVE RepliesExpected'
  <2>1. /\ m \in net /\ m.type = "HASH" /\ e.req = m.req /\ e.conn = m.conn /\ e \in InfoEntry
        /\ \/ o.type = "HASH"
           \/ /\ o.type = "LOOKUP" /\ o.orig = p /\ o.id = IDOf(m)
              /\ e.final = None /\ o.conn = m.conn
              /\ p \notin clash' => \A i \in 1..Len(infoList[p]) :
                   ~Finds(infoList[p][i], o.id) /\ ~MayFind(infoList[p][i], o.id)
        /\ net' = (net \ {m}) \cup {o} /\ clash \subseteq clash' /\ UNCHANGED call
        /\ infoList' = [infoList EXCEPT ![p] = Append(@, e)]
    BY <1>3 DEF Enlists
  <2>2. /\ \A q \in Peer \ {p} : infoList'[q] = infoList[q]
        /\ Len(infoList'[p]) = Len(infoList[p]) + 1
        /\ \A i \in 1..Len(infoList[p]) : infoList'[p][i] = infoList[p][i]
        /\ infoList'[p][Len(infoList[p]) + 1] = e
        /\ \A q \in Peer : Len(infoList[q]) \in Nat
    BY <1>0, <2>1, ListAppended, WaitingParts
  <2>3. ASSUME NEW q \in Peer, NEW n, Expected(q, n) PROVE Expected(q, n)'
    BY <1>0, <2>2, <2>3, ExpectedStays
  <2>4. ASSUME o.type = "LOOKUP", p \notin clash' PROVE Expected(p, o)'
    <3>1. PICK k \in Nat : k = Len(infoList[p]) + 1
      BY <2>2
    <3>2. k \in 1..Len(infoList'[p]) /\ infoList'[p][k] = e /\ 1..(k - 1) = 1..Len(infoList[p])
      BY <2>2, <3>1
    <3>3. Finds(infoList[p][k], o.id)'
      BY <2>1, <2>4, <3>2 DEF Finds, IDOf
    <3>4. ASSUME NEW j \in 1..(k - 1)
          PROVE  ~(Finds(infoList[p][j], o.id)') /\ ~(MayFind(infoList[p][j], o.id)')
      <4>1. infoList'[p][j] = infoList[p][j]
        BY <2>2, <3>2
      <4>2. ~Finds(infoList[p][j], o.id) /\ ~MayFind(infoList[p][j], o.id)
        BY <2>1, <2>4, <3>2
      <4>3. call' = call
        BY <2>1
      <4>4. QED
        BY <4>1, <4>2, <4>3 DEF Finds, MayFind, IDOf
    <3>5. FoundAt(p, k, o)'
      BY <2>1, <2>4, <3>2, <3>3, <3>4 DEF FoundAt
    <3>6. QED
      BY <3>2, <3>5 DEF Expected
  <2>5. ASSUME NEW n \in net
        PROVE  /\ n.type = "LOOKUP" /\ n.orig \notin clash' => Expected(n.orig, n)'
               /\ n.type = "REPLY" /\ n.to \notin clash' => Expected(n.to, n)'
    BY <1>0, <1>b, <2>1, <2>3 DEF RepliesExpected
  <2>6. QED
    BY <2>1, <2>4, <2>5 DEF RepliesExpected
<1>4. ASSUME NEW p \in Peer, NEW m, NEW i, NEW o, Forwards(p, m, i, o) PROVE RepliesExpected'
  <2>1. /\ m \in net /\ m.type = "REPLY" /\ o.type = "HASH" /\ o.conn \in Conn
        /\ i \in 1..Len(infoList[p]) /\ SetsFinal(p, i, o.conn)
        /\ net' = (net \ {m}) \cup {o} /\ UNCHANGED clash
    BY <1>4, NewMessage DEF Forwards
  <2>2. PICK f : f = Forwarded(infoList[p][i], o.conn)
    OBVIOUS
  <2>3. /\ \A q \in Peer \ {p} : infoList'[q] = infoList[q]
        /\ Len(infoList'[p]) = Len(infoList[p]) /\ f.req = infoList[p][i].req
        /\ \A j \in 1..Len(infoList[p]) : infoList'[p][j] = IF j = i THEN f ELSE infoList[p][j]
        /\ \A q \in Peer : Len(infoList[q]) \in Nat
    BY <1>0, <2>1, <2>2, ListForwarded, WaitingParts
  <2>4. ASSUME NEW q \in Peer \ {p}, NEW n, Expected(q, n) PROVE Expected(q, n)'
    BY <1>0, <2>3, <2>4, ExpectedStays
  <2>5. ASSUME NEW n \in net \ {m}, n.type # "FINAL", p \notin clash, Expected(p, n)
        PROVE  Expected(p, n)'
    <3>1. PICK k \in 1..Len(infoList[p]) : FoundAt(p, k, n)
      BY <2>5 DEF Expected
    <3>2. n.conn # m.conn
      BY <1>0, <2>1, <2>5 DEF OneLive
    <3>3. k # i
      BY <1>4, <2>5, <3>1, <3>2, ForwardsRight DEF FoundAt
    <3>4. k \in Nat /\ infoList'[p][k] = infoList[p][k] /\ 1..(k - 1) \subseteq 1..Len(infoList[p])
      BY <2>3, <3>3
    <3>5. \A j \in 1..(k - 1) : infoList'[p][j].req = infoList[p][j].req
      BY <2>3, <3>4
    <3>6. FoundAt(p, k, n)'
      BY <1>0, <3>1, <3>4, <3>5, FoundStays
    <3>7. QED
      BY <2>3, <3>6 DEF Expected
  <2>6. ASSUME NEW n \in net \ {m}
        PROVE  /\ n.type = "LOOKUP" /\ n.orig \notin clash => Expected(n.orig, n)'
               /\ n.type = "REPLY" /\ n.to \notin clash => Expected(n.to, n)'
    <3>1. ASSUME NEW q \in Peer, q \notin clash, Expected(q, n), n.type # "FINAL"
          PROVE  Expected(q, n)'
      BY <2>4, <2>5, <3>1
    <3>2. QED
      BY <1>0, <1>b, <3>1 DEF RepliesExpected
  <2>7. QED
    BY <2>1, <2>6 DEF RepliesExpected
<1>5. ASSUME NEW p \in Peer, NEW m, NEW i, NEW F, Returns(p, m, i, F) PROVE RepliesExpected'
  <2>1. /\ i \in 1..Len(infoList[p]) /\ infoList[p][i].final # None
        /\ \A n \in net' : n \in net \/ n.type = "FINAL"
        /\ UNCHANGED clash
    <3>1. infoList[p][i].final # None /\ UNCHANGED clash
      BY <1>0, <1>5, ReturnFacts
    <3>2. i \in 1..Len(infoList[p]) /\ \A n \in net' : n \in net \/ n.type = "FINAL"
      BY <1>5 DEF Returns, Replies
    <3>3. QED
      BY <3>1, <3>2
  <2>2. infoList' = [infoList EXCEPT ![p] = RemoveAt(@, i)]
    BY <1>5 DEF Returns
  <2>3. /\ \A q \in Peer \ {p} : infoList'[q] = infoList[q]
        /\ Len(infoList'[p]) = Len(infoList[p]) - 1
        /\ \A j \in 1..(Len(infoList[p]) - 1) :
             infoList'[p][j] = IF j < i THEN infoList[p][j] ELSE infoList[p][j + 1]
        /\ \A q \in Peer : Len(infoList[q]) \in Nat
    BY <1>0, <2>1, <2>2, ListRemoved, WaitingParts
  <2>4. ASSUME NEW q \in Peer \ {p}, NEW n, Expected(q, n) PROVE Expected(q, n)'
    BY <1>0, <2>3, <2>4, ExpectedStays
  <2>5. ASSUME NEW n, Expected(p, n) PROVE Expected(p, n)'
    <3>1. PICK k \in 1..Len(infoList[p]) : FoundAt(p, k, n)
      BY <2>5 DEF Expected
    <3>2. k # i
      BY <2>1, <3>1 DEF FoundAt
    <3>3. CASE k < i
      <4>1. k \in Nat /\ k \in 1..Len(infoList'[p]) /\ infoList'[p][k] = infoList[p][k]
        BY <2>1, <2>3, <3>3
      <4>2. \A j \in 1..(k - 1) : infoList'[p][j] = infoList[p][j]
        BY <2>1, <2>3, <3>3
      <4>3. FoundAt(p, k, n)'
        BY <1>0, <3>1, <4>1, <4>2, FoundStays
      <4>4. QED
        BY <4>1, <4>3 DEF Expected
    <3>4. CASE k > i
      <4>0. PICK l \in Nat : l = k - 1
        BY <2>1, <3>4
      <4>1. l \in 1..Len(infoList'[p]) /\ infoList'[p][l] = infoList[p][k]
        BY <2>1, <2>3, <3>4, <4>0
      <4>2. ASSUME NEW j \in 1..(l - 1)
            PROVE  \E h \in 1..(k - 1) : infoList'[p][j].req = infoList[p][h].req
        <5>1. infoList'[p][j] = IF j < i THEN infoList[p][j] ELSE infoList[p][j + 1]
          BY <2>1, <2>3, <4>0, <4>1
        <5>2. j \in 1..(k - 1) /\ j + 1 \in 1..(k - 1)
          BY <4>0
        <5>3. QED
          BY <5>1, <5>2
      <4>3. FoundAt(p, l, n)'
        BY <1>0, <3>1, <4>1, <4>2, FoundStays
      <4>4. QED
        BY <4>1, <4>3 DEF Expected
    <3>5. QED
      BY <2>1, <2>3, <3>2, <3>3, <3>4
  <2>6. ASSUME NEW q \in Peer, NEW n, Expected(q, n) PROVE Expected(q, n)'
    BY <2>4, <2>5, <2>6
  <2>7. QED
    BY <1>0, <1>b, <2>1, <2>6 DEF RepliesExpected
<1>6. \/ /\ UNCHANGED <<infoList, clash>>
         /\ \A n \in net' : n \in net \/ n.type \in {"HASH", "FINAL"}
      \/ \E m, o : Passes(m, o)
      \/ \E p \in Peer : \E m, e, o : Enlists(p, m, e, o)
      \/ \E p \in Peer : \E m, i, o : Forwards(p, m, i, o)
      \/ \E p \in Peer : \E m, i, F : Returns(p, m, i, F)
  BY <1>0, StepShape DEF Rests, Sends, Executes, Drops, Replies
<1>7. QED
  BY <1>1, <1>2, <1>3, <1>4, <1>5, <1>6

LEMMA DNext == DInv /\ [Next]_vars => DInv'
<1>1. DInv => AInv
  BY DEF DInv
<1>2. QED
  BY <1>1, AInvNext, ExclusiveNext, OneEntryNext, AwaitedNext, OwnConnectionNext, RepliesNext
     DEF DInv

LEMMA DInvariant == Spec => []DInv
BY DInit, DNext, PTL DEF Spec

\* What is only ever added to, and who goes down.
LEMMA Histories ==
  ASSUME TInv, [Next]_vars
  PROVE  /\ clash \subseteq clash' /\ dropped \subseteq dropped'
         /\ UNCHANGED down \/ \E m : Drops(m)
<1>1. ASSUME NEW p \in Peer, NEW m \in net, Handle(p, m)
      PROVE  clash \subseteq clash' /\ dropped \subseteq dropped'
  BY <1>1 DEF Handle, HashHere, HashNext, HashUnknown, LookupNext, LookupOn,
              LookupDropped, HandleReply, HandleFinal
<1>2. ASSUME NEW p \in Peer, NEW m \in net, HandleFinal(p, m)
      PROVE  UNCHANGED down \/ \E n : Drops(n)
  <2>1. UNCHANGED down \/ getClientRequestInfo(p, m) = 0
    BY <1>2 DEF HandleFinal
  <2>2. getClientRequestInfo(p, m) = 0 => Drops(m)
    BY <1>2 DEF HandleFinal, Drops, Read
  <2>3. QED
    BY <2>1, <2>2
<1>3. ASSUME NEW p \in Peer, NEW m \in net, Handle(p, m), ~HandleFinal(p, m)
      PROVE  UNCHANGED down
  BY <1>3 DEF Handle, HashHere, HashNext, HashUnknown, LookupNext, LookupOn,
              LookupDropped, HandleReply
<1>4. QED
  BY <1>1, <1>2, <1>3 DEF Next, Membership, ClientSend, vars

\* A message dropped without need: only where requests could be confused.
LEMMA DroppedFor ==
  ASSUME DInv, NEW m, Drops(m)
  PROVE  \/ m.type = "LOOKUP" /\ dropped' = dropped \cup {m.conn[1]} /\ UNCHANGED down
         \/ m.type = "REPLY" /\ m.to \in clash /\ UNCHANGED down
         \/ m.type = "FINAL" /\ m.to \in clash /\ down' = down \cup {m.to}
<1>0. TypeOK /\ m \in net /\ m.to \in Peer
  BY MessageParts DEF Drops, DInv, AInv, TInv
<1>1. ASSUME m.type = "REPLY", 0 \in findHashRequestInfo(m.to, m.id), m.to \notin clash
      PROVE  FALSE
  <2>1. Expected(m.to, m)
    BY <1>0, <1>1 DEF DInv, RepliesExpected
  <2>2. QED
    BY <1>0, <1>1, <2>1, SearchFinds
<1>2. ASSUME m.type = "FINAL", getClientRequestInfo(m.to, m) = 0, m.to \notin clash
      PROVE  FALSE
  <2>1. PICK e \in Waiting(m.to) : e.final = m.conn
    BY <1>0, <1>2 DEF DInv, Awaited
  <2>2. m.conn # None
    BY <1>0, MessageParts, ConnParts
  <2>3. Told(e.req, m.res)
    BY <1>0, <1>2, <2>1, <2>2 DEF DInv, AInv, FinalsMatch
  <2>4. QED
    BY <1>0, <1>2, <2>1, <2>3, SearchByFinal DEF Told
<1>3. QED
  BY <1>1, <1>2 DEF Drops

LEMMA DownNext ==
  ASSUME DInv, [Next]_vars, DownOnlyAfterClash
  PROVE  DownOnlyAfterClash'
<1>1. TInv
  BY DEF DInv, AInv
<1>2. CASE UNCHANGED down
  BY <1>1, <1>2, Histories DEF DownOnlyAfterClash
<1>3. ASSUME NEW m, Drops(m) PROVE DownOnlyAfterClash'
  BY <1>1, <1>3, DroppedFor, Histories DEF DownOnlyAfterClash
<1>4. QED
  BY <1>1, <1>2, <1>3, Histories

\* A FINAL is always for a pending request of the peer that gets it, so that
\* peer.c:634 finds it and dereferences no NULL, unless a REPLY was taken for that
\* of another request: joins in progress alone bring no peer down.
THEOREM NobodyDown == Spec => []DownOnlyAfterClash
<1>1. Init => DownOnlyAfterClash
  BY DEF Init, DownOnlyAfterClash
<1>2. DInv /\ DownOnlyAfterClash /\ [Next]_vars => DownOnlyAfterClash'
  BY DownNext
<1>3. QED
  BY <1>1, <1>2, DInvariant, PTL DEF Spec

\* A request under way, of which nothing can have been confused.
Pending(r) == call[r] # None /\ answer[r] = None /\ r \notin dropped /\ clash = {}
UnderWay(r) == \E m \in net : m.conn[1] = r

LEMMA LostNext ==
  ASSUME DInv, [Next]_vars, NeverLost
  PROVE  NeverLost'
<1>0. TInv /\ TypeOK /\ OwnConnection /\ \A s \in Request : Pending(s) => UnderWay(s)
  BY DEF DInv, AInv, TInv, NeverLost, Pending, UnderWay
<1> SUFFICES ASSUME NEW r \in Request, Pending(r)' PROVE \E m \in net' : m.conn[1] = r
  BY DEF NeverLost, Pending
<1>a. /\ call'[r] # None /\ answer'[r] = None /\ r \notin dropped' /\ clash = {}
      /\ r \notin dropped
  BY <1>0, Histories DEF Pending
<1>b. ASSUME call[r] # None, answer[r] = None PROVE \E m \in net : m.conn[1] = r
  BY <1>0, <1>a, <1>b DEF Pending, UnderWay
<1>1. CASE Rests
  BY <1>1, <1>a, <1>b DEF Rests
<1>2. ASSUME NEW s \in Request, NEW c, NEW h, Sends(s, c, h) PROVE \E m \in net' : m.conn[1] = r
  <2>1. /\ net' = net \cup {h} /\ h.conn[1] = s /\ UNCHANGED answer
        /\ \A x \in Request : call'[x] = IF x = s THEN c ELSE call[x]
    BY <1>0, <1>2, SendFacts
  <2>2. QED
    BY <1>a, <1>b, <2>1
<1>3. ASSUME NEW p \in Peer, NEW m, NEW F, Executes(p, m, F) PROVE \E n \in net' : n.conn[1] = r
  <2>0. PICK res : res = Result(hTab[p], call[m.req])
    OBVIOUS
  <2>1. /\ m \in net /\ net' = (net \ {m}) \cup F /\ UNCHANGED call
        /\ \A f \in F : f.conn = m.conn
        /\ F = {} <=> m.from = Client
        /\ \A x \in Request : answer'[x] =
              IF m.from = Client /\ x = m.conn[1] THEN res ELSE answer[x]
        /\ call[m.req] \in Call /\ hTab[p] \in [Key -> Value \cup {None}]
    BY <1>0, <1>3, <2>0, ExecuteFacts
  <2>2. res # None
    BY <2>0, <2>1, ApplyAndResult
  <2>3. answer[r] = None /\ call[r] # None /\ ~(m.from = Client /\ r = m.conn[1])
    BY <1>a, <2>1, <2>2
  <2>4. PICK n \in net : n.conn[1] = r
    BY <1>b, <2>3
  <2>5. n = m => \E f \in F : f.conn[1] = r
    BY <2>1, <2>3, <2>4
  <2>6. QED
    BY <2>1, <2>4, <2>5
<1>4. ASSUME NEW m, NEW o, o.conn[1] = m.conn[1], net' = (net \ {m}) \cup {o},
             UNCHANGED <<call, answer>>
      PROVE  \E n \in net' : n.conn[1] = r
  BY <1>a, <1>b, <1>4
<1>5. ASSUME NEW m, Drops(m) PROVE \E n \in net' : n.conn[1] = r
  <2>1. /\ m \in net /\ net' = net \ {m} /\ UNCHANGED <<call, answer>>
        /\ m.type = "LOOKUP" /\ dropped' = dropped \cup {m.conn[1]}
    BY <1>5, <1>a, DropFacts, DroppedFor
  <2>2. QED
    BY <1>a, <1>b, <2>1
<1>6. ASSUME NEW p \in Peer, NEW m, NEW i, NEW F, Returns(p, m, i, F)
      PROVE  \E n \in net' : n.conn[1] = r
  <2>0. PICK e : e = infoList[p][i]
    OBVIOUS
  <2>1. /\ m \in net /\ e \in Waiting(p) /\ e.final = m.conn /\ e.final # None
        /\ net' = (net \ {m}) \cup F /\ UNCHANGED call
        /\ \A f \in F : f.conn = e.conn
        /\ F = {} <=> e.caller = Client
        /\ \A x \in Request : answer'[x] =
              IF e.caller = Client /\ x = e.conn[1] THEN m.res ELSE answer[x]
        /\ m.type = "FINAL"
    BY <1>0, <1>6, <2>0, ReturnFacts
  <2>2. e.conn[1] = m.conn[1]
    BY <1>0, <1>a, <2>1 DEF OwnConnection
  <2>3. m.res # None
    BY <1>0, <2>1, MessageParts, RequestAssumption
  <2>4. answer[r] = None /\ call[r] # None /\ ~(e.caller = Client /\ r = m.conn[1])
    BY <1>a, <2>1, <2>2, <2>3
  <2>5. PICK n \in net : n.conn[1] = r
    BY <1>b, <2>4
  <2>6. n = m => \E f \in F : f.conn[1] = r
    BY <2>1, <2>2, <2>4, <2>5
  <2>7. QED
    BY <2>1, <2>5, <2>6
<1>7. ASSUME NEW p \in Peer, NEW m, NEW e, NEW o, Enlists(p, m, e, o)
      PROVE  \E n \in net' : n.conn[1] = r
  BY <1>0, <1>4, <1>7, EnlistFacts
<1>8. ASSUME NEW p \in Peer, NEW m, NEW i, NEW o, Forwards(p, m, i, o)
      PROVE  \E n \in net' : n.conn[1] = r
  BY <1>4, <1>8 DEF Forwards
<1>9. ASSUME NEW m, NEW o, Passes(m, o) PROVE \E n \in net' : n.conn[1] = r
  BY <1>4, <1>9 DEF Passes
<1>10. QED
  BY <1>0, <1>1, <1>2, <1>3, <1>5, <1>6, <1>7, <1>8, <1>9, StepShape

\* A request that was made is answered or a message carries it, whatever peers
\* have joined meanwhile, unless a peer in charge dropped its LOOKUP (peer.c:344)
\* or requests could be confused.
THEOREM RequestsUnderWay == Spec => []NeverLost
<1>1. Init => NeverLost
  BY DEF Init, NeverLost
<1>2. DInv /\ NeverLost /\ [Next]_vars => NeverLost'
  BY LostNext
<1>3. QED
  BY <1>1, <1>2, DInvariant, PTL DEF Spec

-----------------------------------------------------------------------------
(* Whenever one peer is in charge of each key the ring is one map.  Where  *)
(* nothing can be confused a request is in one place: one message names    *)
(* its connections, carries its own call, and nobody has been told yet.    *)

OneEach == clash = {} =>
  /\ \A m, n \in net : m.conn[1] = n.conn[1] => m = n
  /\ \A m \in net : answer[m.conn[1]] = None /\ (m.type = "HASH" => m.req = m.conn[1])
  /\ \A p \in Peer : \A e \in Waiting(p) : e.req = e.conn[1]

\* Only peers that run are asked and ask.
Alive ==
  /\ \A m \in net : /\ m.to \in started
                    /\ m.type = "HASH" => m.from \in started \cup {Client}
                    /\ m.type = "LOOKUP" => m.orig \in started
                    /\ m.type = "REPLY" => m.chosen \in started
  /\ \A p \in Peer : \A e \in Waiting(p) : e.caller \in started \cup {Client}

KInv == DInv /\ MP!NInv /\ OneEach /\ Alive

LEMMA KInit == Init => KInv
<1> SUFFICES ASSUME Init PROVE KInv
  OBVIOUS
<1>1. net = {} /\ \A p \in Peer : Waiting(p) = {}
  BY DEF Init, Waiting, Range
<1>2. QED
  BY <1>1, DInit, MembersInit DEF KInv, OneEach, Alive

\* Peers keep running, and a successor is one that runs.
LEMMA StartedStays ==
  ASSUME [Next]_vars
  PROVE  started \subseteq started'
<1>1. M!Next => started \subseteq started'
  <2>1. ASSUME NEW p \in Peer, M!StartFounder(p) \/ M!StartJoiner(p) \/ M!Stabilize(p)
        PROVE  started \subseteq started'
    BY <2>1 DEF M!StartFounder, M!StartJoiner, M!Stabilize
  <2>2. ASSUME NEW p \in Peer, NEW m \in mnet, M!Handle(p, m)
        PROVE  started \subseteq started'
    BY <2>2 DEF M!Handle, M!HandleStabilize, M!HandleNotify, M!JoinHere, M!JoinOn
  <2>3. QED
    BY <2>1, <2>2 DEF M!Next
<1>2. ASSUME NEW p \in Peer, NEW m \in net, Handle(p, m) PROVE UNCHANGED members
  BY <1>2 DEF Handle, HashHere, HashNext, HashUnknown, LookupNext, LookupOn, LookupDropped,
              HandleReply, HandleFinal
<1>3. QED
  BY <1>1, <1>2 DEF Next, Membership, ClientSend, vars, members

LEMMA AliveNext ==
  ASSUME KInv, [Next]_vars
  PROVE  Alive'
<1>0. /\ TInv /\ TypeOK /\ Alive /\ Client \notin Peer
      /\ \A p \in Peer : nextID[p] # unknown => nextID[p] \in started
      /\ started \subseteq started' /\ \A p \in Peer : p # unknown
  <2>1. MP!OnlyStarted
    BY DEF KInv, MP!NInv
  <2>2. QED
    BY <2>1, RequestAssumption, MembershipAssumption, StartedStays
       DEF KInv, DInv, AInv, TInv, MP!OnlyStarted
<1>1. CASE Rests
  BY <1>0, <1>1 DEF Rests, Alive, Waiting
<1>2. ASSUME NEW r \in Request, NEW c, NEW h, Sends(r, c, h) PROVE Alive'
  <2>1. /\ net' = net \cup {h} /\ h.type = "HASH" /\ h.from = Client /\ h.to \in started
        /\ \A q \in Peer : Waiting(q)' = Waiting(q)
    BY <1>0, <1>2, SendFacts
  <2>2. QED
    BY <1>0, <2>1 DEF Alive
<1>3. ASSUME NEW p \in Peer, NEW m, NEW F, Executes(p, m, F) PROVE Alive'
  <2>1. /\ m \in net /\ m.type = "HASH" /\ net' = (net \ {m}) \cup F
        /\ \A f \in F : f.type = "FINAL" /\ f.to = m.from
        /\ F = {} <=> m.from = Client
        /\ \A q \in Peer : Waiting(q)' = Waiting(q)
    BY <1>0, <1>3, ExecuteFacts
  <2>2. QED
    BY <1>0, <2>1 DEF Alive
<1>4. ASSUME NEW m, NEW o, Passes(m, o) PROVE Alive'
  <2>1. /\ m \in net /\ m.type = "LOOKUP" /\ net' = (net \ {m}) \cup {o} /\ o \in Message
        /\ \/ o.type = "LOOKUP" /\ o.orig = m.orig
           \/ o.type = "REPLY" /\ o.chosen = nextID[m.to]
        /\ o.to = m.orig \/ o.to = nextID[m.to]
        /\ UNCHANGED infoList
    BY <1>4 DEF Passes
  <2>2. m.to \in Peer
    BY <1>0, <2>1, MessageParts
  <2>3. o.to \in Peer /\ (o.type = "REPLY" => o.chosen \in Peer)
    BY <2>1 DEF Message
  <2>4. o.to \in started /\ (o.type = "LOOKUP" => o.orig \in started)
        /\ (o.type = "REPLY" => o.chosen \in started)
    BY <1>0, <2>1, <2>2, <2>3 DEF Alive
  <2>5. o.type # "HASH" /\ \A q \in Peer : Waiting(q)' = Waiting(q)
    BY <2>1 DEF Waiting
  <2>6. QED
    BY <1>0, <2>1, <2>4, <2>5 DEF Alive
<1>5. ASSUME NEW m, Drops(m) PROVE Alive'
  BY <1>0, <1>5, DropFacts DEF Alive
<1>6. ASSUME NEW p \in Peer, NEW m, NEW e, NEW o, Enlists(p, m, e, o) PROVE Alive'
  <2>1. /\ m \in net /\ m.type = "HASH" /\ m.to = p /\ e.caller = m.from
        /\ o \in Message /\ o.to = nextID[p]
        /\ \/ o.type = "HASH" /\ o.from = p
           \/ o.type = "LOOKUP" /\ o.orig = p
        /\ net' = (net \ {m}) \cup {o}
    BY <1>6 DEF Enlists
  <2>2. o.to \in Peer
    BY <2>1 DEF Message
  <2>3. o.to \in started /\ p \in started /\ e.caller \in started \cup {Client}
    BY <1>0, <2>1, <2>2 DEF Alive
  <2>4. \A q \in Peer : Waiting(q)' = IF q = p THEN Waiting(p) \cup {e} ELSE Waiting(q)
    BY <1>0, <1>6, EnlistFacts
  <2>5. QED
    BY <1>0, <2>1, <2>3, <2>4 DEF Alive
<1>7. ASSUME NEW p \in Peer, NEW m, NEW i, NEW o, Forwards(p, m, i, o) PROVE Alive'
  <2>0. PICK e, f : e = infoList[p][i] /\ f = Forwarded(e, o.conn)
    OBVIOUS
  <2>1. /\ m \in net /\ m.type = "REPLY" /\ m.to = p
        /\ o.type = "HASH" /\ o.from = p /\ net' = (net \ {m}) \cup {o}
        /\ e \in Waiting(p) /\ f.caller = e.caller
        /\ \A q \in Peer \ {p} : Waiting(q)' = Waiting(q)
        /\ Waiting(p)' \subseteq Waiting(p) \cup {f}
    BY <1>0, <1>7, <2>0, ForwardFacts
  <2>2. o.to = m.chosen
    BY <1>7 DEF Forwards
  <2>3. QED
    BY <1>0, <2>1, <2>2 DEF Alive
<1>8. ASSUME NEW p \in Peer, NEW m, NEW i, NEW F, Returns(p, m, i, F) PROVE Alive'
  <2>0. PICK e : e = infoList[p][i]
    OBVIOUS
  <2>1. /\ m \in net /\ e \in Waiting(p) /\ net' = (net \ {m}) \cup F
        /\ \A f \in F : f.type = "FINAL" /\ f.to = e.caller
        /\ F = {} <=> e.caller = Client
        /\ \A q \in Peer : Waiting(q)' \subseteq Waiting(q)
    BY <1>0, <1>8, <2>0, ReturnFacts
  <2>2. QED
    BY <1>0, <2>1 DEF Alive
<1>9. QED
  BY <1>0, <1>1, <1>2, <1>3, <1>4, <1>5, <1>6, <1>7, <1>8, StepShape

LEMMA OneEachNext ==
  ASSUME KInv, [Next]_vars
  PROVE  OneEach'
<1> SUFFICES ASSUME clash' = {} PROVE OneEach'
  BY DEF OneEach
<1> DEFINE Apart == \A m, n \in net : m.conn[1] = n.conn[1] => m = n
           Asked == \A m \in net : answer[m.conn[1]] = None /\ (m.type = "HASH" => m.req = m.conn[1])
           Own == \A p \in Peer : \A e \in Waiting(p) : e.req = e.conn[1]
<1>0. /\ TInv /\ TypeOK /\ DInv /\ OwnConnection /\ clash = {}
      /\ \A m \in net : m.conn[1] \in Request
  <2>1. TInv /\ TypeOK /\ DInv /\ OwnConnection
    BY DEF KInv, DInv, AInv, TInv
  <2>2. clash = {}
    BY <2>1, Histories
  <2>3. QED
    BY <2>1, <2>2, MessageParts, ConnParts
<1>a. Apart /\ Asked /\ Own
  BY <1>0 DEF KInv, OneEach
<1>b. ASSUME Apart', Asked', Own' PROVE OneEach'
  BY <1>b DEF OneEach
<1> HIDE DEF Apart, Asked, Own
<1>1. CASE Rests
  <2>1. Apart' /\ Asked' /\ Own'
    BY <1>1, <1>a DEF Rests, Apart, Asked, Own, Waiting
  <2>2. QED
    BY <2>1, <1>b
<1>2. ASSUME NEW r \in Request, NEW c, NEW h, Sends(r, c, h) PROVE OneEach'
  <2>1. /\ net' = net \cup {h} /\ h.conn[1] = r /\ h.req = r /\ UNCHANGED answer
        /\ \A n \in net : n.conn[1] # r
        /\ \A q \in Peer : Waiting(q)' = Waiting(q)
        /\ call[r] = None
    BY <1>0, <1>2, SendFacts
  <2>2. answer[r] = None
    BY <2>1 DEF KInv, DInv, AInv, AnswersMatchCalls
  <2>3. Apart' /\ Asked' /\ Own'
    BY <1>a, <2>1, <2>2 DEF Apart, Asked, Own
  <2>4. QED
    BY <2>3, <1>b
<1>3. ASSUME NEW p \in Peer, NEW m, NEW F, Executes(p, m, F) PROVE OneEach'
  <2>0. PICK res : res = Result(hTab[p], call[m.req])
    OBVIOUS
  <2>1. /\ m \in net /\ net' = (net \ {m}) \cup F
        /\ \A f \in F : f.type = "FINAL" /\ f.conn = m.conn
        /\ \A f, g \in F : f = g
        /\ F = {} <=> m.from = Client
        /\ \A x \in Request : answer'[x] =
              IF m.from = Client /\ x = m.conn[1] THEN res ELSE answer[x]
        /\ \A q \in Peer : Waiting(q)' = Waiting(q)
    BY <1>0, <1>3, <2>0, ExecuteFacts
  <2>2. \A n \in net \ {m} : n.conn[1] # m.conn[1]
    BY <1>a, <2>1 DEF Apart
  <2>3. Apart' /\ Own'
    BY <1>a, <2>1, <2>2 DEF Apart, Own
  <2>4. \A n \in net' : n.conn[1] \in Request /\ ~(m.from = Client /\ n.conn[1] = m.conn[1])
    BY <1>0, <2>1, <2>2
  <2>5. Asked'
    BY <1>a, <2>1, <2>4 DEF Asked
  <2>6. QED
    BY <2>3, <2>5, <1>b
<1>4. ASSUME NEW m \in net, NEW o, o.conn[1] = m.conn[1], net' = (net \ {m}) \cup {o},
             o.type = "HASH" => o.req = o.conn[1], UNCHANGED answer,
             \A q \in Peer : \A g \in Waiting(q)' : g.req = g.conn[1]
      PROVE  OneEach'
  <2>1. Apart' /\ Asked' /\ Own'
    BY <1>4, <1>a DEF Apart, Asked, Own
  <2>2. QED
    BY <2>1, <1>b
<1>5. ASSUME NEW m, Drops(m) PROVE OneEach'
  <2>1. net' \subseteq net /\ UNCHANGED answer /\ \A q \in Peer : Waiting(q)' = Waiting(q)
    BY <1>5, DropFacts
  <2>2. Apart' /\ Asked' /\ Own'
    BY <2>1, <1>a DEF Apart, Asked, Own
  <2>3. QED
    BY <2>2, <1>b
<1>6. ASSUME NEW p \in Peer, NEW m, NEW F, NEW i, Returns(p, m, i, F) PROVE OneEach'
  <2>0. PICK e : e = infoList[p][i]
    OBVIOUS
  <2>1. /\ m \in net /\ e \in Waiting(p) /\ e.final = m.conn /\ e.final # None
        /\ net' = (net \ {m}) \cup F
        /\ \A f \in F : f.type = "FINAL" /\ f.conn = e.conn
        /\ \A f, g \in F : f = g
        /\ F = {} <=> e.caller = Client
        /\ \A x \in Request : answer'[x] =
              IF e.caller = Client /\ x = e.conn[1] THEN m.res ELSE answer[x]
        /\ \A q \in Peer : Waiting(q)' \subseteq Waiting(q)
    BY <1>0, <1>6, <2>0, ReturnFacts
  <2>2. e.conn[1] = m.conn[1]
    BY <1>0, <2>1 DEF OwnConnection
  <2>3. \A n \in net \ {m} : n.conn[1] # m.conn[1]
    BY <1>a, <2>1 DEF Apart
  <2>4. Apart' /\ Own'
    BY <1>a, <2>1, <2>2, <2>3 DEF Apart, Own
  <2>5. \A n \in net' : n.conn[1] \in Request /\ ~(e.caller = Client /\ n.conn[1] = e.conn[1])
    BY <1>0, <2>1, <2>2, <2>3
  <2>6. Asked'
    BY <1>a, <2>1, <2>2, <2>5 DEF Asked
  <2>7. QED
    BY <2>4, <2>6, <1>b
<1>7. ASSUME NEW p \in Peer, NEW m, NEW e, NEW o, Enlists(p, m, e, o) PROVE OneEach'
  <2>1. /\ m \in net /\ m.type = "HASH" /\ e.req = m.req /\ e.conn = m.conn
        /\ o.conn[1] = m.conn[1] /\ (o.type = "HASH" => o.req = m.req)
        /\ net' = (net \ {m}) \cup {o} /\ UNCHANGED answer
        /\ \A q \in Peer : Waiting(q)' = IF q = p THEN Waiting(p) \cup {e} ELSE Waiting(q)
    BY <1>0, <1>7, EnlistFacts
  <2>2. m.req = m.conn[1]
    BY <1>a, <2>1 DEF Asked
  <2>3. \A q \in Peer : \A g \in Waiting(q)' : g.req = g.conn[1]
    BY <1>a, <2>1, <2>2 DEF Own
  <2>4. QED
    BY <1>4, <2>1, <2>2, <2>3
<1>8. ASSUME NEW p \in Peer, NEW m, NEW i, NEW o, Forwards(p, m, i, o) PROVE OneEach'
  <2>0. PICK e, f : e = infoList[p][i] /\ f = Forwarded(e, o.conn)
    OBVIOUS
  <2>1. /\ m \in net /\ o.conn[1] = m.conn[1] /\ o.req = e.req
        /\ e \in Waiting(p) /\ f.req = e.req /\ f.conn = e.conn
        /\ net' = (net \ {m}) \cup {o} /\ UNCHANGED answer
        /\ \A q \in Peer \ {p} : Waiting(q)' = Waiting(q)
        /\ Waiting(p)' \subseteq Waiting(p) \cup {f}
    BY <1>0, <1>8, <2>0, ForwardFacts
  <2>2. e.conn = m.conn
    BY <1>0, <1>8, <2>0, ForwardsRight DEF FoundAt
  <2>3. e.req = e.conn[1]
    BY <1>a, <2>1 DEF Own
  <2>4. \A q \in Peer : \A g \in Waiting(q)' : g.req = g.conn[1]
    BY <1>a, <2>1, <2>3 DEF Own
  <2>5. QED
    BY <1>4, <2>1, <2>2, <2>3, <2>4
<1>9. ASSUME NEW m, NEW o, Passes(m, o) PROVE OneEach'
  <2>1. /\ m \in net /\ o.type # "HASH" /\ o.conn = m.conn
        /\ net' = (net \ {m}) \cup {o} /\ UNCHANGED answer
        /\ \A q \in Peer : Waiting(q)' = Waiting(q)
    BY <1>0, <1>9, PassFacts
  <2>2. QED
    BY <1>4, <1>a, <2>1 DEF Own
<1>10. QED
  BY <1>0, <1>1, <1>2, <1>3, <1>5, <1>6, <1>7, <1>8, <1>9, StepShape

LEMMA KNext == KInv /\ [Next]_vars => KInv'
<1>1. KInv => DInv /\ MP!NInv
  BY DEF KInv
<1>2. QED
  BY <1>1, DNext, MembersNext, OneEachNext, AliveNext DEF KInv

LEMMA KInvariant == Spec => []KInv
BY KInit, KNext, PTL DEF Spec

\* What a request has achieved, of given answers and messages.
Out(ans, msgs, r) ==
  IF ans[r] # None THEN ans[r]
  ELSE IF \E m \in msgs : m.type = "FINAL" /\ m.conn[1] = r
    THEN (CHOOSE m \in msgs : m.type = "FINAL" /\ m.conn[1] = r).res
    ELSE None

LEMMA OutcomeIsOut ==
  /\ outcome = [r \in Request |-> Out(answer, net, r)]
  /\ outcome' = [r \in Request |-> Out(answer', net', r)]
BY DEF outcome, Out

\* With one message for each request the CHOOSE has no choice.
LEMMA OutIs ==
  ASSUME NEW ans, NEW msgs, \A m, n \in msgs : m.conn[1] = n.conn[1] => m = n, NEW r
  PROVE  /\ ans[r] # None => Out(ans, msgs, r) = ans[r]
         /\ \A m \in msgs : ans[r] = None /\ m.type = "FINAL" /\ m.conn[1] = r =>
              Out(ans, msgs, r) = m.res
         /\ (ans[r] = None /\ \A m \in msgs : m.conn[1] = r => m.type # "FINAL") =>
              Out(ans, msgs, r) = None
BY DEF Out

\* The outcome of a request changes only with its answer or its FINAL.
LEMMA OutKept ==
  ASSUME NEW ans, NEW ans2, NEW msgs, NEW msgs2, NEW r, ans2[r] = ans[r],
         \A n : n.type = "FINAL" /\ n.conn[1] = r => (n \in msgs2 <=> n \in msgs)
  PROVE  Out(ans2, msgs2, r) = Out(ans, msgs, r)
<1>1. (\E n \in msgs2 : n.type = "FINAL" /\ n.conn[1] = r)
        <=> (\E n \in msgs : n.type = "FINAL" /\ n.conn[1] = r)
  OBVIOUS
<1>2. (CHOOSE n \in msgs2 : n.type = "FINAL" /\ n.conn[1] = r)
        = (CHOOSE n \in msgs : n.type = "FINAL" /\ n.conn[1] = r)
  <2>1. \A n : (n \in msgs2 /\ n.type = "FINAL" /\ n.conn[1] = r)
               <=> (n \in msgs /\ n.type = "FINAL" /\ n.conn[1] = r)
    OBVIOUS
  <2>2. QED
    BY <2>1
<1>3. QED
  BY <1>1, <1>2 DEF Out

\* Where one peer is in charge of each key the map holds what that peer does.
LEMMA OneInCharge ==
  ASSUME TypeOK, Agreed, NEW k \in Key
  PROVE  \E p \in Peer : p \in started /\ InCharge(p, k) /\ InChargeOf(k) = {p}
<1>1. started \subseteq Peer
  BY DEF TypeOK, M!TypeOK
<1>2. InChargeOf(k) \subseteq Peer /\ IsFiniteSet(InChargeOf(k))
  BY <1>1, PeersAssumption, FS_Subset DEF InChargeOf
<1>3. Cardinality(InChargeOf(k)) = 1
  BY DEF Agreed
<1>4. PICK p : InChargeOf(k) = {p}
  BY <1>2, <1>3, FS_Singleton
<1>5. QED
  BY <1>2, <1>4 DEF InChargeOf

\* What the map holds for k, given who is in charge and their tables.
Held(S, tabs, k) == IF Cardinality(S) = 1 THEN tabs[CHOOSE p \in S : TRUE][k] ELSE None

LEMMA StoreIsHeld ==
  /\ store = [k \in Key |-> Held(InChargeOf(k), hTab, k)]
  /\ store' = [k \in Key |-> Held(InChargeOf(k)', hTab', k)]
BY DEF store, Held

LEMMA HeldByOne ==
  ASSUME NEW p, NEW tabs, NEW k
  PROVE  Held({p}, tabs, k) = tabs[p][k]
BY FS_Singleton DEF Held

LEMMA StoreKept ==
  ASSUME UNCHANGED hTab, \A k \in Key : InChargeOf(k)' = InChargeOf(k)
  PROVE  store' = store
BY StoreIsHeld

LEMMA StoreApplied ==
  ASSUME TypeOK, Agreed, NEW p \in Peer, p \in started, NEW c \in Call, InCharge(p, c.key),
         \A k \in Key : InChargeOf(k)' = InChargeOf(k),
         hTab' = [hTab EXCEPT ![p] = Apply(hTab[p], c)]
  PROVE  store' = Apply(store, c) /\ Result(store, c) = Result(hTab[p], c)
<1>1. c.key \in Key /\ c.op \in {"SET", "GET", "DEL"}
  BY CallParts
<1>2. InChargeOf(c.key) = {p}
  <2>1. p \in InChargeOf(c.key)
    BY DEF InChargeOf
  <2>2. QED
    BY <1>1, <2>1, OneInCharge
<1>3. hTab \in [Peer -> [Key -> Value \cup {None}]]
  BY DEF TypeOK
<1>4. \A k \in Key : store[k] = Held(InChargeOf(k), hTab, k)
                     /\ store'[k] = Held(InChargeOf(k), hTab', k)
  BY StoreIsHeld
<1>5. store = [k \in Key |-> store[k]] /\ store' = [k \in Key |-> store'[k]]
  BY StoreIsHeld
<1>6. \A k \in Key : hTab'[p][k] = Apply(hTab[p], c)[k]
  BY <1>3
<1>7. store[c.key] = hTab[p][c.key] /\ store'[c.key] = Apply(hTab[p], c)[c.key]
  <2>1. /\ Held({p}, hTab, c.key) = hTab[p][c.key]
        /\ Held({p}, hTab', c.key) = hTab'[p][c.key]
    BY HeldByOne
  <2>2. QED
    BY <1>1, <1>2, <1>4, <1>6, <2>1
<1>8. ASSUME NEW k \in Key, k # c.key PROVE store'[k] = store[k]
  <2>1. PICK q \in Peer : InChargeOf(k) = {q}
    BY OneInCharge
  <2>2. store[k] = hTab[q][k] /\ store'[k] = hTab'[q][k]
    <3>1. Held({q}, hTab, k) = hTab[q][k] /\ Held({q}, hTab', k) = hTab'[q][k]
      BY HeldByOne
    <3>2. QED
      BY <1>4, <2>1, <3>1
  <2>3. hTab'[q][k] = hTab[q][k]
    <3>1. q = p => hTab'[q][k] = Apply(hTab[p], c)[k] /\ Apply(hTab[p], c)[k] = hTab[p][k]
      BY <1>3, <1>6, <1>8, TableType
    <3>2. q # p => hTab'[q] = hTab[q]
      BY <1>3
    <3>3. QED
      BY <3>1, <3>2
  <2>4. QED
    BY <2>2, <2>3
<1>9. Result(store, c) = Result(hTab[p], c)
  BY <1>7 DEF Result
<1>10. \A k \in Key : Apply(store, c)[k] = IF k = c.key THEN Apply(hTab[p], c)[k] ELSE store[k]
  BY <1>1, <1>3, <1>5, <1>7 DEF Apply
<1>11. Apply(store, c) = [k \in Key |-> Apply(store, c)[k]]
  BY <1>1, <1>5 DEF Apply
<1> HIDE DEF Apply
<1>12. store' = Apply(store, c)
  BY <1>5, <1>7, <1>8, <1>10, <1>11
<1>13. QED
  BY <1>9, <1>12

LEMMA SameTableOps ==
  /\ KV!Call = Call
  /\ \A tab, c : KV!Apply(tab, c) = Apply(tab, c) /\ KV!Result(tab, c) = Result(tab, c)
BY DEF KV!Call, KV!Apply, KV!Result, Call, Apply, Result

\* Between agreed states without confusion, with nothing else to assume.
Mapped ==
  /\ KInv /\ KInv' /\ clash = {} /\ clash' = {} /\ Agreed
  /\ \A k \in Key : InChargeOf(k)' = InChargeOf(k)

LEMMA OneUnderWay ==
  ASSUME Mapped
  PROVE  /\ \A m, n \in net : m.conn[1] = n.conn[1] => m = n
         /\ \A m, n \in net' : m.conn[1] = n.conn[1] => m = n
         /\ \A m \in net : answer[m.conn[1]] = None
         /\ TInv /\ TypeOK /\ TypeOK'
BY DEF Mapped, KInv, OneEach, DInv, AInv, TInv

LEMMA AnswerSet ==
  ASSUME TypeOK, TypeOK', NEW x \in Request, NEW res,
         \A r \in Request : answer'[r] = IF r = x THEN res ELSE answer[r]
  PROVE  answer' = [answer EXCEPT ![x] = res]
BY DEF TypeOK

LEMMA AnswerKept ==
  ASSUME TypeOK, TypeOK', \A r \in Request : answer'[r] = answer[r]
  PROVE  answer' = answer
BY DEF TypeOK

\* Requests that are neither executed nor answered leave the map alone.
LEMMA KVFramed ==
  ASSUME Mapped, UNCHANGED <<hTab, answer>>,
         \A n : n.type = "FINAL" => (n \in net' <=> n \in net)
  PROVE  UNCHANGED <<store, outcome>>
<1>1. store' = store
  BY StoreKept DEF Mapped
<1>2. \A r \in Request : Out(answer', net', r) = Out(answer, net, r)
  BY OutKept
<1>3. QED
  BY <1>1, <1>2, OutcomeIsOut

LEMMA ExecutesCommits ==
  ASSUME Mapped, NEW p \in Peer, NEW m, NEW F, Executes(p, m, F)
  PROVE  m.req \in Request /\ (KV!Commit(m.req) \/ KV!CommitAndReply(m.req))
<1>0. PICK c, res : c = call[m.req] /\ res = Result(hTab[p], c)
  OBVIOUS
<1>a. TInv /\ TypeOK /\ TypeOK'
  BY OneUnderWay
<1>1. /\ m \in net /\ m.type = "HASH" /\ m.to = p /\ m.req \in Request /\ c \in Call
      /\ net' = (net \ {m}) \cup F /\ UNCHANGED call
      /\ \A f \in F : f.type = "FINAL" /\ f.conn = m.conn /\ f.res = res
      /\ F = {} <=> m.from = Client
      /\ \A x \in Request : answer'[x] =
            IF m.from = Client /\ x = m.conn[1] THEN res ELSE answer[x]
      /\ hTab[p] \in [Key -> Value \cup {None}]
  BY <1>0, <1>a, ExecuteFacts
<1>2. m.req = m.conn[1] /\ answer[m.req] = None /\ p \in started
  BY <1>1 DEF Mapped, KInv, OneEach, Alive
<1>3. PICK r \in Request : r = m.req
  BY <1>1
<1>4. /\ \A n \in net \ {m} : n.conn[1] # r
      /\ \A n \in net : n.conn[1] = r => n.type # "FINAL"
  BY <1>1, <1>2, <1>3, OneUnderWay
<1>5. InCharge(p, c.key) /\ hTab' = [hTab EXCEPT ![p] = Apply(hTab[p], c)]
  BY <1>0 DEF Executes, InCharge, IDOf
<1>6. store' = Apply(store, c) /\ Result(store, c) = res
  BY <1>0, <1>a, <1>1, <1>2, <1>5, StoreApplied DEF Mapped
<1>7. res # None /\ c # None
  BY <1>0, <1>1, ApplyAndResult, CallParts
<1>8. Out(answer, net, r) = None
  BY <1>2, <1>3, <1>4, OneUnderWay, OutIs
<1>9. \A x \in Request : x # r => Out(answer', net', x) = Out(answer, net, x)
  <2> SUFFICES ASSUME NEW x \in Request, x # r
               PROVE  Out(answer', net', x) = Out(answer, net, x)
    OBVIOUS
  <2>1. answer'[x] = answer[x]
    BY <1>1, <1>2, <1>3
  <2>2. \A n : n.type = "FINAL" /\ n.conn[1] = x => (n \in net' <=> n \in net)
    BY <1>1, <1>2, <1>3
  <2>3. QED
    BY <2>1, <2>2, OutKept
<1>10. Out(answer', net', r) = res
  <2>1. CASE m.from = Client
    <3>1. answer'[r] = res
      BY <1>1, <1>2, <1>3, <2>1
    <3>2. QED
      BY <1>7, <3>1, OneUnderWay, OutIs
  <2>2. CASE m.from # Client
    <3>1. PICK f \in F : f.type = "FINAL" /\ f.conn = m.conn /\ f.res = res
      BY <1>1, <2>2
    <3>2. f \in net' /\ f.conn[1] = r /\ answer'[r] = None
      BY <1>1, <1>2, <1>3, <2>2, <3>1
    <3>3. QED
      BY <3>1, <3>2, OneUnderWay, OutIs
  <2>3. QED
    BY <2>1, <2>2
<1>11. outcome' = [outcome EXCEPT ![r] = res] /\ outcome[r] = None
  BY <1>8, <1>9, <1>10, OutcomeIsOut
<1>12. KV!TakeEffect(r)
  BY <1>0, <1>3, <1>6, <1>7, <1>11, SameTableOps DEF KV!TakeEffect
<1>13. CASE m.from = Client
  <2>1. answer' = [answer EXCEPT ![r] = res]
    BY <1>a, <1>1, <1>2, <1>3, <1>13, AnswerSet
  <2>2. QED
    BY <1>0, <1>1, <1>3, <1>6, <1>12, <2>1, SameTableOps DEF KV!CommitAndReply
<1>14. CASE m.from # Client
  <2>1. answer' = answer
    BY <1>a, <1>1, <1>14, AnswerKept
  <2>2. QED
    BY <1>1, <1>3, <1>12, <2>1 DEF KV!Commit
<1>15. QED
  BY <1>1, <1>13, <1>14

LEMMA ReturnsReplies ==
  ASSUME Mapped, NEW p \in Peer, NEW m, NEW i, NEW F, Returns(p, m, i, F)
  PROVE  (\E r \in Request : KV!Reply(r)) \/ UNCHANGED KV!kvVars
<1>0. PICK e : e = infoList[p][i]
  OBVIOUS
<1>a. TInv /\ TypeOK /\ TypeOK'
  BY OneUnderWay
<1>1. /\ m \in net /\ m.type = "FINAL" /\ e \in Waiting(p) /\ e.final = m.conn /\ e.final # None
      /\ net' = (net \ {m}) \cup F /\ UNCHANGED <<hTab, call>>
      /\ \A f \in F : f.type = "FINAL" /\ f.conn = e.conn /\ f.res = m.res
      /\ F = {} <=> e.caller = Client
      /\ \A x \in Request : answer'[x] =
            IF e.caller = Client /\ x = e.conn[1] THEN m.res ELSE answer[x]
      /\ e.conn[1] \in Request
  BY <1>0, <1>a, ReturnFacts
<1>2. e.conn[1] = m.conn[1]
  BY <1>1 DEF Mapped, KInv, DInv, OwnConnection
<1>3. PICK r \in Request : r = m.conn[1]
  BY <1>1, <1>2
<1>4. m.res # None /\ answer[r] = None /\ \A n \in net \ {m} : n.conn[1] # r
  <2>1. m.res \in Response
    BY <1>a, <1>1, MessageParts
  <2>2. QED
    BY <1>1, <1>3, <2>1, OneUnderWay, RequestAssumption
<1>5. store' = store
  BY <1>1, StoreKept DEF Mapped
<1>6. Out(answer, net, r) = m.res
  BY <1>1, <1>3, <1>4, OneUnderWay, OutIs
<1>7. \A x \in Request : x # r => Out(answer', net', x) = Out(answer, net, x)
  <2> SUFFICES ASSUME NEW x \in Request, x # r
               PROVE  Out(answer', net', x) = Out(answer, net, x)
    OBVIOUS
  <2>1. answer'[x] = answer[x]
    BY <1>1, <1>2, <1>3
  <2>2. \A n : n.type = "FINAL" /\ n.conn[1] = x => (n \in net' <=> n \in net)
    BY <1>1, <1>2, <1>3
  <2>3. QED
    BY <2>1, <2>2, OutKept
<1>8. Out(answer', net', r) = m.res
  <2>1. CASE e.caller = Client
    <3>1. answer'[r] = m.res
      BY <1>1, <1>2, <1>3, <2>1
    <3>2. QED
      BY <1>4, <3>1, OneUnderWay, OutIs
  <2>2. CASE e.caller # Client
    <3>1. PICK f \in F : f.type = "FINAL" /\ f.conn = e.conn /\ f.res = m.res
      BY <1>1, <2>2
    <3>2. f \in net' /\ f.conn[1] = r /\ answer'[r] = None
      BY <1>1, <1>2, <1>3, <1>4, <2>2, <3>1
    <3>3. QED
      BY <3>1, <3>2, OneUnderWay, OutIs
  <2>3. QED
    BY <2>1, <2>2
<1>9. outcome' = outcome /\ outcome[r] = m.res
  BY <1>6, <1>7, <1>8, OutcomeIsOut
<1>10. CASE e.caller = Client
  <2>1. answer' = [answer EXCEPT ![r] = m.res]
    BY <1>a, <1>1, <1>2, <1>3, <1>10, AnswerSet
  <2>2. KV!Reply(r)
    BY <1>1, <1>4, <1>5, <1>9, <2>1 DEF KV!Reply
  <2>3. QED
    BY <2>2
<1>11. CASE e.caller # Client
  <2>1. answer' = answer
    BY <1>a, <1>1, <1>11, AnswerKept
  <2>2. QED
    BY <1>1, <1>5, <1>9, <2>1 DEF KV!kvVars
<1>12. QED
  BY <1>10, <1>11

LEMMA StepMaps ==
  ASSUME Mapped, [Next]_vars
  PROVE  KV!KVNext \/ UNCHANGED KV!kvVars
<1>0. TInv /\ TypeOK
  BY OneUnderWay
<1>1. CASE Rests
  BY <1>1, KVFramed DEF Rests, KV!kvVars
<1>2. ASSUME NEW r \in Request, NEW c, NEW h, Sends(r, c, h) PROVE KV!KVNext
  <2>1. /\ c \in Call /\ call[r] = None /\ call' = [call EXCEPT ![r] = c]
        /\ h.type = "HASH" /\ net' = net \cup {h} /\ UNCHANGED <<hTab, answer>>
    BY <1>2 DEF Sends
  <2>2. UNCHANGED <<store, outcome>>
    BY <2>1, KVFramed
  <2>3. KV!Invoke(r)
    BY <2>1, <2>2, SameTableOps DEF KV!Invoke
  <2>4. QED
    BY <2>3 DEF KV!KVNext
<1>3. ASSUME NEW p \in Peer, NEW m, NEW F, Executes(p, m, F) PROVE KV!KVNext
  BY <1>3, ExecutesCommits DEF KV!KVNext
<1>4. ASSUME NEW m, NEW o, m.type # "FINAL", o.type # "FINAL", net' = (net \ {m}) \cup {o},
             UNCHANGED <<hTab, call, answer>>
      PROVE  UNCHANGED KV!kvVars
  BY <1>4, KVFramed DEF KV!kvVars
<1>5. ASSUME NEW m, Drops(m) PROVE UNCHANGED KV!kvVars
  <2>1. m.type # "FINAL"
    BY <1>5, DroppedFor DEF Mapped, KInv
  <2>2. net' = net \ {m} /\ UNCHANGED <<hTab, call, answer>>
    BY <1>5, DropFacts
  <2>3. QED
    BY <2>1, <2>2, KVFramed DEF KV!kvVars
<1>6. ASSUME NEW p \in Peer, NEW m, NEW i, NEW F, Returns(p, m, i, F)
      PROVE  KV!KVNext \/ UNCHANGED KV!kvVars
  BY <1>6, ReturnsReplies DEF KV!KVNext
<1>7. ASSUME NEW p \in Peer, NEW m, NEW e, NEW o, Enlists(p, m, e, o) PROVE UNCHANGED KV!kvVars
  BY <1>4, <1>7 DEF Enlists
<1>8. ASSUME NEW p \in Peer, NEW m, NEW i, NEW o, Forwards(p, m, i, o)
      PROVE  UNCHANGED KV!kvVars
  BY <1>4, <1>8 DEF Forwards
<1>9. ASSUME NEW m, NEW o, Passes(m, o) PROVE UNCHANGED KV!kvVars
  BY <1>4, <1>9 DEF Passes
<1>10. QED
  BY <1>0, <1>1, <1>2, <1>3, <1>5, <1>6, <1>7, <1>8, <1>9, StepShape

\* While the ring grows it is one linearizable map in every step that moves no
\* key and finds one peer in charge of each, whatever stage the joins are at:
\* what peers kept of keys they have lost is never served, and a request takes
\* effect once, before it is answered.
THEOREM OneMapWhenAgreed == Spec => ImplementsWhenAgreed
<1>1. KInv /\ KInv' /\ [Next]_vars =>
        [Agreed /\ Agreed' /\ (\A k \in Key : InChargeOf(k)' = InChargeOf(k)) /\ clash' = {}
           => KV!KVNext]_(KV!kvVars)
  <2> SUFFICES ASSUME KInv, KInv', [Next]_vars, Agreed, clash' = {},
                      \A k \in Key : InChargeOf(k)' = InChargeOf(k)
               PROVE  KV!KVNext \/ UNCHANGED KV!kvVars
    OBVIOUS
  <2>1. clash = {}
    BY Histories DEF KInv, DInv, AInv
  <2>2. Mapped
    BY <2>1 DEF Mapped
  <2>3. QED
    BY <2>2, StepMaps
<1>2. QED
  BY <1>1, KInvariant, PTL DEF Spec, ImplementsWhenAgreed
=============================================================================
