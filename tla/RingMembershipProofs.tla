------------------------ MODULE RingMembershipProofs ------------------------
(***************************************************************************)
(* For every set of node IDs, any number of stabilizing rounds and joins   *)
(* at any time: the types, PrevNarrows, and that no peer becomes its own   *)
(* neighbour.  For peers that come one after the other, with one round of  *)
(* each at a time: NobodyPassedOver and NextNarrows.                       *)
(***************************************************************************)
EXTENDS RingMembership, FiniteSetTheorems, TLAPS

\* A peer that passes a JOIN on has a successor to pass it to.
LEMMA ForwardHasNext ==
  ASSUME NEW node, NEW prev, NEW caller,
         checkJoinPeer(node, prev, unknown, caller) = unknownPeer
  PROVE  FALSE
BY DEF checkJoinPeer, thisPeer, unknownPeer

LEMMA TypeInit == Init => TypeOK
BY DEF Init, TypeOK

LEMMA TypeStart ==
  ASSUME TypeOK, NEW p \in Peer, StartFounder(p) \/ StartJoiner(p)
  PROVE  TypeOK'
BY DEF TypeOK, StartFounder, StartJoiner, Message, Members

LEMMA TypeStabilize ==
  ASSUME TypeOK, NEW p \in Peer, Stabilize(p)
  PROVE  TypeOK'
BY DEF TypeOK, Stabilize, Message

LEMMA TypeHandleStabilize ==
  ASSUME TypeOK, NEW p \in Peer, NEW m \in net, HandleStabilize(p, m)
  PROVE  TypeOK'
<1>1. m.caller \in Peer /\ m.slot \in 1..MaxRounds
  BY DEF TypeOK, HandleStabilize, Message
<1>2. prevID' \in [Peer -> Peer \cup {unknown}] /\ prevID'[p] \in Peer
  BY <1>1 DEF TypeOK, HandleStabilize
<1>3. [type |-> "NOTIFY", id |-> prevID'[p], to |-> m.caller, slot |-> m.slot] \in Message
  BY <1>1, <1>2, RoundsAssumption DEF Message
<1>4. QED
  BY <1>2, <1>3 DEF TypeOK, HandleStabilize

LEMMA TypeHandleNotify ==
  ASSUME TypeOK, NEW p \in Peer, NEW m \in net, HandleNotify(p, m)
  PROVE  TypeOK'
<1>1. m.id \in Peer
  BY DEF TypeOK, HandleNotify, Message
<1>2. QED
  BY <1>1 DEF TypeOK, HandleNotify

LEMMA TypeJoin ==
  ASSUME TypeOK, NEW p \in Peer, NEW m \in net, JoinHere(p, m) \/ JoinOn(p, m)
  PROVE  TypeOK'
<1>1. m.caller \in Peer /\ m = [type |-> "JOIN", caller |-> m.caller, to |-> p]
  BY DEF TypeOK, JoinHere, JoinOn, Message
<1>2. CASE JoinHere(p, m)
  <2>1. [type |-> "NOTIFY", id |-> p, to |-> m.caller, slot |-> 0] \in Message
    BY <1>1, RoundsAssumption DEF Message
  <2>2. QED
    BY <1>1, <1>2, <2>1 DEF TypeOK, JoinHere
<1>3. CASE JoinOn(p, m)
  <2>1. nextID[p] \in Peer
    BY <1>3, ForwardHasNext DEF TypeOK, JoinOn
  <2>2. [m EXCEPT !.to = nextID[p]] \in Message
    BY <1>1, <2>1 DEF Message
  <2>3. QED
    BY <1>3, <2>2 DEF TypeOK, JoinOn
<1>4. QED
  BY <1>2, <1>3

LEMMA TypeNext == TypeOK /\ [Next]_vars => TypeOK'
<1> SUFFICES ASSUME TypeOK, [Next]_vars PROVE TypeOK'
  OBVIOUS
<1>1. CASE UNCHANGED vars
  BY <1>1 DEF TypeOK, vars
<1>2. ASSUME NEW p \in Peer, StartFounder(p) \/ StartJoiner(p) \/ Stabilize(p)
      PROVE  TypeOK'
  BY <1>2, TypeStart, TypeStabilize
<1>3. ASSUME NEW p \in Peer, NEW m \in net, Handle(p, m) PROVE TypeOK'
  BY <1>3, TypeHandleStabilize, TypeHandleNotify, TypeJoin DEF Handle
<1>4. QED
  BY <1>1, <1>2, <1>3 DEF Next

\* Neighbours are peers or unknown, and every message names peers: a JOIN is
\* never sent on to nowhere and a NOTIFY never carries an unknown predecessor
\* (peer.c, STABILIZE sets prevID before it answers).
THEOREM TypeCorrect == Spec => []TypeOK
BY TypeInit, TypeNext, PTL DEF Spec

-----------------------------------------------------------------------------
\* checkJoinPeer accepts only callers between the predecessor and the peer, as
\* soon as the peer knows both its neighbours, and only above the predecessor.
LEMMA AcceptedIsBetween ==
  ASSUME NEW p \in Peer, NEW prev \in Peer, NEW next \in Peer, NEW caller \in Peer,
         checkJoinPeer(p, prev, next, caller) = thisPeer
  PROVE  caller > prev /\ Between(prev, caller, p)
<1>1. p \in Nat /\ prev \in Nat /\ next \in Nat /\ caller \in Nat /\ next # unknown
  BY IDAssumption
<1>2. QED
  BY <1>1 DEF checkJoinPeer, thisPeer, unknownPeer, Between

LEMMA PrevStep ==
  ASSUME TypeOK, [Next]_vars, NEW p \in Peer,
         prevID'[p] # prevID[p], prevID[p] # unknown, nextID[p] # unknown
  PROVE  prevID'[p] > prevID[p] /\ Between(prevID[p], prevID'[p], p)
<1>1. PICK q \in Peer, m \in net : HandleStabilize(q, m) \/ JoinHere(q, m)
  BY DEF Next, Handle, vars, StartFounder, StartJoiner, Stabilize, HandleNotify, JoinOn
<1>2. CASE HandleStabilize(q, m)
  BY <1>2 DEF HandleStabilize, TypeOK
<1>3. CASE JoinHere(q, m)
  <2>1. q = p /\ prevID'[p] = m.caller /\ m.caller \in Peer
    BY <1>3 DEF JoinHere, TypeOK, Message
  <2>2. prevID[p] \in Peer /\ nextID[p] \in Peer
    BY DEF TypeOK
  <2>3. QED
    BY <1>3, <2>1, <2>2, AcceptedIsBetween DEF JoinHere
<1>4. QED
  BY <1>1, <1>2, <1>3

\* A neighbour once known stays known.
LEMMA StaysKnown ==
  ASSUME TypeOK, [Next]_vars, NEW p \in Peer
  PROVE  /\ nextID[p] # unknown => nextID'[p] # unknown
         /\ prevID[p] # unknown => prevID'[p] # unknown
<1>1. \A m \in net : /\ m.type = "NOTIFY" => m.id # unknown
                     /\ m.type \in {"JOIN", "STABILIZE"} => m.caller # unknown
  BY IDAssumption DEF TypeOK, Message
<1>2. ASSUME NEW q \in Peer, NEW m \in net, Handle(q, m)
      PROVE  /\ nextID[p] # unknown => nextID'[p] # unknown
             /\ prevID[p] # unknown => prevID'[p] # unknown
  BY <1>1, <1>2 DEF Handle, HandleStabilize, HandleNotify, JoinHere, JoinOn, TypeOK
<1>3. QED
  BY <1>2 DEF Next, vars, StartFounder, StartJoiner, Stabilize

\* However joins, stabilizing rounds and messages interleave, the keys a peer
\* with two neighbours claims only ever shrink (peer.c:511 and dht.c:57).
THEOREM PrevOnlyNarrows == Spec => PrevNarrows
<1>1. TypeOK /\ [Next]_vars =>
        [\A p \in Peer :
           prevID'[p] # prevID[p] /\ prevID[p] # unknown /\ nextID[p] # unknown =>
             Between(prevID[p], prevID'[p], p)]_vars
  BY PrevStep
<1>2. QED
  BY <1>1, TypeCorrect, PTL DEF Spec, PrevNarrows

-----------------------------------------------------------------------------
(* No peer becomes its own neighbour.  A JOIN travels among peers that have *)
(* no connection with its caller: while it is under way, somewhere between  *)
(* the caller and the peer that holds the JOIN the peers fall in two parts  *)
(* and no neighbour and no message of one part is in the other.             *)

Isolated(S, c) ==
  /\ \A u \in Peer : /\ nextID[u] # unknown => (u \in S <=> nextID[u] \in S)
                     /\ prevID[u] # unknown => (u \in S <=> prevID[u] \in S)
  /\ \A n \in net : /\ n.type = "NOTIFY" => (n.to \in S <=> n.id \in S)
                    /\ n.type = "STABILIZE" => (n.to \in S <=> n.caller \in S)
                    /\ n.type = "JOIN" /\ n.caller # c => (n.to \in S <=> n.caller \in S)

Apart == \A m \in net : m.type = "JOIN" =>
  \E S \in SUBSET started : m.caller \in S /\ m.to \notin S /\ Isolated(S, m.caller)

OneJoin == \A m, n \in net :
  m.type = "JOIN" /\ n.type = "JOIN" /\ m.caller = n.caller => m = n

\* Only peers that run are known or have sent something.
OnlyStarted ==
  /\ \A p \in Peer : /\ nextID[p] # unknown => p \in started /\ nextID[p] \in started
                     /\ prevID[p] # unknown => p \in started /\ prevID[p] \in started
  /\ \A m \in net : /\ m.to \in started
                    /\ m.type \in {"JOIN", "STABILIZE"} => m.caller \in started
                    /\ m.type = "NOTIFY" => m.id \in started

NotToSelf == \A m \in net : m.type = "STABILIZE" => m.caller # m.to

NInv == TypeOK /\ OnlyStarted /\ OneJoin /\ Apart /\ NotToSelf /\ NeverOwnNeighbour

LEMMA MessageFields ==
  ASSUME TypeOK, NEW m \in net
  PROVE  /\ m.to \in Peer /\ m.type \in {"JOIN", "STABILIZE", "NOTIFY"}
         /\ m.type \in {"JOIN", "STABILIZE"} => m.caller \in Peer
         /\ m.type = "NOTIFY" => m.id \in Peer
         /\ m.type = "JOIN" => m = [type |-> "JOIN", caller |-> m.caller, to |-> m.to]
BY DEF TypeOK, Message

LEMMA NotUnknown == \A p \in Peer : p # unknown
BY IDAssumption

LEMMA NInit == Init => NInv
<1> SUFFICES ASSUME Init PROVE NInv
  OBVIOUS
<1>1. TypeOK
  BY TypeInit
<1>2. QED
  BY <1>1, NotUnknown DEF Init, NInv, OnlyStarted, OneJoin, Apart, NotToSelf, NeverOwnNeighbour

\* A step that keeps the JOINs as they are, and every part apart, keeps them
\* apart from their callers.
LEMMA ApartKept ==
  ASSUME Apart, started \subseteq started',
         \A m \in net' : m.type = "JOIN" => m \in net,
         \A m \in net : \A S \in SUBSET started :
           m.type = "JOIN" /\ m.caller \in S /\ m.to \notin S /\ Isolated(S, m.caller)
             => Isolated(S, m.caller)'
  PROVE  Apart'
BY DEF Apart

LEMMA NStart ==
  ASSUME NInv, NEW p \in Peer, StartFounder(p) \/ StartJoiner(p)
  PROVE  NInv'
<1>1. UNCHANGED <<prevID, nextID>> /\ started' = started \cup {p} /\ p \notin started
  BY DEF StartFounder, StartJoiner
<1>2. TypeOK'
  BY TypeStart DEF NInv
<1>3. PICK J : /\ net' = net \cup J
               /\ \/ J = {}
                  \/ \E f \in started : J = {[type |-> "JOIN", caller |-> p, to |-> f]}
  <2>1. CASE StartFounder(p)
    BY <2>1 DEF StartFounder
  <2>2. CASE StartJoiner(p)
    BY <2>2 DEF StartJoiner, Members
  <2>3. QED
    BY <2>1, <2>2
<1>4. \A n \in J : n.type = "JOIN" /\ n.caller = p /\ n.to \in started /\ n.to # p
  BY <1>1, <1>3
<1>5. /\ \A u \in Peer : /\ nextID[u] # unknown => u # p /\ nextID[u] # p
                         /\ prevID[u] # unknown => u # p /\ prevID[u] # p
      /\ \A n \in net : /\ n.to # p
                        /\ n.type \in {"JOIN", "STABILIZE"} => n.caller # p
                        /\ n.type = "NOTIFY" => n.id # p
  BY <1>1 DEF NInv, OnlyStarted
<1>6. OnlyStarted'
  BY <1>1, <1>3, <1>4 DEF NInv, OnlyStarted
<1>7. OneJoin'
  BY <1>3, <1>4, <1>5 DEF NInv, OneJoin
<1>8. NotToSelf' /\ NeverOwnNeighbour'
  BY <1>1, <1>3, <1>4 DEF NInv, NotToSelf, NeverOwnNeighbour
<1>9. Apart'
  <2> SUFFICES ASSUME NEW m \in net', m.type = "JOIN"
               PROVE  \E S \in SUBSET started' :
                        m.caller \in S /\ m.to \notin S /\ Isolated(S, m.caller)'
    BY DEF Apart
  <2>1. CASE m \in J
    <3>1. Isolated({p}, p)'
      BY <1>1, <1>3, <1>4, <1>5 DEF Isolated
    <3>2. QED
      BY <1>1, <1>4, <2>1, <3>1
  <2>2. CASE m \in net
    <3>1. PICK S \in SUBSET started : m.caller \in S /\ m.to \notin S /\ Isolated(S, m.caller)
      BY <2>2 DEF NInv, Apart
    <3> DEFINE T == IF \E n \in J : n.to \in S THEN S \cup {p} ELSE S
    <3>2. T \in SUBSET started' /\ m.caller \in T /\ m.to \notin T
      BY <1>1, <1>5, <2>2, <3>1
    <3>3. p \notin S /\ \A x : x # p => (x \in T <=> x \in S)
      BY <1>1
    <3>4. \A n \in J : n.to \in T <=> n.caller \in T
      BY <1>3, <1>4, <3>3
    <3> HIDE DEF T
    <3>5. Isolated(T, m.caller)'
      BY <1>1, <1>3, <1>4, <1>5, <3>1, <3>3, <3>4, MessageFields DEF Isolated, NInv
    <3>6. QED
      BY <3>2, <3>5
  <2>3. QED
    BY <1>3, <2>1, <2>2
<1>10. QED
  BY <1>2, <1>6, <1>7, <1>8, <1>9 DEF NInv

LEMMA NStabilize ==
  ASSUME NInv, NEW p \in Peer, Stabilize(p)
  PROVE  NInv'
<1>1. PICK s \in 1..MaxRounds :
        net' = net \cup {[type |-> "STABILIZE", caller |-> p, to |-> nextID[p], slot |-> s]}
  BY DEF Stabilize
<1>2. UNCHANGED <<started, prevID, nextID>> /\ nextID[p] # unknown /\ p \in started
  BY DEF Stabilize
<1>3. TypeOK'
  BY TypeStabilize DEF NInv
<1> DEFINE o == [type |-> "STABILIZE", caller |-> p, to |-> nextID[p], slot |-> s]
<1>4. o.type = "STABILIZE" /\ o.caller = p /\ o.to = nextID[p] /\ net' = net \cup {o}
  BY <1>1
<1> HIDE DEF o
<1>5. OnlyStarted' /\ OneJoin' /\ NotToSelf' /\ NeverOwnNeighbour'
  BY <1>2, <1>4 DEF NInv, OnlyStarted, OneJoin, NotToSelf, NeverOwnNeighbour
<1>6. \A S, c : Isolated(S, c) => Isolated(S, c)'
  BY <1>2, <1>4 DEF Isolated
<1>7. Apart'
  BY <1>2, <1>4, <1>6, ApartKept DEF NInv
<1>8. QED
  BY <1>3, <1>5, <1>7 DEF NInv

LEMMA NHandleStabilize ==
  ASSUME NInv, NEW p \in Peer, NEW m \in net, HandleStabilize(p, m)
  PROVE  NInv'
<1> DEFINE o == [type |-> "NOTIFY", id |-> prevID'[p], to |-> m.caller, slot |-> m.slot]
<1>1. m.type = "STABILIZE" /\ m.to = p /\ m.caller \in Peer /\ m.caller # p
      /\ m.caller \in started /\ p \in started /\ m.caller # unknown
  BY MessageFields, NotUnknown DEF HandleStabilize, NInv, OnlyStarted, NotToSelf
<1>2. prevID \in [Peer -> Peer \cup {unknown}]
  BY DEF NInv, TypeOK
<1>3. /\ \A u \in Peer : prevID'[u] = IF u = p /\ prevID[u] = unknown THEN m.caller ELSE prevID[u]
      /\ UNCHANGED <<started, nextID>>
  BY <1>1, <1>2 DEF HandleStabilize
<1>4. o.type = "NOTIFY" /\ o.id = prevID'[p] /\ o.to = m.caller /\ net' = (net \ {m}) \cup {o}
  BY DEF HandleStabilize
<1> HIDE DEF o
<1>5. TypeOK'
  BY TypeHandleStabilize DEF NInv
<1>6. OnlyStarted'
  BY <1>1, <1>3, <1>4 DEF NInv, OnlyStarted
<1>7. OneJoin' /\ NotToSelf'
  BY <1>4 DEF NInv, OneJoin, NotToSelf
<1>8. NeverOwnNeighbour'
  BY <1>1, <1>3 DEF NInv, NeverOwnNeighbour
<1>9. \A S, c : Isolated(S, c) => Isolated(S, c)'
  <2> SUFFICES ASSUME NEW S, NEW c, Isolated(S, c) PROVE Isolated(S, c)'
    OBVIOUS
  <2>1. p \in S <=> m.caller \in S
    BY <1>1 DEF Isolated
  <2>2. p \in S <=> prevID'[p] \in S
    BY <1>1, <1>3, <2>1 DEF Isolated
  <2>3. QED
    BY <1>3, <1>4, <2>1, <2>2 DEF Isolated
<1>10. Apart'
  BY <1>3, <1>4, <1>9, ApartKept DEF NInv
<1>11. QED
  BY <1>5, <1>6, <1>7, <1>8, <1>10 DEF NInv

LEMMA NHandleNotify ==
  ASSUME NInv, NEW p \in Peer, NEW m \in net, HandleNotify(p, m)
  PROVE  NInv'
<1>1. m.type = "NOTIFY" /\ m.to = p /\ m.id \in Peer /\ m.id \in started /\ p \in started
      /\ m.id # unknown
  BY MessageFields, NotUnknown DEF HandleNotify, NInv, OnlyStarted
<1>2. nextID \in [Peer -> Peer \cup {unknown}]
  BY DEF NInv, TypeOK
<1>3. /\ \A u \in Peer : nextID'[u] = nextID[u] \/ (u = p /\ nextID'[u] = m.id /\ m.id # p)
      /\ UNCHANGED <<started, prevID>> /\ net' = net \ {m}
  BY <1>1, <1>2, IDAssumption DEF HandleNotify
<1>4. TypeOK'
  BY TypeHandleNotify DEF NInv
<1>5. OnlyStarted'
  BY <1>1, <1>3 DEF NInv, OnlyStarted
<1>6. OneJoin' /\ NotToSelf' /\ NeverOwnNeighbour'
  BY <1>3 DEF NInv, OneJoin, NotToSelf, NeverOwnNeighbour
<1>7. \A S, c : Isolated(S, c) => Isolated(S, c)'
  BY <1>1, <1>3 DEF Isolated
<1>8. Apart'
  BY <1>3, <1>7, ApartKept DEF NInv
<1>9. QED
  BY <1>4, <1>5, <1>6, <1>8 DEF NInv

LEMMA NJoinHere ==
  ASSUME NInv, NEW p \in Peer, NEW m \in net, JoinHere(p, m)
  PROVE  NInv'
<1> DEFINE o == [type |-> "NOTIFY", id |-> p, to |-> m.caller, slot |-> 0]
<1>1. m.type = "JOIN" /\ m.to = p /\ m.caller \in Peer
      /\ m.caller \in started /\ p \in started /\ m.caller # unknown
  BY MessageFields, NotUnknown DEF JoinHere, NInv, OnlyStarted
<1>2. m.caller # p
  BY <1>1 DEF NInv, Apart
<1>3. /\ \A u \in Peer : prevID'[u] = IF u = p THEN m.caller ELSE prevID[u]
      /\ \A u \in Peer : nextID'[u] = IF u = p /\ nextID[u] = unknown THEN m.caller ELSE nextID[u]
      /\ UNCHANGED started
  BY <1>1 DEF JoinHere, NInv, TypeOK
<1>4. o.type = "NOTIFY" /\ o.id = p /\ o.to = m.caller /\ net' = (net \ {m}) \cup {o}
  BY DEF JoinHere
<1> HIDE DEF o
<1>5. TypeOK'
  BY TypeJoin DEF NInv
<1>6. OnlyStarted'
  BY <1>1, <1>3, <1>4 DEF NInv, OnlyStarted
<1>7. OneJoin' /\ NotToSelf'
  BY <1>4 DEF NInv, OneJoin, NotToSelf
<1>8. NeverOwnNeighbour'
  BY <1>2, <1>3 DEF NInv, NeverOwnNeighbour
<1>9. \A S, c : c # m.caller /\ Isolated(S, c) => Isolated(S, c)'
  <2> SUFFICES ASSUME NEW S, NEW c, c # m.caller, Isolated(S, c) PROVE Isolated(S, c)'
    OBVIOUS
  <2>1. p \in S <=> m.caller \in S
    BY <1>1 DEF Isolated
  <2>2. QED
    BY <1>1, <1>3, <1>4, <2>1 DEF Isolated
<1>10. Apart'
  <2> SUFFICES ASSUME NEW n \in net', n.type = "JOIN"
               PROVE  \E S \in SUBSET started' :
                        n.caller \in S /\ n.to \notin S /\ Isolated(S, n.caller)'
    BY DEF Apart
  <2>1. n \in net /\ n.caller # m.caller
    BY <1>1, <1>4 DEF NInv, OneJoin
  <2>2. PICK S \in SUBSET started : n.caller \in S /\ n.to \notin S /\ Isolated(S, n.caller)
    BY <2>1 DEF NInv, Apart
  <2>3. QED
    BY <1>3, <1>9, <2>1, <2>2
<1>11. QED
  BY <1>5, <1>6, <1>7, <1>8, <1>10 DEF NInv

LEMMA NJoinOn ==
  ASSUME NInv, NEW p \in Peer, NEW m \in net, JoinOn(p, m)
  PROVE  NInv'
<1> DEFINE o == [m EXCEPT !.to = nextID[p]]
<1>1. m.type = "JOIN" /\ m.to = p /\ m = [type |-> "JOIN", caller |-> m.caller, to |-> p]
  BY MessageFields DEF JoinOn, NInv
<1>2. nextID[p] # unknown
  BY ForwardHasNext DEF JoinOn
<1>3. o.type = "JOIN" /\ o.caller = m.caller /\ o.to = nextID[p]
  BY <1>1
<1>4. net' = (net \ {m}) \cup {o} /\ UNCHANGED <<started, prevID, nextID>>
  BY DEF JoinOn
<1> HIDE DEF o
<1>5. TypeOK'
  BY TypeJoin DEF NInv
<1>6. OnlyStarted' /\ NotToSelf' /\ NeverOwnNeighbour'
  BY <1>1, <1>2, <1>3, <1>4 DEF NInv, OnlyStarted, NotToSelf, NeverOwnNeighbour
<1>7. OneJoin'
  BY <1>1, <1>3, <1>4 DEF NInv, OneJoin
<1>8. Apart'
  <2> SUFFICES ASSUME NEW n \in net', n.type = "JOIN"
               PROVE  \E S \in SUBSET started' :
                        n.caller \in S /\ n.to \notin S /\ Isolated(S, n.caller)'
    BY DEF Apart
  <2>1. PICK k \in net : k.type = "JOIN" /\ k.caller = n.caller /\ (n = k \/ (k = m /\ n = o))
    BY <1>1, <1>3, <1>4
  <2>2. PICK S \in SUBSET started : k.caller \in S /\ k.to \notin S /\ Isolated(S, k.caller)
    BY <2>1 DEF NInv, Apart
  <2>3. n.to \notin S
    BY <1>1, <1>2, <1>3, <2>1, <2>2 DEF Isolated
  <2>4. Isolated(S, k.caller)'
    BY <1>1, <1>2, <1>3, <1>4, <2>2 DEF Isolated
  <2>5. QED
    BY <1>4, <2>1, <2>2, <2>3, <2>4
<1>9. QED
  BY <1>5, <1>6, <1>7, <1>8 DEF NInv

LEMMA NNext == NInv /\ [Next]_vars => NInv'
<1> SUFFICES ASSUME NInv, [Next]_vars PROVE NInv'
  OBVIOUS
<1>1. CASE UNCHANGED vars
  BY <1>1 DEF vars, NInv, TypeOK, OnlyStarted, OneJoin, Apart, Isolated, NotToSelf,
              NeverOwnNeighbour
<1>2. ASSUME NEW p \in Peer, StartFounder(p) \/ StartJoiner(p) \/ Stabilize(p)
      PROVE  NInv'
  BY <1>2, NStart, NStabilize
<1>3. ASSUME NEW p \in Peer, NEW m \in net, Handle(p, m) PROVE NInv'
  BY <1>3, NHandleStabilize, NHandleNotify, NJoinHere, NJoinOn DEF Handle
<1>4. QED
  BY <1>1, <1>2, <1>3 DEF Next

\* Whatever is started when, a JOIN never comes back to the peer that sent it
\* and no peer becomes its own neighbour: peer.c never asks whether the caller
\* of a JOIN or STABILIZE, or the id of a NOTIFY, is the peer itself.
THEOREM NeverSelf == Spec => []NeverOwnNeighbour
<1>1. NInv => NeverOwnNeighbour
  BY DEF NInv
<1>2. QED
  BY <1>1, NInit, NNext, PTL DEF Spec

-----------------------------------------------------------------------------
(* Patient starts and one stabilizing round at a time: the peers form a     *)
(* ring in the order of the IDs, into which at most one newcomer is on its  *)
(* way.  Two rounds of one peer at once break it: the late answer of an old *)
(* round takes nextID back behind a member that came in meanwhile.          *)

\* q comes after p in the ring of the peers in R.
Arc(p, q, R) == p \in R /\ q \in R /\ ~\E r \in R : Between(p, r, q)

Owner(m) == IF m.type = "STABILIZE" THEN m.caller ELSE m.to
Round(m) == m.type = "STABILIZE" \/ (m.type = "NOTIFY" /\ m.slot # 0)

\* A peer with a successor has at most one round under way, which asks that one.
OneRound ==
  /\ \A m, n \in net : Round(m) /\ Round(n) /\ Owner(m) = Owner(n) => m = n
  /\ \A m \in net : Round(m) => nextID[Owner(m)] # unknown
  /\ \A m \in net : m.type = "STABILIZE" => m.to = nextID[m.caller]

Outside(S) == \A u \in Peer \ S : nextID[u] = unknown /\ prevID[u] = unknown

Alone(S) == \A u \in S : S = {u} /\ nextID[u] = unknown /\ prevID[u] = unknown

Linked(S) == \A q \in S : Arc(q, nextID[q], S) /\ Arc(prevID[q], q, S)

\* The newcomer's JOIN is with one of the ring, or there is no newcomer.
Asking(S) ==
  /\ \A m \in net : m.type = "JOIN" => m.caller \notin S /\ m.to \in S
                                       /\ started = S \cup {m.caller}
  /\ (\A m \in net : m.type # "JOIN") => started = S

\* Every round only confirms the successor it asked.
Steady(S) == /\ Outside(S) /\ (Alone(S) \/ Linked(S)) /\ Asking(S) /\ OneRound
             /\ \A m \in net : \/ m.type = "JOIN"
                               \/ Round(m) /\ (m.type = "NOTIFY" => m.id = m.to)

\* The newcomer c was let in between a and p of the ring S of all others; a
\* may still have to find out, and c to learn its neighbours.
Placed(c, a, p, S) ==
  /\ started = S \cup {c} /\ c \in Peer \ S /\ Arc(a, p, S) /\ Between(a, c, p)
  /\ prevID[p] = c /\ prevID[c] \in {a, unknown}
  /\ \A q \in S \ {p} : Arc(prevID[q], q, S)
  /\ nextID[a] \in {c, p} /\ nextID[c] \in {p, unknown}
  /\ \A q \in S \ {a} : Arc(q, nextID[q], S)

LetIn(c, a, p, S) ==
  /\ Placed(c, a, p, S) /\ OneRound
  /\ \A m \in net :
       \/ Round(m) /\ m.type = "STABILIZE"
       \/ Round(m) /\ m.type = "NOTIFY"
            /\ (m.id = m.to \/ (m.to = a /\ m.id = c /\ nextID[a] = p))
       \/ m.type = "NOTIFY" /\ m.slot = 0 /\ m.to = c /\ m.id = p
  /\ nextID[c] = unknown => \E m \in net : m.type = "NOTIFY" /\ m.slot = 0

PInv == /\ IsFiniteSet(started)
        /\ \/ \E S \in SUBSET started : Steady(S)
           \/ \E S \in SUBSET started, c, a, p \in started : LetIn(c, a, p, S)

LEMMA ArcUnique ==
  ASSUME NEW R \in SUBSET Nat, NEW p, NEW q, NEW r,
         Arc(p, q, R), Arc(p, r, R), q # p, r # p
  PROVE  q = r
BY DEF Arc, Between

LEMMA ArcUniqueBelow ==
  ASSUME NEW R \in SUBSET Nat, NEW p, NEW q, NEW r,
         Arc(p, q, R), Arc(r, q, R), p # q, r # q
  PROVE  p = r
BY DEF Arc, Between

\* Nothing lies on two arcs of a ring.
LEMMA ArcsDisjoint ==
  ASSUME NEW R \in SUBSET Nat, NEW a, NEW p, NEW b, NEW q, NEW c \in Nat,
         Arc(a, p, R), Arc(b, q, R), p # q, b # q, Between(a, c, p)
  PROVE  ~Between(b, c, q)
<1>1. a \in Nat /\ p \in Nat /\ b \in Nat /\ q \in Nat
  BY DEF Arc
<1>2. ~Between(a, q, p) /\ ~Between(a, b, p) /\ ~Between(b, p, q) /\ ~Between(b, a, q)
  BY DEF Arc
<1>3. QED
  BY <1>1, <1>2 DEF Between

LEMMA BetweenFacts ==
  ASSUME NEW a \in Nat, NEW c \in Nat, NEW p \in Nat, NEW q \in Nat, Between(a, c, p)
  PROVE  /\ c # a /\ c # p
         /\ Between(c, q, p) => Between(a, q, p)
         /\ Between(a, q, c) => Between(a, q, p)
         /\ ~Between(a, a, q) /\ ~Between(q, a, a)
BY DEF Between

\* What the invariants say of one peer and one message.
LEMMA Known ==
  ASSUME NInv
  PROVE  /\ started \subseteq Peer /\ Peer \subseteq Nat
         /\ prevID \in [Peer -> Peer \cup {unknown}]
         /\ nextID \in [Peer -> Peer \cup {unknown}]
         /\ \A p \in Peer : p # unknown /\ p \in Nat /\ prevID[p] # p /\ nextID[p] # p
BY IDAssumption DEF NInv, TypeOK, NeverOwnNeighbour

LEMMA PInit == Init => PInv
<1> SUFFICES ASSUME Init PROVE PInv
  OBVIOUS
<1>1. IsFiniteSet(started)
  BY FS_EmptySet DEF Init
<1>2. Steady({})
  BY DEF Init, Steady, Outside, Alone, Asking, OneRound
<1>3. QED
  BY <1>1, <1>2 DEF PInv

LEMMA PStartFounder ==
  ASSUME NInv, PInv, NEW p \in Peer, StartFounder(p)
  PROVE  PInv'
<1>1. started = {} /\ started' = {p} /\ UNCHANGED <<prevID, nextID, net>>
  BY DEF StartFounder
<1>2. Steady({})
  BY <1>1 DEF PInv, LetIn, Placed
<1>3. \A m \in net : m.type # "JOIN"
  BY <1>2 DEF Steady, Asking
<1>4. Steady({p})'
  BY <1>1, <1>2, <1>3 DEF Steady, Outside, Alone, Asking, OneRound
<1>5. IsFiniteSet(started')
  BY <1>1, FS_EmptySet, FS_AddElement
<1>6. QED
  BY <1>1, <1>4, <1>5 DEF PInv

\* Nobody starts before the ring is complete; so it is, and quiet.
LEMMA SettledIsSteady ==
  ASSUME NInv, PInv, Settled
  PROVE  Steady(started) /\ \A m \in net : Round(m)
<1>1. \A m \in net : Round(m)
  BY DEF Settled, Round
<1>2. \A m \in net : m.type # "JOIN"
  BY DEF Settled
<1>3. CASE \E S \in SUBSET started : Steady(S)
  BY <1>1, <1>2, <1>3 DEF Steady, Asking
<1>4. ASSUME NEW S \in SUBSET started, NEW c \in started, NEW a \in started, NEW p \in started,
             LetIn(c, a, p, S)
      PROVE  Steady(started)
  <2>1. Placed(c, a, p, S) /\ OneRound
    BY <1>4 DEF LetIn
  <2>2. nextID[c] = p
    BY <1>1, <1>4 DEF LetIn, Round, Placed
  <2>3. a \in S /\ p \in S /\ c \notin S /\ started = S \cup {c} /\ c # p
    BY <2>1 DEF Placed, Arc
  <2>4. Members = started
    <3>1. \A u \in S : prevID[u] # unknown
      BY <2>1, <2>3, Known DEF Placed, Arc
    <3>2. QED
      BY <2>2, <2>3, <3>1, Known DEF Members
  <2>5. Cardinality(started) > 1
    <3>1. \E x \in started : x # p
      BY <2>3
    <3>2. IsFiniteSet(started) /\ Cardinality(started) \in Nat
      BY FS_CardinalityType DEF PInv
    <3>3. Cardinality(started) # 0
      BY <3>2, FS_EmptySet
    <3>4. Cardinality(started) # 1
      BY <2>3, <3>1, <3>2, FS_Singleton
    <3>5. QED
      BY <3>2, <3>3, <3>4
  <2>6. \A u \in started : /\ nextID[u] \in started /\ prevID[u] \in started
                           /\ ~\E q \in started \ {u} : Between(u, q, nextID[u])
                           /\ ~\E q \in started \ {u} : Between(prevID[u], q, u)
    BY <2>4, <2>5 DEF Settled, RightRing
  <2>7. \A u \in started : \A x \in started : ~Between(u, u, x) /\ ~Between(x, u, u)
    BY Known DEF Between
  <2>8. Linked(started)
    BY <2>6, <2>7 DEF Linked, Arc
  <2>9. nextID[a] # p
    BY <2>1, <2>3, <2>6, Known, BetweenFacts DEF Placed
  <2>10. Outside(started)
    BY DEF NInv, OnlyStarted, Outside
  <2>11. \A m \in net : m.type = "NOTIFY" => m.id = m.to
    BY <1>1, <1>4, <2>9 DEF LetIn, Round
  <2>12. QED
    BY <1>1, <1>2, <2>1, <2>8, <2>10, <2>11 DEF Steady, Asking
<1>5. QED
  BY <1>1, <1>3, <1>4 DEF PInv

LEMMA PStartJoiner ==
  ASSUME NInv, PInv, Patient, NEW p \in Peer, StartJoiner(p)
  PROVE  PInv'
<1>1. PICK f \in started : /\ net' = net \cup {[type |-> "JOIN", caller |-> p, to |-> f]}
                           /\ p \notin started /\ started' = started \cup {p}
                           /\ UNCHANGED <<prevID, nextID>>
  BY DEF StartJoiner, Members
<1>2. Steady(started) /\ \A m \in net : Round(m)
  BY SettledIsSteady DEF StartJoiner
<1> DEFINE o == [type |-> "JOIN", caller |-> p, to |-> f]
<1>3. o.type = "JOIN" /\ o.caller = p /\ o.to = f /\ net' = net \cup {o}
  BY <1>1
<1> HIDE DEF o
<1>4. PICK S : S = started
  OBVIOUS
<1>5. Outside(S)' /\ (Alone(S) \/ Linked(S))' /\ OneRound'
  BY <1>1, <1>2, <1>3, <1>4 DEF Steady, Outside, Alone, Linked, Arc, OneRound, Round
<1>6. Asking(S)'
  BY <1>1, <1>2, <1>3, <1>4 DEF Asking, Round
<1>7. Steady(S)'
  BY <1>2, <1>3, <1>4, <1>5, <1>6 DEF Steady, Round
<1>8. IsFiniteSet(started')
  BY <1>1, FS_AddElement DEF PInv
<1>9. QED
  BY <1>1, <1>4, <1>7, <1>8 DEF PInv

LEMMA OneRoundStarts ==
  ASSUME NInv, OneRound, MaxRounds <= 1, NEW p \in Peer, Stabilize(p)
  PROVE  /\ OneRound'
         /\ \E o : /\ net' = net \cup {o} /\ o.type = "STABILIZE" /\ o.caller = p
                   /\ o.to = nextID[p]
         /\ \A m \in net : Round(m) => Owner(m) # p
<1>1. PICK s \in 1..MaxRounds :
        /\ ~\E m \in net : \/ m.type = "STABILIZE" /\ m.caller = p /\ m.slot = s
                           \/ m.type = "NOTIFY" /\ m.to = p /\ m.slot = s
        /\ net' = net \cup {[type |-> "STABILIZE", caller |-> p, to |-> nextID[p], slot |-> s]}
  BY DEF Stabilize
<1>2. UNCHANGED <<started, prevID, nextID>> /\ nextID[p] # unknown
  BY DEF Stabilize
<1>3. s = 1 /\ \A m \in net : Round(m) => m.slot = 1
  BY RoundsAssumption DEF NInv, TypeOK, Message, Round
<1> DEFINE o == [type |-> "STABILIZE", caller |-> p, to |-> nextID[p], slot |-> s]
<1>4. o.type = "STABILIZE" /\ o.caller = p /\ o.to = nextID[p] /\ net' = net \cup {o}
  BY <1>1
<1> HIDE DEF o
<1>5. \A m \in net : Round(m) => Owner(m) # p
  BY <1>1, <1>3 DEF Round, Owner
<1>6. OneRound'
  BY <1>2, <1>4, <1>5 DEF OneRound, Round, Owner
<1>7. QED
  BY <1>4, <1>5, <1>6

LEMMA PStabilize ==
  ASSUME NInv, PInv, MaxRounds <= 1, NEW p \in Peer, Stabilize(p)
  PROVE  PInv'
<1>1. UNCHANGED <<started, prevID, nextID>>
  BY DEF Stabilize
<1>2. ASSUME NEW S, Steady(S) PROVE Steady(S)'
  <2>1. PICK o : /\ net' = net \cup {o} /\ o.type = "STABILIZE" /\ OneRound'
    BY <1>2, OneRoundStarts DEF Steady
  <2>2. (Outside(S) /\ (Alone(S) \/ Linked(S)))'
    BY <1>1, <1>2 DEF Steady, Outside, Alone, Linked, Arc
  <2>3. Asking(S)'
    BY <1>1, <1>2, <2>1 DEF Steady, Asking
  <2>4. QED
    BY <1>2, <2>1, <2>2, <2>3 DEF Steady, Round
<1>3. ASSUME NEW S, NEW c, NEW a, NEW q, LetIn(c, a, q, S) PROVE LetIn(c, a, q, S)'
  <2>1. PICK o : /\ net' = net \cup {o} /\ o.type = "STABILIZE" /\ OneRound'
    BY <1>3, OneRoundStarts DEF LetIn
  <2>2. Placed(c, a, q, S)'
    BY <1>1, <1>3 DEF LetIn, Placed, Arc
  <2>3. QED
    BY <1>1, <1>3, <2>1, <2>2 DEF LetIn, Round
<1>4. QED
  BY <1>1, <1>2, <1>3 DEF PInv

LEMMA OneRoundAnswered ==
  ASSUME NInv, OneRound, NEW p \in Peer, NEW m \in net, HandleStabilize(p, m)
  PROVE  /\ OneRound'
         /\ \E o : /\ net' = (net \ {m}) \cup {o} /\ o.type = "NOTIFY" /\ Round(o)
                   /\ o.to = m.caller /\ o.id = prevID'[p]
<1> DEFINE o == [type |-> "NOTIFY", id |-> prevID'[p], to |-> m.caller, slot |-> m.slot]
<1>1. /\ o.type = "NOTIFY" /\ o.to = m.caller /\ o.slot = m.slot /\ o.id = prevID'[p]
      /\ net' = (net \ {m}) \cup {o} /\ m.type = "STABILIZE" /\ nextID' = nextID
  BY DEF HandleStabilize
<1>2. m.slot # 0
  BY <1>1 DEF NInv, TypeOK, Message
<1> HIDE DEF o
<1>3. Round(o) /\ Owner(o) = Owner(m) /\ Round(m)
  BY <1>1, <1>2 DEF Round, Owner
<1>4. OneRound'
  BY <1>1, <1>3 DEF OneRound, Round, Owner
<1>5. QED
  BY <1>1, <1>3, <1>4

\* A member of the ring answers the peer that asks with just that peer's ID.
LEMMA PHandleStabilizeSteady ==
  ASSUME NInv, NEW S \in SUBSET started, Steady(S), NEW p \in Peer, NEW m \in net,
         HandleStabilize(p, m)
  PROVE  Steady(S)'
<1>1. PICK o : /\ net' = (net \ {m}) \cup {o} /\ o.type = "NOTIFY" /\ Round(o) /\ OneRound'
               /\ o.to = m.caller /\ o.id = prevID'[p]
  BY OneRoundAnswered DEF Steady
<1>2. /\ m.type = "STABILIZE" /\ m.to = p /\ UNCHANGED <<started, nextID>>
      /\ prevID' = IF prevID[p] = unknown THEN [prevID EXCEPT ![p] = m.caller] ELSE prevID
  BY DEF HandleStabilize
<1>3. m.caller \in Peer /\ nextID[m.caller] = p /\ p # unknown
  BY <1>2, Known, MessageFields DEF Steady, OneRound, NInv
<1>4. m.caller \in S /\ Linked(S)
  BY <1>3 DEF Steady, Outside, Alone
<1>5. p \in S /\ prevID[p] \in S
  BY <1>3, <1>4 DEF Linked, Arc
<1>6. prevID[p] = m.caller
  BY <1>3, <1>4, <1>5, Known, ArcUniqueBelow DEF Linked
<1>7. prevID' = prevID /\ o.id = o.to
  BY <1>1, <1>2, <1>3, <1>6, Known
<1>8. (Outside(S) /\ Linked(S))'
  BY <1>2, <1>4, <1>7 DEF Steady, Outside, Linked, Arc
<1>9. Asking(S)'
  BY <1>1, <1>2 DEF Steady, Asking
<1>10. QED
  BY <1>1, <1>7, <1>8, <1>9 DEF Steady, Round

\* The first to ask the newcomer is the peer below it; the peer above it
\* answers the peer below it with the newcomer; all others are confirmed.
LEMMA PHandleStabilizeLetIn ==
  ASSUME NInv, NEW S \in SUBSET started, NEW c \in started, NEW a \in started,
         NEW p \in started, LetIn(c, a, p, S), NEW u \in Peer, NEW m \in net,
         HandleStabilize(u, m)
  PROVE  LetIn(c, a, p, S)'
<1>1. Placed(c, a, p, S) /\ OneRound
  BY DEF LetIn
<1>2. PICK o : /\ net' = (net \ {m}) \cup {o} /\ o.type = "NOTIFY" /\ Round(o) /\ OneRound'
               /\ o.to = m.caller /\ o.id = prevID'[u]
  BY <1>1, OneRoundAnswered
<1>3. /\ m.type = "STABILIZE" /\ m.to = u /\ UNCHANGED <<started, nextID>>
      /\ prevID' = IF prevID[u] = unknown THEN [prevID EXCEPT ![u] = m.caller] ELSE prevID
  BY DEF HandleStabilize
<1>4. PICK w : w = m.caller
  OBVIOUS
<1>5. w \in Peer /\ nextID[w] = u /\ u # unknown /\ w \in started /\ w # u
  BY <1>1, <1>3, <1>4, Known, MessageFields DEF OneRound, NInv, OnlyStarted, NotToSelf
<1>6. /\ a \in S /\ p \in S /\ c \notin S /\ started = S \cup {c} /\ c # p
      /\ S \in SUBSET Nat /\ c \in Nat /\ prevID[p] = c
  BY <1>1, Known DEF Placed, Arc
<1>7. \A q \in S \ {p} : prevID[q] \in S /\ prevID[q] # unknown /\ prevID[q] # q
  BY <1>1, Known DEF Placed, Arc
<1>8. CASE u = c
  <2>1. w = a
    BY <1>1, <1>5, <1>6, <1>8 DEF Placed, Arc
  <2>2. prevID'[c] = a /\ \A q \in S : prevID'[q] = prevID[q]
    BY <1>1, <1>3, <1>4, <1>6, <1>8, <2>1, Known DEF Placed
  <2>3. Placed(c, a, p, S)'
    BY <1>1, <1>3, <1>6, <2>2 DEF Placed, Arc
  <2>4. o.id = o.to
    BY <1>2, <1>4, <1>8, <2>1, <2>2
  <2>5. QED
    BY <1>2, <1>3, <2>3, <2>4 DEF LetIn, Round
<1>9. CASE u # c
  <2>1. u \in S
    BY <1>1, <1>5, <1>6, <1>9 DEF Placed, Arc
  <2>2. prevID' = prevID
    BY <1>3, <1>6, <1>7, <2>1, Known
  <2>3. o.id = o.to \/ (o.to = a /\ o.id = c /\ nextID[a] = p)
    <3>1. CASE u = p
      <4>1. CASE w \in S \ {a}
        <5>1. Arc(w, p, S) /\ Arc(a, p, S) /\ w # p
          BY <1>1, <1>5, <3>1, <4>1 DEF Placed
        <5>2. a # p
          BY <1>6, <5>1, <4>1 DEF Arc, Between
        <5>3. QED
          BY <1>6, <4>1, <5>1, <5>2, ArcUniqueBelow
      <4>2. CASE w \in {a, c}
        BY <1>2, <1>4, <1>5, <1>6, <2>2, <3>1, <4>2
      <4>3. QED
        BY <1>5, <1>6, <4>1, <4>2
    <3>2. CASE u # p
      <4>1. w \in S \ {a} /\ Arc(w, u, S) /\ Arc(prevID[u], u, S)
        BY <1>1, <1>5, <1>6, <1>9, <2>1, <3>2 DEF Placed
      <4>2. prevID[u] = w
        BY <1>5, <1>6, <1>7, <2>1, <3>2, <4>1, ArcUniqueBelow
      <4>3. QED
        BY <1>2, <1>4, <2>2, <4>2
    <3>3. QED
      BY <3>1, <3>2
  <2>4. Placed(c, a, p, S)'
    BY <1>1, <1>3, <2>2 DEF Placed, Arc
  <2>5. QED
    BY <1>2, <1>3, <2>3, <2>4 DEF LetIn, Round
<1>10. QED
  BY <1>8, <1>9

LEMMA PHandleStabilize ==
  ASSUME NInv, PInv, NEW u \in Peer, NEW m \in net, HandleStabilize(u, m)
  PROVE  PInv'
<1>1. UNCHANGED started
  BY DEF HandleStabilize
<1>2. QED
  BY <1>1, PHandleStabilizeSteady, PHandleStabilizeLetIn DEF PInv

\* Reading one's own ID in an answer changes nothing.
LEMMA PHandleNotifySteady ==
  ASSUME NInv, NEW S \in SUBSET started, Steady(S), NEW u \in Peer, NEW m \in net,
         HandleNotify(u, m)
  PROVE  nextID' = nextID /\ Steady(S)'
<1>1. m.type = "NOTIFY" /\ m.to = u /\ m.id = u /\ net' = net \ {m}
      /\ UNCHANGED <<started, prevID>>
  BY DEF HandleNotify, Steady
<1>2. nextID' = nextID
  BY <1>1, Known DEF HandleNotify
<1>3. (Outside(S) /\ (Alone(S) \/ Linked(S)))'
  BY <1>1, <1>2 DEF Steady, Outside, Alone, Linked, Arc
<1>4. Asking(S)' /\ OneRound'
  BY <1>1, <1>2 DEF Steady, Asking, OneRound
<1>5. QED
  BY <1>1, <1>2, <1>3, <1>4 DEF Steady

\* The peer below the newcomer finds it, unless its ID is the higher one; the
\* newcomer gets its successor; nothing else changes.
LEMMA PHandleNotifyLetIn ==
  ASSUME NInv, NEW S \in SUBSET started, NEW c \in started, NEW a \in started,
         NEW p \in started, LetIn(c, a, p, S), NEW u \in Peer, NEW m \in net,
         HandleNotify(u, m)
  PROVE  /\ LetIn(c, a, p, S)'
         /\ \A q \in Peer : nextID'[q] # nextID[q] /\ nextID[q] # unknown =>
              Between(q, nextID'[q], nextID[q])
<1>1. Placed(c, a, p, S) /\ OneRound
  BY DEF LetIn
<1>2. /\ m.type = "NOTIFY" /\ m.to = u /\ m.id \in Peer /\ net' = net \ {m}
      /\ UNCHANGED <<started, prevID>>
  BY MessageFields DEF HandleNotify, NInv
<1>3. /\ a \in S /\ p \in S /\ c \notin S /\ started = S \cup {c} /\ c # p /\ a # c
      /\ S \in SUBSET Nat /\ c \in Nat /\ c \in Peer /\ a \in Peer /\ p \in Peer
  BY <1>1, Known DEF Placed, Arc
<1>4. \A q \in Peer : nextID'[q] =
        IF q = u /\ (m.id > u \/ (m.id < u /\ nextID[u] = unknown)) THEN m.id ELSE nextID[q]
  BY <1>2, Known DEF HandleNotify
<1>5. CASE Round(m)
  <2>1. /\ nextID[u] # unknown
        /\ \A n \in net' : Round(n) => Owner(n) # u
    BY <1>1, <1>2, <1>5 DEF OneRound, Owner
  <2>2. m.id = u \/ (u = a /\ m.id = c /\ nextID[a] = p)
    BY <1>2, <1>5 DEF LetIn, Round
  <2>3. \A q \in Peer : nextID'[q] = nextID[q] \/ (q = u /\ u = a /\ nextID'[q] = c /\ nextID[a] = p)
    BY <1>3, <1>4, <2>1, <2>2, Known
  <2>5. OneRound'
    BY <1>1, <1>2, <1>3, <2>1, <2>3, Known, MessageFields DEF OneRound, Owner, Round, NInv
  <2>6. Placed(c, a, p, S)'
    BY <1>1, <1>2, <1>3, <2>3, Known DEF Placed, Arc
  <2>7. \A n \in net' : Round(n) /\ n.type = "NOTIFY" => n.to # u
    BY <2>1 DEF Owner, Round
  <2>8. nextID'[c] = nextID[c]
    BY <1>3, <2>3
  <2>9. LetIn(c, a, p, S)'
    <3>1. \A n \in net' : n.type = "NOTIFY" /\ Round(n) /\ n.id # n.to
                            => n.to = a /\ n.id = c /\ nextID'[a] = p
      BY <1>2, <1>3, <2>3, <2>7 DEF LetIn, Round
    <3>2. \A n \in net' : \/ Round(n)
                          \/ n.type = "NOTIFY" /\ n.slot = 0 /\ n.to = c /\ n.id = p
      BY <1>2 DEF LetIn
    <3>3. nextID'[c] = unknown => \E n \in net' : n.type = "NOTIFY" /\ n.slot = 0
      BY <1>2, <1>5, <2>8 DEF LetIn, Round
    <3>4. QED
      BY <2>5, <2>6, <3>1, <3>2, <3>3 DEF LetIn, Round
  <2>10. QED
    BY <1>1, <1>3, <2>3, <2>9 DEF Placed
<1>6. CASE ~Round(m)
  <2>1. u = c /\ m.id = p
    BY <1>2, <1>6 DEF LetIn, Round
  <2>2. nextID'[c] = p /\ p # unknown /\ \A q \in Peer : q # c => nextID'[q] = nextID[q]
    BY <1>1, <1>3, <1>4, <2>1, Known DEF Placed
  <2>3. Placed(c, a, p, S)'
    BY <1>1, <1>2, <1>3, <2>2, Known DEF Placed, Arc
  <2>4. \A n \in net : Round(n) => nextID'[Owner(n)] = nextID[Owner(n)]
    BY <1>1, <1>3, <2>2, Known, MessageFields DEF OneRound, Placed, Owner, Round, NInv
  <2>5. OneRound'
    BY <1>1, <1>2, <2>4 DEF OneRound, Owner, Round
  <2>6. LetIn(c, a, p, S)'
    BY <1>2, <1>3, <2>2, <2>3, <2>5 DEF LetIn, Round
  <2>7. QED
    BY <1>1, <2>2, <2>6 DEF Placed
<1>7. QED
  BY <1>5, <1>6

LEMMA PHandleNotify ==
  ASSUME NInv, PInv, NEW u \in Peer, NEW m \in net, HandleNotify(u, m)
  PROVE  /\ PInv'
         /\ \A q \in Peer : nextID'[q] # nextID[q] /\ nextID[q] # unknown =>
              Between(q, nextID'[q], nextID[q])
<1>1. UNCHANGED started
  BY DEF HandleNotify
<1>2. QED
  BY <1>1, PHandleNotifySteady, PHandleNotifyLetIn DEF PInv

\* The peer whose range holds the newcomer lets it in, between its former
\* predecessor and itself; a peer that is alone is both.
LEMMA PJoinHere ==
  ASSUME NInv, PInv, NEW p \in Peer, NEW m \in net, JoinHere(p, m)
  PROVE  PInv'
<1> DEFINE o == [type |-> "NOTIFY", id |-> p, to |-> m.caller, slot |-> 0]
<1>1. PICK c : c = m.caller
  OBVIOUS
<1>2. m.type = "JOIN" /\ m.to = p /\ c \in Peer /\ c \in Nat /\ c # unknown /\ c \in started
  BY <1>1, Known, MessageFields DEF JoinHere, NInv, OnlyStarted
<1>3. /\ \A u \in Peer : prevID'[u] = IF u = p THEN c ELSE prevID[u]
      /\ \A u \in Peer : nextID'[u] = IF u = p /\ nextID[u] = unknown THEN c ELSE nextID[u]
      /\ UNCHANGED started
  BY <1>1, Known DEF JoinHere
<1>4. o.type = "NOTIFY" /\ o.id = p /\ o.to = c /\ o.slot = 0 /\ net' = (net \ {m}) \cup {o}
  BY <1>1 DEF JoinHere
<1> HIDE DEF o
<1>5. PICK S \in SUBSET started : Steady(S)
  BY <1>2 DEF PInv, LetIn, Round
<1>6. /\ p \in S /\ c \notin S /\ started = S \cup {c} /\ S \in SUBSET Nat /\ p \in Nat
      /\ p \in started /\ c # p
  BY <1>1, <1>2, <1>5, Known DEF Steady, Asking
<1>7. \A n \in net : n # m => Round(n) /\ (n.type = "NOTIFY" => n.id = n.to)
  BY <1>1, <1>2, <1>5, <1>6 DEF Steady, Asking, NInv, OneJoin
<1>8. nextID[c] = unknown /\ prevID[c] = unknown
  BY <1>2, <1>5, <1>6 DEF Steady, Outside
<1>9. OneRound'
  BY <1>2, <1>3, <1>4, <1>5, <1>7, Known, MessageFields
     DEF Steady, OneRound, Round, Owner, NInv
<1>10. SUFFICES ASSUME NEW a \in started, Placed(c, a, p, S)' PROVE PInv'
  <2>1. CASE nextID[p] = unknown
    <3>1. S = {p}
      BY <1>5, <1>6, <2>1, Known DEF Steady, Alone, Linked, Arc
    <3>2. Placed(c, p, p, S)'
      BY <1>2, <1>3, <1>6, <1>8, <2>1, <3>1, Known DEF Placed, Arc, Between
    <3>3. QED
      BY <1>6, <1>10, <3>2
  <2>2. CASE nextID[p] # unknown
    <3>1. Linked(S)
      BY <1>5, <1>6, <2>2 DEF Steady, Alone
    <3>2. PICK a : a = prevID[p]
      OBVIOUS
    <3>3. a \in S /\ a \in Peer /\ a # p /\ nextID[p] \in Peer
      BY <1>6, <3>1, <3>2, Known DEF Linked, Arc
    <3>4. Between(a, c, p)
      BY <1>1, <1>2, <3>2, <3>3, AcceptedIsBetween DEF JoinHere
    <3>5. nextID[a] = p
      BY <1>6, <3>1, <3>2, <3>3, Known, ArcUnique DEF Linked
    <3>6. Placed(c, a, p, S)'
      BY <1>2, <1>3, <1>6, <1>8, <2>2, <3>1, <3>2, <3>3, <3>4, <3>5, Known
         DEF Placed, Linked, Arc
    <3>7. QED
      BY <1>6, <1>10, <3>3, <3>6
  <2>3. QED
    BY <2>1, <2>2
<1>11. LetIn(c, a, p, S)'
  BY <1>4, <1>7, <1>9, <1>10 DEF LetIn, Round
<1>12. QED
  BY <1>2, <1>3, <1>6, <1>11 DEF PInv

\* A JOIN that is passed on stays in the ring.
LEMMA PJoinOn ==
  ASSUME NInv, PInv, NEW p \in Peer, NEW m \in net, JoinOn(p, m)
  PROVE  PInv'
<1> DEFINE o == [m EXCEPT !.to = nextID[p]]
<1>1. m.type = "JOIN" /\ m.to = p /\ m = [type |-> "JOIN", caller |-> m.caller, to |-> p]
  BY MessageFields DEF JoinOn, NInv
<1>2. nextID[p] # unknown
  BY ForwardHasNext DEF JoinOn
<1>3. o.type = "JOIN" /\ o.caller = m.caller /\ o.to = nextID[p]
  BY <1>1
<1>4. net' = (net \ {m}) \cup {o} /\ UNCHANGED <<started, prevID, nextID>>
  BY DEF JoinOn
<1> HIDE DEF o
<1>5. PICK S \in SUBSET started : Steady(S)
  BY <1>1 DEF PInv, LetIn, Round
<1>6. p \in S /\ nextID[p] \in S
  BY <1>1, <1>2, <1>5 DEF Steady, Asking, Alone, Linked, Arc
<1>7. (Outside(S) /\ (Alone(S) \/ Linked(S)))'
  BY <1>4, <1>5 DEF Steady, Outside, Alone, Linked, Arc
<1>8. Asking(S)'
  BY <1>1, <1>3, <1>4, <1>5, <1>6 DEF Steady, Asking
<1>9. OneRound'
  BY <1>1, <1>3, <1>4, <1>5 DEF Steady, OneRound, Round
<1>10. Steady(S)'
  BY <1>3, <1>4, <1>5, <1>7, <1>8, <1>9 DEF Steady, Round
<1>11. QED
  BY <1>4, <1>5, <1>10 DEF PInv

LEMMA PNext ==
  ASSUME Patient, MaxRounds <= 1
  PROVE  NInv /\ PInv /\ [Next]_vars => PInv'
<1> SUFFICES ASSUME NInv, PInv, [Next]_vars PROVE PInv'
  OBVIOUS
<1>1. CASE UNCHANGED vars
  BY <1>1 DEF vars, PInv, Steady, Outside, Alone, Linked, Arc, Asking, OneRound, LetIn, Placed
<1>2. ASSUME NEW p \in Peer, StartFounder(p) \/ StartJoiner(p) \/ Stabilize(p)
      PROVE  PInv'
  BY <1>2, PStartFounder, PStartJoiner, PStabilize
<1>3. ASSUME NEW p \in Peer, NEW m \in net, Handle(p, m) PROVE PInv'
  BY <1>3, PHandleStabilize, PHandleNotify, PJoinHere, PJoinOn DEF Handle
<1>4. QED
  BY <1>1, <1>2, <1>3 DEF Next

LEMMA RingHasNobodyBetween ==
  ASSUME NInv, PInv PROVE NobodyPassedOver
<1> SUFFICES ASSUME NEW u \in Members, prevID[u] # unknown, NEW q \in Members \ {u},
                    Between(prevID[u], q, u)
             PROVE  FALSE
  BY DEF NobodyPassedOver
<1>1. /\ u \in started /\ q \in started /\ u \in Peer /\ q \in Peer /\ u \in Nat /\ q \in Nat
      /\ prevID[u] \in Nat /\ prevID[u] # u
  BY Known DEF Members
<1>2. ASSUME NEW S \in SUBSET started, Steady(S) PROVE FALSE
  <2>1. u \in S /\ q \in S /\ Linked(S)
    BY <1>1, <1>2 DEF Steady, Outside, Members, Alone
  <2>2. QED
    BY <2>1 DEF Linked, Arc
<1>3. ASSUME NEW S \in SUBSET started, NEW c \in started, NEW a \in started, NEW p \in started,
             LetIn(c, a, p, S)
      PROVE  FALSE
  <2>1. Placed(c, a, p, S)
    BY <1>3 DEF LetIn
  <2>2. /\ a \in S /\ p \in S /\ c \notin S /\ started = S \cup {c} /\ prevID[p] = c
        /\ S \in SUBSET Nat /\ a \in Nat /\ c \in Nat /\ p \in Nat /\ Between(a, c, p)
        /\ Arc(a, p, S) /\ a # c
    BY <2>1, Known DEF Placed, Arc
  <2>3. CASE u = c
    BY <1>1, <2>1, <2>2, <2>3, BetweenFacts DEF Placed, Arc
  <2>4. CASE u = p
    BY <1>1, <2>2, <2>4, BetweenFacts DEF Arc
  <2>5. CASE u \in S \ {p}
    <3>1. Arc(prevID[u], u, S)
      BY <2>1, <2>5 DEF Placed
    <3>2. q = c
      BY <1>1, <2>2, <3>1 DEF Arc
    <3>3. QED
      BY <1>1, <2>2, <2>5, <3>1, <3>2, ArcsDisjoint
  <2>6. QED
    BY <1>1, <2>2, <2>3, <2>4, <2>5
<1>4. QED
  BY <1>2, <1>3 DEF PInv

LEMMA NextStep ==
  ASSUME NInv, PInv, [Next]_vars, NEW p \in Peer, nextID'[p] # nextID[p], nextID[p] # unknown
  PROVE  Between(p, nextID'[p], nextID[p])
<1>1. PICK u \in Peer, m \in net : HandleNotify(u, m) \/ JoinHere(u, m)
  BY DEF Next, Handle, vars, StartFounder, StartJoiner, Stabilize, HandleStabilize, JoinOn
<1>2. CASE HandleNotify(u, m)
  BY <1>2, PHandleNotify
<1>3. CASE JoinHere(u, m)
  BY <1>3, Known DEF JoinHere
<1>4. QED
  BY <1>1, <1>2, <1>3

LEMMA PInvariance == ASSUME Patient, MaxRounds <= 1 PROVE Spec => [](NInv /\ PInv)
<1>1. NInv /\ PInv /\ [Next]_vars => (NInv /\ PInv)'
  BY NNext, PNext
<1>2. QED
  BY <1>1, NInit, PInit, PTL DEF Spec

\* When peers come one after the other, and no peer has two STABILIZE rounds
\* under way, the ranges from prevID to the own ID of no two members overlap:
\* checkJoinPeer (dht.c:57) and the unconditional prevID of peer.c:581 cut one
\* range in two, and the first STABILIZE to reach the newcomer (peer.c:511)
\* comes from its neighbour.
THEOREM NobodyLeftOut ==
  ASSUME Patient, MaxRounds <= 1 PROVE Spec => []NobodyPassedOver
<1>1. NInv /\ PInv => NobodyPassedOver
  BY RingHasNobodyBetween
<1>2. QED
  BY <1>1, PInvariance, PTL

\* Under the same conditions handleNotify, which takes any ID above its own,
\* only ever takes one that is nearer than the successor it has.
THEOREM NextOnlyNarrows ==
  ASSUME Patient, MaxRounds <= 1 PROVE Spec => NextNarrows
<1>1. NInv /\ PInv /\ [Next]_vars =>
        [\A p \in Peer : nextID'[p] # nextID[p] /\ nextID[p] # unknown =>
           Between(p, nextID'[p], nextID[p])]_vars
  BY NextStep
<1>2. QED
  BY <1>1, PInvariance, PTL DEF Spec, NextNarrows
=============================================================================
