--------------------------- MODULE RingMembership ---------------------------
(***************************************************************************)
(* Block 5, jft.DHT/peer.c: how the ring comes about.  A peer is started   *)
(* alone or with a friend to whom it sends a JOIN; the JOIN travels along  *)
(* nextID until a peer takes the newcomer as its predecessor and NOTIFYs   *)
(* it.  Meanwhile the second thread of every peer keeps sending STABILIZE  *)
(* to its successor, which answers with a NOTIFY of its own predecessor.   *)
(*                                                                         *)
(* Every message travels on a connection of its own, so they overtake each *)
(* other.  "slot" tells the rounds of a peer's stabilizer apart: MaxRounds *)
(* bounds how many of them are unfinished at once.  Peers do not stop.     *)
(***************************************************************************)
EXTENDS Integers, FiniteSets

CONSTANTS Peer,       \* the node IDs that may be started
          unknown,    \* dht.h: 65536, above every two-byte ID
          MaxRounds,  \* unfinished STABILIZE rounds of one peer
          Patient     \* TRUE: peers join one after the other, none with an ID below
              \* all members

ASSUME IDAssumption == Peer \in SUBSET Nat /\ unknown \in Nat
                       /\ \A p \in Peer : p < unknown
ASSUME RoundsAssumption == MaxRounds \in Nat /\ Patient \in BOOLEAN

Message == [type: {"JOIN"}, caller: Peer, to: Peer]
             \cup [type: {"STABILIZE"}, caller: Peer, to: Peer, slot: 1..MaxRounds]
             \cup [type: {"NOTIFY"}, id: Peer, to: Peer, slot: 0..MaxRounds]

VARIABLES started,    \* peers whose process runs
          prevID,     \* of each peer, unknown at first
          nextID,     \* of each peer, unknown at first
          net         \* sent and not yet read
vars == <<started, prevID, nextID, net>>

TypeOK == /\ started \in SUBSET Peer
          /\ prevID \in [Peer -> Peer \cup {unknown}]
          /\ nextID \in [Peer -> Peer \cup {unknown}]
          /\ net \in SUBSET Message

Init == /\ started = {}
        /\ prevID = [p \in Peer |-> unknown]
        /\ nextID = [p \in Peer |-> unknown]
        /\ net = {}

-----------------------------------------------------------------------------
thisPeer == "thisPeer"
unknownPeer == "unknownPeer"

\* Two slips: a caller is not compared with the predecessor, in the third or in
\* the fourth clause.
checkJoinPeerBelow(node, prev, next, caller) ==
  IF \/ next = unknown
     \/ next = prev /\ node < next /\ caller > next
     \/ node > caller
     \/ node < caller /\ prev > node /\ next # prev /\ caller > prev
    THEN thisPeer ELSE unknownPeer

checkJoinPeerAbove(node, prev, next, caller) ==
  IF \/ next = unknown
     \/ next = prev /\ node < next /\ caller > next
     \/ node > caller /\ prev < caller
     \/ node < caller /\ prev > node /\ next # prev
    THEN thisPeer ELSE unknownPeer

\* dht.c, clause by clause.
checkJoinPeer(node, prev, next, caller) ==
  IF \/ next = unknown
     \/ next = prev /\ node < next /\ caller > next
     \/ node > caller /\ prev < caller
     \/ node < caller /\ prev > node /\ next # prev /\ caller > prev
    THEN thisPeer ELSE unknownPeer

\* x lies strictly between lo and hi, going up from lo and past zero.
Between(lo, x, hi) == IF lo < hi THEN lo < x /\ x < hi ELSE x > lo \/ x < hi

\* The peers somebody has taken into a ring, and the ring they should form.
Members == {p \in started : prevID[p] # unknown \/ nextID[p] # unknown}

RightRing(S) ==
  Cardinality(S) > 1 =>
    \A p \in S : /\ nextID[p] \in S /\ ~\E q \in S \ {p} : Between(p, q, nextID[p])
                 /\ prevID[p] \in S /\ ~\E q \in S \ {p} : Between(prevID[p], q, p)

Settled ==
  /\ RightRing(Members)
  /\ \A m \in net : m.type = "STABILIZE" \/ (m.type = "NOTIFY" /\ m.slot # 0)

\* A JOIN from below every member fails checkJoinPeer at each of them and is
\* passed on for ever, to be accepted by a newcomer that knows no nextID yet.
Acceptable(p) == Members = {} \/ \E q \in Members : q < p

-----------------------------------------------------------------------------
(* main of peer.c: argc 3 or 4 for the first peer, 6 for one with a friend *)

StartFounder(p) ==
  /\ started = {}
  /\ started' = {p}
  /\ UNCHANGED <<prevID, nextID, net>>

StartJoiner(p) ==
  /\ p \notin started
  /\ Patient => Settled /\ Acceptable(p)
  /\ \E f \in (IF Patient /\ Members # {} THEN Members ELSE started) :
       net' = net \cup {[type |-> "JOIN", caller |-> p, to |-> f]}
  /\ started' = started \cup {p}
  /\ UNCHANGED <<prevID, nextID>>

\* The stabilizing thread: nextID is read and the connection made under the
\* mutex; it then sleeps and does not wait for the NOTIFY.
Stabilize(p) ==
  /\ p \in started /\ nextID[p] # unknown
  /\ \E s \in 1..MaxRounds :
       /\ ~\E m \in net : \/ m.type = "STABILIZE" /\ m.caller = p /\ m.slot = s
                          \/ m.type = "NOTIFY" /\ m.to = p /\ m.slot = s
       /\ net' = net \cup {[type |-> "STABILIZE", caller |-> p, to |-> nextID[p], slot |-> s]}
  /\ UNCHANGED <<started, prevID, nextID>>

-----------------------------------------------------------------------------
\* A slip: the caller does not become the predecessor of a newcomer.
HandleStabilizeBlind(p, m) ==
  /\ m \in net /\ m.type = "STABILIZE" /\ m.to = p
  /\ net' = (net \ {m}) \cup
       {[type |-> "NOTIFY", id |-> prevID[p], to |-> m.caller, slot |-> m.slot]}
  /\ UNCHANGED <<started, prevID, nextID>>

HandleStabilize(p, m) ==
  /\ m \in net /\ m.type = "STABILIZE" /\ m.to = p
  /\ prevID' = IF prevID[p] = unknown THEN [prevID EXCEPT ![p] = m.caller] ELSE prevID
  /\ net' = (net \ {m}) \cup
       {[type |-> "NOTIFY", id |-> prevID'[p], to |-> m.caller, slot |-> m.slot]}
  /\ UNCHANGED <<started, nextID>>

\* Two slips: a peer takes itself; the last peer of the ring takes nobody.
HandleNotifySelf(p, m) ==
  /\ m \in net /\ m.type = "NOTIFY" /\ m.to = p
  /\ net' = net \ {m}
  /\ nextID' = IF m.id >= p \/ nextID[p] = unknown
                 THEN [nextID EXCEPT ![p] = m.id] ELSE nextID
  /\ UNCHANGED <<started, prevID>>

HandleNotifyAbove(p, m) ==
  /\ m \in net /\ m.type = "NOTIFY" /\ m.to = p
  /\ net' = net \ {m}
  /\ nextID' = IF m.id > p THEN [nextID EXCEPT ![p] = m.id] ELSE nextID
  /\ UNCHANGED <<started, prevID>>

\* Whatever is above the own ID is taken, also when it is farther than nextID.
HandleNotify(p, m) ==
  /\ m \in net /\ m.type = "NOTIFY" /\ m.to = p
  /\ net' = net \ {m}
  /\ nextID' = IF m.id > p \/ (m.id < p /\ nextID[p] = unknown)
                 THEN [nextID EXCEPT ![p] = m.id] ELSE nextID
  /\ UNCHANGED <<started, prevID>>

\* A slip: the newcomer becomes the successor in any case.
JoinHereBoth(p, m) ==
  /\ m \in net /\ m.type = "JOIN" /\ m.to = p
  /\ checkJoinPeer(p, prevID[p], nextID[p], m.caller) = thisPeer
  /\ net' = (net \ {m}) \cup {[type |-> "NOTIFY", id |-> p, to |-> m.caller, slot |-> 0]}
  /\ prevID' = [prevID EXCEPT ![p] = m.caller]
  /\ nextID' = [nextID EXCEPT ![p] = m.caller]
  /\ UNCHANGED started

JoinHere(p, m) ==
  /\ m \in net /\ m.type = "JOIN" /\ m.to = p
  /\ checkJoinPeer(p, prevID[p], nextID[p], m.caller) = thisPeer
  /\ net' = (net \ {m}) \cup {[type |-> "NOTIFY", id |-> p, to |-> m.caller, slot |-> 0]}
  /\ prevID' = [prevID EXCEPT ![p] = m.caller]
  /\ nextID' = IF nextID[p] = unknown THEN [nextID EXCEPT ![p] = m.caller] ELSE nextID
  /\ UNCHANGED started

JoinOn(p, m) ==
  /\ m \in net /\ m.type = "JOIN" /\ m.to = p
  /\ checkJoinPeer(p, prevID[p], nextID[p], m.caller) = unknownPeer
  /\ net' = (net \ {m}) \cup {[m EXCEPT !.to = nextID[p]]}
  /\ UNCHANGED <<started, prevID, nextID>>

-----------------------------------------------------------------------------
Handle(p, m) == \/ HandleStabilize(p, m) \/ HandleNotify(p, m)
                \/ JoinHere(p, m) \/ JoinOn(p, m)

Next == \/ \E p \in Peer : StartFounder(p) \/ StartJoiner(p) \/ Stabilize(p)
        \/ \E p \in Peer, m \in net : Handle(p, m)

\* The select loop serves each readable socket, the stabilizer wakes up every
\* two seconds; starting a peer is the user's choice.
ServeJoin(p, q) == \E m \in net : m.type = "JOIN" /\ m.caller = q /\ Handle(p, m)
ServeRound(p, q, s) == \E m \in net :
  /\ \/ m.type = "STABILIZE" /\ m.caller = q
     \/ m.type = "NOTIFY" /\ p = q
  /\ m.slot = s /\ Handle(p, m)

Fairness == \A p \in Peer :
  /\ WF_vars(Stabilize(p))
  /\ \A q \in Peer : WF_vars(ServeJoin(p, q))
                     /\ \A s \in 0..MaxRounds : WF_vars(ServeRound(p, q, s))

Spec == Init /\ [][Next]_vars
FairSpec == Spec /\ Fairness

-----------------------------------------------------------------------------
\* Whatever is started when, and in whatever order messages arrive, a peer
\* that has both neighbours gives up its predecessor only for one strictly
\* nearer: the range of keys it thinks it is in charge of only ever shrinks.
PrevNarrows ==
  [][\A p \in Peer :
       prevID'[p] # prevID[p] /\ prevID[p] # unknown /\ nextID[p] # unknown =>
         Between(prevID[p], prevID'[p], p)]_vars

\* No peer ever becomes its own neighbour.
NeverOwnNeighbour ==
  \A p \in Peer : prevID[p] # p /\ nextID[p] # p

\* Patient starts and one stabilizing round at a time: no member lies between a
\* peer and its predecessor, so the ranges from prevID to the own ID of no two
\* overlap.  With two rounds a late NOTIFY leads a peer past its neighbour.
NobodyPassedOver ==
  \A p \in Members : prevID[p] # unknown =>
    ~\E q \in Members \ {p} : Between(prevID[p], q, p)

\* Patient starts and one stabilizing round at a time: a successor is given up
\* only for a nearer one.
NextNarrows ==
  [][\A p \in Peer : nextID'[p] # nextID[p] /\ nextID[p] # unknown =>
       Between(p, nextID'[p], nextID[p])]_vars

\* Patient starts: everybody started ends up a member of one ring in the order
\* of the IDs, and that ring is never left again.
Converges == <>[](RightRing(started))
=============================================================================
