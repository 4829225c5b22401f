---------------------------- MODULE PeerThreads ----------------------------
(***************************************************************************)
(* The two threads of every Block 5 peer, jft.DHT/peer.c, and what they    *)
(* wait for: the mutex, held by either thread while it opens a connection, *)
(* and room in the queue of the peer connected to, which only that peer's  *)
(* main thread makes, by accepting.                                        *)
(*                                                                         *)
(* The ring is as the peers know it and does not change here; contents are *)
(* left out, so that where a handler's connection goes is a choice.        *)
(* MaxCalls and MaxJoins bound what comes from outside, MaxRounds the      *)
(* STABILIZE rounds of a peer.                                             *)
(***************************************************************************)
EXTENDS Integers, Sequences, FiniteSets

CONSTANTS Peer,
          successor,   \* nextID of each peer
          Queue,       \* connections waiting at a listener: BACKLOG (10) + 1
          MaxCalls, MaxJoins, MaxRounds

ASSUME ThreadsAssumption == /\ successor \in [Peer -> Peer]
                            /\ Queue \in Nat \ {0}
                            /\ {MaxCalls, MaxJoins, MaxRounds} \subseteq Nat

VARIABLES queue,     \* at each listener: messages on connections not accepted
          accepted,  \* at each peer: on connections accepted and not yet read
          main,      \* what the main thread does
          stab,      \* what the stabilizing thread does
          mutex,     \* who holds it
          rounds,    \* begun by each peer
          calls, joins   \* that came so far
threadVars == <<queue, accepted, main, stab, mutex, rounds, calls, joins>>

\* "slot" tells messages of one kind apart.
Message == [type: {"call", "hash", "lookup", "reply", "stabilize", "notify", "join"},
            from: Peer, slot: 0..(MaxCalls + MaxJoins + MaxRounds)]

\* Selecting; waiting for the mutex to handle m; connecting to "to" for m.
Selecting == [doing |-> "select"]
Locking(m) == [doing |-> "lock", m |-> m]
Connecting(m, to) == [doing |-> "connect", m |-> m, to |-> to]
Idle == [doing |-> "idle"]

Connections == {Connecting(m, q) : m \in Message, q \in Peer}
MainState == {Selecting} \cup {Locking(m) : m \in Message} \cup Connections
StabState == {Idle} \cup Connections

ThreadsTypeOK ==
  /\ queue \in [Peer -> Seq(Message)] /\ \A p \in Peer : Len(queue[p]) <= Queue
  /\ accepted \in [Peer -> SUBSET Message]
  /\ main \in [Peer -> MainState] /\ stab \in [Peer -> StabState]
  /\ mutex \in [Peer -> {"free", "main", "stab"}]
  /\ rounds \in [Peer -> 0..MaxRounds] /\ calls \in 0..MaxCalls /\ joins \in 0..MaxJoins

ThreadsInit ==
  /\ queue = [p \in Peer |-> <<>>] /\ accepted = [p \in Peer |-> {}]
  /\ main = [p \in Peer |-> Selecting] /\ stab = [p \in Peer |-> Idle]
  /\ mutex = [p \in Peer |-> "free"]
  /\ rounds = [p \in Peer |-> 0] /\ calls = 0 /\ joins = 0

-----------------------------------------------------------------------------
Full(p) == Len(queue[p]) = Queue
Enqueue(p, m) == queue' = [queue EXCEPT ![p] = Append(@, m)]

\* Clients and newcomers.
CallComes(p) ==
  /\ calls < MaxCalls /\ ~Full(p)
  /\ calls' = calls + 1
  /\ Enqueue(p, [type |-> "call", from |-> p, slot |-> calls'])
  /\ UNCHANGED <<accepted, main, stab, mutex, rounds, joins>>

JoinComes(p) ==
  /\ joins < MaxJoins /\ ~Full(p)
  /\ joins' = joins + 1
  /\ Enqueue(p, [type |-> "join", from |-> p, slot |-> joins'])
  /\ UNCHANGED <<accepted, main, stab, mutex, rounds, calls>>

-----------------------------------------------------------------------------
\* The stabilizing thread.
Stabilize(p) ==
  /\ stab[p] = Idle /\ mutex[p] = "free" /\ rounds[p] < MaxRounds
  /\ mutex' = [mutex EXCEPT ![p] = "stab"]
  /\ rounds' = [rounds EXCEPT ![p] = @ + 1]
  /\ stab' = [stab EXCEPT ![p] =
       Connecting([type |-> "stabilize", from |-> p, slot |-> rounds'[p]], successor[p])]
  /\ UNCHANGED <<queue, accepted, main, calls, joins>>

StabilizeSent(p) ==
  /\ stab[p] # Idle /\ ~Full(stab[p].to)
  /\ Enqueue(stab[p].to, stab[p].m)
  /\ stab' = [stab EXCEPT ![p] = Idle]
  /\ mutex' = [mutex EXCEPT ![p] = "free"]
  /\ UNCHANGED <<accepted, main, rounds, calls, joins>>

-----------------------------------------------------------------------------
\* The main thread.
Accept(p) ==
  /\ main[p] = Selecting /\ queue[p] # <<>>
  /\ accepted' = [accepted EXCEPT ![p] = @ \cup {Head(queue[p])}]
  /\ queue' = [queue EXCEPT ![p] = Tail(@)]
  /\ UNCHANGED <<main, stab, mutex, rounds, calls, joins>>

\* What a handler without the mutex connects for, and to whom; {} when it can
\* do with the connection it has.
Outgoing(p, m) ==
  CASE m.type = "call" ->
         {Connecting([m EXCEPT !.type = t, !.from = p], successor[p]) : t \in {"hash", "lookup"}}
    [] m.type = "lookup" -> {Connecting([m EXCEPT !.type = "reply", !.from = p], m.from)}
         \cup {Connecting(m, q) : q \in {successor[p]} \ {m.from}}
    [] m.type = "reply" -> {Connecting([m EXCEPT !.type = "hash", !.from = p], q) : q \in Peer \ {p}}
    [] m.type = "stabilize" -> {Connecting([m EXCEPT !.type = "notify", !.from = p], m.from)}
    [] OTHER -> {}

Handle(p, m) ==
  /\ main[p] = Selecting /\ m \in accepted[p]
  /\ accepted' = [accepted EXCEPT ![p] = @ \ {m}]
  /\ \/ m.type \in {"call", "hash"} /\ UNCHANGED main
     \/ \E c \in Outgoing(p, m) : main' = [main EXCEPT ![p] = c]
     \/ m.type \in {"notify", "join"} /\ main' = [main EXCEPT ![p] = Locking(m)]
  /\ UNCHANGED <<queue, stab, mutex, rounds, calls, joins>>

\* A NOTIFY changes nextID; a JOIN is accepted, which connects to a newcomer
\* whose queue is empty, or it is passed on.
Lock(p) ==
  /\ main[p].doing = "lock" /\ mutex[p] = "free"
  /\ LET m == main[p].m IN
     \/ main' = [main EXCEPT ![p] = Selecting] /\ UNCHANGED mutex
     \/ /\ m.type = "join"
        /\ main' = [main EXCEPT ![p] = Connecting(m, successor[p])]
        /\ mutex' = [mutex EXCEPT ![p] = "main"]
  /\ UNCHANGED <<queue, accepted, stab, rounds, calls, joins>>

\* A slip: a connection for which there is no room is given up.
ConnectedOrNot(p) ==
  /\ main[p].doing = "connect"
  /\ main' = [main EXCEPT ![p] = Selecting]
  /\ mutex' = [mutex EXCEPT ![p] = IF @ = "main" THEN "free" ELSE @]
  /\ IF Full(main[p].to) THEN UNCHANGED queue ELSE Enqueue(main[p].to, main[p].m)
  /\ UNCHANGED <<accepted, stab, rounds, calls, joins>>

\* A slip: the mutex is not released.
ConnectedLocked(p) ==
  /\ main[p].doing = "connect" /\ ~Full(main[p].to)
  /\ Enqueue(main[p].to, main[p].m)
  /\ main' = [main EXCEPT ![p] = Selecting]
  /\ UNCHANGED <<accepted, stab, mutex, rounds, calls, joins>>

Connected(p) ==
  /\ main[p].doing = "connect" /\ ~Full(main[p].to)
  /\ Enqueue(main[p].to, main[p].m)
  /\ main' = [main EXCEPT ![p] = Selecting]
  /\ mutex' = [mutex EXCEPT ![p] = IF @ = "main" THEN "free" ELSE @]
  /\ UNCHANGED <<accepted, stab, rounds, calls, joins>>

Main(p) == Accept(p) \/ Lock(p) \/ Connected(p) \/ \E m \in accepted[p] : Handle(p, m)
Stabilizing(p) == Stabilize(p) \/ StabilizeSent(p)

ThreadsNext == \E p \in Peer : CallComes(p) \/ JoinComes(p) \/ Stabilizing(p) \/ Main(p)

\* Both threads run, and a connection is made when there is room for it.
ThreadsFairness == \A p \in Peer : WF_threadVars(Main(p)) /\ WF_threadVars(Stabilizing(p))

ThreadsSpec == ThreadsInit /\ [][ThreadsNext]_threadVars
FairThreadsSpec == ThreadsSpec /\ ThreadsFairness

-----------------------------------------------------------------------------
\* nextID, nextIP and nextPort are written by the main thread, one after the other,
\* and read by the stabilizing thread; what keeps it from reading half of a change is
\* the mutex.  The stabilizing thread holds it for as long as it connects, the main
\* thread while it handles a JOIN or a NOTIFY, over the connection a JOIN is passed
\* on with, and neither keeps it any longer.
MutexHeld ==
  /\ ThreadsTypeOK
  /\ \A p \in Peer :
       /\ mutex[p] = "stab" <=> stab[p] # Idle
       /\ mutex[p] = "main" <=> main[p].doing = "connect" /\ main[p].m.type = "join"

\* What peer p's main thread is kept waiting by: the full queue it connects to,
\* or the one its other thread connects to while it holds the mutex.
WaitsFor(p, q) ==
  /\ Full(q)
  /\ \/ main[p].doing = "connect" /\ main[p].to = q
     \/ main[p].doing = "lock" /\ mutex[p] = "stab" /\ stab[p].to = q

\* Peers that wait for each other.
Deadlocked(S) == S # {} /\ \A p \in S : \E q \in S : WaitsFor(p, q)

\* Peers that wait for each other wait for ever, whatever their other threads,
\* their clients and the other peers do.
CircleStays ==
  [][\A S \in SUBSET Peer : Deadlocked(S) => Deadlocked(S)']_threadVars

\* A main thread that waits comes back to its select loop, unless peers with
\* full queues wait for each other in a circle.
ComesBackUnlessCircle ==
  \A p \in Peer : main[p] # Selecting ~>
                    (main[p] = Selecting \/ \E S \in SUBSET Peer : Deadlocked(S))
=============================================================================
