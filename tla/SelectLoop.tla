----------------------------- MODULE SelectLoop -----------------------------
(***************************************************************************)
(* The descriptors of one peer of Block 4, DHT/peer.c: what its select loop*)
(* accepts, opens, watches and closes, and the descriptor numbers it keeps *)
(* in its list of pending requests.  The system gives out the lowest free  *)
(* number, so a closed descriptor soon names another connection.           *)
(*                                                                         *)
(* Connections are numbered as they are made; MaxIncoming bounds those of  *)
(* clients and of LOOKUPs.  Of what the messages say (StaticRing) only the *)
(* hash ID is kept, by which a REPLY finds its request: that of a client's *)
(* call is the kind of its connection.                                     *)
(***************************************************************************)
EXTENDS Integers, Sequences, FiniteSets, SequencesExt

CONSTANTS FD,            \* the descriptor numbers there are for connections
          HereIDs,       \* hash IDs this peer is in charge of,
          NextIDs,       \* its successor is,
          FarIDs,        \* or a peer it has to ask for
          MaxIncoming,
          MaxLeft        \* clients that leave before they have their answer

LISTENER == 0
ASSUME FDAssumption == /\ FD \subseteq Nat \ {0} /\ IsFiniteSet(FD)
                       /\ MaxIncoming \in Nat /\ MaxLeft \in Nat
ASSUME HashIDAssumption ==
  /\ HereIDs \cap NextIDs = {} /\ HereIDs \cap FarIDs = {} /\ NextIDs \cap FarIDs = {}
  /\ (HereIDs \cup NextIDs \cup FarIDs) \cap {"lookup", "reply", "out", "final"} = {}

VARIABLES conn,      \* every connection made: its kind, the call it is about,
                     \* whether data and whether the end of the stream can be read
          backlog,   \* made and not yet accepted
          fds,       \* what each descriptor is
          master,    \* the set given to select
          ready,     \* read_fds from the descriptor the loop has come to
          list,      \* hashRequestInfoList
          sent,      \* answers: the call and what it was sent on
          state,     \* "run", "exited" or "full" (createConnection spins)
          clash      \* history: two requests with one hash ID have been in the
                     \* list together, the later one for a LOOKUP
vars == <<conn, backlog, fds, master, ready, list, sent, state, clash>>

Free == -1
Unwatched == -2     \* a socket opened for a LOOKUP or REPLY and forgotten
None == 0
Client == HereIDs \cup NextIDs \cup FarIDs
Kind == Client \cup {"lookup", "reply", "out", "final"}
Conn == DOMAIN conn
Entry == [caller: FD, call: Nat, finalSocket: FD \cup {None}]

TypeOK ==
  /\ conn \in Seq([kind: Kind, call: Nat, data: BOOLEAN, eof: BOOLEAN])
  /\ backlog \subseteq Conn
  /\ fds \in [FD -> Conn \cup {Free, Unwatched}]
  /\ master \subseteq FD \cup {LISTENER} /\ ready \subseteq FD \cup {LISTENER}
  /\ list \in Seq(Entry)
  /\ sent \subseteq [call: Conn, on: Conn \cup {Free, Unwatched}]
  /\ state \in {"run", "exited", "full"} /\ clash \in BOOLEAN

Init == /\ conn = <<>> /\ backlog = {}
        /\ fds = [f \in FD |-> Free]
        /\ master = {LISTENER} /\ ready = {}
        /\ list = <<>> /\ sent = {} /\ state = "run" /\ clash = FALSE

-----------------------------------------------------------------------------
\* Clients and other peers; what they do once the peer has stopped is left out.
Running == state = "run"
loopVars == <<fds, master, ready, list, sent, state, clash>>

Connect(k, call, data) ==
  /\ conn' = Append(conn, [kind |-> k, call |-> call, data |-> data, eof |-> FALSE])
  /\ backlog' = backlog \cup {Len(conn) + 1}
  /\ UNCHANGED loopVars

Incoming == {c \in Conn : conn[c].kind \in Client \cup {"lookup"}}

ClientConnects == /\ Cardinality(Incoming) < MaxIncoming
                  /\ \E k \in Client : Connect(k, Len(conn) + 1, TRUE)
PeerConnects == Cardinality(Incoming) < MaxIncoming /\ Connect("lookup", None, TRUE)

\* Not yet closed by this peer.
Connected(c) == c \in backlog \/ \E f \in FD : fds[f] = c

Left == {c \in Conn : conn[c].kind \in Client /\ conn[c].eof}

ClientLeaves(c) ==
  /\ Cardinality(Left) < MaxLeft
  /\ conn[c].kind \in Client /\ ~conn[c].eof /\ Connected(c)
  /\ conn' = [conn EXCEPT ![c].eof = TRUE]
  /\ UNCHANGED <<backlog, loopVars>>

\* Some peer answers the LOOKUP that was sent when a call was read.
ReplyComes(call) ==
  /\ conn[call].kind \in FarIDs /\ ~conn[call].data
  /\ ~\E c \in Conn : conn[c].kind = "reply" /\ conn[c].call = call
  /\ Connect("reply", call, TRUE)

\* The peer in charge answers a forwarded call and closes.
FinalComes(c) ==
  /\ conn[c].kind = "out" /\ Connected(c)
  /\ conn' = [conn EXCEPT ![c] =
                [kind |-> "final", call |-> @.call, data |-> TRUE, eof |-> TRUE]]
  /\ UNCHANGED <<backlog, loopVars>>

Environment == /\ Running
               /\ \/ ClientConnects \/ PeerConnects
                  \/ \E c \in Conn : ClientLeaves(c) \/ ReplyComes(c) \/ FinalComes(c)

-----------------------------------------------------------------------------
\* The loop.
Available == {f \in FD : fds[f] = Free}
Lowest == Min(Available)
Readable(f) == IF f = LISTENER THEN backlog # {}
               ELSE fds[f] \in Conn /\ (conn[fds[f]].data \/ conn[fds[f]].eof)

\* A slip: the loop asks for what is watched, not for what select reports.
SelectAll ==
  /\ Running /\ ready = {}
  /\ ready' = master /\ \E f \in master : Readable(f)
  /\ UNCHANGED <<conn, backlog, fds, master, list, sent, state, clash>>

Select ==
  /\ Running /\ ready = {}
  /\ ready' = {f \in master : Readable(f)} /\ ready' # {}
  /\ UNCHANGED <<conn, backlog, fds, master, list, sent, state, clash>>

\* The loop has come to descriptor i.
At(i) == Running /\ ready # {} /\ i = Min(ready) /\ ready' = ready \ {i}

Accept ==
  /\ At(LISTENER)
  /\ IF Available = {} THEN UNCHANGED <<backlog, fds, master>>
     ELSE /\ fds' = [fds EXCEPT ![Lowest] = Min(backlog)]
          /\ backlog' = backlog \ {Min(backlog)}
          /\ master' = master \cup {Lowest}
  /\ UNCHANGED <<conn, list, sent, state, clash>>

\* A message of this kind is read off connection c.
Recv(i, c, K) == At(i) /\ i \in FD /\ fds[i] = c /\ c \in Conn
                 /\ conn[c].data /\ conn[c].kind \in K

Consumed(c) == [conn EXCEPT ![c].data = FALSE]
Closed(S) == [f \in FD |-> IF f \in S THEN Free ELSE fds[f]]

HashHere(i, c) ==
  /\ Recv(i, c, HereIDs)
  /\ sent' = sent \cup {[call |-> c, on |-> c]}
  /\ conn' = Consumed(c) /\ fds' = Closed({i}) /\ master' = master \ {i}
  /\ UNCHANGED <<backlog, list, state, clash>>

\* createConnection: socket fails for ever when no descriptor is left.
NoDescriptor(i, c) ==
  /\ Recv(i, c, NextIDs \cup FarIDs \cup {"lookup", "reply"}) /\ Available = {}
  /\ state' = "full"
  /\ UNCHANGED <<conn, backlog, fds, master, list, sent, clash>>

\* Opens a watched connection to the peer in charge.
Forward(c, call) ==
  /\ Available # {}
  /\ conn' = Append(Consumed(c), [kind |-> "out", call |-> call, data |-> FALSE, eof |-> FALSE])

put_in_the_list(i, c, s) == Append(list, [caller |-> i, call |-> c, finalSocket |-> s])

HashNext(i, c) ==
  /\ Recv(i, c, NextIDs) /\ Forward(c, c)
  /\ fds' = [fds EXCEPT ![Lowest] = Len(conn')]
  /\ list' = put_in_the_list(i, c, Lowest)
  /\ master' = master \cup {Lowest}
  /\ UNCHANGED <<backlog, sent, state, clash>>

HashUnknown(i, c) ==
  /\ Recv(i, c, FarIDs) /\ Available # {}
  /\ conn' = Consumed(c)
  /\ fds' = [fds EXCEPT ![Lowest] = Unwatched]
  /\ list' = put_in_the_list(i, c, None)
  /\ clash' = (clash \/ \E k \in DOMAIN list : conn[list[k].call].kind = conn[c].kind)
  /\ UNCHANGED <<backlog, master, sent, state>>

\* The connection opened goes to the successor or to the peer that asks.
Lookup(i, c) ==
  /\ Recv(i, c, {"lookup"}) /\ Available # {}
  /\ conn' = Consumed(c)
  /\ fds' = [Closed({i}) EXCEPT ![Lowest] = Unwatched]
  /\ master' = master \ {i}
  /\ UNCHANGED <<backlog, list, sent, state, clash>>

\* A slip: the hash ID is not compared.
findAny(id) == DOMAIN list

\* findHashRequestInfo: the pending requests that have this hash ID; it takes
\* the first.
findHashRequestInfo(id) == {k \in DOMAIN list : conn[list[k].call].kind = id}

\* The request found is sent to the peer in charge and waits for its answer (if
\* none is, a null pointer is written through).
Reply(i, c) ==
  LET found == findHashRequestInfo(conn[conn[c].call].kind)
      k == Min(found) IN
  /\ Recv(i, c, {"reply"}) /\ Available # {}
  /\ IF found # {}
       THEN /\ Forward(c, list[k].call)
            /\ list' = [list EXCEPT ![k].finalSocket = Lowest]
            /\ fds' = [Closed({i}) EXCEPT ![Lowest] = Len(conn')]
            /\ master' = (master \cup {Lowest}) \ {i}
            /\ UNCHANGED state
       ELSE /\ state' = "exited"
            /\ UNCHANGED <<conn, fds, master, list>>
  /\ UNCHANGED <<backlog, sent, clash>>

\* A slip: any pending request will do.
PendingOnAny(i) == DOMAIN list

\* getClientRequestInfo: the first pending request forwarded on descriptor i.
PendingOn(i) == {k \in DOMAIN list : list[k].finalSocket = i}

remove_info_from_list(k) == RemoveAt(list, k)

Final(i, c) ==
  /\ Recv(i, c, {"final"}) /\ PendingOn(i) # {}
  /\ LET k == Min(PendingOn(i))
         caller == list[k].caller IN
     /\ sent' = sent \cup {[call |-> conn[c].call, on |-> fds[caller]]}
     /\ list' = remove_info_from_list(k)
     /\ fds' = Closed({caller, i})
     /\ master' = master \ {caller, i}
  /\ conn' = Consumed(c)
  /\ UNCHANGED <<backlog, state, clash>>

\* getClientRequestInfo returns NULL.
FinalLost(i, c) ==
  /\ Recv(i, c, {"final"}) /\ PendingOn(i) = {}
  /\ state' = "exited"
  /\ UNCHANGED <<conn, backlog, fds, master, list, sent, clash>>

\* recv returns 0 at the end of a stream, or -1 on a descriptor closed earlier
\* in this pass; one closed and opened again for a LOOKUP ends soon.  The
\* descriptor is closed and the byte nobody wrote decoded all the same: whatever
\* it is, it means some request, whose recv on the closed descriptor fails, and
\* the peer exits.
EndOfStream(i) ==
  /\ At(i) /\ i \in FD
  /\ fds[i] \in Conn => conn[fds[i]].eof /\ ~conn[fds[i]].data
  /\ fds' = Closed({i}) /\ master' = master \ {i}
  /\ state' = "exited"
  /\ UNCHANGED <<conn, backlog, list, sent, clash>>

Handle(i, c) == \/ HashHere(i, c) \/ HashNext(i, c) \/ HashUnknown(i, c)
                \/ NoDescriptor(i, c) \/ Lookup(i, c)
                \/ Reply(i, c) \/ Final(i, c) \/ FinalLost(i, c)

Loop == \/ Select \/ Accept
        \/ \E i \in FD : EndOfStream(i) \/ \E c \in Conn : Handle(i, c)

Next == Environment \/ Loop

\* The loop runs, and the other peers answer.
Fairness == /\ WF_vars(Loop)
            /\ WF_vars(Running /\ \E c \in Conn : ReplyComes(c) \/ FinalComes(c))

Spec == Init /\ [][Next]_vars
FairSpec == Spec /\ Fairness

-----------------------------------------------------------------------------
WatchedAreTheConnections == master = {LISTENER} \cup {f \in FD : fds[f] \in Conn}

\* select is given the open connections and no other descriptor (it would fail
\* and the peer exit), and the loop reads what select reported, although what it
\* does in between opens and closes descriptors: while no client leaves, it never
\* comes to one that has nothing to read, where recv would hold up every other
\* connection.
ReadsWhatIsThere ==
  /\ TypeOK /\ WatchedAreTheConnections
  /\ Left = {} /\ ready # {} => \A f \in ready : Readable(f)

\* An answer goes to the client whose call it is for, although the list keeps
\* nothing but descriptor numbers, which are soon given out again: also when
\* clients leave, and when a REPLY has found the request of another call.
OwnAnswers == \A a \in sent : a.on = a.call

\* The peer exits only when a client has left, or when two requests with one
\* hash ID have waited together: a REPLY, and an answer, finds its request.
ExitsOnlyByFault == state = "exited" => Left # {} \/ clash

\* A call is accepted and answered, unless one of these stops the peer or the
\* descriptors run out for good.
Served ==
  \A c \in 1..MaxIncoming :
    (c \in Conn /\ conn[c].kind \in Client)
      ~> (Left # {} \/ state # "run" \/ [](Available = {}) \/ [call |-> c, on |-> c] \in sent)
=============================================================================
