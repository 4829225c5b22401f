----------------------------- MODULE StaticRing -----------------------------
(***************************************************************************)
(* Block 4, DHT/peer.c: a ring of peers whose neighbours are fixed on the  *)
(* command line.  A client sends one SET, GET or DEL to any peer.  A peer  *)
(* that is not in charge hands the request to its successor, or sends a    *)
(* LOOKUP around the ring, is told in a REPLY who is in charge, and sends  *)
(* the request there; the answer (FINAL) comes back on that connection and *)
(* is passed to the client.                                                *)
(*                                                                         *)
(* A peer is one process, one thread: each action is one pass of the body  *)
(* of its select loop for one readable socket.  Every message travels on a *)
(* TCP connection of its own (peers open one per message), so messages of  *)
(* different connections overtake each other: net is a set.  "conn" names  *)
(* the client connection a message was sent for.                           *)
(***************************************************************************)
EXTENDS RingArcs, TableOps, FiniteSets, SequencesExt

CONSTANTS Peer,        \* the node IDs
          prevID,      \* argv[4] of each peer: its predecessor
          nextID,      \* argv[7] of each peer: its successor
          Request,     \* the connections clients make, one request each
          Entry,       \* the peers the client of a request may know
          hashID,      \* the first two bytes of each key
          Client,      \* the other end of a connection that is not a peer's
          MaxAborts    \* how many clients may leave without their answer

\* The peers are started as a ring in the order of their IDs.
ASSUME RingAssumption ==
  /\ Peer \in SUBSET Nat /\ Peer # {}
  /\ prevID \in [Peer -> Peer] /\ nextID \in [Peer -> Peer]
  /\ \A p \in Peer : prevID[nextID[p]] = p /\ nextID[prevID[p]] = p
  /\ \A p \in Peer :
       \/ p < nextID[p] /\ \A q \in Peer : q <= p \/ q >= nextID[p]
       \/ p > nextID[p] /\ \A q \in Peer : q <= p /\ q >= nextID[p]

ASSUME InputAssumption ==
  /\ Entry \in [Request -> SUBSET Peer]
  /\ hashID \in [Key -> HashID]
  /\ Client \notin Peer /\ None \notin Call \cup Response \cup Request
  /\ None \notin Key \cup Value
  /\ MaxAborts \in Nat

\* One element of hashRequestInfoList: the connection and the end of it the
\* request came from (callerSocket), and the forwarded connection
\* (finalSocket; None until one is open).
InfoEntry == [conn: Request, caller: Peer \cup {Client}, call: Call,
              final: Request \cup {None}]

Message ==
  [type: {"HASH"}, conn: Request, from: Peer \cup {Client}, to: Peer, call: Call]
  \cup [type: {"LOOKUP"}, conn: Request, orig: Peer, to: Peer, id: HashID]
  \cup [type: {"REPLY"}, conn: Request, chosen: Peer, to: Peer, id: HashID]
  \cup [type: {"FINAL"}, conn: Request, to: Peer, res: Response]

VARIABLES status,     \* "up", "hung" in createConnection, or "down" (exited)
          infoList,   \* hashRequestInfoList of each peer
          hTab,       \* the hash table of each peer
          net,        \* sent and not yet read
          call,       \* what the client of each request asked
          answer,     \* what the entry peer sent back on that connection
          gone,       \* clients that closed their connection unanswered
          clash       \* history: peers that once had two requests with the
                      \* same hash ID waiting for a REPLY
vars == <<status, infoList, hTab, net, call, answer, gone, clash>>

TypeOK ==
  /\ status \in [Peer -> {"up", "hung", "down"}]
  /\ infoList \in [Peer -> Seq(InfoEntry)]
  /\ hTab \in [Peer -> [Key -> Value \cup {None}]]
  /\ net \in SUBSET Message
  /\ call \in [Request -> Call \cup {None}]
  /\ answer \in [Request -> Response \cup {None}]
  /\ gone \in SUBSET Request
  /\ clash \in SUBSET Peer

Init ==
  /\ status = [p \in Peer |-> "up"]
  /\ infoList = [p \in Peer |-> <<>>]
  /\ hTab = [p \in Peer |-> [k \in Key |-> None]]
  /\ net = {}
  /\ call = [r \in Request |-> None]
  /\ answer = [r \in Request |-> None]
  /\ gone = {} /\ clash = {}

-----------------------------------------------------------------------------
Hash(id) == ringHashing(id)

\* What p makes of a hash value, with the neighbours it was started with.
Check(p, h) == checkPeer(p, prevID[p], nextID[p], h)

\* A slip: the successor's keys are taken for one's own.
InChargeOrNext(p, k) == Check(p, Hash(hashID[k])) # unknownPeer

InCharge(p, k) == Check(p, Hash(hashID[k])) = thisPeer

\* The socket p opens to q: refused, and retried without end, once q exited.
Connects(q) == status[q] # "down"

\* p has read m and sends out on a new connection, or hangs.
Pass(p, m, out) ==
  /\ net' = (net \ {m}) \cup {o \in {out} : Connects(o.to)}
  /\ status' = IF Connects(out.to) THEN status ELSE [status EXCEPT ![p] = "hung"]

\* A response goes to the client itself or, as FINAL, to the peer that opened
\* the connection.
ToClient(r, caller, res) ==
  answer' = IF caller = Client THEN [answer EXCEPT ![r] = res] ELSE answer

ToPeer(r, caller, res) ==
  {f \in {[type |-> "FINAL", conn |-> r, to |-> caller, res |-> res]} : caller # Client}

Info(m) == [conn |-> m.conn, caller |-> m.from, call |-> m.call, final |-> None]

-----------------------------------------------------------------------------
(* The clients (code outside the repository; at most one request each).    *)

ClientSend(r) ==
  /\ call[r] = None
  /\ \E c \in Call, p \in Entry[r] :
       /\ Connects(p)
       /\ call' = [call EXCEPT ![r] = c]
       /\ net' = net \cup {[type |-> "HASH", conn |-> r, from |-> Client,
                            to |-> p, call |-> c]}
  /\ UNCHANGED <<status, infoList, hTab, answer, gone, clash>>

ClientAbort(r) ==
  /\ call[r] # None /\ answer[r] = None /\ r \notin gone
  /\ Cardinality(gone) < MaxAborts
  /\ gone' = gone \cup {r}
  /\ UNCHANGED <<status, infoList, hTab, net, call, answer, clash>>

-----------------------------------------------------------------------------
(* HASH: three cases, by who is in charge.                                 *)

ReadHash(p, m) == m \in net /\ m.type = "HASH" /\ m.to = p /\ status[p] = "up"

\* The request is executed, answered and its connection closed.
HashHere(p, m) ==
  /\ ReadHash(p, m) /\ InCharge(p, m.call.key)
  /\ hTab' = [hTab EXCEPT ![p] = Apply(hTab[p], m.call)]
  /\ ToClient(m.conn, m.from, Result(hTab[p], m.call))
  /\ net' = (net \ {m}) \cup ToPeer(m.conn, m.from, Result(hTab[p], m.call))
  /\ UNCHANGED <<status, infoList, call, gone, clash>>

\* The request joins the list and is forwarded as it came.
HashNext(p, m) ==
  /\ ReadHash(p, m) /\ Check(p, Hash(hashID[m.call.key])) = nextPeer
  /\ Pass(p, m, [type |-> "HASH", conn |-> m.conn, from |-> p,
                 to |-> nextID[p], call |-> m.call])
  /\ infoList' = [infoList EXCEPT ![p] = Append(@,
                    [Info(m) EXCEPT !.final = IF Connects(nextID[p]) THEN m.conn ELSE None])]
  /\ UNCHANGED <<hTab, call, answer, gone, clash>>

\* The request joins the list and a LOOKUP leaves in its place.
HashUnknown(p, m) ==
  LET id == hashID[m.call.key] IN
  /\ ReadHash(p, m) /\ Check(p, Hash(id)) = unknownPeer
  /\ Pass(p, m, [type |-> "LOOKUP", conn |-> m.conn, orig |-> p,
                 to |-> nextID[p], id |-> id])
  /\ infoList' = [infoList EXCEPT ![p] = Append(@, Info(m))]
  /\ clash' = IF \E i \in DOMAIN infoList[p] : hashID[infoList[p][i].call.key] = id
                THEN clash \cup {p} ELSE clash
  /\ UNCHANGED <<hTab, call, answer, gone>>

-----------------------------------------------------------------------------
ReadLookup(p, m) == m \in net /\ m.type = "LOOKUP" /\ m.to = p /\ status[p] = "up"

\* A slip: the REPLY carries the address of its sender.
LookupNextSelf(p, m) ==
  /\ ReadLookup(p, m) /\ Check(p, Hash(m.id)) = nextPeer
  /\ Pass(p, m, [type |-> "REPLY", conn |-> m.conn, chosen |-> p,
                 to |-> m.orig, id |-> m.id])
  /\ UNCHANGED <<infoList, hTab, call, answer, gone, clash>>

\* The successor is in charge: its address goes to the peer that asked.
LookupNext(p, m) ==
  /\ ReadLookup(p, m) /\ Check(p, Hash(m.id)) = nextPeer
  /\ Pass(p, m, [type |-> "REPLY", conn |-> m.conn, chosen |-> nextID[p],
                 to |-> m.orig, id |-> m.id])
  /\ UNCHANGED <<infoList, hTab, call, answer, gone, clash>>

\* A slip: a LOOKUP the successor is not in charge of is dropped.
LookupDropped(p, m) ==
  /\ ReadLookup(p, m) /\ Check(p, Hash(m.id)) # nextPeer
  /\ net' = net \ {m}
  /\ UNCHANGED <<status, infoList, hTab, call, answer, gone, clash>>

\* Otherwise the LOOKUP travels on; a peer in charge itself would drop it.
LookupOn(p, m) ==
  /\ ReadLookup(p, m) /\ Check(p, Hash(m.id)) # nextPeer
  /\ IF Check(p, Hash(m.id)) = unknownPeer
       THEN Pass(p, m, [m EXCEPT !.to = nextID[p]])
       ELSE net' = net \ {m} /\ UNCHANGED status
  /\ UNCHANGED <<infoList, hTab, call, answer, gone, clash>>

-----------------------------------------------------------------------------
\* findHashRequestInfo: the first pending request with this hash ID (0: NULL).
findHashRequestInfo(p, id) ==
  SelectInSeq(infoList[p], LAMBDA e : hashID[e.call.key] = id)

\* Two slips: finalSocket is not set; the REPLY is not taken off its socket.
HandleReplyNoFinal(p, m) ==
  LET i == findHashRequestInfo(p, m.id) IN
  /\ m \in net /\ m.type = "REPLY" /\ m.to = p /\ status[p] = "up"
  /\ i # 0 /\ Connects(m.chosen)
  /\ net' = (net \ {m}) \cup {[type |-> "HASH", conn |-> m.conn, from |-> p,
                              to |-> m.chosen, call |-> infoList[p][i].call]}
  /\ UNCHANGED <<status, infoList, hTab, call, answer, gone, clash>>

HandleReplyAgain(p, m) ==
  LET i == findHashRequestInfo(p, m.id) IN
  /\ m \in net /\ m.type = "REPLY" /\ m.to = p /\ status[p] = "up"
  /\ i # 0 /\ Connects(m.chosen)
  /\ net' = net \cup {[type |-> "HASH", conn |-> m.conn, from |-> p,
                       to |-> m.chosen, call |-> infoList[p][i].call]}
  /\ infoList' = [infoList EXCEPT ![p][i].final = m.conn]
  /\ UNCHANGED <<status, hTab, call, answer, gone, clash>>

\* The peer that asked connects to the chosen one and only then looks for the
\* request, which it takes for granted (NULL: the process dies).
HandleReply(p, m) ==
  LET i == findHashRequestInfo(p, m.id) IN
  /\ m \in net /\ m.type = "REPLY" /\ m.to = p /\ status[p] = "up"
  /\ IF Connects(m.chosen) /\ i # 0
       THEN /\ net' = (net \ {m}) \cup {[type |-> "HASH", conn |-> m.conn, from |-> p,
                                        to |-> m.chosen, call |-> infoList[p][i].call]}
            /\ infoList' = [infoList EXCEPT ![p][i].final = m.conn]
            /\ UNCHANGED status
       ELSE /\ net' = net \ {m}
            /\ status' = [status EXCEPT ![p] = IF Connects(m.chosen) THEN "down" ELSE "hung"]
            /\ UNCHANGED infoList
  /\ UNCHANGED <<hTab, call, answer, gone, clash>>

-----------------------------------------------------------------------------
\* A slip: the connection is not compared.
getClientRequestInfoByOp(p, m) ==
  SelectInSeq(infoList[p], LAMBDA e : e.call.op = m.res.op)

\* getClientRequestInfo: the first pending request forwarded on the connection
\* the response came in on, with the operation the response acknowledges.
getClientRequestInfo(p, m) ==
  SelectInSeq(infoList[p], LAMBDA e : e.final = m.conn /\ e.call.op = m.res.op)

ReadFinal(p, m) == m \in net /\ m.type = "FINAL" /\ m.to = p /\ status[p] = "up"

\* The response is passed to the caller.  A caller that has left may have been
\* reported readable in the same pass: its closed socket is then read.
HandleFinal(p, m) ==
  LET i == getClientRequestInfo(p, m)
      e == infoList[p][i] IN
  /\ ReadFinal(p, m) /\ i # 0
  /\ ToClient(e.conn, e.caller, m.res)
  /\ net' = (net \ {m}) \cup ToPeer(e.conn, e.caller, m.res)
  /\ infoList' = [infoList EXCEPT ![p] = RemoveAt(@, i)]
  /\ \/ UNCHANGED status
     \/ e.conn \in gone /\ status' = [status EXCEPT ![p] = "down"]
  /\ UNCHANGED <<hTab, call, gone, clash>>

\* No request of that connection is pending: NULL is dereferenced.
StrayFinal(p, m) ==
  /\ ReadFinal(p, m) /\ getClientRequestInfo(p, m) = 0
  /\ net' = net \ {m}
  /\ status' = [status EXCEPT ![p] = "down"]
  /\ UNCHANGED <<infoList, hTab, call, answer, gone, clash>>

-----------------------------------------------------------------------------
\* The connections p still watches whose other end is closed: a caller that
\* left, a forwarded request whose receiver exited before it read it.
Severed(p) ==
  {infoList[p][i] : i \in {j \in DOMAIN infoList[p] :
      LET e == infoList[p][j] IN
      IF e.caller = Client THEN e.conn \in gone ELSE status[e.caller] = "down"}}
  \cup {m \in net : m.type = "HASH" /\ m.from = p /\ status[m.to] = "down"}

\* recv finds the end of the stream; the socket is closed but its first byte
\* is decoded all the same, and the next recv on it makes the peer exit.
ReadEOF(p) ==
  /\ status[p] = "up" /\ Severed(p) # {}
  /\ status' = [status EXCEPT ![p] = "down"]
  /\ UNCHANGED <<infoList, hTab, net, call, answer, gone, clash>>

-----------------------------------------------------------------------------
Handle(p, m) == \/ HashHere(p, m) \/ HashNext(p, m) \/ HashUnknown(p, m)
                \/ LookupNext(p, m) \/ LookupOn(p, m)
                \/ HandleReply(p, m)
                \/ HandleFinal(p, m) \/ StrayFinal(p, m)

Next == \/ \E r \in Request : ClientSend(r) \/ ClientAbort(r)
        \/ \E p \in Peer : ReadEOF(p)
        \/ \E p \in Peer, m \in net : Handle(p, m)

\* select reports every readable socket and the loop serves each one it
\* reports, so what was sent to a running peer is read; clients owe nothing.
Serve(p, r) == \E m \in net : m.conn = r /\ Handle(p, m)

Fairness == \A p \in Peer, r \in Request : WF_vars(Serve(p, r))

Spec == Init /\ [][Next]_vars
FairSpec == Spec /\ Fairness

-----------------------------------------------------------------------------
\* Some peer is in charge of the key (none is of the smallest node ID).
Owned(k) == \E p \in Peer : InCharge(p, k)
Owner(k) == CHOOSE p \in Peer : InCharge(p, k)

\* "There won't be the case of thisPeer with LOOKUP" (DHT/peer.c:231), and
\* what rests on it: a request that a peer forwards, or is told to forward,
\* goes to the peer in charge, which is why an answer comes from one hop away.
RoutedRight(m) ==
  /\ m.type = "LOOKUP" => Check(m.to, Hash(m.id)) # thisPeer
  /\ m.type = "REPLY" => Check(m.chosen, Hash(m.id)) = thisPeer
  /\ m.type = "HASH" /\ m.from # Client => InCharge(m.to, m.call.key)

NeverMisrouted == \A m \in net : RoutedRight(m)

\* A request never multiplies: of all the LOOKUPs, REPLYs, forwarded requests
\* and FINALs made for one client connection at most one is under way, also
\* when the answer to one request is found to belong to another's entry.
OneUnderWay ==
  \A m, n \in net : m.conn = n.conn => m = n

\* Pending requests are matched to answers by the forwarded connection, so no
\* client is told the outcome of another client's request.
AnswersMatchCalls ==
  \A r \in Request : answer[r] # None =>
    /\ call[r] # None /\ answer[r].op = call[r].op
    /\ answer[r].key \in {None, call[r].key}
    /\ answer[r].val # None =>
         \E s \in Request : call[s] # None /\ call[s].key = call[r].key
                              /\ call[s].val = answer[r].val

\* A peer exits or hangs only if a client has left unanswered, or two requests
\* for one hash ID have waited for their REPLY at one peer.
StoppedOnlyByFault ==
  (\E p \in Peer : status[p] # "up") => gone # {} \/ clash # {}

\* Unless that happens, a request for a key with a peer in charge is answered,
\* however the requests at all peers interleave.
Served ==
  \A r \in Request :
    (call[r] # None /\ Owned(call[r].key)) ~> (answer[r] # None \/ gone # {} \/ clash # {})

-----------------------------------------------------------------------------
\* What a request has achieved: its answer, or the FINAL that carries it.
outcome == [r \in Request |->
  IF answer[r] # None THEN answer[r]
  ELSE IF \E m \in net : m.type = "FINAL" /\ m.conn = r
    THEN (CHOOSE m \in net : m.type = "FINAL" /\ m.conn = r).res
    ELSE None]

store == [k \in Key |-> IF Owned(k) THEN hTab[Owner(k)][k] ELSE None]

KV == INSTANCE KVStore WITH store <- store, call <- call, outcome <- outcome, answer <- answer

\* The ring implements one linearizable map, with any number of clients at a
\* peer, also when clients leave and peers stop, until two requests with one
\* hash ID wait at one peer together (which may then be executed twice).
ImplementsUntilClash ==
  KV!KVInit /\ [][clash' = {} => KV!KVNext]_(KV!kvVars)
=============================================================================
