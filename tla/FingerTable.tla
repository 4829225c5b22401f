---------------------------- MODULE FingerTable ----------------------------
(***************************************************************************)
(* Block 5, jft.DHT/peer.c, in a ring that has come to rest: a FINGER      *)
(* makes a peer build its finger table, one entry per power of two, with   *)
(* LOOKUPs for the starts it cannot answer itself; meanwhile clients'      *)
(* requests are looked up, along nextID by peers without a complete table  *)
(* and along the table by the others.  What a request does to the hash     *)
(* table is StaticRing's subject, here it is only answered.                *)
(*                                                                         *)
(* IDs have Bits bits (16 in the code).  A "tag" names what a LOOKUP was   *)
(* sent for: a client's request, or entry k of the build a FINGER started; *)
(* the connection opened on its REPLY has the same tag.  The model ends    *)
(* with the first peer that stops.                                         *)
(***************************************************************************)
EXTENDS Block5Arcs, FiniteSets, SequencesExt

CONSTANTS Bits,        \* 16: the entries of a table
          Peer,        \* the node IDs
          prevID,      \* of each peer, after the joins
          nextID,
          Request,     \* the requests clients make
          hashID,      \* of the key of each
          Entry,       \* the peers it may be sent to
          MaxFingers,  \* how many FINGERs are sent
          Client, NULL

constant == exponential_of_two[Bits]
ID == 0..(constant - 1)
Index == 0..(Bits - 1)
Finger == 1..MaxFingers
Tag == Request \cup (Finger \X Index)

ASSUME SizeAssumption == Bits \in Nat \ {0} /\ MaxFingers \in Nat /\ unknown = constant
ASSUME RingAssumption ==
  /\ Peer \in SUBSET ID /\ Cardinality(Peer) > 1
  /\ prevID \in [Peer -> Peer] /\ nextID \in [Peer -> Peer]
  /\ \A p \in Peer : prevID[nextID[p]] = p /\ nextID[prevID[p]] = p
  /\ \A p \in Peer :
       \/ p < nextID[p] /\ \A q \in Peer : q <= p \/ q >= nextID[p]
       \/ p > nextID[p] /\ \A q \in Peer : q <= p /\ q >= nextID[p]
ASSUME InputAssumption ==
  /\ hashID \in [Request -> ID] /\ Entry \in [Request -> SUBSET Peer]
  /\ Client \notin Peer /\ NULL \notin Peer \cup Tag

InfoEntry == [req: Request, caller: Peer \cup {Client}, final: Tag \cup {NULL}]

Message ==
  [type: {"FINGER"}, n: Finger, to: Peer]
  \cup [type: {"HASH"}, req: Request, conn: Tag, from: Peer \cup {Client}, to: Peer]
  \cup [type: {"LOOKUP"}, tag: Tag, orig: Peer, to: Peer, id: ID]
  \cup [type: {"REPLY"}, tag: Tag, chosen: Peer, to: Peer, id: ID]
  \cup [type: {"FINAL"}, conn: Tag, to: Peer]

VARIABLES ft_Elem,      \* the peer each entry of each table names, or NULL
          socket,       \* fingerTableSocket: the FINGER it belongs to, 0 for -1
          tableCounter, required, complete,
          replaced,     \* FINGER sockets that lost their place to a later one
          infoList,     \* hashRequestInfoList of each peer
          net,
          asked,        \* requests and FINGERs that were sent
          answered,     \* requests answered and FINGERs acknowledged (FACK)
          status,       \* "up", "hung" in a recv or "down"
          clash         \* history: peers where a pending request and another LOOKUP
                        \* of the same peer had one hash ID
table == <<ft_Elem, socket, tableCounter, required, complete>>
vars == <<table, replaced, infoList, net, asked, answered, status, clash>>

TypeOK ==
  /\ ft_Elem \in [Peer -> [Index -> Peer \cup {NULL}]]
  /\ socket \in [Peer -> 0..MaxFingers] /\ tableCounter \in [Peer -> (-1)..(Bits - 1)]
  /\ required \in [Peer -> BOOLEAN] /\ complete \in [Peer -> BOOLEAN]
  /\ replaced \in [Peer -> SUBSET Finger]
  /\ infoList \in [Peer -> Seq(InfoEntry)]
  /\ net \in SUBSET Message
  /\ asked \in SUBSET (Request \cup Finger) /\ answered \in SUBSET (Request \cup Finger)
  /\ status \in [Peer -> {"up", "hung", "down"}]
  /\ clash \in SUBSET Peer

Init ==
  /\ ft_Elem = [p \in Peer |-> [i \in Index |-> NULL]]
  /\ socket = [p \in Peer |-> 0] /\ tableCounter = [p \in Peer |-> -1]
  /\ required = [p \in Peer |-> FALSE] /\ complete = [p \in Peer |-> FALSE]
  /\ replaced = [p \in Peer |-> {}]
  /\ infoList = [p \in Peer |-> <<>>]
  /\ net = {} /\ asked = {} /\ answered = {}
  /\ status = [p \in Peer |-> "up"]
  /\ clash = {}

-----------------------------------------------------------------------------
Check(p, h) == checkPeer(p, prevID[p], nextID[p], h)

Start(p, k) == (p + exponential_of_two[k]) % constant

\* Where p sends a LOOKUP it cannot answer: by its table, if that is complete.
Onwards(p, h) ==
  IF complete[p] THEN ft_Elem[p][finger_table_lookup(h, ft_Elem[p], Bits)] ELSE nextID[p]

Pass(m, out) == net' = (net \ {m}) \cup {out}

Full(ft) == \A i \in Index : ft[i] # NULL

\* LOOKUPs p is still waiting for.
Open(p) == {m \in net : \/ m.type = "LOOKUP" /\ m.orig = p
                        \/ m.type = "REPLY" /\ m.to = p}

-----------------------------------------------------------------------------
(* Clients, outside the repository.                                        *)

ClientSend(r) ==
  /\ r \notin asked /\ asked' = asked \cup {r}
  /\ \E p \in Entry[r] :
       net' = net \cup {[type |-> "HASH", req |-> r, conn |-> r, from |-> Client, to |-> p]}
  /\ UNCHANGED <<table, replaced, infoList, answered, status, clash>>

ClientFinger(n) ==
  /\ n \notin asked /\ asked' = asked \cup {n}
  /\ \E p \in Peer : net' = net \cup {[type |-> "FINGER", n |-> n, to |-> p]}
  /\ UNCHANGED <<table, replaced, infoList, answered, status, clash>>

-----------------------------------------------------------------------------
(* HASH, LOOKUP and FINAL.                                                 *)

Read(p, m, type) == m \in net /\ m.type = type /\ m.to = p

\* The answer goes to the client itself or, as FINAL, to the peer that asked.
Answer(caller, r, conn, m) ==
  /\ answered' = IF caller = Client THEN answered \cup {r} ELSE answered
  /\ net' = (net \ {m}) \cup
       {f \in {[type |-> "FINAL", conn |-> conn, to |-> caller]} : caller # Client}

HashHere(p, m) ==
  /\ Read(p, m, "HASH") /\ Check(p, hashID[m.req]) = thisPeer
  /\ Answer(m.from, m.req, m.conn, m)
  /\ UNCHANGED <<table, replaced, infoList, asked, status, clash>>

HashNext(p, m) ==
  /\ Read(p, m, "HASH") /\ Check(p, hashID[m.req]) = nextPeer
  /\ Pass(m, [m EXCEPT !.from = p, !.to = nextID[p]])
  /\ infoList' = [infoList EXCEPT ![p] =
                    Append(@, [req |-> m.req, caller |-> m.from, final |-> m.conn])]
  /\ UNCHANGED <<table, replaced, asked, answered, status, clash>>

HashUnknown(p, m) ==
  LET h == hashID[m.req] IN
  /\ Read(p, m, "HASH") /\ Check(p, h) = unknownPeer
  /\ Pass(m, [type |-> "LOOKUP", tag |-> m.req, orig |-> p, to |-> Onwards(p, h), id |-> h])
  /\ infoList' = [infoList EXCEPT ![p] =
                    Append(@, [req |-> m.req, caller |-> m.from, final |-> NULL])]
  /\ clash' = IF \/ \E i \in DOMAIN infoList[p] : hashID[infoList[p][i].req] = h
                 \/ \E o \in Open(p) : o.id = h
                THEN clash \cup {p} ELSE clash
  /\ UNCHANGED <<table, replaced, asked, answered, status>>

LookupNext(p, m) ==
  /\ Read(p, m, "LOOKUP") /\ Check(p, m.id) = nextPeer
  /\ Pass(m, [type |-> "REPLY", tag |-> m.tag, chosen |-> nextID[p],
              to |-> m.orig, id |-> m.id])
  /\ UNCHANGED <<table, replaced, infoList, asked, answered, status, clash>>

\* A slip: a peer with a table drops the LOOKUP.
LookupDropped(p, m) ==
  /\ Read(p, m, "LOOKUP") /\ Check(p, m.id) # nextPeer
  /\ IF ~complete[p] /\ Check(p, m.id) = unknownPeer
       THEN Pass(m, [m EXCEPT !.to = Onwards(p, m.id)])
       ELSE net' = net \ {m}
  /\ UNCHANGED <<table, replaced, infoList, asked, answered, status, clash>>

\* Without a table a peer in charge itself drops the LOOKUP.
LookupOn(p, m) ==
  /\ Read(p, m, "LOOKUP") /\ Check(p, m.id) # nextPeer
  /\ IF complete[p] \/ Check(p, m.id) = unknownPeer
       THEN Pass(m, [m EXCEPT !.to = Onwards(p, m.id)])
       ELSE net' = net \ {m}
  /\ UNCHANGED <<table, replaced, infoList, asked, answered, status, clash>>

HandleFinal(p, m) ==
  LET i == SelectInSeq(infoList[p], LAMBDA e : e.final = m.conn)
      e == infoList[p][i] IN
  /\ Read(p, m, "FINAL")
  /\ IF i # 0
       THEN /\ Answer(e.caller, e.req, e.req, m)
            /\ infoList' = [infoList EXCEPT ![p] = RemoveAt(@, i)]
            /\ UNCHANGED status
       ELSE /\ status' = [status EXCEPT ![p] = "down"]   \* NULL is dereferenced
            /\ net' = net \ {m} /\ UNCHANGED <<infoList, answered>>
  /\ UNCHANGED <<table, replaced, asked, clash>>

-----------------------------------------------------------------------------
\* A slip: the first entry that is still empty.
check_finger_table_first(p, id) ==
  {k \in Index : ft_Elem[p][k] = NULL /\ \A j \in 0..(k - 1) : ft_Elem[p][j] # NULL}

\* check_finger_table_input: the entries (one or none) that start at this ID.
check_finger_table_input(p, id) == {k \in Index : Start(p, k) = id}

\* Two slips: finalSocket is not set; completeness is tested before the entry is filled.
HandleReplyNoFinal(p, m) ==
  LET building == required[p] /\ ~complete[p]
      ft == [k \in Index |->
               IF building /\ k \in check_finger_table_input(p, m.id) /\ ft_Elem[p][k] = NULL
                 THEN m.chosen ELSE ft_Elem[p][k]]
      done == building /\ Full(ft)
      i == SelectInSeq(infoList[p], LAMBDA e : hashID[e.req] = m.id)
  IN
  /\ Read(p, m, "REPLY")
  /\ ft_Elem' = [ft_Elem EXCEPT ![p] = ft]
  /\ complete' = [complete EXCEPT ![p] = @ \/ done]
  /\ answered' = IF done THEN answered \cup {socket[p]} ELSE answered
  /\ socket' = IF done THEN [socket EXCEPT ![p] = 0] ELSE socket
  /\ IF i = 0
       THEN net' = net \ {m} /\ UNCHANGED infoList
       ELSE /\ Pass(m, [type |-> "HASH", req |-> infoList[p][i].req, conn |-> m.tag,
                        from |-> p, to |-> m.chosen])
            /\ UNCHANGED infoList
  /\ UNCHANGED <<tableCounter, required, replaced, asked, status, clash>>

HandleReplyLate(p, m) ==
  LET building == required[p] /\ ~complete[p]
      ft == [k \in Index |->
               IF building /\ k \in check_finger_table_input(p, m.id) /\ ft_Elem[p][k] = NULL
                 THEN m.chosen ELSE ft_Elem[p][k]]
      done == building /\ Full(ft_Elem[p])
      i == SelectInSeq(infoList[p], LAMBDA e : hashID[e.req] = m.id)
  IN
  /\ Read(p, m, "REPLY")
  /\ ft_Elem' = [ft_Elem EXCEPT ![p] = ft]
  /\ complete' = [complete EXCEPT ![p] = @ \/ done]
  /\ answered' = IF done THEN answered \cup {socket[p]} ELSE answered
  /\ socket' = IF done THEN [socket EXCEPT ![p] = 0] ELSE socket
  /\ IF i = 0
       THEN net' = net \ {m} /\ UNCHANGED infoList
       ELSE /\ Pass(m, [type |-> "HASH", req |-> infoList[p][i].req, conn |-> m.tag,
                        from |-> p, to |-> m.chosen])
            /\ infoList' = [infoList EXCEPT ![p][i].final = m.tag]
  /\ UNCHANGED <<tableCounter, required, replaced, asked, status, clash>>

\* A REPLY fills the entry that starts at its ID, whatever it was meant for,
\* and forwards the first pending request with that ID, if there is one.
HandleReply(p, m) ==
  LET building == required[p] /\ ~complete[p]
      ft == [k \in Index |->
               IF building /\ k \in check_finger_table_input(p, m.id) /\ ft_Elem[p][k] = NULL
                 THEN m.chosen ELSE ft_Elem[p][k]]
      done == building /\ Full(ft)
      i == SelectInSeq(infoList[p], LAMBDA e : hashID[e.req] = m.id)
  IN
  /\ Read(p, m, "REPLY")
  /\ ft_Elem' = [ft_Elem EXCEPT ![p] = ft]
  /\ complete' = [complete EXCEPT ![p] = @ \/ done]
  /\ answered' = IF done THEN answered \cup {socket[p]} ELSE answered
  /\ socket' = IF done THEN [socket EXCEPT ![p] = 0] ELSE socket
  /\ IF i = 0
       THEN net' = net \ {m} /\ UNCHANGED infoList
       ELSE /\ Pass(m, [type |-> "HASH", req |-> infoList[p][i].req, conn |-> m.tag,
                        from |-> p, to |-> m.chosen])
            /\ infoList' = [infoList EXCEPT ![p][i].final = m.tag]
  /\ UNCHANGED <<tableCounter, required, replaced, asked, status, clash>>

-----------------------------------------------------------------------------
\* The table starts afresh; only the first byte of the FINGER is read, so its
\* socket stays readable and each pass of the loop builds on.
HandleFinger(p, m) ==
  /\ Read(p, m, "FINGER")
  /\ ft_Elem' = [ft_Elem EXCEPT ![p] = [i \in Index |-> IF i = 0 THEN nextID[p] ELSE NULL]]
  /\ socket' = [socket EXCEPT ![p] = m.n]
  /\ tableCounter' = [tableCounter EXCEPT ![p] = 0]
  /\ required' = [required EXCEPT ![p] = TRUE]
  /\ complete' = [complete EXCEPT ![p] = FALSE]
  /\ replaced' = [replaced EXCEPT ![p] = @ \cup ({socket[p]} \ {0})]
  /\ net' = net \ {m}
  /\ UNCHANGED <<infoList, asked, answered, status, clash>>

\* A FINGER socket that lost its place is read like any other: the rest of its
\* FINGER is taken for a request.  Zeros make a HASH of no length, whose data
\* never ends; other bytes may mean nothing and change nothing.
ReadReplaced(p) ==
  /\ replaced[p] # {}
  /\ status' = [status EXCEPT ![p] = "hung"]
  /\ UNCHANGED <<table, replaced, infoList, net, asked, answered, clash>>

Building(p) == /\ socket[p] # 0 /\ tableCounter[p] \in 0..(Bits - 2)
               /\ ft_Elem[p][tableCounter[p]] # NULL

\* The next entry starts before the successor: it is known at once.
BuildNext(p) ==
  LET k == tableCounter[p] + 1 IN
  /\ Building(p) /\ Check(p, Start(p, k)) = nextPeer
  /\ ft_Elem' = [ft_Elem EXCEPT ![p][k] = nextID[p]]
  /\ tableCounter' = [tableCounter EXCEPT ![p] = k]
  /\ IF k = Bits - 1
       THEN /\ complete' = [complete EXCEPT ![p] = TRUE]
            /\ answered' = answered \cup {socket[p]}
            /\ socket' = [socket EXCEPT ![p] = 0]
       ELSE UNCHANGED <<complete, answered, socket>>
  /\ UNCHANGED <<required, replaced, infoList, net, asked, status, clash>>

\* Otherwise it is looked up with the entries there are, and the loop waits
\* for this entry before it goes on.
BuildLookup(p) ==
  LET k == tableCounter[p] + 1
      s == Start(p, k)
      q == ft_Elem[p][finger_table_lookup(s, ft_Elem[p], k)] IN
  /\ Building(p) /\ Check(p, s) # nextPeer
  /\ net' = net \cup {[type |-> "LOOKUP", tag |-> <<socket[p], k>>, orig |-> p, to |-> q, id |-> s]}
  /\ tableCounter' = [tableCounter EXCEPT ![p] = k]
  /\ clash' = IF \E i \in DOMAIN infoList[p] : hashID[infoList[p][i].req] = s
                THEN clash \cup {p} ELSE clash
  /\ UNCHANGED <<ft_Elem, socket, required, complete, replaced, infoList, asked, answered,
                 status>>

-----------------------------------------------------------------------------
Handle(p, m) == \/ HashHere(p, m) \/ HashNext(p, m) \/ HashUnknown(p, m)
                \/ LookupNext(p, m) \/ LookupOn(p, m)
                \/ HandleReply(p, m) \/ HandleFinal(p, m) \/ HandleFinger(p, m)

Build(p) == BuildNext(p) \/ BuildLookup(p)

AllUp == \A p \in Peer : status[p] = "up"

Next == /\ AllUp
        /\ \/ \E r \in Request : ClientSend(r)
           \/ \E n \in Finger : ClientFinger(n)
           \/ \E p \in Peer : Build(p) \/ ReadReplaced(p)
           \/ \E p \in Peer, m \in net : Handle(p, m)

\* The select loop serves every readable socket, the FINGER's among them.
Serve(p, t) == AllUp /\ \E m \in net :
  /\ \/ m.type \in {"HASH", "FINAL"} /\ m.conn = t
     \/ m.type \in {"LOOKUP", "REPLY"} /\ m.tag = t
  /\ Handle(p, m)
ServeFinger(p, n) == AllUp /\ \E m \in net : m.type = "FINGER" /\ m.n = n /\ Handle(p, m)

Fairness == \A p \in Peer :
  /\ WF_vars(AllUp /\ Build(p))
  /\ \A t \in Tag : WF_vars(Serve(p, t))
  /\ \A n \in Finger : WF_vars(ServeFinger(p, n))

Spec == Init /\ [][Next]_vars
FairSpec == Spec /\ Fairness

-----------------------------------------------------------------------------
\* The smallest ID: as a hash value it lies in no arc (see RingArcs).
Lowest == CHOOSE p \in Peer : \A q \in Peer : p <= q

EntriesRight ==
  \A p \in Peer, k \in Index :
    ft_Elem[p][k] # NULL => Start(p, k) = Lowest \/ Check(ft_Elem[p][k], Start(p, k)) = thisPeer

FilledFromBelow ==
  \A p \in Peer : /\ \A i \in 0..(tableCounter[p] - 1) : ft_Elem[p][i] # NULL
                  /\ complete[p] => Full(ft_Elem[p])

\* Every entry of every table names the peer in charge of the ID it starts at,
\* and no lookup reads an entry that is NULL, however REPLYs of this build, of
\* an earlier one and of clients' requests mix and whatever a late one fills
\* ahead of the counter.
TablesRight == TypeOK /\ EntriesRight /\ FilledFromBelow

\* A LOOKUP never overshoots: whoever has it lies strictly between the peer
\* that asks and the hash value, so it never meets the peer in charge
\* ("There won't be the case of thisPeer with LOOKUP", jft.DHT/peer.c:344).
NeverOvershoots ==
  \A m \in net : m.type = "LOOKUP" /\ m.id # Lowest =>
    Between(m.orig, m.to, m.id) /\ Check(m.to, m.id) # thisPeer

\* Building a table brings its peer down only if a pending request has the ID
\* of one of its entries or of another request: it is then forwarded on two
\* connections, and the answer on the first belongs to nobody.
DownOnlyAfterClash == \A p \in Peer : status[p] = "down" => p \in clash

\* Every FINGER is acknowledged, unless an entry starts at the smallest ID.
TableBuilt ==
  \A n \in Finger :
    n \in asked ~> \/ n \in answered \/ ~AllUp
                   \/ \E p \in Peer : \/ n \in replaced[p]
                                      \/ socket[p] = n /\ \E k \in Index : Start(p, k) = Lowest

\* Every request is answered while tables come and go.
Served ==
  \A r \in Request : r \in asked /\ hashID[r] # Lowest ~> r \in answered \/ ~AllUp
=============================================================================
