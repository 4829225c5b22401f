---------------------------- MODULE DynamicRing ----------------------------
(***************************************************************************)
(* Block 5, jft.DHT/peer.c: requests while peers join.  The membership is  *)
(* that of RingMembership; HASH, LOOKUP, REPLY and FINAL read the          *)
(* neighbours at whatever stage they are.  A peer without successor thinks *)
(* it is in charge of every key, a request may be forwarded to a peer that *)
(* has just lost its key, and a LOOKUP may meet the peer in charge.        *)
(*                                                                         *)
(* A request r reaches its first peer on connection <<r, 0>>; a peer that  *)
(* got it on <<r, n>> opens <<r, n + 1>> for it.  MaxHops bounds n.  No    *)
(* FINGER is sent.  The model ends with the first peer that exits.         *)
(***************************************************************************)
EXTENDS Block5Arcs, TableOps, FiniteSets, SequencesExt

CONSTANTS Peer, MaxRounds, Patient,   \* see RingMembership
          Request,   \* the connections clients make, one request each
          Asks,      \* what the client of each may ask
          Entry,     \* and of whom, once that peer has been started
          keyID,     \* the first two bytes of each key, a zero for a missing one
          Short,     \* the keys of one byte
          Client, MaxHops

ASSUME MembershipAssumption ==
  /\ Peer \in SUBSET Nat /\ unknown \in Nat /\ \A p \in Peer : p < unknown
  /\ MaxRounds \in Nat /\ Patient \in BOOLEAN

ASSUME PeersAssumption == IsFiniteSet(Peer)

ASSUME RequestAssumption ==
  /\ Asks \in [Request -> SUBSET Call] /\ Entry \in [Request -> SUBSET Peer]
  /\ keyID \in [Key -> (0..255) \X (0..255)] /\ Short \in SUBSET Key
  /\ \A k \in Short : keyID[k][2] = 0
  /\ Client \notin Peer /\ MaxHops \in Nat
  /\ None \notin Key \cup Value \cup Call \cup Response \cup (Request \X (0..MaxHops))

Conn == Request \X (0..MaxHops)

\* Whose request it is, callerSocket (the connection it came on and who opened
\* it) and finalSocket.
InfoEntry == [req: Request, conn: Conn, caller: Peer \cup {Client}, final: Conn \cup {None}]

Message ==
  [type: {"HASH"}, req: Request, conn: Conn, from: Peer \cup {Client}, to: Peer]
  \cup [type: {"LOOKUP"}, conn: Conn, orig: Peer, to: Peer, id: (0..255) \X (0..255)]
  \cup [type: {"REPLY"}, conn: Conn, chosen: Peer, to: Peer, id: (0..255) \X (0..255)]
  \cup [type: {"FINAL"}, conn: Conn, to: Peer, res: Response]

VARIABLES started, prevID, nextID, mnet,   \* the membership, mnet its messages
          infoList, hTab, net, call, answer,
          down,       \* peers that exited
          ran,        \* history: requests that were executed
          dropped,    \* history: requests whose LOOKUP a peer in charge dropped
          clash       \* history: peers where a LOOKUP left while a request was pending that
                      \* its REPLY may be taken for
members == <<started, prevID, nextID, mnet>>
vars == <<members, infoList, hTab, net, call, answer, down, ran, dropped, clash>>

M == INSTANCE RingMembership WITH net <- mnet

TypeOK ==
  /\ M!TypeOK
  /\ infoList \in [Peer -> Seq(InfoEntry)]
  /\ hTab \in [Peer -> [Key -> Value \cup {None}]]
  /\ net \in SUBSET Message
  /\ call \in [Request -> Call \cup {None}]
  /\ answer \in [Request -> Response \cup {None}]
  /\ down \in SUBSET Peer /\ ran \in SUBSET Request /\ dropped \in SUBSET Request /\ clash \in SUBSET Peer

Init ==
  /\ M!Init
  /\ infoList = [p \in Peer |-> <<>>]
  /\ hTab = [p \in Peer |-> [k \in Key |-> None]]
  /\ net = {}
  /\ call = [r \in Request |-> None]
  /\ answer = [r \in Request |-> None]
  /\ down = {} /\ ran = {} /\ dropped = {} /\ clash = {}

-----------------------------------------------------------------------------
Check(p, id) == checkPeer(p, prevID[p], nextID[p], ringHashing(id))

InCharge(p, k) == Check(p, keyID[k]) = thisPeer

Pass(m, out) == net' = (net \ {m}) \cup {out}

\* The connection opened for what came on c.
Further(c) == <<c[1], c[2] + 1>>

Info(m, final) == [req |-> m.req, conn |-> m.conn, caller |-> m.from, final |-> final]

\* The hash ID of what a message or an entry of the list carries.
IDOf(m) == keyID[call[m.req].key]

\* The answer goes to the client itself or, as FINAL, to the peer that asked.
Answer(m, conn, caller, res) ==
  /\ answer' = IF caller = Client THEN [answer EXCEPT ![conn[1]] = res] ELSE answer
  /\ net' = (net \ {m}) \cup
       {f \in {[type |-> "FINAL", conn |-> conn, to |-> caller, res |-> res]} : caller # Client}

\* hashRequestInfoList: a new request goes to the end, an answered one leaves.
put_in_the_list(p, e) == [infoList EXCEPT ![p] = Append(@, e)]
remove_info_from_list(p, i) == [infoList EXCEPT ![p] = RemoveAt(@, i)]

\* findHashRequestInfo compares a one-byte key with an ID that ends in zero, and then
\* any key's first two bytes, of which a one-byte key has only one: the second
\* may turn out to be any byte.
Finds(e, id) == IDOf(e) = id
MayFind(e, id) == call[e.req].key \in Short /\ IDOf(e)[1] = id[1]

findHashRequestInfo(p, id) ==
  LET E == infoList[p] IN
  {i \in DOMAIN E : /\ Finds(E[i], id) \/ MayFind(E[i], id)
                    /\ \A j \in 1..(i - 1) : ~Finds(E[j], id)}
  \cup {i \in {0} : \A j \in DOMAIN E : ~Finds(E[j], id)}

-----------------------------------------------------------------------------
ClientSend(r) ==
  /\ call[r] = None
  /\ \E c \in Asks[r], p \in started \cap Entry[r] :
       /\ call' = [call EXCEPT ![r] = c]
       /\ net' = net \cup {[type |-> "HASH", req |-> r, conn |-> <<r, 0>>,
                            from |-> Client, to |-> p]}
  /\ UNCHANGED <<members, infoList, hTab, answer, down, ran, dropped, clash>>

Read(p, m, type) == m \in net /\ m.type = type /\ m.to = p

\* A slip: the successor's keys are taken for one's own.
HashHereOrNext(p, m) ==
  /\ Read(p, m, "HASH") /\ Check(p, IDOf(m)) # unknownPeer
  /\ hTab' = [hTab EXCEPT ![p] = Apply(@, call[m.req])]
  /\ Answer(m, m.conn, m.from, Result(hTab[p], call[m.req]))
  /\ ran' = ran \cup {m.req}
  /\ UNCHANGED <<members, infoList, call, down, dropped, clash>>

HashHere(p, m) ==
  /\ Read(p, m, "HASH") /\ Check(p, IDOf(m)) = thisPeer
  /\ hTab' = [hTab EXCEPT ![p] = Apply(@, call[m.req])]
  /\ Answer(m, m.conn, m.from, Result(hTab[p], call[m.req]))
  /\ ran' = ran \cup {m.req}
  /\ UNCHANGED <<members, infoList, call, down, dropped, clash>>

HashNext(p, m) ==
  /\ Read(p, m, "HASH") /\ Check(p, IDOf(m)) = nextPeer
  /\ m.conn[2] < MaxHops
  /\ Pass(m, [m EXCEPT !.conn = Further(@), !.from = p, !.to = nextID[p]])
  /\ infoList' = put_in_the_list(p, Info(m, Further(m.conn)))
  /\ UNCHANGED <<members, hTab, call, answer, down, ran, dropped, clash>>

HashUnknown(p, m) ==
  LET id == IDOf(m) IN
  /\ Read(p, m, "HASH") /\ Check(p, id) = unknownPeer
  /\ Pass(m, [type |-> "LOOKUP", conn |-> m.conn, orig |-> p, to |-> nextID[p], id |-> id])
  /\ infoList' = put_in_the_list(p, Info(m, None))
  /\ clash' = IF \E i \in DOMAIN infoList[p] :
                   Finds(infoList[p][i], id) \/ MayFind(infoList[p][i], id)
                THEN clash \cup {p} ELSE clash
  /\ UNCHANGED <<members, hTab, call, answer, down, ran, dropped>>

LookupNext(p, m) ==
  /\ Read(p, m, "LOOKUP") /\ Check(p, m.id) = nextPeer
  /\ Pass(m, [type |-> "REPLY", conn |-> m.conn, chosen |-> nextID[p],
              to |-> m.orig, id |-> m.id])
  /\ UNCHANGED <<members, infoList, hTab, call, answer, down, ran, dropped, clash>>

LookupOn(p, m) ==
  /\ Read(p, m, "LOOKUP") /\ Check(p, m.id) = unknownPeer
  /\ Pass(m, [m EXCEPT !.to = nextID[p]])
  /\ UNCHANGED <<members, infoList, hTab, call, answer, down, ran, dropped, clash>>

\* "There won't be the case of thisPeer with LOOKUP": nothing is done.
LookupDropped(p, m) ==
  /\ Read(p, m, "LOOKUP") /\ Check(p, m.id) = thisPeer
  /\ net' = net \ {m}
  /\ dropped' = dropped \cup {m.conn[1]}
  /\ UNCHANGED <<members, infoList, hTab, call, answer, down, ran, clash>>

\* A slip: finalSocket is not set.
HandleReplyNoFinal(p, m) ==
  /\ Read(p, m, "REPLY") /\ m.conn[2] < MaxHops
  /\ \E i \in findHashRequestInfo(p, m.id) \ {0} :
       Pass(m, [type |-> "HASH", req |-> infoList[p][i].req, conn |-> Further(m.conn),
                from |-> p, to |-> m.chosen])
  /\ UNCHANGED <<members, infoList, hTab, call, answer, down, ran, dropped, clash>>

\* Without a pending request of that ID the connection is opened for nothing.
HandleReply(p, m) ==
  /\ Read(p, m, "REPLY")
  /\ \E i \in findHashRequestInfo(p, m.id) :
       IF i = 0
         THEN net' = net \ {m} /\ UNCHANGED infoList
         ELSE /\ m.conn[2] < MaxHops
              /\ Pass(m, [type |-> "HASH", req |-> infoList[p][i].req,
                          conn |-> Further(m.conn), from |-> p, to |-> m.chosen])
              /\ infoList' = [infoList EXCEPT ![p][i].final = Further(m.conn)]
  /\ UNCHANGED <<members, hTab, call, answer, down, ran, dropped, clash>>

\* A slip: the connection is not compared.
getClientRequestInfoByOp(p, m) ==
  SelectInSeq(infoList[p], LAMBDA e : call[e.req].op = m.res.op)

getClientRequestInfo(p, m) ==
  SelectInSeq(infoList[p], LAMBDA e : e.final = m.conn /\ call[e.req].op = m.res.op)

HandleFinal(p, m) ==
  LET i == getClientRequestInfo(p, m)
      e == infoList[p][i] IN
  /\ Read(p, m, "FINAL")
  /\ IF i # 0
       THEN /\ Answer(m, e.conn, e.caller, m.res)
            /\ infoList' = remove_info_from_list(p, i)
            /\ UNCHANGED down
       ELSE /\ down' = down \cup {p}   \* NULL is dereferenced
            /\ net' = net \ {m} /\ UNCHANGED <<answer, infoList>>
  /\ UNCHANGED <<members, hTab, call, ran, dropped, clash>>

-----------------------------------------------------------------------------
Handle(p, m) == \/ HashHere(p, m) \/ HashNext(p, m) \/ HashUnknown(p, m)
                \/ LookupNext(p, m) \/ LookupOn(p, m) \/ LookupDropped(p, m)
                \/ HandleReply(p, m) \/ HandleFinal(p, m)

Membership == M!Next /\ UNCHANGED <<infoList, hTab, net, call, answer, down, ran, dropped, clash>>

Next == /\ down = {}
        /\ \/ Membership
           \/ \E r \in Request : ClientSend(r)
           \/ \E p \in Peer, m \in net : Handle(p, m)

Spec == Init /\ [][Next]_vars

-----------------------------------------------------------------------------
\* However the neighbours change and requests are confused, a client is only
\* told the outcome of its own request, which was executed: right operation,
\* right key, a value somebody set for it.
AnswersMatchCalls ==
  \A r \in Request : answer[r] # None =>
    /\ r \in ran /\ answer[r].op = call[r].op
    /\ answer[r].key \in {None, call[r].key}
    /\ answer[r].val # None =>
         \E s \in Request : call[s] # None /\ call[s].key = call[r].key
                              /\ call[s].val = answer[r].val

\* Joins alone bring no peer down: a FINAL finds its request unless two LOOKUPs
\* whose REPLYs can be confused were under way at that peer.
DownOnlyAfterClash == down \subseteq clash

\* A request is under way until it is answered: it is lost only when a peer in
\* charge drops its LOOKUP, or pending requests were confused.
NeverLost ==
  \A r \in Request : call[r] # None /\ answer[r] = None =>
    r \in dropped \/ clash # {} \/ \E m \in net : m.conn[1] = r

\* Whatever is started when, no peer ever becomes its own neighbour: it would
\* send LOOKUPs and JOINs to itself.
NeverOwnNeighbour == M!NeverOwnNeighbour

\* Once a peer has both neighbours, a key that has gone to another peer never
\* comes back to it: the old value it still keeps is not served again.
NeverTakesBack ==
  [][\A p \in Peer, k \in Key :
       prevID[p] # unknown /\ nextID[p] # unknown /\ ~InCharge(p, k) => ~InCharge(p, k)']_vars

-----------------------------------------------------------------------------
\* The peers that would execute a request for k.
InChargeOf(k) == {p \in started : InCharge(p, k)}
Agreed == \A k \in Key : Cardinality(InChargeOf(k)) = 1

store == [k \in Key |-> LET S == InChargeOf(k) IN
            IF Cardinality(S) = 1 THEN hTab[CHOOSE p \in S : TRUE][k] ELSE None]

\* What r has achieved: its answer, or the FINAL (at any hop) that carries it.
outcome == [r \in Request |->
  IF answer[r] # None THEN answer[r]
  ELSE IF \E m \in net : m.type = "FINAL" /\ m.conn[1] = r
    THEN (CHOOSE m \in net : m.type = "FINAL" /\ m.conn[1] = r).res
    ELSE None]

KV == INSTANCE KVStore WITH store <- store, call <- call, outcome <- outcome, answer <- answer

\* Whenever exactly one peer is in charge of each key, before and after a step,
\* and the step moves none, it is a step of one linearizable map; what a JOIN does is
\* to take the values of the keys that change hands out of it.
ImplementsWhenAgreed ==
  [][Agreed /\ Agreed' /\ (\A k \in Key : InChargeOf(k)' = InChargeOf(k)) /\ clash' = {}
       => KV!KVNext]_(KV!kvVars)

-----------------------------------------------------------------------------
\* jft.DHT/peer.c:344: "There won't be the case of thisPeer with LOOKUP".
NoLookupInCharge ==
  \A m \in net : m.type = "LOOKUP" => Check(m.to, m.id) # thisPeer
=============================================================================
