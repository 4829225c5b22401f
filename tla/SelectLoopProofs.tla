-------------------------- MODULE SelectLoopProofs --------------------------
(***************************************************************************)
(* For every set of descriptor numbers and of hash IDs, however many       *)
(* clients and peers connect: the loop watches exactly the open            *)
(* connections, and while no client leaves it reads only what select       *)
(* reported; each answer goes to the client whose call it is for; and the  *)
(* peer exits only when a client has left, or after a clash.               *)
(*                                                                         *)
(* A step can close descriptors that select has reported and give them out *)
(* again, so the invariant SInv says of each descriptor and of each        *)
(* pending request what they are for (Waiting, Outs), and the branches of  *)
(* the loop are one lemma (Handled) for the descriptors and one each for   *)
(* the requests.  TInv holds always, LInv until the peer exits, CInv       *)
(* besides until a clash, and Unread while nobody has left.                *)
(***************************************************************************)
EXTENDS SelectLoop, SeqLemmas

ConnRec == [kind: Kind, call: Nat, data: BOOLEAN, eof: BOOLEAN]

\* A connection knows the call it is about.
Named ==
  \A c \in Conn : conn[c].kind # "lookup" =>
    /\ conn[c].call \in Conn
    /\ conn[c].kind \in Client => conn[c].call = c

\* select has reported the listener only if there is somebody to accept.
Knocks == LISTENER \in ready => backlog # {}

TInv == TypeOK /\ WatchedAreTheConnections /\ Named /\ Knocks

\* The descriptors a pending request keeps are those of its client and, once
\* it is forwarded, of the connection it went out on.
Waits(e) ==
  /\ e.caller \in FD /\ fds[e.caller] = e.call /\ e.call \in Conn
  /\ conn[e.call].kind \in Client /\ ~conn[e.call].data
  /\ e.finalSocket # None =>
       /\ e.finalSocket \in FD /\ fds[e.finalSocket] \in Conn
       /\ conn[fds[e.finalSocket]].kind \in {"out", "final"}
       /\ conn[fds[e.finalSocket]].call = e.call

Waiting == \A e \in Range(list) : Waits(e)

LEMMA Kinds ==
  /\ HereIDs \subseteq Client /\ NextIDs \subseteq Client /\ FarIDs \subseteq Client
  /\ Client \subseteq Kind
  /\ "lookup" \in Kind \ Client /\ "reply" \in Kind \ Client
  /\ "out" \in Kind \ Client /\ "final" \in Kind \ Client
  /\ \A k \in HereIDs \cup NextIDs \cup {"lookup", "reply", "out", "final"} : k \notin FarIDs
BY HashIDAssumption DEF Client, Kind

-----------------------------------------------------------------------------
(* Sequences of connections.                                               *)

LEMMA Appended ==
  ASSUME NEW S, NEW s \in Seq(S), NEW e \in S, NEW t, t = Append(s, e)
  PROVE  /\ t \in Seq(S) /\ Len(t) = Len(s) + 1
         /\ DOMAIN t = DOMAIN s \cup {Len(s) + 1} /\ Len(s) + 1 \notin DOMAIN s
         /\ \A c \in DOMAIN s : t[c] = s[c]
         /\ t[Len(s) + 1] = e
<1>1. /\ t \in Seq(S) /\ Len(t) = Len(s) + 1
      /\ \A j \in 1..Len(s) : t[j] = s[j]
      /\ t[Len(s) + 1] = e
  BY AppendProperties
<1>2. DOMAIN s = 1..Len(s) /\ DOMAIN t = 1..(Len(s) + 1) /\ Len(s) \in Nat
  BY <1>1, LenProperties
<1>3. 1..(Len(s) + 1) = 1..Len(s) \cup {Len(s) + 1} /\ Len(s) + 1 \notin 1..Len(s)
  BY <1>2
<1>4. QED
  BY <1>1, <1>2, <1>3

LEMMA Replaced ==
  ASSUME NEW S, NEW s \in Seq(S), NEW c \in DOMAIN s, NEW e \in S,
         NEW t, t = [s EXCEPT ![c] = e]
  PROVE  /\ t \in Seq(S) /\ Len(t) = Len(s) /\ DOMAIN t = DOMAIN s
         /\ t[c] = e
         /\ \A d \in DOMAIN s : t[d] = IF d = c THEN e ELSE s[d]
<1>1. c \in 1..Len(s)
  BY LenProperties
<1>2. t \in Seq(S) /\ Len(t) = Len(s)
  BY <1>1, ExceptSeq
<1>3. QED
  BY <1>2

LEMMA Removed ==
  ASSUME NEW S, NEW s \in Seq(S), NEW i \in 1..Len(s), NEW t, t = RemoveAt(s, i)
  PROVE  /\ t \in Seq(S) /\ Len(t) = Len(s) - 1
         /\ \A j \in 1..(Len(s) - 1) : t[j] = IF j < i THEN s[j] ELSE s[j + 1]
BY RemoveAtElements, RemoveAtType

-----------------------------------------------------------------------------
(* Descriptors.                                                            *)

LEMMA Numbers ==
  ASSUME TypeOK
  PROVE  /\ \A c \in Conn : c \in Nat /\ c # 0
         /\ Free \notin Conn /\ Unwatched \notin Conn /\ Free # Unwatched
         /\ LISTENER \notin FD /\ None \notin FD
<1>1. conn \in Seq(ConnRec)
  BY DEF TypeOK, ConnRec
<1>2. Conn = 1..Len(conn) /\ Len(conn) \in Nat
  BY <1>1, LenProperties DEF Conn
<1>3. QED
  BY <1>2, FDAssumption DEF Free, Unwatched, LISTENER, None

LEMMA LowestIsFree ==
  ASSUME Available # {}
  PROVE  Lowest \in FD /\ fds[Lowest] = Free
<1>1. Available \subseteq Nat
  BY FDAssumption DEF Available
<1>2. Lowest \in Available
  BY <1>1, SmallestNat DEF Lowest
<1>3. QED
  BY <1>2 DEF Available

LEMMA OldestWaits ==
  ASSUME TypeOK, backlog # {}
  PROVE  Min(backlog) \in backlog
<1>1. backlog \subseteq Nat
  BY Numbers DEF TypeOK
<1>2. QED
  BY <1>1, SmallestNat

-----------------------------------------------------------------------------
(* The list.                                                               *)

LEMMA ListTyped ==
  ASSUME TypeOK
  PROVE  /\ list \in Seq(Entry) /\ Len(list) \in Nat /\ DOMAIN list = 1..Len(list)
         /\ Range(list) = {list[k] : k \in 1..Len(list)} /\ Range(list) \subseteq Entry
<1>1. list \in Seq(Entry) /\ Len(list) \in Nat /\ DOMAIN list = 1..Len(list)
  BY LenProperties DEF TypeOK
<1>2. \A k \in 1..Len(list) : list[k] \in Entry
  BY <1>1, ElementOfSeq
<1>3. QED
  BY <1>1, <1>2 DEF Range

\* A REPLY forwards a request with the hash ID of its own, or finds none.
Forwards(i, c, k) ==
  /\ Forward(c, list[k].call) /\ list' = [list EXCEPT ![k].finalSocket = Lowest]
  /\ fds' = [Closed({i}) EXCEPT ![Lowest] = Len(conn')]
  /\ master' = (master \cup {Lowest}) \ {i} /\ state' = state

NothingFound == state' = "exited" /\ UNCHANGED <<conn, fds, master, list>>

LEMMA ReplyFinds ==
  ASSUME TypeOK, NEW i, NEW c, Reply(i, c)
  PROVE  \/ NothingFound /\ \A k \in DOMAIN list :
                              conn[list[k].call].kind # conn[conn[c].call].kind
         \/ \E k \in DOMAIN list : /\ conn[list[k].call].kind = conn[conn[c].call].kind
                                  /\ Forwards(i, c, k)
<1>1. PICK id : id = conn[conn[c].call].kind
  OBVIOUS
<1>2. PICK found : found = findHashRequestInfo(id)
  OBVIOUS
<1>3. found = {k \in DOMAIN list : conn[list[k].call].kind = id}
  BY <1>2 DEF findHashRequestInfo
<1>4. CASE found = {}
  BY <1>1, <1>2, <1>3, <1>4 DEF Reply, NothingFound
<1>5. CASE found # {}
  <2>1. found \subseteq Nat
    BY <1>3, ListTyped
  <2>2. PICK k : k = Min(found)
    OBVIOUS
  <2>3. k \in DOMAIN list /\ conn[list[k].call].kind = id
    BY <1>3, <1>5, <2>1, <2>2, SmallestNat
  <2>4. Forwards(i, c, k)
    BY <1>1, <1>2, <1>5, <2>2 DEF Reply, Forwards
  <2>5. QED
    BY <1>1, <2>3, <2>4
<1>6. QED
  BY <1>4, <1>5

-----------------------------------------------------------------------------
(* What becomes of the connections in a step.                              *)

LEMMA ConnsTyped ==
  ASSUME TypeOK
  PROVE  /\ conn \in Seq(ConnRec) /\ Conn = 1..Len(conn) /\ Len(conn) \in Nat
         /\ \A c \in Conn : conn[c] \in ConnRec
         /\ \A c \in Conn : /\ conn[c].kind \in Kind /\ conn[c].call \in Nat
                            /\ conn[c].data \in BOOLEAN /\ conn[c].eof \in BOOLEAN
<1>1. conn \in Seq(ConnRec)
  BY DEF TypeOK, ConnRec
<1>2. Conn = 1..Len(conn) /\ Len(conn) \in Nat
  BY <1>1, LenProperties DEF Conn
<1>3. \A c \in Conn : conn[c] \in ConnRec
  BY <1>1, <1>2, ElementOfSeq
<1>4. QED
  BY <1>1, <1>2, <1>3 DEF ConnRec

\* One is made.
Makes(r) ==
  /\ conn' \in Seq(ConnRec) /\ Conn' = Conn \cup {Len(conn) + 1} /\ Len(conn) + 1 \notin Conn
  /\ Len(conn') = Len(conn) + 1
  /\ \A c \in Conn : conn'[c] = conn[c]
  /\ conn'[Len(conn) + 1] = r

LEMMA ConnMade ==
  ASSUME TypeOK, NEW r \in ConnRec, conn' = Append(conn, r)
  PROVE  Makes(r)
<1>1. conn \in Seq(ConnRec)
  BY ConnsTyped
<1>2. QED
  BY <1>1, Appended DEF Makes, Conn

\* What came on one is read.
Reads(c) ==
  /\ conn' \in Seq(ConnRec) /\ Conn' = Conn
  /\ \A d \in Conn : /\ conn'[d].kind = conn[d].kind /\ conn'[d].call = conn[d].call
                     /\ conn'[d].eof = conn[d].eof
                     /\ conn'[d].data = IF d = c THEN FALSE ELSE conn[d].data

LEMMA ConnRead ==
  ASSUME TypeOK, NEW c \in Conn, conn' = Consumed(c)
  PROVE  Reads(c)
<1> DEFINE r == [conn[c] EXCEPT !.data = FALSE]
<1>1. /\ conn \in Seq(ConnRec) /\ r \in ConnRec
      /\ r.kind = conn[c].kind /\ r.call = conn[c].call /\ r.eof = conn[c].eof /\ r.data = FALSE
  BY ConnsTyped DEF ConnRec
<1>2. conn' = [conn EXCEPT ![c] = r]
  BY DEF Consumed
<1> HIDE DEF r
<1>3. /\ conn' \in Seq(ConnRec) /\ DOMAIN conn' = DOMAIN conn
      /\ \A d \in DOMAIN conn : conn'[d] = IF d = c THEN r ELSE conn[d]
  BY <1>1, <1>2, Replaced DEF Conn
<1>4. QED
  BY <1>1, <1>3 DEF Reads, Conn

\* And another made, to the peer in charge of the call.
ReadsAndMakes(c, call) ==
  /\ conn' \in Seq(ConnRec) /\ Conn' = Conn \cup {Len(conn) + 1} /\ Len(conn) + 1 \notin Conn
  /\ Len(conn') = Len(conn) + 1
  /\ \A d \in Conn : /\ conn'[d].kind = conn[d].kind /\ conn'[d].call = conn[d].call
                     /\ conn'[d].eof = conn[d].eof
                     /\ conn'[d].data = IF d = c THEN FALSE ELSE conn[d].data
  /\ conn'[Len(conn) + 1] = [kind |-> "out", call |-> call, data |-> FALSE, eof |-> FALSE]

LEMMA ConnForward ==
  ASSUME TypeOK, NEW c \in Conn, NEW call \in Nat, Forward(c, call)
  PROVE  ReadsAndMakes(c, call) /\ Available # {}
<1> DEFINE r == [conn[c] EXCEPT !.data = FALSE]
           o == [kind |-> "out", call |-> call, data |-> FALSE, eof |-> FALSE]
<1>1. /\ conn \in Seq(ConnRec) /\ r \in ConnRec /\ o \in ConnRec
      /\ r.kind = conn[c].kind /\ r.call = conn[c].call /\ r.eof = conn[c].eof /\ r.data = FALSE
  BY ConnsTyped DEF ConnRec, Kind
<1>2. Consumed(c) = [conn EXCEPT ![c] = r] /\ conn' = Append(Consumed(c), o) /\ Available # {}
  BY DEF Consumed, Forward
<1> HIDE DEF r
<1>3. /\ Consumed(c) \in Seq(ConnRec) /\ DOMAIN Consumed(c) = DOMAIN conn
      /\ Len(Consumed(c)) = Len(conn)
      /\ \A d \in DOMAIN conn : Consumed(c)[d] = IF d = c THEN r ELSE conn[d]
  BY <1>1, <1>2, Replaced DEF Conn
<1> HIDE DEF o
<1>4. /\ conn' \in Seq(ConnRec) /\ DOMAIN conn' = DOMAIN conn \cup {Len(conn) + 1}
      /\ Len(conn) + 1 \notin DOMAIN conn /\ Len(conn') = Len(conn) + 1
      /\ \A d \in DOMAIN conn : conn'[d] = Consumed(c)[d]
      /\ conn'[Len(conn) + 1] = o
  <2>1. /\ DOMAIN conn' = DOMAIN Consumed(c) \cup {Len(Consumed(c)) + 1}
        /\ Len(Consumed(c)) + 1 \notin DOMAIN Consumed(c)
        /\ conn' \in Seq(ConnRec) /\ Len(conn') = Len(Consumed(c)) + 1
        /\ \A d \in DOMAIN Consumed(c) : conn'[d] = Consumed(c)[d]
        /\ conn'[Len(Consumed(c)) + 1] = o
    BY <1>1, <1>2, <1>3, Appended
  <2>2. QED
    BY <1>3, <2>1
<1>5. QED
  BY <1>1, <1>2, <1>3, <1>4 DEF ReadsAndMakes, Conn, o

\* The answer to a forwarded call comes.
LEMMA ConnAnswered ==
  ASSUME TypeOK, NEW c \in Conn, FinalComes(c)
  PROVE  /\ conn' \in Seq(ConnRec) /\ Conn' = Conn
         /\ \A d \in Conn \ {c} : conn'[d] = conn[d]
         /\ conn'[c] = [kind |-> "final", call |-> conn[c].call, data |-> TRUE, eof |-> TRUE]
<1> DEFINE r == [kind |-> "final", call |-> conn[c].call, data |-> TRUE, eof |-> TRUE]
<1>1. conn \in Seq(ConnRec) /\ c \in DOMAIN conn /\ r \in ConnRec
  BY ConnsTyped DEF Conn, ConnRec, Kind
<1>2. conn' = [conn EXCEPT ![c] = r]
  BY DEF FinalComes
<1> HIDE DEF r
<1>3. /\ conn' \in Seq(ConnRec) /\ DOMAIN conn' = DOMAIN conn
      /\ \A d \in DOMAIN conn : conn'[d] = IF d = c THEN r ELSE conn[d]
  BY <1>1, <1>2, Replaced
<1>4. QED
  BY <1>1, <1>3 DEF Conn, r

\* A client leaves.
LEMMA ConnLeft ==
  ASSUME TypeOK, NEW c \in Conn, ClientLeaves(c)
  PROVE  /\ conn' \in Seq(ConnRec) /\ Conn' = Conn
         /\ \A d \in Conn : /\ conn'[d].kind = conn[d].kind /\ conn'[d].call = conn[d].call
                            /\ conn'[d].data = conn[d].data
                            /\ d # c => conn'[d].eof = conn[d].eof
         /\ conn'[c].eof = TRUE
<1> DEFINE r == [conn[c] EXCEPT !.eof = TRUE]
<1>1. /\ conn \in Seq(ConnRec) /\ c \in DOMAIN conn /\ r \in ConnRec
      /\ r.kind = conn[c].kind /\ r.call = conn[c].call /\ r.data = conn[c].data /\ r.eof = TRUE
  BY ConnsTyped DEF Conn, ConnRec
<1>2. conn' = [conn EXCEPT ![c] = r]
  BY DEF ClientLeaves
<1> HIDE DEF r
<1>3. /\ conn' \in Seq(ConnRec) /\ DOMAIN conn' = DOMAIN conn
      /\ \A d \in DOMAIN conn : conn'[d] = IF d = c THEN r ELSE conn[d]
  BY <1>1, <1>2, Replaced
<1>4. QED
  BY <1>1, <1>3 DEF Conn

-----------------------------------------------------------------------------
(* Types, names, and what select is given.                                 *)

LEMMA TInit == Init => TInv
<1> SUFFICES ASSUME Init PROVE TInv
  OBVIOUS
<1>1. conn = <<>> /\ Conn = {}
  BY DEF Init, Conn
<1>2. \A f \in FD : fds[f] = Free
  BY DEF Init
<1>3. TypeOK
  <2>1. \A S : <<>> \in Seq(S)
    BY EmptySeq
  <2>2. conn \in Seq([kind: Kind, call: Nat, data: BOOLEAN, eof: BOOLEAN]) /\ list \in Seq(Entry)
    BY <1>1, <2>1 DEF Init
  <2>3. QED
    BY <2>2 DEF Init, TypeOK
<1>4. WatchedAreTheConnections
  BY <1>1, <1>2 DEF Init, WatchedAreTheConnections
<1>5. QED
  BY <1>1, <1>3, <1>4 DEF Init, TInv, Named, Knocks

\* The loop at descriptor i.
LEMMA AtIsReady ==
  ASSUME TypeOK, NEW i, At(i)
  PROVE  i \in ready /\ ready' = ready \ {i} /\ ready' \subseteq FD \cup {LISTENER}
<1>1. ready \subseteq Nat /\ ready # {} /\ i = Min(ready) /\ ready' = ready \ {i}
  BY FDAssumption DEF At, TypeOK, LISTENER
<1>2. QED
  BY <1>1, SmallestNat DEF TypeOK

LEMMA TEnvironment ==
  ASSUME TInv, Environment
  PROVE  TInv'
<1> DEFINE new == Len(conn) + 1
<1> USE DEF TInv
<1>1. /\ conn \in Seq(ConnRec) /\ Len(conn) \in Nat /\ Conn = 1..Len(conn)
      /\ \A c \in Conn : conn[c].call \in Nat
      /\ Free \notin Conn /\ Unwatched \notin Conn /\ new \notin Conn /\ new \in Nat /\ new \notin {Free, Unwatched}
  BY ConnsTyped, Numbers DEF Free, Unwatched
<1>2. loopVars' = loopVars => UNCHANGED <<fds, master, ready, list, sent, state, clash>>
  BY DEF loopVars
<1>3. ASSUME NEW k \in Kind, NEW call \in Nat, NEW data \in BOOLEAN, Connect(k, call, data),
             k # "lookup" => call \in Conn \cup {new} /\ (k \in Client => call = new)
      PROVE  TInv'
  <2> DEFINE r == [kind |-> k, call |-> call, data |-> data, eof |-> FALSE]
  <2>1. r \in ConnRec /\ r.kind = k /\ r.call = call
    BY DEF ConnRec
  <2>2. conn' = Append(conn, r) /\ backlog' = backlog \cup {new}
        /\ UNCHANGED <<fds, master, ready, list, sent, state, clash>>
    BY <1>2, <1>3 DEF Connect
  <2> HIDE DEF r
  <2>3. Makes(r)
    BY <2>1, <2>2, ConnMade
  <2>4. Named'
    BY <1>3, <2>1, <2>3 DEF Named, Makes
  <2>5. TypeOK'
    BY <2>2, <2>3 DEF TypeOK, Makes, ConnRec
  <2>6. \A f \in FD : fds[f] \in Conn' <=> fds[f] \in Conn
    BY <1>1, <2>3 DEF TypeOK, Makes
  <2>7. WatchedAreTheConnections'
    BY <2>2, <2>6 DEF WatchedAreTheConnections
  <2>8. Knocks'
    BY <2>2 DEF Knocks
  <2>9. QED
    BY <2>4, <2>5, <2>7, <2>8
<1>4. CASE ClientConnects
  <2>1. PICK k \in Client : Connect(k, new, TRUE)
    BY <1>4 DEF ClientConnects
  <2>2. k \in Kind /\ k # "lookup"
    BY Kinds
  <2>3. QED
    BY <1>1, <1>3, <2>1, <2>2
<1>5. CASE PeerConnects
  <2>1. Connect("lookup", None, TRUE) /\ "lookup" \in Kind /\ None \in Nat
    BY <1>5 DEF PeerConnects, Kind, None
  <2>2. QED
    BY <1>3, <2>1
<1>6. ASSUME NEW c \in Conn, ClientLeaves(c) PROVE TInv'
  <2>1. backlog' = backlog /\ UNCHANGED <<fds, master, ready, list, sent, state, clash>>
    BY <1>2, <1>6 DEF ClientLeaves
  <2>2. /\ conn' \in Seq(ConnRec) /\ Conn' = Conn
        /\ \A d \in Conn : conn'[d].kind = conn[d].kind /\ conn'[d].call = conn[d].call
    BY <1>6, ConnLeft
  <2>3. TypeOK'
    BY <2>1, <2>2 DEF TypeOK, ConnRec
  <2>4. Named'
    BY <2>2 DEF Named
  <2>5. WatchedAreTheConnections'
    BY <2>1, <2>2 DEF WatchedAreTheConnections
  <2>6. Knocks'
    BY <2>1 DEF Knocks
  <2>7. QED
    BY <2>3, <2>4, <2>5, <2>6
<1>7. ASSUME NEW c \in Conn, ReplyComes(c) PROVE TInv'
  <2>1. Connect("reply", c, TRUE) /\ "reply" \in Kind /\ "reply" \notin Client
    BY <1>7, Kinds DEF ReplyComes
  <2>2. c \in Nat
    BY Numbers
  <2>3. QED
    BY <1>3, <2>1, <2>2
<1>8. ASSUME NEW c \in Conn, FinalComes(c) PROVE TInv'
  <2>1. backlog' = backlog /\ UNCHANGED <<fds, master, ready, list, sent, state, clash>>
        /\ conn[c].kind = "out" /\ "final" \notin Client
    BY <1>2, <1>8, Kinds DEF FinalComes
  <2>2. /\ conn' \in Seq(ConnRec) /\ Conn' = Conn
        /\ \A d \in Conn \ {c} : conn'[d] = conn[d]
        /\ conn'[c] = [kind |-> "final", call |-> conn[c].call, data |-> TRUE, eof |-> TRUE]
    BY <1>8, ConnAnswered
  <2>3. TypeOK'
    BY <2>1, <2>2 DEF TypeOK, ConnRec
  <2>4. Named'
    BY <2>1, <2>2 DEF Named
  <2>5. WatchedAreTheConnections'
    BY <2>1, <2>2 DEF WatchedAreTheConnections
  <2>6. Knocks'
    BY <2>1 DEF Knocks
  <2>7. QED
    BY <2>3, <2>4, <2>5, <2>6
<1>9. QED
  BY <1>4, <1>5, <1>6, <1>7, <1>8 DEF Environment

\* A step of the loop that leaves the connections, or only reads one.
LEMMA TLoop ==
  ASSUME TInv, Waiting, Loop
  PROVE  TInv'
<1> USE DEF TInv
<1> DEFINE new == Len(conn) + 1
<1>1. /\ conn \in Seq(ConnRec) /\ Len(conn) \in Nat
      /\ Free \notin Conn /\ Unwatched \notin Conn /\ Free # Unwatched
      /\ LISTENER \notin FD /\ None \notin FD
      /\ \A c \in Conn : c \in Nat
      /\ new \in Nat /\ new # Free /\ new # Unwatched
  BY ConnsTyped, Numbers DEF Free, Unwatched
\* Steps that read what came on a connection.
<1>2. ASSUME NEW c, c \in Conn, Reads(c), backlog' = backlog
      PROVE  /\ Named' /\ Conn' = Conn
             /\ conn' \in Seq([kind: Kind, call: Nat, data: BOOLEAN, eof: BOOLEAN])
             /\ backlog' \subseteq Conn'
  <2>1. Conn' = Conn /\ conn' \in Seq(ConnRec)
    BY <1>2 DEF Reads
  <2>2. Named'
    BY <1>2, <2>1 DEF Named, Reads
  <2>3. QED
    BY <1>2, <2>1, <2>2 DEF ConnRec, TypeOK
\* And those that make one.
<1>3. ASSUME NEW c, c \in Conn, NEW call, call \in Conn, ReadsAndMakes(c, call), backlog' = backlog
      PROVE  /\ Named' /\ Conn' = Conn \cup {new} /\ new \notin Conn /\ Len(conn') = new
             /\ conn' \in Seq([kind: Kind, call: Nat, data: BOOLEAN, eof: BOOLEAN])
             /\ backlog' \subseteq Conn'
  <2>1. /\ Conn' = Conn \cup {new} /\ conn' \in Seq(ConnRec) /\ new \notin Conn
        /\ Len(conn') = new
    BY <1>3 DEF ReadsAndMakes
  <2>2. conn'[new].kind = "out" /\ conn'[new].call = call /\ "out" \notin Client
    BY <1>3, Kinds DEF ReadsAndMakes
  <2>3. \A d \in Conn : conn'[d].kind = conn[d].kind /\ conn'[d].call = conn[d].call
    BY <1>3 DEF ReadsAndMakes
  <2>4. Named'
    BY <1>3, <2>1, <2>2, <2>3 DEF Named
  <2>5. QED
    BY <1>3, <2>1, <2>4 DEF ConnRec, TypeOK
<1>4. ASSUME NEW i, NEW c, NEW K, Recv(i, c, K)
      PROVE  /\ i \in FD /\ c \in Conn /\ fds[i] = c /\ conn[c].kind \in K
             /\ ready' \subseteq FD \cup {LISTENER}
  BY <1>4, AtIsReady DEF Recv
<1>5. CASE Select
  <2>1. ready' \subseteq master /\ (LISTENER \in ready' => backlog # {}) /\ Conn' = Conn
        /\ UNCHANGED <<conn, backlog, fds, master, list, sent, state, clash>>
    BY <1>5 DEF Select, Readable, Conn
  <2>2. QED
    BY <2>1 DEF TypeOK, WatchedAreTheConnections, Named, Knocks
<1>6. CASE Accept
  <2>1. ready' = ready \ {LISTENER} /\ LISTENER \in ready /\ ready' \subseteq FD \cup {LISTENER}
        /\ conn' = conn /\ Conn' = Conn /\ UNCHANGED <<list, sent, state, clash>>
    BY <1>6, AtIsReady DEF Accept, Conn
  <2>2. CASE Available = {}
    BY <1>6, <2>1, <2>2 DEF Accept, TypeOK, WatchedAreTheConnections, Named, Knocks
  <2>3. CASE Available # {}
    <3>1. Lowest \in FD /\ fds[Lowest] = Free /\ Min(backlog) \in backlog
      BY <2>1, <2>3, LowestIsFree, OldestWaits DEF Knocks
    <3>2. /\ fds' = [fds EXCEPT ![Lowest] = Min(backlog)]
          /\ backlog' = backlog \ {Min(backlog)} /\ master' = master \cup {Lowest}
      BY <1>6, <2>3 DEF Accept
    <3>3. PICK f, c : f = Lowest /\ c = Min(backlog)
      OBVIOUS
    <3>4. f \in FD /\ c \in Conn /\ fds' = [fds EXCEPT ![f] = c]
          /\ backlog' \subseteq Conn /\ master' = master \cup {f}
      BY <3>1, <3>2, <3>3 DEF TypeOK
    <3>5. TypeOK'
      BY <2>1, <3>4 DEF TypeOK
    <3>6. WatchedAreTheConnections'
      BY <2>1, <3>4 DEF TypeOK, WatchedAreTheConnections
    <3>7. QED
      BY <2>1, <3>5, <3>6 DEF Named, Knocks
  <2>4. QED
    BY <2>2, <2>3
<1>7. ASSUME NEW i \in FD, EndOfStream(i) PROVE TInv'
  <2>1. /\ ready' = ready \ {i} /\ ready' \subseteq FD \cup {LISTENER}
        /\ conn' = conn /\ Conn' = Conn /\ backlog' = backlog /\ list' = list /\ sent' = sent
        /\ state' = "exited" /\ clash' = clash /\ master' = master \ {i}
        /\ fds' = [f \in FD |-> IF f = i THEN Free ELSE fds[f]]
    BY <1>7, AtIsReady DEF EndOfStream, Conn, Closed
  <2>2. TypeOK'
    BY <2>1 DEF TypeOK
  <2>3. WatchedAreTheConnections'
    BY <1>1, <2>1 DEF TypeOK, WatchedAreTheConnections
  <2>4. QED
    BY <2>1, <2>2, <2>3 DEF Named, Knocks
<1>8. ASSUME NEW i \in FD, NEW c \in Conn, HashHere(i, c) PROVE TInv'
  <2>1. /\ ready' \subseteq ready /\ ready' \subseteq FD \cup {LISTENER}
        /\ conn' = Consumed(c) /\ fds' = Closed({i}) /\ master' = master \ {i}
        /\ sent' = sent \cup {[call |-> c, on |-> c]}
        /\ UNCHANGED <<backlog, list, state, clash>>
    BY <1>8, AtIsReady DEF HashHere, Recv
  <2>2. Reads(c)
    BY <2>1, ConnRead
  <2>3. /\ Named' /\ Conn' = Conn /\ backlog' \subseteq Conn'
        /\ conn' \in Seq([kind: Kind, call: Nat, data: BOOLEAN, eof: BOOLEAN])
    BY <1>2, <2>1, <2>2
  <2>4. fds' = [f \in FD |-> IF f = i THEN Free ELSE fds[f]]
    BY <2>1 DEF Closed
  <2>5. TypeOK'
    <3>1. sent' \subseteq [call : Conn', on : Conn' \cup {Free, Unwatched}]
      BY <2>1, <2>3 DEF TypeOK
    <3>2. fds' \in [FD -> Conn' \cup {Free, Unwatched}]
      BY <2>3, <2>4 DEF TypeOK
    <3>3. QED
      BY <2>1, <2>3, <3>1, <3>2 DEF TypeOK
  <2>6. WatchedAreTheConnections'
    BY <1>1, <2>1, <2>3, <2>4 DEF TypeOK, WatchedAreTheConnections
  <2>7. QED
    BY <2>1, <2>3, <2>5, <2>6 DEF Knocks
<1>9. ASSUME NEW i \in FD, NEW c \in Conn, NoDescriptor(i, c) \/ FinalLost(i, c)
      PROVE  TInv'
  <2>1. /\ ready' \subseteq ready /\ ready' \subseteq FD \cup {LISTENER}
        /\ state' \in {"full", "exited"} /\ Conn' = Conn
        /\ UNCHANGED <<conn, fds, master, backlog, list, sent, clash>>
    BY <1>9, AtIsReady DEF NoDescriptor, FinalLost, Recv, Conn
  <2>2. QED
    BY <2>1 DEF TypeOK, WatchedAreTheConnections, Named, Knocks
<1>10. ASSUME NEW i \in FD, NEW c \in Conn, HashNext(i, c) PROVE TInv'
  <2>1. /\ ready' \subseteq ready /\ ready' \subseteq FD \cup {LISTENER}
        /\ Forward(c, c) /\ fds' = [fds EXCEPT ![Lowest] = Len(conn')]
        /\ list' = put_in_the_list(i, c, Lowest) /\ master' = master \cup {Lowest}
        /\ UNCHANGED <<backlog, sent, state, clash>>
    BY <1>10, AtIsReady DEF HashNext, Recv
  <2>2. ReadsAndMakes(c, c) /\ Available # {}
    BY <1>1, <2>1, ConnForward
  <2>3. /\ Named' /\ Conn' = Conn \cup {new} /\ backlog' \subseteq Conn' /\ Len(conn') = new
        /\ conn' \in Seq([kind: Kind, call: Nat, data: BOOLEAN, eof: BOOLEAN])
    BY <1>3, <2>1, <2>2
  <2>4. Lowest \in FD /\ fds[Lowest] = Free
    BY <2>2, LowestIsFree
  <2>5. PICK f : f = Lowest
    OBVIOUS
  <2>6. [caller |-> i, call |-> c, finalSocket |-> f] \in Entry
    BY <1>1, <2>4, <2>5 DEF Entry
  <2>7. list' \in Seq(Entry)
    BY <2>1, <2>5, <2>6, AppendProperties DEF put_in_the_list, TypeOK
  <2>8. fds' = [fds EXCEPT ![f] = new] /\ master' = master \cup {f} /\ f \in FD
    BY <2>1, <2>3, <2>4, <2>5
  <2>9. TypeOK'
    BY <2>1, <2>3, <2>7, <2>8 DEF TypeOK
  <2>10. WatchedAreTheConnections'
    BY <1>1, <2>3, <2>8 DEF TypeOK, WatchedAreTheConnections
  <2>11. QED
    BY <2>1, <2>3, <2>9, <2>10 DEF Knocks
<1>11. ASSUME NEW i \in FD, NEW c \in Conn, HashUnknown(i, c) PROVE TInv'
  <2>1. /\ ready' \subseteq ready /\ ready' \subseteq FD \cup {LISTENER}
        /\ Available # {} /\ conn' = Consumed(c) /\ fds' = [fds EXCEPT ![Lowest] = Unwatched]
        /\ list' = put_in_the_list(i, c, None)
        /\ clash' \in BOOLEAN
        /\ UNCHANGED <<backlog, master, sent, state>>
    BY <1>11, AtIsReady DEF HashUnknown, Recv, TypeOK
  <2>2. /\ Named' /\ Conn' = Conn /\ backlog' \subseteq Conn'
        /\ conn' \in Seq([kind: Kind, call: Nat, data: BOOLEAN, eof: BOOLEAN])
    BY <1>2, <2>1, ConnRead
  <2>3. Lowest \in FD /\ fds[Lowest] = Free
    BY <2>1, LowestIsFree
  <2>4. PICK f : f = Lowest
    OBVIOUS
  <2>5. [caller |-> i, call |-> c, finalSocket |-> None] \in Entry
    BY <1>1 DEF Entry
  <2>6. list' \in Seq(Entry)
    BY <2>1, <2>5, AppendProperties DEF put_in_the_list, TypeOK
  <2>7. fds' = [fds EXCEPT ![f] = Unwatched] /\ f \in FD /\ fds[f] = Free
    BY <2>1, <2>3, <2>4
  <2>8. TypeOK'
    BY <2>1, <2>2, <2>6, <2>7 DEF TypeOK
  <2>9. WatchedAreTheConnections'
    BY <1>1, <2>1, <2>2, <2>7 DEF TypeOK, WatchedAreTheConnections
  <2>10. QED
    BY <2>1, <2>2, <2>8, <2>9 DEF Knocks
<1>12. ASSUME NEW i \in FD, NEW c \in Conn, Lookup(i, c) PROVE TInv'
  <2>1. /\ ready' \subseteq ready /\ ready' \subseteq FD \cup {LISTENER}
        /\ Available # {} /\ conn' = Consumed(c) /\ master' = master \ {i}
        /\ fds' = [Closed({i}) EXCEPT ![Lowest] = Unwatched] /\ fds[i] = c
        /\ UNCHANGED <<backlog, list, sent, state, clash>>
    BY <1>12, AtIsReady DEF Lookup, Recv
  <2>2. /\ Named' /\ Conn' = Conn /\ backlog' \subseteq Conn'
        /\ conn' \in Seq([kind: Kind, call: Nat, data: BOOLEAN, eof: BOOLEAN])
    BY <1>2, <2>1, ConnRead
  <2>3. Lowest \in FD /\ fds[Lowest] = Free
    BY <2>1, LowestIsFree
  <2>4. PICK f : f = Lowest
    OBVIOUS
  <2>5. /\ fds' = [g \in FD |-> IF g = f THEN Unwatched ELSE IF g = i THEN Free ELSE fds[g]]
        /\ f \in FD /\ fds[f] = Free
    BY <2>1, <2>3, <2>4 DEF Closed
  <2>6. TypeOK'
    BY <2>1, <2>2, <2>5 DEF TypeOK
  <2>7. WatchedAreTheConnections'
    BY <1>1, <2>1, <2>2, <2>5 DEF TypeOK, WatchedAreTheConnections
  <2>8. QED
    BY <2>1, <2>2, <2>6, <2>7 DEF Knocks
<1>13. ASSUME NEW i \in FD, NEW c \in Conn, Reply(i, c) PROVE TInv'
  <2>1. ready' \subseteq ready /\ ready' \subseteq FD \cup {LISTENER} /\ fds[i] = c
        /\ conn[c].kind = "reply" /\ UNCHANGED <<backlog, sent, clash>>
    BY <1>13, AtIsReady DEF Reply, Recv
  <2>2. CASE NothingFound
    BY <2>1, <2>2 DEF NothingFound, TypeOK, WatchedAreTheConnections, Named, Knocks, Conn
  <2>3. ASSUME NEW k \in DOMAIN list, Forwards(i, c, k) PROVE TInv'
    <3>1. list \in Seq(Entry) /\ k \in 1..Len(list) /\ list[k] \in Range(list) /\ list[k] \in Entry
      BY ListTyped
    <3>2. PICK call : call = list[k].call
      OBVIOUS
    <3>3. call \in Conn
      BY <3>1, <3>2 DEF Waiting, Waits
    <3>4. ReadsAndMakes(c, call) /\ Available # {}
      BY <1>1, <2>3, <3>2, <3>3, ConnForward DEF Forwards
    <3>5. /\ Named' /\ Conn' = Conn \cup {new} /\ backlog' \subseteq Conn' /\ Len(conn') = new
          /\ conn' \in Seq([kind: Kind, call: Nat, data: BOOLEAN, eof: BOOLEAN])
      BY <1>3, <2>1, <3>3, <3>4
    <3>6. Lowest \in FD /\ fds[Lowest] = Free
      BY <3>4, LowestIsFree
    <3>7. PICK f : f = Lowest
      OBVIOUS
    <3>8. [list[k] EXCEPT !.finalSocket = f] \in Entry
      BY <3>1, <3>6, <3>7 DEF Entry
    <3>9. list' \in Seq(Entry)
      BY <2>3, <3>1, <3>7, <3>8, ExceptSeq DEF Forwards
    <3>10. /\ fds' = [g \in FD |-> IF g = f THEN new ELSE IF g = i THEN Free ELSE fds[g]]
           /\ f \in FD /\ fds[f] = Free /\ master' = (master \cup {f}) \ {i} /\ i # f
      <4>1. i # Lowest
        BY <1>1, <2>1, <3>6
      <4>2. QED
        BY <2>3, <3>5, <3>6, <3>7, <4>1 DEF Forwards, Closed
    <3>11. TypeOK'
      BY <2>1, <2>3, <3>5, <3>9, <3>10 DEF Forwards, TypeOK
    <3>12. WatchedAreTheConnections'
      <4>1. \A g \in FD : fds'[g] \in Conn' <=> g = f \/ (g # i /\ fds[g] \in Conn)
        BY <1>1, <3>5, <3>10 DEF TypeOK
      <4>2. QED
        BY <1>1, <3>10, <4>1 DEF WatchedAreTheConnections
    <3>13. QED
      BY <2>1, <3>5, <3>11, <3>12 DEF Knocks
  <2>4. QED
    BY <1>13, <2>2, <2>3, ReplyFinds
<1>14. ASSUME NEW i \in FD, NEW c \in Conn, Final(i, c) PROVE TInv'
  <2> DEFINE k == Min(PendingOn(i))
  <2>1. /\ ready' \subseteq ready /\ ready' \subseteq FD \cup {LISTENER}
        /\ conn' = Consumed(c) /\ conn[c].kind = "final" /\ PendingOn(i) # {}
        /\ sent' = sent \cup {[call |-> conn[c].call, on |-> fds[list[k].caller]]}
        /\ list' = RemoveAt(list, k)
        /\ fds' = Closed({list[k].caller, i}) /\ master' = master \ {list[k].caller, i}
        /\ UNCHANGED <<backlog, state, clash>>
    BY <1>14, AtIsReady DEF Final, Recv, remove_info_from_list
  <2>2. /\ Named' /\ Conn' = Conn /\ backlog' \subseteq Conn'
        /\ conn' \in Seq([kind: Kind, call: Nat, data: BOOLEAN, eof: BOOLEAN])
    BY <1>2, <2>1, ConnRead
  <2>3. list \in Seq(Entry) /\ k \in 1..Len(list)
    <3>1. list \in Seq(Entry) /\ Len(list) \in Nat /\ PendingOn(i) \subseteq 1..Len(list)
      BY LenProperties DEF TypeOK, PendingOn
    <3>2. QED
      BY <2>1, <3>1, FirstMatch
  <2>4. list[k] \in Entry /\ list' \in Seq(Entry)
    BY <2>1, <2>3, ElementOfSeq, RemoveAtType
  <2>5. PICK g : g = list[k].caller
    OBVIOUS
  <2>6. g \in FD /\ conn[c].call \in Conn
    BY <2>1, <2>4, <2>5 DEF Entry, Named
  <2>7. /\ fds' = [f \in FD |-> IF f \in {g, i} THEN Free ELSE fds[f]]
        /\ master' = master \ {g, i}
        /\ sent' = sent \cup {[call |-> conn[c].call, on |-> fds[g]]}
    BY <2>1, <2>5 DEF Closed
  <2> HIDE DEF k
  <2>8. TypeOK'
    <3>1. fds[g] \in Conn \cup {Free, Unwatched}
      BY <2>6 DEF TypeOK
    <3>2. sent' \subseteq [call : Conn', on : Conn' \cup {Free, Unwatched}]
      BY <2>2, <2>6, <2>7, <3>1 DEF TypeOK
    <3>3. fds' \in [FD -> Conn' \cup {Free, Unwatched}]
      BY <2>2, <2>7 DEF TypeOK
    <3>4. QED
      BY <2>1, <2>2, <2>4, <2>7, <3>2, <3>3 DEF TypeOK
  <2>9. WatchedAreTheConnections'
    <3>1. \A f \in FD : fds'[f] \in Conn' <=> f \notin {g, i} /\ fds[f] \in Conn
      BY <1>1, <2>2, <2>7
    <3>2. QED
      BY <1>1, <2>6, <2>7, <3>1 DEF WatchedAreTheConnections
  <2>10. QED
    BY <2>1, <2>2, <2>8, <2>9 DEF Knocks
<1>15. QED
  BY <1>5, <1>6, <1>7, <1>8, <1>9, <1>10, <1>11, <1>12, <1>13, <1>14 DEF Loop, Handle

\* A peer that exited does nothing more.
LEMMA LoopRuns ==
  ASSUME Loop
  PROVE  state # "exited"
<1>1. ASSUME NEW i, NEW c, Handle(i, c) PROVE state = "run"
  <2>1. CASE HashHere(i, c) \/ HashNext(i, c) \/ HashUnknown(i, c) \/ NoDescriptor(i, c)
    BY <2>1 DEF HashHere, HashNext, HashUnknown, NoDescriptor, Recv, At, Running
  <2>2. CASE Reply(i, c)
    BY <2>2 DEF Reply, Recv, At, Running
  <2>3. CASE Lookup(i, c) \/ Final(i, c) \/ FinalLost(i, c)
    BY <2>3 DEF Lookup, Final, FinalLost, Recv, At, Running
  <2>4. QED
    BY <1>1, <2>1, <2>2, <2>3 DEF Handle
<1>2. QED
  BY <1>1 DEF Loop, Select, Accept, EndOfStream, At, Running

\* What is watched are the open connections, and every variable keeps its type.
LEMMA TNext ==
  ASSUME TInv, state # "exited" => Waiting, [Next]_vars
  PROVE  TInv'
<1>1. CASE UNCHANGED vars
  BY <1>1 DEF vars, TInv, TypeOK, WatchedAreTheConnections, Named, Knocks, Conn
<1>2. CASE Environment
  BY <1>2, TEnvironment
<1>3. CASE Loop
  <2>1. state # "exited"
    BY <1>3, LoopRuns
  <2>2. QED
    BY <1>3, <2>1, TLoop
<1>4. QED
  BY <1>1, <1>2, <1>3 DEF Next

-----------------------------------------------------------------------------
(* What holds until the peer exits.                                        *)

\* A connection has one descriptor, and none before it is accepted.
OneEach ==
  /\ \A f, g \in FD : fds[f] \in Conn /\ fds[f] = fds[g] => f = g
  /\ \A f \in FD : fds[f] \notin backlog

EndsKnown == \A c \in Conn : conn[c].eof => conn[c].kind \in Client \cup {"final"}

FromOutside == \A c \in backlog : conn[c].kind \notin {"out", "final"}

\* An answer that has come is still to be read: its connection is closed then.
AnswersUnread ==
  \A f \in FD : fds[f] \in Conn /\ conn[fds[f]].kind = "final" => conn[fds[f]].data

OneCall == \A k, l \in 1..Len(list) : list[k].call = list[l].call => k = l

\* A LOOKUP is answered once, and sent only for a call that was read.
Replies ==
  \A c \in Conn : conn[c].kind = "reply" =>
    /\ conn[conn[c].call].kind \in FarIDs /\ ~conn[conn[c].call].data
    /\ \A d \in Conn : conn[d].kind = "reply" /\ conn[d].call = conn[c].call => d = c

LInv == /\ OneEach /\ EndsKnown /\ FromOutside /\ AnswersUnread
        /\ Waiting /\ OneCall /\ Replies

(* And while there has been no clash.                                      *)

\* Nothing goes out, and no answer comes, but for a pending request.
Outs ==
  \A f \in FD : fds[f] \in Conn /\ conn[fds[f]].kind \in {"out", "final"} =>
    \E e \in Range(list) : e.finalSocket = f

OnePerID ==
  \A e, f \in Range(list) :
    conn[e.call].kind \in FarIDs /\ conn[e.call].kind = conn[f.call].kind => e = f

\* The REPLY for a call has been read, or the call's request waits for it.
IsAwaited(c) ==
  \/ \E d \in Conn : conn[d].kind = "reply" /\ conn[d].call = c /\ ~conn[d].data
  \/ \E e \in Range(list) : e.call = c /\ e.finalSocket = None

Awaited == \A c \in Conn : conn[c].kind \in FarIDs /\ ~conn[c].data => IsAwaited(c)

CInv == Outs /\ OnePerID /\ Awaited

(* And while nobody has left.                                              *)

Unread == \A f \in ready : Readable(f)

SInv == /\ TInv /\ OwnAnswers /\ ExitsOnlyByFault
        /\ state # "exited" => LInv /\ (~clash => CInv)
        /\ Left = {} => Unread

-----------------------------------------------------------------------------
\* Only clients' connections and answers ever end.
LEMMA LeftStays ==
  ASSUME TInv, Next, Left' = {}
  PROVE  Left = {}
<1>1. SUFFICES ASSUME NEW c \in Conn, conn[c].kind \in Client, conn[c].eof PROVE FALSE
  BY DEF Left
<1>2. "out" \notin Client /\ "final" \notin Client
  BY Kinds
<1>3. SUFFICES c \in Conn' /\ conn'[c].kind = conn[c].kind /\ conn'[c].eof
  BY <1>1 DEF Left
<1>4. \A d \in Conn, call \in Nat : Forward(d, call) => ReadsAndMakes(d, call)
  BY ConnForward DEF TInv
<1>5. TypeOK /\ \A d \in Conn : conn[d].call \in Nat /\ d \in Nat
  BY ConnsTyped, Numbers DEF TInv
<1>6. CASE conn' = conn
  BY <1>1, <1>6 DEF Conn
<1>7. ASSUME NEW d \in Conn, Reads(d) PROVE c \in Conn' /\ conn'[c].kind = conn[c].kind /\ conn'[c].eof
  BY <1>1, <1>7 DEF Reads
<1>8. ASSUME NEW d \in Conn, NEW call, ReadsAndMakes(d, call)
      PROVE  c \in Conn' /\ conn'[c].kind = conn[c].kind /\ conn'[c].eof
  BY <1>1, <1>8 DEF ReadsAndMakes
<1>9. ASSUME NEW k \in Kind, NEW call \in Nat, NEW data \in BOOLEAN, Connect(k, call, data)
      PROVE  c \in Conn' /\ conn'[c].kind = conn[c].kind /\ conn'[c].eof
  <2> DEFINE r == [kind |-> k, call |-> call, data |-> data, eof |-> FALSE]
  <2>1. r \in ConnRec /\ conn' = Append(conn, r)
    BY <1>9 DEF ConnRec, Connect
  <2> HIDE DEF r
  <2>2. Makes(r)
    BY <1>5, <2>1, ConnMade
  <2>3. QED
    BY <1>1, <2>2 DEF Makes
<1>10. CASE Environment
  <2>1. CASE ClientConnects
    <3>1. PICK k \in Client : Connect(k, Len(conn) + 1, TRUE)
      BY <2>1 DEF ClientConnects
    <3>2. k \in Kind /\ Len(conn) + 1 \in Nat
      BY <1>5, ConnsTyped, Kinds
    <3>3. QED
      BY <1>9, <3>1, <3>2
  <2>2. CASE PeerConnects
    BY <1>9, <2>2 DEF PeerConnects, Kind, None
  <2>3. ASSUME NEW d \in Conn, ClientLeaves(d)
        PROVE  c \in Conn' /\ conn'[c].kind = conn[c].kind /\ conn'[c].eof
    BY <1>1, <1>5, <2>3, ConnLeft
  <2>4. ASSUME NEW d \in Conn, ReplyComes(d)
        PROVE  c \in Conn' /\ conn'[c].kind = conn[c].kind /\ conn'[c].eof
    <3>1. Connect("reply", d, TRUE) /\ "reply" \in Kind
      BY <2>4 DEF ReplyComes, Kind
    <3>2. QED
      BY <1>5, <1>9, <3>1
  <2>5. ASSUME NEW d \in Conn, FinalComes(d)
        PROVE  c \in Conn' /\ conn'[c].kind = conn[c].kind /\ conn'[c].eof
    <3>1. c # d
      BY <1>1, <1>2, <2>5 DEF FinalComes
    <3>2. QED
      BY <1>1, <1>5, <2>5, <3>1, ConnAnswered
  <2>6. QED
    BY <1>10, <2>1, <2>2, <2>3, <2>4, <2>5 DEF Environment
<1>11. CASE Loop
  <2>1. ASSUME NEW i \in FD, NEW d \in Conn, Handle(i, d)
        PROVE  c \in Conn' /\ conn'[c].kind = conn[c].kind /\ conn'[c].eof
    <3>1. CASE HashHere(i, d) \/ HashUnknown(i, d) \/ Lookup(i, d) \/ Final(i, d)
      <4>1. conn' = Consumed(d)
        BY <3>1 DEF HashHere, HashUnknown, Lookup, Final
      <4>2. QED
        BY <1>5, <1>7, <4>1, ConnRead
    <3>2. CASE HashNext(i, d)
      BY <1>4, <1>5, <1>8, <3>2 DEF HashNext
    <3>3. CASE Reply(i, d)
      <4>1. ASSUME NEW k \in DOMAIN list, Forwards(i, d, k)
            PROVE  c \in Conn' /\ conn'[c].kind = conn[c].kind /\ conn'[c].eof
        <5>1. PICK call \in Nat : call = list[k].call
          BY <1>5, ListTyped DEF Entry
        <5>2. ReadsAndMakes(d, call)
          BY <1>4, <4>1, <5>1 DEF Forwards
        <5>3. QED
          BY <1>8, <5>2
      <4>2. QED
        BY <1>5, <1>6, <3>3, <4>1, ReplyFinds DEF NothingFound
    <3>4. CASE NoDescriptor(i, d) \/ FinalLost(i, d)
      BY <1>6, <3>4 DEF NoDescriptor, FinalLost
    <3>5. QED
      BY <2>1, <3>1, <3>2, <3>3, <3>4 DEF Handle
  <2>2. ASSUME NEW i \in FD, EndOfStream(i) PROVE conn' = conn
    BY <2>2 DEF EndOfStream
  <2>3. QED
    BY <1>6, <1>11, <2>1, <2>2 DEF Loop, Select, Accept
<1>12. QED
  BY <1>10, <1>11 DEF Next

-----------------------------------------------------------------------------
(* Pending requests.                                                       *)

\* What no step does to a connection: a call stays the same, only a connection
\* that was forwarded on gets an answer, and what a client said is read once.
Kept ==
  /\ Conn \subseteq Conn'
  /\ \A c \in Conn :
       /\ conn'[c].call = conn[c].call
       /\ conn'[c].kind = conn[c].kind \/ (conn[c].kind = "out" /\ conn'[c].kind = "final")
       /\ conn[c].kind # "out" => (conn'[c].data => conn[c].data)

LEMMA WaitsKept ==
  ASSUME NEW e, Waits(e), Kept, fds'[e.caller] = fds[e.caller],
         e.finalSocket # None => fds'[e.finalSocket] = fds[e.finalSocket]
  PROVE  Waits(e)'
<1>1. /\ e.call \in Conn' /\ conn'[e.call].kind = conn[e.call].kind /\ ~conn'[e.call].data
  BY Kinds DEF Waits, Kept
<1>2. ASSUME e.finalSocket # None
      PROVE  /\ fds'[e.finalSocket] \in Conn'
             /\ conn'[fds'[e.finalSocket]].kind \in {"out", "final"}
             /\ conn'[fds'[e.finalSocket]].call = e.call
  BY <1>2 DEF Waits, Kept
<1>3. QED
  BY <1>1, <1>2 DEF Waits

LEMMA MakesKept ==
  ASSUME NEW r, Makes(r)
  PROVE  Kept
BY Kinds DEF Makes, Kept

LEMMA ReadsKept ==
  ASSUME NEW c, Reads(c)
  PROVE  Kept
BY Kinds DEF Reads, Kept

LEMMA ReadsAndMakesKept ==
  ASSUME NEW c, NEW call, ReadsAndMakes(c, call)
  PROVE  Kept
BY Kinds DEF ReadsAndMakes, Kept

\* A request is put in the list.
LEMMA ListGrows ==
  ASSUME TypeOK, NEW e \in Entry, list' = Append(list, e), OneCall,
         \A f \in Range(list) : f.call # e.call
  PROVE  Range(list)' = Range(list) \cup {e} /\ OneCall'
<1>1. list \in Seq(Entry) /\ Len(list) \in Nat /\ Range(list) = {list[k] : k \in 1..Len(list)}
  BY ListTyped
<1>2. Range(list)' = Range(list) \cup {e}
  BY <1>1, AppendRange
<1>3. /\ Len(list') = Len(list) + 1 /\ list'[Len(list) + 1] = e
      /\ \A k \in 1..Len(list) : list'[k] = list[k]
  BY <1>1, AppendProperties
<1>4. OneCall'
  <2> SUFFICES ASSUME NEW k \in 1..Len(list'), NEW l \in 1..Len(list'), list'[k].call = list'[l].call
               PROVE  k = l
    BY DEF OneCall
  <2>1. k \in 1..Len(list) \/ k = Len(list) + 1
    BY <1>1, <1>3
  <2>2. l \in 1..Len(list) \/ l = Len(list) + 1
    BY <1>1, <1>3
  <2>3. \A m \in 1..Len(list) : list'[m].call # e.call
    BY <1>1, <1>3
  <2>4. QED
    BY <1>3, <2>1, <2>2, <2>3 DEF OneCall
<1>5. QED
  BY <1>2, <1>4

\* A request is forwarded.
LEMMA ListForwards ==
  ASSUME TypeOK, NEW k \in DOMAIN list, NEW s \in FD, list' = [list EXCEPT ![k].finalSocket = s],
         OneCall
  PROVE  \E e, f \in Entry :
           /\ e = list[k] /\ f.caller = e.caller /\ f.call = e.call /\ f.finalSocket = s
           /\ Range(list)' = (Range(list) \ {e}) \cup {f}
           /\ OneCall'
<1> DEFINE e == list[k]
           f == [e EXCEPT !.finalSocket = s]
<1>1. /\ list \in Seq(Entry) /\ Len(list) \in Nat /\ DOMAIN list = 1..Len(list)
      /\ Range(list) = {list[l] : l \in 1..Len(list)} /\ e \in Entry
  BY ListTyped
<1>2. f \in Entry /\ f.caller = e.caller /\ f.call = e.call /\ f.finalSocket = s
  BY <1>1 DEF Entry
<1>3. list' = [list EXCEPT ![k] = f]
  OBVIOUS
<1> HIDE DEF f
<1>4. /\ DOMAIN list' = 1..Len(list) /\ Len(list') = Len(list)
      /\ \A l \in 1..Len(list) : list'[l] = IF l = k THEN f ELSE list[l]
  BY <1>1, <1>2, <1>3, Replaced
<1>5. OneCall'
  BY <1>1, <1>2, <1>4 DEF OneCall
<1>6. Range(list)' = {list'[l] : l \in 1..Len(list)}
  BY <1>4 DEF Range
<1>7. \A l \in 1..Len(list) : list[l] = e => l = k
  BY <1>1 DEF OneCall
<1>8. Range(list)' = (Range(list) \ {e}) \cup {f}
  BY <1>1, <1>4, <1>6, <1>7
<1>9. QED
  BY <1>1, <1>2, <1>5, <1>8

\* A request is taken out.
LEMMA ListShrinks ==
  ASSUME TypeOK, NEW k \in DOMAIN list, list' = RemoveAt(list, k), OneCall
  PROVE  Range(list)' = Range(list) \ {list[k]} /\ OneCall'
<1>1. /\ list \in Seq(Entry) /\ Len(list) \in Nat /\ DOMAIN list = 1..Len(list) /\ k \in 1..Len(list)
      /\ Range(list) = {list[l] : l \in 1..Len(list)}
  BY ListTyped
<1>2. /\ list' \in Seq(Entry) /\ Len(list') = Len(list) - 1
      /\ \A j \in 1..(Len(list) - 1) : list'[j] = IF j < k THEN list[j] ELSE list[j + 1]
  <2>1. ASSUME NEW s \in Seq(Entry), NEW i \in 1..Len(s), NEW t, t = RemoveAt(s, i)
        PROVE  /\ t \in Seq(Entry) /\ Len(t) = Len(s) - 1
               /\ \A j \in 1..(Len(s) - 1) : t[j] = IF j < i THEN s[j] ELSE s[j + 1]
    BY <2>1, Removed
  <2>2. PICK s, i, t : s = list /\ i = k /\ t = list'
    OBVIOUS
  <2>3. s \in Seq(Entry) /\ i \in 1..Len(s) /\ t = RemoveAt(s, i)
    BY <1>1, <2>2
  <2>4. /\ t \in Seq(Entry) /\ Len(t) = Len(s) - 1
        /\ \A j \in 1..(Len(s) - 1) : t[j] = IF j < i THEN s[j] ELSE s[j + 1]
    BY <2>1, <2>3
  <2>5. QED
    BY <2>2, <2>4
<1>3. Range(list)' = {list'[j] : j \in 1..(Len(list) - 1)}
  BY <1>2, LenProperties DEF Range
<1>4. /\ Range(list)' \subseteq Range(list) /\ Range(list) \ {list[k]} \subseteq Range(list)'
  BY <1>1, RemoveAtRange
<1>5. ASSUME NEW j \in 1..(Len(list) - 1) PROVE list'[j] # list[k]
  <2> DEFINE l == IF j < k THEN j ELSE j + 1
  <2>1. list'[j] = list[l] /\ l \in 1..Len(list) /\ l # k
    BY <1>1, <1>2
  <2>2. QED
    BY <1>1, <2>1 DEF OneCall
<1>6. OneCall'
  <2> SUFFICES ASSUME NEW i \in 1..(Len(list) - 1), NEW j \in 1..(Len(list) - 1),
                      list'[i].call = list'[j].call
               PROVE  i = j
    BY <1>2 DEF OneCall
  <2> DEFINE l == IF j < k THEN j ELSE j + 1
             m == IF i < k THEN i ELSE i + 1
  <2>1. list'[j] = list[l] /\ l \in 1..Len(list) /\ list'[i] = list[m] /\ m \in 1..Len(list)
    BY <1>1, <1>2
  <2>2. m = l
    BY <2>1 DEF OneCall
  <2>3. QED
    BY <1>1, <2>2
<1>7. QED
  BY <1>3, <1>4, <1>5, <1>6

-----------------------------------------------------------------------------
(* While the peer runs.                                                    *)

Calm == /\ TInv /\ LInv /\ OwnAnswers
        /\ Left = {} => Unread
        /\ ~clash => CInv

\* A step that keeps all this.
Keeps == /\ LInv' /\ OwnAnswers'
         /\ Left = {} => Unread'
         /\ ~clash' => CInv'

\* What is pending stays so.
LEMMA WaitingKept ==
  ASSUME Calm, Kept, UNCHANGED <<fds, list>>
  PROVE  Waiting' /\ OneCall'
<1>1. Waiting'
  BY WaitsKept DEF Calm, LInv, Waiting
<1>2. QED
  BY <1>1 DEF Calm, LInv, OneCall

\* The hash ID of a pending request stays the same.
LEMMA SameIDs ==
  ASSUME Calm, Kept, NEW e \in Range(list)
  PROVE  e.call \in Conn /\ conn'[e.call].kind = conn[e.call].kind
<1>1. Waits(e)
  BY DEF Calm, LInv, Waiting
<1>2. QED
  BY <1>1, Kinds DEF Waits, Kept

LEMMA OnePerIDKept ==
  ASSUME Calm, Kept, OnePerID, Range(list)' \subseteq Range(list)
  PROVE  OnePerID'
BY SameIDs DEF OnePerID

\* A call is still awaited if its request still waits.
LEMMA StillAwaited ==
  ASSUME Kept, NEW c, IsAwaited(c),
         \A e \in Range(list) : e.call = c /\ e.finalSocket = None => e \in Range(list)'
  PROVE  IsAwaited(c)'
<1>1. ASSUME NEW d \in Conn, conn[d].kind = "reply", conn[d].call = c, ~conn[d].data
      PROVE  d \in Conn' /\ conn'[d].kind = "reply" /\ conn'[d].call = c /\ ~conn'[d].data
  BY <1>1 DEF Kept
<1>2. QED
  BY <1>1 DEF IsAwaited

\* Nobody's step but that of the loop; no call has been read.
LEMMA CallsKept ==
  ASSUME Calm, Kept, UNCHANGED <<fds, list, clash>>, ~clash',
         \A f \in FD : fds[f] \in Conn' => fds[f] \in Conn,
         \A c \in Conn : conn'[c].kind \in {"out", "final"} => conn[c].kind \in {"out", "final"},
         \A c \in Conn' : conn'[c].kind \in FarIDs /\ ~conn'[c].data =>
           c \in Conn /\ conn[c].kind \in FarIDs /\ ~conn[c].data
  PROVE  CInv'
<1>1. Range(list)' = Range(list) /\ Outs /\ OnePerID /\ Awaited
  BY DEF Calm, CInv
<1>2. Outs'
  BY <1>1 DEF Outs
<1>3. OnePerID'
  BY <1>1, OnePerIDKept
<1>4. Awaited'
  <2>1. ASSUME NEW c \in Conn', conn'[c].kind \in FarIDs, ~conn'[c].data
        PROVE  IsAwaited(c)'
    <3>1. IsAwaited(c)
      BY <1>1, <2>1 DEF Awaited
    <3>2. QED
      BY <1>1, <3>1, StillAwaited
  <2>2. QED
    BY <2>1 DEF Awaited
<1>5. QED
  BY <1>2, <1>3, <1>4 DEF CInv

\* Somebody connects.
LEMMA LConnect ==
  ASSUME Calm, NEW k \in Kind, NEW call \in Nat, Connect(k, call, TRUE),
         k \notin {"out", "final"},
         k = "reply" => /\ call \in Conn /\ conn[call].kind \in FarIDs /\ ~conn[call].data
                        /\ ~\E d \in Conn : conn[d].kind = "reply" /\ conn[d].call = call
  PROVE  Keeps
<1> DEFINE r == [kind |-> k, call |-> call, data |-> TRUE, eof |-> FALSE]
           new == Len(conn) + 1
<1>1. /\ TypeOK /\ r \in ConnRec /\ r.kind = k /\ r.call = call /\ r.data = TRUE /\ r.eof = FALSE
  BY DEF Calm, TInv, ConnRec
<1>2. conn' = Append(conn, r) /\ backlog' = backlog \cup {new}
      /\ UNCHANGED <<fds, master, ready, list, sent, state, clash>>
  BY DEF Connect, loopVars
<1> HIDE DEF r
<1>3. Makes(r)
  BY <1>1, <1>2, ConnMade
<1>4. /\ Conn' = Conn \cup {new} /\ new \notin Conn /\ \A c \in Conn : conn'[c] = conn[c]
      /\ conn'[new] = r /\ Kept
  BY <1>3, MakesKept DEF Makes
<1>5. new # Free /\ new # Unwatched /\ \A f \in FD : fds[f] \in Conn \cup {Free, Unwatched}
  BY <1>1, ConnsTyped DEF TypeOK, Free, Unwatched
<1>6. \A f \in FD : fds[f] # new /\ (fds[f] \in Conn' <=> fds[f] \in Conn)
  BY <1>4, <1>5
<1> HIDE DEF new
<1>7. ASSUME Left = {} PROVE Unread'
  <2> SUFFICES ASSUME NEW f \in ready PROVE Readable(f)'
    BY <1>2 DEF Unread
  <2>1. Readable(f) /\ f \in FD \cup {LISTENER}
    BY <1>1, <1>7 DEF Calm, Unread, TypeOK
  <2>2. CASE f = LISTENER
    BY <1>2, <2>1, <2>2 DEF Readable
  <2>3. CASE f # LISTENER
    BY <1>2, <1>4, <2>1, <2>3 DEF Readable
  <2>4. QED
    BY <2>2, <2>3
<1>8. OneEach'
  BY <1>2, <1>4, <1>6 DEF Calm, LInv, OneEach
<1>9. EndsKnown'
  BY <1>1, <1>4 DEF Calm, LInv, EndsKnown
<1>10. FromOutside'
  <2>1. backlog \subseteq Conn
    BY <1>1 DEF TypeOK
  <2>2. QED
    BY <1>1, <1>2, <1>4, <2>1 DEF Calm, LInv, FromOutside
<1>11. AnswersUnread'
  BY <1>2, <1>4, <1>6 DEF Calm, LInv, AnswersUnread
<1>12. Waiting' /\ OneCall'
  BY <1>2, <1>4, WaitingKept
<1>13. Replies'
  <2>1. ASSUME NEW c \in Conn', conn'[c].kind = "reply"
        PROVE  /\ conn'[c].call \in Conn
               /\ conn[conn'[c].call].kind \in FarIDs /\ ~conn[conn'[c].call].data
               /\ \A d \in Conn' : conn'[d].kind = "reply" /\ conn'[d].call = conn'[c].call => d = c
    <3>1. CASE c = new
      <4>1. k = "reply" /\ conn'[c].call = call
        BY <1>1, <1>4, <2>1, <3>1
      <4>2. QED
        BY <1>4, <3>1, <4>1
    <3>2. CASE c # new
      <4>1. c \in Conn /\ conn'[c] = conn[c]
        BY <1>4, <2>1, <3>2
      <4>2. conn[c].kind = "reply" /\ "reply" # "lookup"
        BY <2>1, <4>1
      <4>3. conn[c].call \in Conn /\ conn[conn[c].call].kind \in FarIDs /\ ~conn[conn[c].call].data
        BY <4>1, <4>2 DEF Calm, TInv, LInv, Named, Replies
      <4>4. ASSUME NEW d \in Conn', conn'[d].kind = "reply", conn'[d].call = conn'[c].call
            PROVE  d = c
        <5>1. d # new
          BY <1>1, <1>4, <4>1, <4>2, <4>4
        <5>2. d \in Conn /\ conn'[d] = conn[d]
          BY <1>4, <5>1
        <5>3. QED
          BY <4>1, <4>2, <4>4, <5>2 DEF Calm, LInv, Replies
      <4>5. QED
        BY <4>1, <4>3, <4>4
    <3>3. QED
      BY <3>1, <3>2
  <2>2. ASSUME NEW c \in Conn', conn'[c].kind = "reply"
        PROVE  /\ conn'[conn'[c].call].kind \in FarIDs /\ ~conn'[conn'[c].call].data
               /\ \A d \in Conn' : conn'[d].kind = "reply" /\ conn'[d].call = conn'[c].call => d = c
    BY <1>4, <2>1, <2>2
  <2>3. QED
    BY <2>2 DEF Replies
<1>14. OwnAnswers'
  BY <1>2 DEF Calm, OwnAnswers
<1>15. ASSUME ~clash' PROVE CInv'
  <2>1. \A c \in Conn' : ~conn'[c].data => c \in Conn /\ conn'[c] = conn[c]
    BY <1>1, <1>4
  <2>2. QED
    BY <1>2, <1>4, <1>6, <1>15, <2>1, CallsKept
<1>16. QED
  BY <1>7, <1>8, <1>9, <1>10, <1>11, <1>12, <1>13, <1>14, <1>15 DEF LInv, Keeps

\* An answer comes on a connection that is still open.
LEMMA LFinalComes ==
  ASSUME Calm, NEW c \in Conn, FinalComes(c)
  PROVE  Keeps
<1>1. TypeOK /\ conn[c].kind = "out" /\ UNCHANGED <<backlog, fds, master, ready, list, sent, state, clash>>
  BY DEF Calm, TInv, FinalComes, loopVars
<1>2. /\ Conn' = Conn /\ \A d \in Conn \ {c} : conn'[d] = conn[d]
      /\ conn'[c] = [kind |-> "final", call |-> conn[c].call, data |-> TRUE, eof |-> TRUE]
  BY <1>1, ConnAnswered
<1>3. PICK r : r = conn'[c]
  OBVIOUS
<1>4. /\ r.kind = "final" /\ r.call = conn[c].call /\ r.data = TRUE /\ r.eof = TRUE
      /\ \A d \in Conn : conn'[d] = IF d = c THEN r ELSE conn[d]
  BY <1>2, <1>3
<1>5. c \notin backlog
  BY <1>1 DEF Calm, LInv, FromOutside
<1>6. Kept
  BY <1>1, <1>2, <1>4 DEF Kept
<1>7. ASSUME Left = {} PROVE Unread'
  BY <1>1, <1>2, <1>4, <1>7 DEF Calm, Unread, Readable
<1>8. OneEach' /\ EndsKnown' /\ AnswersUnread'
  BY <1>1, <1>2, <1>4 DEF Calm, LInv, OneEach, EndsKnown, AnswersUnread
<1>9. FromOutside'
  BY <1>1, <1>2, <1>4, <1>5 DEF Calm, LInv, FromOutside, TypeOK
<1>10. Waiting' /\ OneCall'
  BY <1>1, <1>6, WaitingKept
<1>11. Replies'
  <2>1. \A d \in Conn' : conn'[d].kind = "reply" =>
          /\ d \in Conn /\ conn[d].kind = "reply" /\ conn'[d].call = conn[d].call
          /\ conn[d].call \in Conn
    BY <1>2, <1>4 DEF Calm, TInv, Named
  <2>2. \A d \in Conn : conn[d].kind \in FarIDs => conn'[d] = conn[d]
    BY <1>1, <1>4, Kinds
  <2>3. QED
    BY <2>1, <2>2 DEF Calm, LInv, Replies
<1>12. OwnAnswers'
  BY <1>1 DEF Calm, OwnAnswers
<1>13. ASSUME ~clash' PROVE CInv'
  <2>1. "final" \notin FarIDs /\ \A d \in Conn : conn'[d].kind \in FarIDs => conn'[d] = conn[d]
    BY <1>4, Kinds
  <2>2. \A d \in Conn : conn'[d].kind \in {"out", "final"} => conn[d].kind \in {"out", "final"}
    BY <1>1, <1>4
  <2>3. QED
    BY <1>1, <1>2, <1>6, <1>13, <2>1, <2>2, CallsKept
<1>14. QED
  BY <1>7, <1>8, <1>9, <1>10, <1>11, <1>12, <1>13 DEF LInv, Keeps

LEMMA LClientLeaves ==
  ASSUME Calm, NEW c \in Conn, ClientLeaves(c)
  PROVE  Keeps
<1>1. TypeOK /\ conn[c].kind \in Client /\ UNCHANGED <<backlog, fds, master, ready, list, sent, state, clash>>
  BY DEF Calm, TInv, ClientLeaves, loopVars
<1>2. /\ Conn' = Conn
      /\ \A d \in Conn : /\ conn'[d].kind = conn[d].kind /\ conn'[d].call = conn[d].call
                         /\ conn'[d].data = conn[d].data
                         /\ d # c => conn'[d].eof = conn[d].eof
      /\ conn'[c].eof = TRUE
  BY <1>1, ConnLeft
<1>3. Kept
  BY <1>2 DEF Kept
<1>4. ASSUME Left = {} PROVE Unread'
  <2>1. \A d \in Conn : conn[d].eof => conn'[d].eof
    BY <1>2
  <2>2. QED
    BY <1>1, <1>2, <1>4, <2>1 DEF Calm, Unread, Readable
<1>5. OneEach' /\ EndsKnown' /\ AnswersUnread'
  BY <1>1, <1>2 DEF Calm, LInv, OneEach, EndsKnown, AnswersUnread
<1>6. FromOutside'
  BY <1>1, <1>2 DEF Calm, LInv, FromOutside, TypeOK
<1>7. Waiting' /\ OneCall'
  BY <1>1, <1>3, WaitingKept
<1>8. Replies'
  <2>1. \A d \in Conn : conn[d].kind = "reply" => conn[d].call \in Conn
    BY DEF Calm, TInv, Named
  <2>2. QED
    BY <1>2, <2>1 DEF Calm, LInv, Replies
<1>9. OwnAnswers'
  BY <1>1 DEF Calm, OwnAnswers
<1>10. ASSUME ~clash' PROVE CInv'
  BY <1>1, <1>2, <1>3, <1>10, CallsKept
<1>11. QED
  BY <1>4, <1>5, <1>6, <1>7, <1>8, <1>9, <1>10 DEF LInv, Keeps

LEMMA LEnvironment ==
  ASSUME Calm, Environment
  PROVE  Keeps
<1>1. TypeOK /\ Len(conn) + 1 \in Nat
  BY ConnsTyped DEF Calm, TInv
<1>2. CASE ClientConnects
  <2>1. PICK k \in Client : Connect(k, Len(conn) + 1, TRUE)
    BY <1>2 DEF ClientConnects
  <2>2. k \in Kind /\ k \notin {"out", "final", "reply"}
    BY Kinds
  <2>3. QED
    BY <1>1, <2>1, <2>2, LConnect
<1>3. CASE PeerConnects
  <2>1. Connect("lookup", None, TRUE) /\ "lookup" \in Kind /\ None \in Nat
    BY <1>3 DEF PeerConnects, Kind, None
  <2>2. QED
    BY <2>1, LConnect
<1>4. ASSUME NEW c \in Conn, ReplyComes(c) PROVE Keeps
  <2>1. /\ Connect("reply", c, TRUE) /\ "reply" \in Kind /\ c \in Nat
        /\ conn[c].kind \in FarIDs /\ ~conn[c].data
        /\ ~\E d \in Conn : conn[d].kind = "reply" /\ conn[d].call = c
    BY <1>1, <1>4, Numbers DEF ReplyComes, Kind
  <2>2. QED
    BY <2>1, LConnect
<1>5. QED
  BY <1>2, <1>3, <1>4, LFinalComes, LClientLeaves DEF Environment

-----------------------------------------------------------------------------
(* What the loop does at one descriptor.                                   *)

LEMMA OneEntry ==
  ASSUME Calm, NEW e \in Range(list), NEW f \in Range(list), e.call = f.call
  PROVE  e = f
<1>1. PICK k \in 1..Len(list), l \in 1..Len(list) : e = list[k] /\ f = list[l]
  BY ListTyped DEF Calm, TInv
<1>2. QED
  BY <1>1 DEF Calm, LInv, OneCall

\* It reads connection c at i, closes the descriptors in S, and gives low to a
\* connection it makes, to one it forgets, or to none.
Moves(S, low, v) == fds' = [f \in FD |-> IF f = low THEN v ELSE IF f \in S THEN Free ELSE fds[f]]

Handles(i, c, S, low, v, call) ==
  /\ fds[i] = c /\ At(i) /\ backlog' = backlog
  /\ S \in SUBSET FD /\ low \in FD /\ (fds[low] = Free \/ low \in S)
  /\ \/ v \in {Free, Unwatched} /\ Reads(c)
     \/ v = Len(conn) + 1 /\ ReadsAndMakes(c, call)
  /\ Moves(S, low, v)
  /\ conn[c].kind = "final" => i \in S

\* What is left then of the descriptors and connections there were.
Leaves(c, S, low, v) ==
  /\ Kept /\ OneEach' /\ EndsKnown' /\ FromOutside' /\ AnswersUnread'
  /\ \A f \in FD : fds'[f] \in Conn' /\ conn'[fds'[f]].kind \in {"out", "final"} =>
       \/ f = low /\ v = Len(conn) + 1
       \/ f # low /\ f \notin S /\ fds[f] \in Conn /\ conn[fds[f]].kind \in {"out", "final"}
  /\ \A d \in Conn' : conn'[d].kind \in Client \cup {"reply"} =>
       /\ d \in Conn /\ conn'[d].kind = conn[d].kind /\ conn'[d].call = conn[d].call
       /\ conn'[d].data = IF d = c THEN FALSE ELSE conn[d].data

LEMMA Handled ==
  ASSUME Calm, NEW i \in FD, NEW c \in Conn, NEW S, NEW low, NEW v, NEW call,
         Handles(i, c, S, low, v, call)
  PROVE  /\ Leaves(c, S, low, v)
         /\ Left = {} /\ S \cap ready \subseteq {i} => Unread'
<1> SUFFICES ASSUME fds[i] = c, At(i), backlog' = backlog,
                    S \in SUBSET FD, low \in FD, fds[low] = Free \/ low \in S,
                    \/ v \in {Free, Unwatched} /\ Reads(c)
                    \/ v = Len(conn) + 1 /\ ReadsAndMakes(c, call),
                    fds' = [f \in FD |-> IF f = low THEN v ELSE IF f \in S THEN Free ELSE fds[f]],
                    conn[c].kind = "final" => i \in S
             PROVE  /\ Leaves(c, S, low, v)
                    /\ Left = {} /\ S \cap ready \subseteq {i} => Unread'
  BY DEF Handles, Moves
<1> DEFINE new == Len(conn) + 1
<1>1. /\ TypeOK /\ Free \notin Conn /\ Unwatched \notin Conn /\ Free # new /\ Unwatched # new
      /\ new \notin Conn
  BY Numbers, ConnsTyped DEF Calm, TInv, Free, Unwatched
<1>2. Kept
  BY ReadsKept, ReadsAndMakesKept
<1>3. \/ Conn' = Conn /\ v \in {Free, Unwatched}
      \/ /\ Conn' = Conn \cup {new} /\ new \notin Conn /\ v = new
         /\ conn'[new].kind = "out" /\ conn'[new].eof = FALSE
  <2>1. CASE Reads(c) /\ v \in {Free, Unwatched}
    BY <2>1 DEF Reads
  <2>2. CASE ReadsAndMakes(c, call) /\ v = new
    <3>1. PICK r : r = conn'[new]
      OBVIOUS
    <3>2. Conn' = Conn \cup {new} /\ r.kind = "out" /\ r.eof = FALSE
      BY <2>2, <3>1 DEF ReadsAndMakes
    <3>3. QED
      BY <1>1, <2>2, <3>1, <3>2
  <2>3. QED
    BY <2>1, <2>2
<1>4. \A d \in Conn : /\ conn'[d].kind = conn[d].kind /\ conn'[d].eof = conn[d].eof
                      /\ d # c => conn'[d].data = conn[d].data
  <2>1. CASE Reads(c)
    BY <2>1 DEF Reads
  <2>2. CASE ReadsAndMakes(c, call)
    BY <2>2 DEF ReadsAndMakes
  <2>3. QED
    BY <2>1, <2>2
<1>5. \A f \in FD : fds[f] \in Conn \cup {Free, Unwatched}
  BY <1>1 DEF TypeOK
<1> HIDE DEF new
<1>6. \A f \in FD : fds'[f] \in Conn' =>
        \/ f = low /\ v = new /\ fds'[f] = new
        \/ f # low /\ f \notin S /\ fds'[f] = fds[f] /\ fds[f] \in Conn
  BY <1>1, <1>3, <1>5
<1>7. ASSUME Left = {}, S \cap ready \subseteq {i} PROVE Unread'
  <2> SUFFICES ASSUME NEW f \in ready' PROVE Readable(f)'
    BY DEF Unread
  <2>1. f \in ready /\ f # i /\ f \in FD \cup {LISTENER}
    BY <1>1, AtIsReady DEF TypeOK
  <2>2. Readable(f)
    BY <1>7, <2>1 DEF Calm, Unread
  <2>3. CASE f = LISTENER
    BY <2>2, <2>3 DEF Readable
  <2>4. CASE f # LISTENER
    <3>1. f \in FD /\ fds[f] \in Conn /\ (conn[fds[f]].data \/ conn[fds[f]].eof)
      BY <2>1, <2>2, <2>4 DEF Readable
    <3>2. f # low /\ f \notin S
      BY <1>1, <1>7, <2>1, <3>1
    <3>3. fds'[f] = fds[f] /\ fds[f] # c
      BY <2>1, <3>1, <3>2 DEF Calm, LInv, OneEach
    <3>4. fds[f] \in Conn' /\ (conn'[fds[f]].data \/ conn'[fds[f]].eof)
      BY <1>3, <1>4, <3>1, <3>3
    <3>5. QED
      BY <2>4, <3>3, <3>4 DEF Readable
  <2>5. QED
    BY <2>3, <2>4
<1>8. OneEach'
  <2>1. ASSUME NEW f \in FD, NEW g \in FD, fds'[f] \in Conn', fds'[f] = fds'[g]
        PROVE  f = g
    <3>1. fds'[g] \in Conn'
      BY <2>1
    <3>2. CASE f = low /\ v = new /\ fds'[f] = new
      BY <1>1, <1>3, <1>6, <2>1, <3>1, <3>2
    <3>3. CASE f # low /\ f \notin S /\ fds'[f] = fds[f] /\ fds[f] \in Conn
      <4>1. fds[g] = fds[f]
        BY <1>1, <1>3, <1>6, <2>1, <3>1, <3>3
      <4>2. QED
        BY <3>3, <4>1 DEF Calm, LInv, OneEach
    <3>4. QED
      BY <1>6, <2>1, <3>2, <3>3
  <2>2. ASSUME NEW f \in FD PROVE fds'[f] \notin backlog'
    BY <1>1, <1>3 DEF Calm, LInv, OneEach, TypeOK
  <2>3. QED
    BY <2>1, <2>2 DEF OneEach
<1>9. EndsKnown'
  BY <1>3, <1>4, Kinds DEF Calm, LInv, EndsKnown
<1>10. FromOutside'
  BY <1>1, <1>4 DEF Calm, LInv, FromOutside, TypeOK
<1>11. AnswersUnread'
  <2> SUFFICES ASSUME NEW f \in FD, fds'[f] \in Conn', conn'[fds'[f]].kind = "final"
               PROVE  conn'[fds'[f]].data
    BY DEF AnswersUnread
  <2>1. f # low /\ f \notin S /\ fds'[f] = fds[f] /\ fds[f] \in Conn
    BY <1>1, <1>3, <1>6
  <2>2. conn[fds[f]].kind = "final"
    BY <1>4, <2>1
  <2>3. conn[fds[f]].data /\ fds[f] # c
    BY <2>1, <2>2 DEF Calm, LInv, AnswersUnread, OneEach
  <2>4. QED
    BY <1>4, <2>1, <2>3
<1>12. ASSUME NEW f \in FD, fds'[f] \in Conn', conn'[fds'[f]].kind \in {"out", "final"}
       PROVE  \/ f = low /\ v = new
              \/ f # low /\ f \notin S /\ fds[f] \in Conn /\ conn[fds[f]].kind \in {"out", "final"}
  BY <1>4, <1>6, <1>12
<1>13. ASSUME NEW d \in Conn', conn'[d].kind \in Client \cup {"reply"}
       PROVE  /\ d \in Conn /\ conn'[d].kind = conn[d].kind /\ conn'[d].call = conn[d].call
              /\ conn'[d].data = IF d = c THEN FALSE ELSE conn[d].data
  <2>1. d \in Conn
    BY <1>3, <1>13, Kinds
  <2>2. CASE Reads(c)
    BY <2>1, <2>2 DEF Reads
  <2>3. CASE ReadsAndMakes(c, call)
    BY <2>1, <2>3 DEF ReadsAndMakes
  <2>4. QED
    BY <2>2, <2>3
<1>14. QED
  BY <1>2, <1>7, <1>8, <1>9, <1>10, <1>11, <1>12, <1>13 DEF new, Leaves

\* REPLYs are for calls that have been read.
LEMMA RepliesKept ==
  ASSUME Calm, NEW c, NEW S, NEW low, NEW v, Leaves(c, S, low, v)
  PROVE  Replies'
<1> SUFFICES ASSUME NEW r \in Conn', conn'[r].kind = "reply"
             PROVE  /\ conn'[conn'[r].call].kind \in FarIDs /\ ~conn'[conn'[r].call].data
                    /\ \A d \in Conn' : conn'[d].kind = "reply" /\ conn'[d].call = conn'[r].call => d = r
  BY DEF Replies
<1>1. r \in Conn /\ conn[r].kind = "reply" /\ conn'[r].call = conn[r].call
  BY DEF Leaves
<1>2. PICK x : x = conn[r].call
  OBVIOUS
<1>3. x \in Conn /\ conn[x].kind \in FarIDs /\ ~conn[x].data
  BY <1>1, <1>2 DEF Calm, TInv, LInv, Named, Replies
<1>4. conn[x].kind # "out"
  BY <1>3, Kinds
<1>5. conn'[x].kind = conn[x].kind /\ ~conn'[x].data
  BY <1>3, <1>4 DEF Leaves, Kept
<1>6. ASSUME NEW d \in Conn', conn'[d].kind = "reply", conn'[d].call = conn'[r].call PROVE d = r
  <2>1. d \in Conn /\ conn[d].kind = "reply" /\ conn'[d].call = conn[d].call
    BY <1>6 DEF Leaves
  <2>2. QED
    BY <1>1, <1>6, <2>1 DEF Calm, LInv, Replies
<1>7. QED
  BY <1>1, <1>2, <1>3, <1>5, <1>6

\* What is still open belongs to the same requests.
LEMMA OutsKept ==
  ASSUME Outs, NEW c, NEW S, NEW low, NEW v, Leaves(c, S, low, v),
         v = Len(conn) + 1 => \E e \in Range(list)' : e.finalSocket = low,
         \A e \in Range(list) : e.finalSocket \in FD /\ e.finalSocket \notin S => e \in Range(list)'
  PROVE  Outs'
<1> SUFFICES ASSUME NEW f \in FD, fds'[f] \in Conn', conn'[fds'[f]].kind \in {"out", "final"}
             PROVE  \E e \in Range(list)' : e.finalSocket = f
  BY DEF Outs
<1>1. CASE f = low /\ v = Len(conn) + 1
  BY <1>1
<1>2. CASE f # low /\ f \notin S /\ fds[f] \in Conn /\ conn[fds[f]].kind \in {"out", "final"}
  <2>1. PICK e \in Range(list) : e.finalSocket = f
    BY <1>2 DEF Outs
  <2>2. QED
    BY <1>2, <2>1
<1>3. QED
  BY <1>1, <1>2 DEF Leaves

\* A call that was read is awaited, but for the one at hand.
LEMMA OthersAwaited ==
  ASSUME Awaited, NEW c, NEW S, NEW low, NEW v, Leaves(c, S, low, v),
         NEW d \in Conn', conn'[d].kind \in FarIDs, ~conn'[d].data, d # c,
         \A e \in Range(list) : e.call = d /\ e.finalSocket = None => e \in Range(list)'
  PROVE  IsAwaited(d)'
<1>1. d \in Conn /\ conn[d].kind \in FarIDs /\ ~conn[d].data
  BY Kinds DEF Leaves
<1>2. IsAwaited(d)
  BY <1>1 DEF Awaited
<1>3. Kept
  BY DEF Leaves
<1>4. QED
  BY <1>2, <1>3, StillAwaited

\* Nothing that waits is on a descriptor on which something else has come.
LEMMA NotWaitedOn ==
  ASSUME Calm, NEW i \in FD, NEW c \in Conn, fds[i] = c, conn[c].data, conn[c].kind # "final",
         conn[c].kind # "out", NEW e \in Range(list)
  PROVE  e.caller # i /\ e.finalSocket # i /\ e.call # c
<1>1. Waits(e)
  BY DEF Calm, LInv, Waiting
<1>2. i # None
  BY Numbers DEF Calm, TInv
<1>3. QED
  BY <1>1, <1>2 DEF Waits

\* A pending request whose descriptors are left alone.
LEMMA FreeNotWaitedOn ==
  ASSUME Calm, NEW e \in Range(list)
  PROVE  /\ e.caller \in FD /\ fds[e.caller] # Free
         /\ e.finalSocket # None => e.finalSocket \in FD /\ fds[e.finalSocket] # Free
<1>1. Waits(e)
  BY DEF Calm, LInv, Waiting
<1>2. Free \notin Conn
  BY Numbers DEF Calm, TInv
<1>3. QED
  BY <1>1, <1>2 DEF Waits

-----------------------------------------------------------------------------
(* The branches of the loop.                                               *)

LEMMA LSelect ==
  ASSUME Calm, Select
  PROVE  Keeps
<1>1. /\ UNCHANGED <<conn, backlog, fds, master, list, sent, state, clash>> /\ Conn' = Conn
      /\ ready' = {f \in master : Readable(f)}
  BY DEF Select, Conn
<1>2. Unread'
  BY <1>1 DEF Unread, Readable
<1>3. Kept
  BY <1>1 DEF Kept
<1>4. Waiting' /\ OneCall'
  BY <1>1, <1>3, WaitingKept
<1>5. ~clash' => CInv'
  BY <1>1, <1>3, CallsKept
<1>6. QED
  BY <1>1, <1>2, <1>4, <1>5 DEF Keeps, Calm, LInv, OneEach, EndsKnown, FromOutside, AnswersUnread,
     Replies, OwnAnswers

LEMMA LAccept ==
  ASSUME Calm, Accept
  PROVE  Keeps
<1>1. /\ TypeOK /\ conn' = conn /\ Conn' = Conn /\ UNCHANGED <<list, sent, state, clash>>
      /\ ready' = ready \ {LISTENER} /\ LISTENER \in ready /\ LISTENER \notin FD
      /\ Free \notin Conn
  BY AtIsReady, Numbers DEF Calm, TInv, Accept, Conn
<1>2. Kept
  BY <1>1 DEF Kept
<1>3. CASE Available = {}
  <2>1. UNCHANGED <<backlog, fds>>
    BY <1>3 DEF Accept
  <2>2. Left = {} => Unread'
    BY <1>1, <2>1 DEF Calm, Unread, Readable
  <2>3. Waiting' /\ OneCall'
    BY <1>1, <1>2, <2>1, WaitingKept
  <2>4. ~clash' => CInv'
    BY <1>1, <1>2, <2>1, CallsKept
  <2>5. QED
    BY <1>1, <2>1, <2>2, <2>3, <2>4 DEF Keeps, Calm, LInv, OneEach, EndsKnown, FromOutside,
       AnswersUnread, Replies, OwnAnswers
<1>4. CASE Available # {}
  <2>1. Lowest \in FD /\ fds[Lowest] = Free /\ Min(backlog) \in backlog
    BY <1>1, <1>4, LowestIsFree, OldestWaits DEF Calm, TInv, Knocks
  <2>2. PICK low, c : low = Lowest /\ c = Min(backlog)
    OBVIOUS
  <2>3. /\ low \in FD /\ fds[low] = Free /\ c \in backlog /\ c \in Conn
        /\ backlog' = backlog \ {c} /\ conn[c].kind \notin {"out", "final"}
        /\ \A f \in FD : fds'[f] = IF f = low THEN c ELSE fds[f]
    BY <1>1, <1>4, <2>1, <2>2 DEF Accept, TypeOK, Calm, LInv, FromOutside
  <2>4. ASSUME Left = {} PROVE Unread'
    <3> SUFFICES ASSUME NEW f \in ready' PROVE Readable(f)'
      BY DEF Unread
    <3>1. f \in ready /\ f \in FD /\ f # LISTENER
      BY <1>1 DEF TypeOK
    <3>2. fds[f] \in Conn /\ (conn[fds[f]].data \/ conn[fds[f]].eof)
      BY <2>4, <3>1 DEF Calm, Unread, Readable
    <3>3. fds'[f] = fds[f]
      BY <1>1, <2>3, <3>1, <3>2
    <3>4. QED
      BY <1>1, <3>1, <3>2, <3>3 DEF Readable
  <2>5. OneEach'
    BY <1>1, <2>3 DEF Calm, LInv, OneEach
  <2>6. FromOutside' /\ EndsKnown'
    BY <1>1, <2>3 DEF Calm, LInv, FromOutside, EndsKnown
  <2>7. AnswersUnread'
    BY <1>1, <2>3 DEF Calm, LInv, AnswersUnread
  <2>8. Waiting'
    <3>1. ASSUME NEW e \in Range(list) PROVE Waits(e)'
      <4>1. Waits(e)
        BY DEF Calm, LInv, Waiting
      <4>2. fds'[e.caller] = fds[e.caller]
            /\ (e.finalSocket # None => fds'[e.finalSocket] = fds[e.finalSocket])
        BY <2>3, FreeNotWaitedOn
      <4>3. QED
        BY <1>2, <4>1, <4>2, WaitsKept
    <3>2. QED
      BY <1>1, <3>1 DEF Waiting
  <2>9. ASSUME ~clash' PROVE CInv'
    <3>1. Outs'
      BY <1>1, <2>3, <2>9 DEF Calm, CInv, Outs
    <3>2. QED
      BY <1>1, <2>9, <3>1 DEF Calm, CInv, OnePerID, Awaited, IsAwaited
  <2>10. QED
    BY <1>1, <2>4, <2>5, <2>6, <2>7, <2>8, <2>9 DEF Keeps, Calm, LInv, OneCall, Replies, OwnAnswers
<1>5. QED
  BY <1>3, <1>4

\* While nobody has left, what has nothing to say is never come to, nor the end
\* of a stream: an answer is read before it, and then closed.
LEMMA LEndOfStream ==
  ASSUME Calm, NEW i \in FD, EndOfStream(i)
  PROVE  Left # {}
<1> SUFFICES ASSUME Left = {} PROVE FALSE
  OBVIOUS
<1>1. i \in ready /\ i # LISTENER
  BY AtIsReady, Numbers DEF Calm, TInv, EndOfStream
<1>2. fds[i] \in Conn /\ (conn[fds[i]].data \/ conn[fds[i]].eof)
  BY <1>1 DEF Calm, Unread, Readable
<1>3. ~conn[fds[i]].data /\ conn[fds[i]].eof
  BY <1>2 DEF EndOfStream
<1>4. conn[fds[i]].kind = "final"
  BY <1>2, <1>3 DEF Calm, LInv, EndsKnown, Left
<1>5. QED
  BY <1>2, <1>3, <1>4 DEF Calm, LInv, AnswersUnread

\* Until a clash, an answer is for a request that was forwarded where it comes
\* from, and the request for which a LOOKUP was sent waits for its REPLY.
LEMMA LFinalLost ==
  ASSUME Calm, NEW i \in FD, NEW c \in Conn, FinalLost(i, c)
  PROVE  clash
<1> SUFFICES ASSUME ~clash PROVE FALSE
  OBVIOUS
<1>1. fds[i] = c /\ conn[c].kind = "final"
  BY DEF FinalLost, Recv
<1>2. PICK e \in Range(list) : e.finalSocket = i
  BY <1>1 DEF Calm, CInv, Outs
<1>3. \E k \in DOMAIN list : list[k].finalSocket = i
  BY <1>2, ListTyped DEF Calm, TInv
<1>4. QED
  BY <1>3 DEF FinalLost, PendingOn

LEMMA ReplyAwaited ==
  ASSUME Calm, ~clash, NEW c \in Conn, conn[c].kind = "reply", conn[c].data
  PROVE  \E e \in Range(list) : /\ e.call = conn[c].call /\ e.finalSocket = None
                                /\ \A f \in Range(list) :
                                     conn[f.call].kind = conn[conn[c].call].kind => f = e
<1>1. PICK x : x = conn[c].call
  OBVIOUS
<1>2. /\ x \in Conn /\ conn[x].kind \in FarIDs /\ ~conn[x].data
      /\ \A d \in Conn : conn[d].kind = "reply" /\ conn[d].call = x => d = c
  BY <1>1 DEF Calm, TInv, LInv, Named, Replies
<1>3. IsAwaited(x)
  BY <1>2 DEF Calm, CInv, Awaited
<1>4. PICK e \in Range(list) : e.call = x /\ e.finalSocket = None
  BY <1>2, <1>3 DEF IsAwaited
<1>5. \A f \in Range(list) : conn[f.call].kind = conn[x].kind => f = e
  BY <1>2, <1>4 DEF Calm, CInv, OnePerID
<1>6. QED
  BY <1>1, <1>4, <1>5

LEMMA LNothingFound ==
  ASSUME Calm, NEW c \in Conn, conn[c].kind = "reply", conn[c].data,
         \A k \in DOMAIN list : conn[list[k].call].kind # conn[conn[c].call].kind
  PROVE  clash
<1> SUFFICES ASSUME ~clash PROVE FALSE
  OBVIOUS
<1>1. PICK e \in Range(list) : e.call = conn[c].call
  BY ReplyAwaited
<1>2. QED
  BY <1>1, ListTyped DEF Calm, TInv

LEMMA LNoDescriptor ==
  ASSUME Calm, NEW i, NEW c \in Conn, NoDescriptor(i, c)
  PROVE  Keeps
<1>1. /\ TypeOK /\ ready' \subseteq ready /\ Conn' = Conn
      /\ UNCHANGED <<conn, backlog, fds, master, list, sent, clash>>
  BY AtIsReady DEF Calm, TInv, NoDescriptor, Recv, Conn
<1>2. Kept
  BY <1>1 DEF Kept
<1>3. Left = {} => Unread'
  BY <1>1 DEF Calm, Unread, Readable
<1>4. Waiting' /\ OneCall'
  BY <1>1, <1>2, WaitingKept
<1>5. ~clash' => CInv'
  BY <1>1, <1>2, CallsKept
<1>6. QED
  BY <1>1, <1>3, <1>4, <1>5 DEF Keeps, Calm, LInv, OneEach, EndsKnown, FromOutside, AnswersUnread,
     Replies, OwnAnswers

\* What a request in the list waits for is not touched at other descriptors.
LEMMA StillWaits ==
  ASSUME Calm, Kept, NEW i, NEW c, NEW S, NEW low, NEW v, NEW call,
         Handles(i, c, S, low, v, call),
         NEW e \in Range(list), e.caller \notin S, e.finalSocket \notin S
  PROVE  Waits(e)'
<1>1. Waits(e)
  BY DEF Calm, LInv, Waiting
<1>2. /\ e.caller \in FD /\ fds[e.caller] # Free
      /\ e.finalSocket # None => e.finalSocket \in FD /\ fds[e.finalSocket] # Free
  BY FreeNotWaitedOn
<1>3. /\ fds[low] = Free \/ low \in S
      /\ \A f \in FD : fds'[f] = IF f = low THEN v ELSE IF f \in S THEN Free ELSE fds[f]
  BY DEF Handles, Moves
<1>4. fds'[e.caller] = fds[e.caller]
  BY <1>2, <1>3
<1>5. e.finalSocket # None => fds'[e.finalSocket] = fds[e.finalSocket]
  BY <1>2, <1>3
<1>6. QED
  BY <1>1, <1>4, <1>5, WaitsKept

LEMMA LHashHere ==
  ASSUME Calm, NEW i \in FD, NEW c \in Conn, HashHere(i, c)
  PROVE  Keeps
<1>1. /\ TypeOK /\ At(i) /\ fds[i] = c /\ conn[c].data /\ conn[c].kind \in HereIDs
      /\ conn' = Consumed(c) /\ sent' = sent \cup {[call |-> c, on |-> c]} /\ fds' = Closed({i})
      /\ UNCHANGED <<backlog, list, state, clash>>
  BY DEF HashHere, Recv, Calm, TInv
<1>2. conn[c].kind \notin FarIDs \cup {"out", "final", "reply"}
  BY <1>1, Kinds
<1>3. Reads(c)
  BY <1>1, ConnRead
<1>4. Moves({i}, i, Free)
  BY <1>1 DEF Closed, Moves
<1>5. Handles(i, c, {i}, i, Free, c)
  BY <1>1, <1>2, <1>3, <1>4 DEF Handles
<1>6. Leaves(c, {i}, i, Free) /\ (Left = {} => Unread')
  BY <1>5, Handled
<1>7. Range(list)' = Range(list) /\ Free # Len(conn) + 1 /\ Kept
  BY <1>1, <1>6, ConnsTyped DEF Free, Leaves
<1>8. \A e \in Range(list) : e.caller # i /\ e.finalSocket # i
  BY <1>1, <1>2, NotWaitedOn
<1>9. Waiting'
  <2>1. ASSUME NEW e \in Range(list) PROVE Waits(e)'
    BY <1>5, <1>7, <1>8, StillWaits
  <2>2. QED
    BY <1>7, <2>1 DEF Waiting
<1>10. OwnAnswers'
  BY <1>1 DEF Calm, OwnAnswers
<1>11. ASSUME ~clash' PROVE CInv'
  <2>1. Outs /\ OnePerID /\ Awaited
    BY <1>1, <1>11 DEF Calm, CInv
  <2>2. Outs'
    BY <1>6, <1>7, <2>1, OutsKept
  <2>3. OnePerID'
    BY <1>7, <2>1, OnePerIDKept
  <2>4. Awaited'
    <3>1. ASSUME NEW d \in Conn', conn'[d].kind \in FarIDs, ~conn'[d].data PROVE IsAwaited(d)'
      <4>1. d # c
        BY <1>2, <1>3, <3>1 DEF Reads
      <4>2. QED
        BY <1>6, <1>7, <2>1, <3>1, <4>1, OthersAwaited
    <3>2. QED
      BY <3>1 DEF Awaited
  <2>5. QED
    BY <2>2, <2>3, <2>4 DEF CInv
<1>12. OneCall' /\ Replies'
  BY <1>1, <1>6, RepliesKept DEF Calm, LInv, OneCall
<1>13. QED
  BY <1>6, <1>9, <1>10, <1>11, <1>12 DEF Keeps, LInv, Leaves

LEMMA LHashNext ==
  ASSUME Calm, NEW i \in FD, NEW c \in Conn, HashNext(i, c)
  PROVE  Keeps
<1> DEFINE new == Len(conn) + 1
<1>1. /\ TypeOK /\ At(i) /\ fds[i] = c /\ conn[c].data /\ conn[c].kind \in NextIDs /\ Forward(c, c)
      /\ fds' = [fds EXCEPT ![Lowest] = Len(conn')] /\ list' = put_in_the_list(i, c, Lowest)
      /\ UNCHANGED <<backlog, sent, state, clash>> /\ c \in Nat
  BY Numbers DEF Calm, TInv, HashNext, Recv
<1>2. conn[c].kind \in Client /\ conn[c].kind \notin FarIDs \cup {"out", "final", "reply"}
  BY <1>1, Kinds
<1>3. ReadsAndMakes(c, c) /\ Available # {}
  BY <1>1, ConnForward
<1>4. Lowest \in FD /\ fds[Lowest] = Free
  BY <1>3, LowestIsFree
<1>5. PICK low : low = Lowest
  OBVIOUS
<1>6. PICK e : e = [caller |-> i, call |-> c, finalSocket |-> low]
  OBVIOUS
<1>7. /\ low \in FD /\ fds[low] = Free /\ low # None /\ i # low /\ Free \notin Conn
      /\ e.caller = i /\ e.call = c /\ e.finalSocket = low /\ e \in Entry
      /\ list' = Append(list, e)
  BY <1>1, <1>4, <1>5, <1>6, Numbers DEF put_in_the_list, Entry
<1>8. Moves({}, low, new)
  BY <1>1, <1>3, <1>5 DEF ReadsAndMakes, TypeOK, Moves
<1>9. Handles(i, c, {}, low, new, c)
  BY <1>1, <1>2, <1>3, <1>7, <1>8 DEF Handles
<1>10. Leaves(c, {}, low, new) /\ (Left = {} => Unread')
  BY <1>9, Handled
<1>11. \A f \in Range(list) : f.caller # i /\ f.finalSocket # i /\ f.call # c
  BY <1>1, <1>2, NotWaitedOn
<1>12. Range(list)' = Range(list) \cup {e} /\ OneCall'
  BY <1>1, <1>7, <1>11, ListGrows DEF Calm, LInv
<1>13. c \in Conn' /\ conn'[c].kind = conn[c].kind /\ conn'[c].data = FALSE /\ Kept
  BY <1>3, <1>10 DEF ReadsAndMakes, Leaves
<1>14. Waiting'
  <2>1. ASSUME NEW f \in Range(list) PROVE Waits(f)'
    BY <1>9, <1>13, StillWaits
  <2>2. Waits(e)'
    <3>1. fds'[i] = c /\ fds'[low] = new
      BY <1>1, <1>7, <1>8 DEF Moves
    <3>2. PICK r : r = conn'[new]
      OBVIOUS
    <3>3. new \in Conn' /\ r.kind = "out" /\ r.call = c
      BY <1>3, <3>2 DEF ReadsAndMakes
    <3> HIDE DEF new
    <3>4. QED
      BY <1>2, <1>7, <1>13, <3>1, <3>2, <3>3 DEF Waits
  <2>3. QED
    BY <1>12, <2>1, <2>2 DEF Waiting
<1>15. OwnAnswers'
  BY <1>1 DEF Calm, OwnAnswers
<1>16. ASSUME ~clash' PROVE CInv'
  <2>1. Outs /\ OnePerID /\ Awaited
    BY <1>1, <1>16 DEF Calm, CInv
  <2>2. Outs'
    BY <1>7, <1>10, <1>12, <2>1, OutsKept
  <2>3. OnePerID'
    BY <1>2, <1>7, <1>12, <1>13, <2>1, SameIDs DEF OnePerID
  <2>4. Awaited'
    <3>1. ASSUME NEW d \in Conn', conn'[d].kind \in FarIDs, ~conn'[d].data PROVE IsAwaited(d)'
      <4>1. d # c
        BY <1>2, <1>13, <3>1
      <4>2. QED
        BY <1>10, <1>12, <2>1, <3>1, <4>1, OthersAwaited
    <3>2. QED
      BY <3>1 DEF Awaited
  <2>5. QED
    BY <2>2, <2>3, <2>4 DEF CInv
<1>17. Replies'
  BY <1>10, RepliesKept
<1>18. QED
  BY <1>10, <1>12, <1>14, <1>15, <1>16, <1>17 DEF Keeps, LInv, Leaves

LEMMA LHashUnknown ==
  ASSUME Calm, NEW i \in FD, NEW c \in Conn, HashUnknown(i, c)
  PROVE  Keeps
<1>1. /\ TypeOK /\ At(i) /\ fds[i] = c /\ conn[c].data /\ conn[c].kind \in FarIDs /\ Available # {}
      /\ conn' = Consumed(c) /\ fds' = [fds EXCEPT ![Lowest] = Unwatched]
      /\ list' = put_in_the_list(i, c, None)
      /\ clash' = (clash \/ \E k \in DOMAIN list : conn[list[k].call].kind = conn[c].kind)
      /\ UNCHANGED <<backlog, sent, state>> /\ c \in Nat
  BY Numbers DEF Calm, TInv, HashUnknown, Recv
<1>2. conn[c].kind \in Client /\ conn[c].kind \notin {"out", "final", "reply"}
  BY <1>1, Kinds
<1>3. Reads(c)
  BY <1>1, ConnRead
<1>4. Lowest \in FD /\ fds[Lowest] = Free
  BY <1>1, LowestIsFree
<1>5. PICK low : low = Lowest
  OBVIOUS
<1>6. PICK e : e = [caller |-> i, call |-> c, finalSocket |-> None]
  OBVIOUS
<1>7. /\ low \in FD /\ fds[low] = Free /\ i # low /\ Free \notin Conn
      /\ e.caller = i /\ e.call = c /\ e.finalSocket = None /\ e \in Entry
      /\ list' = Append(list, e) /\ Unwatched # Len(conn) + 1
  BY <1>1, <1>4, <1>5, <1>6, Numbers, ConnsTyped DEF put_in_the_list, Entry, Unwatched
<1>8. Moves({}, low, Unwatched)
  BY <1>1, <1>5 DEF TypeOK, Moves
<1>9. Handles(i, c, {}, low, Unwatched, c)
  BY <1>1, <1>2, <1>3, <1>7, <1>8 DEF Handles
<1>10. Leaves(c, {}, low, Unwatched) /\ (Left = {} => Unread')
  BY <1>9, Handled
<1>11. \A f \in Range(list) : f.caller # i /\ f.finalSocket # i /\ f.call # c
  BY <1>1, <1>2, NotWaitedOn
<1>12. Range(list)' = Range(list) \cup {e} /\ OneCall'
  BY <1>1, <1>7, <1>11, ListGrows DEF Calm, LInv
<1>13. c \in Conn' /\ conn'[c].kind = conn[c].kind /\ conn'[c].data = FALSE /\ Kept
  BY <1>3, <1>10 DEF Reads, Leaves
<1>14. Waiting'
  <2>1. ASSUME NEW f \in Range(list) PROVE Waits(f)'
    BY <1>9, <1>13, StillWaits
  <2>2. Waits(e)'
    <3>1. fds'[i] = c
      BY <1>1, <1>7, <1>8 DEF Moves
    <3>2. QED
      BY <1>2, <1>7, <1>13, <3>1 DEF Waits
  <2>3. QED
    BY <1>12, <2>1, <2>2 DEF Waiting
<1>15. OwnAnswers'
  BY <1>1 DEF Calm, OwnAnswers
<1>16. ASSUME ~clash' PROVE CInv'
  <2>1. Outs /\ OnePerID /\ Awaited
    BY <1>1, <1>16 DEF Calm, CInv
  <2>2. \A f \in Range(list) : conn[f.call].kind # conn[c].kind
    <3>1. ASSUME NEW f \in Range(list) PROVE \E k \in DOMAIN list : f = list[k]
      BY <1>1, ListTyped
    <3>2. \A k \in DOMAIN list : conn[list[k].call].kind # conn[c].kind
      BY <1>1, <1>16
    <3>3. QED
      BY <3>1, <3>2
  <2>3. Outs'
    BY <1>7, <1>10, <1>12, <2>1, OutsKept
  <2>4. OnePerID'
    <3>1. \A f \in Range(list) : conn'[f.call].kind = conn[f.call].kind
      BY <1>13, SameIDs
    <3>2. ASSUME NEW f \in Range(list)', NEW g \in Range(list)',
                 conn'[f.call].kind \in FarIDs, conn'[f.call].kind = conn'[g.call].kind
          PROVE  f = g
      <4>1. CASE f \in Range(list) /\ g \in Range(list)
        BY <2>1, <3>1, <3>2, <4>1 DEF OnePerID
      <4>2. CASE f = e \/ g = e
        BY <1>7, <1>12, <1>13, <2>2, <3>1, <3>2, <4>2
      <4>3. QED
        BY <1>12, <4>1, <4>2
    <3>3. QED
      BY <3>2 DEF OnePerID
  <2>5. Awaited'
    <3>1. ASSUME NEW d \in Conn', conn'[d].kind \in FarIDs, ~conn'[d].data PROVE IsAwaited(d)'
      <4>1. CASE d = c
        BY <1>7, <1>12, <4>1 DEF IsAwaited
      <4>2. CASE d # c
        BY <1>10, <1>12, <2>1, <3>1, <4>2, OthersAwaited
      <4>3. QED
        BY <4>1, <4>2
    <3>2. QED
      BY <3>1 DEF Awaited
  <2>6. QED
    BY <2>3, <2>4, <2>5 DEF CInv
<1>17. Replies'
  BY <1>10, RepliesKept
<1>18. QED
  BY <1>10, <1>12, <1>14, <1>15, <1>16, <1>17 DEF Keeps, LInv, Leaves

LEMMA LLookup ==
  ASSUME Calm, NEW i \in FD, NEW c \in Conn, Lookup(i, c)
  PROVE  Keeps
<1>1. /\ TypeOK /\ At(i) /\ fds[i] = c /\ conn[c].data /\ conn[c].kind = "lookup" /\ Available # {}
      /\ conn' = Consumed(c) /\ fds' = [Closed({i}) EXCEPT ![Lowest] = Unwatched]
      /\ UNCHANGED <<backlog, list, sent, state, clash>>
  BY DEF Calm, TInv, Lookup, Recv
<1>2. Reads(c)
  BY <1>1, ConnRead
<1>3. Lowest \in FD /\ fds[Lowest] = Free
  BY <1>1, LowestIsFree
<1>4. PICK low : low = Lowest
  OBVIOUS
<1>5. low \in FD /\ fds[low] = Free /\ Unwatched # Len(conn) + 1
  BY <1>1, <1>3, <1>4, ConnsTyped DEF Unwatched
<1>6. Moves({i}, low, Unwatched)
  BY <1>1, <1>4, <1>5 DEF Closed, Moves
<1>7. Handles(i, c, {i}, low, Unwatched, c)
  BY <1>1, <1>2, <1>5, <1>6 DEF Handles
<1>8. Leaves(c, {i}, low, Unwatched) /\ (Left = {} => Unread')
  BY <1>7, Handled
<1>9. Range(list)' = Range(list) /\ Kept
  BY <1>1, <1>8 DEF Leaves
<1>10. \A e \in Range(list) : e.caller # i /\ e.finalSocket # i
  BY <1>1, NotWaitedOn
<1>11. Waiting'
  <2>1. ASSUME NEW e \in Range(list) PROVE Waits(e)'
    BY <1>7, <1>9, <1>10, StillWaits
  <2>2. QED
    BY <1>9, <2>1 DEF Waiting
<1>12. OwnAnswers' /\ OneCall'
  BY <1>1 DEF Calm, LInv, OwnAnswers, OneCall
<1>13. ASSUME ~clash' PROVE CInv'
  <2>1. Outs /\ OnePerID /\ Awaited
    BY <1>1, <1>13 DEF Calm, CInv
  <2>2. Outs'
    BY <1>5, <1>8, <1>9, <2>1, OutsKept
  <2>3. OnePerID'
    BY <1>9, <2>1, OnePerIDKept
  <2>4. Awaited'
    <3>1. ASSUME NEW d \in Conn', conn'[d].kind \in FarIDs, ~conn'[d].data PROVE IsAwaited(d)'
      <4>1. d # c
        <5>1. conn'[c].kind = "lookup"
          BY <1>1, <1>2 DEF Reads
        <5>2. QED
          BY <3>1, <5>1, Kinds
      <4>2. QED
        BY <1>8, <1>9, <2>1, <3>1, <4>1, OthersAwaited
    <3>2. QED
      BY <3>1 DEF Awaited
  <2>5. QED
    BY <2>2, <2>3, <2>4 DEF CInv
<1>14. Replies'
  BY <1>8, RepliesKept
<1>15. QED
  BY <1>8, <1>11, <1>12, <1>13, <1>14 DEF Keeps, LInv, Leaves

\* The request found has the REPLY's hash ID; until a clash it is its own.
LEMMA LReply ==
  ASSUME Calm, NEW i \in FD, NEW c \in Conn, Recv(i, c, {"reply"}),
         UNCHANGED <<backlog, sent, clash>>,
         NEW k \in DOMAIN list, conn[list[k].call].kind = conn[conn[c].call].kind, Forwards(i, c, k)
  PROVE  Keeps
<1> DEFINE new == Len(conn) + 1
<1>1. /\ TypeOK /\ At(i) /\ fds[i] = c /\ conn[c].data /\ conn[c].kind = "reply" /\ c \in Nat
      /\ Forward(c, list[k].call) /\ fds' = [Closed({i}) EXCEPT ![Lowest] = Len(conn')]
      /\ list' = [list EXCEPT ![k].finalSocket = Lowest]
  BY Numbers DEF Calm, TInv, Forwards, Recv
<1>2. PICK call : call = list[k].call
  OBVIOUS
<1>3. list[k] \in Range(list) /\ call \in Nat
  BY <1>1, <1>2, ListTyped DEF Entry
<1>4. ReadsAndMakes(c, call) /\ Available # {}
  BY <1>1, <1>2, <1>3, ConnForward
<1>5. Lowest \in FD /\ fds[Lowest] = Free
  BY <1>4, LowestIsFree
<1>6. PICK low : low = Lowest
  OBVIOUS
<1>7. low \in FD /\ fds[low] = Free /\ low # None /\ i # low /\ Free \notin Conn /\ i # None
  BY <1>1, <1>5, <1>6, Numbers
<1>8. PICK e \in Entry, f \in Entry :
        /\ e = list[k] /\ f.caller = e.caller /\ f.call = e.call /\ f.finalSocket = low
        /\ Range(list)' = (Range(list) \ {e}) \cup {f}
        /\ OneCall'
  <2>1. list' = [list EXCEPT ![k].finalSocket = low] /\ OneCall
    BY <1>1, <1>6 DEF Calm, LInv
  <2>2. QED
    BY <1>1, <1>7, <2>1, ListForwards
<1>9. e \in Range(list) /\ e.call = call /\ conn[call].kind = conn[conn[c].call].kind
  BY <1>2, <1>3, <1>8
<1>10. Moves({i}, low, new)
  BY <1>1, <1>4, <1>6, <1>7 DEF ReadsAndMakes, Closed, Moves
<1>11. Handles(i, c, {i}, low, new, call)
  BY <1>1, <1>4, <1>7, <1>10 DEF Handles
<1>12. Leaves(c, {i}, low, new) /\ (Left = {} => Unread')
  BY <1>11, Handled
<1>13. \A g \in Range(list) : g.caller # i /\ g.finalSocket # i
  BY <1>1, NotWaitedOn
<1>14. Kept
  BY <1>12 DEF Leaves
<1>15. Waiting'
  <2>1. ASSUME NEW g \in Range(list) PROVE Waits(g)'
    BY <1>11, <1>13, <1>14, StillWaits
  <2>2. Waits(f)'
    <3>1. Waits(e)'
      BY <1>9, <2>1
    <3>2. fds'[low] = new
      BY <1>7, <1>10 DEF Moves
    <3>3. PICK r : r = conn'[new]
      OBVIOUS
    <3>4. new \in Conn' /\ r.kind = "out" /\ r.call = call
      BY <1>4, <3>3 DEF ReadsAndMakes
    <3>5. /\ e.caller \in FD /\ fds'[e.caller] = call /\ call \in Conn'
          /\ conn'[call].kind \in Client /\ ~conn'[call].data
      BY <1>9, <3>1 DEF Waits
    <3> HIDE DEF new
    <3>6. QED
      BY <1>7, <1>8, <1>9, <3>2, <3>3, <3>4, <3>5 DEF Waits
  <2>3. QED
    BY <1>8, <2>1, <2>2 DEF Waiting
<1>16. OwnAnswers'
  BY DEF Calm, OwnAnswers
<1>17. ASSUME ~clash' PROVE CInv'
  <2>1. Outs /\ OnePerID /\ Awaited /\ ~clash
    BY <1>17 DEF Calm, CInv
  <2>2. e.call = conn[c].call /\ e.finalSocket = None
    BY <1>1, <1>9, <2>1, ReplyAwaited
  <2>3. Outs'
    <3>1. \A g \in Range(list) : g.finalSocket \in FD => g \in Range(list)'
      BY <1>1, <1>8, <2>2, Numbers
    <3>2. \E g \in Range(list)' : g.finalSocket = low
      BY <1>8
    <3>3. QED
      BY <1>12, <2>1, <3>1, <3>2, OutsKept
  <2>4. OnePerID'
    <3>1. \A g \in Range(list) : conn'[g.call].kind = conn[g.call].kind
      BY <1>14, SameIDs
    <3>2. ASSUME NEW g \in Range(list)', NEW h \in Range(list)',
                 conn'[g.call].kind \in FarIDs, conn'[g.call].kind = conn'[h.call].kind
          PROVE  g = h
      <4>1. PICK x \in Range(list), y \in Range(list) :
              /\ x.call = g.call /\ ((g = x /\ g # e) \/ (g = f /\ x = e))
              /\ y.call = h.call /\ ((h = y /\ h # e) \/ (h = f /\ y = e))
        BY <1>8, <1>9
      <4>2. x = y
        BY <2>1, <3>1, <3>2, <4>1 DEF OnePerID
      <4>3. QED
        BY <4>1, <4>2
    <3>3. QED
      BY <3>2 DEF OnePerID
  <2>5. Awaited'
    <3>1. ASSUME NEW d \in Conn', conn'[d].kind \in FarIDs, ~conn'[d].data PROVE IsAwaited(d)'
      <4>1. CASE d = e.call
        <5>1. c \in Conn' /\ conn'[c].kind = "reply" /\ conn'[c].call = d /\ ~conn'[c].data
          BY <1>1, <1>4, <2>2, <4>1 DEF ReadsAndMakes
        <5>2. QED
          BY <5>1 DEF IsAwaited
      <4>2. CASE d # e.call
        <5>1. d # c
          <6>1. conn'[c].kind = "reply"
            BY <1>1, <1>4 DEF ReadsAndMakes
          <6>2. QED
            BY <3>1, <6>1, Kinds
        <5>2. \A g \in Range(list) : g.call = d => g \in Range(list)'
          BY <1>8, <4>2
        <5>3. QED
          BY <1>12, <2>1, <3>1, <5>1, <5>2, OthersAwaited
      <4>3. QED
        BY <4>1, <4>2
    <3>2. QED
      BY <3>1 DEF Awaited
  <2>6. QED
    BY <2>3, <2>4, <2>5 DEF CInv
<1>18. Replies'
  BY <1>12, RepliesKept
<1>19. QED
  BY <1>8, <1>12, <1>15, <1>16, <1>17, <1>18 DEF Keeps, LInv, Leaves

LEMMA LFinal ==
  ASSUME Calm, NEW i \in FD, NEW c \in Conn, Final(i, c)
  PROVE  Keeps
<1>1. /\ TypeOK /\ At(i) /\ fds[i] = c /\ conn[c].data /\ conn[c].kind = "final"
      /\ PendingOn(i) # {} /\ conn' = Consumed(c)
      /\ UNCHANGED <<backlog, state, clash>> /\ i # None /\ Free \notin Conn
  BY Numbers DEF Calm, TInv, Final, Recv
<1>2. PICK k : k = Min(PendingOn(i))
  OBVIOUS
<1>3. PICK e : e = list[k]
  OBVIOUS
<1>4. PICK g : g = e.caller
  OBVIOUS
<1>5. /\ sent' = sent \cup {[call |-> conn[c].call, on |-> fds[g]]}
      /\ list' = RemoveAt(list, k) /\ fds' = Closed({g, i})
  BY <1>2, <1>3, <1>4 DEF Final, remove_info_from_list
<1>6. k \in DOMAIN list /\ e \in Range(list) /\ e.finalSocket = i
  <2>1. PendingOn(i) \subseteq Nat
    BY <1>1, ListTyped DEF PendingOn
  <2>2. k \in PendingOn(i)
    BY <1>1, <1>2, <2>1, SmallestNat
  <2>3. QED
    BY <1>1, <1>3, <2>2, ListTyped DEF PendingOn
<1>7. /\ g \in FD /\ fds[g] = e.call /\ e.call \in Conn /\ conn[e.call].kind \in Client
      /\ ~conn[e.call].data /\ conn[c].call = e.call
  <2>1. Waits(e)
    BY <1>6 DEF Calm, LInv, Waiting
  <2>2. QED
    BY <1>1, <1>4, <1>6, <2>1 DEF Waits
<1>8. g # i /\ (Left = {} => g \notin ready)
  <2>1. g # i
    BY <1>1, <1>7, Kinds
  <2>2. ASSUME Left = {}, g \in ready PROVE FALSE
    <3>1. Readable(g) /\ g # LISTENER
      BY <1>1, <1>7, <2>2, Numbers DEF Calm, Unread
    <3>2. conn[e.call].eof
      BY <1>7, <3>1 DEF Readable
    <3>3. QED
      BY <1>7, <2>2, <3>2 DEF Left
  <2>3. QED
    BY <2>1, <2>2
<1>9. PICK S : S = {g, i}
  OBVIOUS
<1>10. Reads(c)
  BY <1>1, ConnRead
<1>11. Moves(S, i, Free)
  BY <1>5, <1>9 DEF Closed, Moves
<1>12. Handles(i, c, S, i, Free, c)
  BY <1>1, <1>7, <1>9, <1>10, <1>11 DEF Handles
<1>13. Leaves(c, S, i, Free) /\ (Left = {} => Unread')
  BY <1>8, <1>9, <1>12, Handled
<1>14. Range(list)' = Range(list) \ {e} /\ OneCall' /\ Kept /\ Free # Len(conn) + 1
  <2>1. OneCall
    BY DEF Calm, LInv
  <2>2. Free # Len(conn) + 1
    BY <1>1, ConnsTyped DEF Free
  <2>3. QED
    BY <1>1, <1>3, <1>5, <1>6, <1>13, <2>1, <2>2, ListShrinks DEF Leaves
<1>15. Waiting'
  <2>1. ASSUME NEW f \in Range(list), f # e PROVE Waits(f)'
    <3>1. Waits(f) /\ f.call # e.call
      BY <1>6, <2>1, OneEntry DEF Calm, LInv, Waiting
    <3>2. f.caller # g /\ f.finalSocket # i
      BY <1>1, <1>7, <3>1 DEF Waits
    <3>3. f.caller # i /\ f.finalSocket # g
      BY <1>1, <1>7, <3>1, Kinds, Numbers DEF Waits
    <3>4. f.caller \notin S /\ f.finalSocket \notin S
      BY <1>9, <3>2, <3>3
    <3>5. QED
      BY <1>12, <1>14, <3>4, StillWaits
  <2>2. QED
    BY <1>14, <2>1 DEF Waiting
<1>16. OwnAnswers'
  BY <1>1, <1>5, <1>7 DEF Calm, OwnAnswers
<1>17. ASSUME ~clash' PROVE CInv'
  <2>1. Outs /\ OnePerID /\ Awaited
    BY <1>1, <1>17 DEF Calm, CInv
  <2>2. Outs'
    <3>1. \A f \in Range(list) : f.finalSocket \notin S => f \in Range(list)'
      BY <1>6, <1>9, <1>14
    <3>2. QED
      BY <1>13, <1>14, <2>1, <3>1, OutsKept
  <2>3. OnePerID'
    BY <1>14, <2>1, OnePerIDKept
  <2>4. Awaited'
    <3>1. ASSUME NEW d \in Conn', conn'[d].kind \in FarIDs, ~conn'[d].data PROVE IsAwaited(d)'
      <4>1. d # c
        <5>1. conn'[c].kind = "final"
          BY <1>1, <1>10 DEF Reads
        <5>2. QED
          BY <3>1, <5>1, Kinds
      <4>2. \A f \in Range(list) : f.finalSocket = None => f \in Range(list)'
        BY <1>1, <1>6, <1>14
      <4>3. QED
        BY <1>13, <2>1, <3>1, <4>1, <4>2, OthersAwaited
    <3>2. QED
      BY <3>1 DEF Awaited
  <2>5. QED
    BY <2>2, <2>3, <2>4 DEF CInv
<1>18. Replies'
  BY <1>13, RepliesKept
<1>19. QED
  BY <1>13, <1>14, <1>15, <1>16, <1>17, <1>18 DEF Keeps, LInv, Leaves

-----------------------------------------------------------------------------
(* Every step.                                                             *)

\* What a peer leaves that exits.
Exits == /\ state' = "exited" /\ OwnAnswers'
         /\ Left # {} \/ clash'
         /\ Left = {} => Unread'

\* It has come to descriptor i, and stops there.
LEMMA Stops ==
  ASSUME Calm, NEW i, At(i), UNCHANGED <<conn, backlog, fds, sent, clash>>,
         clash, state' = "exited"
  PROVE  Exits
<1>1. ready' \subseteq ready /\ Conn' = Conn
  BY AtIsReady DEF Calm, TInv, Conn
<1>2. Left = {} => Unread'
  BY <1>1 DEF Calm, Unread, Readable
<1>3. QED
  BY <1>2 DEF Calm, Exits, OwnAnswers

LEMMA LHandle ==
  ASSUME Calm, NEW i \in FD, NEW c \in Conn, Handle(i, c)
  PROVE  (Keeps /\ state' # "exited") \/ Exits
<1>1. CASE HashHere(i, c)
  BY <1>1, LHashHere DEF HashHere, Recv, At, Running
<1>2. CASE HashNext(i, c)
  BY <1>2, LHashNext DEF HashNext, Recv, At, Running
<1>3. CASE HashUnknown(i, c)
  BY <1>3, LHashUnknown DEF HashUnknown, Recv, At, Running
<1>4. CASE NoDescriptor(i, c)
  BY <1>4, LNoDescriptor DEF NoDescriptor
<1>5. CASE Lookup(i, c)
  BY <1>5, LLookup DEF Lookup, Recv, At, Running
<1>6. CASE Final(i, c)
  BY <1>6, LFinal DEF Final, Recv, At, Running
<1>7. CASE FinalLost(i, c)
  <2>1. clash
    BY <1>7, LFinalLost
  <2>2. QED
    BY <1>7, <2>1, Stops DEF FinalLost, Recv
<1>8. CASE Reply(i, c)
  <2>1. /\ Recv(i, c, {"reply"}) /\ UNCHANGED <<backlog, sent, clash>> /\ At(i)
        /\ conn[c].kind = "reply" /\ conn[c].data /\ state # "exited"
    BY <1>8 DEF Reply, Recv, At, Running
  <2>2. CASE /\ NothingFound
             /\ \A k \in DOMAIN list : conn[list[k].call].kind # conn[conn[c].call].kind
    <3>1. clash
      BY <2>1, <2>2, LNothingFound
    <3>2. QED
      BY <2>1, <2>2, <3>1, Stops DEF NothingFound
  <2>3. ASSUME NEW k \in DOMAIN list, conn[list[k].call].kind = conn[conn[c].call].kind,
               Forwards(i, c, k)
        PROVE  Keeps /\ state' # "exited"
    BY <2>1, <2>3, LReply DEF Forwards
  <2>4. QED
    BY <1>8, <2>2, <2>3, ReplyFinds DEF Calm, TInv
<1>9. QED
  BY <1>1, <1>2, <1>3, <1>4, <1>5, <1>6, <1>7, <1>8 DEF Handle

LEMMA LLoop ==
  ASSUME Calm, Loop
  PROVE  (Keeps /\ state' # "exited") \/ Exits
<1>1. CASE Select
  BY <1>1, LSelect DEF Select, Running
<1>2. CASE Accept
  BY <1>2, LAccept DEF Accept, At, Running
<1>3. ASSUME NEW i \in FD, EndOfStream(i) PROVE Exits
  <2>1. Left # {}
    BY <1>3, LEndOfStream
  <2>2. QED
    BY <1>3, <2>1 DEF EndOfStream, Exits, Calm, OwnAnswers
<1>4. QED
  BY <1>1, <1>2, <1>3, LHandle DEF Loop

LEMMA SInit == Init => SInv
<1> SUFFICES ASSUME Init PROVE SInv
  OBVIOUS
<1>1. /\ conn = <<>> /\ Conn = {} /\ backlog = {} /\ list = <<>> /\ ready = {} /\ sent = {}
      /\ state = "run" /\ clash = FALSE
  BY DEF Init, Conn
<1>2. Len(list) = 0 /\ Range(list) = {}
  BY <1>1 DEF Range
<1>3. LInv
  <2>1. OneCall /\ Waiting
    BY <1>2 DEF OneCall, Waiting
  <2>2. QED
    BY <1>1, <2>1 DEF LInv, OneEach, EndsKnown, FromOutside, AnswersUnread, Replies
<1>4. CInv
  BY <1>1, <1>2 DEF CInv, Outs, OnePerID, Awaited
<1>5. QED
  BY <1>1, <1>3, <1>4, TInit DEF SInv, Unread, OwnAnswers, ExitsOnlyByFault

LEMMA SNext == SInv /\ [Next]_vars => SInv'
<1> SUFFICES ASSUME SInv, [Next]_vars PROVE SInv'
  OBVIOUS
<1>1. TInv'
  BY TNext DEF SInv, LInv
<1>2. CASE UNCHANGED vars
  <2>1. UNCHANGED <<conn, backlog, fds, ready, list, sent, state, clash>>
    BY <1>2 DEF vars
  <2>2. Conn' = Conn /\ Left' = Left /\ Range(list)' = Range(list)
    BY <2>1 DEF Conn, Left
  <2>3. LInv' <=> LInv
    BY <2>1, <2>2 DEF LInv, OneEach, EndsKnown, FromOutside, AnswersUnread, Waiting, Waits,
       OneCall, Replies
  <2>4. CInv' <=> CInv
    BY <2>1, <2>2 DEF CInv, Outs, OnePerID, Awaited, IsAwaited
  <2>5. Unread' <=> Unread
    BY <2>1, <2>2 DEF Unread, Readable
  <2>6. QED
    BY <1>1, <2>1, <2>2, <2>3, <2>4, <2>5 DEF SInv, OwnAnswers, ExitsOnlyByFault
<1>3. CASE Next
  <2>1. state # "exited"
    BY <1>3, LoopRuns DEF Next, Environment, Running
  <2>2. Calm
    BY <2>1 DEF SInv, Calm
  <2>3. (Keeps /\ state' # "exited") \/ Exits
    <3>1. CASE Environment
      <4>1. state' = state
        BY <3>1 DEF Environment, ClientConnects, PeerConnects, ClientLeaves, ReplyComes,
           FinalComes, Connect, loopVars
      <4>2. QED
        BY <2>1, <2>2, <3>1, <4>1, LEnvironment
    <3>2. QED
      BY <1>3, <2>2, <3>1, LLoop DEF Next
  <2>4. Left' = {} => Left = {}
    BY <1>3, LeftStays DEF SInv
  <2>5. QED
    BY <1>1, <2>3, <2>4 DEF SInv, Keeps, Exits, ExitsOnlyByFault
<1>4. QED
  BY <1>2, <1>3

LEMMA SAlways == Spec => []SInv
BY SInit, SNext, PTL DEF Spec

-----------------------------------------------------------------------------
(* select is given the connections that are open and no other descriptor,  *)
(* and while no client leaves the peer reads only what it reported: Reads- *)
(* WhatIsThere, for any number of descriptors and connections.             *)
THEOREM ReadsWhatComes == Spec => []ReadsWhatIsThere
<1>1. SInv => ReadsWhatIsThere
  BY DEF SInv, TInv, Unread, ReadsWhatIsThere
<1>2. QED
  BY <1>1, SAlways, PTL

(* An answer goes to the client whose call it is for, OwnAnswers: although *)
(* descriptors are closed and given out again, clients leave, and a REPLY  *)
(* finds the request of another call when two have one hash ID.            *)
THEOREM AnswersToSenders == Spec => []OwnAnswers
<1>1. SInv => OwnAnswers
  BY DEF SInv
<1>2. QED
  BY <1>1, SAlways, PTL

(* Nothing else stops the peer than a client that leaves or a clash of two *)
(* hash IDs, ExitsOnlyByFault: until then each REPLY and each answer finds *)
(* the request it is for.                                                  *)
THEOREM ExitsExplained == Spec => []ExitsOnlyByFault
<1>1. SInv => ExitsOnlyByFault
  BY DEF SInv
<1>2. QED
  BY <1>1, SAlways, PTL
=============================================================================
