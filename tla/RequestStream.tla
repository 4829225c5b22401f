--------------------------- MODULE RequestStream ---------------------------
(***************************************************************************)
(* How a peer reads one message off a TCP connection (jft.DHT/dht.c): one  *)
(* byte that says what it is, then either a header of HeaderLen bytes and  *)
(* as much data as that announces (HASH and FINAL), or PeerLen bytes (what *)
(* peers send each other).  TCP keeps order and cuts where it likes.  Bytes*)
(* are known by their place in the message.                                *)
(***************************************************************************)
EXTENDS Integers, Sequences

CONSTANTS HeaderLen,   \* 6: two bytes of key length, four of value length
          PeerLen,     \* 10: hash ID, node ID, IP, port
          MaxRead,     \* 512, what one recv of the loop takes at most
          MaxLen       \* bounds key and value

ASSUME StreamAssumption == /\ {HeaderLen, PeerLen, MaxRead} \subseteq Nat \ {0}
                           /\ MaxLen \in Nat \ {0}

Lengths == [keyLen : 0..MaxLen, valueLen : 0..MaxLen]
Total(l) == l.keyLen + l.valueLen
NoLengths == [keyLen |-> 0, valueLen |-> 0]

VARIABLES kind,       \* "call" of a client or peer, "answer" or "peer" request
          lens,       \* the lengths its sender has put into its header
          delivered,  \* bytes of it that have come
          ended,      \* the sender has closed and that has come too
          pc,         \* where the reading peer is
          taken,      \* bytes read so far
          header,     \* the lengths hashHeaderAnalize makes of the header
          data,       \* the data read so far, written = Len(data)
          cut         \* a fixed-length part was read when not all of it had come
senderVars == <<kind, lens, delivered, ended>>
readerVars == <<pc, taken, header, data, cut>>
streamVars == <<senderVars, readerVars>>

MsgLen == IF kind = "peer" THEN 1 + PeerLen ELSE 1 + HeaderLen + Total(lens)
Whole == delivered = MsgLen
Body == [k \in 1..Total(lens) |-> 1 + HeaderLen + k]

StreamTypeOK ==
  /\ kind \in {"call", "answer", "peer"} /\ lens \in Lengths
  /\ delivered \in 0..MsgLen /\ ended \in BOOLEAN
  /\ pc \in {"first", "header", "data", "peer", "decoded", "overrun", "closed"}
  /\ taken \in 0..delivered /\ header \in Lengths /\ cut \in BOOLEAN
  /\ data \in Seq(1..MsgLen)

\* createHashRequest and createPeerRequest: a call has a key, SET or not; an
\* answer that is no found value has neither key nor value.
StreamInit ==
  /\ \/ kind = "call" /\ lens \in {l \in Lengths : l.keyLen > 0}
     \/ kind = "answer" /\ lens \in {l \in Lengths : l.keyLen > 0} \cup {NoLengths}
     \/ kind = "peer" /\ lens = NoLengths
  /\ delivered = 0 /\ ended = FALSE
  /\ pc = "first" /\ taken = 0 /\ header = NoLengths /\ data = <<>> /\ cut = FALSE

-----------------------------------------------------------------------------
Deliver(n) ==
  /\ ~ended /\ delivered + n <= MsgLen
  /\ delivered' = delivered + n
  /\ UNCHANGED <<kind, lens, ended, readerVars>>

\* A peer closes when it has sent an answer; a client may leave at any time.
SenderCloses ==
  /\ ~ended /\ (kind = "answer" => Whole) /\ (kind = "peer" => Whole)
  /\ ended' = TRUE
  /\ UNCHANGED <<kind, lens, delivered, readerVars>>

-----------------------------------------------------------------------------
\* recv blocks until there is something to take or the sender has closed.
Ready == taken < delivered \/ ended
Upto(n) == IF delivered - taken < n THEN delivered - taken ELSE n

firstByteDecode ==
  /\ pc = "first" /\ taken < delivered
  /\ taken' = 1
  /\ pc' = IF kind = "peer" THEN "peer" ELSE "header"
  /\ UNCHANGED <<senderVars, header, data, cut>>

\* Nothing at all has come: the connection is closed.  (What is then decoded is
\* a byte nobody wrote.)
FirstByteMissing ==
  /\ pc = "first" /\ taken = delivered /\ ended
  /\ pc' = "closed"
  /\ UNCHANGED <<senderVars, taken, header, data, cut>>

\* A slip: the two lengths the wrong way round.
hashHeaderAnalizeSwapped(n) ==
  IF n = HeaderLen THEN {[keyLen |-> lens.valueLen, valueLen |-> lens.keyLen]} ELSE Lengths

\* The n bytes read of the header; nobody wrote the others.
hashHeaderAnalize(n) == IF n = HeaderLen THEN {lens} ELSE Lengths

ReadHeader ==
  /\ pc = "header" /\ Ready
  /\ LET n == Upto(HeaderLen) IN
     /\ taken' = taken + n
     /\ header' \in hashHeaderAnalize(n)
     /\ cut' = (n < HeaderLen)
  /\ pc' = "data"
  /\ UNCHANGED <<senderVars, data>>

\* A slip: the loop ends when a recv returns nothing more.
EnoughAtEnd(read) == ended /\ taken = delivered

Enough(read) == Len(read) = Total(header)

\* The loop asks for MaxRead bytes whatever is left, asks before it looks
\* whether anything is missing, and goes on when the stream has ended.
ReadData ==
  /\ pc = "data" /\ Ready
  /\ LET n == Upto(MaxRead)
         read == data \o [k \in 1..n |-> taken + k] IN
     /\ taken' = taken + n
     /\ data' = read
     /\ pc' = IF Len(read) > Total(header) THEN "overrun"
              ELSE IF Enough(read) THEN "decoded" ELSE "data"
  /\ UNCHANGED <<senderVars, header, cut>>

getHashRequestInfo == ReadHeader \/ ReadData

\* One recv; what has not come is missing.
getPeerRequest ==
  /\ pc = "peer" /\ Ready
  /\ taken' = taken + Upto(PeerLen)
  /\ cut' = (Upto(PeerLen) < PeerLen)
  /\ pc' = "decoded"
  /\ UNCHANGED <<senderVars, header, data>>

Reader == firstByteDecode \/ FirstByteMissing \/ getHashRequestInfo \/ getPeerRequest

StreamNext == \/ \E n \in 1..(MsgLen - delivered) : Deliver(n)
        \/ SenderCloses
        \/ Reader

\* What was sent comes, an answering peer closes, the reader runs.
Fairness == /\ WF_streamVars(Reader)
            /\ WF_streamVars(\E n \in 1..(MsgLen - delivered) : Deliver(n))
            /\ WF_streamVars(kind = "answer" /\ SenderCloses)

StreamSpec == StreamInit /\ [][StreamNext]_streamVars
FairSpec == StreamSpec /\ Fairness

-----------------------------------------------------------------------------
Decoded ==
  /\ pc = "decoded" /\ kind # "peer" /\ ~cut => header = lens /\ data = Body
  /\ pc = "overrun" => cut

\* However the data is cut, a request or answer whose header came in one piece
\* is decoded as it was sent, and the buffer is never overrun.
DecodesWhatWasSent == StreamTypeOK /\ Decoded

\* The main loop gets out of reading unless a fixed-length part was cut or a
\* client left in the middle: an answer without data ends with the connection.
\* (When a client has left in the middle, the loop spins for ever.)
GetsOut == <>(pc \in {"decoded", "closed"} \/ cut \/ (ended /\ ~Whole))

=============================================================================
