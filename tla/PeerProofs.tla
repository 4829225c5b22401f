------------------------------ MODULE PeerProofs -----------------------------
(***************************************************************************)
(* One peer by itself.  RequestStream: however TCP cuts a message, a       *)
(* request whose header came in one piece is decoded as it was sent, for   *)
(* every length of header, read and data.  HashTable: what it then asks of *)
(* the table is done to a map, for every number of elements and addresses  *)
(* and every hash function, and the links, chains and counters of uthash   *)
(* stay right.  The table's proof goes upwards: a list linked both ways,   *)
(* the chains of the buckets, their doubling, one addition and one         *)
(* removal, the calls of hashing.c, peerHashing.  PeerThreads: the mutex   *)
(* of a peer's two threads, and who waits for whom.                        *)
(***************************************************************************)
EXTENDS RequestStream, HashTable, PeerThreads, SeqLemmas, FiniteSetTheorems

(***************************************************************************)
(* RequestStream                                                           *)
(***************************************************************************)

\* What a place in the code says of what has been read: while the header was
\* whole, the data read so far is the beginning of the body, and the next byte
\* to come is the one after it.
Progress ==
  /\ pc = "first" => taken = 0 /\ data = <<>> /\ ~cut
  /\ pc = "header" => taken = 1 /\ data = <<>> /\ ~cut /\ kind # "peer"
  /\ pc = "peer" => kind = "peer" /\ ~cut
  /\ pc \in {"data", "overrun"} => kind # "peer"
  /\ pc = "data" /\ ~cut => /\ header = lens
                            /\ taken = 1 + HeaderLen + Len(data)
                            /\ \A k \in 1..Len(data) : data[k] = 1 + HeaderLen + k

StreamInv == StreamTypeOK /\ Progress /\ Decoded

-----------------------------------------------------------------------------
\* Numbers the steps compute with.
LEMMA Numbers ==
  ASSUME StreamTypeOK
  PROVE  /\ HeaderLen \in Nat \ {0} /\ PeerLen \in Nat \ {0} /\ MaxRead \in Nat \ {0}
         /\ MaxLen \in Nat
         /\ lens.keyLen \in 0..MaxLen /\ lens.valueLen \in 0..MaxLen
         /\ Total(lens) \in Nat /\ Total(header) \in Nat
         /\ MsgLen \in Nat /\ delivered \in Nat /\ taken \in Nat
         /\ taken <= delivered /\ delivered <= MsgLen
         /\ kind # "peer" => MsgLen = 1 + HeaderLen + Total(lens)
<1>1. HeaderLen \in Nat \ {0} /\ PeerLen \in Nat \ {0} /\ MaxRead \in Nat \ {0} /\ MaxLen \in Nat
  BY StreamAssumption
<1>2. lens.keyLen \in 0..MaxLen /\ lens.valueLen \in 0..MaxLen
  BY DEF StreamTypeOK, Lengths
<1>3. header.keyLen \in 0..MaxLen /\ header.valueLen \in 0..MaxLen
  BY DEF StreamTypeOK, Lengths
<1>4. Total(lens) \in Nat /\ Total(header) \in Nat
  BY <1>1, <1>2, <1>3 DEF Total
<1>5. MsgLen \in Nat
  BY <1>1, <1>4 DEF MsgLen
<1>6. delivered \in 0..MsgLen /\ taken \in 0..delivered
  BY DEF StreamTypeOK
<1>7. kind # "peer" => MsgLen = 1 + HeaderLen + Total(lens)
  BY DEF MsgLen
<1> QED BY <1>1, <1>2, <1>4, <1>5, <1>6, <1>7

\* A read takes no more than has come.
LEMMA UptoBounds ==
  ASSUME StreamTypeOK, NEW n \in Nat
  PROVE  Upto(n) \in Nat /\ Upto(n) <= n /\ taken + Upto(n) <= delivered
BY Numbers DEF Upto

\* The bytes a read puts behind the data it finds.
LEMMA Appended ==
  ASSUME NEW L \in Nat, NEW old \in Seq(1..L), NEW n \in Nat, NEW b \in Nat, b + n <= L
  PROVE  LET new == old \o [k \in 1..n |-> b + k] IN
         /\ new \in Seq(1..L) /\ Len(new) = Len(old) + n
         /\ \A k \in 1..Len(new) :
              new[k] = IF k <= Len(old) THEN old[k] ELSE b + (k - Len(old))
<1>1. \A k \in 1..n : b + k \in 1..L
  OBVIOUS
<1>2. [k \in 1..n |-> b + k] \in Seq(1..L) /\ Len([k \in 1..n |-> b + k]) = n
  BY <1>1
<1> QED BY <1>2

-----------------------------------------------------------------------------
\* What has been read before anything has come.
THEOREM StreamInvInit == StreamInit => StreamInv
<1> SUFFICES ASSUME StreamInit PROVE StreamInv
  OBVIOUS
<1>1. HeaderLen \in Nat /\ PeerLen \in Nat /\ MaxLen \in Nat
  BY StreamAssumption
<1>2. lens \in Lengths /\ NoLengths \in Lengths
  BY <1>1 DEF StreamInit, Lengths, NoLengths
<1>3. MsgLen \in Nat
  BY <1>1, <1>2 DEF MsgLen, Total, Lengths
<1>4. kind \in {"call", "answer", "peer"} /\ header \in Lengths
  BY <1>2 DEF StreamInit
<1>5. delivered \in 0..MsgLen /\ taken \in 0..delivered /\ data \in Seq(1..MsgLen)
  BY <1>3 DEF StreamInit
<1>6. StreamTypeOK
  BY <1>2, <1>4, <1>5 DEF StreamInit, StreamTypeOK
<1> QED BY <1>6 DEF StreamInv, StreamInit, Progress, Decoded

\* The sender changes nothing that has been read.
LEMMA SenderStep ==
  ASSUME StreamInv, UNCHANGED readerVars, UNCHANGED <<kind, lens>>,
         delivered' \in Nat, delivered <= delivered', delivered' <= MsgLen, ended' \in BOOLEAN
  PROVE  StreamInv'
<1>1. MsgLen' = MsgLen /\ MsgLen \in Nat
  BY Numbers DEF MsgLen, Total, StreamInv
<1>2. StreamTypeOK'
  BY <1>1, Numbers DEF StreamInv, StreamTypeOK, readerVars
<1> QED BY <1>2 DEF StreamInv, readerVars, Progress, Decoded, Body, Total

\* The reader: the lengths of the message stay as they are.
LEMMA MsgStays ==
  ASSUME UNCHANGED senderVars
  PROVE  /\ MsgLen' = MsgLen /\ Body' = Body /\ Total(lens)' = Total(lens)
         /\ kind' = kind /\ lens' = lens /\ delivered' = delivered /\ ended' = ended
BY DEF senderVars, MsgLen, Body, Total

LEMMA FirstByteStep == StreamInv /\ (firstByteDecode \/ FirstByteMissing) => StreamInv'
<1> SUFFICES ASSUME StreamInv, firstByteDecode \/ FirstByteMissing PROVE StreamInv'
  OBVIOUS
<1>1. UNCHANGED senderVars /\ taken' \in 0..delivered
  BY Numbers DEF StreamInv, firstByteDecode, FirstByteMissing
<1>2. StreamTypeOK'
  BY <1>1, MsgStays DEF StreamInv, StreamTypeOK, firstByteDecode, FirstByteMissing
<1> QED BY <1>1, <1>2, MsgStays
        DEF StreamInv, Progress, Decoded, firstByteDecode, FirstByteMissing

LEMMA HeaderStep == StreamInv /\ ReadHeader => StreamInv'
<1> SUFFICES ASSUME StreamInv, ReadHeader PROVE StreamInv'
  OBVIOUS
<1> DEFINE n == Upto(HeaderLen)
<1>1. UNCHANGED <<senderVars, data>> /\ pc = "header" /\ pc' = "data" /\ taken' = taken + n
      /\ cut' = (n < HeaderLen) /\ header' \in hashHeaderAnalize(n)
  BY DEF ReadHeader
<1>2. n \in Nat /\ n <= HeaderLen /\ taken + n <= delivered
  BY Numbers, UptoBounds DEF StreamInv
<1>3. taken = 1 /\ data = <<>> /\ kind # "peer"
  BY <1>1 DEF StreamInv, Progress
<1>4. header' \in Lengths
  BY <1>1 DEF hashHeaderAnalize, StreamInv, StreamTypeOK
<1>5. StreamTypeOK'
  <2>1. taken' \in 0..delivered'
    BY <1>1, <1>2, <1>3, MsgStays
  <2>2. cut' \in BOOLEAN
    BY <1>1
  <2> QED BY <1>1, <1>4, <2>1, <2>2, MsgStays DEF StreamInv, StreamTypeOK
<1>6. ~cut' => n = HeaderLen
  <2>1. HeaderLen \in Nat
    BY StreamAssumption
  <2> HIDE DEF n
  <2>2. n < HeaderLen \/ n = HeaderLen
    BY <1>2, <2>1
  <2>3. CASE n < HeaderLen
    <3>1. cut' = TRUE
      BY <1>1, <2>3
    <3> QED BY <3>1
  <2>4. CASE n = HeaderLen
    BY <2>4
  <2> QED BY <2>2, <2>3, <2>4
<1>7. ~cut' => header' = lens /\ taken' = 1 + HeaderLen
  BY <1>1, <1>3, <1>6 DEF hashHeaderAnalize
<1>8. Len(data') = 0
  BY <1>1, <1>3
<1> QED BY <1>1, <1>3, <1>5, <1>7, <1>8, Numbers, MsgStays
        DEF StreamInv, Progress, Decoded

LEMMA DataStep == StreamInv /\ ReadData => StreamInv'
<1> SUFFICES ASSUME StreamInv, ReadData PROVE StreamInv'
  OBVIOUS
<1> DEFINE n == Upto(MaxRead)
           read == data \o [k \in 1..n |-> taken + k]
<1>1. /\ UNCHANGED <<senderVars, header, cut>> /\ pc = "data" /\ taken' = taken + n
      /\ data' = read
      /\ pc' = IF Len(read) > Total(header) THEN "overrun"
               ELSE IF Enough(read) THEN "decoded" ELSE "data"
  BY DEF ReadData
<1>2. n \in Nat /\ taken + n <= delivered /\ taken + n <= MsgLen
  BY Numbers, UptoBounds DEF StreamInv
<1>3. /\ data' \in Seq(1..MsgLen) /\ Len(data') = Len(data) + n
      /\ \A k \in 1..Len(data') :
           data'[k] = IF k <= Len(data) THEN data[k] ELSE taken + (k - Len(data))
  <2>1. MsgLen \in Nat /\ taken \in Nat /\ data \in Seq(1..MsgLen)
    BY Numbers DEF StreamInv, StreamTypeOK
  <2>2. data' = data \o [k \in 1..n |-> taken + k]
    BY <1>1
  <2> HIDE DEF n
  <2> QED BY <1>2, <2>1, <2>2, Appended
<1>4. StreamTypeOK'
  <2>1. taken' \in 0..delivered'
    BY <1>1, <1>2, Numbers, MsgStays DEF StreamInv
  <2> QED BY <1>1, <1>3, <2>1, MsgStays DEF StreamInv, StreamTypeOK
<1>5. kind # "peer"
  BY <1>1 DEF StreamInv, Progress
<1>6. ~cut => /\ header = lens /\ taken' = 1 + HeaderLen + Len(data')
              /\ \A k \in 1..Len(data') : data'[k] = 1 + HeaderLen + k
  <2> SUFFICES ASSUME ~cut PROVE /\ header = lens /\ taken' = 1 + HeaderLen + Len(data')
              /\ \A k \in 1..Len(data') : data'[k] = 1 + HeaderLen + k
    OBVIOUS
  <2>1. /\ header = lens /\ taken = 1 + HeaderLen + Len(data)
        /\ \A k \in 1..Len(data) : data[k] = 1 + HeaderLen + k
    BY <1>1 DEF StreamInv, Progress
  <2>2. Len(data) \in Nat
    BY DEF StreamInv, StreamTypeOK
  <2>3. HeaderLen \in Nat
    BY StreamAssumption
  <2> HIDE DEF n, read
  <2>4. taken' = 1 + HeaderLen + Len(data')
    BY <1>1, <1>2, <1>3, <2>1, <2>2, <2>3
  <2>5. ASSUME NEW k \in 1..Len(data') PROVE data'[k] = 1 + HeaderLen + k
    <3>1. k \in Nat /\ 1 <= k
      BY <1>2, <1>3, <2>2
    <3>2. CASE k <= Len(data)
      BY <1>3, <2>1, <2>2, <3>1, <3>2
    <3>3. CASE ~(k <= Len(data))
      <4>1. data'[k] = taken + (k - Len(data))
        BY <1>3, <3>3
      <4> QED BY <2>1, <2>2, <2>3, <3>1, <4>1
    <3> QED BY <3>2, <3>3
  <2> QED BY <2>1, <2>4, <2>5
<1>7. ~cut => Len(data') <= Total(lens)
  BY <1>1, <1>2, <1>3, <1>5, <1>6, Numbers DEF StreamInv, StreamTypeOK
<1>8. ASSUME ~cut, pc' = "decoded" PROVE data' = Body
  <2>1. Len(data') = Total(lens)
    BY <1>1, <1>6, <1>8 DEF Enough
  <2>2. data' = [k \in 1..Len(data') |-> data'[k]]
    BY <1>3
  <2> QED BY <1>6, <1>8, <2>1, <2>2 DEF Body
<1>9. Decoded'
  <2>1. pc' = "overrun" => cut
    <3> SUFFICES ASSUME ~cut PROVE pc' # "overrun"
      OBVIOUS
    <3>1. Len(data') <= Total(header) /\ Len(data') \in Nat /\ Total(header) \in Nat
      BY <1>3, <1>6, <1>7, Numbers DEF StreamInv
    <3> HIDE DEF read
    <3>2. Len(read) = Len(data')
      BY <1>1
    <3>3. ~(Len(read) > Total(header))
      BY <3>1, <3>2
    <3> QED BY <1>1, <3>3
  <2> QED BY <1>1, <1>6, <1>8, <2>1, MsgStays DEF Decoded
<1>10. Progress'
  BY <1>1, <1>5, <1>6, MsgStays DEF Progress
<1> QED BY <1>4, <1>9, <1>10 DEF StreamInv

LEMMA PeerStep == StreamInv /\ getPeerRequest => StreamInv'
<1> SUFFICES ASSUME StreamInv, getPeerRequest PROVE StreamInv'
  OBVIOUS
<1>1. /\ UNCHANGED <<senderVars, header, data>> /\ pc = "peer" /\ pc' = "decoded"
      /\ taken' = taken + Upto(PeerLen) /\ cut' \in BOOLEAN
  BY DEF getPeerRequest
<1>2. taken' \in 0..delivered
  BY <1>1, Numbers, UptoBounds DEF StreamInv
<1>3. StreamTypeOK'
  BY <1>1, <1>2, MsgStays DEF StreamInv, StreamTypeOK
<1> QED BY <1>1, <1>3, MsgStays DEF StreamInv, Progress, Decoded

\* The invariant holds initially and every step keeps it.
THEOREM StreamInvNext == StreamInv /\ [StreamNext]_streamVars => StreamInv'
<1> SUFFICES ASSUME StreamInv, [StreamNext]_streamVars PROVE StreamInv'
  OBVIOUS
<1>1. ASSUME NEW n \in 1..(MsgLen - delivered), Deliver(n) PROVE StreamInv'
  <2>1. delivered' \in Nat /\ delivered <= delivered' /\ delivered' <= MsgLen
    BY <1>1, Numbers DEF Deliver, StreamInv
  <2> QED BY <1>1, <2>1, SenderStep DEF Deliver, StreamInv, StreamTypeOK
<1>2. CASE SenderCloses
  BY <1>2, SenderStep, Numbers DEF SenderCloses, StreamInv
<1>3. CASE Reader
  BY <1>3, FirstByteStep, HeaderStep, DataStep, PeerStep DEF Reader, getHashRequestInfo
<1>4. CASE UNCHANGED streamVars
  BY <1>4, SenderStep, Numbers DEF streamVars, senderVars, StreamInv, StreamTypeOK
<1> QED BY <1>1, <1>2, <1>3, <1>4 DEF StreamNext

LEMMA StreamInvCorrect == StreamSpec => []StreamInv
BY StreamInvInit, StreamInvNext, PTL DEF StreamSpec

\* dht.c, getHashRequestInfo: whatever recv returns, the request comes out as it
\* was sent and the buffer is not overrun, if its header came in one piece.
THEOREM DecodingCorrect == StreamSpec => []DecodesWhatWasSent
<1>1. StreamInv => DecodesWhatWasSent
  BY DEF StreamInv, DecodesWhatWasSent
<1> QED BY <1>1, StreamInvCorrect, PTL

(***************************************************************************)
(* HashTable: a list linked both ways                                      *)
(***************************************************************************)

Links == [Elem -> Elem \cup {NULL}]

\* s is the list that starts at h with links f forth and g back.
Linked(f, g, h, s) ==
  /\ s \in Seq(Elem)
  /\ \A i, j \in 1..Len(s) : s[i] = s[j] => i = j
  /\ h = IF Len(s) = 0 THEN NULL ELSE s[1]
  /\ \A i \in 1..Len(s) : /\ f[s[i]] = IF i = Len(s) THEN NULL ELSE s[i + 1]
                          /\ g[s[i]] = IF i = 1 THEN NULL ELSE s[i - 1]

LEMMA NotNull == NULL \notin Elem
BY HashAssumption

LEMMA SeqElements ==
  ASSUME NEW S, NEW s \in Seq(S)
  PROVE  /\ Len(s) \in Nat /\ DOMAIN s = 1..Len(s)
         /\ \A i \in 1..Len(s) : s[i] \in S
         /\ ToSet(s) = {s[i] : i \in 1..Len(s)}
         /\ ToSet(s) \subseteq S
         /\ \A i \in 1..Len(s) : s[i] \in ToSet(s)
<1>1. Len(s) \in Nat /\ DOMAIN s = 1..Len(s) /\ \A i \in 1..Len(s) : s[i] \in S
  BY ElementOfSeq, LenProperties
<1> QED BY <1>1 DEF ToSet

\* A list without repetition is as long as its set is large.
LEMMA LenCardinality ==
  ASSUME NEW S, NEW s \in Seq(S),
         \A i, j \in 1..Len(s) : s[i] = s[j] => i = j
  PROVE  IsFiniteSet(ToSet(s)) /\ Cardinality(ToSet(s)) = Len(s)
<1>1. Len(s) \in Nat /\ DOMAIN s = 1..Len(s) /\ ToSet(s) = {s[i] : i \in 1..Len(s)}
  BY SeqElements
<1>2. [i \in 1..Len(s) |-> s[i]] \in Bijection(1..Len(s), ToSet(s))
  BY <1>1 DEF Bijection, Injection, Surjection, IsInjective
<1>3. IsFiniteSet(1..Len(s)) /\ Cardinality(1..Len(s)) = Len(s)
  BY <1>1, FS_Interval
<1>4. ExistsBijection(1..Len(s), ToSet(s))
  BY <1>2 DEF ExistsBijection
<1> QED BY <1>3, <1>4, FS_Bijection

LEMMA LenBound ==
  ASSUME NEW s \in Seq(Elem), \A i, j \in 1..Len(s) : s[i] = s[j] => i = j
  PROVE  /\ Cardinality(Elem) \in Nat /\ Len(s) \in 0..Cardinality(Elem)
         /\ Cardinality(ToSet(s)) = Len(s)
<1>1. IsFiniteSet(Elem)
  BY HashAssumption
<1>2. ToSet(s) \subseteq Elem /\ Len(s) \in Nat
  BY SeqElements
<1>3. Cardinality(ToSet(s)) = Len(s)
  BY LenCardinality
<1>4. Cardinality(Elem) \in Nat
  BY <1>1, FS_CardinalityType
<1>5. Cardinality(ToSet(s)) <= Cardinality(Elem)
  BY <1>1, <1>2, FS_Subset
<1> QED BY <1>2, <1>3, <1>4, <1>5

\* Following the links of a list gives the list.
LEMMA FollowList ==
  ASSUME NEW f, NEW g, NEW h, NEW s, Linked(f, g, h, s)
  PROVE  Follow(f, h) = s
<1> DEFINE N == Cardinality(Elem)
           link == [x \in Elem \cup {NULL} |-> IF x = NULL THEN NULL ELSE f[x]]
           D(q) == [i \in 1..N + 1 |-> IF i = 1 THEN h ELSE link[q[i - 1]]]
           place == CHOOSE q : q = D(q)
           P == [i \in 1..N + 1 |-> IF i <= Len(s) THEN s[i] ELSE NULL]
           Chosen == [i \in 1..Cardinality({j \in DOMAIN place : place[j] # NULL}) |-> place[i]]
<1>1. Follow(f, h) = Chosen
  BY DEF Follow
<1>2. N \in Nat /\ Len(s) \in 0..N
  BY LenBound DEF Linked
<1>3. \A i \in 1..Len(s) : s[i] \in Elem /\ s[i] # NULL
  BY SeqElements, NotNull DEF Linked
<1>4. h = IF Len(s) = 0 THEN NULL ELSE s[1]
  BY DEF Linked
<1>5. \A i \in 1..Len(s) : f[s[i]] = IF i = Len(s) THEN NULL ELSE s[i + 1]
  BY DEF Linked
<1> HIDE DEF N
<1>6. P = D(P)
  <2>1. ASSUME NEW i \in 1..N + 1
        PROVE  P[i] = IF i = 1 THEN h ELSE link[P[i - 1]]
    <3>1. CASE i = 1
      BY <1>2, <1>4, <3>1
    <3>2. CASE i # 1
      <4>1. i - 1 \in 1..N + 1 /\ i - 1 \in Nat /\ i - 1 # 0
        BY <1>2, <3>2
      <4>2. CASE i - 1 <= Len(s)
        <5>1. i - 1 \in 1..Len(s)
          BY <1>2, <4>1, <4>2
        <5>2. P[i - 1] = s[i - 1] /\ P[i - 1] # NULL
          BY <1>3, <4>1, <5>1
        <5>3. f[s[i - 1]] = IF i - 1 = Len(s) THEN NULL ELSE s[(i - 1) + 1]
          BY <1>5, <5>1
        <5>4. f[s[i - 1]] = P[i]
          BY <1>2, <5>1, <5>3
        <5>5. link[s[i - 1]] = f[s[i - 1]]
          BY <1>3, <5>1
        <5> QED BY <3>2, <5>2, <5>4, <5>5
      <4>3. CASE ~(i - 1 <= Len(s))
        <5>1. P[i - 1] = NULL /\ P[i] = NULL /\ link[NULL] = NULL
          BY <1>2, <3>2, <4>1, <4>3
        <5> QED BY <3>2, <5>1
      <4> QED BY <4>2, <4>3
    <3> QED BY <3>1, <3>2
  <2> QED BY <2>1
<1>7. place = D(place)
  <2> HIDE DEF D
  <2> QED BY <1>6
<1> HIDE DEF place
<1>8. \A i \in 1..N + 1 : place[i] = P[i]
  <2> DEFINE Bad == {i \in 1..N + 1 : place[i] # P[i]}
  <2> SUFFICES ASSUME Bad # {} PROVE FALSE
    OBVIOUS
  <2>1. PICK i : i \in Bad /\ \A y \in Bad : i <= y
    <3>1. Bad \subseteq Nat
      OBVIOUS
    <3> HIDE DEF Bad
    <3> QED BY <3>1, SmallestNat
  <2>2. i \in 1..N + 1 /\ place[i] # P[i]
    BY <2>1
  <2>3. i # 1
    BY <1>6, <1>7, <2>2
  <2>4. i - 1 \in 1..N + 1 /\ i - 1 \notin Bad
    BY <1>2, <2>1, <2>2, <2>3
  <2>5. place[i - 1] = P[i - 1]
    BY <2>4
  <2>6. D(place)[i] = D(P)[i]
    <3> HIDE DEF P
    <3> QED BY <2>2, <2>3, <2>5
  <2>7. place[i] = D(place)[i] /\ P[i] = D(P)[i]
    <3> HIDE DEF D, P
    <3> QED BY <1>6, <1>7
  <2> HIDE DEF D, P
  <2> QED BY <2>2, <2>6, <2>7
<1>9. DOMAIN place = 1..N + 1
  <2>1. DOMAIN D(place) = 1..N + 1
    OBVIOUS
  <2> HIDE DEF D
  <2> QED BY <1>7, <2>1
<1>10. {j \in DOMAIN place : place[j] # NULL} = 1..Len(s)
  BY <1>2, <1>3, <1>8, <1>9
<1>11. Cardinality(1..Len(s)) = Len(s)
  <2>1. Len(s) \in Int /\ 1 \in Int /\ Len(s) >= 0
    BY <1>2
  <2>2. Cardinality(1..Len(s)) = IF 1 > Len(s) THEN 0 ELSE Len(s) - 1 + 1
    BY <2>1, FS_Interval
  <2> QED BY <2>1, <2>2
<1>12. Chosen = [i \in 1..Len(s) |-> place[i]]
  BY <1>10, <1>11
<1>13. \A i \in 1..Len(s) : place[i] = s[i]
  BY <1>2, <1>8
<1>14. [i \in 1..Len(s) |-> place[i]] = s
  <2>1. s \in Seq(Elem)
    BY DEF Linked
  <2>2. s = [i \in 1..Len(s) |-> s[i]]
    BY <2>1
  <2> QED BY <1>13, <2>2
<1> QED BY <1>1, <1>12, <1>14

-----------------------------------------------------------------------------
(* What the four ways of changing links do to a list.                      *)

LEMMA LinkFrame ==
  ASSUME NEW f, NEW g, NEW h, NEW s, Linked(f, g, h, s), NEW f2, NEW g2,
         \A i \in 1..Len(s) : f2[s[i]] = f[s[i]] /\ g2[s[i]] = g[s[i]]
  PROVE  Linked(f2, g2, h, s)
BY DEF Linked

LEMMA LinkPush ==
  ASSUME NEW f, NEW g, NEW h, NEW s, Linked(f, g, h, s),
         NEW e \in Elem, \A i \in 1..Len(s) : s[i] # e,
         NEW f2, NEW g2,
         f2[e] = h, g2[e] = NULL, h # NULL => g2[h] = e,
         \A i \in 1..Len(s) : f2[s[i]] = f[s[i]],
         \A i \in 1..Len(s) : i # 1 => g2[s[i]] = g[s[i]]
  PROVE  /\ Linked(f2, g2, e, <<e>> \o s)
         /\ Len(<<e>> \o s) = Len(s) + 1
         /\ ToSet(<<e>> \o s) = ToSet(s) \cup {e}
<1> DEFINE r == <<e>> \o s
<1>1. /\ s \in Seq(Elem) /\ Len(s) \in Nat /\ \A i \in 1..Len(s) : s[i] \in Elem
      /\ ToSet(s) = {s[i] : i \in 1..Len(s)}
  BY SeqElements DEF Linked
<1>2. r \in Seq(Elem) /\ Len(r) = Len(s) + 1
  BY <1>1
<1>3. r[1] = e /\ \A i \in 1..Len(s) : r[i + 1] = s[i]
  BY <1>1
<1> HIDE DEF r
<1>4. \A i \in 1..Len(r) : i = 1 \/ (i - 1 \in 1..Len(s) /\ r[i] = s[i - 1])
  <2> TAKE i \in 1..Len(r)
  <2>1. CASE i # 1
    <3>1. i - 1 \in 1..Len(s) /\ (i - 1) + 1 = i
      BY <1>1, <1>2, <2>1
    <3> QED BY <1>3, <3>1
  <2> QED BY <2>1
<1>5. \A i, j \in 1..Len(r) : r[i] = r[j] => i = j
  <2> TAKE i, j \in 1..Len(r)
  <2> HAVE r[i] = r[j]
  <2>1. CASE i = 1 \/ j = 1
    BY <1>3, <1>4, <2>1
  <2>2. CASE i # 1 /\ j # 1
    <3>1. i - 1 \in 1..Len(s) /\ j - 1 \in 1..Len(s) /\ s[i - 1] = s[j - 1]
      BY <1>4, <2>2
    <3>2. i - 1 = j - 1
      BY <3>1 DEF Linked
    <3> QED BY <1>2, <3>2
  <2> QED BY <2>1, <2>2
<1>6. e = IF Len(r) = 0 THEN NULL ELSE r[1]
  BY <1>1, <1>2, <1>3
<1>7. ASSUME NEW i \in 1..Len(r)
      PROVE  /\ f2[r[i]] = IF i = Len(r) THEN NULL ELSE r[i + 1]
             /\ g2[r[i]] = IF i = 1 THEN NULL ELSE r[i - 1]
  <2>1. CASE i = 1
    <3>1. h = IF Len(s) = 0 THEN NULL ELSE s[1]
      BY DEF Linked
    <3>2. f2[r[1]] = h /\ g2[r[1]] = NULL
      BY <1>3
    <3>3. CASE Len(s) = 0
      BY <1>2, <2>1, <3>1, <3>2, <3>3
    <3>4. CASE Len(s) # 0
      <4>1. r[1 + 1] = s[1]
        BY <1>1, <1>3, <3>4
      <4> QED BY <1>1, <1>2, <2>1, <3>1, <3>2, <3>4, <4>1
    <3> QED BY <3>3, <3>4
  <2>2. CASE i # 1
    <3>1. i - 1 \in 1..Len(s) /\ r[i] = s[i - 1]
      BY <1>4, <2>2
    <3>2. f2[r[i]] = IF i - 1 = Len(s) THEN NULL ELSE s[(i - 1) + 1]
      BY <3>1 DEF Linked
    <3>3. f2[r[i]] = IF i = Len(r) THEN NULL ELSE r[i + 1]
      <4>1. CASE i = Len(r)
        BY <1>1, <1>2, <3>2, <4>1
      <4>2. CASE i # Len(r)
        <5>1. i \in 1..Len(s) /\ (i - 1) + 1 = i /\ i - 1 # Len(s)
          BY <1>1, <1>2, <3>1, <4>2
        <5> QED BY <1>3, <3>2, <4>2, <5>1
      <4> QED BY <4>1, <4>2
    <3>4. g2[r[i]] = r[i - 1]
      <4>1. CASE i - 1 = 1
        <5>1. r[i] = s[1] /\ Len(s) # 0
          BY <1>1, <3>1, <4>1
        <5>2. h = s[1] /\ h # NULL
          BY <1>1, <3>1, <4>1, <5>1, NotNull DEF Linked
        <5> QED BY <1>3, <4>1, <5>1, <5>2
      <4>2. CASE i - 1 # 1
        <5>1. g2[r[i]] = g[s[i - 1]]
          BY <3>1, <4>2
        <5>2. g[s[i - 1]] = s[(i - 1) - 1]
          BY <3>1, <4>2 DEF Linked
        <5>3. (i - 1) - 1 \in 1..Len(s) /\ ((i - 1) - 1) + 1 = i - 1
          BY <1>1, <3>1, <4>2
        <5>4. r[((i - 1) - 1) + 1] = s[(i - 1) - 1]
          BY <1>3, <5>3
        <5> QED BY <5>1, <5>2, <5>3, <5>4
      <4> QED BY <4>1, <4>2
    <3> QED BY <2>2, <3>3, <3>4
  <2> QED BY <2>1, <2>2
<1>8. Linked(f2, g2, e, r)
  BY <1>2, <1>5, <1>6, <1>7 DEF Linked
<1>9. ToSet(r) = ToSet(s) \cup {e}
  <2>1. ToSet(r) = {r[i] : i \in 1..Len(r)}
    BY <1>2, SeqElements
  <2>2. ASSUME NEW x \in ToSet(r) PROVE x \in ToSet(s) \cup {e}
    <3>1. PICK i \in 1..Len(r) : x = r[i]
      BY <2>1
    <3> QED BY <1>1, <1>3, <1>4, <3>1
  <2>3. ASSUME NEW x \in ToSet(s) PROVE x \in ToSet(r)
    <3>1. PICK i \in 1..Len(s) : x = s[i]
      BY <1>1
    <3>2. i + 1 \in 1..Len(r) /\ r[i + 1] = x
      BY <1>1, <1>2, <1>3, <3>1
    <3> QED BY <2>1, <3>2
  <2>4. e \in ToSet(r)
    <3>1. 1 \in 1..Len(r)
      BY <1>1, <1>2
    <3> QED BY <1>3, <2>1, <3>1
  <2> QED BY <2>2, <2>3, <2>4
<1> QED BY <1>2, <1>8, <1>9 DEF r

LEMMA LinkAppend ==
  ASSUME NEW f, NEW g, NEW h, NEW s, Linked(f, g, h, s), Len(s) # 0,
         NEW e \in Elem, \A i \in 1..Len(s) : s[i] # e,
         NEW f2, NEW g2,
         f2[e] = NULL, f2[s[Len(s)]] = e, g2[e] = s[Len(s)],
         \A i \in 1..Len(s) : i # Len(s) => f2[s[i]] = f[s[i]],
         \A i \in 1..Len(s) : g2[s[i]] = g[s[i]]
  PROVE  /\ Linked(f2, g2, h, Append(s, e))
         /\ Len(Append(s, e)) = Len(s) + 1 /\ Append(s, e)[Len(s) + 1] = e
         /\ ToSet(Append(s, e)) = ToSet(s) \cup {e}
<1> DEFINE r == Append(s, e)
<1>1. /\ s \in Seq(Elem) /\ Len(s) \in Nat /\ \A i \in 1..Len(s) : s[i] \in Elem
      /\ ToSet(s) = {s[i] : i \in 1..Len(s)}
  BY SeqElements DEF Linked
<1>2. /\ r \in Seq(Elem) /\ Len(r) = Len(s) + 1
      /\ r[Len(s) + 1] = e /\ \A i \in 1..Len(s) : r[i] = s[i]
  BY <1>1, AppendProperties
<1> HIDE DEF r
<1>3. \A i \in 1..Len(r) : i = Len(s) + 1 \/ (i \in 1..Len(s) /\ r[i] = s[i])
  BY <1>1, <1>2
<1>4. \A i, j \in 1..Len(r) : r[i] = r[j] => i = j
  <2> TAKE i, j \in 1..Len(r)
  <2> HAVE r[i] = r[j]
  <2>1. CASE i = Len(s) + 1 \/ j = Len(s) + 1
    BY <1>2, <1>3, <2>1
  <2>2. CASE i # Len(s) + 1 /\ j # Len(s) + 1
    <3>1. i \in 1..Len(s) /\ j \in 1..Len(s) /\ s[i] = s[j]
      BY <1>3, <2>2
    <3> QED BY <3>1 DEF Linked
  <2> QED BY <2>1, <2>2
<1>5. h = IF Len(r) = 0 THEN NULL ELSE r[1]
  <2>1. h = s[1] /\ 1 \in 1..Len(s)
    BY <1>1 DEF Linked
  <2> QED BY <1>1, <1>2, <2>1
<1>6. ASSUME NEW i \in 1..Len(r)
      PROVE  /\ f2[r[i]] = IF i = Len(r) THEN NULL ELSE r[i + 1]
             /\ g2[r[i]] = IF i = 1 THEN NULL ELSE r[i - 1]
  <2>1. CASE i = Len(s) + 1
    <3>1. i # 1 /\ i = Len(r) /\ i - 1 = Len(s) /\ Len(s) \in 1..Len(s)
      BY <1>1, <1>2, <2>1
    <3>2. r[Len(s)] = s[Len(s)]
      <4>1. \A k \in 1..Len(s) : r[k] = s[k]
        BY <1>2
      <4>2. Len(s) \in 1..Len(s)
        BY <3>1
      <4> QED BY <4>1, <4>2
    <3>3. r[i - 1] = s[Len(s)]
      BY <3>1, <3>2
    <3>4. r[i] = e
      BY <1>2, <2>1
    <3> QED BY <3>1, <3>3, <3>4
  <2>2. CASE i # Len(s) + 1
    <3>1. i \in 1..Len(s) /\ r[i] = s[i] /\ i # Len(r)
      BY <1>2, <1>3, <2>2
    <3>2. f2[r[i]] = r[i + 1]
      <4>1. CASE i = Len(s)
        BY <1>2, <3>1, <4>1
      <4>2. CASE i # Len(s)
        <5>1. f2[r[i]] = s[i + 1]
          BY <3>1, <4>2 DEF Linked
        <5>2. i + 1 \in 1..Len(s)
          BY <1>1, <3>1, <4>2
        <5> QED BY <1>2, <5>1, <5>2
      <4> QED BY <4>1, <4>2
    <3>3. g2[r[i]] = IF i = 1 THEN NULL ELSE s[i - 1]
      BY <3>1 DEF Linked
    <3>4. i # 1 => i - 1 \in 1..Len(s)
      BY <1>1, <3>1
    <3> QED BY <1>2, <3>1, <3>2, <3>3, <3>4
  <2> QED BY <2>1, <2>2
<1>7. Linked(f2, g2, h, r)
  BY <1>2, <1>4, <1>5, <1>6 DEF Linked
<1>8. ToSet(r) = ToSet(s) \cup {e}
  <2>1. ToSet(r) = {r[i] : i \in 1..Len(r)}
    BY <1>2, SeqElements
  <2>2. 1..Len(r) = 1..Len(s) \cup {Len(s) + 1}
    BY <1>1, <1>2
  <2> QED BY <1>1, <1>2, <2>1, <2>2
<1> QED BY <1>2, <1>7, <1>8 DEF r

\* The links pass the i-th element by.
Bypassed(f2, g2, f, g, s, i) ==
  /\ i # 1 => f2[s[i - 1]] = f[s[i]]
  /\ i # Len(s) => g2[s[i + 1]] = g[s[i]]
  /\ \A j \in 1..Len(s) : j # i - 1 /\ j # i => f2[s[j]] = f[s[j]]
  /\ \A j \in 1..Len(s) : j # i + 1 /\ j # i => g2[s[j]] = g[s[j]]

\* Places in a list of length L that has lost one element.
LEMMA PlacesLeft ==
  ASSUME NEW L \in Nat, NEW M, M = L - 1, NEW j \in 1..M
  PROVE  /\ j \in 1..(L - 1) /\ j \in 1..L /\ j + 1 \in 1..L /\ j \in Nat
         /\ j # L /\ (j = M <=> j + 1 = L) /\ (j + 1) - 1 = j
         /\ j + 1 # 1 /\ (j + 1) + 1 = j + 2
         /\ j # M => j + 1 \in 1..(L - 1)
         /\ j # 1 => j - 1 \in 1..(L - 1) /\ (j - 1) + 1 = j
OBVIOUS

LEMMA LinkRemove ==
  ASSUME NEW f, NEW g, NEW h, NEW s, Linked(f, g, h, s), NEW i \in 1..Len(s),
         NEW f2, NEW g2, NEW h2,
         Bypassed(f2, g2, f, g, s, i), h2 = IF i = 1 THEN f[s[i]] ELSE h
  PROVE  /\ Linked(f2, g2, h2, RemoveAt(s, i))
         /\ Len(RemoveAt(s, i)) = Len(s) - 1
         /\ ToSet(RemoveAt(s, i)) = ToSet(s) \ {s[i]}
<1> SUFFICES ASSUME i # 1 => f2[s[i - 1]] = f[s[i]],
                    i # Len(s) => g2[s[i + 1]] = g[s[i]],
                    \A j \in 1..Len(s) : j # i - 1 /\ j # i => f2[s[j]] = f[s[j]],
                    \A j \in 1..Len(s) : j # i + 1 /\ j # i => g2[s[j]] = g[s[j]]
             PROVE  /\ Linked(f2, g2, h2, RemoveAt(s, i))
                    /\ Len(RemoveAt(s, i)) = Len(s) - 1
                    /\ ToSet(RemoveAt(s, i)) = ToSet(s) \ {s[i]}
  BY DEF Bypassed
<1> DEFINE r == RemoveAt(s, i)
<1>1. /\ s \in Seq(Elem) /\ Len(s) \in Nat /\ \A j \in 1..Len(s) : s[j] \in Elem
      /\ ToSet(s) = {s[j] : j \in 1..Len(s)}
      /\ i \in Int /\ 1 <= i /\ i <= Len(s)
  BY SeqElements DEF Linked
<1>2. /\ r \in Seq(Elem) /\ Len(r) = Len(s) - 1
      /\ \A j \in 1..(Len(s) - 1) : r[j] = IF j < i THEN s[j] ELSE s[j + 1]
  BY <1>1, RemoveAtElements, RemoveAtType
<1> HIDE DEF r
<1>3. \A j, k \in 1..Len(r) : r[j] = r[k] => j = k
  <2> TAKE j, k \in 1..Len(r)
  <2> HAVE r[j] = r[k]
  <2> DEFINE at(m) == IF m < i THEN m ELSE m + 1
  <2>1. at(j) \in 1..Len(s) /\ at(k) \in 1..Len(s) /\ s[at(j)] = s[at(k)]
    BY <1>1, <1>2
  <2>2. at(j) = at(k)
    <3> HIDE DEF at
    <3> QED BY <2>1 DEF Linked
  <2> QED BY <1>1, <1>2, <2>2
<1>4. ASSUME NEW j \in 1..Len(s)
      PROVE  /\ f[s[j]] = IF j = Len(s) THEN NULL ELSE s[j + 1]
             /\ g[s[j]] = IF j = 1 THEN NULL ELSE s[j - 1]
  BY DEF Linked
<1>5. h2 = IF Len(r) = 0 THEN NULL ELSE r[1]
  <2>1. h = s[1]
    BY <1>1 DEF Linked
  <2>2. CASE i = 1
    <3>1. h2 = IF 1 = Len(s) THEN NULL ELSE s[1 + 1]
      BY <1>4, <2>2
    <3>2. CASE Len(s) = 1
      BY <1>2, <3>1, <3>2
    <3>3. CASE Len(s) # 1
      <4>1. 1 \in 1..(Len(s) - 1) /\ Len(r) # 0
        BY <1>1, <1>2, <3>3
      <4>2. r[1] = s[1 + 1]
        BY <1>2, <2>2, <4>1
      <4> QED BY <3>1, <3>3, <4>1, <4>2
    <3> QED BY <3>2, <3>3
  <2>3. CASE i # 1
    <3>1. 1 \in 1..(Len(s) - 1) /\ 1 < i /\ Len(r) # 0
      BY <1>1, <1>2, <2>3
    <3> QED BY <1>2, <2>1, <2>3, <3>1
  <2> QED BY <2>2, <2>3
<1>6. ASSUME NEW j \in 1..Len(r)
      PROVE  /\ f2[r[j]] = IF j = Len(r) THEN NULL ELSE r[j + 1]
             /\ g2[r[j]] = IF j = 1 THEN NULL ELSE r[j - 1]
  <2>1. /\ j \in 1..(Len(s) - 1) /\ j \in 1..Len(s) /\ j + 1 \in 1..Len(s) /\ j \in Nat
        /\ j # Len(s) /\ (j = Len(r) <=> j + 1 = Len(s)) /\ (j + 1) - 1 = j
        /\ j + 1 # 1 /\ (j + 1) + 1 = j + 2
        /\ j # Len(r) => j + 1 \in 1..(Len(s) - 1)
        /\ j # 1 => j - 1 \in 1..(Len(s) - 1) /\ (j - 1) + 1 = j
    BY <1>1, <1>2, PlacesLeft
  <2>2. CASE j < i - 1
    <3>1. r[j] = s[j] /\ j # Len(r) /\ r[j + 1] = s[j + 1] /\ j # i - 1 /\ j # i /\ j # i + 1
      BY <1>1, <1>2, <2>1, <2>2
    <3>2. j # 1 => r[j - 1] = s[j - 1]
      BY <1>1, <1>2, <2>1, <2>2
    <3>3. f2[s[j]] = s[j + 1] /\ g2[s[j]] = IF j = 1 THEN NULL ELSE s[j - 1]
      BY <1>4, <2>1, <3>1
    <3> QED BY <3>1, <3>2, <3>3
  <2>3. CASE j = i - 1
    <3>1. r[j] = s[j] /\ i # 1 /\ j # i /\ j # i + 1 /\ j + 1 = i
      BY <1>1, <1>2, <2>1, <2>3
    <3>2. j # 1 => r[j - 1] = s[j - 1]
      BY <1>1, <1>2, <2>1, <2>3
    <3>3. g2[s[j]] = IF j = 1 THEN NULL ELSE s[j - 1]
      BY <1>4, <2>1, <3>1
    <3>4. f2[s[j]] = f[s[i]]
      BY <2>3, <3>1
    <3>5. f[s[i]] = IF j + 1 = Len(s) THEN NULL ELSE s[i + 1]
      BY <1>4, <3>1
    <3>6. j # Len(r) => r[j + 1] = s[i + 1]
      BY <1>1, <1>2, <2>1, <3>1
    <3> QED BY <2>1, <3>1, <3>2, <3>3, <3>4, <3>5, <3>6
  <2>4. CASE j = i
    <3>1. r[j] = s[j + 1] /\ j + 1 # i - 1 /\ j + 1 # i /\ i # Len(s)
      BY <1>1, <1>2, <2>1, <2>4
    <3>2. j # 1 => r[j - 1] = s[j - 1]
      BY <1>1, <1>2, <2>1, <2>4
    <3>3. g2[s[j + 1]] = IF j = 1 THEN NULL ELSE s[j - 1]
      BY <1>4, <2>1, <2>4, <3>1
    <3>4. f2[s[j + 1]] = IF j + 1 = Len(s) THEN NULL ELSE s[(j + 1) + 1]
      BY <1>4, <2>1, <3>1
    <3>5. j # Len(r) => r[j + 1] = s[(j + 1) + 1]
      <4>1. ~(j + 1 < i)
        BY <1>1, <2>1, <2>4
      <4> QED BY <1>2, <2>1, <4>1
    <3> QED BY <2>1, <3>1, <3>2, <3>3, <3>4, <3>5
  <2>5. CASE j > i
    <3>1. r[j] = s[j + 1] /\ j + 1 # i - 1 /\ j + 1 # i /\ j + 1 # i + 1 /\ j # 1
      <4>1. \A k \in 1..(Len(s) - 1) : ~(k < i) => r[k] = s[k + 1]
        BY <1>2
      <4>2. ~(j < i)
        BY <1>1, <2>1, <2>5
      <4>3. r[j] = s[j + 1]
        BY <2>1, <4>1, <4>2
      <4>4. j + 1 # i - 1 /\ j + 1 # i /\ j + 1 # i + 1 /\ j # 1
        BY <1>1, <2>1, <2>5
      <4> QED BY <4>3, <4>4
    <3>2. r[j - 1] = s[j]
      <4>1. ~(j - 1 < i) /\ j - 1 \in 1..(Len(s) - 1) /\ (j - 1) + 1 = j
        BY <1>1, <2>1, <2>5
      <4>2. \A k \in 1..(Len(s) - 1) : ~(k < i) => r[k] = s[k + 1]
        BY <1>2
      <4>3. r[j - 1] = s[(j - 1) + 1]
        BY <4>1, <4>2
      <4> QED BY <4>1, <4>3
    <3>3. g2[s[j + 1]] = s[(j + 1) - 1]
      <4>1. g2[s[j + 1]] = g[s[j + 1]]
        BY <2>1, <3>1
      <4>2. g[s[j + 1]] = IF j + 1 = 1 THEN NULL ELSE s[(j + 1) - 1]
        BY <1>4, <2>1
      <4> QED BY <2>1, <4>1, <4>2
    <3>4. f2[s[j + 1]] = IF j + 1 = Len(s) THEN NULL ELSE s[(j + 1) + 1]
      BY <1>4, <2>1, <3>1
    <3>5. j # Len(r) => r[j + 1] = s[(j + 1) + 1]
      <4>1. ~(j + 1 < i)
        BY <1>1, <2>1, <2>5
      <4> QED BY <1>2, <2>1, <4>1
    <3> QED BY <2>1, <3>1, <3>2, <3>3, <3>4, <3>5
  <2>6. j < i - 1 \/ j = i - 1 \/ j = i \/ j > i
    BY <1>1, <2>1
  <2> QED BY <2>2, <2>3, <2>4, <2>5, <2>6
<1>7. Linked(f2, g2, h2, r)
  BY <1>2, <1>3, <1>5, <1>6 DEF Linked
<1>8. ToSet(r) = ToSet(s) \ {s[i]}
  <2>1. ToSet(r) = {r[j] : j \in 1..Len(r)}
    BY <1>2, SeqElements
  <2>2. ASSUME NEW x \in ToSet(r) PROVE x \in ToSet(s) /\ x # s[i]
    <3>1. PICK j \in 1..Len(r) : x = r[j]
      BY <2>1
    <3>2. PICK k \in 1..Len(s) : k # i /\ x = s[k]
      <4>1. CASE j < i
        <5>1. j \in 1..Len(s) /\ j # i /\ x = s[j]
          BY <1>1, <1>2, <3>1, <4>1
        <5> QED BY <5>1
      <4>2. CASE ~(j < i)
        <5>1. j + 1 \in 1..Len(s) /\ j + 1 # i /\ x = s[j + 1]
          BY <1>1, <1>2, <3>1, <4>2
        <5> QED BY <5>1
      <4> QED BY <4>1, <4>2
    <3>3. s[k] # s[i]
      BY <3>2 DEF Linked
    <3> QED BY <1>1, <3>2, <3>3
  <2>3. ASSUME NEW x \in ToSet(s), x # s[i] PROVE x \in ToSet(r)
    <3>1. PICK k \in 1..Len(s) : x = s[k]
      BY <1>1
    <3>2. k # i
      BY <2>3, <3>1
    <3>3. CASE k < i
      <4>1. k \in 1..Len(r) /\ r[k] = x
        BY <1>1, <1>2, <3>1, <3>3
      <4> QED BY <2>1, <4>1
    <3>4. CASE ~(k < i)
      <4>1. k - 1 \in 1..Len(r) /\ ~(k - 1 < i) /\ (k - 1) + 1 = k
        BY <1>1, <1>2, <3>2, <3>4
      <4>2. r[k - 1] = x
        BY <1>2, <3>1, <4>1
      <4> QED BY <2>1, <4>1, <4>2
    <3> QED BY <3>3, <3>4
  <2> QED BY <2>2, <2>3
<1> QED BY <1>2, <1>7, <1>8 DEF r

-----------------------------------------------------------------------------
(* Tables: the fields, and the elements of S as chains c.                  *)

Bucket == [hh_head : Elem \cup {NULL}, count : Nat, expand_mult : Nat]

\* A table with n buckets.
Table(n) ==
  [head : Elem \cup {NULL}, tail : Elem \cup {NULL}, next : Links, prev : Links,
   hh_next : Links, hh_prev : Links, key : [Elem -> Ptr \cup {NULL}],
   num_items : Nat, num_buckets : {n}, buckets : [0..(n - 1) -> Bucket],
   ideal_chain_maxlen : Nat, nonideal_items : Nat, ineff_expands : Nat,
   noexpand : BOOLEAN]

Place(t, x) == HASH_TO_BKT(hashv[t.key[x]], t.num_buckets)

Chains(t, S, c) ==
  \A b \in 0..(t.num_buckets - 1) :
    /\ Linked(t.hh_next, t.hh_prev, t.buckets[b].hh_head, c[b])
    /\ Len(c[b]) = t.buckets[b].count
    /\ ToSet(c[b]) = {x \in S : Place(t, x) = b}

\* The list of all elements and the keys are the same in both.
SameList(u, t) ==
  /\ u.head = t.head /\ u.tail = t.tail /\ u.next = t.next /\ u.prev = t.prev
  /\ u.num_items = t.num_items /\ u.key = t.key

\* u is t with e, a new head, in its chain; bkt is what its bucket becomes.
Pushed(u, t, e, bkt) ==
  LET b == Place(t, e) IN
  /\ u.hh_next = [t.hh_next EXCEPT ![e] = t.buckets[b].hh_head]
  /\ u.hh_prev = [x \in Elem |-> CASE x = e -> NULL
                                   [] x # e /\ x = t.buckets[b].hh_head -> e
                                   [] OTHER -> t.hh_prev[x]]
  /\ u.buckets = [t.buckets EXCEPT ![b] = bkt]
  /\ bkt.hh_head = e /\ bkt.count = t.buckets[b].count + 1

LEMMA BucketNumber ==
  ASSUME NEW n \in Nat \ {0}, NEW p \in Ptr
  PROVE  HASH_TO_BKT(hashv[p], n) \in 0..(n - 1)
<1>1. hashv[p] \in Nat
  BY HashAssumption
<1> QED BY <1>1 DEF HASH_TO_BKT

LEMMA PushFields ==
  ASSUME NEW n \in Nat, NEW t \in Table(n), NEW e \in Elem, NEW bkt \in Bucket
  PROVE  LET u == PushFront(t, e, bkt) IN
         /\ u \in Table(n) /\ SameList(u, t)
         /\ u.hh_next = [t.hh_next EXCEPT ![e] = bkt.hh_head]
         /\ u.hh_prev = [x \in Elem |-> CASE x = e -> NULL
                                          [] x # e /\ x = bkt.hh_head -> e
                                          [] OTHER -> t.hh_prev[x]]
         /\ u.num_buckets = n /\ u.buckets = t.buckets
         /\ u.ideal_chain_maxlen = t.ideal_chain_maxlen
         /\ u.nonideal_items = t.nonideal_items
         /\ u.ineff_expands = t.ineff_expands /\ u.noexpand = t.noexpand
<1> DEFINE g2 == [x \in Elem |-> CASE x = e -> NULL
                                   [] x # e /\ x = bkt.hh_head -> e
                                   [] OTHER -> t.hh_prev[x]]
           f2 == [t.hh_next EXCEPT ![e] = bkt.hh_head]
<1>1. t.hh_next \in Links /\ t.hh_prev \in Links /\ bkt.hh_head \in Elem \cup {NULL}
  BY DEF Table, Bucket
<1>2. f2 \in Links
  BY <1>1 DEF Links
<1>3. g2 \in Links
  <2>1. \A x \in Elem : g2[x] \in Elem \cup {NULL}
    BY <1>1 DEF Links
  <2> QED BY <2>1 DEF Links
<1>4. PushFront(t, e, bkt) = [t EXCEPT !.hh_next = f2, !.hh_prev = g2]
  BY DEF PushFront, Table
<1> HIDE DEF f2, g2
<1>5. LET u == PushFront(t, e, bkt) IN
         /\ u \in Table(n) /\ SameList(u, t)
         /\ u.hh_next = f2 /\ u.hh_prev = g2
         /\ u.num_buckets = n /\ u.buckets = t.buckets
         /\ u.ideal_chain_maxlen = t.ideal_chain_maxlen
         /\ u.nonideal_items = t.nonideal_items
         /\ u.ineff_expands = t.ineff_expands /\ u.noexpand = t.noexpand
  BY <1>2, <1>3, <1>4 DEF Table, SameList
<1> QED BY <1>5 DEF f2, g2

\* A handle put in front of its chain.
LEMMA ChainPush ==
  ASSUME NEW n \in Nat \ {0}, NEW t \in Table(n), NEW S \in SUBSET Elem, NEW c,
         Chains(t, S, c), DOMAIN c = 0..(n - 1),
         NEW e \in Elem, e \notin S, t.key[e] \in Ptr,
         NEW u \in Table(n), u.key = t.key, NEW bkt \in Bucket, Pushed(u, t, e, bkt)
  PROVE  Chains(u, S \cup {e}, [c EXCEPT ![Place(t, e)] = <<e>> \o c[Place(t, e)]])
<1> DEFINE b == Place(t, e)
           d == [c EXCEPT ![b] = <<e>> \o c[b]]
           h == t.buckets[b].hh_head
<1>1. /\ t.num_buckets = n /\ u.num_buckets = n /\ t.hh_next \in Links /\ t.hh_prev \in Links
      /\ t.buckets \in [0..(n - 1) -> Bucket]
  BY DEF Table
<1>2. b \in 0..(n - 1)
  BY <1>1, BucketNumber DEF Place
<1>3. \A x : Place(u, x) = Place(t, x)
  BY <1>1 DEF Place
<1>4. ASSUME NEW a \in 0..(n - 1)
      PROVE  /\ Linked(t.hh_next, t.hh_prev, t.buckets[a].hh_head, c[a])
             /\ Len(c[a]) = t.buckets[a].count
             /\ ToSet(c[a]) = {x \in S : Place(t, x) = a}
             /\ c[a] \in Seq(Elem) /\ ToSet(c[a]) = {c[a][i] : i \in 1..Len(c[a])}
             /\ \A i \in 1..Len(c[a]) : c[a][i] \in ToSet(c[a]) /\ c[a][i] # e /\ c[a][i] \in Elem
  <2>1. /\ Linked(t.hh_next, t.hh_prev, t.buckets[a].hh_head, c[a])
        /\ Len(c[a]) = t.buckets[a].count
        /\ ToSet(c[a]) = {x \in S : Place(t, x) = a}
    BY <1>1 DEF Chains
  <2>2. /\ c[a] \in Seq(Elem) /\ ToSet(c[a]) = {c[a][i] : i \in 1..Len(c[a])}
        /\ \A i \in 1..Len(c[a]) : c[a][i] \in ToSet(c[a]) /\ c[a][i] \in Elem
    BY <2>1, SeqElements DEF Linked
  <2> QED BY <2>1, <2>2
<1>5. /\ u.hh_next[e] = h /\ u.hh_prev[e] = NULL
      /\ \A x \in Elem : x # e => u.hh_next[x] = t.hh_next[x]
      /\ \A x \in Elem : x # e /\ x = h => u.hh_prev[x] = e
      /\ \A x \in Elem : x # e /\ x # h => u.hh_prev[x] = t.hh_prev[x]
      /\ u.buckets = [t.buckets EXCEPT ![b] = bkt]
      /\ bkt.hh_head = e /\ bkt.count = t.buckets[b].count + 1
  BY <1>1 DEF Links, Pushed
<1>6. h = IF Len(c[b]) = 0 THEN NULL ELSE c[b][1]
  BY <1>2, <1>4 DEF Linked
<1>7. /\ Linked(u.hh_next, u.hh_prev, e, <<e>> \o c[b])
      /\ Len(<<e>> \o c[b]) = Len(c[b]) + 1
      /\ ToSet(<<e>> \o c[b]) = ToSet(c[b]) \cup {e}
  <2>1. Linked(t.hh_next, t.hh_prev, h, c[b]) /\ \A i \in 1..Len(c[b]) : c[b][i] # e
    BY <1>2, <1>4
  <2>2. \A i \in 1..Len(c[b]) : u.hh_next[c[b][i]] = t.hh_next[c[b][i]]
    BY <1>2, <1>4, <1>5
  <2>3. h # NULL => h \in Elem /\ h # e
    <3>1. Len(c[b]) # 0 => 1 \in 1..Len(c[b])
      BY <1>2, <1>4, SeqElements
    <3> QED BY <1>2, <1>4, <1>6, <3>1
  <2>4. ASSUME NEW i \in 1..Len(c[b]), i # 1
        PROVE  u.hh_prev[c[b][i]] = t.hh_prev[c[b][i]]
    <3>1. 1 \in 1..Len(c[b]) /\ Len(c[b]) # 0
      BY <1>2, <1>4, SeqElements
    <3>2. c[b][i] # c[b][1]
      BY <2>1, <2>4, <3>1 DEF Linked
    <3>3. c[b][i] # h
      BY <1>6, <3>1, <3>2
    <3> QED BY <1>2, <1>4, <1>5, <3>3
  <2>5. h # NULL => u.hh_prev[h] = e
    BY <1>5, <2>3
  <2>6. \A i \in 1..Len(c[b]) : i # 1 => u.hh_prev[c[b][i]] = t.hh_prev[c[b][i]]
    BY <2>4
  <2>7. u.hh_next[e] = h /\ u.hh_prev[e] = NULL
    BY <1>5
  <2>8. PICK q : q = c[b]
    OBVIOUS
  <2>9. PICK f2 : f2 = u.hh_next
    OBVIOUS
  <2>10. PICK g2 : g2 = u.hh_prev
    OBVIOUS
  <2> HIDE DEF h, b
  <2>11. /\ Linked(t.hh_next, t.hh_prev, h, q) /\ \A i \in 1..Len(q) : q[i] # e
         /\ f2[e] = h /\ g2[e] = NULL /\ (h # NULL => g2[h] = e)
         /\ \A i \in 1..Len(q) : f2[q[i]] = t.hh_next[q[i]]
         /\ \A i \in 1..Len(q) : i # 1 => g2[q[i]] = t.hh_prev[q[i]]
    BY <2>1, <2>2, <2>5, <2>6, <2>7, <2>8, <2>9, <2>10
  <2>12. /\ Linked(f2, g2, e, <<e>> \o q)
         /\ Len(<<e>> \o q) = Len(q) + 1
         /\ ToSet(<<e>> \o q) = ToSet(q) \cup {e}
    BY <2>11, LinkPush
  <2> QED BY <2>8, <2>9, <2>10, <2>12
<1>8. ASSUME NEW a \in 0..(n - 1), a # b
      PROVE  Linked(u.hh_next, u.hh_prev, t.buckets[a].hh_head, c[a])
  <2>1. ASSUME NEW i \in 1..Len(c[a])
        PROVE  /\ u.hh_next[c[a][i]] = t.hh_next[c[a][i]]
               /\ u.hh_prev[c[a][i]] = t.hh_prev[c[a][i]]
    <3>1. c[a][i] \in Elem /\ c[a][i] # e /\ Place(t, c[a][i]) = a
      BY <1>4
    <3>2. c[a][i] # h
      <4> SUFFICES ASSUME Len(c[b]) # 0, c[a][i] = c[b][1] PROVE FALSE
        BY <1>6, <3>1, NotNull
      <4>1. 1 \in 1..Len(c[b])
        BY <1>2, <1>4, SeqElements
      <4>2. Place(t, c[b][1]) = b
        BY <1>2, <1>4, <4>1
      <4> QED BY <1>8, <3>1, <4>2
    <3> QED BY <1>5, <3>1, <3>2
  <2>2. Linked(t.hh_next, t.hh_prev, t.buckets[a].hh_head, c[a])
    BY <1>4
  <2>3. \A i \in 1..Len(c[a]) : /\ u.hh_next[c[a][i]] = t.hh_next[c[a][i]]
                                /\ u.hh_prev[c[a][i]] = t.hh_prev[c[a][i]]
    BY <2>1
  <2> QED BY <2>2, <2>3 DEF Linked
<1>9. ASSUME NEW a \in 0..(n - 1)
      PROVE  /\ Linked(u.hh_next, u.hh_prev, u.buckets[a].hh_head, d[a])
             /\ Len(d[a]) = u.buckets[a].count
             /\ ToSet(d[a]) = {x \in S \cup {e} : Place(u, x) = a}
  <2>1. CASE a = b
    <3>1. u.buckets[a] = bkt /\ d[a] = <<e>> \o c[b]
      BY <1>1, <1>2, <1>5, <2>1
    <3>2. ToSet(c[b]) \cup {e} = {x \in S \cup {e} : Place(u, x) = a}
      BY <1>2, <1>3, <1>4, <2>1
    <3>3. Len(c[b]) + 1 = bkt.count
      BY <1>2, <1>4, <1>5
    <3>4. bkt.hh_head = e
      BY <1>5
    <3> HIDE DEF b, d
    <3> QED BY <1>7, <3>1, <3>2, <3>3, <3>4
  <2>2. CASE a # b
    <3>1. u.buckets[a] = t.buckets[a] /\ d[a] = c[a]
      BY <1>1, <1>5, <2>2
    <3>2. ToSet(c[a]) = {x \in S \cup {e} : Place(u, x) = a}
      BY <1>3, <1>4, <2>2
    <3> HIDE DEF b, d
    <3> QED BY <1>4, <1>8, <2>2, <3>1, <3>2
  <2> QED BY <2>1, <2>2
<1> HIDE DEF b, d
<1>10. Chains(u, S \cup {e}, d)
  BY <1>1, <1>9 DEF Chains
<1> QED BY <1>10 DEF b, d

-----------------------------------------------------------------------------
(* Recursive functions: what is computed from 0 by N steps exists.         *)

Computes(F, D, N, first, G) ==
  F \in [0..N -> D] /\ F[0] = first /\ \A k \in 1..N : F[k] = G[k][F[k - 1]]

LEMMA StepsExist ==
  ASSUME NEW D, NEW N, N \in Nat, NEW first, first \in D,
         NEW G, G \in [1..N -> [D -> D]]
  PROVE  \E F : Computes(F, D, N, first, G)
<1> DEFINE Good(F, n) == F[0] = first /\ \A k \in 1..n : F[k] = G[k][F[k - 1]]
           Bad == {n \in 0..N : ~\E F \in [0..n -> D] : Good(F, n)}
<1>1. Bad = {}
  <2> SUFFICES ASSUME Bad # {} PROVE FALSE
    OBVIOUS
  <2>1. PICK n : n \in Bad /\ \A y \in Bad : n <= y
    <3>1. Bad \subseteq Nat
      OBVIOUS
    <3> HIDE DEF Bad
    <3> QED BY <3>1, SmallestNat
  <2>2. n # 0
    <3>1. [k \in 0..0 |-> first] \in [0..0 -> D] /\ Good([k \in 0..0 |-> first], 0)
      OBVIOUS
    <3> HIDE DEF Good
    <3> QED BY <2>1, <3>1
  <2>3. n \in 1..N /\ n - 1 \in 0..N /\ n - 1 \notin Bad
    <3>1. n \in 0..N
      BY <2>1
    <3>2. n \in 1..N /\ n - 1 \in 0..N /\ ~(n <= n - 1)
      BY <2>2, <3>1
    <3> HIDE DEF Bad
    <3> QED BY <2>1, <3>2
  <2>4. PICK F \in [0..(n - 1) -> D] : Good(F, n - 1)
    <3> HIDE DEF Good
    <3> QED BY <2>3
  <2> DEFINE H == [k \in 0..n |-> IF k = n THEN G[n][F[n - 1]] ELSE F[k]]
  <2>5. H \in [0..n -> D]
    <3>1. G[n][F[n - 1]] \in D
      BY <2>3
    <3>2. \A k \in 0..n : k # n => k \in 0..(n - 1)
      BY <2>3
    <3> QED BY <3>1, <3>2
  <2>6. Good(H, n)
    <3>1. H[0] = first
      BY <2>3, <2>4
    <3>2. ASSUME NEW k \in 1..n PROVE H[k] = G[k][H[k - 1]]
      <4>1. k - 1 \in 0..n /\ k - 1 # n /\ H[k - 1] = F[k - 1]
        BY <2>3
      <4>2. CASE k = n
        BY <4>1, <4>2
      <4>3. CASE k # n
        <5>1. k \in 1..(n - 1) /\ H[k] = F[k]
          BY <2>3, <4>3
        <5> QED BY <2>4, <4>1, <5>1
      <4> QED BY <4>2, <4>3
    <3> HIDE DEF H
    <3> QED BY <3>1, <3>2
  <2> HIDE DEF Good
  <2> QED BY <2>1, <2>3, <2>5, <2>6
<1>2. N \in 0..N
  OBVIOUS
<1> QED BY <1>1, <1>2 DEF Computes

\* Lists that share no element, joined.
LEMMA FlattenLists ==
  ASSUME NEW n \in Nat \ {0}, NEW q \in [1..n -> Seq(Elem)],
         \A a \in 1..n : \A i, j \in 1..Len(q[a]) : q[a][i] = q[a][j] => i = j,
         \A a, b \in 1..n : a # b => ToSet(q[a]) \cap ToSet(q[b]) = {}
  PROVE  /\ FlattenSeq(q) \in Seq(Elem)
         /\ \A i, j \in 1..Len(FlattenSeq(q)) : FlattenSeq(q)[i] = FlattenSeq(q)[j] => i = j
         /\ ToSet(FlattenSeq(q)) = UNION {ToSet(q[a]) : a \in 1..n}
<1> DEFINE D(f) == [i \in 1..n |-> IF i = 1 THEN q[i] ELSE f[i - 1] \o q[i]]
           flatten == CHOOSE f : f = D(f)
<1>1. q \in Seq(Seq(Elem)) /\ Len(q) = n
  OBVIOUS
<1>2. FlattenSeq(q) = flatten[n]
  BY <1>1 DEF FlattenSeq
<1>3. \E f : f = D(f)
  <2> DEFINE G == [k \in 1..n |-> [s \in Seq(Elem) |-> s \o q[k]]]
  <2>1. G \in [1..n -> [Seq(Elem) -> Seq(Elem)]]
    <3>1. \A k \in 1..n : \A s \in Seq(Elem) : s \o q[k] \in Seq(Elem)
      BY ConcatProperties
    <3> QED BY <3>1
  <2>2. \A k \in 1..n : \A s \in Seq(Elem) : G[k][s] = s \o q[k]
    OBVIOUS
  <2>3. <<>> \in Seq(Elem)
    OBVIOUS
  <2> HIDE DEF G
  <2>4. PICK F \in [0..n -> Seq(Elem)] :
          F[0] = <<>> /\ \A k \in 1..n : F[k] = G[k][F[k - 1]]
    <3>1. n \in Nat
      OBVIOUS
    <3>2. PICK F : Computes(F, Seq(Elem), n, <<>>, G)
      BY <2>1, <2>3, <3>1, StepsExist
    <3> QED BY <3>2 DEF Computes
  <2>5. \A k \in 1..n : F[k] = F[k - 1] \o q[k]
    <3> TAKE k \in 1..n
    <3>1. F[k - 1] \in Seq(Elem)
      OBVIOUS
    <3> QED BY <2>2, <2>4, <3>1
  <2>6. F[1] = q[1]
    <3>1. F[1] = <<>> \o q[1]
      <4>1. 1 \in 1..n /\ 1 - 1 = 0
        OBVIOUS
      <4>2. F[1] = F[1 - 1] \o q[1]
        BY <2>5, <4>1
      <4> QED BY <2>4, <4>1, <4>2
    <3>2. q[1] \in Seq(Elem)
      OBVIOUS
    <3> QED BY <3>1, <3>2
  <2> DEFINE f == [i \in 1..n |-> F[i]]
  <2>7. f = D(f)
    <3>1. ASSUME NEW i \in 1..n PROVE f[i] = IF i = 1 THEN q[i] ELSE f[i - 1] \o q[i]
      <4>1. CASE i = 1
        BY <2>6, <4>1
      <4>2. CASE i # 1
        <5>1. i - 1 \in 1..n
          BY <4>2
        <5> QED BY <2>5, <4>2, <5>1
      <4> QED BY <4>1, <4>2
    <3> QED BY <3>1
  <2> HIDE DEF f, D
  <2> QED BY <2>7
<1>4. flatten = D(flatten)
  <2> HIDE DEF D
  <2> QED BY <1>3
<1> HIDE DEF flatten
<1>5. \A i \in 1..n : flatten[i] = IF i = 1 THEN q[i] ELSE flatten[i - 1] \o q[i]
  <2>1. \A i \in 1..n : D(flatten)[i] = IF i = 1 THEN q[i] ELSE flatten[i - 1] \o q[i]
    OBVIOUS
  <2> HIDE DEF D
  <2> QED BY <1>4, <2>1
<1> DEFINE Right(k) ==
      /\ flatten[k] \in Seq(Elem)
      /\ \A i, j \in 1..Len(flatten[k]) : flatten[k][i] = flatten[k][j] => i = j
      /\ ToSet(flatten[k]) = UNION {ToSet(q[a]) : a \in 1..k}
    Bad == {k \in 1..n : ~Right(k)}
<1>6. ASSUME NEW k \in 1..n, k # 1 => Right(k - 1) PROVE Right(k)
  <2>1. CASE k = 1
    <3>1. flatten[k] = q[1]
      BY <1>5, <2>1
    <3>2. UNION {ToSet(q[a]) : a \in 1..1} = ToSet(q[1])
      OBVIOUS
    <3> QED BY <2>1, <3>1, <3>2
  <2>2. CASE k # 1
    <3> DEFINE x == flatten[k - 1]
               y == q[k]
               z == flatten[k]
    <3>1. z = x \o y
      BY <1>5, <2>2
    <3>2. /\ x \in Seq(Elem) /\ ToSet(x) = UNION {ToSet(q[a]) : a \in 1..(k - 1)}
          /\ \A i, j \in 1..Len(x) : x[i] = x[j] => i = j
          /\ y \in Seq(Elem) /\ \A i, j \in 1..Len(y) : y[i] = y[j] => i = j
      BY <1>6, <2>2
    <3>3. ToSet(x) \cap ToSet(y) = {}
      <4>1. ASSUME NEW a \in 1..(k - 1) PROVE ToSet(q[a]) \cap ToSet(y) = {}
        <5>1. a \in 1..n /\ a # k
          BY <2>2
        <5> QED BY <5>1
      <4> QED BY <3>2, <4>1
    <3>4. 1..k = 1..(k - 1) \cup {k}
      BY <2>2
    <3>5. UNION {ToSet(q[a]) : a \in 1..k} = ToSet(x) \cup ToSet(y)
      BY <3>2, <3>4
    <3> HIDE DEF x, y, z
    <3>6. /\ z \in Seq(Elem) /\ Len(z) = Len(x) + Len(y)
          /\ Len(x) \in Nat /\ Len(y) \in Nat
          /\ \A i \in 1..(Len(x) + Len(y)) :
               z[i] = IF i <= Len(x) THEN x[i] ELSE y[i - Len(x)]
      BY <3>1, <3>2, ConcatProperties, LenProperties
    <3>7. /\ ToSet(x) = {x[i] : i \in 1..Len(x)} /\ ToSet(y) = {y[i] : i \in 1..Len(y)}
          /\ ToSet(z) = {z[i] : i \in 1..Len(z)}
      BY <3>2, <3>6, SeqElements
    <3>8. \A i \in 1..Len(z) : \/ i \in 1..Len(x) /\ z[i] = x[i]
                               \/ i > Len(x) /\ i - Len(x) \in 1..Len(y) /\ z[i] = y[i - Len(x)]
      <4> TAKE i \in 1..Len(z)
      <4>1. i \in 1..(Len(x) + Len(y)) /\ i \in Int /\ Len(x) \in Nat /\ Len(y) \in Nat
        BY <3>6
      <4>2. z[i] = IF i <= Len(x) THEN x[i] ELSE y[i - Len(x)]
        BY <3>6, <4>1
      <4>3. CASE i <= Len(x)
        BY <4>1, <4>2, <4>3
      <4>4. CASE ~(i <= Len(x))
        <5>1. i > Len(x) /\ i - Len(x) \in 1..Len(y)
          BY <4>1, <4>4
        <5> QED BY <4>2, <4>4, <5>1
      <4> QED BY <4>1, <4>3, <4>4
    <3>9. \A i \in 1..Len(x), j \in 1..Len(y) : x[i] # y[j]
      <4> TAKE i \in 1..Len(x), j \in 1..Len(y)
      <4>1. x[i] \in ToSet(x) /\ y[j] \in ToSet(y)
        BY <3>7
      <4> QED BY <3>3, <4>1
    <3>10. ASSUME NEW i \in 1..Len(z), NEW j \in 1..Len(z), z[i] = z[j] PROVE i = j
      <4>1. CASE i \in 1..Len(x) /\ z[i] = x[i] /\ j \in 1..Len(x) /\ z[j] = x[j]
        BY <3>2, <3>10, <4>1
      <4>2. CASE /\ i > Len(x) /\ i - Len(x) \in 1..Len(y) /\ z[i] = y[i - Len(x)]
                 /\ j > Len(x) /\ j - Len(x) \in 1..Len(y) /\ z[j] = y[j - Len(x)]
        <5>1. i - Len(x) = j - Len(x)
          BY <3>2, <3>10, <4>2
        <5> QED BY <3>6, <5>1
      <4> QED BY <3>8, <3>9, <3>10, <4>1, <4>2
    <3>11. ToSet(z) = ToSet(x) \cup ToSet(y)
      <4>1. \A i \in 1..Len(x) : i \in 1..Len(z) /\ z[i] = x[i]
        BY <3>6
      <4>2. \A i \in 1..Len(y) : i + Len(x) \in 1..Len(z) /\ z[i + Len(x)] = y[i]
        <5> TAKE i \in 1..Len(y)
        <5>1. i + Len(x) \in 1..(Len(x) + Len(y)) /\ ~(i + Len(x) <= Len(x))
              /\ (i + Len(x)) - Len(x) = i
          BY <3>6
        <5> QED BY <3>6, <5>1
      <4>3. ASSUME NEW v \in ToSet(z) PROVE v \in ToSet(x) \cup ToSet(y)
        <5>1. PICK i \in 1..Len(z) : v = z[i]
          BY <3>7
        <5> QED BY <3>7, <3>8, <5>1
      <4>4. ASSUME NEW v \in ToSet(x) PROVE v \in ToSet(z)
        <5>1. PICK i \in 1..Len(x) : v = x[i]
          BY <3>7
        <5> QED BY <3>7, <4>1, <5>1
      <4>5. ASSUME NEW v \in ToSet(y) PROVE v \in ToSet(z)
        <5>1. PICK i \in 1..Len(y) : v = y[i]
          BY <3>7
        <5> QED BY <3>7, <4>2, <5>1
      <4> QED BY <4>3, <4>4, <4>5
    <3> QED BY <3>5, <3>6, <3>10, <3>11 DEF z
  <2> QED BY <2>1, <2>2
<1>7. Bad = {}
  <2> SUFFICES ASSUME Bad # {} PROVE FALSE
    OBVIOUS
  <2>1. PICK k : k \in Bad /\ \A y \in Bad : k <= y
    <3>1. Bad \subseteq Nat
      OBVIOUS
    <3> HIDE DEF Bad
    <3> QED BY <3>1, SmallestNat
  <2>2. k \in 1..n /\ ~Right(k)
    BY <2>1
  <2>3. k # 1 => Right(k - 1)
    <3> SUFFICES ASSUME k # 1 PROVE Right(k - 1)
      OBVIOUS
    <3>1. k - 1 \in 1..n /\ ~(k <= k - 1)
      BY <2>2
    <3> HIDE DEF Right
    <3> QED BY <2>1, <3>1
  <2> HIDE DEF Right, Bad
  <2> QED BY <1>6, <2>2, <2>3
<1>8. Right(n)
  <2>1. n \in 1..n
    OBVIOUS
  <2> HIDE DEF Right
  <2> QED BY <1>7, <2>1
<1> QED BY <1>2, <1>8

-----------------------------------------------------------------------------
(* Doubling the buckets.                                                   *)

\* No chain is longer than the last doubling allows.
Within(t) ==
  \A b \in 0..(t.num_buckets - 1) :
    t.buckets[b].count <= (t.buckets[b].expand_mult + 1) * t.ideal_chain_maxlen

\* What HASH_EXPAND_BUCKETS does to a multiplier keeps the bound: old and m are
\* count and multiplier before, m2 the multiplier afterwards.
KeepsBound(old, m, m2, ideal) ==
  \/ old + 1 <= ideal /\ m2 = m
  \/ old + 1 <= m * ideal /\ m2 = m
  \/ m2 = m + 1

LEMMA BoundKept ==
  ASSUME NEW ideal \in Nat \ {0}, NEW m \in Nat, NEW old \in Nat, NEW m2 \in Nat,
         KeepsBound(old, m, m2, ideal), old <= (m + 1) * ideal
  PROVE  old + 1 <= (m2 + 1) * ideal
<1>1. ideal \in Nat /\ ideal >= 1 /\ m * ideal \in Nat
  OBVIOUS
<1>2. (m + 1) * ideal = m * ideal + ideal
  OBVIOUS
<1>3. ((m + 1) + 1) * ideal = (m + 1) * ideal + ideal /\ (m + 1) * ideal \in Nat
  OBVIOUS
<1>4. CASE m2 = m
  <2>1. old + 1 <= m * ideal + ideal
    BY <1>1, <1>4 DEF KeepsBound
  <2> QED BY <1>2, <1>4, <2>1
<1>5. CASE m2 = m + 1
  <2>1. old + 1 <= (m + 1) * ideal + ideal
    BY <1>1, <1>3
  <2> QED BY <1>3, <1>5, <2>1
<1> QED BY <1>4, <1>5 DEF KeepsBound

LEMMA MultiplierKeeps ==
  ASSUME NEW ideal \in Nat, NEW m \in Nat, NEW old \in Nat
  PROVE  KeepsBound(old, m, IF old + 1 > ideal /\ old + 1 > m * ideal THEN m + 1 ELSE m, ideal)
<1>1. m * ideal \in Nat
  OBVIOUS
<1>2. CASE old + 1 > ideal /\ old + 1 > m * ideal
  BY <1>2 DEF KeepsBound
<1>3. CASE ~(old + 1 > ideal)
  BY <1>3 DEF KeepsBound
<1>4. CASE ~(old + 1 > m * ideal)
  <2>1. old + 1 <= m * ideal
    BY <1>1, <1>4
  <2> QED BY <1>4, <2>1 DEF KeepsBound
<1> QED BY <1>2, <1>3, <1>4

LEMMA RehashFields ==
  ASSUME NEW n \in Nat \ {0}, NEW t \in Table(n), NEW e \in Elem, t.key[e] \in Ptr,
         NEW u, u = Rehash(t, e)
  PROVE  \E bkt \in Bucket :
         /\ u \in Table(n) /\ SameList(u, t) /\ Pushed(u, t, e, bkt)
         /\ u.ideal_chain_maxlen = t.ideal_chain_maxlen
         /\ u.ineff_expands = t.ineff_expands /\ u.noexpand = t.noexpand
         /\ KeepsBound(t.buckets[Place(t, e)].count, t.buckets[Place(t, e)].expand_mult,
                       bkt.expand_mult, t.ideal_chain_maxlen)
<1> DEFINE b == Place(t, e)
           old == t.buckets[b]
           ideal == t.ideal_chain_maxlen
           over == old.count + 1 > ideal
           more == over /\ old.count + 1 > old.expand_mult * ideal
           bkt == [hh_head |-> e, count |-> old.count + 1,
                   expand_mult |-> IF more THEN old.expand_mult + 1 ELSE old.expand_mult]
           v == PushFront(t, e, old)
<1>1. t.num_buckets = n /\ t.buckets \in [0..(n - 1) -> Bucket] /\ ideal \in Nat
  BY DEF Table
<1>2. b \in 0..(n - 1)
  BY <1>1, BucketNumber DEF Place
<1>3. old \in Bucket /\ old.count \in Nat /\ old.expand_mult \in Nat
  BY <1>1, <1>2 DEF Bucket
<1>4. bkt \in Bucket /\ bkt.hh_head = e /\ bkt.count = old.count + 1
  BY <1>3 DEF Bucket
<1>5. /\ v \in Table(n) /\ SameList(v, t)
      /\ v.hh_next = [t.hh_next EXCEPT ![e] = old.hh_head]
      /\ v.hh_prev = [x \in Elem |-> CASE x = e -> NULL
                                       [] x # e /\ x = old.hh_head -> e
                                       [] OTHER -> t.hh_prev[x]]
      /\ v.buckets = t.buckets
      /\ v.ideal_chain_maxlen = t.ideal_chain_maxlen
      /\ v.ineff_expands = t.ineff_expands /\ v.noexpand = t.noexpand
  BY <1>3, PushFields
<1>6. u = [v EXCEPT !.buckets[b] = bkt,
                    !.nonideal_items = IF over THEN @ + 1 ELSE @]
  BY DEF Rehash, Place
<1>7. KeepsBound(old.count, old.expand_mult, bkt.expand_mult, ideal)
  <2>1. bkt.expand_mult = IF more THEN old.expand_mult + 1 ELSE old.expand_mult
    OBVIOUS
  <2> HIDE DEF bkt, old, ideal
  <2> QED BY <1>1, <1>3, <2>1, MultiplierKeeps
<1> HIDE DEF bkt, over, v
<1>8. PICK m : m = IF over THEN v.nonideal_items + 1 ELSE v.nonideal_items
  OBVIOUS
<1>9. m \in Nat
  BY <1>5, <1>8 DEF Table
<1>10. PICK B : B = [t.buckets EXCEPT ![b] = bkt]
  OBVIOUS
<1>11. B \in [0..(n - 1) -> Bucket]
  BY <1>1, <1>4, <1>10
<1>12. u = [v EXCEPT !.buckets = B, !.nonideal_items = m]
  BY <1>5, <1>6, <1>8, <1>10 DEF Table
<1>13. /\ u \in Table(n) /\ SameList(u, v) /\ u.hh_next = v.hh_next /\ u.hh_prev = v.hh_prev
       /\ u.buckets = B /\ u.ideal_chain_maxlen = v.ideal_chain_maxlen
       /\ u.ineff_expands = v.ineff_expands /\ u.noexpand = v.noexpand
  BY <1>5, <1>9, <1>11, <1>12 DEF Table, SameList
<1>14. SameList(u, t)
  BY <1>5, <1>13 DEF SameList
<1>15. Pushed(u, t, e, bkt)
  BY <1>4, <1>5, <1>10, <1>13 DEF Pushed
<1> QED BY <1>4, <1>5, <1>7, <1>13, <1>14, <1>15

\* u is t with its n buckets refilled by the elements of S.
Refilled(n, u, t, S) ==
  /\ u \in Table(n) /\ SameList(u, t) /\ Within(u)
  /\ u.ideal_chain_maxlen = t.ideal_chain_maxlen
  /\ u.ineff_expands = t.ineff_expands /\ u.noexpand = t.noexpand
  /\ \E d : DOMAIN d = 0..(n - 1) /\ Chains(u, S, d)

LEMMA RehashStep ==
  ASSUME NEW n \in Nat \ {0}, NEW t \in Table(n), NEW S \in SUBSET Elem, NEW c,
         Chains(t, S, c), DOMAIN c = 0..(n - 1), Within(t), t.ideal_chain_maxlen # 0,
         NEW e \in Elem, e \notin S, t.key[e] \in Ptr,
         NEW u, u = Rehash(t, e)
  PROVE  Refilled(n, u, t, S \cup {e})
<1> DEFINE b == Place(t, e)
           ideal == t.ideal_chain_maxlen
<1>1. PICK bkt \in Bucket :
         /\ u \in Table(n) /\ SameList(u, t) /\ Pushed(u, t, e, bkt)
         /\ u.ideal_chain_maxlen = t.ideal_chain_maxlen
         /\ u.ineff_expands = t.ineff_expands /\ u.noexpand = t.noexpand
         /\ KeepsBound(t.buckets[Place(t, e)].count, t.buckets[Place(t, e)].expand_mult,
                       bkt.expand_mult, t.ideal_chain_maxlen)
  BY RehashFields
<1>2. u.key = t.key
  BY <1>1 DEF SameList
<1>3. Chains(u, S \cup {e}, [c EXCEPT ![Place(t, e)] = <<e>> \o c[Place(t, e)]])
  BY <1>1, <1>2, ChainPush
<1>4. /\ t.num_buckets = n /\ u.num_buckets = n /\ t.buckets \in [0..(n - 1) -> Bucket]
      /\ ideal \in Nat \ {0}
  BY <1>1 DEF Table
<1>5. b \in 0..(n - 1)
  BY <1>4, BucketNumber DEF Place
<1>6. /\ u.buckets = [t.buckets EXCEPT ![b] = bkt]
      /\ bkt.hh_head = e /\ bkt.count = t.buckets[b].count + 1
  BY <1>1 DEF Pushed
<1>7. bkt.count <= (bkt.expand_mult + 1) * ideal
  <2>1. t.buckets[b].count \in Nat /\ t.buckets[b].expand_mult \in Nat /\ bkt.expand_mult \in Nat
    BY <1>4, <1>5 DEF Bucket
  <2>2. t.buckets[b].count <= (t.buckets[b].expand_mult + 1) * ideal
    BY <1>4, <1>5 DEF Within
  <2>3. KeepsBound(t.buckets[b].count, t.buckets[b].expand_mult, bkt.expand_mult, ideal)
    BY <1>1
  <2> HIDE DEF ideal, b
  <2>4. t.buckets[b].count + 1 <= (bkt.expand_mult + 1) * ideal
    BY <1>4, <2>1, <2>2, <2>3, BoundKept
  <2> QED BY <1>6, <2>4
<1>8. Within(u)
  <2>1. ASSUME NEW a \in 0..(n - 1)
        PROVE  u.buckets[a].count <= (u.buckets[a].expand_mult + 1) * ideal
    <3>1. CASE a = b
      <4>1. u.buckets[a] = bkt
        BY <1>4, <1>5, <1>6, <3>1
      <4> HIDE DEF b, ideal
      <4> QED BY <1>7, <4>1
    <3>2. CASE a # b
      <4>1. u.buckets[a] = t.buckets[a]
        BY <1>4, <1>5, <1>6, <3>2
      <4> HIDE DEF b
      <4> QED BY <1>4, <4>1 DEF Within
    <3> QED BY <3>1, <3>2
  <2>2. u.ideal_chain_maxlen = ideal
    BY <1>1
  <2> HIDE DEF ideal
  <2> QED BY <1>4, <2>1, <2>2 DEF Within
<1>9. DOMAIN [c EXCEPT ![b] = <<e>> \o c[b]] = 0..(n - 1)
  OBVIOUS
<1>10. \E d : DOMAIN d = 0..(n - 1) /\ Chains(u, S \cup {e}, d)
  <2> HIDE DEF b, ideal
  <2> QED BY <1>3, <1>9 DEF b
<1> QED BY <1>1, <1>8, <1>10 DEF Refilled

LEMMA SameChains ==
  ASSUME NEW t, NEW u, NEW S, NEW c, Chains(t, S, c),
         u.hh_next = t.hh_next, u.hh_prev = t.hh_prev, u.buckets = t.buckets,
         u.key = t.key, u.num_buckets = t.num_buckets
  PROVE  Chains(u, S, c)
BY DEF Chains, Place

\* A table whose buckets are empty.
LEMMA EmptyTyped ==
  ASSUME NEW n \in Nat
  PROVE  EmptyBuckets(n) \in [0..(n - 1) -> Bucket]
BY DEF EmptyBuckets, Bucket

LEMMA NoChains ==
  ASSUME NEW n \in Nat, NEW t, t.num_buckets = n, t.buckets = EmptyBuckets(n)
  PROVE  Chains(t, {}, [b \in 0..(n - 1) |-> <<>>])
<1>1. ASSUME NEW b \in 0..(n - 1)
      PROVE  /\ EmptyBuckets(n)[b] \in Bucket
             /\ EmptyBuckets(n)[b].hh_head = NULL /\ EmptyBuckets(n)[b].count = 0
  BY DEF EmptyBuckets, Bucket
<1>2. \A f, g : Linked(f, g, NULL, <<>>)
  BY DEF Linked
<1>3. ToSet(<<>>) = {} /\ Len(<<>>) = 0
  BY DEF ToSet
<1> QED BY <1>1, <1>2, <1>3 DEF Chains

LEMMA Quotient ==
  ASSUME NEW d \in Nat \ {0}, NEW x \in Nat, x >= d
  PROVE  x \div d \in Nat \ {0}
OBVIOUS

\* HASH_EXPAND_BUCKETS loses no element and keeps none twice: each is in the
\* chain of its hash among twice as many, no chain is longer than its multiple of
\* the ideal length, and the order of insertion is left alone.
THEOREM Expansion ==
  ASSUME NEW n \in Nat \ {0}, NEW t \in Table(n), NEW S \in SUBSET Elem, NEW c,
         Chains(t, S, c), DOMAIN c = 0..(n - 1), \A x \in S : t.key[x] \in Ptr,
         t.num_items # 0, NEW u, u = HASH_EXPAND_BUCKETS(t)
  PROVE  /\ 2 * n \in Nat \ {0} /\ u \in Table(2 * n) /\ SameList(u, t) /\ Within(u)
         /\ \E d : DOMAIN d = 0..(2 * n - 1) /\ Chains(u, S, d)
<1> DEFINE n2 == 2 * t.num_buckets
           q == [i \in 1..t.num_buckets |-> Chain(t, i - 1)]
           moving == FlattenSeq(q)
           emptied == [t EXCEPT !.num_buckets = n2, !.buckets = EmptyBuckets(n2),
                           !.ideal_chain_maxlen = (t.num_items + n2 - 1) \div n2,
                           !.nonideal_items = 0]
           A(f) == [i \in 0..Len(moving) |->
                      IF i = 0 THEN emptied ELSE Rehash(f[i - 1], moving[i])]
           after == CHOOSE f : f = A(f)
           spread == after[Len(moving)]
           ineff == IF spread.nonideal_items > t.num_items \div 2
                      THEN t.ineff_expands + 1 ELSE 0
<1>1. u = [spread EXCEPT !.ineff_expands = ineff, !.noexpand = @ \/ ineff > 1]
  BY DEF HASH_EXPAND_BUCKETS
<1>2. t.num_buckets = n /\ t.num_items \in Nat \ {0} /\ n2 = 2 * n /\ n2 \in Nat \ {0}
  BY DEF Table
<1>3. ASSUME NEW b \in 0..(n - 1)
      PROVE  /\ Chain(t, b) = c[b] /\ c[b] \in Seq(Elem)
             /\ ToSet(c[b]) = {x \in S : Place(t, x) = b}
             /\ \A i, j \in 1..Len(c[b]) : c[b][i] = c[b][j] => i = j
  <2>1. /\ Linked(t.hh_next, t.hh_prev, t.buckets[b].hh_head, c[b])
        /\ ToSet(c[b]) = {x \in S : Place(t, x) = b}
    BY <1>2 DEF Chains
  <2>2. Chain(t, b) = c[b]
    BY <2>1, FollowList DEF Chain
  <2> QED BY <2>1, <2>2 DEF Linked
<1>4. ASSUME NEW a \in 1..n
      PROVE  /\ a - 1 \in 0..(n - 1) /\ q[a] = c[a - 1] /\ q[a] \in Seq(Elem)
             /\ ToSet(q[a]) = {x \in S : Place(t, x) = a - 1}
             /\ \A i, j \in 1..Len(q[a]) : q[a][i] = q[a][j] => i = j
  <2>1. a - 1 \in 0..(n - 1) /\ q[a] = Chain(t, a - 1)
    BY <1>2
  <2> HIDE DEF q
  <2> QED BY <1>3, <2>1
<1>5. /\ moving \in Seq(Elem)
      /\ \A i, j \in 1..Len(moving) : moving[i] = moving[j] => i = j
      /\ ToSet(moving) = S
  <2>1. q \in [1..n -> Seq(Elem)]
    BY <1>2, <1>4
  <2>2. \A a, b \in 1..n : a # b => ToSet(q[a]) \cap ToSet(q[b]) = {}
    <3> TAKE a, b \in 1..n
    <3> HAVE a # b
    <3>1. a - 1 # b - 1
      OBVIOUS
    <3> HIDE DEF q
    <3>2. ToSet(q[a]) = {x \in S : Place(t, x) = a - 1}
      BY <1>4
    <3>3. ToSet(q[b]) = {x \in S : Place(t, x) = b - 1}
      BY <1>4
    <3> QED BY <3>1, <3>2, <3>3
  <2>3. \A a \in 1..n : \A i, j \in 1..Len(q[a]) : q[a][i] = q[a][j] => i = j
    BY <1>4
  <2>4. /\ moving \in Seq(Elem)
        /\ \A i, j \in 1..Len(moving) : moving[i] = moving[j] => i = j
        /\ ToSet(moving) = UNION {ToSet(q[a]) : a \in 1..n}
    <3> HIDE DEF q
    <3> QED BY <2>1, <2>2, <2>3, FlattenLists
  <2>5. UNION {ToSet(q[a]) : a \in 1..n} = S
    <3>1. ASSUME NEW x \in S PROVE \E a \in 1..n : x \in ToSet(q[a])
      <4>1. Place(t, x) \in 0..(n - 1)
        BY <1>2, BucketNumber DEF Place
      <4>2. Place(t, x) + 1 \in 1..n /\ (Place(t, x) + 1) - 1 = Place(t, x)
        BY <4>1
      <4> HIDE DEF q
      <4> QED BY <1>4, <4>2
    <3> HIDE DEF q
    <3> QED BY <1>4, <3>1
  <2> QED BY <2>4, <2>5
<1> HIDE DEF q, moving
<1>6. PICK N \in Nat : N = Len(moving)
  BY <1>5, LenProperties
<1>7. ASSUME NEW i \in 1..N PROVE moving[i] \in S /\ moving[i] \in Elem /\ t.key[moving[i]] \in Ptr
  BY <1>5, <1>6, SeqElements
<1>8. PICK ideal : ideal = (t.num_items + n2 - 1) \div n2
  OBVIOUS
<1>9. ideal \in Nat \ {0}
  <2>1. t.num_items + n2 - 1 \in Nat /\ t.num_items + n2 - 1 >= n2
    BY <1>2
  <2> HIDE DEF n2
  <2> QED BY <1>2, <1>8, <2>1, Quotient
<1>10. PICK m : m = n2
  OBVIOUS
<1>11. PICK t0 : t0 = emptied
  OBVIOUS
<1>12. /\ t0 \in Table(m) /\ SameList(t0, t) /\ t0.buckets = EmptyBuckets(m)
       /\ t0.num_buckets = m /\ t0.ideal_chain_maxlen = ideal
       /\ t0.ineff_expands = t.ineff_expands /\ t0.noexpand = t.noexpand
  <2>1. EmptyBuckets(m) \in [0..(m - 1) -> Bucket]
    <3>1. m \in Nat
      BY <1>2, <1>10
    <3> QED BY <3>1, EmptyTyped
  <2>2. t0 = [t EXCEPT !.num_buckets = m, !.buckets = EmptyBuckets(m),
                       !.ideal_chain_maxlen = ideal, !.nonideal_items = 0]
    BY <1>8, <1>10, <1>11
  <2>3. PICK e : e = EmptyBuckets(m)
    OBVIOUS
  <2> QED BY <1>2, <1>9, <1>10, <2>1, <2>2, <2>3 DEF Table, SameList
<1>13. after = A(after)
  <2>1. \E f : f = A(f)
    <3> DEFINE T == {x \in Table(m) : x.key = t.key}
               G == [k \in 1..N |-> [x \in T |-> Rehash(x, moving[k])]]
    <3>1. t0 \in T
      BY <1>12 DEF SameList
    <3>2. ASSUME NEW k \in 1..N, NEW x \in T PROVE Rehash(x, moving[k]) \in T
      <4>1. moving[k] \in Elem /\ x.key[moving[k]] \in Ptr /\ m \in Nat \ {0} /\ x \in Table(m)
        BY <1>2, <1>7, <1>10
      <4>2. PICK y : y = Rehash(x, moving[k])
        OBVIOUS
      <4>3. y \in Table(m) /\ SameList(y, x)
        BY <4>1, <4>2, RehashFields
      <4>4. y.key = t.key
        BY <4>3 DEF SameList
      <4> QED BY <4>2, <4>3, <4>4
    <3>3. G \in [1..N -> [T -> T]]
      BY <3>2
    <3>4. \A k \in 1..N : \A x \in T : G[k][x] = Rehash(x, moving[k])
      OBVIOUS
    <3> HIDE DEF T, G
    <3>5. PICK F : Computes(F, T, N, t0, G)
      BY <3>1, <3>3, StepsExist
    <3>6. F \in [0..N -> T] /\ F[0] = t0
      BY <3>5 DEF Computes
    <3>7. ASSUME NEW k \in 1..N PROVE F[k] = Rehash(F[k - 1], moving[k])
      <4>1. F[k - 1] \in T
        BY <3>6
      <4>2. F[k] = G[k][F[k - 1]]
        BY <3>5 DEF Computes
      <4> QED BY <3>4, <4>1, <4>2
    <3>8. F = A(F)
      <4>1. ASSUME NEW k \in 0..N
            PROVE  F[k] = IF k = 0 THEN emptied ELSE Rehash(F[k - 1], moving[k])
        BY <1>11, <3>6, <3>7
      <4>2. A(F) = [k \in 0..N |-> IF k = 0 THEN emptied ELSE Rehash(F[k - 1], moving[k])]
        BY <1>6
      <4> HIDE DEF A, emptied
      <4> QED BY <3>6, <4>1, <4>2
    <3> HIDE DEF A
    <3> QED BY <3>8
  <2> HIDE DEF A
  <2> QED BY <2>1
<1> HIDE DEF after
<1>14. /\ after[0] = t0
       /\ \A k \in 1..N : after[k] = Rehash(after[k - 1], moving[k])
  <2>1. A(after) = [k \in 0..N |-> IF k = 0 THEN t0 ELSE Rehash(after[k - 1], moving[k])]
    BY <1>6, <1>11
  <2> HIDE DEF A
  <2>2. \A k \in 0..N : after[k] = IF k = 0 THEN t0 ELSE Rehash(after[k - 1], moving[k])
    BY <1>13, <2>1
  <2>3. 0 \in 0..N /\ \A k \in 1..N : k \in 0..N /\ k # 0
    OBVIOUS
  <2> QED BY <2>2, <2>3
<1> DEFINE M(k) == {moving[i] : i \in 1..k}
           Right(k) == /\ after[k] \in Table(m) /\ SameList(after[k], t) /\ Within(after[k])
                       /\ after[k].ideal_chain_maxlen = ideal
                       /\ after[k].ineff_expands = t.ineff_expands
                       /\ after[k].noexpand = t.noexpand
                       /\ \E d : DOMAIN d = 0..(m - 1) /\ Chains(after[k], M(k), d)
           Bad == {k \in 0..N : ~Right(k)}
<1>15. Right(0)
  <2>1. Chains(t0, {}, [b \in 0..(m - 1) |-> <<>>])
    BY <1>2, <1>10, <1>12, NoChains
  <2>2. M(0) = {}
    OBVIOUS
  <2>3. Within(t0)
    <3>1. ASSUME NEW b \in 0..(m - 1)
          PROVE  t0.buckets[b].count <= (t0.buckets[b].expand_mult + 1) * ideal
      <4>1. t0.buckets[b].count = 0 /\ t0.buckets[b].expand_mult = 0
        BY <1>12 DEF EmptyBuckets
      <4>2. 0 <= (0 + 1) * ideal
        BY <1>9
      <4> QED BY <4>1, <4>2
    <3> QED BY <1>12, <3>1 DEF Within
  <2>4. DOMAIN [b \in 0..(m - 1) |-> <<>>] = 0..(m - 1)
    OBVIOUS
  <2>5. \E d : DOMAIN d = 0..(m - 1) /\ Chains(t0, {}, d)
    BY <2>1, <2>4
  <2> QED BY <1>12, <1>14, <2>2, <2>3, <2>5
<1>16. ASSUME NEW k \in 1..N, Right(k - 1) PROVE Right(k)
  <2>1. PICK x : x = after[k - 1]
    OBVIOUS
  <2>2. PICK y : y = after[k]
    OBVIOUS
  <2>3. PICK d : DOMAIN d = 0..(m - 1) /\ Chains(x, M(k - 1), d)
    BY <1>16, <2>1
  <2>4. /\ x \in Table(m) /\ SameList(x, t) /\ Within(x) /\ x.ideal_chain_maxlen = ideal
        /\ x.ineff_expands = t.ineff_expands /\ x.noexpand = t.noexpand
    BY <1>16, <2>1
  <2>5. y = Rehash(x, moving[k])
    BY <1>14, <2>1, <2>2
  <2>6. PICK e : e = moving[k]
    OBVIOUS
  <2>7. e \in Elem /\ x.key[e] \in Ptr
    BY <1>7, <2>4, <2>6 DEF SameList
  <2>8. e \notin M(k - 1)
    <3> SUFFICES ASSUME NEW i \in 1..(k - 1), e = moving[i] PROVE FALSE
      OBVIOUS
    <3>1. i \in 1..N /\ i # k
      OBVIOUS
    <3> QED BY <1>5, <1>6, <2>6, <3>1
  <2>9. M(k - 1) \in SUBSET Elem
    BY <1>7
  <2>10. M(k) = M(k - 1) \cup {e}
    <3>1. 1..k = 1..(k - 1) \cup {k}
      OBVIOUS
    <3> QED BY <2>6, <3>1
  <2>11. m \in Nat \ {0} /\ x.ideal_chain_maxlen # 0
    BY <1>2, <1>9, <1>10, <2>4
  <2> HIDE DEF M
  <2>12. PICK R : R = M(k - 1)
    OBVIOUS
  <2>13. Refilled(m, y, x, R \cup {e})
    <3>1. R \in SUBSET Elem /\ e \notin R
      BY <2>8, <2>9, <2>12
    <3>2. Chains(x, R, d) /\ DOMAIN d = 0..(m - 1)
      BY <2>3, <2>12
    <3>3. y = Rehash(x, e)
      BY <2>5, <2>6
    <3>4. x \in Table(m) /\ Within(x)
      BY <2>4
    <3> QED BY <2>7, <2>11, <3>1, <3>2, <3>3, <3>4, RehashStep
  <2>14. SameList(y, t)
    BY <2>4, <2>13 DEF SameList, Refilled
  <2> QED BY <2>2, <2>4, <2>10, <2>12, <2>13, <2>14 DEF Refilled
<1>17. Right(N)
  <2>1. Bad = {}
    <3> SUFFICES ASSUME Bad # {} PROVE FALSE
      OBVIOUS
    <3>1. PICK k : k \in Bad /\ \A y \in Bad : k <= y
      <4>1. Bad \subseteq Nat
        OBVIOUS
      <4> HIDE DEF Bad
      <4> QED BY <4>1, SmallestNat
    <3> HIDE DEF Right
    <3>2. k \in 0..N /\ ~Right(k)
      BY <3>1
    <3>3. k # 0
      BY <1>15, <3>2
    <3>4. k \in 1..N /\ k - 1 \in 0..N /\ ~(k <= k - 1)
      BY <3>2, <3>3
    <3>5. Right(k - 1)
      BY <3>1, <3>4
    <3> QED BY <1>16, <3>2, <3>4, <3>5
  <2>2. N \in 0..N
    OBVIOUS
  <2> HIDE DEF Right
  <2> QED BY <2>1, <2>2
<1>18. PICK v : v = spread
  OBVIOUS
<1>19. PICK d : /\ v \in Table(m) /\ SameList(v, t) /\ Within(v)
                /\ DOMAIN d = 0..(m - 1) /\ Chains(v, M(N), d)
  BY <1>6, <1>17, <1>18
<1>20. M(N) = S
  BY <1>5, <1>6, SeqElements
<1>21. PICK g : g = ineff
  OBVIOUS
<1>22. g \in Nat
  <2>1. t.ineff_expands \in Nat
    BY DEF Table
  <2> QED BY <1>21, <2>1
<1>23. u = [v EXCEPT !.ineff_expands = g, !.noexpand = @ \/ g > 1]
  BY <1>1, <1>18, <1>21
<1>24. /\ u \in Table(m) /\ SameList(u, v) /\ u.hh_next = v.hh_next /\ u.hh_prev = v.hh_prev
       /\ u.buckets = v.buckets /\ u.num_buckets = v.num_buckets
       /\ u.ideal_chain_maxlen = v.ideal_chain_maxlen
  BY <1>19, <1>22, <1>23 DEF Table, SameList
<1>25. Within(u)
  BY <1>19, <1>24 DEF Within
<1>26. Chains(u, S, d)
  <2>1. u.key = v.key
    BY <1>24 DEF SameList
  <2> HIDE DEF M
  <2> QED BY <1>19, <1>20, <1>24, <2>1, SameChains
<1>27. SameList(u, t)
  BY <1>19, <1>24 DEF SameList
<1> QED BY <1>2, <1>10, <1>19, <1>24, <1>25, <1>26, <1>27

-----------------------------------------------------------------------------
(* A right table: its elements in the order s they were added, and the     *)
(* chains c of its n buckets.                                              *)

\* No chain is at its threshold unless doubling was given up or the last one
\* left it there.
Bounded(t) ==
  t.noexpand \/ \A b \in 0..(t.num_buckets - 1) :
    \/ t.buckets[b].count < (t.buckets[b].expand_mult + 1) * HASH_BKT_CAPACITY_THRESH
    \/ t.buckets[b].count <= (t.buckets[b].expand_mult + 1) * t.ideal_chain_maxlen

\* The elements of S have addresses as keys, no two the same.
Keyed(t, S) ==
  /\ \A x \in S : t.key[x] \in Ptr
  /\ \A x, y \in S : t.key[x] = t.key[y] => x = y

Ordered(t, s) ==
  /\ Linked(t.next, t.prev, t.head, s) /\ Len(s) # 0
  /\ t.tail = s[Len(s)] /\ t.num_items = Len(s)

\* The elements of S are in the chains c of n buckets.
InChains(t, n, c, S) ==
  /\ n \in Nat \ {0} /\ t \in Table(n)
  /\ DOMAIN c = 0..(n - 1) /\ Chains(t, S, c) /\ Bounded(t)

WellMade(t, n, s, c) == Ordered(t, s) /\ Keyed(t, ToSet(s)) /\ InChains(t, n, c, ToSet(s))

\* hashing.c keeps no table at all where it keeps no element.
Sound(t, s) == \/ t = NoTable /\ s = <<>>
               \/ \E n, c : WellMade(t, n, s, c)

\* What one reads following the links of a right table.
LEMMA InOrder ==
  ASSUME NEW t, NEW s, Sound(t, s)
  PROVE  /\ s \in Seq(Elem) /\ \A i, j \in 1..Len(s) : s[i] = s[j] => i = j
         /\ AppOrder(t) = s /\ InTable(t) = ToSet(s) /\ Keyed(t, ToSet(s))
         /\ t.head = NULL <=> s = <<>>
<1>1. CASE t = NoTable /\ s = <<>>
  <2>1. s \in Seq(Elem) /\ Len(s) = 0 /\ ToSet(s) = {}
    BY <1>1 DEF ToSet
  <2>2. t.next = Unlinked /\ t.head = NULL
    BY <1>1 DEF NoTable
  <2>3. Linked(Unlinked, Unlinked, NULL, s)
    BY <2>1 DEF Linked
  <2>4. AppOrder(t) = s
    BY <2>2, <2>3, FollowList DEF AppOrder
  <2> QED BY <1>1, <2>1, <2>2, <2>4 DEF InTable, Keyed
<1>2. CASE \E n, c : WellMade(t, n, s, c)
  <2>1. Ordered(t, s) /\ Keyed(t, ToSet(s))
    BY <1>2 DEF WellMade
  <2>2. Linked(t.next, t.prev, t.head, s) /\ Len(s) # 0
    BY <2>1 DEF Ordered
  <2>3. AppOrder(t) = s
    BY <2>2, FollowList DEF AppOrder
  <2>4. /\ s \in Seq(Elem) /\ \A i, j \in 1..Len(s) : s[i] = s[j] => i = j
        /\ t.head = s[1]
    BY <2>2 DEF Linked
  <2>5. t.head # NULL
    <3>1. 1 \in 1..Len(s)
      BY <2>2, <2>4, SeqElements
    <3>2. t.head \in Elem
      BY <2>4, <3>1, SeqElements
    <3> QED BY <3>2, NotNull
  <2>6. s # <<>>
    BY <2>2
  <2> QED BY <2>1, <2>3, <2>4, <2>5, <2>6 DEF InTable
<1> QED BY <1>1, <1>2 DEF Sound

\* Looking an address up finds the element keyed by it, and nothing else.
LEMMA Found ==
  ASSUME NEW t, NEW s, Sound(t, s), NEW p \in Ptr
  PROVE  LET e == HASH_FIND_PTR(t, p) IN
         IF \E x \in ToSet(s) : t.key[x] = p THEN e \in ToSet(s) /\ t.key[e] = p
                                             ELSE e = NULL
<1>1. CASE s = <<>>
  <2>1. t.head = NULL /\ ToSet(s) = {}
    <3>1. t.head = NULL
      BY <1>1, InOrder
    <3>2. ToSet(s) = {}
      BY <1>1 DEF ToSet
    <3> QED BY <3>1, <3>2
  <2> QED BY <2>1 DEF HASH_FIND_PTR
<1>2. CASE s # <<>>
  <2>1. PICK n, c : WellMade(t, n, s, c)
    BY <1>2 DEF Sound
  <2>2. /\ n \in Nat \ {0} /\ t \in Table(n) /\ Keyed(t, ToSet(s)) /\ Chains(t, ToSet(s), c)
    BY <2>1 DEF WellMade, InChains
  <2>3. t.num_buckets = n /\ t.head # NULL
    BY <1>2, <2>2, InOrder DEF Table
  <2>4. PICK b : b = HASH_TO_BKT(hashv[p], n)
    OBVIOUS
  <2>5. b \in 0..(n - 1)
    BY <2>2, <2>4, BucketNumber
  <2>6. /\ Linked(t.hh_next, t.hh_prev, t.buckets[b].hh_head, c[b])
        /\ ToSet(c[b]) = {x \in ToSet(s) : Place(t, x) = b}
    BY <2>2, <2>3, <2>5 DEF Chains
  <2>7. PICK q : q = c[b]
    OBVIOUS
  <2>8. Chain(t, b) = q
    BY <2>6, <2>7, FollowList DEF Chain
  <2>9. q \in Seq(Elem)
    BY <2>6, <2>7 DEF Linked
  <2>10. \A x \in ToSet(s) : t.key[x] = p => x \in ToSet(q)
    BY <2>3, <2>4, <2>6, <2>7 DEF Place
  <2>11. ToSet(q) \subseteq ToSet(s)
    BY <2>6, <2>7
  <2> DEFINE I == {i \in 1..Len(q) : t.key[q[i]] = p}
  <2>12. PICK j : j = IF I # {} THEN Min(I) ELSE 0
    OBVIOUS
  <2>13. HASH_FIND_PTR(t, p) = IF j = 0 THEN NULL ELSE q[j]
    BY <2>3, <2>4, <2>8, <2>12 DEF HASH_FIND_PTR, SelectInSeq
  <2>14. CASE I # {}
    <3>1. j \in 1..Len(q) /\ j \in I
      <4>1. I \subseteq 1..Len(q) /\ Len(q) \in Nat
        BY <2>9, SeqElements
      <4> HIDE DEF I
      <4> QED BY <2>12, <2>14, <4>1, FirstMatch
    <3>2. j # 0 /\ t.key[q[j]] = p
      BY <2>9, <3>1
    <3>3. q[j] \in ToSet(s)
      BY <2>9, <2>11, <3>1, SeqElements
    <3> QED BY <2>13, <3>2, <3>3
  <2>15. CASE I = {}
    <3>1. HASH_FIND_PTR(t, p) = NULL
      BY <2>12, <2>13, <2>15
    <3>2. ~(\E x \in ToSet(s) : t.key[x] = p)
      <4> SUFFICES ASSUME NEW x \in ToSet(s), t.key[x] = p PROVE FALSE
        OBVIOUS
      <4>1. x \in ToSet(q)
        BY <2>10
      <4>2. PICK i \in 1..Len(q) : x = q[i]
        BY <2>9, <4>1, SeqElements
      <4> QED BY <2>15, <4>2
    <3> QED BY <3>1, <3>2
  <2> QED BY <2>14, <2>15
<1> QED BY <1>1, <1>2

-----------------------------------------------------------------------------
(* Adding an element.                                                      *)

LEMMA WithinBounded ==
  ASSUME NEW n, NEW t \in Table(n), Within(t)
  PROVE  Bounded(t)
BY DEF Within, Bounded

\* The new handle is in its bucket, after a doubling if that is due.
LEMMA BucketAdd ==
  ASSUME NEW n \in Nat \ {0}, NEW t \in Table(n), NEW S \in SUBSET Elem, NEW c,
         InChains(t, n, c, S), NEW e \in Elem, e \notin S,
         \A x \in S \cup {e} : t.key[x] \in Ptr, t.num_items # 0,
         NEW u, u = HASH_ADD_TO_BKT(t, e, Place(t, e))
  PROVE  SameList(u, t) /\ \E m, d : InChains(u, m, d, S \cup {e})
<1>1. PICK b : b = Place(t, e)
  OBVIOUS
<1>2. /\ t.num_buckets = n /\ t.buckets \in [0..(n - 1) -> Bucket] /\ t.key[e] \in Ptr
      /\ DOMAIN c = 0..(n - 1) /\ Chains(t, S, c) /\ Bounded(t)
  BY DEF Table, InChains
<1>3. b \in 0..(n - 1)
  BY <1>1, <1>2, BucketNumber DEF Place
<1>4. PICK bkt : bkt = t.buckets[b]
  OBVIOUS
<1>5. bkt \in Bucket
  BY <1>2, <1>3, <1>4
<1>6. PICK w : w = PushFront(t, e, bkt)
  OBVIOUS
<1>7. /\ w \in Table(n) /\ SameList(w, t)
      /\ w.hh_next = [t.hh_next EXCEPT ![e] = bkt.hh_head]
      /\ w.hh_prev = [x \in Elem |-> CASE x = e -> NULL
                                       [] x # e /\ x = bkt.hh_head -> e
                                       [] OTHER -> t.hh_prev[x]]
      /\ w.buckets = t.buckets /\ w.num_buckets = n
      /\ w.ideal_chain_maxlen = t.ideal_chain_maxlen /\ w.noexpand = t.noexpand
  BY <1>5, <1>6, PushFields
<1>8. PICK new : new = [bkt EXCEPT !.count = bkt.count + 1, !.hh_head = e]
  OBVIOUS
<1>9. /\ new \in Bucket /\ new.hh_head = e /\ new.count = bkt.count + 1
      /\ new.expand_mult = bkt.expand_mult
  <2>1. PICK y : y = [bkt EXCEPT !.count = bkt.count + 1]
    OBVIOUS
  <2>2. bkt.count + 1 \in Nat
    BY <1>5 DEF Bucket
  <2>3. y \in Bucket /\ y.count = bkt.count + 1 /\ y.expand_mult = bkt.expand_mult
    BY <1>5, <2>1, <2>2 DEF Bucket
  <2>4. new = [y EXCEPT !.hh_head = e]
    BY <1>8, <2>1
  <2> QED BY <2>3, <2>4 DEF Bucket
<1>10. PICK added : added = [w EXCEPT !.buckets[b].count = bkt.count + 1,
                                      !.buckets[b].hh_head = e]
  OBVIOUS
<1>11. added = [w EXCEPT !.buckets = [t.buckets EXCEPT ![b] = new]]
  BY <1>2, <1>3, <1>4, <1>7, <1>8, <1>10
<1>12. /\ added \in Table(n) /\ SameList(added, w)
       /\ added.hh_next = w.hh_next /\ added.hh_prev = w.hh_prev
       /\ added.buckets = [t.buckets EXCEPT ![b] = new] /\ added.noexpand = t.noexpand
       /\ added.ideal_chain_maxlen = t.ideal_chain_maxlen
  <2>1. [t.buckets EXCEPT ![b] = new] \in [0..(n - 1) -> Bucket]
    BY <1>2, <1>3, <1>9
  <2>2. PICK bs : bs = [t.buckets EXCEPT ![b] = new]
    OBVIOUS
  <2>3. added = [w EXCEPT !.buckets = bs] /\ bs \in [0..(n - 1) -> Bucket]
    BY <1>11, <2>1, <2>2
  <2>4. added \in Table(n) /\ added.buckets = bs
    BY <1>7, <2>3 DEF Table
  <2>5. SameList(added, w)
    BY <1>7, <2>3 DEF Table, SameList
  <2>6. /\ added.hh_next = w.hh_next /\ added.hh_prev = w.hh_prev
        /\ added.noexpand = t.noexpand
        /\ added.ideal_chain_maxlen = t.ideal_chain_maxlen
    BY <1>7, <2>3 DEF Table
  <2> QED BY <2>2, <2>4, <2>5, <2>6
<1>13. SameList(added, t)
  BY <1>7, <1>12 DEF SameList
<1>14. added.key = t.key /\ added.num_items # 0
  BY <1>13 DEF SameList
<1>15. Pushed(added, t, e, new)
  BY <1>1, <1>4, <1>7, <1>9, <1>12 DEF Pushed
<1>16. PICK d : DOMAIN d = 0..(n - 1) /\ Chains(added, S \cup {e}, d)
  <2>1. Chains(added, S \cup {e}, [c EXCEPT ![Place(t, e)] = <<e>> \o c[Place(t, e)]])
    BY <1>2, <1>9, <1>12, <1>14, <1>15, ChainPush
  <2>2. DOMAIN [c EXCEPT ![Place(t, e)] = <<e>> \o c[Place(t, e)]] = 0..(n - 1)
    BY <1>2
  <2> QED BY <2>1, <2>2
<1> DEFINE due == /\ bkt.count + 1 >= (bkt.expand_mult + 1) * HASH_BKT_CAPACITY_THRESH
                  /\ ~t.noexpand
<1>17. u = IF due THEN HASH_EXPAND_BUCKETS(added) ELSE added
  BY <1>1, <1>4, <1>6, <1>10 DEF HASH_ADD_TO_BKT
<1>18. CASE due
  <2>1. u = HASH_EXPAND_BUCKETS(added)
    BY <1>17, <1>18
  <2>2. \A x \in S \cup {e} : added.key[x] \in Ptr
    BY <1>14
  <2>3. PICK m : m = 2 * n
    OBVIOUS
  <2>4. PICK S2 \in SUBSET Elem : S2 = S \cup {e}
    OBVIOUS
  <2>5. /\ 2 * n \in Nat \ {0} /\ u \in Table(2 * n) /\ SameList(u, added) /\ Within(u)
        /\ \E f : DOMAIN f = 0..(2 * n - 1) /\ Chains(u, S2, f)
    BY <1>12, <1>14, <1>16, <2>1, <2>2, <2>4, Expansion
  <2>6. SameList(u, t)
    BY <1>13, <2>5 DEF SameList
  <2>7. Bounded(u)
    BY <2>5, WithinBounded
  <2> QED BY <2>4, <2>5, <2>6, <2>7 DEF InChains
<1>19. CASE ~due
  <2>1. u = added
    BY <1>17, <1>19
  <2>2. added.num_buckets = n
    BY <1>12 DEF Table
  <2>3. Bounded(added)
    <3>1. CASE t.noexpand
      BY <1>12, <3>1 DEF Bounded
    <3>2. CASE ~t.noexpand
      <4>1. ASSUME NEW a \in 0..(n - 1)
            PROVE  \/ added.buckets[a].count < (added.buckets[a].expand_mult + 1) * HASH_BKT_CAPACITY_THRESH
                   \/ added.buckets[a].count <= (added.buckets[a].expand_mult + 1) * added.ideal_chain_maxlen
        <5>1. CASE a = b
          <6>1. added.buckets[a] = new
            BY <1>2, <1>3, <1>12, <5>1
          <6>2. bkt.count \in Nat /\ bkt.expand_mult \in Nat /\ HASH_BKT_CAPACITY_THRESH \in Nat
            BY <1>5, HashAssumption DEF Bucket
          <6>3. ~(bkt.count + 1 >= (bkt.expand_mult + 1) * HASH_BKT_CAPACITY_THRESH)
            BY <1>19, <3>2
          <6>4. PICK z \in Nat : z = (bkt.expand_mult + 1) * HASH_BKT_CAPACITY_THRESH
            BY <6>2
          <6>5. bkt.count + 1 < z
            BY <6>2, <6>3, <6>4
          <6> QED BY <1>9, <6>1, <6>4, <6>5
        <5>2. CASE a # b
          <6>1. added.buckets[a] = t.buckets[a]
            BY <1>2, <1>3, <1>12, <5>2
          <6> QED BY <1>2, <1>12, <3>2, <6>1 DEF Bounded
        <5> QED BY <5>1, <5>2
      <4> QED BY <2>2, <4>1 DEF Bounded
    <3> QED BY <3>1, <3>2
  <2> QED BY <1>12, <1>13, <1>16, <2>1, <2>3 DEF InChains
<1> HIDE DEF due
<1> QED BY <1>18, <1>19

\* k is t with e behind the elements s, keyed by p, and in no bucket yet.
Entered(k, t, s, e, p) ==
  /\ Ordered(k, Append(s, e)) /\ k.key[e] = p /\ \A x \in ToSet(s) : k.key[x] = t.key[x]
  /\ \E n, c : InChains(k, n, c, ToSet(s))

\* The address of the key is entered in the handle.
WithKey(l, e, p) == [l EXCEPT !.key[e] = p, !.num_items = @ + 1]

LEMMA FirstEntered ==
  ASSUME NEW e \in Elem, NEW p \in Ptr, NEW l, l = HASH_MAKE_TABLE(e),
         NEW k, k = WithKey(l, e, p)
  PROVE  Entered(k, NoTable, <<>>, e, p)
<1> DEFINE n == HASH_INITIAL_NUM_BUCKETS
<1>1. n \in Nat \ {0} /\ HASH_BKT_CAPACITY_THRESH \in Nat \ {0}
  BY HashAssumption
<1>2. PICK q : q = [Unlinked EXCEPT ![e] = p]
  OBVIOUS
<1>3. q \in [Elem -> Ptr \cup {NULL}] /\ q[e] = p
  BY <1>2 DEF Unlinked
<1>4. Unlinked \in Links
  BY DEF Unlinked, Links
<1>5. EmptyBuckets(n) \in [0..(n - 1) -> Bucket]
  BY <1>1, EmptyTyped
<1>6. /\ k \in Table(n) /\ k.head = e /\ k.tail = e /\ k.next = Unlinked /\ k.prev = Unlinked
      /\ k.num_items = 1 /\ k.num_buckets = n /\ k.buckets = EmptyBuckets(n)
      /\ k.key = q
  <2>1. PICK v : v = [head |-> NULL, tail |-> NULL, next |-> Unlinked, prev |-> Unlinked,
                      hh_next |-> Unlinked, hh_prev |-> Unlinked, key |-> Unlinked,
                      num_items |-> 0, num_buckets |-> 0, buckets |-> EmptyBuckets(0),
                      ideal_chain_maxlen |-> 0, nonideal_items |-> 0, ineff_expands |-> 0,
                      noexpand |-> FALSE]
    OBVIOUS
  <2>2. PICK B : B = EmptyBuckets(n)
    OBVIOUS
  <2>3. l = [v EXCEPT !.head = e, !.tail = e, !.num_buckets = n, !.buckets = B]
    BY <2>1, <2>2 DEF HASH_MAKE_TABLE, NoTable
  <2>4. l = [head |-> e, tail |-> e, next |-> Unlinked, prev |-> Unlinked,
             hh_next |-> Unlinked, hh_prev |-> Unlinked, key |-> Unlinked,
             num_items |-> 0, num_buckets |-> n, buckets |-> B,
             ideal_chain_maxlen |-> 0, nonideal_items |-> 0, ineff_expands |-> 0,
             noexpand |-> FALSE]
    BY <2>1, <2>3
  <2>5. B \in [0..(n - 1) -> Bucket] /\ Unlinked \in [Elem -> Ptr \cup {NULL}]
    BY <1>5, <2>2 DEF Unlinked
  <2>6. /\ l \in Table(n) /\ l.head = e /\ l.tail = e /\ l.next = Unlinked
        /\ l.prev = Unlinked /\ l.num_items = 0 /\ l.buckets = B /\ l.key = Unlinked
    BY <1>1, <1>4, <2>4, <2>5 DEF Table
  <2>7. PICK z \in Nat : z = 1
    OBVIOUS
  <2>8. k = [l EXCEPT !.key = q, !.num_items = z]
    BY <1>2, <2>6, <2>7 DEF WithKey
  <2>9. /\ k \in Table(n) /\ k.head = l.head /\ k.tail = l.tail /\ k.next = l.next
        /\ k.prev = l.prev /\ k.num_items = z /\ k.buckets = l.buckets /\ k.key = q
    BY <1>3, <2>6, <2>8 DEF Table
  <2>10. k.num_buckets = n
    BY <2>9 DEF Table
  <2> QED BY <2>2, <2>6, <2>7, <2>9, <2>10
<1>7. ToSet(<<>>) = {}
  BY DEF ToSet
<1>8. InChains(k, n, [b \in 0..(n - 1) |-> <<>>], {})
  <2>1. k.num_buckets = n /\ k.buckets = EmptyBuckets(n)
    BY <1>6
  <2>2. Chains(k, {}, [b \in 0..(n - 1) |-> <<>>])
    BY <1>1, <2>1, NoChains
  <2>3. Bounded(k)
    <3>1. ASSUME NEW b \in 0..(n - 1)
          PROVE  k.buckets[b].count < (k.buckets[b].expand_mult + 1) * HASH_BKT_CAPACITY_THRESH
      <4>1. k.buckets[b] = [hh_head |-> NULL, count |-> 0, expand_mult |-> 0]
        BY <2>1 DEF EmptyBuckets
      <4>2. 0 < (0 + 1) * HASH_BKT_CAPACITY_THRESH
        BY <1>1
      <4> QED BY <4>1, <4>2
    <3> QED BY <2>1, <3>1 DEF Bounded
  <2> QED BY <1>1, <1>6, <2>2, <2>3 DEF InChains
<1>9. Ordered(k, <<e>>)
  <2>1. Linked(Unlinked, Unlinked, e, <<e>>)
    BY DEF Linked, Unlinked
  <2>2. Len(<<e>>) = 1 /\ <<e>>[1] = e
    OBVIOUS
  <2> QED BY <1>6, <2>1, <2>2 DEF Ordered
<1>10. Append(<<>>, e) = <<e>>
  OBVIOUS
<1>11. \E m, c : InChains(k, m, c, {})
  BY <1>8
<1> QED BY <1>3, <1>6, <1>7, <1>9, <1>10, <1>11 DEF Entered

LEMMA NextEntered ==
  ASSUME NEW t, NEW s, NEW n, NEW c, WellMade(t, n, s, c),
         NEW e \in Elem, e \notin ToSet(s), NEW p \in Ptr,
         NEW l, l = HASH_APPEND_LIST(t, e),
         NEW k, k = WithKey(l, e, p)
  PROVE  Entered(k, t, s, e, p)
<1>1. /\ Ordered(t, s) /\ n \in Nat \ {0} /\ t \in Table(n)
      /\ DOMAIN c = 0..(n - 1) /\ Chains(t, ToSet(s), c) /\ Bounded(t)
  BY DEF WellMade, InChains
<1>2. /\ Linked(t.next, t.prev, t.head, s) /\ Len(s) # 0
      /\ t.tail = s[Len(s)] /\ t.num_items = Len(s)
  BY <1>1 DEF Ordered
<1>3. s \in Seq(Elem) /\ \A i, j \in 1..Len(s) : s[i] = s[j] => i = j
  BY <1>2 DEF Linked
<1>4. Len(s) \in 1..Len(s) /\ Len(s) \in Nat
  BY <1>2, <1>3, SeqElements
<1>5. \A i \in 1..Len(s) : s[i] # e /\ s[i] \in Elem /\ s[i] \in ToSet(s)
  BY <1>3, SeqElements
<1>6. t.tail \in Elem /\ t.tail # e
  BY <1>2, <1>4, <1>5
<1>7. /\ t.next \in Links /\ t.prev \in Links /\ t.key \in [Elem -> Ptr \cup {NULL}]
      /\ t.num_items \in Nat
  BY <1>1 DEF Table
<1>8. PICK f : f = [t.next EXCEPT ![e] = NULL, ![t.tail] = e]
  OBVIOUS
<1>9. PICK g : g = [t.prev EXCEPT ![e] = t.tail]
  OBVIOUS
<1>10. PICK q : q = [t.key EXCEPT ![e] = p]
  OBVIOUS
<1>11. PICK z : z = t.num_items + 1
  OBVIOUS
<1>12. l = [t EXCEPT !.next = f, !.prev = g, !.tail = e]
  BY <1>1, <1>8, <1>9 DEF HASH_APPEND_LIST, Table
<1>13. k = [l EXCEPT !.key = q, !.num_items = z]
  <2>1. l.key = t.key /\ l.num_items = t.num_items
    BY <1>1, <1>12 DEF Table
  <2> QED BY <1>10, <1>11, <2>1 DEF WithKey
<1>14. f \in Links /\ g \in Links /\ q \in [Elem -> Ptr \cup {NULL}] /\ z \in Nat
  BY <1>6, <1>7, <1>8, <1>9, <1>10, <1>11 DEF Links
<1>15. /\ l \in Table(n) /\ l.head = t.head /\ l.next = f /\ l.prev = g /\ l.tail = e
       /\ l.hh_next = t.hh_next /\ l.hh_prev = t.hh_prev /\ l.buckets = t.buckets
       /\ l.ideal_chain_maxlen = t.ideal_chain_maxlen /\ l.noexpand = t.noexpand
  BY <1>1, <1>12, <1>14 DEF Table
<1>16. /\ k \in Table(n) /\ k.head = t.head /\ k.next = f /\ k.prev = g /\ k.tail = e
       /\ k.hh_next = t.hh_next /\ k.hh_prev = t.hh_prev /\ k.buckets = t.buckets
       /\ k.ideal_chain_maxlen = t.ideal_chain_maxlen /\ k.noexpand = t.noexpand
       /\ k.key = q /\ k.num_items = z
  BY <1>13, <1>14, <1>15 DEF Table
<1>17. q[e] = p /\ \A x \in ToSet(s) : q[x] = t.key[x]
  BY <1>7, <1>10
<1>18. Ordered(k, Append(s, e))
  <2>1. f[e] = NULL /\ f[s[Len(s)]] = e /\ g[e] = s[Len(s)]
    BY <1>2, <1>6, <1>7, <1>8, <1>9 DEF Links
  <2>2. ASSUME NEW i \in 1..Len(s), i # Len(s) PROVE f[s[i]] = t.next[s[i]]
    <3>1. s[i] # t.tail
      BY <1>2, <1>3, <1>4, <2>2
    <3> QED BY <1>5, <1>7, <1>8, <3>1 DEF Links
  <2>3. \A i \in 1..Len(s) : g[s[i]] = t.prev[s[i]]
    BY <1>5, <1>7, <1>9 DEF Links
  <2>4. \A i \in 1..Len(s) : i # Len(s) => f[s[i]] = t.next[s[i]]
    BY <2>2
  <2>5. \A i \in 1..Len(s) : s[i] # e
    BY <1>5
  <2>6. /\ Linked(f, g, t.head, Append(s, e))
        /\ Len(Append(s, e)) = Len(s) + 1 /\ Append(s, e)[Len(s) + 1] = e
    BY <1>2, <2>1, <2>3, <2>4, <2>5, LinkAppend
  <2> QED BY <1>2, <1>4, <1>11, <1>16, <2>6 DEF Ordered
<1>19. InChains(k, n, c, ToSet(s))
  <2>1. t.num_buckets = n /\ k.num_buckets = n
    BY <1>1, <1>16 DEF Table
  <2>2. \A x \in ToSet(s) : Place(k, x) = Place(t, x)
    BY <1>16, <1>17, <2>1 DEF Place
  <2>3. Chains(k, ToSet(s), c)
    BY <1>1, <1>16, <2>1, <2>2 DEF Chains
  <2>4. Bounded(k)
    BY <1>1, <1>16, <2>1 DEF Bounded
  <2> QED BY <1>1, <1>16, <2>3, <2>4 DEF InChains
<1> QED BY <1>16, <1>17, <1>18, <1>19 DEF Entered

LEMMA TableAdd ==
  ASSUME NEW t, NEW s, Sound(t, s), NEW e \in Elem, e \notin ToSet(s),
         NEW p \in Ptr, \A x \in ToSet(s) : t.key[x] # p,
         NEW u, u = HASH_ADD_PTR(t, e, p)
  PROVE  /\ Sound(u, Append(s, e)) /\ ToSet(Append(s, e)) = ToSet(s) \cup {e}
         /\ u.key[e] = p /\ \A x \in ToSet(s) : u.key[x] = t.key[x]
<1>1. s \in Seq(Elem) /\ Keyed(t, ToSet(s)) /\ (t.head = NULL <=> s = <<>>)
  BY InOrder
<1>2. PICK listed : listed = IF t.head = NULL THEN HASH_MAKE_TABLE(e) ELSE HASH_APPEND_LIST(t, e)
  OBVIOUS
<1>3. PICK k : k = WithKey(listed, e, p)
  OBVIOUS
<1>4. u = HASH_ADD_TO_BKT(k, e, HASH_TO_BKT(hashv[p], k.num_buckets))
  BY <1>2, <1>3 DEF HASH_ADD_PTR, WithKey
<1>5. Entered(k, t, s, e, p)
  <2>1. CASE t = NoTable /\ s = <<>>
    <3>1. listed = HASH_MAKE_TABLE(e)
      BY <1>1, <1>2, <2>1
    <3>2. Entered(k, NoTable, <<>>, e, p)
      BY <1>3, <3>1, FirstEntered
    <3> QED BY <2>1, <3>2
  <2>2. CASE \E n, c : WellMade(t, n, s, c)
    <3>1. PICK n, c : WellMade(t, n, s, c)
      BY <2>2
    <3>2. s # <<>>
      BY <3>1 DEF WellMade, Ordered
    <3>3. listed = HASH_APPEND_LIST(t, e)
      BY <1>1, <1>2, <3>2
    <3> QED BY <1>3, <3>1, <3>3, NextEntered
  <2> QED BY <2>1, <2>2 DEF Sound
<1>6. PICK n, c : InChains(k, n, c, ToSet(s))
  BY <1>5 DEF Entered
<1>7. /\ Ordered(k, Append(s, e)) /\ k.key[e] = p /\ \A x \in ToSet(s) : k.key[x] = t.key[x]
  BY <1>5 DEF Entered
<1>8. PICK S : S = ToSet(s)
  OBVIOUS
<1>9. ToSet(Append(s, e)) = S \cup {e} /\ Len(Append(s, e)) = Len(s) + 1 /\ Len(s) \in Nat
  <2>1. Append(s, e) \in Seq(Elem)
    BY <1>1
  <2>2. Range(Append(s, e)) = Range(s) \cup {e}
    BY <1>1, AppendRange
  <2> QED BY <1>1, <1>8, <2>2 DEF Range, ToSet
<1>10. S \in SUBSET Elem
  BY <1>1, <1>8, SeqElements
<1>11. n \in Nat \ {0} /\ k \in Table(n) /\ InChains(k, n, c, S)
  BY <1>6, <1>8 DEF InChains
<1>12. \A x \in S \cup {e} : k.key[x] \in Ptr
  BY <1>1, <1>7, <1>8 DEF Keyed
<1>13. Keyed(k, S \cup {e})
  BY <1>1, <1>7, <1>8, <1>12 DEF Keyed
<1>14. k.num_items # 0
  BY <1>7, <1>9 DEF Ordered
<1>15. u = HASH_ADD_TO_BKT(k, e, Place(k, e))
  BY <1>4, <1>7 DEF Place
<1>16. SameList(u, k) /\ \E m, d : InChains(u, m, d, S \cup {e})
  BY <1>8, <1>10, <1>11, <1>12, <1>14, <1>15, BucketAdd
<1>17. Ordered(u, Append(s, e))
  BY <1>7, <1>16 DEF Ordered, SameList
<1>18. Keyed(u, S \cup {e}) /\ u.key = k.key
  BY <1>13, <1>16 DEF Keyed, SameList
<1>19. \E m, d : WellMade(u, m, Append(s, e), d)
  BY <1>9, <1>16, <1>17, <1>18 DEF WellMade
<1> QED BY <1>7, <1>8, <1>9, <1>18, <1>19 DEF Sound

-----------------------------------------------------------------------------
(* Taking an element out.                                                  *)

\* f2 and g2 are the links f and g without e.
Taken(f2, g2, f, g, e) ==
  \A z \in Elem \ {e} : /\ f2[z] = IF z = g[e] THEN f[e] ELSE f[z]
                        /\ g2[z] = IF z = f[e] THEN g[e] ELSE g[z]

LEMMA Neighbours ==
  ASSUME NEW f, NEW g, NEW h, NEW s, Linked(f, g, h, s), NEW i \in 1..Len(s)
  PROVE  /\ s \in Seq(Elem) /\ Len(s) \in Nat /\ s[i] \in Elem /\ s[i] \in ToSet(s)
         /\ f[s[i]] = IF i = Len(s) THEN NULL ELSE s[i + 1]
         /\ g[s[i]] = IF i = 1 THEN NULL ELSE s[i - 1]
         /\ i # Len(s) => s[i + 1] \in Elem /\ s[i + 1] \in ToSet(s) /\ f[s[i]] # NULL
         /\ i # 1 => s[i - 1] \in Elem /\ s[i - 1] \in ToSet(s) /\ g[s[i]] # NULL
         /\ (h = s[i]) <=> (i = 1)
<1>1. /\ s \in Seq(Elem) /\ \A k, j \in 1..Len(s) : s[k] = s[j] => k = j
      /\ h = IF Len(s) = 0 THEN NULL ELSE s[1]
      /\ \A k \in 1..Len(s) : /\ f[s[k]] = IF k = Len(s) THEN NULL ELSE s[k + 1]
                              /\ g[s[k]] = IF k = 1 THEN NULL ELSE s[k - 1]
  BY DEF Linked
<1>2. Len(s) \in Nat /\ \A k \in 1..Len(s) : s[k] \in Elem /\ s[k] \in ToSet(s)
  BY <1>1, SeqElements
<1>3. /\ f[s[i]] = IF i = Len(s) THEN NULL ELSE s[i + 1]
      /\ g[s[i]] = IF i = 1 THEN NULL ELSE s[i - 1]
  BY <1>1
<1>4. ASSUME i # Len(s)
      PROVE  s[i + 1] \in Elem /\ s[i + 1] \in ToSet(s) /\ f[s[i]] # NULL
  <2>1. i + 1 \in 1..Len(s)
    BY <1>2, <1>4
  <2> QED BY <1>2, <1>3, <1>4, <2>1, NotNull
<1>5. ASSUME i # 1
      PROVE  s[i - 1] \in Elem /\ s[i - 1] \in ToSet(s) /\ g[s[i]] # NULL
  <2>1. i - 1 \in 1..Len(s)
    BY <1>2, <1>5
  <2> QED BY <1>2, <1>3, <1>5, <2>1, NotNull
<1>6. (h = s[i]) <=> (i = 1)
  <2>1. 1 \in 1..Len(s) /\ Len(s) # 0
    BY <1>2
  <2> QED BY <1>1, <2>1
<1> QED BY <1>1, <1>2, <1>3, <1>4, <1>5, <1>6

\* With f2 and g2, the list s that f starts at h is one without its i-th element.
Shortened(f2, g2, f, h, s, i) ==
  /\ Linked(f2, g2, IF i = 1 THEN f[s[i]] ELSE h, RemoveAt(s, i))
  /\ Len(RemoveAt(s, i)) = Len(s) - 1
  /\ ToSet(RemoveAt(s, i)) = ToSet(s) \ {s[i]}

LEMMA LinkTaken ==
  ASSUME NEW f, NEW g, NEW h, NEW s, Linked(f, g, h, s), NEW i \in 1..Len(s),
         NEW f2, NEW g2, Taken(f2, g2, f, g, s[i])
  PROVE  Shortened(f2, g2, f, h, s, i)
<1>1. /\ s \in Seq(Elem) /\ Len(s) \in Nat /\ s[i] \in Elem
      /\ f[s[i]] = IF i = Len(s) THEN NULL ELSE s[i + 1]
      /\ g[s[i]] = IF i = 1 THEN NULL ELSE s[i - 1]
      /\ i # Len(s) => s[i + 1] \in Elem
      /\ i # 1 => s[i - 1] \in Elem
  BY Neighbours
<1>2. \A k, j \in 1..Len(s) : s[k] = s[j] => k = j
  BY DEF Linked
<1>3. \A j \in 1..Len(s) : s[j] \in Elem /\ s[j] # NULL
  BY <1>1, SeqElements, NotNull
<1>4. \A j \in 1..Len(s) : j # i => s[j] \in Elem \ {s[i]}
  BY <1>2, <1>3
<1>5. \A z \in Elem \ {s[i]} : /\ f2[z] = IF z = g[s[i]] THEN f[s[i]] ELSE f[z]
                               /\ g2[z] = IF z = f[s[i]] THEN g[s[i]] ELSE g[z]
  BY DEF Taken
<1>6. \A j \in 1..Len(s) : j # i => /\ f2[s[j]] = IF s[j] = g[s[i]] THEN f[s[i]] ELSE f[s[j]]
                                    /\ g2[s[j]] = IF s[j] = f[s[i]] THEN g[s[i]] ELSE g[s[j]]
  BY <1>4, <1>5
<1>7. ASSUME i # 1 PROVE f2[s[i - 1]] = f[s[i]]
  <2>1. i - 1 \in 1..Len(s) /\ i - 1 # i
    BY <1>1, <1>7
  <2> QED BY <1>1, <1>6, <1>7, <2>1
<1>8. ASSUME i # Len(s) PROVE g2[s[i + 1]] = g[s[i]]
  <2>1. i + 1 \in 1..Len(s) /\ i + 1 # i
    BY <1>1, <1>8
  <2> QED BY <1>1, <1>6, <1>8, <2>1
<1>9. ASSUME NEW j \in 1..Len(s), j # i - 1, j # i PROVE f2[s[j]] = f[s[j]]
  <2>1. s[j] # g[s[i]]
    <3>1. CASE i = 1
      BY <1>1, <1>3, <3>1
    <3>2. CASE i # 1
      <4>1. i - 1 \in 1..Len(s)
        BY <1>1, <3>2
      <4> QED BY <1>1, <1>2, <1>9, <3>2, <4>1
    <3> QED BY <3>1, <3>2
  <2> QED BY <1>6, <1>9, <2>1
<1>10. ASSUME NEW j \in 1..Len(s), j # i + 1, j # i PROVE g2[s[j]] = g[s[j]]
  <2>1. s[j] # f[s[i]]
    <3>1. CASE i = Len(s)
      BY <1>1, <1>3, <3>1
    <3>2. CASE i # Len(s)
      <4>1. i + 1 \in 1..Len(s)
        BY <1>1, <3>2
      <4> QED BY <1>1, <1>2, <1>10, <3>2, <4>1
    <3> QED BY <3>1, <3>2
  <2> QED BY <1>6, <1>10, <2>1
<1>11. \A j \in 1..Len(s) : j # i - 1 /\ j # i => f2[s[j]] = f[s[j]]
  BY <1>9
<1>12. \A j \in 1..Len(s) : j # i + 1 /\ j # i => g2[s[j]] = g[s[j]]
  BY <1>10
<1>13. /\ i # 1 => f2[s[i - 1]] = f[s[i]]
       /\ i # Len(s) => g2[s[i + 1]] = g[s[i]]
  BY <1>7, <1>8
<1>14. Bypassed(f2, g2, f, g, s, i)
  BY <1>11, <1>12, <1>13 DEF Bypassed
<1>15. PICK h2 : h2 = IF i = 1 THEN f[s[i]] ELSE h
  OBVIOUS
<1>16. /\ Linked(f2, g2, h2, RemoveAt(s, i))
       /\ Len(RemoveAt(s, i)) = Len(s) - 1
       /\ ToSet(RemoveAt(s, i)) = ToSet(s) \ {s[i]}
  BY <1>14, <1>15, LinkRemove
<1> QED BY <1>15, <1>16 DEF Shortened

\* A list that shares no element with that of e is not disturbed.
LEMMA OthersTaken ==
  ASSUME NEW f, NEW g, NEW h, NEW s, Linked(f, g, h, s), NEW i \in 1..Len(s),
         NEW f2, NEW g2, Taken(f2, g2, f, g, s[i]),
         NEW o, NEW q, Linked(f, g, o, q), ToSet(q) \cap ToSet(s) = {}
  PROVE  Linked(f2, g2, o, q)
<1>1. /\ s[i] \in ToSet(s) /\ (f[s[i]] = NULL \/ f[s[i]] \in ToSet(s))
      /\ (g[s[i]] = NULL \/ g[s[i]] \in ToSet(s))
  BY Neighbours
<1>2. q \in Seq(Elem)
  BY DEF Linked
<1>3. ASSUME NEW j \in 1..Len(q) PROVE f2[q[j]] = f[q[j]] /\ g2[q[j]] = g[q[j]]
  <2>1. q[j] \in Elem /\ q[j] \in ToSet(q) /\ q[j] # NULL
    BY <1>2, SeqElements, NotNull
  <2>2. q[j] # s[i] /\ q[j] # f[s[i]] /\ q[j] # g[s[i]]
    BY <1>1, <2>1
  <2> QED BY <2>1, <2>2 DEF Taken
<1> QED BY <1>3, LinkFrame

LEMMA PatchTaken ==
  ASSUME NEW f \in Links, NEW g \in Links, NEW e \in Elem
  PROVE  LET f2 == [Patch(f, g[e], f[e]) EXCEPT ![e] = NULL]
             g2 == [Patch(g, f[e], g[e]) EXCEPT ![e] = NULL]
         IN f2 \in Links /\ g2 \in Links /\ Taken(f2, g2, f, g, e)
<1> DEFINE f2 == [Patch(f, g[e], f[e]) EXCEPT ![e] = NULL]
           g2 == [Patch(g, f[e], g[e]) EXCEPT ![e] = NULL]
<1>1. f[e] \in Elem \cup {NULL} /\ g[e] \in Elem \cup {NULL}
  BY DEF Links
<1>2. Patch(f, g[e], f[e]) \in Links /\ Patch(g, f[e], g[e]) \in Links
  BY <1>1 DEF Patch, Links
<1>3. f2 \in Links /\ g2 \in Links
  BY <1>2 DEF Links
<1>4. ASSUME NEW z \in Elem \ {e}
      PROVE  /\ f2[z] = IF z = g[e] THEN f[e] ELSE f[z]
             /\ g2[z] = IF z = f[e] THEN g[e] ELSE g[z]
  BY DEF Patch
<1> QED BY <1>3, <1>4 DEF Taken

\* The fields of u: t without e, whose bucket becomes new.
Removed(u, t, e, new) ==
  /\ u.head = IF t.prev[e] = NULL THEN t.next[e] ELSE t.head
  /\ u.tail = IF t.tail = e THEN t.prev[e] ELSE t.tail
  /\ u.num_items = t.num_items - 1
  /\ Taken(u.next, u.prev, t.next, t.prev, e)
  /\ Taken(u.hh_next, u.hh_prev, t.hh_next, t.hh_prev, e)
  /\ u.key = [t.key EXCEPT ![e] = NULL]
  /\ u.buckets = [t.buckets EXCEPT ![Place(t, e)] = new]
  /\ u.ideal_chain_maxlen = t.ideal_chain_maxlen /\ u.noexpand = t.noexpand
  /\ LET bkt == t.buckets[Place(t, e)] IN
       new = [hh_head |-> IF bkt.hh_head = e THEN t.hh_next[e] ELSE bkt.hh_head,
              count |-> bkt.count - 1, expand_mult |-> bkt.expand_mult]

LEMMA DelFields ==
  ASSUME NEW n \in Nat \ {0}, NEW t \in Table(n), NEW e \in Elem, t.key[e] \in Ptr,
         t.num_items \in Nat \ {0}, t.buckets[Place(t, e)].count \in Nat \ {0},
         ~(t.prev[e] = NULL /\ t.next[e] = NULL), NEW u, u = HASH_DEL(t, e)
  PROVE  u \in Table(n) /\ \E new \in Bucket : Removed(u, t, e, new)
<1>1. /\ t.num_buckets = n /\ t.buckets \in [0..(n - 1) -> Bucket] /\ t.key \in [Elem -> Ptr \cup {NULL}]
      /\ t.next \in Links /\ t.prev \in Links /\ t.hh_next \in Links /\ t.hh_prev \in Links
      /\ t.head \in Elem \cup {NULL} /\ t.tail \in Elem \cup {NULL}
  BY DEF Table
<1>2. PICK b : b = Place(t, e)
  OBVIOUS
<1>3. b \in 0..(n - 1)
  BY <1>1, <1>2, BucketNumber DEF Place
<1>4. PICK bkt : bkt = t.buckets[b]
  OBVIOUS
<1>5. bkt \in Bucket /\ bkt.count \in Nat \ {0} /\ bkt.expand_mult \in Nat /\ bkt.hh_head \in Elem \cup {NULL}
  BY <1>1, <1>2, <1>3, <1>4 DEF Bucket
<1>6. /\ t.prev[e] \in Elem \cup {NULL} /\ t.next[e] \in Elem \cup {NULL}
      /\ t.hh_prev[e] \in Elem \cup {NULL} /\ t.hh_next[e] \in Elem \cup {NULL}
  BY <1>1 DEF Links
<1>7. PICK tl : tl = IF t.tail = e THEN t.prev[e] ELSE t.tail
  OBVIOUS
<1>8. PICK hd : hd = IF t.prev[e] = NULL THEN t.next[e] ELSE t.head
  OBVIOUS
<1>9. PICK f : f = Patch(t.next, t.prev[e], t.next[e])
  OBVIOUS
<1>10. PICK g : g = Patch(t.prev, t.next[e], t.prev[e])
  OBVIOUS
<1>11. PICK z : z = t.num_items - 1
  OBVIOUS
<1>12. PICK w : w = [t EXCEPT !.tail = tl, !.head = hd, !.next = f, !.prev = g, !.num_items = z]
  OBVIOUS
<1>13. PICK x : x = HASH_DEL_IN_BKT(w, b, e)
  OBVIOUS
<1>14. u = Forget(x, e)
  <2>1. /\ w = [t EXCEPT
                 !.tail = IF t.tail = e THEN t.prev[e] ELSE @,
                 !.head = IF t.prev[e] = NULL THEN t.next[e] ELSE @,
                 !.next = Patch(@, t.prev[e], t.next[e]),
                 !.prev = Patch(@, t.next[e], t.prev[e]),
                 !.num_items = @ - 1]
    BY <1>7, <1>8, <1>9, <1>10, <1>11, <1>12 DEF Table
  <2> QED BY <1>2, <1>13, <2>1 DEF HASH_DEL, Place
<1>15. /\ tl \in Elem \cup {NULL} /\ hd \in Elem \cup {NULL} /\ z \in Nat
       /\ f \in Links /\ g \in Links
  <2>1. tl \in Elem \cup {NULL} /\ hd \in Elem \cup {NULL} /\ z \in Nat
    BY <1>1, <1>6, <1>7, <1>8, <1>11
  <2>2. f \in Links /\ g \in Links
    BY <1>1, <1>6, <1>9, <1>10 DEF Patch, Links
  <2> QED BY <2>1, <2>2
<1>16. /\ w \in Table(n) /\ w.tail = tl /\ w.head = hd /\ w.next = f /\ w.prev = g
       /\ w.num_items = z /\ w.hh_next = t.hh_next /\ w.hh_prev = t.hh_prev /\ w.key = t.key
       /\ w.buckets = t.buckets /\ w.ideal_chain_maxlen = t.ideal_chain_maxlen
       /\ w.noexpand = t.noexpand
  BY <1>12, <1>15 DEF Table
<1>17. PICK hf : hf = Patch(t.hh_next, t.hh_prev[e], t.hh_next[e])
  OBVIOUS
<1>18. PICK hg : hg = Patch(t.hh_prev, t.hh_next[e], t.hh_prev[e])
  OBVIOUS
<1>19. PICK new : new = [hh_head |-> IF bkt.hh_head = e THEN t.hh_next[e] ELSE bkt.hh_head,
                         count |-> bkt.count - 1, expand_mult |-> bkt.expand_mult]
  OBVIOUS
<1>20. PICK B : B = [t.buckets EXCEPT ![b] = new]
  OBVIOUS
<1>21. new \in Bucket /\ B \in [0..(n - 1) -> Bucket] /\ hf \in Links /\ hg \in Links
  <2>1. new \in Bucket
    BY <1>5, <1>6, <1>19 DEF Bucket
  <2>2. hf \in Links /\ hg \in Links
    BY <1>1, <1>6, <1>17, <1>18 DEF Patch, Links
  <2> QED BY <1>1, <1>20, <2>1, <2>2
<1>22. x = [w EXCEPT !.buckets = B, !.hh_next = hf, !.hh_prev = hg]
  <2>1. x = [w EXCEPT !.buckets[b].count = bkt.count - 1,
                      !.buckets[b].hh_head = IF bkt.hh_head = e THEN t.hh_next[e] ELSE bkt.hh_head,
                      !.hh_next = hf, !.hh_prev = hg]
    BY <1>3, <1>4, <1>13, <1>16, <1>17, <1>18 DEF HASH_DEL_IN_BKT
  <2>2. PICK h : h = IF bkt.hh_head = e THEN t.hh_next[e] ELSE bkt.hh_head
    OBVIOUS
  <2>3. PICK k : k = bkt.count - 1
    OBVIOUS
  <2>4. PICK y : y = [bkt EXCEPT !.count = k, !.hh_head = h]
    OBVIOUS
  <2>5. y = new
    <3>1. h \in Elem \cup {NULL} /\ k \in Nat
      BY <1>5, <1>6, <2>2, <2>3
    <3>2. y \in Bucket /\ y.hh_head = h /\ y.count = k /\ y.expand_mult = bkt.expand_mult
      <4>1. PICK v : v = [bkt EXCEPT !.count = k]
        OBVIOUS
      <4>2. v \in Bucket /\ v.count = k /\ v.expand_mult = bkt.expand_mult
        BY <1>5, <3>1, <4>1 DEF Bucket
      <4>3. y = [v EXCEPT !.hh_head = h]
        BY <2>4, <4>1
      <4> QED BY <3>1, <4>2, <4>3 DEF Bucket
    <3>3. new.hh_head = h /\ new.count = k /\ new.expand_mult = bkt.expand_mult
      BY <1>19, <2>2, <2>3
    <3> QED BY <1>21, <3>2, <3>3 DEF Bucket
  <2>6. x = [w EXCEPT !.buckets[b].count = k, !.buckets[b].hh_head = h,
                      !.hh_next = hf, !.hh_prev = hg]
    BY <2>1, <2>2, <2>3
  <2>7. [w EXCEPT !.buckets[b].count = k, !.buckets[b].hh_head = h]
          = [w EXCEPT !.buckets = B]
    BY <1>1, <1>3, <1>4, <1>16, <1>20, <2>4, <2>5
  <2> QED BY <2>6, <2>7
<1>23. /\ x \in Table(n) /\ x.tail = tl /\ x.head = hd /\ x.next = f /\ x.prev = g
       /\ x.num_items = z /\ x.hh_next = hf /\ x.hh_prev = hg /\ x.key = t.key
       /\ x.buckets = B /\ x.ideal_chain_maxlen = t.ideal_chain_maxlen
       /\ x.noexpand = t.noexpand
  BY <1>16, <1>21, <1>22 DEF Table
<1>24. PICK f2 : f2 = [f EXCEPT ![e] = NULL]
  OBVIOUS
<1>25. PICK g2 : g2 = [g EXCEPT ![e] = NULL]
  OBVIOUS
<1>26. PICK hf2 : hf2 = [hf EXCEPT ![e] = NULL]
  OBVIOUS
<1>27. PICK hg2 : hg2 = [hg EXCEPT ![e] = NULL]
  OBVIOUS
<1>28. PICK q : q = [t.key EXCEPT ![e] = NULL]
  OBVIOUS
<1>29. f2 \in Links /\ g2 \in Links /\ Taken(f2, g2, t.next, t.prev, e)
  BY <1>1, <1>9, <1>10, <1>24, <1>25, PatchTaken
<1>30. hf2 \in Links /\ hg2 \in Links /\ Taken(hf2, hg2, t.hh_next, t.hh_prev, e)
  BY <1>1, <1>17, <1>18, <1>26, <1>27, PatchTaken
<1>31. q \in [Elem -> Ptr \cup {NULL}]
  BY <1>1, <1>28
<1>32. u = [x EXCEPT !.next = f2, !.prev = g2, !.hh_next = hf2, !.hh_prev = hg2, !.key = q]
  <2>1. PICK a : a = [x EXCEPT !.next = f2, !.prev = g2]
    OBVIOUS
  <2>2. a = [x EXCEPT !.next[e] = NULL, !.prev[e] = NULL]
    BY <1>23, <1>24, <1>25, <2>1 DEF Table
  <2>3. /\ a \in Table(n) /\ a.hh_next = hf /\ a.hh_prev = hg /\ a.key = t.key
    BY <1>23, <1>29, <2>1 DEF Table
  <2>4. PICK c : c = [a EXCEPT !.hh_next = hf2, !.hh_prev = hg2]
    OBVIOUS
  <2>5. c = [a EXCEPT !.hh_next[e] = NULL, !.hh_prev[e] = NULL]
    BY <1>26, <1>27, <2>3, <2>4 DEF Table
  <2>6. c \in Table(n) /\ c.key = t.key
    BY <1>30, <2>3, <2>4 DEF Table
  <2>7. u = [c EXCEPT !.key[e] = NULL]
    BY <1>14, <2>2, <2>5 DEF Forget
  <2>8. u = [c EXCEPT !.key = q]
    BY <1>28, <2>6, <2>7
  <2> QED BY <2>1, <2>4, <2>8
<1>33. /\ u \in Table(n) /\ u.tail = tl /\ u.head = hd /\ u.next = f2 /\ u.prev = g2
       /\ u.num_items = z /\ u.hh_next = hf2 /\ u.hh_prev = hg2 /\ u.key = q
       /\ u.buckets = B /\ u.ideal_chain_maxlen = t.ideal_chain_maxlen
       /\ u.noexpand = t.noexpand
  BY <1>23, <1>29, <1>30, <1>31, <1>32 DEF Table
<1>34. Removed(u, t, e, new)
  BY <1>2, <1>4, <1>7, <1>8, <1>11, <1>19, <1>20, <1>28, <1>29, <1>30, <1>33 DEF Removed
<1> QED BY <1>21, <1>33, <1>34

\* The chains without e.
LEMMA ChainsTaken ==
  ASSUME NEW n \in Nat \ {0}, NEW t \in Table(n), NEW S \in SUBSET Elem, NEW c,
         InChains(t, n, c, S), NEW e \in S, t.key[e] \in Ptr,
         NEW u \in Table(n), NEW new \in Bucket, Removed(u, t, e, new)
  PROVE  \E d : InChains(u, n, d, S \ {e})
<1>1. PICK b : b = Place(t, e)
  OBVIOUS
<1>2. /\ t.num_buckets = n /\ u.num_buckets = n /\ t.buckets \in [0..(n - 1) -> Bucket]
      /\ DOMAIN c = 0..(n - 1) /\ Chains(t, S, c) /\ Bounded(t)
  BY DEF Table, InChains
<1>3. b \in 0..(n - 1)
  BY <1>1, <1>2, BucketNumber DEF Place
<1>4. /\ Taken(u.hh_next, u.hh_prev, t.hh_next, t.hh_prev, e)
      /\ u.key = [t.key EXCEPT ![e] = NULL]
      /\ u.buckets = [t.buckets EXCEPT ![b] = new]
      /\ u.ideal_chain_maxlen = t.ideal_chain_maxlen /\ u.noexpand = t.noexpand
      /\ new = [hh_head |-> IF t.buckets[b].hh_head = e THEN t.hh_next[e]
                                                       ELSE t.buckets[b].hh_head,
                count |-> t.buckets[b].count - 1, expand_mult |-> t.buckets[b].expand_mult]
  BY <1>1 DEF Removed
<1>5. \A a \in 0..(n - 1) : /\ Linked(t.hh_next, t.hh_prev, t.buckets[a].hh_head, c[a])
                            /\ Len(c[a]) = t.buckets[a].count
                            /\ ToSet(c[a]) = {x \in S : Place(t, x) = a}
  BY <1>2 DEF Chains
<1>6. PICK q : q = c[b]
  OBVIOUS
<1>7. PICK h : h = t.buckets[b].hh_head
  OBVIOUS
<1>8. /\ Linked(t.hh_next, t.hh_prev, h, q) /\ Len(q) = t.buckets[b].count
      /\ ToSet(q) = {x \in S : Place(t, x) = b}
  BY <1>3, <1>5, <1>6, <1>7
<1>9. PICK i \in 1..Len(q) : q[i] = e
  <2>1. q \in Seq(Elem) /\ e \in ToSet(q)
    BY <1>1, <1>8 DEF Linked
  <2> QED BY <2>1, SeqElements
<1>10. PICK h2 : h2 = IF i = 1 THEN t.hh_next[q[i]] ELSE h
  OBVIOUS
<1>11. PICK r : r = RemoveAt(q, i)
  OBVIOUS
<1>12. /\ Linked(u.hh_next, u.hh_prev, h2, r) /\ Len(r) = Len(q) - 1
       /\ ToSet(r) = ToSet(q) \ {e}
  <2>1. Taken(u.hh_next, u.hh_prev, t.hh_next, t.hh_prev, q[i])
    BY <1>4, <1>9
  <2>2. Linked(t.hh_next, t.hh_prev, h, q)
    BY <1>8
  <2>3. Shortened(u.hh_next, u.hh_prev, t.hh_next, h, q, i)
    BY <2>1, <2>2, LinkTaken
  <2> QED BY <1>9, <1>10, <1>11, <2>3 DEF Shortened
<1>13. (h = q[i]) <=> (i = 1)
  BY <1>8, Neighbours
<1>14. new.hh_head = h2 /\ new.count = Len(r) /\ new.expand_mult = t.buckets[b].expand_mult
  BY <1>4, <1>7, <1>8, <1>9, <1>10, <1>12, <1>13
<1>15. \A x \in S \ {e} : Place(u, x) = Place(t, x)
  <2>1. \A x \in S \ {e} : u.key[x] = t.key[x]
    BY <1>4 DEF Table
  <2> QED BY <1>2, <2>1 DEF Place
<1>16. PICK d : d = [c EXCEPT ![b] = r]
  OBVIOUS
<1>17. DOMAIN d = 0..(n - 1) /\ d[b] = r /\ \A a \in 0..(n - 1) : a # b => d[a] = c[a]
  BY <1>2, <1>3, <1>16
<1>18. u.buckets[b] = new /\ \A a \in 0..(n - 1) : a # b => u.buckets[a] = t.buckets[a]
  BY <1>2, <1>3, <1>4
<1>19. ASSUME NEW a \in 0..(n - 1)
       PROVE  /\ Linked(u.hh_next, u.hh_prev, u.buckets[a].hh_head, d[a])
              /\ Len(d[a]) = u.buckets[a].count
              /\ ToSet(d[a]) = {x \in S \ {e} : Place(u, x) = a}
  <2>1. CASE a = b
    <3>1. Linked(u.hh_next, u.hh_prev, u.buckets[a].hh_head, d[a])
      BY <1>12, <1>14, <1>17, <1>18, <2>1
    <3>2. Len(d[a]) = u.buckets[a].count
      BY <1>14, <1>17, <1>18, <2>1
    <3>3. ToSet(d[a]) = {x \in S : Place(t, x) = b} \ {e}
      BY <1>8, <1>12, <1>17, <2>1
    <3>4. {x \in S : Place(t, x) = b} \ {e} = {x \in S \ {e} : Place(u, x) = a}
      BY <1>15, <2>1
    <3> QED BY <3>1, <3>2, <3>3, <3>4
  <2>2. CASE a # b
    <3>1. d[a] = c[a] /\ u.buckets[a] = t.buckets[a]
      BY <1>17, <1>18, <2>2
    <3>2. PICK o : o = c[a]
      OBVIOUS
    <3>3. PICK p : p = t.buckets[a].hh_head
      OBVIOUS
    <3>4. /\ Linked(t.hh_next, t.hh_prev, p, o) /\ Len(o) = t.buckets[a].count
          /\ ToSet(o) = {x \in S : Place(t, x) = a}
      BY <1>5, <3>2, <3>3
    <3>5. ToSet(o) \cap ToSet(q) = {}
      BY <1>8, <2>2, <3>4
    <3>6. Linked(u.hh_next, u.hh_prev, p, o)
      BY <1>4, <1>8, <1>9, <3>4, <3>5, OthersTaken
    <3>7. {x \in S : Place(t, x) = a} = {x \in S \ {e} : Place(u, x) = a}
      BY <1>1, <1>15, <2>2
    <3> QED BY <3>1, <3>2, <3>3, <3>4, <3>6, <3>7
  <2> QED BY <2>1, <2>2
<1>20. Chains(u, S \ {e}, d)
  BY <1>2, <1>19 DEF Chains
<1>21. Bounded(u)
  <2>1. CASE t.noexpand
    BY <1>4, <2>1 DEF Bounded
  <2>2. CASE ~t.noexpand
    <3>1. ASSUME NEW a \in 0..(n - 1)
          PROVE  \/ u.buckets[a].count < (u.buckets[a].expand_mult + 1) * HASH_BKT_CAPACITY_THRESH
                 \/ u.buckets[a].count <= (u.buckets[a].expand_mult + 1) * u.ideal_chain_maxlen
      <4>1. \/ t.buckets[a].count < (t.buckets[a].expand_mult + 1) * HASH_BKT_CAPACITY_THRESH
            \/ t.buckets[a].count <= (t.buckets[a].expand_mult + 1) * u.ideal_chain_maxlen
        BY <1>2, <1>4, <2>2 DEF Bounded
      <4>2. u.buckets[a].expand_mult = t.buckets[a].expand_mult
        BY <1>14, <1>18
      <4>3. /\ t.buckets[a].count \in Nat /\ t.buckets[a].expand_mult \in Nat
            /\ u.buckets[a].count \in Nat /\ u.ideal_chain_maxlen \in Nat
            /\ HASH_BKT_CAPACITY_THRESH \in Nat
        BY <1>2, HashAssumption DEF Table, Bucket
      <4>4. u.buckets[a].count <= t.buckets[a].count
        <5>1. CASE a = b
          <6>1. u.buckets[a].count = t.buckets[a].count - 1
            BY <1>8, <1>12, <1>14, <1>18, <4>3, <5>1
          <6> QED BY <4>3, <6>1
        <5>2. CASE a # b
          BY <1>18, <4>3, <5>2
        <5> QED BY <5>1, <5>2
      <4>5. PICK y \in Nat : y = (t.buckets[a].expand_mult + 1) * HASH_BKT_CAPACITY_THRESH
        BY <4>3
      <4>6. PICK z \in Nat : z = (t.buckets[a].expand_mult + 1) * u.ideal_chain_maxlen
        BY <4>3
      <4>7. PICK v \in Nat : v = t.buckets[a].count
        BY <4>3
      <4>8. PICK w \in Nat : w = u.buckets[a].count
        BY <4>3
      <4>9. w < y \/ w <= z
        <5>1. w <= v /\ (v < y \/ v <= z)
          BY <4>1, <4>4, <4>5, <4>6, <4>7, <4>8
        <5> QED BY <5>1
      <4> QED BY <4>2, <4>5, <4>6, <4>8, <4>9
    <3> QED BY <1>2, <3>1 DEF Bounded
  <2> QED BY <2>1, <2>2
<1> QED BY <1>17, <1>20, <1>21 DEF InChains

LEMMA TableDel ==
  ASSUME NEW t, NEW s, Sound(t, s), NEW i \in 1..Len(s), NEW e, e = s[i],
         NEW u, u = HASH_DEL(t, e)
  PROVE  /\ Sound(u, RemoveAt(s, i)) /\ ToSet(RemoveAt(s, i)) = ToSet(s) \ {e}
         /\ \A x \in ToSet(s) \ {e} : u.key[x] = t.key[x]
<1>1. PICK n, c : WellMade(t, n, s, c)
  <2>1. s # <<>>
    OBVIOUS
  <2> QED BY <2>1 DEF Sound
<1>2. Ordered(t, s) /\ Keyed(t, ToSet(s)) /\ InChains(t, n, c, ToSet(s))
  BY <1>1 DEF WellMade
<1>3. /\ n \in Nat \ {0} /\ t \in Table(n) /\ DOMAIN c = 0..(n - 1)
      /\ Chains(t, ToSet(s), c)
  BY <1>2 DEF InChains
<1>4. /\ Linked(t.next, t.prev, t.head, s) /\ Len(s) # 0
      /\ t.tail = s[Len(s)] /\ t.num_items = Len(s)
  BY <1>2 DEF Ordered
<1>5. /\ s \in Seq(Elem) /\ Len(s) \in Nat /\ e \in Elem /\ e \in ToSet(s)
      /\ t.next[e] = IF i = Len(s) THEN NULL ELSE s[i + 1]
      /\ t.prev[e] = IF i = 1 THEN NULL ELSE s[i - 1]
      /\ i # Len(s) => t.next[e] # NULL
      /\ i # 1 => t.prev[e] # NULL
  BY <1>4, Neighbours
<1>6. \A k, j \in 1..Len(s) : s[k] = s[j] => k = j
  BY <1>4 DEF Linked
<1>7. PICK S \in SUBSET Elem : S = ToSet(s)
  BY <1>5, SeqElements
<1>8. PICK r : r = RemoveAt(s, i)
  OBVIOUS
<1>9. /\ r \in Seq(Elem) /\ Len(r) = Len(s) - 1
      /\ \A j \in 1..(Len(s) - 1) : r[j] = IF j < i THEN s[j] ELSE s[j + 1]
  BY <1>5, <1>8, RemoveAtType, RemoveAtElements
<1>10. CASE t.prev[e] = NULL /\ t.next[e] = NULL
  <2>1. i = 1 /\ i = Len(s) /\ Len(r) = 0
    BY <1>5, <1>9, <1>10
  <2>2. r = <<>> /\ ToSet(r) = {}
    <3>1. r = <<>>
      BY <1>9, <2>1
    <3> QED BY <3>1 DEF ToSet
  <2>3. u = NoTable
    BY <1>10 DEF HASH_DEL
  <2>4. ToSet(s) = {e}
    <3>1. ToSet(s) = {s[j] : j \in 1..Len(s)}
      BY <1>5, SeqElements
    <3>2. \A j \in 1..Len(s) : j = i
      BY <2>1
    <3> QED BY <3>1, <3>2
  <2> QED BY <1>8, <2>2, <2>3, <2>4 DEF Sound
<1>11. CASE ~(t.prev[e] = NULL /\ t.next[e] = NULL)
  <2>1. t.key[e] \in Ptr
    BY <1>2, <1>5 DEF Keyed
  <2>2. t.num_items \in Nat \ {0}
    BY <1>4, <1>5
  <2>3. t.buckets[Place(t, e)].count \in Nat \ {0}
    <3>1. t.num_buckets = n
      BY <1>3 DEF Table
    <3>2. PICK b \in 0..(n - 1) : b = Place(t, e)
      BY <1>3, <2>1, <3>1, BucketNumber DEF Place
    <3>3. PICK q : q = c[b]
      OBVIOUS
    <3>4. /\ q \in Seq(Elem) /\ Len(q) = t.buckets[b].count /\ e \in ToSet(q)
      BY <1>3, <1>5, <3>1, <3>2, <3>3 DEF Chains, Linked
    <3>5. PICK j \in 1..Len(q) : q[j] = e
      BY <3>4, SeqElements
    <3> QED BY <3>2, <3>4, <3>5, SeqElements
  <2>4. PICK new \in Bucket : u \in Table(n) /\ Removed(u, t, e, new)
    BY <1>3, <1>5, <1>11, <2>1, <2>2, <2>3, DelFields
  <2>5. /\ u.head = IF t.prev[e] = NULL THEN t.next[e] ELSE t.head
        /\ u.tail = IF t.tail = e THEN t.prev[e] ELSE t.tail
        /\ u.num_items = t.num_items - 1
        /\ Taken(u.next, u.prev, t.next, t.prev, s[i])
        /\ u.key = [t.key EXCEPT ![e] = NULL]
    BY <2>4 DEF Removed
  <2>6. u.head = IF i = 1 THEN t.next[s[i]] ELSE t.head
    BY <1>5, <2>5
  <2>7. Linked(u.next, u.prev, u.head, r) /\ ToSet(r) = S \ {e}
    <3>1. Shortened(u.next, u.prev, t.next, t.head, s, i)
      BY <1>4, <2>5, LinkTaken
    <3> QED BY <1>7, <1>8, <2>6, <3>1 DEF Shortened
  <2>8. Len(r) # 0
    BY <1>5, <1>9, <1>11
  <2>9. u.tail = r[Len(r)]
    <3>1. Len(r) \in 1..(Len(s) - 1) /\ Len(s) \in 1..Len(s)
      BY <1>5, <1>9, <2>8
    <3>2. CASE i = Len(s)
      <4>1. t.tail = e /\ u.tail = s[i - 1]
        BY <1>4, <1>5, <1>9, <2>5, <2>8, <3>2
      <4>2. Len(r) < i /\ Len(r) = i - 1
        BY <1>5, <1>9, <3>2
      <4>3. r[Len(r)] = s[Len(r)]
        BY <1>9, <3>1, <4>2
      <4> QED BY <4>1, <4>2, <4>3
    <3>3. CASE i # Len(s)
      <4>1. t.tail # e
        BY <1>4, <1>6, <3>1, <3>3
      <4>2. ~(Len(r) < i) /\ Len(r) + 1 = Len(s)
        BY <1>5, <1>9, <3>3
      <4>3. r[Len(r)] = s[Len(r) + 1]
        BY <1>9, <3>1, <4>2
      <4> QED BY <1>4, <2>5, <4>1, <4>2, <4>3
    <3> QED BY <3>2, <3>3
  <2>10. Ordered(u, r)
    BY <1>4, <1>9, <2>5, <2>7, <2>8, <2>9 DEF Ordered
  <2>11. \A x \in S \ {e} : u.key[x] = t.key[x]
    BY <1>3, <2>5 DEF Table
  <2>12. Keyed(u, S \ {e})
    BY <1>2, <1>7, <2>11 DEF Keyed
  <2>13. \E d : InChains(u, n, d, S \ {e})
    <3>1. InChains(t, n, c, S) /\ e \in S
      BY <1>2, <1>5, <1>7
    <3> QED BY <1>3, <2>1, <2>4, <3>1, ChainsTaken
  <2>14. \E d : WellMade(u, n, r, d)
    BY <2>7, <2>10, <2>12, <2>13 DEF WellMade
  <2> QED BY <1>7, <1>8, <2>7, <2>11, <2>14 DEF Sound
<1> QED BY <1>10, <1>11

-----------------------------------------------------------------------------
(* What HASH_FSCK tests holds of a right table.                            *)

LEMMA BucketsCount ==
  ASSUME NEW n \in Nat \ {0}, NEW t \in Table(n), NEW S \in SUBSET Elem, NEW c,
         Chains(t, S, c), \A x \in S : t.key[x] \in Ptr
  PROVE  Counted(t) = Cardinality(S)
<1> DEFINE A(f) == [k \in 0..t.num_buckets |->
                      IF k = 0 THEN 0 ELSE f[k - 1] + t.buckets[k - 1].count]
           sum == CHOOSE f : f = A(f)
<1>1. Counted(t) = sum[t.num_buckets]
  BY DEF Counted
<1>2. t.num_buckets = n /\ t.buckets \in [0..(n - 1) -> Bucket] /\ n \in Nat
  BY DEF Table
<1>3. \A k \in 1..n : k - 1 \in 0..(n - 1) /\ t.buckets[k - 1].count \in Nat
  BY <1>2 DEF Bucket
<1>4. sum = A(sum)
  <2>1. \E f : f = A(f)
    <3> DEFINE G == [k \in 1..n |-> [x \in Nat |-> x + t.buckets[k - 1].count]]
    <3>1. G \in [1..n -> [Nat -> Nat]]
      BY <1>3
    <3>2. \A k \in 1..n : \A x \in Nat : G[k][x] = x + t.buckets[k - 1].count
      OBVIOUS
    <3> HIDE DEF G
    <3>3. PICK F : Computes(F, Nat, n, 0, G)
      BY <1>2, <3>1, StepsExist
    <3>4. F \in [0..n -> Nat] /\ F[0] = 0
      BY <3>3 DEF Computes
    <3>5. ASSUME NEW k \in 1..n PROVE F[k] = F[k - 1] + t.buckets[k - 1].count
      <4>1. F[k - 1] \in Nat
        BY <3>4
      <4>2. F[k] = G[k][F[k - 1]]
        BY <3>3 DEF Computes
      <4> QED BY <3>2, <4>1, <4>2
    <3>6. F = A(F)
      <4>1. ASSUME NEW k \in 0..n
            PROVE  F[k] = IF k = 0 THEN 0 ELSE F[k - 1] + t.buckets[k - 1].count
        BY <3>4, <3>5
      <4>2. A(F) = [k \in 0..n |-> IF k = 0 THEN 0 ELSE F[k - 1] + t.buckets[k - 1].count]
        BY <1>2
      <4> HIDE DEF A
      <4> QED BY <3>4, <4>1, <4>2
    <3> HIDE DEF A
    <3> QED BY <3>6
  <2> HIDE DEF A
  <2> QED BY <2>1
<1> HIDE DEF sum
<1>5. /\ sum[0] = 0
      /\ \A k \in 1..n : sum[k] = sum[k - 1] + t.buckets[k - 1].count
  <2>1. A(sum) = [k \in 0..n |-> IF k = 0 THEN 0 ELSE sum[k - 1] + t.buckets[k - 1].count]
    BY <1>2
  <2> HIDE DEF A
  <2>2. \A k \in 0..n : sum[k] = IF k = 0 THEN 0 ELSE sum[k - 1] + t.buckets[k - 1].count
    BY <1>4, <2>1
  <2>3. 0 \in 0..n /\ \A k \in 1..n : k \in 0..n /\ k # 0
    BY <1>2
  <2> QED BY <2>2, <2>3
<1> HIDE DEF A
<1> DEFINE W(k) == {x \in S : Place(t, x) < k}
           Right(k) == IsFiniteSet(W(k)) /\ sum[k] = Cardinality(W(k))
           Bad == {k \in 0..n : ~Right(k)}
<1>6. \A x \in S : Place(t, x) \in 0..(n - 1)
  BY <1>2, BucketNumber DEF Place
<1>7. Right(0)
  <2>1. W(0) = {}
    BY <1>6
  <2> QED BY <1>5, <2>1, FS_EmptySet
<1>8. ASSUME NEW k \in 1..n, Right(k - 1) PROVE Right(k)
  <2>1. PICK b \in 0..(n - 1) : b = k - 1
    BY <1>3
  <2>2. PICK q : q = c[b]
    OBVIOUS
  <2>3. /\ Linked(t.hh_next, t.hh_prev, t.buckets[b].hh_head, q)
        /\ Len(q) = t.buckets[b].count /\ ToSet(q) = {x \in S : Place(t, x) = b}
    BY <1>2, <2>1, <2>2 DEF Chains
  <2>4. IsFiniteSet(ToSet(q)) /\ Cardinality(ToSet(q)) = Len(q)
    BY <2>3, LenCardinality DEF Linked
  <2>5. W(k) = W(k - 1) \cup ToSet(q)
    BY <1>2, <1>6, <2>1, <2>3
  <2>6. W(k - 1) \cap ToSet(q) = {}
    BY <1>6, <2>1, <2>3
  <2>7. PICK V : V = W(k - 1)
    OBVIOUS
  <2>8. IsFiniteSet(V) /\ sum[k - 1] = Cardinality(V) /\ Cardinality(V) \in Nat
    BY <1>8, <2>7, FS_CardinalityType
  <2> HIDE DEF W
  <2>9. /\ IsFiniteSet(V \cup ToSet(q))
        /\ Cardinality(V \cup ToSet(q)) = Cardinality(V) + Cardinality(ToSet(q)) - Cardinality({})
    <3>1. V \cap ToSet(q) = {}
      BY <2>6, <2>7
    <3> QED BY <2>4, <2>8, <3>1, FS_Union
  <2>10. sum[k] = Cardinality(V) + Len(q)
    BY <1>5, <2>1, <2>3, <2>8
  <2>11. Cardinality({}) = 0
    BY FS_EmptySet
  <2>12. Len(q) \in Nat
    BY <2>3, SeqElements DEF Linked
  <2>13. Cardinality(W(k)) = sum[k] /\ IsFiniteSet(W(k))
    BY <2>4, <2>5, <2>7, <2>8, <2>9, <2>10, <2>11, <2>12
  <2> QED BY <2>13
<1>9. Right(n)
  <2>1. Bad = {}
    <3> SUFFICES ASSUME Bad # {} PROVE FALSE
      OBVIOUS
    <3>1. PICK k : k \in Bad /\ \A y \in Bad : k <= y
      <4>1. Bad \subseteq Nat
        OBVIOUS
      <4> HIDE DEF Bad
      <4> QED BY <4>1, SmallestNat
    <3> HIDE DEF Right
    <3>2. k \in 0..n /\ ~Right(k)
      BY <3>1
    <3>3. k # 0
      BY <1>7, <3>2
    <3>4. k \in 1..n /\ k - 1 \in 0..n /\ ~(k <= k - 1)
      BY <1>2, <3>2, <3>3
    <3>5. Right(k - 1)
      BY <3>1, <3>4
    <3> QED BY <1>8, <3>2, <3>4, <3>5
  <2>2. n \in 0..n
    BY <1>2
  <2> HIDE DEF Right
  <2> QED BY <2>1, <2>2
<1>10. W(n) = S
  BY <1>2, <1>6
<1> QED BY <1>1, <1>2, <1>9, <1>10

LEMMA Checked ==
  ASSUME NEW t, NEW s, Sound(t, s)
  PROVE  HASH_FSCK(t)
<1>1. CASE s = <<>>
  <2>1. t.head = NULL
    BY <1>1, InOrder
  <2> QED BY <2>1 DEF HASH_FSCK
<1>2. CASE s # <<>>
  <2>1. PICK n, c : WellMade(t, n, s, c)
    BY <1>2 DEF Sound
  <2>2. Ordered(t, s) /\ Keyed(t, ToSet(s)) /\ InChains(t, n, c, ToSet(s))
    BY <2>1 DEF WellMade
  <2>3. /\ n \in Nat \ {0} /\ t \in Table(n) /\ Chains(t, ToSet(s), c)
    BY <2>2 DEF InChains
  <2>4. /\ Linked(t.next, t.prev, t.head, s) /\ Len(s) # 0
        /\ t.tail = s[Len(s)] /\ t.num_items = Len(s)
    BY <2>2 DEF Ordered
  <2>5. AppOrder(t) = s
    BY InOrder
  <2>6. t.num_buckets = n /\ DOMAIN t.buckets = 0..(n - 1)
    BY <2>3 DEF Table
  <2>7. ASSUME NEW b \in 0..(n - 1)
        PROVE  /\ LinkedBothWays(t.hh_next, t.hh_prev, Chain(t, b))
               /\ Len(Chain(t, b)) = t.buckets[b].count
    <3>1. PICK q : q = c[b]
      OBVIOUS
    <3>2. Linked(t.hh_next, t.hh_prev, t.buckets[b].hh_head, q) /\ Len(q) = t.buckets[b].count
      BY <2>3, <2>6, <3>1 DEF Chains
    <3>3. Chain(t, b) = q
      BY <3>2, FollowList DEF Chain
    <3>4. DOMAIN q = 1..Len(q)
      BY <3>2, SeqElements DEF Linked
    <3> QED BY <3>2, <3>3, <3>4 DEF LinkedBothWays, Linked
  <2>8. LinkedBothWays(t.next, t.prev, s) /\ Last(s) = s[Len(s)]
    <3>1. DOMAIN s = 1..Len(s)
      BY <2>4, SeqElements DEF Linked
    <3>2. \A i \in 1..Len(s) : t.prev[s[i]] = IF i = 1 THEN NULL ELSE s[i - 1]
      BY <2>4 DEF Linked
    <3> QED BY <3>1, <3>2 DEF LinkedBothWays, Last
  <2>9. Counted(t) = t.num_items
    <3>1. ToSet(s) \in SUBSET Elem /\ Cardinality(ToSet(s)) = Len(s)
      BY <2>4, SeqElements, LenBound DEF Linked
    <3>2. PICK S \in SUBSET Elem : S = ToSet(s)
      BY <3>1
    <3>3. Chains(t, S, c) /\ \A x \in S : t.key[x] \in Ptr
      BY <2>2, <2>3, <3>2 DEF Keyed
    <3>4. Counted(t) = Cardinality(S)
      BY <2>3, <3>3, BucketsCount
    <3> QED BY <2>4, <3>1, <3>2, <3>4
  <2> QED BY <2>4, <2>5, <2>6, <2>7, <2>8, <2>9 DEF HASH_FSCK
<1> QED BY <1>1, <1>2

-----------------------------------------------------------------------------
(* The invariant: the table is right, what its keys point to is there and  *)
(* never the same twice.                                                   *)

HashInv(t, at, val) ==
  /\ \E s : Sound(t, s)
  /\ at \in [Ptr -> Key \cup {None}] /\ val \in [Elem -> Value \cup {None}]
  /\ \A e \in InTable(t) : at[t.key[e]] \in Key /\ val[e] \in Value
  /\ \A d, e \in InTable(t) : d # e => at[t.key[d]] # at[t.key[e]]

Inv == HashInv(hTab, keyAt, valueOf) /\ response \in Response \cup {None}

\* The table as sets: its elements, and what a search or an addition does to them.
LEMMA Elements ==
  ASSUME NEW t, \E s : Sound(t, s)
  PROVE  /\ InTable(t) \subseteq Elem /\ Keyed(t, InTable(t))
         /\ \A p \in Ptr : LET e == HASH_FIND_PTR(t, p) IN
              IF \E x \in InTable(t) : t.key[x] = p THEN e \in InTable(t) /\ t.key[e] = p
                                                    ELSE e = NULL
<1>1. PICK s : Sound(t, s)
  OBVIOUS
<1>2. s \in Seq(Elem) /\ InTable(t) = ToSet(s) /\ Keyed(t, ToSet(s))
  BY <1>1, InOrder
<1>3. InTable(t) \subseteq Elem
  BY <1>2, SeqElements
<1>4. ASSUME NEW p \in Ptr
      PROVE  LET e == HASH_FIND_PTR(t, p) IN
             IF \E x \in InTable(t) : t.key[x] = p THEN e \in InTable(t) /\ t.key[e] = p
                                                   ELSE e = NULL
  <2>1. LET e == HASH_FIND_PTR(t, p) IN
        IF \E x \in ToSet(s) : t.key[x] = p THEN e \in ToSet(s) /\ t.key[e] = p
                                            ELSE e = NULL
    BY <1>1, Found
  <2> QED BY <1>2, <2>1
<1> QED BY <1>2, <1>3, <1>4

LEMMA Adding ==
  ASSUME NEW t, \E s : Sound(t, s), NEW e \in Elem, e \notin InTable(t),
         NEW p \in Ptr, \A x \in InTable(t) : t.key[x] # p,
         NEW u, u = HASH_ADD_PTR(t, e, p)
  PROVE  /\ \E s : Sound(u, s)
         /\ InTable(u) = InTable(t) \cup {e} /\ u.key[e] = p
         /\ \A x \in InTable(t) : u.key[x] = t.key[x]
<1>1. PICK s : Sound(t, s)
  OBVIOUS
<1>2. InTable(t) = ToSet(s)
  BY <1>1, InOrder
<1>3. PICK S : S = ToSet(s)
  OBVIOUS
<1>4. PICK r : r = Append(s, e)
  OBVIOUS
<1>5. /\ Sound(u, r) /\ ToSet(r) = S \cup {e}
      /\ u.key[e] = p /\ \A x \in S : u.key[x] = t.key[x]
  BY <1>1, <1>2, <1>3, <1>4, TableAdd
<1>6. InTable(u) = ToSet(r)
  BY <1>5, InOrder
<1> QED BY <1>2, <1>3, <1>5, <1>6

LEMMA Deleting ==
  ASSUME NEW t, \E s : Sound(t, s), NEW e \in InTable(t), NEW u, u = HASH_DEL(t, e)
  PROVE  /\ \E s : Sound(u, s)
         /\ InTable(u) = InTable(t) \ {e}
         /\ \A x \in InTable(u) : u.key[x] = t.key[x]
<1>1. PICK s : Sound(t, s)
  OBVIOUS
<1>2. InTable(t) = ToSet(s) /\ s \in Seq(Elem)
  BY <1>1, InOrder
<1>3. PICK i \in 1..Len(s) : s[i] = e
  BY <1>2, SeqElements
<1>4. PICK S : S = ToSet(s)
  OBVIOUS
<1>5. PICK r : r = RemoveAt(s, i)
  OBVIOUS
<1>6. /\ Sound(u, r) /\ ToSet(r) = S \ {e} /\ \A x \in S \ {e} : u.key[x] = t.key[x]
  BY <1>1, <1>3, <1>4, <1>5, TableDel
<1>7. InTable(u) = ToSet(r)
  BY <1>6, InOrder
<1> QED BY <1>2, <1>4, <1>6, <1>7

\* The element set works on: the one p finds, or a fresh one.
Chosen(t, e, p) ==
  /\ p \in Ptr
  /\ e \in IF HASH_FIND_PTR(t, p) = NULL THEN Elem \ InTable(t) ELSE {HASH_FIND_PTR(t, p)}

LEMMA Setting ==
  ASSUME NEW t, \E s : Sound(t, s), NEW e, NEW p, Chosen(t, e, p), NEW u, u = setAt(t, e, p)
  PROVE  /\ e \in Elem /\ \E s : Sound(u, s)
         /\ InTable(u) = InTable(t) \cup {e} /\ u.key[e] = p
         /\ \A x \in InTable(t) : x # e => u.key[x] = t.key[x] /\ t.key[x] # p
<1>1. /\ InTable(t) \subseteq Elem /\ Keyed(t, InTable(t)) /\ p \in Ptr
      /\ LET f == HASH_FIND_PTR(t, p) IN
         IF \E x \in InTable(t) : t.key[x] = p THEN f \in InTable(t) /\ t.key[f] = p
                                               ELSE f = NULL
  BY Elements DEF Chosen
<1>2. NULL \notin Elem
  BY NotNull
<1>3. CASE HASH_FIND_PTR(t, p) = NULL
  <2>1. \A x \in InTable(t) : t.key[x] # p
    BY <1>1, <1>2, <1>3
  <2>2. e \in Elem /\ e \notin InTable(t) /\ u = HASH_ADD_PTR(t, e, p)
    BY <1>3 DEF Chosen, setAt
  <2>3. /\ \E s : Sound(u, s)
        /\ InTable(u) = InTable(t) \cup {e} /\ u.key[e] = p
        /\ \A x \in InTable(t) : u.key[x] = t.key[x]
    BY <1>1, <2>1, <2>2, Adding
  <2> QED BY <2>1, <2>2, <2>3
<1>4. CASE HASH_FIND_PTR(t, p) # NULL
  <2>1. e = HASH_FIND_PTR(t, p) /\ e \in InTable(t) /\ t.key[e] = p
    BY <1>1, <1>4 DEF Chosen
  <2>2. PICK w : w = HASH_DEL(t, e)
    OBVIOUS
  <2>3. u = HASH_ADD_PTR(w, e, p)
    BY <1>4, <2>2 DEF setAt
  <2>4. /\ \E s : Sound(w, s)
        /\ InTable(w) = InTable(t) \ {e}
        /\ \A x \in InTable(w) : w.key[x] = t.key[x]
    BY <2>1, <2>2, Deleting
  <2>5. \A x \in InTable(t) : x # e => t.key[x] # p
    BY <1>1, <2>1 DEF Keyed
  <2>6. e \in Elem /\ e \notin InTable(w) /\ \A x \in InTable(w) : w.key[x] # p
    BY <1>1, <2>1, <2>4, <2>5
  <2>7. /\ \E s : Sound(u, s)
        /\ InTable(u) = InTable(w) \cup {e} /\ u.key[e] = p
        /\ \A x \in InTable(w) : u.key[x] = w.key[x]
    BY <1>1, <2>3, <2>4, <2>6, Adding
  <2>8. InTable(u) = InTable(t) \cup {e}
    BY <2>1, <2>4, <2>7
  <2>9. \A x \in InTable(t) : x # e => u.key[x] = t.key[x]
    BY <2>4, <2>7
  <2> QED BY <2>5, <2>6, <2>7, <2>8, <2>9
<1> QED BY <1>3, <1>4

\* What a reader of the bytes k is given.
StoredIn(t, at, val, k) ==
  LET found == {e \in InTable(t) : at[t.key[e]] = k /\ HASH_FIND_PTR(t, t.key[e]) = e}
  IN IF found = {} THEN None ELSE val[CHOOSE e \in found : TRUE]

LEMMA StoredIs ==
  ASSUME NEW t, NEW at, NEW val, HashInv(t, at, val), NEW k
  PROVE  \A e \in InTable(t) : at[t.key[e]] = k => StoredIn(t, at, val, k) = val[e]
<1> DEFINE found == {e \in InTable(t) : at[t.key[e]] = k /\ HASH_FIND_PTR(t, t.key[e]) = e}
<1>1. /\ \E s : Sound(t, s)
      /\ \A d, e \in InTable(t) : d # e => at[t.key[d]] # at[t.key[e]]
  BY DEF HashInv
<1>2. StoredIn(t, at, val, k) = IF found = {} THEN None ELSE val[CHOOSE e \in found : TRUE]
  BY DEF StoredIn
<1>3. ASSUME NEW e \in InTable(t), at[t.key[e]] = k PROVE StoredIn(t, at, val, k) = val[e]
  <2>1. HASH_FIND_PTR(t, t.key[e]) = e
    <3>1. /\ Keyed(t, InTable(t))
          /\ \A p \in Ptr : LET f == HASH_FIND_PTR(t, p) IN
               IF \E x \in InTable(t) : t.key[x] = p THEN f \in InTable(t) /\ t.key[f] = p
                                                     ELSE f = NULL
      BY <1>1, Elements
    <3>2. t.key[e] \in Ptr
      BY <3>1 DEF Keyed
    <3>3. LET f == HASH_FIND_PTR(t, t.key[e]) IN f \in InTable(t) /\ t.key[f] = t.key[e]
      BY <3>1, <3>2
    <3> QED BY <3>1, <3>3 DEF Keyed
  <2>2. e \in found
    BY <1>3, <2>1
  <2>3. \A d \in found : d = e
    BY <1>1, <1>3
  <2> HIDE DEF found
  <2>4. (CHOOSE d \in found : TRUE) = e
    BY <2>2, <2>3
  <2> QED BY <1>2, <2>2, <2>4
<1> QED BY <1>3

LEMMA StoredNot ==
  ASSUME NEW t, NEW at, NEW val, NEW k, \A e \in InTable(t) : at[t.key[e]] # k
  PROVE  StoredIn(t, at, val, k) = None
BY DEF StoredIn

\* After Keep, the keys and values of what is in the table are those given.
KeptAt(t, at) == [p \in Ptr |-> IF \E e \in InTable(t) : t.key[e] = p THEN at[p] ELSE None]
KeptVal(t, val) == [e \in Elem |-> IF e \in InTable(t) THEN val[e] ELSE None]

\* From t, at and val to u, at2 and val2, only what is stored at k becomes v.
Becomes(t, at, val, u, at2, val2, k, v) ==
  /\ HashInv(u, at2, val2)
  /\ \A j : StoredIn(u, at2, val2, j) = IF j = k THEN v ELSE StoredIn(t, at, val, j)

\* The address p of k: in use with these bytes, or not in use at all.
AddressOf(t, at, k, p) ==
  /\ p \in Ptr
  /\ \/ at[p] = k /\ \E x \in InTable(t) : t.key[x] = p
     \/ \A x \in InTable(t) : t.key[x] # p /\ at[t.key[x]] # k

\* at2 and val2 agree with at and val on what is in u.
KeptOf(u, at, val, at2, val2) ==
  /\ at2 \in [Ptr -> Key \cup {None}] /\ val2 \in [Elem -> Value \cup {None}]
  /\ \A x \in InTable(u) : at2[u.key[x]] = at[u.key[x]] /\ val2[x] = val[x]

LEMMA KeptTyped ==
  ASSUME NEW u, \E s : Sound(u, s),
         NEW at, at \in [Ptr -> Key \cup {None}], NEW val, val \in [Elem -> Value \cup {None}],
         NEW at2, at2 = KeptAt(u, at), NEW val2, val2 = KeptVal(u, val)
  PROVE  KeptOf(u, at, val, at2, val2)
<1>1. InTable(u) \subseteq Elem /\ \A x \in InTable(u) : u.key[x] \in Ptr
  BY Elements DEF Keyed
<1>2. at2 \in [Ptr -> Key \cup {None}]
  BY DEF KeptAt
<1>3. val2 \in [Elem -> Value \cup {None}]
  BY DEF KeptVal
<1>4. ASSUME NEW x \in InTable(u) PROVE at2[u.key[x]] = at[u.key[x]] /\ val2[x] = val[x]
  <2>1. at2[u.key[x]] = at[u.key[x]]
    BY <1>1 DEF KeptAt
  <2>2. val2[x] = val[x]
    BY <1>1 DEF KeptVal
  <2> QED BY <2>1, <2>2
<1> QED BY <1>2, <1>3, <1>4 DEF KeptOf

LEMMA SetEffect ==
  ASSUME NEW t, NEW at, NEW val, HashInv(t, at, val), NEW k \in Key, NEW v \in Value,
         NEW p, AddressOf(t, at, k, p), NEW e, Chosen(t, e, p),
         NEW u, u = setAt(t, e, p), NEW at1, at1 = [at EXCEPT ![p] = k],
         NEW val1, val1 = [val EXCEPT ![e] = v],
         NEW at2, at2 = KeptAt(u, at1), NEW val2, val2 = KeptVal(u, val1)
  PROVE  Becomes(t, at, val, u, at2, val2, k, v)
<1>1. /\ \E s : Sound(t, s)
      /\ at \in [Ptr -> Key \cup {None}] /\ val \in [Elem -> Value \cup {None}]
      /\ \A x \in InTable(t) : at[t.key[x]] \in Key /\ val[x] \in Value
      /\ \A d, x \in InTable(t) : d # x => at[t.key[d]] # at[t.key[x]]
  BY DEF HashInv
<1>2. /\ e \in Elem /\ \E s : Sound(u, s)
      /\ InTable(u) = InTable(t) \cup {e} /\ u.key[e] = p
      /\ \A x \in InTable(t) : x # e => u.key[x] = t.key[x] /\ t.key[x] # p
  BY <1>1, Setting
<1>3. /\ InTable(t) \subseteq Elem /\ \A x \in InTable(t) : t.key[x] \in Ptr
  BY <1>1, Elements DEF Keyed
<1>4. p \in Ptr
  BY DEF AddressOf
<1>5. at1 \in [Ptr -> Key \cup {None}] /\ val1 \in [Elem -> Value \cup {None}]
  BY <1>1, <1>2, <1>4
<1>6. /\ at2 \in [Ptr -> Key \cup {None}] /\ val2 \in [Elem -> Value \cup {None}]
      /\ \A x \in InTable(u) : at2[u.key[x]] = at1[u.key[x]] /\ val2[x] = val1[x]
  <2>1. KeptOf(u, at1, val1, at2, val2)
    BY <1>2, <1>5, KeptTyped
  <2> QED BY <2>1 DEF KeptOf
<1>7. at2[u.key[e]] = k /\ val2[e] = v
  <2>1. e \in InTable(u)
    BY <1>2
  <2>2. at1[p] = k /\ val1[e] = v
    BY <1>1, <1>2, <1>4
  <2> QED BY <1>2, <1>6, <2>1, <2>2
<1>8. ASSUME NEW x \in InTable(t), x # e
      PROVE  x \in InTable(u) /\ at2[u.key[x]] = at[t.key[x]] /\ val2[x] = val[x]
  <2>1. x \in InTable(u) /\ u.key[x] = t.key[x] /\ t.key[x] # p
    BY <1>2, <1>8
  <2>2. at2[u.key[x]] = at1[u.key[x]] /\ val2[x] = val1[x]
    BY <1>6, <2>1
  <2>3. t.key[x] \in Ptr /\ x \in Elem
    BY <1>3
  <2>4. at1[t.key[x]] = at[t.key[x]]
    BY <1>1, <2>1, <2>3
  <2>5. val1[x] = val[x]
    BY <1>1, <1>8, <2>3
  <2> QED BY <2>1, <2>2, <2>4, <2>5
<1>9. \A x \in InTable(t) : x # e => at[t.key[x]] # k
  <2>1. CASE at[p] = k /\ \E x \in InTable(t) : t.key[x] = p
    BY <1>1, <1>2, <2>1
  <2>2. CASE \A x \in InTable(t) : at[t.key[x]] # k
    BY <2>2
  <2> QED BY <2>1, <2>2 DEF AddressOf
<1>10. HashInv(u, at2, val2)
  <2>1. ASSUME NEW x \in InTable(u) PROVE at2[u.key[x]] \in Key /\ val2[x] \in Value
    <3>1. CASE x = e
      BY <1>7, <3>1
    <3>2. CASE x # e
      <4>1. x \in InTable(t)
        BY <1>2, <3>2
      <4> QED BY <1>1, <1>8, <3>2, <4>1
    <3> QED BY <3>1, <3>2
  <2>2. ASSUME NEW x \in InTable(u), x # e PROVE at2[u.key[x]] # k
    <3>1. x \in InTable(t)
      BY <1>2, <2>2
    <3>2. at2[u.key[x]] = at[t.key[x]]
      BY <1>8, <2>2, <3>1
    <3> QED BY <1>9, <2>2, <3>1, <3>2
  <2>3. ASSUME NEW d \in InTable(u), NEW x \in InTable(u), d # x, d # e, x # e
        PROVE  at2[u.key[d]] # at2[u.key[x]]
    <3>1. d \in InTable(t) /\ x \in InTable(t)
      BY <1>2, <2>3
    <3>2. at2[u.key[d]] = at[t.key[d]] /\ at2[u.key[x]] = at[t.key[x]]
      BY <1>8, <2>3, <3>1
    <3> QED BY <1>1, <2>3, <3>1, <3>2
  <2>4. ASSUME NEW d \in InTable(u), NEW x \in InTable(u), d # x
        PROVE  at2[u.key[d]] # at2[u.key[x]]
    <3>1. CASE d = e
      BY <1>7, <2>2, <2>4, <3>1
    <3>2. CASE x = e
      BY <1>7, <2>2, <2>4, <3>2
    <3> QED BY <2>3, <2>4, <3>1, <3>2
  <2> QED BY <1>2, <1>6, <2>1, <2>4 DEF HashInv
<1>11. ASSUME NEW j
       PROVE  StoredIn(u, at2, val2, j) = IF j = k THEN v ELSE StoredIn(t, at, val, j)
  <2>1. CASE j = k
    <3>1. e \in InTable(u) /\ at2[u.key[e]] = j
      BY <1>2, <1>7, <2>1
    <3>2. StoredIn(u, at2, val2, j) = val2[e]
      BY <1>10, <3>1, StoredIs
    <3> QED BY <1>7, <2>1, <3>2
  <2>2. CASE j # k /\ \E x \in InTable(t) : at[t.key[x]] = j
    <3>1. PICK x \in InTable(t) : at[t.key[x]] = j
      BY <2>2
    <3>2. x # e
      <4>1. ASSUME x = e PROVE FALSE
        <5>1. CASE at[p] = k /\ \E y \in InTable(t) : t.key[y] = p
          <6>1. PICK y \in InTable(t) : t.key[y] = p
            BY <5>1
          <6>2. y = e
            BY <1>2, <6>1
          <6> QED BY <2>2, <3>1, <4>1, <5>1, <6>1, <6>2
        <5>2. CASE \A y \in InTable(t) : t.key[y] # p /\ at[t.key[y]] # k
          <6>1. HASH_FIND_PTR(t, p) = NULL
            BY <1>1, <1>4, <5>2, Elements
          <6>2. e \notin InTable(t)
            BY <6>1 DEF Chosen
          <6> QED BY <3>1, <4>1, <6>2
        <5> QED BY <5>1, <5>2 DEF AddressOf
      <4> QED BY <4>1
    <3>3. x \in InTable(u) /\ at2[u.key[x]] = j /\ val2[x] = val[x]
      BY <1>2, <1>8, <3>1, <3>2
    <3>4. StoredIn(u, at2, val2, j) = val2[x]
      BY <1>10, <3>3, StoredIs
    <3>5. StoredIn(t, at, val, j) = val[x]
      BY <3>1, StoredIs
    <3> QED BY <2>2, <3>3, <3>4, <3>5
  <2>3. CASE j # k /\ \A x \in InTable(t) : at[t.key[x]] # j
    <3>1. ASSUME NEW x \in InTable(u) PROVE at2[u.key[x]] # j
      <4>1. CASE x = e
        BY <1>7, <2>3, <4>1
      <4>2. CASE x # e
        <5>1. x \in InTable(t)
          BY <1>2, <4>2
        <5> QED BY <1>8, <2>3, <4>2, <5>1
      <4> QED BY <4>1, <4>2
    <3>2. StoredIn(u, at2, val2, j) = None
      BY <3>1, StoredNot
    <3>3. StoredIn(t, at, val, j) = None
      BY <2>3, StoredNot
    <3> QED BY <2>3, <3>2, <3>3
  <2> QED BY <2>1, <2>2, <2>3
<1> QED BY <1>10, <1>11 DEF Becomes

LEMMA DelEffect ==
  ASSUME NEW t, NEW at, NEW val, HashInv(t, at, val), NEW k \in Key,
         NEW p, AddressOf(t, at, k, p), NEW e, e = HASH_FIND_PTR(t, p),
         NEW u, u = IF e = NULL THEN t ELSE HASH_DEL(t, e),
         NEW at2, at2 = KeptAt(u, at), NEW val2, val2 = KeptVal(u, val)
  PROVE  Becomes(t, at, val, u, at2, val2, k, None)
<1>1. /\ \E s : Sound(t, s)
      /\ at \in [Ptr -> Key \cup {None}] /\ val \in [Elem -> Value \cup {None}]
      /\ \A x \in InTable(t) : at[t.key[x]] \in Key /\ val[x] \in Value
      /\ \A d, x \in InTable(t) : d # x => at[t.key[d]] # at[t.key[x]]
  BY DEF HashInv
<1>2. p \in Ptr
  BY DEF AddressOf
<1>3. /\ IF \E x \in InTable(t) : t.key[x] = p THEN e \in InTable(t) /\ t.key[e] = p ELSE e = NULL
      /\ InTable(t) \subseteq Elem
  BY <1>1, <1>2, Elements
<1>4. /\ \E s : Sound(u, s)
      /\ InTable(u) = InTable(t) \ {e}
      /\ \A x \in InTable(u) : u.key[x] = t.key[x]
  <2>1. CASE e = NULL
    <3>1. u = t /\ e \notin InTable(t)
      BY <1>3, <2>1, NotNull
    <3> QED BY <1>1, <3>1
  <2>2. CASE e # NULL
    <3>1. e \in InTable(t) /\ u = HASH_DEL(t, e)
      BY <1>3, <2>2
    <3> QED BY <1>1, <3>1, Deleting
  <2> QED BY <2>1, <2>2
<1>5. \A x \in InTable(u) : x \in InTable(t) /\ at[t.key[x]] # k
  <2>1. CASE at[p] = k /\ \E x \in InTable(t) : t.key[x] = p
    <3>1. e \in InTable(t) /\ at[t.key[e]] = k
      BY <1>3, <2>1
    <3> QED BY <1>1, <1>4, <3>1
  <2>2. CASE \A x \in InTable(t) : t.key[x] # p /\ at[t.key[x]] # k
    BY <1>4, <2>2
  <2> QED BY <2>1, <2>2 DEF AddressOf
<1>6. KeptOf(u, at, val, at2, val2)
  BY <1>1, <1>4, KeptTyped
<1>7. /\ at2 \in [Ptr -> Key \cup {None}] /\ val2 \in [Elem -> Value \cup {None}]
      /\ \A x \in InTable(u) : at2[u.key[x]] = at[u.key[x]] /\ val2[x] = val[x]
  BY <1>6 DEF KeptOf
<1>8. \A x \in InTable(u) : at2[u.key[x]] = at[t.key[x]]
  BY <1>4, <1>7
<1>9. HashInv(u, at2, val2)
  <2>1. \A x \in InTable(u) : at2[u.key[x]] \in Key /\ val2[x] \in Value
    BY <1>1, <1>5, <1>7, <1>8
  <2>2. ASSUME NEW d \in InTable(u), NEW x \in InTable(u), d # x
        PROVE  at2[u.key[d]] # at2[u.key[x]]
    <3>1. d \in InTable(t) /\ x \in InTable(t)
      BY <1>5
    <3>2. at2[u.key[d]] = at[t.key[d]] /\ at2[u.key[x]] = at[t.key[x]]
      BY <1>8
    <3> QED BY <1>1, <2>2, <3>1, <3>2
  <2> QED BY <1>4, <1>7, <2>1, <2>2 DEF HashInv
<1>10. ASSUME NEW j
       PROVE  StoredIn(u, at2, val2, j) = IF j = k THEN None ELSE StoredIn(t, at, val, j)
  <2>1. CASE \E x \in InTable(u) : at[t.key[x]] = j
    <3>1. PICK x \in InTable(u) : at[t.key[x]] = j
      BY <2>1
    <3>2. x \in InTable(t) /\ j # k
      BY <1>5, <3>1
    <3>3. at2[u.key[x]] = j /\ val2[x] = val[x]
      BY <1>7, <1>8, <3>1
    <3>4. StoredIn(u, at2, val2, j) = val2[x]
      BY <1>9, <3>3, StoredIs
    <3>5. StoredIn(t, at, val, j) = val[x]
      BY <3>1, <3>2, StoredIs
    <3> QED BY <3>2, <3>3, <3>4, <3>5
  <2>2. CASE \A x \in InTable(u) : at[t.key[x]] # j
    <3>1. \A x \in InTable(u) : at2[u.key[x]] # j
      BY <1>8, <2>2
    <3>2. StoredIn(u, at2, val2, j) = None
      BY <3>1, StoredNot
    <3>3. CASE j # k
      <4>1. ASSUME NEW x \in InTable(t) PROVE at[t.key[x]] # j
        <5>1. CASE x = e
          <6>1. e \in InTable(t) /\ e # NULL
            BY <1>3, <5>1, NotNull
          <6>2. t.key[e] = p /\ \E y \in InTable(t) : t.key[y] = p
            BY <1>3, <6>1
          <6>3. at[p] = k
            BY <6>2 DEF AddressOf
          <6> QED BY <3>3, <5>1, <6>2, <6>3
        <5>2. CASE x # e
          BY <1>4, <2>2, <5>2
        <5> QED BY <5>1, <5>2
      <4>2. StoredIn(t, at, val, j) = None
        BY <4>1, StoredNot
      <4> QED BY <3>2, <3>3, <4>2
    <3> QED BY <3>2, <3>3
  <2> QED BY <2>1, <2>2
<1> QED BY <1>9, <1>10 DEF Becomes

-----------------------------------------------------------------------------
(* The steps.                                                              *)

\* keyProcessing finds an address that is right for the bytes k.
LEMMA Address ==
  ASSUME Inv, NEW k \in Key, NEW p, p \in keyProcessing(k)
  PROVE  AddressOf(hTab, keyAt, k, p)
<1>1. PICK t : t = hTab
  OBVIOUS
<1>2. PICK at : at = keyAt
  OBVIOUS
<1>3. PICK s : Sound(t, s)
  BY <1>1 DEF Inv, HashInv
<1>4. /\ s \in Seq(Elem) /\ AppOrder(t) = s /\ InTable(t) = ToSet(s) /\ Keyed(t, ToSet(s))
  BY <1>3, InOrder
<1> DEFINE I == {i \in 1..Len(s) : at[t.key[s[i]]] = k}
<1>5. PICK i : i = IF I # {} THEN Min(I) ELSE 0
  OBVIOUS
<1>6. p \in IF i = 0 THEN Ptr \ {t.key[e] : e \in InTable(t)} ELSE {t.key[s[i]]}
  <2>1. i = SelectInSeq(AppOrder(hTab), LAMBDA e : keyAt[hTab.key[e]] = k)
    BY <1>1, <1>2, <1>4, <1>5 DEF SelectInSeq
  <2> HIDE DEF I
  <2> QED BY <1>1, <1>4, <2>1 DEF keyProcessing, LivePtr, LiveElem
<1>7. CASE I # {}
  <2>1. i \in 1..Len(s) /\ i \in I
    <3>1. I \subseteq 1..Len(s) /\ Len(s) \in Nat
      BY <1>4, SeqElements
    <3> HIDE DEF I
    <3> QED BY <1>5, <1>7, <3>1, FirstMatch
  <2>2. i # 0 /\ at[t.key[s[i]]] = k /\ s[i] \in ToSet(s)
    BY <1>4, <2>1, SeqElements
  <2>3. p = t.key[s[i]]
    BY <1>6, <2>2
  <2>4. p \in Ptr
    BY <1>4, <2>2, <2>3 DEF Keyed
  <2> HIDE DEF I
  <2> QED BY <1>1, <1>2, <1>4, <2>2, <2>3, <2>4 DEF AddressOf
<1>8. CASE I = {}
  <2>1. p \in Ptr \ {t.key[e] : e \in InTable(t)}
    BY <1>5, <1>6, <1>8
  <2>2. ASSUME NEW x \in InTable(t) PROVE t.key[x] # p /\ at[t.key[x]] # k
    <3>1. PICK j \in 1..Len(s) : x = s[j]
      BY <1>4, SeqElements
    <3> QED BY <1>8, <2>1, <3>1
  <2> HIDE DEF I
  <2> QED BY <1>1, <1>2, <2>1, <2>2 DEF AddressOf
<1> QED BY <1>7, <1>8

LEMMA SetStep ==
  ASSUME Inv, NEW k \in Key, NEW v \in Value, set(k, v)
  PROVE  Becomes(hTab, keyAt, valueOf, hTab', keyAt', valueOf', k, v)
<1>1. PICK p \in keyProcessing(k) :
        \E e \in IF HASH_FIND_PTR(hTab, p) = NULL THEN Elem \ LiveElem
                                                  ELSE {HASH_FIND_PTR(hTab, p)} :
          Keep(setAt(hTab, e, p), [keyAt EXCEPT ![p] = k], [valueOf EXCEPT ![e] = v])
  BY DEF set
<1>2. PICK e \in IF HASH_FIND_PTR(hTab, p) = NULL THEN Elem \ LiveElem
                                                  ELSE {HASH_FIND_PTR(hTab, p)} :
        Keep(setAt(hTab, e, p), [keyAt EXCEPT ![p] = k], [valueOf EXCEPT ![e] = v])
  BY <1>1
<1>3. AddressOf(hTab, keyAt, k, p)
  BY Address
<1>4. PICK t : t = hTab
  OBVIOUS
<1>5. PICK at : at = keyAt
  OBVIOUS
<1>6. PICK val : val = valueOf
  OBVIOUS
<1>7. PICK u : u = setAt(t, e, p)
  OBVIOUS
<1>8. PICK at1 : at1 = [at EXCEPT ![p] = k]
  OBVIOUS
<1>9. PICK val1 : val1 = [val EXCEPT ![e] = v]
  OBVIOUS
<1>10. PICK at2 : at2 = KeptAt(u, at1)
  OBVIOUS
<1>11. PICK val2 : val2 = KeptVal(u, val1)
  OBVIOUS
<1>12. hTab' = u /\ keyAt' = at2 /\ valueOf' = val2
  <2>1. Keep(u, at1, val1)
    BY <1>2, <1>4, <1>5, <1>6, <1>7, <1>8, <1>9
  <2> QED BY <2>1, <1>10, <1>11 DEF Keep, KeptAt, KeptVal
<1>13. HashInv(t, at, val) /\ AddressOf(t, at, k, p)
  BY <1>3, <1>4, <1>5, <1>6 DEF Inv
<1>14. Chosen(t, e, p)
  <2>1. p \in Ptr
    BY <1>3 DEF AddressOf
  <2>2. e \in IF HASH_FIND_PTR(t, p) = NULL THEN Elem \ InTable(t) ELSE {HASH_FIND_PTR(t, p)}
    BY <1>2, <1>4 DEF LiveElem
  <2> QED BY <2>1, <2>2 DEF Chosen
<1>15. Becomes(t, at, val, u, at2, val2, k, v)
  BY <1>13, <1>14, <1>7, <1>8, <1>9, <1>10, <1>11, SetEffect
<1> QED BY <1>4, <1>5, <1>6, <1>12, <1>15

LEMMA DelStep ==
  ASSUME Inv, NEW k \in Key, delete(k)
  PROVE  Becomes(hTab, keyAt, valueOf, hTab', keyAt', valueOf', k, None)
<1>1. PICK p \in keyProcessing(k) :
        LET e == HASH_FIND_PTR(hTab, p) IN
        Keep(IF e = NULL THEN hTab ELSE HASH_DEL(hTab, e), keyAt, valueOf)
  BY DEF delete
<1>2. AddressOf(hTab, keyAt, k, p)
  BY Address
<1>3. PICK t : t = hTab
  OBVIOUS
<1>4. PICK at : at = keyAt
  OBVIOUS
<1>5. PICK val : val = valueOf
  OBVIOUS
<1>6. PICK e : e = HASH_FIND_PTR(t, p)
  OBVIOUS
<1>7. PICK u : u = IF e = NULL THEN t ELSE HASH_DEL(t, e)
  OBVIOUS
<1>8. PICK at2 : at2 = KeptAt(u, at)
  OBVIOUS
<1>9. PICK val2 : val2 = KeptVal(u, val)
  OBVIOUS
<1>10. hTab' = u /\ keyAt' = at2 /\ valueOf' = val2
  <2>1. Keep(u, at, val)
    BY <1>1, <1>3, <1>4, <1>5, <1>6, <1>7
  <2> QED BY <2>1, <1>8, <1>9 DEF Keep, KeptAt, KeptVal
<1>11. HashInv(t, at, val) /\ AddressOf(t, at, k, p)
  BY <1>2, <1>3, <1>4, <1>5 DEF Inv
<1>12. Becomes(t, at, val, u, at2, val2, k, None)
  BY <1>11, <1>6, <1>7, <1>8, <1>9, DelEffect
<1> QED BY <1>3, <1>4, <1>5, <1>10, <1>12

\* The map a reader of bytes sees in the table.
MapIn(t, at, val) == [k \in Key |-> StoredIn(t, at, val, k)]

\* The table after a step, what it holds and what the caller is told.
Does(c) ==
  /\ HashInv(hTab', keyAt', valueOf')
  /\ MapIn(hTab', keyAt', valueOf') = Apply(MapIn(hTab, keyAt, valueOf), c)
  /\ response' = Result(MapIn(hTab, keyAt, valueOf), c)

\* A change of what is stored at one key is a change of the map.
LEMMA MapChanges ==
  ASSUME NEW t, NEW at, NEW val, NEW u, NEW at2, NEW val2, NEW k \in Key, NEW v,
         Becomes(t, at, val, u, at2, val2, k, v)
  PROVE  MapIn(u, at2, val2) = [MapIn(t, at, val) EXCEPT ![k] = v]
<1>1. \A j : StoredIn(u, at2, val2, j) = IF j = k THEN v ELSE StoredIn(t, at, val, j)
  BY DEF Becomes
<1> QED BY <1>1 DEF MapIn

LEMMA CallParts ==
  ASSUME NEW c \in Call
  PROVE  /\ c.key \in Key
         /\ \/ c.op = "SET" /\ c.val \in Value
            \/ c.op \in {"GET", "DEL"}
BY DEF Call

LEMMA PeerSet ==
  ASSUME Inv, NEW c \in Call, peerSet(c)
  PROVE  Does(c)
<1>1. c.op = "SET" /\ set(c.key, c.val) /\ response' = Acknowledge("SET")
  BY DEF peerSet
<1>2. c.key \in Key /\ c.val \in Value
  BY <1>1, CallParts
<1>3. Becomes(hTab, keyAt, valueOf, hTab', keyAt', valueOf', c.key, c.val)
  BY <1>1, <1>2, SetStep
<1>4. MapIn(hTab', keyAt', valueOf') = [MapIn(hTab, keyAt, valueOf) EXCEPT ![c.key] = c.val]
  BY <1>2, <1>3, MapChanges
<1>5. HashInv(hTab', keyAt', valueOf')
  BY <1>3 DEF Becomes
<1>6. MapIn(hTab', keyAt', valueOf') = Apply(MapIn(hTab, keyAt, valueOf), c)
  BY <1>1, <1>4 DEF Apply
<1>7. response' = Result(MapIn(hTab, keyAt, valueOf), c)
  BY <1>1 DEF Result, Acknowledge
<1> QED BY <1>5, <1>6, <1>7 DEF Does

LEMMA PeerDelete ==
  ASSUME Inv, NEW c \in Call, peerDelete(c)
  PROVE  Does(c)
<1>1. c.op = "DEL" /\ delete(c.key) /\ response' = Acknowledge("DEL")
  BY DEF peerDelete
<1>2. c.key \in Key
  BY CallParts
<1>3. Becomes(hTab, keyAt, valueOf, hTab', keyAt', valueOf', c.key, None)
  BY <1>1, <1>2, DelStep
<1>4. MapIn(hTab', keyAt', valueOf') = [MapIn(hTab, keyAt, valueOf) EXCEPT ![c.key] = None]
  BY <1>2, <1>3, MapChanges
<1>5. HashInv(hTab', keyAt', valueOf')
  BY <1>3 DEF Becomes
<1>6. MapIn(hTab', keyAt', valueOf') = Apply(MapIn(hTab, keyAt, valueOf), c)
  BY <1>1, <1>4 DEF Apply
<1>7. response' = Result(MapIn(hTab, keyAt, valueOf), c)
  BY <1>1 DEF Result, Acknowledge
<1> QED BY <1>5, <1>6, <1>7 DEF Does

LEMMA PeerGet ==
  ASSUME Inv, NEW c \in Call, peerGet(c)
  PROVE  Does(c)
<1>1. PICK t : t = hTab
  OBVIOUS
<1>2. PICK at : at = keyAt
  OBVIOUS
<1>3. PICK val : val = valueOf
  OBVIOUS
<1>4. PICK k \in Key : k = c.key
  BY CallParts
<1>5. PICK p \in keyProcessing(k) :
        LET e == get(p) IN
        response' = IF e = NULL THEN Acknowledge("GET")
                    ELSE [op |-> "GET", key |-> keyAt[hTab.key[e]], val |-> valueOf[e]]
  BY <1>4 DEF peerGet
<1>6. PICK e : e = HASH_FIND_PTR(t, p)
  OBVIOUS
<1>7. response' = IF e = NULL THEN Acknowledge("GET")
                  ELSE [op |-> "GET", key |-> at[t.key[e]], val |-> val[e]]
  BY <1>1, <1>2, <1>3, <1>5, <1>6 DEF get
<1>8. c.op = "GET" /\ hTab' = hTab /\ keyAt' = keyAt /\ valueOf' = valueOf
  BY DEF peerGet
<1>9. HashInv(t, at, val) /\ AddressOf(t, at, k, p)
  BY <1>1, <1>2, <1>3, Address DEF Inv
<1>10. IF \E x \in InTable(t) : t.key[x] = p THEN e \in InTable(t) /\ t.key[e] = p ELSE e = NULL
  <2>1. \E s : Sound(t, s)
    BY <1>9 DEF HashInv
  <2>2. p \in Ptr
    BY <1>9 DEF AddressOf
  <2> QED BY <1>6, <2>1, <2>2, Elements
<1>11. InTable(t) \subseteq Elem /\ \A x \in InTable(t) : val[x] \in Value
  BY <1>9, Elements DEF HashInv
<1>12. MapIn(t, at, val)[k] = StoredIn(t, at, val, k)
  BY DEF MapIn
<1>13. response' = Result(MapIn(t, at, val), c)
  <2>1. CASE \E x \in InTable(t) : t.key[x] = p
    <3>1. e \in InTable(t) /\ t.key[e] = p
      BY <1>10, <2>1
    <3>2. e # NULL
      BY <1>11, <3>1, NotNull
    <3>3. at[t.key[e]] = k
      BY <1>9, <2>1, <3>1 DEF AddressOf
    <3>4. StoredIn(t, at, val, k) = val[e]
      BY <1>9, <3>1, <3>3, StoredIs
    <3>5. val[e] # None
      BY <1>11, <3>1, NoneAssumption
    <3> QED BY <1>4, <1>7, <1>8, <1>12, <3>2, <3>3, <3>4, <3>5 DEF Result
  <2>2. CASE \A x \in InTable(t) : t.key[x] # p
    <3>1. e = NULL
      BY <1>10, <2>2
    <3>2. \A x \in InTable(t) : at[t.key[x]] # k
      BY <1>9, <2>2 DEF AddressOf
    <3>3. StoredIn(t, at, val, k) = None
      BY <3>2, StoredNot
    <3> QED BY <1>4, <1>7, <1>8, <1>12, <3>1, <3>3 DEF Result, Acknowledge
  <2> QED BY <2>1, <2>2
<1>14. MapIn(t, at, val) = Apply(MapIn(t, at, val), c)
  BY <1>8 DEF Apply
<1> QED BY <1>1, <1>2, <1>3, <1>8, <1>9, <1>13, <1>14 DEF Does

\* Every request does to the map what a map makes of it.
LEMMA PeerHashing ==
  ASSUME Inv, NEW c \in Call, peerHashing(c)
  PROVE  Does(c)
BY PeerSet, PeerGet, PeerDelete DEF peerHashing

LEMMA StoredTyped ==
  ASSUME NEW t, NEW at, NEW val, HashInv(t, at, val), NEW k
  PROVE  StoredIn(t, at, val, k) \in Value \cup {None}
<1> DEFINE found == {e \in InTable(t) : at[t.key[e]] = k /\ HASH_FIND_PTR(t, t.key[e]) = e}
<1>1. \A e \in InTable(t) : val[e] \in Value
  BY DEF HashInv
<1>2. found \subseteq InTable(t)
  OBVIOUS
<1>3. StoredIn(t, at, val, k) = IF found = {} THEN None ELSE val[CHOOSE e \in found : TRUE]
  BY DEF StoredIn
<1> HIDE DEF found
<1>4. found # {} => (CHOOSE e \in found : TRUE) \in found
  OBVIOUS
<1> QED BY <1>1, <1>2, <1>3, <1>4

LEMMA InvInit == Init => Inv
<1> SUFFICES ASSUME Init PROVE Inv
  OBVIOUS
<1>1. PICK t : t = hTab
  OBVIOUS
<1>2. PICK at : at = keyAt
  OBVIOUS
<1>3. PICK val : val = valueOf
  OBVIOUS
<1>4. t = NoTable /\ at = [p \in Ptr |-> None] /\ val = [e \in Elem |-> None]
  BY <1>1, <1>2, <1>3 DEF Init
<1>5. Sound(t, <<>>)
  BY <1>4 DEF Sound
<1>6. InTable(t) = {}
  <2>1. InTable(t) = ToSet(<<>>)
    BY <1>5, InOrder
  <2> QED BY <2>1 DEF ToSet
<1>7. HashInv(t, at, val)
  BY <1>4, <1>5, <1>6 DEF HashInv
<1> QED BY <1>1, <1>2, <1>3, <1>7 DEF Inv, Init

LEMMA DoesInv ==
  ASSUME Inv, NEW c \in Call, Does(c)
  PROVE  Inv'
<1>1. HashInv(hTab, keyAt, valueOf) /\ HashInv(hTab', keyAt', valueOf')
  BY DEF Does, Inv
<1>2. PICK m : m = MapIn(hTab, keyAt, valueOf)
  OBVIOUS
<1>3. c.key \in Key /\ c.op \in {"SET", "GET", "DEL"}
  BY CallParts
<1>4. m[c.key] \in Value \cup {None}
  <2>1. PICK t : t = hTab
    OBVIOUS
  <2>2. PICK at : at = keyAt
    OBVIOUS
  <2>3. PICK val : val = valueOf
    OBVIOUS
  <2>4. StoredIn(t, at, val, c.key) \in Value \cup {None}
    BY <1>1, <2>1, <2>2, <2>3, StoredTyped
  <2>5. m = MapIn(t, at, val)
    BY <1>2, <2>1, <2>2, <2>3
  <2> QED BY <1>3, <2>4, <2>5 DEF MapIn
<1>5. response' = Result(m, c)
  BY <1>2 DEF Does
<1>6. response' \in Response
  BY <1>3, <1>4, <1>5 DEF Result, Response
<1> QED BY <1>1, <1>6 DEF Inv

LEMMA InvNext == Inv /\ [Next]_vars => Inv'
<1> SUFFICES ASSUME Inv, [Next]_vars PROVE Inv'
  OBVIOUS
<1>1. CASE Next
  <2>1. PICK c \in Call : peerHashing(c)
    BY <1>1 DEF Next
  <2> QED BY <2>1, PeerHashing, DoesInv
<1>2. CASE UNCHANGED vars
  BY <1>2 DEF Inv, vars
<1> QED BY <1>1, <1>2

\* The table stays right whatever requests come: through doublings of the
\* buckets, the loss of the last element and the reuse of addresses.
THEOREM InvCorrect == Spec => []Inv
BY InvInit, InvNext, PTL DEF Spec

-----------------------------------------------------------------------------
\* A right table does not exceed the elements there are, and its chains are bounded.
LEMMA SoundBounds ==
  ASSUME NEW t, NEW s, Sound(t, s)
  PROVE  /\ t.head \in Elem \cup {NULL} /\ t.tail \in Elem \cup {NULL}
         /\ t.num_items \in 0..Cardinality(Elem)
         /\ \/ t.noexpand
            \/ \A b \in DOMAIN t.buckets :
                 LET bkt == t.buckets[b] IN
                 \/ bkt.count < (bkt.expand_mult + 1) * HASH_BKT_CAPACITY_THRESH
                 \/ bkt.count <= (bkt.expand_mult + 1) * t.ideal_chain_maxlen
<1>1. CASE t = NoTable
  <2>1. Cardinality(Elem) \in Nat
    BY HashAssumption, FS_CardinalityType
  <2>2. t.head = NULL /\ t.tail = NULL /\ t.num_items = 0 /\ t.buckets = EmptyBuckets(0)
    BY <1>1 DEF NoTable
  <2>3. DOMAIN t.buckets = {}
    BY <2>2 DEF EmptyBuckets
  <2> QED BY <2>1, <2>2, <2>3
<1>2. CASE t # NoTable
  <2>1. PICK n, c : WellMade(t, n, s, c)
    BY <1>2 DEF Sound
  <2>2. Ordered(t, s) /\ InChains(t, n, c, ToSet(s))
    BY <2>1 DEF WellMade
  <2>3. Linked(t.next, t.prev, t.head, s) /\ t.num_items = Len(s)
    BY <2>2 DEF Ordered
  <2>4. t.num_items \in 0..Cardinality(Elem)
    BY <2>3, LenBound DEF Linked
  <2>5. t \in Table(n) /\ Bounded(t)
    BY <2>2 DEF InChains
  <2>6. /\ t.head \in Elem \cup {NULL} /\ t.tail \in Elem \cup {NULL}
        /\ DOMAIN t.buckets = 0..(t.num_buckets - 1)
    BY <2>5 DEF Table
  <2> QED BY <2>4, <2>5, <2>6 DEF Bounded
<1> QED BY <1>1, <1>2

LEMMA InvConsistent == Inv => Consistent
<1> SUFFICES ASSUME Inv PROVE Consistent
  OBVIOUS
<1>1. PICK t : t = hTab
  OBVIOUS
<1>2. PICK at : at = keyAt
  OBVIOUS
<1>3. PICK val : val = valueOf
  OBVIOUS
<1>4. HashInv(t, at, val)
  BY <1>1, <1>2, <1>3 DEF Inv
<1>5. PICK s : Sound(t, s)
  BY <1>4 DEF HashInv
<1>6. HASH_FSCK(t)
  BY <1>5, Checked
<1>7. /\ t.head \in Elem \cup {NULL} /\ t.tail \in Elem \cup {NULL}
      /\ t.num_items \in 0..Cardinality(Elem)
      /\ \/ t.noexpand
         \/ \A b \in DOMAIN t.buckets :
              LET bkt == t.buckets[b] IN
              \/ bkt.count < (bkt.expand_mult + 1) * HASH_BKT_CAPACITY_THRESH
              \/ bkt.count <= (bkt.expand_mult + 1) * t.ideal_chain_maxlen
  BY <1>5, SoundBounds
<1>8. TypeOK
  BY <1>1, <1>2, <1>3, <1>4, <1>7 DEF TypeOK, Inv, HashInv
<1>9. ChainBounded
  BY <1>1, <1>7 DEF ChainBounded
<1>10. Interned
  BY <1>1, <1>2, <1>4 DEF HashInv, Interned, LiveElem
<1> QED BY <1>1, <1>6, <1>8, <1>9, <1>10 DEF Consistent

\* After every call the links, counters and tail of the table are consistent
\* (what HASH_FSCK tests), its chains bounded, and no key is stored twice: for
\* every number of elements and addresses, every hash function, first number of
\* buckets and threshold.
THEOREM TableConsistent == Spec => []Consistent
BY InvCorrect, InvConsistent, PTL

\* Reading, writing and deleting by the address of a key is reading, writing
\* and deleting in a map, with the responses of a map.
THEOREM TableIsMap == Spec => ImplementsMap
<1>1. [k \in Key |-> Stored(k)] = MapIn(hTab, keyAt, valueOf)
  BY DEF Stored, MapIn, StoredIn, LiveElem
<1>2. [k \in Key |-> Stored(k)]' = MapIn(hTab', keyAt', valueOf')
  BY DEF Stored, MapIn, StoredIn, LiveElem
<1>3. Init => Map!MapInit
  <2> SUFFICES ASSUME Init PROVE Map!MapInit
    OBVIOUS
  <2>1. PICK t : t = hTab
    OBVIOUS
  <2>2. PICK at : at = keyAt
    OBVIOUS
  <2>3. PICK val : val = valueOf
    OBVIOUS
  <2>4. Sound(t, <<>>)
    BY <2>1 DEF Init, Sound
  <2>5. InTable(t) = ToSet(<<>>)
    BY <2>4, InOrder
  <2>6. \A k : StoredIn(t, at, val, k) = None
    BY <2>5, StoredNot DEF ToSet
  <2>7. MapIn(t, at, val) = [k \in Key |-> None]
    BY <2>6 DEF MapIn
  <2> QED BY <1>1, <2>1, <2>2, <2>3, <2>7 DEF Map!MapInit, Init
<1>4. Inv /\ [Next]_vars => [Map!MapNext]_<<[k \in Key |-> Stored(k)], response>>
  <2> SUFFICES ASSUME Inv, [Next]_vars
               PROVE  [Map!MapNext]_<<[k \in Key |-> Stored(k)], response>>
    OBVIOUS
  <2>1. CASE Next
    <3>1. PICK c \in Call : peerHashing(c)
      BY <2>1 DEF Next
    <3>2. Does(c)
      BY <3>1, PeerHashing
    <3>3. /\ [k \in Key |-> Stored(k)]' = Apply([k \in Key |-> Stored(k)], c)
          /\ response' = Result([k \in Key |-> Stored(k)], c)
      BY <1>1, <1>2, <3>2 DEF Does
    <3>4. Map!Do(c)
      BY <3>3 DEF Map!Do, Map!Apply, Map!Result, Apply, Result
    <3> QED BY <3>1, <3>4 DEF Map!MapNext, Map!Call, Call
  <2>2. CASE UNCHANGED vars
    <3>1. UNCHANGED <<[k \in Key |-> Stored(k)], response>>
      BY <1>1, <1>2, <2>2 DEF vars
    <3> QED BY <3>1
  <2> QED BY <2>1, <2>2
<1> QED BY <1>3, <1>4, InvCorrect, PTL DEF Spec, ImplementsMap, Map!MapSpec

(***************************************************************************)
(* PeerThreads                                                             *)
(***************************************************************************)

\* What the two threads of a peer can be doing.
LEMMA States ==
  /\ Selecting \in MainState /\ Idle \in StabState
  /\ \A m \in Message : Locking(m) \in MainState
  /\ \A m \in Message, q \in Peer : Connecting(m, q) \in MainState /\ Connecting(m, q) \in StabState
BY DEF MainState, StabState, Connections

LEMMA Doing ==
  ASSUME ThreadsTypeOK, NEW p \in Peer
  PROVE  /\ \/ main[p] = Selecting
            \/ \E m \in Message : main[p] = Locking(m)
            \/ \E m \in Message, q \in Peer : main[p] = Connecting(m, q)
         /\ \/ stab[p] = Idle
            \/ \E m \in Message, q \in Peer : stab[p] = Connecting(m, q)
<1>1. main[p] \in MainState /\ stab[p] \in StabState
  BY DEF ThreadsTypeOK
<1>2. \A s \in MainState : \/ s = Selecting \/ \E m \in Message : s = Locking(m)
                           \/ \E m \in Message, q \in Peer : s = Connecting(m, q)
  BY DEF MainState, Connections
<1>3. \A s \in StabState : s = Idle \/ \E m \in Message, q \in Peer : s = Connecting(m, q)
  BY DEF StabState, Connections
<1> QED BY <1>1, <1>2, <1>3

LEMMA DoingOnly ==
  ASSUME NEW m, NEW q
  PROVE  /\ Selecting.doing = "select" /\ Locking(m).doing = "lock" /\ Locking(m).m = m
         /\ Connecting(m, q).doing = "connect" /\ Connecting(m, q).m = m
         /\ Connecting(m, q).to = q /\ Idle.doing = "idle" /\ Connecting(m, q) # Idle
BY DEF Selecting, Locking, Connecting, Idle

\* Bounds of what is counted, and of the slots of messages.
LEMMA Slots ==
  ASSUME ThreadsTypeOK
  PROVE  /\ calls \in Nat /\ joins \in Nat /\ Queue \in Nat \ {0}
         /\ MaxCalls \in Nat /\ MaxJoins \in Nat /\ MaxRounds \in Nat
         /\ \A p \in Peer : rounds[p] \in Nat
         /\ 0..MaxCalls \subseteq 0..(MaxCalls + MaxJoins + MaxRounds)
         /\ 0..MaxJoins \subseteq 0..(MaxCalls + MaxJoins + MaxRounds)
         /\ 0..MaxRounds \subseteq 0..(MaxCalls + MaxJoins + MaxRounds)
BY ThreadsAssumption DEF ThreadsTypeOK

\* A connection is made only where there is room for it.
LEMMA Enqueued ==
  ASSUME ThreadsTypeOK, NEW p \in Peer, NEW m \in Message, ~Full(p), Enqueue(p, m)
  PROVE  queue' \in [Peer -> Seq(Message)] /\ \A q \in Peer : Len(queue'[q]) <= Queue
<1>1. /\ queue \in [Peer -> Seq(Message)] /\ \A q \in Peer : Len(queue[q]) <= Queue
      /\ Queue \in Nat
  BY Slots DEF ThreadsTypeOK
<1>2. queue' = [queue EXCEPT ![p] = Append(queue[p], m)]
  BY DEF Enqueue
<1>3. /\ Append(queue[p], m) \in Seq(Message) /\ Len(queue[p]) \in Nat
      /\ Len(Append(queue[p], m)) = Len(queue[p]) + 1
  BY <1>1
<1>4. Len(queue[p]) # Queue
  BY DEF Full
<1>5. ASSUME NEW q \in Peer PROVE Len(queue'[q]) <= Queue
  <2>1. CASE q = p
    BY <1>1, <1>2, <1>3, <1>4, <2>1
  <2>2. CASE q # p
    BY <1>1, <1>2, <2>2
  <2> QED BY <2>1, <2>2
<1> QED BY <1>1, <1>2, <1>3, <1>5

LEMMA ThreadsInvInit == ThreadsInit => MutexHeld
<1> SUFFICES ASSUME ThreadsInit PROVE MutexHeld
  OBVIOUS
<1>1. ThreadsTypeOK
  <2>1. queue \in [Peer -> Seq(Message)] /\ \A p \in Peer : Len(queue[p]) <= Queue
    BY ThreadsAssumption DEF ThreadsInit
  <2>2. main \in [Peer -> MainState] /\ stab \in [Peer -> StabState]
    BY States DEF ThreadsInit
  <2>3. /\ accepted \in [Peer -> SUBSET Message] /\ mutex \in [Peer -> {"free", "main", "stab"}]
        /\ rounds \in [Peer -> 0..MaxRounds] /\ calls \in 0..MaxCalls /\ joins \in 0..MaxJoins
    BY ThreadsAssumption DEF ThreadsInit
  <2> QED BY <2>1, <2>2, <2>3 DEF ThreadsTypeOK
<1>2. ASSUME NEW p \in Peer
      PROVE  /\ mutex[p] = "free" /\ stab[p] = Idle /\ main[p].doing # "connect"
  BY DoingOnly DEF ThreadsInit
<1> QED BY <1>1, <1>2 DEF MutexHeld

\* Calls and newcomers change nothing a thread holds.
LEMMA Coming ==
  ASSUME MutexHeld, NEW p \in Peer, CallComes(p) \/ JoinComes(p)
  PROVE  MutexHeld'
<1> DEFINE new == IF CallComes(p) THEN [type |-> "call", from |-> p, slot |-> calls']
                                  ELSE [type |-> "join", from |-> p, slot |-> joins']
<1>1. /\ calls' \in 0..MaxCalls /\ joins' \in 0..MaxJoins
      /\ ~Full(p) /\ UNCHANGED <<accepted, main, stab, mutex, rounds>>
  BY Slots DEF CallComes, JoinComes, MutexHeld, ThreadsTypeOK
<1>2. /\ [type |-> "call", from |-> p, slot |-> calls'] \in Message
      /\ [type |-> "join", from |-> p, slot |-> joins'] \in Message
  BY <1>1, Slots DEF Message, MutexHeld
<1>3. queue' \in [Peer -> Seq(Message)] /\ \A q \in Peer : Len(queue'[q]) <= Queue
  BY <1>1, <1>2, Enqueued DEF CallComes, JoinComes, MutexHeld
<1>4. ThreadsTypeOK'
  BY <1>1, <1>3 DEF MutexHeld, ThreadsTypeOK
<1> QED BY <1>1, <1>4 DEF MutexHeld

\* The stabilizing thread takes the mutex only when it is free, and gives it
\* back when it has connected.
LEMMA StabilizingStep ==
  ASSUME MutexHeld, NEW p \in Peer, Stabilizing(p)
  PROVE  MutexHeld'
<1>1. CASE Stabilize(p)
  <2> DEFINE m == [type |-> "stabilize", from |-> p, slot |-> rounds'[p]]
  <2>1. /\ stab[p] = Idle /\ mutex[p] = "free" /\ rounds[p] < MaxRounds
        /\ mutex' = [mutex EXCEPT ![p] = "stab"]
        /\ rounds' = [rounds EXCEPT ![p] = rounds[p] + 1]
        /\ stab' = [stab EXCEPT ![p] = Connecting(m, successor[p])]
        /\ UNCHANGED <<queue, accepted, main, calls, joins>>
    BY <1>1 DEF Stabilize
  <2>2. rounds' \in [Peer -> 0..MaxRounds] /\ rounds'[p] \in 0..MaxRounds
    BY <2>1, Slots DEF MutexHeld, ThreadsTypeOK
  <2>3. m \in Message /\ successor[p] \in Peer
    BY <2>2, Slots, ThreadsAssumption DEF Message, MutexHeld
  <2> HIDE DEF m
  <2>4. ThreadsTypeOK'
    <3>1. Connecting(m, successor[p]) \in StabState
      BY <2>3, States
    <3>2. stab' \in [Peer -> StabState]
      BY <2>1, <3>1 DEF MutexHeld, ThreadsTypeOK
    <3>3. mutex' \in [Peer -> {"free", "main", "stab"}]
      BY <2>1 DEF MutexHeld, ThreadsTypeOK
    <3> QED BY <2>1, <2>2, <3>2, <3>3 DEF MutexHeld, ThreadsTypeOK
  <2>5. stab'[p] # Idle /\ mutex'[p] = "stab" /\ main'[p] = main[p]
        /\ \A q \in Peer : q # p => /\ stab'[q] = stab[q] /\ mutex'[q] = mutex[q]
                                    /\ main'[q] = main[q]
    BY <2>1, DoingOnly DEF MutexHeld, ThreadsTypeOK
  <2> QED BY <2>1, <2>4, <2>5 DEF MutexHeld
<1>2. CASE StabilizeSent(p)
  <2>1. PICK m \in Message, q \in Peer : stab[p] = Connecting(m, q)
    BY <1>2, Doing DEF StabilizeSent, MutexHeld
  <2>2. stab[p].m = m /\ stab[p].to = q
    BY <2>1, DoingOnly
  <2>3. /\ stab[p] # Idle /\ ~Full(q) /\ Enqueue(q, m)
        /\ stab' = [stab EXCEPT ![p] = Idle]
        /\ mutex' = [mutex EXCEPT ![p] = "free"]
        /\ UNCHANGED <<accepted, main, rounds, calls, joins>>
    BY <1>2, <2>2 DEF StabilizeSent
  <2>4. queue' \in [Peer -> Seq(Message)] /\ \A x \in Peer : Len(queue'[x]) <= Queue
    BY <2>3, Enqueued DEF MutexHeld
  <2>5. ThreadsTypeOK'
    <3>1. stab' \in [Peer -> StabState]
      BY <2>3, States DEF MutexHeld, ThreadsTypeOK
    <3>2. mutex' \in [Peer -> {"free", "main", "stab"}]
      BY <2>3 DEF MutexHeld, ThreadsTypeOK
    <3> QED BY <2>3, <2>4, <3>1, <3>2 DEF MutexHeld, ThreadsTypeOK
  <2>6. stab'[p] = Idle /\ mutex'[p] = "free" /\ mutex[p] = "stab" /\ main'[p] = main[p]
        /\ \A x \in Peer : x # p => /\ stab'[x] = stab[x] /\ mutex'[x] = mutex[x]
                                    /\ main'[x] = main[x]
    BY <2>3 DEF MutexHeld, ThreadsTypeOK
  <2> QED BY <2>5, <2>6 DEF MutexHeld
<1> QED BY <1>1, <1>2 DEF Stabilizing

\* No handler without the mutex leaves connecting for a JOIN.
LEMMA OutgoingRight ==
  ASSUME NEW p \in Peer, NEW m \in Message, NEW c \in Outgoing(p, m)
  PROVE  \E x \in Message, q \in Peer : c = Connecting(x, q) /\ x.type # "join"
<1>1. m \in Message /\ m.from \in Peer /\ successor[p] \in Peer
  BY ThreadsAssumption DEF Message
<1>2. ASSUME NEW t \in {"hash", "lookup", "reply", "notify"}
      PROVE  /\ [m EXCEPT !.type = t, !.from = p] \in Message
             /\ [m EXCEPT !.type = t, !.from = p].type # "join"
  BY DEF Message
<1>3. CASE m.type = "call"
  <2>1. PICK t \in {"hash", "lookup"} :
          c = Connecting([m EXCEPT !.type = t, !.from = p], successor[p])
    BY <1>3 DEF Outgoing
  <2> QED BY <1>1, <1>2, <2>1
<1>4. CASE m.type = "lookup"
  <2>1. \/ c = Connecting([m EXCEPT !.type = "reply", !.from = p], m.from)
        \/ c = Connecting(m, successor[p])
    BY <1>4 DEF Outgoing
  <2>2. m.type # "join"
    BY <1>4
  <2>3. CASE c = Connecting([m EXCEPT !.type = "reply", !.from = p], m.from)
    BY <1>1, <1>2, <2>3
  <2> QED BY <1>1, <2>1, <2>2, <2>3
<1>5. CASE m.type = "reply"
  <2>1. PICK q \in Peer : c = Connecting([m EXCEPT !.type = "hash", !.from = p], q)
    BY <1>5 DEF Outgoing
  <2> QED BY <1>2, <2>1
<1>6. CASE m.type = "stabilize"
  BY <1>1, <1>2, <1>6 DEF Outgoing
<1>7. CASE m.type \notin {"call", "lookup", "reply", "stabilize"}
  BY <1>7 DEF Outgoing
<1> QED BY <1>3, <1>4, <1>5, <1>6, <1>7

LEMMA AcceptStep ==
  ASSUME MutexHeld, NEW p \in Peer, Accept(p)
  PROVE  MutexHeld'
<1>1. /\ queue[p] # <<>> /\ queue[p] \in Seq(Message) /\ Len(queue[p]) <= Queue
      /\ accepted' = [accepted EXCEPT ![p] = accepted[p] \cup {Head(queue[p])}]
      /\ queue' = [queue EXCEPT ![p] = Tail(queue[p])]
      /\ UNCHANGED <<main, stab, mutex, rounds, calls, joins>>
  BY DEF Accept, MutexHeld, ThreadsTypeOK
<1>2. /\ Head(queue[p]) \in Message /\ Tail(queue[p]) \in Seq(Message)
      /\ Len(Tail(queue[p])) <= Queue
  BY <1>1, Slots DEF MutexHeld
<1>3. queue' \in [Peer -> Seq(Message)] /\ \A q \in Peer : Len(queue'[q]) <= Queue
  BY <1>1, <1>2 DEF MutexHeld, ThreadsTypeOK
<1>4. accepted' \in [Peer -> SUBSET Message]
  BY <1>1, <1>2 DEF MutexHeld, ThreadsTypeOK
<1>5. ThreadsTypeOK'
  BY <1>1, <1>3, <1>4 DEF MutexHeld, ThreadsTypeOK
<1> QED BY <1>1, <1>5 DEF MutexHeld

LEMMA HandleStep ==
  ASSUME MutexHeld, NEW p \in Peer, NEW m \in accepted[p], Handle(p, m)
  PROVE  MutexHeld'
<1>1. m \in Message
  BY DEF MutexHeld, ThreadsTypeOK
<1>2. /\ main[p] = Selecting
      /\ accepted' = [accepted EXCEPT ![p] = accepted[p] \ {m}]
      /\ UNCHANGED <<queue, stab, mutex, rounds, calls, joins>>
  BY DEF Handle
<1>3. mutex[p] # "main"
  BY <1>2, DoingOnly DEF MutexHeld
<1>4. PICK new : /\ main' = [main EXCEPT ![p] = new]
                 /\ \/ new = Selecting \/ new = Locking(m)
                    \/ \E x \in Message, q \in Peer : new = Connecting(x, q) /\ x.type # "join"
  <2>1. CASE UNCHANGED main
    BY <1>2, <2>1 DEF MutexHeld, ThreadsTypeOK
  <2>2. CASE \E c \in Outgoing(p, m) : main' = [main EXCEPT ![p] = c]
    <3>1. PICK c \in Outgoing(p, m) : main' = [main EXCEPT ![p] = c]
      BY <2>2
    <3>2. \E x \in Message, q \in Peer : c = Connecting(x, q) /\ x.type # "join"
      BY <1>1, OutgoingRight
    <3> QED BY <3>1, <3>2
  <2>3. CASE main' = [main EXCEPT ![p] = Locking(m)]
    BY <2>3
  <2> QED BY <2>1, <2>2, <2>3 DEF Handle
<1>5. ~(new.doing = "connect" /\ new.m.type = "join")
  BY <1>4, DoingOnly
<1>6. accepted' \in [Peer -> SUBSET Message]
  BY <1>2 DEF MutexHeld, ThreadsTypeOK
<1>7. ThreadsTypeOK'
  <2>1. new \in MainState
    BY <1>1, <1>4, States
  <2>2. main' \in [Peer -> MainState]
    BY <1>4, <2>1 DEF MutexHeld, ThreadsTypeOK
  <2> QED BY <1>2, <1>6, <2>2 DEF MutexHeld, ThreadsTypeOK
<1>8. main'[p] = new /\ \A q \in Peer : q # p => main'[q] = main[q]
  BY <1>4 DEF MutexHeld, ThreadsTypeOK
<1> QED BY <1>2, <1>3, <1>5, <1>7, <1>8 DEF MutexHeld

\* The main thread waits until the mutex is free, and keeps it only to connect
\* for a JOIN.
LEMMA LockStep ==
  ASSUME MutexHeld, NEW p \in Peer, Lock(p)
  PROVE  MutexHeld'
<1>1. /\ main[p].doing = "lock" /\ mutex[p] = "free"
      /\ UNCHANGED <<queue, accepted, stab, rounds, calls, joins>>
  BY DEF Lock
<1>2. PICK m \in Message : main[p] = Locking(m)
  BY <1>1, Doing, DoingOnly DEF MutexHeld
<1>3. main[p].m = m /\ successor[p] \in Peer /\ stab[p] = Idle
  BY <1>1, <1>2, DoingOnly, ThreadsAssumption DEF MutexHeld
<1>4. CASE main' = [main EXCEPT ![p] = Selecting] /\ UNCHANGED mutex
  <2>1. ThreadsTypeOK'
    <3>1. main' \in [Peer -> MainState]
      BY <1>4, States DEF MutexHeld, ThreadsTypeOK
    <3> QED BY <1>1, <1>4, <3>1 DEF MutexHeld, ThreadsTypeOK
  <2>2. main'[p] = Selecting /\ \A q \in Peer : q # p => main'[q] = main[q]
    BY <1>4 DEF MutexHeld, ThreadsTypeOK
  <2> QED BY <1>1, <1>4, <2>1, <2>2, DoingOnly DEF MutexHeld
<1>5. CASE /\ m.type = "join"
           /\ main' = [main EXCEPT ![p] = Connecting(m, successor[p])]
           /\ mutex' = [mutex EXCEPT ![p] = "main"]
  <2>1. ThreadsTypeOK'
    <3>1. Connecting(m, successor[p]) \in MainState
      BY <1>3, States
    <3>2. main' \in [Peer -> MainState] /\ mutex' \in [Peer -> {"free", "main", "stab"}]
      BY <1>5, <3>1 DEF MutexHeld, ThreadsTypeOK
    <3> QED BY <1>1, <3>2 DEF MutexHeld, ThreadsTypeOK
  <2>2. /\ main'[p] = Connecting(m, successor[p]) /\ mutex'[p] = "main" /\ stab'[p] = Idle
        /\ \A q \in Peer : q # p => main'[q] = main[q] /\ mutex'[q] = mutex[q]
    BY <1>1, <1>3, <1>5 DEF MutexHeld, ThreadsTypeOK
  <2> QED BY <1>1, <1>5, <2>1, <2>2, DoingOnly DEF MutexHeld
<1> QED BY <1>3, <1>4, <1>5 DEF Lock

LEMMA ConnectedStep ==
  ASSUME MutexHeld, NEW p \in Peer, Connected(p)
  PROVE  MutexHeld'
<1>1. PICK m \in Message, q \in Peer : main[p] = Connecting(m, q)
  BY Doing, DoingOnly DEF Connected, MutexHeld
<1>2. main[p].m = m /\ main[p].to = q
  BY <1>1, DoingOnly
<1>3. /\ ~Full(q) /\ Enqueue(q, m)
      /\ main' = [main EXCEPT ![p] = Selecting]
      /\ mutex' = [mutex EXCEPT ![p] = IF mutex[p] = "main" THEN "free" ELSE mutex[p]]
      /\ UNCHANGED <<accepted, stab, rounds, calls, joins>>
  BY <1>2 DEF Connected
<1>4. queue' \in [Peer -> Seq(Message)] /\ \A x \in Peer : Len(queue'[x]) <= Queue
  BY <1>3, Enqueued DEF MutexHeld
<1>5. ThreadsTypeOK'
  <2>1. main' \in [Peer -> MainState]
    BY <1>3, States DEF MutexHeld, ThreadsTypeOK
  <2>2. mutex' \in [Peer -> {"free", "main", "stab"}]
    BY <1>3 DEF MutexHeld, ThreadsTypeOK
  <2> QED BY <1>3, <1>4, <2>1, <2>2 DEF MutexHeld, ThreadsTypeOK
<1>6. /\ main'[p] = Selecting /\ stab'[p] = stab[p]
      /\ mutex'[p] = IF mutex[p] = "main" THEN "free" ELSE mutex[p]
      /\ \A x \in Peer : x # p => /\ stab'[x] = stab[x] /\ mutex'[x] = mutex[x]
                                  /\ main'[x] = main[x]
  BY <1>3 DEF MutexHeld, ThreadsTypeOK
<1> QED BY <1>5, <1>6, DoingOnly DEF MutexHeld

LEMMA ThreadsInvNext == MutexHeld /\ [ThreadsNext]_threadVars => MutexHeld'
<1> SUFFICES ASSUME MutexHeld, [ThreadsNext]_threadVars PROVE MutexHeld'
  OBVIOUS
<1>1. CASE UNCHANGED threadVars
  BY <1>1 DEF threadVars, MutexHeld, ThreadsTypeOK
<1>2. CASE ThreadsNext
  <2>1. PICK p \in Peer : CallComes(p) \/ JoinComes(p) \/ Stabilizing(p) \/ Main(p)
    BY <1>2 DEF ThreadsNext
  <2>2. CASE CallComes(p) \/ JoinComes(p)
    BY <2>2, Coming
  <2>3. CASE Stabilizing(p)
    BY <2>3, StabilizingStep
  <2>4. CASE Main(p)
    BY <2>4, AcceptStep, LockStep, ConnectedStep, HandleStep DEF Main
  <2> QED BY <2>1, <2>2, <2>3, <2>4
<1> QED BY <1>1, <1>2

\* jft.DHT/peer.c: the neighbour is read for a connection, and changed, only under
\* the mutex; each thread gives it back, and no queue takes more than it holds:
\* for every set of peers, length of queues and number of messages.
THEOREM MutexAlwaysHeld == ThreadsSpec => []MutexHeld
BY ThreadsInvInit, ThreadsInvNext, PTL DEF ThreadsSpec

Step(p) == CallComes(p) \/ JoinComes(p) \/ Stabilizing(p) \/ Main(p)

\* Only accepting makes room in a full queue.
LEMMA FullStays ==
  ASSUME MutexHeld, NEW q \in Peer, Full(q), main[q] # Selecting, NEW p \in Peer, Step(p)
  PROVE  Full(q)'
<1>0. queue \in [Peer -> Seq(Message)]
  BY DEF MutexHeld, ThreadsTypeOK
<1>1. ASSUME NEW x, NEW m, ~Full(x), Enqueue(x, m) PROVE queue'[q] = queue[q]
  BY <1>0, <1>1 DEF Enqueue
<1>2. CASE CallComes(p) \/ JoinComes(p)
  BY <1>1, <1>2 DEF CallComes, JoinComes, Full
<1>3. CASE StabilizeSent(p) \/ Connected(p)
  BY <1>1, <1>3 DEF StabilizeSent, Connected, Full
<1>4. CASE Accept(p)
  <2>1. q # p /\ queue' = [queue EXCEPT ![p] = Tail(@)]
    BY <1>4 DEF Accept
  <2> QED BY <1>0, <2>1 DEF Full
<1>5. CASE Stabilize(p) \/ Lock(p) \/ \E m \in accepted[p] : Handle(p, m)
  BY <1>5 DEF Stabilize, Lock, Handle, Full
<1> QED BY <1>2, <1>3, <1>4, <1>5 DEF Step, Stabilizing, Main

\* A peer in a circle cannot move: the queue it connects to is full, or its other
\* thread connects to it and keeps the mutex.
LEMMA WaiterStays ==
  ASSUME MutexHeld, NEW p \in Peer, NEW q \in Peer, WaitsFor(p, q), Full(q)',
         NEW r \in Peer, Step(r)
  PROVE  WaitsFor(p, q)'
<1>1. /\ main \in [Peer -> MainState] /\ stab \in [Peer -> StabState]
      /\ mutex \in [Peer -> {"free", "main", "stab"}]
      /\ mutex[p] = "stab" <=> stab[p] # Idle
  BY DEF MutexHeld, ThreadsTypeOK
<1>2. main[p].doing \in {"lock", "connect"} /\ main[p] # Selecting /\ Full(q)
  BY DoingOnly DEF WaitsFor
<1>3. main'[p] = main[p]
  <2>1. CASE r # p
    BY <1>1, <2>1 DEF Step, CallComes, JoinComes, Stabilizing, Stabilize, StabilizeSent,
                      Main, Accept, Handle, Lock, Connected
  <2>2. CASE r = p /\ (CallComes(p) \/ JoinComes(p) \/ Stabilizing(p))
    BY <2>2 DEF CallComes, JoinComes, Stabilizing, Stabilize, StabilizeSent
  <2>3. ~Accept(p) /\ \A m \in accepted[p] : ~Handle(p, m)
    BY <1>2 DEF Accept, Handle
  <2>4. ~Connected(p) /\ ~Lock(p)
    BY <1>2 DEF Connected, Lock, WaitsFor
  <2> QED BY <2>1, <2>2, <2>3, <2>4 DEF Step, Main
<1>4. CASE main[p].doing = "connect" /\ main[p].to = q
  BY <1>3, <1>4 DEF WaitsFor
<1>5. CASE main[p].doing = "lock" /\ mutex[p] = "stab" /\ stab[p].to = q
  <2>1. stab'[p] = stab[p] /\ mutex'[p] = mutex[p]
    <3>1. CASE r # p
      BY <1>1, <3>1 DEF Step, CallComes, JoinComes, Stabilizing, Stabilize, StabilizeSent,
                        Main, Accept, Handle, Lock, Connected
    <3>2. CASE r = p /\ (CallComes(p) \/ JoinComes(p) \/ Accept(p) \/ \E m \in accepted[p] : Handle(p, m))
      BY <3>2 DEF CallComes, JoinComes, Accept, Handle
    <3>3. ~Stabilize(p) /\ ~StabilizeSent(p)
      BY <1>2, <1>5 DEF Stabilize, StabilizeSent
    <3>4. ~Lock(p) /\ ~Connected(p)
      BY <1>5 DEF Lock, Connected
    <3> QED BY <3>1, <3>2, <3>3, <3>4 DEF Step, Main, Stabilizing
  <2> QED BY <1>3, <1>5, <2>1 DEF WaitsFor
<1> QED BY <1>2, <1>4, <1>5 DEF WaitsFor

LEMMA CircleNext ==
  ASSUME MutexHeld, [ThreadsNext]_threadVars, NEW S \in SUBSET Peer, Deadlocked(S)
  PROVE  Deadlocked(S)'
<1>1. CASE UNCHANGED threadVars
  BY <1>1 DEF threadVars, Deadlocked, WaitsFor, Full
<1>2. CASE ThreadsNext
  <2>1. PICK r \in Peer : Step(r)
    BY <1>2 DEF ThreadsNext, Step
  <2>2. ASSUME NEW p \in S PROVE \E q \in S : WaitsFor(p, q)'
    <3>1. PICK q \in S : WaitsFor(p, q)
      BY DEF Deadlocked
    <3>2. main[q] # Selecting
      <4>1. \E x \in S : WaitsFor(q, x)
        BY DEF Deadlocked
      <4> QED BY <4>1, DoingOnly DEF WaitsFor
    <3>3. Full(q)'
      BY <2>1, <3>1, <3>2, FullStays DEF WaitsFor
    <3>4. WaitsFor(p, q)'
      BY <2>1, <3>1, <3>3, WaiterStays
    <3> QED BY <3>4
  <2> QED BY <2>2 DEF Deadlocked
<1> QED BY <1>1, <1>2

\* jft.DHT/peer.c: peers that wait for each other's full queues wait for ever,
\* whatever their stabilizing threads, their clients and the other peers do.
THEOREM CircleForGood == ThreadsSpec => CircleStays
<1>1. MutexHeld /\ [ThreadsNext]_threadVars
        => [\A S \in SUBSET Peer : Deadlocked(S) => Deadlocked(S)']_threadVars
  BY CircleNext
<1> QED BY <1>1, MutexAlwaysHeld, PTL DEF ThreadsSpec, CircleStays
=============================================================================
