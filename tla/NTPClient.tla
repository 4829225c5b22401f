------------------------------ MODULE NTPClient ------------------------------
(***************************************************************************)
(* Block6/ntpclient.c and NTP/ntpclient.c, the client before it.  Each     *)
(* server of the command line is asked requestNumber times.  The client    *)
(* waits without end for the next datagram on its socket and takes it for  *)
(* the answer to what it has just asked.  The client of Block6 has one     *)
(* socket for all requests to a server, sleeps between them, and prints    *)
(* delay, offset and the dispersion of the last Window (8) round trips;    *)
(* the earlier one has a socket for every request.  What the earlier one   *)
(* prints is not modelled: it reads NTP fixed point as doubles.            *)
(*                                                                         *)
(* The system picks the port of a socket, and may pick the port of a       *)
(* closed one again while a duplicate for that one is still under way.     *)
(***************************************************************************)
EXTENDS NTPNet

CONSTANTS servers,         \* argv[2], argv[3], ...
          requestNumber,   \* argv[1]
          Port,            \* the ports the system gives out
          Window           \* 8

ASSUME ClientAssumption ==
  /\ servers \in Seq(Server) /\ requestNumber \in Nat \ {0} /\ Port \subseteq Nat \ {0}
  /\ Window \in Nat /\ Window > 1

VARIABLES program,  \* which of the two clients this is
          phase,    \* "send", "recv" (blocked in recvfrom), "sleep", "done" or "exited"
          i, j,     \* the loops over the servers and their requests
          port,     \* of socketfd, 0 while it is closed
          T1,       \* T1_unix of this request
          RTT,      \* one array for all servers
          overwritten,  \* where createNTPRequest writes the transmit time
          taken,    \* history: the answers taken since the last socket of Block6 was
                    \* opened, each with the request it was taken for
          printed   \* and what was printed of them: delay, offset, dispersions
clientVars == <<program, phase, i, j, port, T1, RTT, overwritten, taken, printed>>
vars == <<clientVars, netVars>>

Line == [RTT: Int, offset2: Int, dispersion: Int, rootDispersion: Nat]

\* A request is numbered through all servers.
This == (i - 1) * requestNumber + j

TypeOK ==
  /\ program \in {"Block6", "NTP"}
  /\ phase \in {"send", "recv", "sleep", "done", "exited"}
  /\ i \in 1..(Len(servers) + 1) /\ j \in 0..(requestNumber - 1)
  /\ port \in Port \cup {0} /\ (phase \in {"recv", "sleep"} => port # 0)
  /\ T1 \in Nat /\ RTT \in [0..(requestNumber - 1) -> Int]
  /\ overwritten \in {"T1", "unused"}
  /\ taken \in Seq([req: Nat, asked: Nat]) /\ printed \in Seq(Line)
  /\ packets \in SUBSET Packet

\* Stack memory 320 bytes above a local pointer of createNTPRequest is written:
\* in main's frame, as the compiler lays it out.  gcc -O0 keeps T1_unix there.
Init ==
  /\ NetInit
  /\ program \in {"Block6", "NTP"}
  /\ phase = (IF servers = <<>> THEN "done" ELSE "send")
  /\ i = 1 /\ j = 0 /\ port = 0 /\ T1 = 0
  /\ RTT = [k \in 0..(requestNumber - 1) |-> 0]
  /\ overwritten \in {"T1", "unused"}
  /\ taken = <<>> /\ printed = <<>>

-----------------------------------------------------------------------------
\* The time goes to &request + 40, not to request + 40: bytes 40 to 47 of the
\* request stay zero.
createNTPRequest(p) == Request(servers[i], p, This, 0)

\* The reversed bytes of a double make another double, here 0.
Smashed(t) == IF overwritten = "T1" THEN 0 ELSE t

Send ==
  /\ phase = "send" /\ Passes
  /\ port' \in IF port = 0 THEN Port ELSE {port}
  /\ T1' = Smashed(now')
  /\ packets' = packets \cup {createNTPRequest(port')}
  /\ phase' = "recv"
  /\ UNCHANGED <<program, i, j, RTT, overwritten, taken, printed, lost, duplicated>>

\* A server without an address, no descriptor for the socket, no way to send.
SendFails ==
  /\ phase = "send" /\ phase' = "exited"
  /\ UNCHANGED <<program, i, j, port, T1, RTT, overwritten, taken, printed, netVars>>

\* A slip: the window goes one entry too far, into an earlier server's.
dispersionOver(rtt) ==
  LET W == IF j > Window - 2 THEN (j - (Window - 1))..j ELSE 0..(requestNumber - 1)
  IN Max({rtt[a] : a \in W}) - Min({rtt[a] : a \in W})

\* RTT_max - RTT_min: over Window entries up to j, or all there are.
dispersion(rtt) ==
  LET W == IF j > Window - 2 THEN (j - (Window - 1))..j ELSE 0..j
  IN Max({rtt[a] : a \in W}) - Min({rtt[a] : a \in W})

RoundTrip(m, T4) == (T4 - T1) - (ReadTime(m.T3) - ReadTime(m.T2))

\* What is printed: offset2 is twice the offset, RTT twice the delay.
Printed(m, T4, rtt) ==
  [RTT |-> rtt[j],
   offset2 |-> (ReadTime(m.T2) - T1) + (ReadTime(m.T3) - T4),
   dispersion |-> dispersion(rtt),
   rootDispersion |-> ReadShort(m.dispersion)]

\* A slip: the response must carry the time this request was sent.
TakesOrigin(m) == m.kind = "response" /\ m.port = port /\ m.xmt = T1

\* Any datagram on the socket will do, from whom and for what it may be.
Takes(m) == m.kind = "response" /\ m.port = port

\* A slip: one request too many.
NextRequestOneMore ==
  IF j < requestNumber THEN j' = j + 1 /\ i' = i ELSE j' = 0 /\ i' = i + 1

\* The next request of the loops.
NextRequest ==
  IF j < requestNumber - 1 THEN j' = j + 1 /\ i' = i ELSE j' = 0 /\ i' = i + 1

Read(m) ==
  /\ phase = "recv" /\ m \in packets /\ Takes(m) /\ Passes
  /\ packets' = packets \ {m}
  /\ taken' = Append(taken, [req |-> m.req, asked |-> This])

Receive(m) ==
  /\ program = "Block6" /\ Read(m)
  /\ RTT' = [RTT EXCEPT ![j] = RoundTrip(m, now')]
  /\ printed' = Append(printed, Printed(m, now', RTT'))
  /\ phase' = "sleep"
  /\ UNCHANGED <<program, i, j, port, T1, overwritten, lost, duplicated>>

\* The earlier client closes its socket and asks again at once.
ReceiveFirst(m) ==
  /\ program = "NTP" /\ Read(m)
  /\ NextRequest /\ port' = 0
  /\ phase' = IF i' <= Len(servers) THEN "send" ELSE "done"
  /\ UNCHANGED <<program, T1, RTT, overwritten, printed, lost, duplicated>>

\* A slip: the client waits for some time and goes on to the next request.
ReceiveTimeout ==
  /\ phase = "recv" /\ phase' = "sleep"
  /\ UNCHANGED <<program, i, j, port, T1, RTT, overwritten, taken, printed, netVars>>

\* addrSize is not initialized; a negative one makes recvfrom fail.
ReceiveFails ==
  /\ phase = "recv" /\ \E m \in packets : Takes(m)
  /\ phase' = "exited"
  /\ UNCHANGED <<program, i, j, port, T1, RTT, overwritten, taken, printed, netVars>>

\* Block6: after the last request to a server its socket is closed.
Sleep ==
  /\ phase = "sleep" /\ NextRequest
  /\ IF i' = i THEN UNCHANGED <<port, taken, printed>>
     ELSE port' = 0 /\ taken' = <<>> /\ printed' = <<>>
  /\ phase' = IF i' <= Len(servers) THEN "send" ELSE "done"
  /\ UNCHANGED <<program, T1, RTT, overwritten, netVars>>

\* What comes for a closed socket is dropped, unless its port is open again.
Drop(m) ==
  /\ m \in packets /\ m.kind = "response" /\ m.port # port
  /\ packets' = packets \ {m}
  /\ UNCHANGED <<clientVars, now, lost, duplicated>>

Next == \/ Send \/ SendFails \/ ReceiveFails \/ Sleep
        \/ \E m \in packets : Receive(m) \/ ReceiveFirst(m) \/ Drop(m)
        \/ NetNext /\ UNCHANGED clientVars

\* The client runs, the server answers what reaches it and what is not lost
\* arrives.
Fairness == /\ WF_vars(Send) /\ WF_vars(Sleep)
            /\ WF_vars(\E m \in packets : Receive(m) \/ ReceiveFirst(m))
            /\ WF_vars((\E m \in packets : Arrive(m) \/ Respond(m)) /\ UNCHANGED clientVars)

Spec == Init /\ [][Next]_vars
FairSpec == Spec /\ Fairness

-----------------------------------------------------------------------------
Own(k) == taken[k].req = taken[k].asked

\* Waiting for each answer keeps requests and answers in step: late or lost, a
\* response is never taken for the answer to another request.  Only a duplicate
\* can be, for a later request on the same socket or one whose socket was given
\* the same port.
OwnAnswer ==
  \A k \in DOMAIN taken : Own(k) \/ (duplicated > 0 /\ taken[k].req < taken[k].asked)

\* What the printed numbers are worth: the true offset, give or take the whole
\* era a server's clock has begun anew, lies within half the delay of the one
\* printed, unless the answer is another request's or the time of the request
\* was overwritten.
OffsetWithinDelay ==
  \A k \in DOMAIN printed : Own(k) /\ overwritten # "T1" =>
    \E eras \in {0, 1} :
      LET error == printed[k].offset2 - 2 * (theta[servers[i]] - eras * Era) IN
      -printed[k].RTT <= error /\ error <= printed[k].RTT

\* The dispersion is that of the last Window round trips to this server,
\* although the array still holds those of the server before, and the root
\* dispersion is the one the server sent.
DispersionOfServer ==
  \A k \in DOMAIN printed :
    LET R == {printed[a].RTT : a \in (IF k > Window THEN k - Window + 1 ELSE 1)..k} IN
    /\ printed[k].dispersion = Max(R) - Min(R)
    /\ Own(k) => printed[k].rootDispersion = root[servers[i]]

\* The client gets to the end unless a datagram was lost (it then waits for
\* ever), or a call to the system failed.
Finishes == <>(phase \in {"done", "exited"} \/ lost > 0)
=============================================================================
