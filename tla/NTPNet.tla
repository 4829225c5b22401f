------------------------------- MODULE NTPNet -------------------------------
(***************************************************************************)
(* What lies between an NTP client of this repository and its servers (not *)
(* in the repository): UDP, which may lose, delay and duplicate, and       *)
(* servers that answer each request with the times it came and went on     *)
(* their own clock.  Time is counted in ticks of the client's clock, which *)
(* MaxNow bounds; MaxFaults bounds the datagrams lost and duplicated.      *)
(***************************************************************************)
EXTENDS NTPTimes

CONSTANTS Server,      \* the servers named on the command line
          theta,       \* how far the clock of each is ahead of the client's
          root,        \* the root dispersion of each
          MaxNow, MaxFaults

ASSUME NetAssumption == /\ theta \in [Server -> Int]
                        /\ root \in [Server -> 0..(Second - 1)]
                        /\ MaxNow \in Nat \ {0} /\ MaxFaults \in Nat

\* The clocks of the servers stay within the first two eras (1900 to 2172).
ASSUME ErasAssumption ==
  \A s \in Server : /\ 1 + theta[s] + EpochGap * Second >= 0
                    /\ MaxNow + theta[s] + EpochGap * Second < 2 * Era

VARIABLES now,      \* the client's clock
          packets,  \* requests, requests a server is working on, responses
          lost, duplicated
netVars == <<now, packets, lost, duplicated>>

\* "port" is the one a packet was sent from or is sent to, "req" the number of
\* the request, "copy" tells duplicates apart.
Bytes == Seq(0..(Base - 1))
Packet == [kind: {"request", "held", "response"}, server: Server, port: Nat, req: Nat,
           xmt: Nat, T2: Bytes, T3: Bytes, dispersion: Bytes, copy: 0..MaxFaults]

NetInit == now = 1 /\ packets = {} /\ lost = 0 /\ duplicated = 0

Passes == now' \in now..MaxNow

Request(s, port, req, xmt) ==
  [kind |-> "request", server |-> s, port |-> port, req |-> req, xmt |-> xmt,
   T2 |-> <<>>, T3 |-> <<>>, dispersion |-> <<>>, copy |-> 0]

Arrive(m) ==
  /\ m \in packets /\ m.kind = "request" /\ Passes
  /\ packets' = (packets \ {m}) \cup
                  {[m EXCEPT !.kind = "held", !.T2 = SendTime(now' + theta[m.server])]}
  /\ UNCHANGED <<lost, duplicated>>

Respond(m) ==
  /\ m \in packets /\ m.kind = "held" /\ Passes
  /\ packets' = (packets \ {m}) \cup
                  {[m EXCEPT !.kind = "response", !.T3 = SendTime(now' + theta[m.server]),
                             !.dispersion = SendShort(root[m.server])]}
  /\ UNCHANGED <<lost, duplicated>>

Lose(m) ==
  /\ m \in packets /\ m.kind # "held" /\ lost + duplicated < MaxFaults
  /\ packets' = packets \ {m} /\ lost' = lost + 1
  /\ UNCHANGED <<now, duplicated>>

Duplicate(m) ==
  /\ m \in packets /\ m.kind # "held" /\ lost + duplicated < MaxFaults
  /\ duplicated' = duplicated + 1
  /\ packets' = packets \cup {[m EXCEPT !.copy = duplicated']}
  /\ UNCHANGED <<now, lost>>

NetNext == \E m \in packets : Arrive(m) \/ Respond(m) \/ Lose(m) \/ Duplicate(m)
=============================================================================
