------------------------------ MODULE NTPTimes ------------------------------
(***************************************************************************)
(* The times and the root dispersion in a response: a time is sent as      *)
(* seconds and a fraction, each of Width bytes in network order; its       *)
(* seconds are those of NTP, whose count begins EpochGap (2208988800)      *)
(* before Unix time and starts again at zero when the bytes are full (in   *)
(* 2036).  Times are counted in units of a fraction's last bit; the        *)
(* rounding of doubles is left out.                                        *)
(***************************************************************************)
EXTENDS Integers, SequencesExt

CONSTANTS Base,      \* 256
          Width,     \* 4 bytes for seconds and fraction of a time, half for the dispersion's
          EpochGap

ASSUME TimesAssumption == /\ Base \in Nat /\ Base > 1
                          /\ Width \in Nat \ {0} /\ Width % 2 = 0 /\ EpochGap \in Nat

\* Base^n
Power[n \in 0..Width] == IF n = 0 THEN 1 ELSE Base * Power[n - 1]

Half == Width \div 2
Second == Power[Width]  \* units of a time's fraction
Era == Second * Second  \* until the count starts again

\* What servers do: the w lowest bytes of x, the highest first.
NetworkOrder(x, w) == [k \in 1..w |-> (x \div Power[w - k]) % Base]

SendTime(unix) ==
  LET t == unix + EpochGap * Second
  IN NetworkOrder(t \div Second, Width) \o NetworkOrder(t % Second, Width)

SendShort(d) ==
  NetworkOrder(d \div Power[Half], Half) \o NetworkOrder(d % Power[Half], Half)

-----------------------------------------------------------------------------
\* A slip: the bytes keep their order.
memcpy(src) == src

rv_memcpy(src) == Reverse(src)

\* What a little-endian machine reads.
Unsigned(bytes) ==
  LET value[n \in 0..Len(bytes)] ==
        IF n = 0 THEN 0 ELSE value[n - 1] + bytes[n] * Power[n - 1]
  IN value[Len(bytes)]

Field(bytes, from, w) == Unsigned(rv_memcpy(SubSeq(bytes, from, from + w - 1)))

\* *T2a + LFP2D(*T2b) - unix_ntp_time_const
ReadTime(bytes) ==
  Field(bytes, 1, Width) * Second + Field(bytes, Width + 1, Width) - EpochGap * Second

ReadShort(bytes) == Field(bytes, 1, Half) * Power[Half] + Field(bytes, Half + 1, Half)
=============================================================================
