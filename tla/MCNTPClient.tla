---------------------------- MODULE MCNTPClient ----------------------------
(* Two servers: the clock of one is ahead and about to begin a new era, that of
   the other is behind. *)
EXTENDS NTPClient, TLC

CONSTANTS s1, s2

Ahead == s1 :> 6 @@ s2 :> -2
Roots == s1 :> 1 @@ s2 :> 2
Both == <<s1, s2>>
=============================================================================
