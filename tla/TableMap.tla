------------------------------- MODULE TableMap -------------------------------
(***************************************************************************)
(* What peerHashing promises: a map from keys to values and the response   *)
(* to the request it carried out last.                                     *)
(***************************************************************************)
EXTENDS TableOps

VARIABLES tab, response

MapInit == tab = [k \in Key |-> None] /\ response = None

Do(c) == tab' = Apply(tab, c) /\ response' = Result(tab, c)

MapNext == \E c \in Call : Do(c)

MapSpec == MapInit /\ [][MapNext]_<<tab, response>>
=============================================================================
