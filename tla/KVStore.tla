------------------------------- MODULE KVStore -------------------------------
(***************************************************************************)
(* What the DHT promises its clients, with no peers in it: one map from    *)
(* keys to values.  A request is called, takes effect at most once at some *)
(* moment after that, and is answered at most once with the result it had  *)
(* at that moment.  Nothing says that it takes effect or is answered.      *)
(***************************************************************************)
EXTENDS TableOps

CONSTANT Request

VARIABLES store, call, outcome, answer
kvVars == <<store, call, outcome, answer>>

KVInit == /\ store = [k \in Key |-> None]
          /\ call = [r \in Request |-> None]
          /\ outcome = [r \in Request |-> None]
          /\ answer = [r \in Request |-> None]

Invoke(r) == /\ call[r] = None
             /\ \E c \in Call : call' = [call EXCEPT ![r] = c]
             /\ UNCHANGED <<store, outcome, answer>>

TakeEffect(r) == /\ call[r] # None /\ outcome[r] = None
                 /\ store' = Apply(store, call[r])
                 /\ outcome' = [outcome EXCEPT ![r] = Result(store, call[r])]

Commit(r) == TakeEffect(r) /\ UNCHANGED <<call, answer>>

\* The peer that owns the key is the one the client asked.
CommitAndReply(r) == /\ TakeEffect(r)
                     /\ answer' = [answer EXCEPT ![r] = Result(store, call[r])]
                     /\ UNCHANGED call

Reply(r) == /\ outcome[r] # None /\ answer[r] = None
            /\ answer' = [answer EXCEPT ![r] = outcome[r]]
            /\ UNCHANGED <<store, call, outcome>>

KVNext == \E r \in Request : Invoke(r) \/ Commit(r) \/ CommitAndReply(r) \/ Reply(r)
=============================================================================
