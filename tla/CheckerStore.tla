---------------------------- MODULE CheckerStore ----------------------------
(***************************************************************************)
(* What the cache of compiled checkers promises: each key is filled once,  *)
(* with a good binary, and stays; a request for a key is answered with the *)
(* binary of the key once it is there, or with an error.  Implemented by   *)
(* CheckerCache, which says what the code does.                            *)
(***************************************************************************)
CONSTANTS Keys, Requesters, NoKey

VARIABLES store,   \* keys whose checker is available
          want,    \* requester -> key it asked for, or NoKey
          answer   \* requester -> "none", "good" or "error"

vars == <<store, want, answer>>

Init ==
  /\ store = {}
  /\ want = [r \in Requesters |-> NoKey]
  /\ answer = [r \in Requesters |-> "none"]

Request(r, k) ==
  /\ want[r] = NoKey
  /\ want' = [want EXCEPT ![r] = k]
  /\ UNCHANGED <<store, answer>>

\* The checker of a key somebody waits for becomes available.
Put(k) ==
  /\ k \notin store
  /\ \E r \in Requesters : want[r] = k /\ answer[r] = "none"
  /\ store' = store \cup {k}
  /\ UNCHANGED <<want, answer>>

Serve(r) ==
  /\ want[r] \in store
  /\ answer[r] = "none"
  /\ answer' = [answer EXCEPT ![r] = "good"]
  /\ UNCHANGED <<store, want>>

Refuse(r) ==
  /\ want[r] # NoKey
  /\ answer[r] = "none"
  /\ answer' = [answer EXCEPT ![r] = "error"]
  /\ UNCHANGED <<store, want>>

\* Requesters that are done, or dead.
Leave(R) ==
  /\ want' = [r \in Requesters |-> IF r \in R THEN NoKey ELSE want[r]]
  /\ answer' = [r \in Requesters |-> IF r \in R THEN "none" ELSE answer[r]]
  /\ UNCHANGED store

Next ==
  \/ \E r \in Requesters : (\E k \in Keys : Request(r, k)) \/ Serve(r) \/ Refuse(r)
  \/ \E k \in Keys : Put(k)
  \/ \E R \in SUBSET Requesters : Leave(R)

Spec == Init /\ [][Next]_vars
=============================================================================
