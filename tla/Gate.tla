-------------------------------- MODULE Gate --------------------------------
(***************************************************************************)
(* What the in-flight gate promises: of the requests that share a slot at  *)
(* most one holds a token, a request is refused only while another one     *)
(* holds the slot's token, and a token is given back once.                 *)
(***************************************************************************)
CONSTANT
  Reqs      \* calls of tryAcquire

VARIABLES
  slot,     \* [Reqs -> what a mark distinguishes], fixed when the gate opens
  verdict,  \* [Reqs -> {"none", "valid", "empty"}]: what tryAcquire returned
  holders   \* requests whose mark is set

Init ==
  /\ verdict = [r \in Reqs |-> "none"]
  /\ holders = {}

Taken(r) == \E q \in holders : slot[q] = slot[r]

Acquire(r) ==
  /\ verdict[r] = "none" /\ ~Taken(r)
  /\ verdict' = [verdict EXCEPT ![r] = "valid"]
  /\ holders' = holders \cup {r}
  /\ UNCHANGED slot

Refuse(r) ==
  /\ verdict[r] = "none" /\ Taken(r)
  /\ verdict' = [verdict EXCEPT ![r] = "empty"]
  /\ UNCHANGED <<slot, holders>>

Release(r) ==
  /\ r \in holders
  /\ holders' = holders \ {r}
  /\ UNCHANGED <<slot, verdict>>

Next == \E r \in Reqs : Acquire(r) \/ Refuse(r) \/ Release(r)

Spec == Init /\ [][Next]_<<slot, verdict, holders>>

\* The marks live in the memory of the process and die with it: the same
\* promise over the restarts of the process.
Restart ==
  /\ holders' = {}
  /\ UNCHANGED <<slot, verdict>>

RestartingSpec == Init /\ [][Next \/ Restart]_<<slot, verdict, holders>>
=============================================================================
