------------------------------ MODULE SlotPool ------------------------------
(***************************************************************************)
(* What the capacity pool of a session promises, whatever files it is made *)
(* of: a run is active in a place that is charged to it, from before it    *)
(* begins until it has ended, so no more runs are active than there are    *)
(* places.  A place is charged to one run, and a run to one place; it is   *)
(* freed, or passed on, only when its run is not active.                   *)
(***************************************************************************)

CONSTANTS
  Places,  \* the slots of the pool
  Runs     \* the runs that may be started

VARIABLES
  taken,   \* the places that somebody has taken
  charge,  \* the run each place is charged to: none, or one
  phase    \* where each run is: a run that has ended never begins again

pool == <<taken, charge, phase>>

Init ==
  /\ taken = {}
  /\ charge = [i \in Places |-> {}]
  /\ phase = [r \in Runs |-> "new"]

Uncharged(r) == \A i \in Places : r \notin charge[i]

Take(i) ==
  /\ i \notin taken
  /\ taken' = taken \cup {i}
  /\ UNCHANGED <<charge, phase>>

Charge(i, r) ==
  /\ i \in taken /\ charge[i] = {}
  /\ Uncharged(r) /\ phase[r] = "new"
  /\ charge' = [charge EXCEPT ![i] = {r}]
  /\ UNCHANGED <<taken, phase>>

Begin(r) ==
  /\ ~Uncharged(r) /\ phase[r] = "new"
  /\ phase' = [phase EXCEPT ![r] = "active"]
  /\ UNCHANGED <<taken, charge>>

\* A run ends, or will not begin any more; its place is still charged to it.
End(r) ==
  /\ phase' = [phase EXCEPT ![r] = "ended"]
  /\ UNCHANGED <<taken, charge>>

\* A new run, the revival of one that has ended, gets its place, ...
PassOn(i, q, r) ==
  /\ charge[i] = {q} /\ phase[q] = "ended"
  /\ Uncharged(r) /\ phase[r] = "new"
  /\ charge' = [charge EXCEPT ![i] = {r}]
  /\ UNCHANGED <<taken, phase>>

\* ... and gives it back if it is not started.
GiveBack(i, r, q) ==
  /\ charge[i] = {r} /\ phase[r] # "active"
  /\ Uncharged(q) /\ phase[q] = "ended"
  /\ charge' = [charge EXCEPT ![i] = {q}]
  /\ UNCHANGED <<taken, phase>>

Release(i, r) ==
  /\ charge[i] = {r} /\ phase[r] # "active"
  /\ taken' = taken \ {i}
  /\ charge' = [charge EXCEPT ![i] = {}]
  /\ UNCHANGED phase

Next ==
  \/ \E i \in Places : Take(i)
  \/ \E i \in Places, r \in Runs : Charge(i, r) \/ Release(i, r)
  \/ \E i \in Places, q, r \in Runs : PassOn(i, q, r) \/ GiveBack(i, r, q)
  \/ \E r \in Runs : Begin(r) \/ End(r)

Spec == Init /\ [][Next]_pool
=============================================================================
