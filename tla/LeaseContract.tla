--------------------------- MODULE LeaseContract ----------------------------
(***************************************************************************)
(* What the revival lease of a session promises, whatever files it is made *)
(* of: the session is taken when nobody holds it, and the record names who *)
(* took it for as long as it is held.  SessionLease implements this with   *)
(* directories; RunnerStartup, which has the lease as one variable, keeps  *)
(* it over the whole of a launch.                                          *)
(***************************************************************************)

CONSTANT Clients  \* the processes that may take the session

VARIABLES
  record,   \* whom the lease names: nobody or one client
  holders   \* clients that live and hold the lease

contract == <<record, holders>>

Init == record = {} /\ holders = {}

Take(p) ==
  /\ holders = {}
  /\ record' = {p}
  /\ holders' = {p}

GiveUp(p) ==
  /\ p \in holders
  /\ record = {p} /\ record' = {}
  /\ holders' = holders \ {p}

\* A holder dies and leaves its record, ...
Lose(p) ==
  /\ p \in holders
  /\ holders' = holders \ {p}
  /\ UNCHANGED record

\* ... which others remove.
Vacate ==
  /\ holders = {}
  /\ record' = {}
  /\ UNCHANGED holders

Next == Vacate \/ \E p \in Clients : Take(p) \/ GiveUp(p) \/ Lose(p)

Spec == Init /\ [][Next]_contract
=============================================================================
