---------------------------- MODULE ResultOutbox ----------------------------
(***************************************************************************)
(* What the delivery of a run's results promises, without files, watchers, *)
(* sessions or reloads: the newest result is kept until its notification   *)
(* has been given, and a notification is given at most once.               *)
(***************************************************************************)
EXTENDS Naturals

CONSTANTS
  Versions,  \* the results a run has one after the other: 1 .. n
  Key        \* the completion key of each

VARIABLES
  newest,  \* the newest result that was written, 0 before the first
  box,     \* the result that is kept, 0 when there is none
  told     \* the completion keys whose notification was given

Init == newest = 0 /\ box = 0 /\ told = {}

\* A result replaces the one that is kept.
Post(v) ==
  /\ v = newest + 1
  /\ newest' = v /\ box' = v
  /\ UNCHANGED told

\* A notification is given, of the newest result or of one it has replaced.
Tell(v) ==
  /\ v <= newest /\ Key[v] \notin told
  /\ told' = told \cup {Key[v]}
  /\ UNCHANGED <<newest, box>>

\* Only a result whose notification was given is thrown away.
Discard ==
  /\ box # 0 /\ Key[box] \in told
  /\ box' = 0
  /\ UNCHANGED <<newest, told>>

Next == Discard \/ \E v \in Versions : Post(v) \/ Tell(v)

Spec == Init /\ [][Next]_<<newest, box, told>>
=============================================================================
