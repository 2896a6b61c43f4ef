----------------------------- MODULE MCSideSafe -----------------------------
(***************************************************************************)
(* Small instances of five components that share no state, checked for     *)
(* their safety properties in one run: the first state chooses the         *)
(* component that runs, the others stay as they begin.                     *)
(***************************************************************************)
EXTENDS ResultDelivery, FanoutBudget, ScheduledRuns, ExternalJob, Retention, TLC

\* One result that completes.
OneKey == <<"complete">>
OneBatched == {1}

\* Three processes; the largest batch is as large as the budget.
CONSTANTS p1, p2, p3
Batches == (p1 :> 2) @@ (p2 :> 1) @@ (p3 :> 1)

\* The processes that have the schedule open are alike.
Symmetry == Permutations(Managers)

\* Bound on the events of a schedule: commands, failures, deaths and the time that passes.
CONSTANT MaxEvents

VARIABLE part

SideInit ==
  /\ part \in {"delivery", "fanout", "schedule", "job", "retention"}
  /\ Init /\ FanoutInit /\ ScheduleInit /\ JobInit /\ RetentionInit
  /\ IF part = "schedule"
     THEN owns = Managers => trigger = [kind |-> "interval", catchUp |-> "latest"]
     ELSE owns = bound /\ trigger = [kind |-> "once", catchUp |-> "none"]

\* The passes of retention are alike, so it may always be the same one that begins.
FirstPassBegins ==
  latch = Nothing /\ latchTombs = {} /\ (\A p \in Passes : sweep[p] = "start") =>
    LET first == CHOOSE p \in Passes : TRUE IN
      \A p \in Passes \ {first} : sweep'[p] = "start"

\* A schedule is followed until the lock of a run that goes on is removed.
FewEvents == ~unguarded /\ (commands + errors + deaths + time <= MaxEvents)'

SideNext ==
  \/ /\ part = "delivery" /\ Next
     /\ UNCHANGED <<part, fanoutVars, scheduleVars, jobVars, retentionVars>>
  \/ /\ part = "fanout" /\ FanoutNext
     /\ UNCHANGED <<part, vars, scheduleVars, jobVars, retentionVars>>
  \/ /\ part = "schedule" /\ ScheduleNext /\ FewEvents
     /\ UNCHANGED <<part, vars, fanoutVars, jobVars, retentionVars>>
  \/ /\ part = "job" /\ JobNext
     /\ UNCHANGED <<part, vars, fanoutVars, scheduleVars, retentionVars>>
  \/ /\ part = "retention" /\ RetentionNext
     /\ FirstPassBegins
     /\ UNCHANGED <<part, vars, fanoutVars, scheduleVars, jobVars>>

SideSpec == SideInit /\ [][SideNext]_<<part, vars, fanoutVars, scheduleVars, jobVars, retentionVars>>
=============================================================================
