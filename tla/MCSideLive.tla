----------------------------- MODULE MCSideLive -----------------------------
(***************************************************************************)
(* Small instances of six components that share no state, checked in one   *)
(* run for what must happen in the end: the first state chooses the        *)
(* component that runs, the others stay as they begin.  Each component has *)
(* the fairness that its module's section of the README justifies.         *)
(* Only RunnerStartup, whose names clash with SessionLease's, is an        *)
(* instance.                                                               *)
(***************************************************************************)
EXTENDS SessionLease, WaitSubscriptions, ScriptedWorkflow, ChildSession, ForegroundRun, TLC

CONSTANT Launches

\* Three contenders for a lease, on one host.
CONSTANTS a, b, c
OneHost == [p \in {a, b, c} |-> "h1"]
OwnPids == (a :> 1) @@ (b :> 2) @@ (c :> 3)

\* Two children, admitted together.
CONSTANTS k1, k2
OneBatch == (k1 :> 1) @@ (k2 :> 1)

VARIABLES
  part,
  revivals, parent, down, runner, startup, controls, status, cand, proof, bound, lease

launch == <<revivals, parent, down, runner, startup, controls, status, cand, proof, bound, lease>>
Launch == INSTANCE RunnerStartup

SideInit ==
  /\ part \in {"revival", "launch", "wait", "workflow", "session", "foreground"}
  /\ Init /\ Launch!Init /\ WaitInit /\ WorkflowInit /\ ChildInit /\ ForegroundInit
  /\ part # "launch" => revivals = {}

SideNext ==
  \/ /\ part = "revival" /\ Next
     /\ UNCHANGED <<part, launch, waitVars, workflowVars, childVars, foregroundVars>>
  \/ /\ part = "launch" /\ Launch!Next
     /\ UNCHANGED <<part, vars, waitVars, workflowVars, childVars, foregroundVars>>
  \/ /\ part = "wait" /\ WaitNext
     /\ UNCHANGED <<part, vars, launch, workflowVars, childVars, foregroundVars>>
  \/ /\ part = "workflow" /\ WorkflowNext
     /\ UNCHANGED <<part, vars, launch, waitVars, childVars, foregroundVars>>
  \/ /\ part = "session" /\ ChildNext
     /\ UNCHANGED <<part, vars, launch, waitVars, workflowVars, foregroundVars>>
  \/ /\ part = "foreground" /\ ForegroundNext
     /\ UNCHANGED <<part, vars, launch, waitVars, workflowVars, childVars>>

\* A process that acquires a lease goes on while it lives; a parent and its runner go on
\* unless they die.
StartupFairness ==
  /\ \A p \in Procs : WF_vars(part = "revival" /\ life[p] = "alive" /\ Acquire(p))
  /\ \A l \in Launches :
       /\ WF_launch(part = "launch" /\ Launch!ParentStep(l) /\ UNCHANGED revivals)
       /\ WF_launch(part = "launch" /\ Launch!RunnerStep(l) /\ UNCHANGED revivals)

\* Time passes, and the reconcile timer of each process runs while it has something to do.
WaitFairness ==
  /\ \A w \in Subs : WF_waitVars(part = "wait" /\ TimePasses(w))
  /\ \A p \in Hosts :
       WF_waitVars(part = "wait" /\ (Sweep(p) \/ \E w \in Subs : ReconcileWait(p, w)))

\* The host goes on while it has an admission to answer or a launch that can proceed, and
\* a launch returns.
WorkflowFairness ==
  WF_workflowVars(/\ part = "workflow"
                  /\ (\E x \in Batches : Admit(x)) \/ (\E k \in Keys : LaunchStep(k)))

\* The timers of a child session fire.  Nothing is assumed of the session.
SessionFairness ==
  /\ WF_childVars(part = "session" /\ DrainPasses)
  /\ WF_childVars(part = "session" /\ HardPasses)
  /\ WF_childVars(part = "session" /\ TailPasses)

\* The host goes on while it has a question to poll for, a call that has its result or a
\* detached child to follow; and an aborted question ends.
ForegroundFairness ==
  WF_foregroundVars(/\ part = "foreground"
                    /\ Poll \/ CallProceeds \/ CallbackProceeds \/ AskCancelled)

SideSpec ==
  /\ SideInit
  /\ [][SideNext]_<<part, vars, launch, waitVars, workflowVars, childVars, foregroundVars>>
  /\ StartupFairness /\ WaitFairness /\ WorkflowFairness /\ SessionFairness /\ ForegroundFairness

-----------------------------------------------------------------------------
\* The liveness of RunnerStartup, stated in its module.
StartupSettles == Launch!StartupSettles
=============================================================================
