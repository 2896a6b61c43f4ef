-------------------------- MODULE ScriptedWorkflow --------------------------
(***************************************************************************)
(* The host side of a workflow script: runWorkflowScript in                *)
(* src/src/workflows/scripted-workflow.ts, with the semaphore of           *)
(* src/src/runs/shared/parallel-utils.ts.  The script runs in a worker     *)
(* thread and may call anything at any time; the host admits and launches  *)
(* children under a concurrency limit, answers the calls, and ends the     *)
(* workflow on its completion, an error, an abort or the timeout.          *)
(*                                                                         *)
(* A step is what the host does between two events of its loop, the        *)
(* promise callbacks of that step included.  Launches, admissions, steers  *)
(* and host commands are answered by others, in any order.                 *)
(***************************************************************************)
EXTENDS Naturals, Sequences, FiniteSets

CONSTANTS
  Keys,        \* children's keys
  Batch,       \* the admission each key belongs to: runs.all admits its calls together
  Reviews,     \* the keys whose launch is an explicit read-only review
  SideCalls,   \* steers and host commands
  Limit        \* globalConcurrencyLimit

ASSUME WorkflowAssumption == Limit \in Nat

VARIABLES
  admission,  \* of each batch: "none", "pending", "admitted" or "refused"
  phase,      \* where each launch is
  available, queue,  \* the launch semaphore
  stoppedLaunches,
  children,   \* the outcome recorded for each key
  answered,   \* the outcome the script has received for each key
  notified,   \* the outcomes reported to the parent for each key
  observed,   \* what the script has awaited
  side,       \* each side call: "none", "pending" or "settled"
  barrier,    \* acceptanceRecoveryBarrier
  ending,     \* "no", "flush" (assemblyAbortRequested), "finishing" or "settled"
  verdict,    \* how the workflow ends: "value" or "error"
  awaited,    \* the side calls that finish waits for
  aborted     \* the child signal

workflowVars == <<admission, phase, available, queue, stoppedLaunches, children, answered,
                  notified, observed, side, barrier, ending, verdict, awaited, aborted>>

launchVars == <<admission, phase, available, queue>>
outcomeVars == <<stoppedLaunches, children, answered, notified, barrier>>
endVars == <<ending, verdict, awaited, aborted>>

Batches == {Batch[k] : k \in Keys}
Launched(k) == phase[k] # "none"
WorkflowOver == ending \in {"finishing", "settled"}

Moves(k, p) == phase' = [phase EXCEPT ![k] = p]

\* Mutant of ReleasePermit: the permit goes back to the pool past the queue.
ReleasePastQueue(k, p) == Moves(k, p) /\ available' = available + 1 /\ UNCHANGED queue

\* release: the permit goes to the first in the queue, if there is one.
ReleasePermit(k, p) ==
  IF queue = <<>>
  THEN Moves(k, p) /\ available' = available + 1 /\ UNCHANGED queue
  ELSE /\ phase' = [phase EXCEPT ![k] = p, ![Head(queue)] = "granted"]
       /\ queue' = Tail(queue) /\ UNCHANGED available

\* A result of the launch itself may be no JSON; the script is told so in its place, and
\* so says the workflow's result, unless the workflow has settled.  What the host makes up
\* for a launch that was refused or stopped is always read.
Readings(k) ==
  {read \in BOOLEAN : ~read => ending # "settled" /\ (k \in stoppedLaunches => children[k] = "none")}

\* Mutant of Outcome: a stopped launch is recorded as it returns.
OutcomeAnyway(k, result, read) ==
  /\ children' = [children EXCEPT ![k] = IF read THEN result ELSE "unread"]
  /\ barrier' = (barrier \/ result = "review")
  /\ notified' = IF k \in stoppedLaunches THEN notified ELSE [notified EXCEPT ![k] = Append(@, result)]
  /\ answered' = IF ending = "settled" THEN answered
                 ELSE [answered EXCEPT ![k] = IF k \in stoppedLaunches THEN "stopped" ELSE result]
  /\ UNCHANGED stoppedLaunches

\* The launch promise settles with this outcome.  A launch that was stopped keeps the
\* outcome it was stopped with, and is not reported.  The script is answered.
Outcome(k, result, read) ==
  LET stopped == k \in stoppedLaunches
      kept == IF stopped /\ children[k] # "none" THEN children[k] ELSE result IN
  /\ children' = [children EXCEPT ![k] = IF ~read THEN "unread" ELSE IF stopped THEN @ ELSE result]
  /\ barrier' = (barrier \/ (~stopped /\ result = "review"))
  /\ notified' = IF stopped THEN notified ELSE [notified EXCEPT ![k] = Append(@, result)]
  /\ answered' = IF ending = "settled" THEN answered
                 ELSE [answered EXCEPT ![k] = IF read THEN kept ELSE "unread"]
  /\ UNCHANGED stoppedLaunches

-----------------------------------------------------------------------------
\* finish: the children are aborted, and the workflow settles once the side calls have.
Finish(outcome) ==
  /\ ~WorkflowOver
  /\ ending' = "finishing" /\ verdict' = outcome /\ aborted' = TRUE
  /\ awaited' = {x \in SideCalls : side[x] = "pending"}

\* A call after an abort that was only to let the script put its result together.
Refuse == ending = "flush" /\ Finish("error")

Run(k) ==
  /\ ending # "settled" /\ ~Launched(k)
  /\ \/ /\ Refuse /\ UNCHANGED <<admission, phase>>
     \/ /\ ending # "flush" /\ Moves(k, "called")
        /\ admission' = [admission EXCEPT ![Batch[k]] = IF @ = "none" THEN "pending" ELSE @]
        /\ UNCHANGED endVars
  /\ UNCHANGED <<available, queue, outcomeVars, observed, side>>

\* The batch is admitted, or refused by the host or the barrier.  Nothing is asked of
\* the host for a workflow that has ended.
Admit(b) ==
  /\ admission[b] = "pending"
  /\ LET blocked == barrier /\ \E k \in Keys \ Reviews : Batch[k] = b IN
       \E a \in {"admitted", "refused"} :
         /\ WorkflowOver => a = "admitted"
         /\ ~WorkflowOver /\ blocked => a = "refused"
         /\ admission' = [admission EXCEPT ![b] = a]
  /\ UNCHANGED <<phase, available, queue, outcomeVars, observed, side, endVars>>

\* A refused launch has failed, or stopped with the workflow.
Refused(k) ==
  /\ phase[k] = "called" /\ admission[Batch[k]] = "refused"
  /\ Outcome(k, IF aborted THEN "stopped" ELSE "failed", TRUE)
  /\ Moves(k, "done")
  /\ UNCHANGED <<admission, available, queue, observed, side, endVars>>

\* An admitted one takes a permit or waits for one, after its resume reference has been
\* resolved; unless that fails, or the launch or the workflow was stopped meanwhile.
Enter(k) ==
  /\ phase[k] = "called" /\ admission[Batch[k]] = "admitted"
  /\ LET late == WorkflowOver \/ k \in stoppedLaunches IN
       \/ /\ ~late /\ available > 0
          /\ available' = available - 1 /\ Moves(k, "granted")
          /\ UNCHANGED <<queue, outcomeVars>>
       \/ /\ ~late /\ available = 0
          /\ queue' = Append(queue, k) /\ Moves(k, "queued")
          /\ UNCHANGED <<available, outcomeVars>>
       \/ /\ Moves(k, "done") /\ Outcome(k, IF late THEN "stopped" ELSE "failed", TRUE)
          /\ UNCHANGED <<available, queue>>
  /\ UNCHANGED <<admission, observed, side, endVars>>

\* With its permit the child is launched, or gives the permit back.
StartLaunch(k) ==
  /\ phase[k] = "granted"
  /\ IF WorkflowOver \/ aborted \/ k \in stoppedLaunches
     THEN ReleasePermit(k, "done") /\ Outcome(k, "stopped", TRUE)
     ELSE Moves(k, "running") /\ UNCHANGED <<available, queue, outcomeVars>>
  /\ UNCHANGED <<admission, observed, side, endVars>>

Results == {"completed", "failed", "stopped", "review"}

\* The launch returns.  A child whose setup was aborted is launched again: the promise
\* of that launch is returned, not awaited, so the permit is released at once.
LaunchSettles(k) ==
  /\ phase[k] = "running"
  /\ \/ /\ \E result \in Results, read \in Readings(k) : Outcome(k, result, read)
        /\ ReleasePermit(k, "done")
     \/ /\ ~aborted /\ k \notin stoppedLaunches
        /\ ReleasePermit(k, "resumed") /\ UNCHANGED outcomeVars
  /\ UNCHANGED <<admission, observed, side, endVars>>

ReturnResumed(k) ==
  /\ phase[k] = "resumed"
  /\ \E result \in Results, read \in Readings(k) : Outcome(k, result, read)
  /\ Moves(k, "done")
  /\ UNCHANGED <<admission, available, queue, observed, side, endVars>>

\* What the host does by itself for a launch that was called for.
LaunchStep(k) == Refused(k) \/ Enter(k) \/ StartLaunch(k) \/ LaunchSettles(k) \/ ReturnResumed(k)

-----------------------------------------------------------------------------
\* A steer needs a launch of its key; both kinds are refused behind the barrier.
CallSide(x) ==
  /\ ending # "settled" /\ side[x] = "none"
  /\ \/ Refuse /\ UNCHANGED side
     \/ /\ ending # "flush" /\ ~barrier /\ \E k \in Keys : Launched(k)
        /\ side' = [side EXCEPT ![x] = "pending"] /\ UNCHANGED endVars
  /\ UNCHANGED <<launchVars, outcomeVars, observed>>

SideSettles(x) ==
  /\ side[x] = "pending"
  /\ side' = [side EXCEPT ![x] = "settled"]
  /\ UNCHANGED <<launchVars, outcomeVars, observed, endVars>>

Observe(x) ==
  /\ ending # "settled" /\ x \notin observed
  /\ observed' = observed \cup {x}
  /\ UNCHANGED <<launchVars, outcomeVars, side, endVars>>

\* stopChild
StopChild(k) ==
  /\ ending # "settled" /\ Launched(k) /\ children[k] = "none"
  /\ stoppedLaunches' = stoppedLaunches \cup {k}
  /\ children' = [children EXCEPT ![k] = "stopped"]
  /\ UNCHANGED <<launchVars, answered, notified, observed, side, barrier, endVars>>

\* The script returns or throws, its worker fails, the timeout passes, or the time to
\* put the result together is up.
ScriptEnds ==
  /\ \E outcome \in {"value", "error"} : Finish(outcome)
  /\ UNCHANGED <<launchVars, outcomeVars, observed, side>>

\* onAbort: with every child settled the script may be let finish; else the unsettled
\* launches are stopped, though no outcome is recorded for them.
AbortWorkflow ==
  /\ ending = "no"
  /\ \/ /\ \A k \in Keys : Launched(k) => children[k] # "none"
        /\ \E k \in Keys : Launched(k)
        /\ ending' = "flush" /\ aborted' = TRUE
        /\ UNCHANGED <<verdict, awaited, stoppedLaunches>>
     \/ /\ Finish("error")
        /\ stoppedLaunches' = stoppedLaunches \cup {k \in Keys : Launched(k) /\ children[k] = "none"}
  /\ UNCHANGED <<launchVars, children, answered, notified, observed, side, barrier>>

\* The workflow settles: a value counts only if everything called was awaited.
SettleWorkflow ==
  /\ ending = "finishing" /\ \A x \in awaited : side[x] = "settled"
  /\ ending' = "settled"
  /\ verdict' = IF \E x \in Keys \cup SideCalls :
                     /\ x \notin observed
                     /\ x \in Keys => Launched(x)
                     /\ x \in SideCalls => side[x] # "none"
                THEN "error" ELSE verdict
  /\ UNCHANGED <<launchVars, outcomeVars, observed, side, awaited, aborted>>

-----------------------------------------------------------------------------
WorkflowInit ==
  /\ admission = [b \in Batches |-> "none"]
  /\ phase = [k \in Keys |-> "none"]
  /\ available = Limit /\ queue = <<>>
  /\ stoppedLaunches = {}
  /\ children = [k \in Keys |-> "none"]
  /\ answered = [k \in Keys |-> "none"]
  /\ notified = [k \in Keys |-> <<>>]
  /\ observed = {}
  /\ side = [x \in SideCalls |-> "none"]
  /\ barrier = FALSE
  /\ ending = "no" /\ verdict = "none" /\ awaited = {} /\ aborted = FALSE

WorkflowNext ==
  \/ \E k \in Keys : Run(k) \/ LaunchStep(k) \/ StopChild(k)
  \/ \E b \in Batches : Admit(b)
  \/ \E x \in SideCalls : CallSide(x) \/ SideSettles(x)
  \/ \E x \in Keys \cup SideCalls : Observe(x)
  \/ ScriptEnds \/ AbortWorkflow \/ SettleWorkflow

WorkflowSpec == WorkflowInit /\ [][WorkflowNext]_workflowVars

-----------------------------------------------------------------------------
Outcomes == Results \cup {"none", "unread"}
Phases == {"none", "called", "queued", "granted", "running", "resumed", "done"}

\* Every variable stays within its domain.
WorkflowTypeOK ==
  /\ admission \in [Batches -> {"none", "pending", "admitted", "refused"}]
  /\ phase \in [Keys -> Phases]
  /\ available \in 0..Limit /\ queue \in Seq(Keys)
  /\ stoppedLaunches \subseteq Keys
  /\ children \in [Keys -> Outcomes] /\ answered \in [Keys -> Outcomes]
  /\ notified \in [Keys -> Seq(Results)]
  /\ observed \subseteq Keys \cup SideCalls /\ awaited \subseteq SideCalls
  /\ side \in [SideCalls -> {"none", "pending", "settled"}]
  /\ barrier \in BOOLEAN /\ aborted \in BOOLEAN
  /\ ending \in {"no", "flush", "finishing", "settled"}
  /\ verdict \in {"none", "value", "error"}

\* The script and the workflow's result are told the same of a child, and the parent once: a
\* child that was stopped stays so for everybody, whatever its launch returns later
\* (scripted-workflow.ts:2611).  The parent is told otherwise only of a result that the
\* script cannot be sent (scripted-workflow.ts:2330), and only a workflow that is over by an
\* abort may have a child whose outcome was not recorded, or recorded as stopped after the
\* fact.
OneStory ==
  \A k \in Keys :
    /\ Len(notified[k]) <= 1
    /\ notified[k] # <<>> => notified[k] = <<children[k]>> \/ children[k] = "unread"
    /\ children[k] = "unread" => answered[k] = "unread"
    /\ answered[k] # "none" =>
         answered[k] = children[k] \/ (WorkflowOver /\ children[k] \in {"none", "stopped"})

\* Every child called for is answered, or the workflow has settled: no permit is lost by
\* a launch that is stopped in the queue, refused, or launched again.
CallsAnswered == \A k \in Keys : Launched(k) ~> (answered[k] # "none" \/ ending = "settled")
=============================================================================
