--------------------------- MODULE RunnerStartup ---------------------------
(***************************************************************************)
(* Launching detached runners: the parent's side in async-execution.ts, the *)
(* runner's in subagent-runner-bootstrap.ts.  The two share files in the    *)
(* run's directory.  A runner may not start a child before its parent has   *)
(* recorded it and written the proceed control; a revival also acquires the *)
(* session's lease first and confirms it in a three-step exchange, ready,   *)
(* acknowledged, confirmed.  Either side gives up at any moment (timeouts,  *)
(* unreadable files, failed writes) and either may be killed.  Every launch *)
(* has a directory of its own; the revivals contend for one session.        *)
(***************************************************************************)
EXTENDS Naturals

CONSTANT
  Launches  \* runs that are launched, once each

ASSUME StartupAssumption == "free" \notin Launches

VARIABLES
  revivals,  \* the launches that resume the one session, under its lease
  parent,    \* where spawnRunner and its handshake are, by launch
  down,      \* launches whose parent process is gone
  runner,    \* where the runner process is
  startup,   \* state in runner-startup.json
  controls,  \* runner-startup-ack, -confirm and -proceed.json
  status,    \* status.json, as far as processTerminal tells states apart
  cand,      \* process-terminal-candidate.json
  proof,     \* process-terminal.json
  bound,     \* the active-capacity slot records this runner
  lease      \* whose token is in the session's lease

vars == <<revivals, parent, down, runner, startup, controls, status, cand, proof, bound, lease>>

Free == "free"
NoCandidate == [writers |-> "missing", token |-> FALSE, acked |-> FALSE]

\* The stage of the parent's wait for a runner state, and what it does next.
Waits == {"ready", "acknowledged", "confirmed"}
After == [ready |-> "ack", acknowledged |-> "confirm", confirmed |-> "commit"]

Gone(l) == runner[l] \in {"exited", "killed"}
Failing(l) == parent[l] \in {"failing", "killing", "failed"}
Committed(l) == runner[l] \in {"committed", "loading", "executing"}

At(l, stage) == l \notin down /\ parent[l] = stage
ParentGoes(l, stage) == parent' = [parent EXCEPT ![l] = stage]
RunnerGoes(l, stage) == runner' = [runner EXCEPT ![l] = stage]

-----------------------------------------------------------------------------
\* persistRunnerStartupFailure: two writes, of which none, one or both happen.
\* The candidate now expects no writers; only the runner knows the lease token.
PersistFailure(l, token) ==
  \/ UNCHANGED <<status, cand>>
  \/ /\ status' = [status EXCEPT ![l] =
          IF proof[l] \in {"observed", "unknown"} THEN "failed" ELSE "not-started"]
     /\ \/ UNCHANGED cand
        \/ cand' = [cand EXCEPT ![l].writers = "zero", ![l].token = @ \/ token]

\* Mutant of Conclusion: the lease is not looked at.
ConcludeByWriters(l) == IF cand[l].writers = "zero" THEN "observed" ELSE "unknown"

\* What finalizeProcessTerminal concludes from the candidate and the lease.
Conclusion(l) ==
  IF /\ cand[l].writers = "zero"
     /\ cand[l].token => lease = Free /\ cand[l].acked
    THEN "observed" ELSE "unknown"

-----------------------------------------------------------------------------
\* spawnRunner starts the process ...
Spawn(l) ==
  /\ At(l, "idle")
  /\ ParentGoes(l, "status")
  /\ RunnerGoes(l, "begin")
  /\ UNCHANGED <<down, startup, controls, status, cand, proof, bound, lease>>

\* ... records it as pending with its pid, ...
RecordStatus(l) ==
  /\ At(l, "status")
  /\ \/ ParentGoes(l, "sidecar") /\ status' = [status EXCEPT ![l] = "pending"]
     \/ ParentGoes(l, "failing") /\ UNCHANGED status
  /\ UNCHANGED <<down, runner, startup, controls, cand, proof, bound, lease>>

\* ... initializes the lifecycle files: first the candidate, then the proof, ...
InitializeProof(l) ==
  LET fresh == [writers |-> "none", token |-> FALSE, acked |-> FALSE] IN
  /\ At(l, "sidecar")
  /\ \/ /\ ParentGoes(l, "bind")
        /\ cand' = [cand EXCEPT ![l] = fresh] /\ proof' = [proof EXCEPT ![l] = "pending"]
     \/ /\ ParentGoes(l, "failing") /\ UNCHANGED proof
        /\ cand' \in {cand, [cand EXCEPT ![l] = fresh]}
  /\ UNCHANGED <<down, runner, startup, controls, status, bound, lease>>

\* Mutant of BindCapacity: an error of onBeforeProceed is swallowed.
BindOrIgnore(l) ==
  /\ At(l, "bind")
  /\ ParentGoes(l, IF l \in revivals THEN "ready" ELSE "proceed")
  /\ bound' \in {bound, [bound EXCEPT ![l] = TRUE]}
  /\ UNCHANGED <<down, runner, startup, controls, status, cand, proof, lease>>

\* ... binds the capacity slot (onBeforeProceed), and then authorizes or negotiates.
BindCapacity(l) ==
  /\ At(l, "bind")
  /\ \/ /\ ParentGoes(l, IF l \in revivals THEN "ready" ELSE "proceed")
        /\ bound' = [bound EXCEPT ![l] = TRUE]
     \/ ParentGoes(l, "failing") /\ UNCHANGED bound
  /\ UNCHANGED <<down, runner, startup, controls, status, cand, proof, lease>>

\* waitForRunnerStartup: the expected state, or an error, an exit or the timeout.
AwaitRunner(l, state) ==
  /\ At(l, state)
  /\ \/ startup[l] = state /\ ParentGoes(l, After[state])
     \/ ParentGoes(l, "failing")
  /\ UNCHANGED <<down, runner, startup, controls, status, cand, proof, bound, lease>>

\* writeRunnerStartupControl for the ack and the confirmation.
WriteControl(l, control, next) ==
  /\ At(l, control)
  /\ \/ ParentGoes(l, next) /\ controls' = [controls EXCEPT ![l] = @ \cup {control}]
     \/ ParentGoes(l, "failing") /\ UNCHANGED controls
  /\ UNCHANGED <<down, runner, startup, status, cand, proof, bound, lease>>

\* The last look at the process before the commit; an exit may not be seen yet.
CheckExit(l) ==
  /\ At(l, "commit")
  /\ \/ ParentGoes(l, "proceed")
     \/ Gone(l) /\ ParentGoes(l, "failing")
  /\ UNCHANGED <<down, runner, startup, controls, status, cand, proof, bound, lease>>

\* Mutant of Proceed: the writer throws for its clean-up although the control is there.
ProceedThenThrow(l) ==
  /\ At(l, "proceed")
  /\ ParentGoes(l, "launched") \/ ParentGoes(l, "failing")
  /\ controls' = [controls EXCEPT ![l] = @ \cup {"proceed"}]
  /\ UNCHANGED <<down, runner, startup, status, cand, proof, bound, lease>>

\* The commit; the startup file is then removed, on a best effort.
Proceed(l) ==
  /\ At(l, "proceed")
  /\ \/ /\ ParentGoes(l, "launched")
        /\ controls' = [controls EXCEPT ![l] = @ \cup {"proceed"}]
        /\ startup' \in {startup} \cup IF l \in revivals THEN {[startup EXCEPT ![l] = "none"]} ELSE {}
     \/ ParentGoes(l, "failing") /\ UNCHANGED <<startup, controls>>
  /\ UNCHANGED <<down, runner, status, cand, proof, bound, lease>>

\* persistPreProceedStartupFailure ...
ReportFailure(l) ==
  /\ At(l, "failing")
  /\ ParentGoes(l, "killing")
  /\ PersistFailure(l, FALSE)
  /\ UNCHANGED <<down, runner, startup, controls, proof, bound, lease>>

\* ... and terminateRunnerBeforeProceed: a signal kills without the exit hook.
Terminate(l) ==
  /\ At(l, "killing")
  /\ ParentGoes(l, "failed")
  /\ RunnerGoes(l, IF Gone(l) THEN runner[l] ELSE "killed") \/ UNCHANGED runner
  /\ UNCHANGED <<down, startup, controls, status, cand, proof, bound, lease>>

\* Mutant of Finalize: on the close event itself, before the handshake has reacted.
FinalizeAtOnce(l) ==
  /\ l \notin down /\ Gone(l)
  /\ proof[l] \in {"none", "pending"}
  /\ proof' = [proof EXCEPT ![l] = Conclusion(l)]
  /\ status' = [status EXCEPT ![l] = IF @ = "not-started" THEN "failed" ELSE @]
  /\ UNCHANGED <<parent, down, runner, startup, controls, cand, bound, lease>>

\* The close handler.  It runs a turn later (setImmediate), so a handshake that was
\* waiting has reported its failure before; the verdict also overlays status.json.
Finalize(l) ==
  /\ l \notin down /\ Gone(l) /\ parent[l] \in {"killing", "launched", "failed"}
  /\ proof[l] \in {"none", "pending"}
  /\ proof' = [proof EXCEPT ![l] = Conclusion(l)]
  /\ status' = [status EXCEPT ![l] = IF @ = "not-started" THEN "failed" ELSE @]
  /\ UNCHANGED <<parent, down, runner, startup, controls, cand, bound, lease>>

ParentDies(l) ==
  /\ l \notin down
  /\ down' = down \cup {l}
  /\ UNCHANGED <<parent, runner, startup, controls, status, cand, proof, bound, lease>>

-----------------------------------------------------------------------------
\* Mutant of Acquire: a live owner is no conflict.
AcquireHeld(l) ==
  /\ runner[l] = "begin" /\ l \in revivals
  /\ lease' = l
  /\ RunnerGoes(l, "ready") /\ startup' = [startup EXCEPT ![l] = "ready"]
  /\ UNCHANGED <<parent, down, controls, status, cand, proof, bound>>

\* A revival's runner acquires the lease, free or left by a dead process, and says so.
Acquire(l) ==
  /\ runner[l] = "begin" /\ l \in revivals
  /\ \/ /\ lease = Free \/ \E m \in Launches : lease = m /\ Gone(m)
        /\ lease' = l
        /\ \/ RunnerGoes(l, "ready") /\ startup' = [startup EXCEPT ![l] = "ready"]
           \/ RunnerGoes(l, "failing") /\ UNCHANGED startup
     \/ RunnerGoes(l, "failing") /\ UNCHANGED <<startup, lease>>
  /\ UNCHANGED <<parent, down, controls, status, cand, proof, bound>>

\* waitForStartupControl, and the runner's answer to the control.
Answer(l, here, control, next) ==
  /\ runner[l] = here /\ control \in controls[l]
  /\ RunnerGoes(l, next)
  /\ startup' = [startup EXCEPT ![l] = next]
  /\ UNCHANGED <<parent, down, controls, status, cand, proof, bound, lease>>

\* The proceed control starts the run, whoever else gives up from now on.
Commit(l) ==
  /\ runner[l] = (IF l \in revivals THEN "confirmed" ELSE "begin")
  /\ "proceed" \in controls[l]
  /\ RunnerGoes(l, "committed")
  /\ controls' \in {controls, [controls EXCEPT ![l] = {}]}
  /\ UNCHANGED <<parent, down, startup, status, cand, proof, bound, lease>>

\* Mutant of GiveUp: no timeout on the last wait, for the proceed control.
GiveUpEarly(l) ==
  /\ runner[l] \in {"ready", "acknowledged"}
  /\ RunnerGoes(l, "failing")
  /\ UNCHANGED <<parent, down, startup, controls, status, cand, proof, bound, lease>>

\* The 30-second timeout, or an unreadable control, before the commit.
GiveUp(l) ==
  /\ \/ runner[l] \in {"ready", "acknowledged", "confirmed"}
     \/ runner[l] = "begin" /\ l \notin revivals
  /\ RunnerGoes(l, "failing")
  /\ UNCHANGED <<parent, down, startup, controls, status, cand, proof, bound, lease>>

\* The catch block before the commit.
ReportError(l) ==
  /\ runner[l] = "failing"
  /\ RunnerGoes(l, "releasing")
  /\ startup' \in {startup, [startup EXCEPT ![l] = "error"]}
  /\ UNCHANGED <<parent, down, controls, status, cand, proof, bound, lease>>

\* A revival names its token in the candidate before the heavy import.
RecordToken(l) ==
  /\ runner[l] = "committed" /\ l \in revivals
  /\ \/ /\ RunnerGoes(l, "loading") /\ UNCHANGED status
        /\ cand' = [cand EXCEPT ![l].token = @ \/ cand[l].writers # "missing"]
     \/ RunnerGoes(l, "releasing") /\ PersistFailure(l, TRUE)
  /\ UNCHANGED <<parent, down, startup, controls, proof, bound, lease>>

\* The execution and its child sessions are loaded, or fail to load.
Load(l) ==
  /\ runner[l] = (IF l \in revivals THEN "loading" ELSE "committed")
  /\ \/ RunnerGoes(l, "executing") /\ status' = [status EXCEPT ![l] = "running"]
        /\ UNCHANGED cand
     \/ RunnerGoes(l, "releasing") /\ PersistFailure(l, l \in revivals)
  /\ UNCHANGED <<parent, down, startup, controls, proof, bound, lease>>

\* The end of runSubagent: the terminal status, and the candidate if it can be written.
Finish(l) ==
  /\ runner[l] = "executing"
  /\ RunnerGoes(l, "releasing")
  /\ status' = [status EXCEPT ![l] = "ended"]
  /\ \/ cand' = [cand EXCEPT ![l] = [writers |-> "zero", token |-> l \in revivals, acked |-> FALSE]]
     \/ UNCHANGED cand
  /\ UNCHANGED <<parent, down, startup, controls, proof, bound, lease>>

\* The finally block: release the lease, record the acknowledgement, and exit.
Release(l) ==
  /\ runner[l] = "releasing"
  /\ RunnerGoes(l, "exited")
  /\ \/ /\ lease = l /\ lease' = Free
        /\ cand' \in {cand, [cand EXCEPT ![l].acked = cand[l].token]}
     \/ UNCHANGED <<lease, cand>>
  /\ UNCHANGED <<parent, down, startup, controls, status, proof, bound>>

\* The runner is killed, or dies of an exception and its exit hook frees the lease.
RunnerDies(l) ==
  /\ runner[l] # "none" /\ ~Gone(l)
  /\ RunnerGoes(l, "killed")
  /\ lease' \in {lease, IF lease = l THEN Free ELSE lease}
  /\ UNCHANGED <<parent, down, startup, controls, status, cand, proof, bound>>

-----------------------------------------------------------------------------
Init ==
  /\ revivals \in SUBSET Launches
  /\ parent = [l \in Launches |-> "idle"]
  /\ down = {}
  /\ runner = [l \in Launches |-> "none"]
  /\ startup = [l \in Launches |-> "none"]
  /\ controls = [l \in Launches |-> {}]
  /\ status = [l \in Launches |-> "none"]
  /\ cand = [l \in Launches |-> NoCandidate]
  /\ proof = [l \in Launches |-> "none"]
  /\ bound = [l \in Launches |-> FALSE]
  /\ lease = Free

ParentStep(l) ==
  \/ RecordStatus(l) \/ InitializeProof(l) \/ BindCapacity(l)
  \/ \E state \in Waits : AwaitRunner(l, state)
  \/ WriteControl(l, "ack", "acknowledged") \/ WriteControl(l, "confirm", "confirmed")
  \/ CheckExit(l) \/ Proceed(l) \/ ReportFailure(l) \/ Terminate(l) \/ Finalize(l)

RunnerStep(l) ==
  \/ Acquire(l) \/ Commit(l) \/ GiveUp(l) \/ ReportError(l) \/ RecordToken(l) \/ Load(l) \/ Release(l)
  \/ Answer(l, "ready", "ack", "acknowledged") \/ Answer(l, "acknowledged", "confirm", "confirmed")

\* Whether a launch is a revival is decided before it.
Next ==
  /\ \E l \in Launches : \/ Spawn(l) \/ ParentStep(l) \/ ParentDies(l)
                         \/ RunnerStep(l) \/ Finish(l) \/ RunnerDies(l)
  /\ UNCHANGED revivals

Spec == Init /\ [][Next]_vars

\* Both sides run on and their waits end by timeouts, unless they are killed; nothing
\* says that the execution ends, or that anything is launched.
LiveSpec ==
  /\ Spec
  /\ \A l \in Launches : /\ WF_vars(ParentStep(l) /\ UNCHANGED revivals)
                         /\ WF_vars(RunnerStep(l) /\ UNCHANGED revivals)

-----------------------------------------------------------------------------
ParentStages == {"idle", "status", "sidecar", "bind", "ready", "ack", "acknowledged", "confirm",
                 "confirmed", "commit", "proceed", "failing", "killing", "launched", "failed"}
RunnerStages == {"none", "begin", "ready", "acknowledged", "confirmed", "committed", "loading",
                 "executing", "failing", "releasing", "exited", "killed"}

\* Every variable stays within its domain; only revivals hold the lease.
TypeOK ==
  /\ revivals \subseteq Launches
  /\ parent \in [Launches -> ParentStages]
  /\ down \subseteq Launches
  /\ runner \in [Launches -> RunnerStages]
  /\ startup \in [Launches -> {"none", "ready", "acknowledged", "confirmed", "error"}]
  /\ controls \in [Launches -> SUBSET {"ack", "confirm", "proceed"}]
  /\ status \in [Launches -> {"none", "pending", "not-started", "failed", "running", "ended"}]
  /\ cand \in [Launches -> [writers: {"missing", "none", "zero"}, token: BOOLEAN, acked: BOOLEAN]]
  /\ proof \in [Launches -> {"none", "pending", "observed", "unknown"}]
  /\ bound \in [Launches -> BOOLEAN]
  /\ lease \in revivals \cup {Free}

\* A launch that was reported as failed, or whose status says that nothing started,
\* never runs a child, although its runner may survive the kill: the caller has given
\* its capacity back and the slot may be someone else's (async-execution.ts:837).
FailureIsFinal ==
  \A l \in Launches :
    Failing(l) \/ status[l] = "not-started" => ~(runner[l] = "executing" \/ status[l] = "ended")

\* No child runs that the parent has not recorded: status with pid, candidate, proof
\* and capacity slot precede the authorization (process-terminal.ts:33).
ExecutesRecorded ==
  \A l \in Launches :
    Committed(l) => status[l] # "none" /\ cand[l].writers # "missing" /\ proof[l] # "none" /\ bound[l]

\* Of the revivals of one session at most one is past its commit at a time, and it
\* holds the session's lease.
OneRevivalCommitted ==
  \A l \in revivals : Committed(l) => lease = l

\* The promise of LeaseContract, as far as launches are its clients: a revival has the
\* session from its acquisition on, until it has released the lease or is gone.
Holds(l) ==
  \/ l \in revivals /\ runner[l] \in {"ready", "acknowledged", "confirmed",
                                      "committed", "loading", "executing"}
  \/ lease = l /\ runner[l] \in {"failing", "releasing"}

LeaseRecord  == {lease} \ {Free}
LeaseHolders == {l \in Launches : Holds(l)}

Contract == INSTANCE LeaseContract WITH
  Clients <- Launches, record <- LeaseRecord, holders <- LeaseHolders

\* The revivals use the session as the contract has it, whichever side of a launch gives
\* up or dies: none begins while another one's runner is alive, and none frees the
\* lease of another (subagent-runner-bootstrap.ts:139, 205).
KeepsContract == Contract!Spec

\* An observed proof of a run that went past its commit means that the lease it held
\* was given up: another revival need not wait for a judgement on a dead owner.
ObservedReleased ==
  \A l \in Launches : proof[l] = "observed" /\ status[l] = "ended" => lease # l

\* A failed startup whose candidate was persisted is not left with an unknown proof,
\* which would retain its capacity until the abandoned-slot timeout.
FailureProved ==
  \A l \in Launches : parent[l] = "failed" /\ cand[l].writers = "zero" => proof[l] # "unknown"

\* Nobody waits for ever: the parent gets an answer and the runner starts its child or
\* ends, whatever the other side does.
StartupSettles ==
  \A l \in Launches :
    /\ parent[l] # "idle" ~> parent[l] \in {"launched", "failed"} \/ l \in down
    /\ runner[l] # "none" ~> runner[l] = "executing" \/ Gone(l)
=============================================================================
