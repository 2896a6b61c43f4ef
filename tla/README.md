# Verification of pi-subagents

pi-subagents lets a session of the Pi coding agent delegate work to child agents.
A foreground child runs inside the parent process. A background ("async") run is
executed by a detached runner process that may outlive its parent. The two sides,
and every other process that opens the same session later, share nothing but files:
`status.json`, startup controls, a process-terminal proof, leases, capacity slots and
result files. This directory holds TLA+ models of the protocols on those files, the
TLC configurations that check them on small instances, and TLAPS proofs.

    tlc -config <X>.cfg MC<Module>.tla      model-check one run
    tlapm <Module>Proofs.tla                check one module's proofs

`PROJECT.json` lists the runs with their configurations, the source lines behind every
definition, mutated definitions that each property detects, hazards, findings and theorems.

## 1. Inventory

Paths are relative to `src/src/`. "bg" is `runs/background`.

| component | state it keeps | operations | talks to |
|---|---|---|---|
| session revival lease, `runs/shared/session-lease.ts` | a lease directory with `owner.json`; tombstones of reclaimed leases | acquire (4 rounds), updateWriter, release, inspect | taken by the runner of a revival, inspected by the process-terminal proof |
| active async capacity, `bg/active-async-capacity.ts` | one directory per slot, `owner.json`, a claim file; handles in memory | reserve, transfer to a revival, markStarted, rollbacks, reconcile | called around each launch; reads status and proof |
| runner startup, `bg/async-execution.ts` (spawnRunner), `bg/subagent-runner-bootstrap.ts` | `runner-startup*.json` controls, `status.json` | spawn, record, bind, three-step handshake, proceed, failure | capacity, lease, process-terminal |
| process-terminal proof, `bg/process-terminal.ts` | candidate and proof of each run | initialize, candidate, acknowledge release, finalize | written by both sides, read by capacity and retention |
| result delivery, `bg/result-files.ts`, `result-watcher.ts`, `notify.ts`, `completion-batcher.ts`, `completion-dedupe.ts`, `result-delivery-ownership.ts` | pending, public and index files; in-memory seen keys, batches, process-global send registry, ownership epoch | write, promote, handle, notify, mark, remove, session change, reload | fed by runners and the reconciler; feeds waits and missions |
| chain run and its reconciliation, `bg/subagent-runner.ts`, `bg/chain-append.ts`, `bg/control-channel.ts`, `bg/stale-run-reconciler.ts` | `status.json`, the result, request files in the run's directory, the marker of the steering inbox | steps, append, stop, interrupt, timeout, steer; judge a runner dead, repair as failed, write a result | runner, its parents and whoever looks at the run; result delivery |
| waits, `bg/wait-subscriptions.ts`, `bg/subagent-wait.ts`, `wait-*.ts` | a record per subscription, a map in each process | arm, restore, reconcile, settle, sweep | the run waited for, the session |
| scheduled runs, `bg/scheduled-runs.ts` | schedule, launch lock, receipts and history; timers | create, fire, run by hand, claim, complete, pause, resume, delete, restore | launch, completions |
| retention, `bg/async-retention.ts` | a lock, tombstones and markers | discover, classify, remove a run, remove its result | all files of old runs |
| fan-out and spawn budgets, `runs/shared/run-fanout-budget.ts`, `spawn-budget.ts` | slot files of a tree of runs, an admission lock | admit a batch, undo it | launches of nested runs |
| workflows, `workflows/scripted-workflow.ts`, `runs/shared/parallel-utils.ts` | children by key, permits, side calls, how it ends | admit, launch, stop, abort, settle | the script in its worker, the executor |
| child session, `bg/run-child-session.ts`, `runs/shared/child-lifecycle.ts` | flags and timers of one child; steers it has accepted, and those that wait for a session | prompt, drain, stop, interrupt, timeout, steer, settle | Pi's session, the run's status |
| foreground execution, `runs/foreground/execution.ts`, `subagent-executor.ts`, `foreground-control.ts` | the run's control, the remembered run, the receipt of a detached run | start, abort, interrupt, detach, retry, finish | Pi's session, the parent's turn, workflows |
| supervisor channel, `intercom/native-supervisor-channel.ts` | request and reply files, pending requests | ask, poll, reply, cancel | the child's tool call, the parent's turn |
| external jobs, `runs/shared/external-job-bridge.ts` | request, claim directory, response | request, claim, dispatch, respond, cancel | a provider's extension in some host process |
| the rest: parallel groups, run indexes, launch and resume, watchdog, missions, nested runs, worktrees, acceptance, agents and policy, user interface | see `PROJECT.json`, "components" | | |

What is hard in this code, and where:

- *Atomicity over files.* Every decision is read, then judge, then rename, with other
  processes in between: lease reclaim, capacity release, promotion of results.
- *Crashes.* A process may be killed between any two calls and leaves directories
  without an owner, claim files without a claimer, results without their final name.
- *Two sides that give up.* Parent and runner wait for each other's files with timeouts of
  their own; one side's timeout races the other side's last write.
- *One event loop, many awaits.* The result handler waits for an intercom answer and a
  batch while session changes, reloads and newer results come between.
- *Retries of what was done.* A notification that was accepted, with a file that could not
  be marked, is handled again.
- *Waiting for each other.* A parent's turn waits for a tool call, the call for a child, and
  the child for the parent's answer.

What makes each component correct is what its module states (section 3).

## 2. Modules

| module | what it is | source |
|---|---|---|
| `SessionLease` | the lease, one action per system call | session-lease.ts |
| `LeaseContract` | abstract: a session is taken when nobody holds it | |
| `SessionLeaseProofs` | types, mutual exclusion until a release overtakes a contender, refinement of `LeaseContract` | |
| `AsyncCapacity` | the slots with the launch that uses them | active-async-capacity.ts, parts of async-execution.ts |
| `SlotPool` | abstract: a run begins in a place charged to it, which it keeps until it has ended | |
| `AsyncCapacityProofs` | types, the limit, the charge, the claim file and its end, no lost slot, refinement of `SlotPool` | |
| `RunnerStartup` | both sides of a launch, and the process-terminal proof | async-execution.ts, subagent-runner-bootstrap.ts, process-terminal.ts |
| `RunnerStartupProofs` | failure is final, nothing runs unrecorded, one revival, what a proof says, refinement of `LeaseContract` | |
| `ResultOutbox` | abstract: keep the newest result until it was told | |
| `ResultDelivery` | files, handler, notifier, session changes | result-files.ts, result-watcher.ts, notify.ts |
| `ResultDeliveryProofs` | types, ownership, at-most-once, truth of marks, nothing thrown away too early, refinement of `ResultOutbox` | |
| `RunLifecycle` | a chain run: runner, requests, reconciliation | subagent-runner.ts, chain-append.ts, control-channel.ts, stale-run-reconciler.ts |
| `RunLifecycleProofs` | types, no silent end, settled steers, appends taken once | |
| `WaitSubscriptions` | non-blocking waits across processes and sessions | wait-subscriptions.ts |
| `ScheduledRuns` | one schedule in several processes | scheduled-runs.ts |
| `FanoutBudget` | batches admitted under a lock that is taken from the dead | run-fanout-budget.ts |
| `Retention` | passes that remove an old run and its result | async-retention.ts |
| `RetentionProofs` | types, nothing needed is removed, results outlive runs | |
| `ScriptedWorkflow` | admission, permits, stops and the end of a workflow | scripted-workflow.ts, parallel-utils.ts |
| `ChildSession` | events, timers and the end of a child of a detached run | run-child-session.ts, child-lifecycle.ts |
| `ForegroundRun` | a foreground child that may detach, and its questions | execution.ts, subagent-executor.ts, native-supervisor-channel.ts |
| `ExternalJob` | one prompt, dispatched by one of several hosts | external-job-bridge.ts |
| `SideSafeProofs` | budgets: types, a committed batch is paid for, all children within the limit; external jobs: types, one dispatch, none after a cancellation; schedules: types, no overlap, always armed | |
| `SideLiveProofs` | waits: told once, never forgotten; workflows: one story, no permit and no wake-up lost; child sessions: clean ends, always a timer; foreground runs: followed to their end, questions known | |
| `MCSessionLease`, `MCRunnerStartup`, `MCResultDelivery`, `MCRunLifecycle`, `MCScheduledRuns` | small instances | |
| `MCSideSafe`, `MCSideLive` | several components side by side, for safety and for what must happen in the end | |

The modules meet at the files and abstract each other there. `RunnerStartup` takes the
lease as one step that succeeds when it is free or its holder is dead, which `SessionLease`
details: both implement `LeaseContract`. Its `bound` is the slot's owner record, detailed in `AsyncCapacity`;
`AsyncCapacity` implements `SlotPool`; it has the startup as Spawn, Authorize and Abort and takes the proof's
verdict as a choice, which `RunnerStartup` details. The stale-run reconciler is in
`RunLifecycle`; it appears in `AsyncCapacity` as `RepairStatus` alone, and in
`ResultDelivery` as one of the writers of results. `RunLifecycle` takes a result as one
file, whose pending and public halves `ResultDelivery` details, and a child as a step with a
beginning and an end, which `ChildSession` details. `WaitSubscriptions`, `ScheduledRuns` and
`Retention` see a run as the few states that they distinguish; a scheduled run's launch
is `RunnerStartup`'s.

The two side modules run components that share no state: the first state chooses one (`part`),
the others stay as they begin. `MCSideSafe` extends `ResultDelivery`, `FanoutBudget`,
`ScheduledRuns`, `ExternalJob` and `Retention`; `MCSideLive` extends `SessionLease`, `WaitSubscriptions`,
`ScriptedWorkflow`, `ChildSession` and `ForegroundRun`, and has `RunnerStartup`, whose names clash
with those of the lease, as an instance. Nothing is composed by this: it is one model-checking run
over several small systems, and every property speaks of one of them. A property of a
component holds trivially in the states of the others, so the sizes below are given for each.

Names follow the source where TLA+ allows it. An operator named in "Mutant of ..." is not
part of a specification: it is the plausible bug that a property must detect.

## 3. What each module says, and what the runs show

### SessionLease

A candidate directory with `owner.json` is renamed onto the lease path (`Create`). If that
fails the contender looks again (`RecheckExists`), reads the record (`Inspect`), judges
it (`CheckStale`), and moves a stale lease to `<lease>.stale-<token>` (`Reclaim`), for at most
`MaxAttempts` rounds. Release is unlink and then rmdir; a death may come between any two
calls. The process stands for its token, since tokens are random. `overtaken` is a history
variable: a contender has judged stale an owner that had given the lease up since its record
was read.

| run | instance | shows |
|---|---|---|
| `lease_takeover` | 4 processes, 2 sharing a pid, 1 on another host (394 k states) | until somebody was overtaken: exclusion (`TakeoversExclude`), and each system call is a step of `LeaseContract` (`KeepsContract`) |
| `side_live`, revival | 3 processes of one host (25 k) | the retained tombstone elects one successor as long as owners only crash (`CrashesKeepExclusion`); a crashed owner's lease is taken over, unless a contender is killed or the pid is reused |
| `lease_split_mutex` | as above | **finding**: when a release overtakes a contender, two processes hold the lease |

Three processes are what the hazards need: an owner that disappears, a contender with an old
judgement, and a successor whose lease the old judgement would move. The fourth is the process
on another host, which shares a pid with a local one and may never reclaim. Four rounds is
the source's value. Platforms without start identities (`Identity = FALSE`) are covered by the
theorems, which leave it open.

Refinement: the record of `LeaseContract` is the owner record in the directory (nobody's, when
the directory is absent or half removed), its holders are the live processes between acquisition
and the first call of their release. A takeover of a dead owner's lease is two steps of it,
`Vacate` and `Take`, between which others may come. The mutant of the last call of a release,
which removes what a successor has put there by then, breaks it without two holders at once.

The finding: read (274), probe (275) and rename (283) are separate. A contender that read
the owner's record while it was alive, and probes after that owner *released* and exited
and another acquired, finds it dead and no tombstone, and moves the successor's live lease. The
comment at session-lease.ts:278-280 argues from the tombstone, which only a reclaimed lease
leaves. The window is small, but nothing closes it. `TakeoversExclude` says that it is the
only one: half-done releases, kills, reused pids and late renames by themselves let nobody in.

Not modelled: `updateWriter` and the writer states of an owner record. `updateWriter` has no
caller under `src/src` at this commit, only in test/unit/session-lease.test.ts:204, so every
record says that its owner has no writer, and the writer protection of `demonstrablyStale`
(177-180) is in place but not in use.

### AsyncCapacity

Slots are directories made by an exclusive `mkdir`. Changes of an existing slot happen inside a
claim (`Claim`, body, `Unclaim`) and compare the expected owner (`Matches`). A reconciliation
reads all slots first and removes one at a time (`Scan`, `Judge`, `Claim`,
`RemoveOwnedSlot`), so its verdict may be old. A launch reserves (`Admit`, `Place`,
`WriteOwner`) or transfers (`StartResume`, `Transfer`), spawns, binds (`MarkStarted`), and
authorizes; or it undoes (`UndoBeforeProceed`) or rolls back (`Rollback`, `GiveBack`).

| run | instance | shows |
|---|---|---|
| `capacity_shared` | 2 processes, 2 runs, 1 slot, 1 kill (737 k states) | the limit; charged from the reservation until the process is gone; every reservation is bound or given back while one process at a time has the session open; the slot of a run proved over is released or passed on; each step on the slots is a step of `SlotPool` (`KeepsPool`) |

Two runs on one slot already reuse the slot, which every stale verdict needs, and let one revive
the other and be rolled back. `together` is history: it remembers whether two live processes
have had the session open at once. The safety properties were also checked with two kills and
with two slots (174 k and 964 k states under symmetry), and with three runs on two slots, one
process at a time, so that a revival is revived (4.5 M states under symmetry).

Refinement: a place of `SlotPool` is taken when its directory exists, and charged to the run
its owner record names (`Charge`). A run is active while its runner executes and its status
says so, new before that and ended from then on (`PhaseOf`), whatever happens to its files.
Everything between two renames or writes of a slot stutters; what counts is that
a verdict, a rollback or a transfer, each decided on an earlier reading, is still right when
it is carried out.

Two limits of the code that the model shows, and that no sentence of the repository denies:

- `NoOrphanReservation` is about the histories with one process at a time. With two processes on one
  session, a stale removal can hold the claim file of a re-created slot while its new owner
  binds it and then rolls it back: each fails with EEXIST, and the unbound slot
  stays for good, because an unbound slot has no release verdict.
- A claim file left by a killed process never expires (`EventuallyReleased` excuses it).

Not modelled: slots of kind workflow, and failing writes while a slot is given back.

### RunnerStartup

The parent: `Spawn`, `RecordStatus`, `InitializeProof`, `BindCapacity`, `AwaitRunner` and
`WriteControl` for the steps of the handshake, `CheckExit`, `Proceed`; or `ReportFailure`,
`Terminate` and `Finalize`. The runner: `Acquire`, `Answer`, `Commit`, `RecordToken`,
`Load`, `Finish`, `Release`; or `GiveUp`, `ReportError`. Every wait may time out,
every write may fail, and either process may be killed at any point.

| run | instance | shows |
|---|---|---|
| `startup_safe` | 2 launches, any of them revivals (7.6 M states) | a failed launch never executes; what executes was recorded; one revival past its commit; a recorded failure is proved; an observed proof means that the lease was given up |
| `side_live`, launch | 1 launch, fresh or a revival (4.3 k) | the exchange ends for both sides |

Which launches are revivals is chosen in the initial state (`revivals`).
Each launch has a directory of its own, so launches meet only at the session's lease, and two
contenders make every meeting. `Finalize` is enabled only after the failure was persisted:
the close handler defers by `setImmediate` for this (async-execution.ts:818-820), and
dropping that order violates `FailureProved`.

Refinement of `LeaseContract`: the record is whose token the lease has, and a revival holds the
session from its acquisition through the whole exchange and execution until it has released it,
by what its runner does and not by what the lease says. A failed or refused release, the exit
hook, a kill from the parent and a takeover from the dead are each one step of the contract.
This is a theorem; the runs leave it out for its time (TLC takes 4:20 min for it on the instance
of `startup_safe`, and finds it violated when `Release` does not look whose the lease is).

Two behaviours the model has that are worth knowing. A runner may time out
after its parent wrote the proceed control: the parent reports a launch, the runner never
executes, and the stale-run reconciler has to notice. And the lease is inspected when the
close of the runner is handled (process-terminal.ts:181): if a second revival has the
released lease by then, the proof becomes `unknown`, which is sticky.

### ResultDelivery

A run may have several results, one after the other: paused, judged dead, finished after all.
Each is written to the pending file and renamed to the public one. The parent reads a file
(`Read`), records the completion for waits (`Record` in `Skip` and `Announce`), may ask
the intercom (`IntercomAnswers`), hands it to the notifier (`Deliver`), which may hold it
for a batch (`EmitGroup`), resumes after its last await (`Resume`), marks the file (`Mark`,
`PromoteMark`), and removes it (`Unlink`, `Unindex`). `SwitchSession` and `Reload` come at
any await; the handlers of a replaced extension instance go on to their own awaits.

`loop` is the instance inside a synchronous section. With `Fine = TRUE` the writer is
another process and its calls fall between the calls of a section; with FALSE it is in the
parent (reconciler, cancel) and runs between sections only. Handlers resume in
microtasks in the source; the model also lets other events of the loop come first, which adds
behaviours and removes none.

| run | instance | shows |
|---|---|---|
| `side_safe`, delivery | 1 result, 3 instances, Fine, refused renames, 2 failures, 2 session changes | a result is kept until it was told and recorded for waits (`KeptUntilSettled`), and only the owner touches a file (`OwnerOnly`) |
| `delivery_turns` | 2 results, 2 instances, coarse, 2 failures, 2 changes (296 k) | a newer result that replaces one under delivery is kept until told (refinement of `ResultOutbox`); at most one notification; true marks; the newest result is told in the end and its files go |
| `delivery_replaced` | 2 results, Fine | **finding**: the newer result is lost |

Two results are one replacement, and the states of the keys differ as in the code's case of
a run judged failed that completes. Three instances are two reloads, so that a handler can be two
owners behind. Two failures let a retry fail as well. Two results with `Fine`, three
instances and refused renames (3.3 M states) were also checked for the properties that the
theorems of section 4 state without a hypothesis; the coarse run with three instances
(1.5 M) for all of its own.

The finding: the check for a replaced payload before the mark (result-watcher.ts:578) reads
the public file only. The mark is written over the *pending* file of the run. When
the runner's newer result is still pending at that moment (between its write and its rename,
result-files.ts:169-271) the mark overwrites it, is promoted and removed, and the newer
result was never told. With one writer in the same process the sections exclude it,
except where the public file may refuse to be replaced (Windows): a blocked promotion leaves the
newer result pending too. `delivery_turns` therefore has `CanBlock = FALSE`.

Refinement: `ResultOutbox` keeps a newest result, one box and the set of keys told.
`Box` maps the pending file when there is one, else the public file. Every step is an
outbox step or a stutter (`DeliversOutbox`).

Limits: the completion keys' ten-minute lifetime does not expire in the model; a session
change may add the left session to the claimed predecessors, whose list of eight never
overflows; index files are abstracted, so that a scan finds every file; a batch has one
member; deliveries over the intercom are at least once, which the code does not try to avoid.
After a restart of the parent process the completion owner differs, and the new process does
not deliver the dead one's results; the model covers one parent process.

### RunLifecycle

A chain run from its first step to its last word. The runner is one event loop: `Take`,
`BeginStep`, `EndStep` and `LeaveLoop` are its loop, `ScanInbox` and `Received` what its
handlers do with requests while it awaits, `CloseInbox`, `DrainInbox`, `Publish` and
`WriteLast` its end; it may be killed anywhere. A caller of append reads the status, writes its
request, and writes the status back as it was read (`ReadForAppend`, `QueueAppend`,
`AnswerAppend`). An observer reads the status, looks for a result, corrects the status by it
(`Fix`) or probes the pid and repairs (`Probe`, `WriteFailed`, `MarkFailed`), and may crash
between any two of these.

A status that ends the run comes with a result, in two writes (subagent-runner.ts:2239 and
2240): `Write` is the first, `WriteStatus` the second, and a kill or another process may come
between them. Both go through the writer of capacity-resilient-json.ts, which holds a write
back, per file, while the storage is full (`Lacks`) and tries it again later (`RetryResult`,
`RetryStatus`); so a status may be on disk whose result is still held back. If the runner is
killed then, the result is lost and nobody makes it up, as a status that is not running is
never repaired. `NoSilentEnd` excuses this one case (`owing`); of a run that says complete,
and of a runner that exits, it excuses nothing (CHANGELOG.md:330). Left out: a write that fails
for another reason than capacity, but for that of the final result (`PublishFails`); the marker
of the inbox is taken to be written at once.

| run | instance | shows |
|---|---|---|
| `lifecycle` | 1 step, 1 append, 1 steer, 1 request to end, 1 write that lacks storage, 1 observer that may crash, at most 3 of these in all, long silences | an end in the status is backed by a result, or its result was held back and lost; an accepted steer gets an outcome; a run whose runner is gone does not stay running |
| `lifecycle_queued` | 1 step, 1 append, nothing else | **finding**: an append that is answered "queued" may never run |
| `lifecycle_repaired` | 1 step, 1 observer, no requests, no crashes | **finding**: a result is overwritten by a repair |

One of each suffices, because every hazard here is one process against the runner: a second
append, steer or observer meets the first only through the status, which one of them already
writes stale. Of the append, the steer, the request to end, the write that lacks
storage and the crash of the observer, at most three come in one history (`MaxEvents`), besides the
runner's own death, which may come anywhere: a hazard is one of them in the midst of another, and the
third comes on top of that. `LongSilence` lets a live runner be taken for dead by its silence.

The findings. The answer to append-step says that the step is queued, and the status it was decided on
may be old: the runner has taken its last look when the request is written, and no
later status says so. And `reconcileAsyncRun` looks for a result, then probes the
pid, then writes the failure without looking again: a runner that publishes and exits in
between is found dead, and its result is replaced.

Known behaviours of the code that no sentence of the repository denies: a `Fix` may write an old paused
state over a later end; a runner killed between its result and its last status is repaired as
failed once the result was delivered and removed, although its completion was announced; the
stale write of an append turns a terminal status back to running until the next repair;
a request that cannot be removed after its steps were taken repeats them
(chain-append.ts:143; `Sticky`, off in the runs). The marker of the steering inbox, when
its write is deferred for lack of space, is not modelled.

### ScheduledRuns

Every process with the project open has its own timer for the schedule. A handler (`Fire`,
`RunManual`, `RunDue`, `Pause`, `ResumeSchedule`, `Delete`, `CompleteScheduled`, `BindSession`) reads
the record once and then works on its copy. `todo[p]` is what the handler of process p has left to
do: a list of operations, each of which is one step (`WriteRecord`, `RemoveLock`, `Claim`, `NoteClaimed`,
`Judge`, ...), so that those of other processes come between any two. The launch itself is awaited
with no list: `LaunchReturns` and `LaunchFails` begin new ones, and the run may have been started
(`StartWork`) before either. `FireFails` is an operation of a fire that fails, with the restoration that
follows (803-823). A process may die anywhere, also between the lock and the record.

| run | instance | shows |
|---|---|---|
| `side_safe`, schedule | 2 processes, 2 launches, a history of 2 records, time 0..2, 1 command, 1 fire that fails, 1 death, at most 3 of these events in all; an interval and a single time, with and without catching up (1.4 M states under symmetry) | no run is launched over another unless the lock of a run that goes on was removed (`SkipsOverlap`), what such a removal takes (`UnguardedForCause`), an interval schedule stays armed (`KeepsArmed`) |
| `schedule_revived` | 3 launches, 2 commands, time 0..1 | **finding**: a run is launched over one that executes |

Two launches are what an overlap takes. A history of two records is the least with which a record is
dropped while its run goes on. The processes are compared with each other only, so that symmetry is
sound; the schedule belongs to the sessions of both processes only in the instance of an interval that
catches up, to that of the first in the others. A schedule is followed until the lock of a run that
goes on is removed: what comes after is what the finding is about.

The finding. `launch` makes `active.lock` (860), writes the record with its claim (880) and only then adds the
run to the history (881). A process that opens the project in between reads the claim, does not
find its run in the history and takes the claim for one that is over (`!run`, 767). It writes the record without the
claim (776) and removes `active.lock` (777), while the first process goes on and launches the run. The
next launch finds neither claim nor lock, and two runs execute at once, although
docs/missions.md:124 says that "`overlap` is currently fixed to `skip`". The trace has 15 states.

What is left of that sentence is said by two properties. `SkipsOverlap`: two runs execute at once only
if a handler has removed the lock of a run that was going on (`unguarded`). `UnguardedForCause`: that
happens only where handlers of two processes ran at once (`together`), each on the record it had read,
or after one of three mishaps, each named by an operator: the launch was given up though it went
on, by its own error or by the five minutes of 767 (`GivesUp`); the full history dropped the record of a run that went on
(`Drops`, 378); a process died between giving up a claim and recording that (`CutShort`): finishRun does
not look whether the claim in the record is that of the run that finished, so that a completion that
comes late clears the claim of the next one (932-933). `OverlapSkipped`, the claim of the finding, allows
the mishaps and leaves out `together`.

Known besides: a process that dies, or fails, between making the lock and writing the record leaves a lock that no
record leads to, so every later occurrence is skipped; resume and create arm the timer of the
acting process only; a completion that comes before its run is attached is lost.

Abstractions. An operation that fails has done nothing, and only fires have operations that fail;
restoreAfterFireError itself, which loses the timer if it fails, does not. `writeRun` is one step, and so are the
looks of `Judge` at history and status; the record was read before. The five
minutes of a stale claim may have passed at any time. Time moves only between handlers. A process keeps its
session (`owns`), so a second restoration when the session changes is left out, and with one
schedule nothing is awaited between two launches of run-due. Several schedules and the parsing of times are left out.

### The components of `side_safe`

`side_safe` has 2.3 M states, the parts side by side: delivery 435 k, fanout 41 k, schedule 1.4 M
(see above), job 6 k, retention 365 k.

| part | instance | properties |
|---|---|---|
| delivery | see ResultDelivery | `KeptUntilSettled`, `OwnerOnly` |
| fanout | 3 processes, budget 2, 1 kill | `AdmittedPaid` |
| job | 3 hosts, any of which may die | `DispatchedOnce`, `CancelledNotDispatched` |
| retention | 2 passes of which always the same begins, 1 kill | `KeepsReferenced`, `ResultOutlivesRun` |

**FanoutBudget.** A process makes the lock directory and names itself in it (`TryLock`,
`NameLock`); one that finds it taken reads and probes the owner and renames a stale lock away
(`ReadOwner`, `ProbeOwner`, `Evict`); in the lock it counts, claims its batch slot by slot,
and commits, or undoes what it made. What is started is paid for by slots. Eviction renames
whatever stands at the path by then, so a *live* lock may be taken by a process with an old
verdict; the property speaks of the histories without such a theft (`robbed`), the others break it.
Three processes are a dead owner, one with an old verdict, and one whose lock it takes.

**ExternalJob.** Hosts sweep the same request; the one that renames its claim directory into
place calls the provider. A claim of a dead host is settled by another host as abandoned or
by its recorded handle. A prompt is dispatched once, except after an abandoned claim was dropped: a host
that had read the request before then dispatches it although the caller was told "abandoned"
(407-418, 476-480). Three hosts are the one that dies, the one that settles, the late one.

**Retention.** A pass holds a lock that is taken over after a day. It discovers the run,
renames it to its tombstone, marks the result, reads the references again, and removes the
directory or puts it back; then results without a run are treated likewise. References
(`Refer`, `Dismiss`) change at any time. A run that something came to refer to while it was
in place loses nothing as long as the reference stands; a result outlives its run's
directory, unless the lock is taken from a pass that is alive (`seized`). Known:
the tombstone of a killed pass is only ever removed, so a run that is referred to again stays
hidden there; the grace period of tombstones has no effect, since a rename keeps the time
of modification; a torn tombstone without a status blocks its result for good; an owner on
another host is never stale. One host and one run are modelled, one pass per process as in
the code; the cursor, protected runs and the repair of running candidates are not.

### The components of `side_live`

| part | instance | properties |
|---|---|---|
| revival | see SessionLease (25 k states) | `CrashesKeepExclusion`, `StaleElectsSuccessor` |
| launch | see RunnerStartup (4.3 k) | `StartupSettles` |
| wait | 2 processes, 2 sessions, 1 subscription, 3 openings, 1 failed unlink (26 k) | `WokenOnce`, `WaitEnds` |
| workflow | 2 children of one batch, 1 permit, 1 side call (108 k) | `OneStory`, `CallsAnswered` |
| session | 1 steer, 2 watchdog reports (110 k) | `EndsCleanly`, `ChildEnds` |
| foreground | 2 questions (11 k) | `FollowedToItsEnd`, `ForegroundSettles` |

**WaitSubscriptions.** A record on disk, a map in each process. `OpenSession` restores the
records of its session, `ReconcileWait` settles what is due (removes, then tells), `Sweep`
removes foreign records a day after their expiry. A wait is told once although a record
cannot be removed or its session moves between processes; where one session is open in
two processes at once (`shared`) each tells it, which the code does not try to avoid. Waits that
block within one call and the automatic drain are not modelled.

**ScriptedWorkflow.** `Admit`, `Enter`, `StartLaunch`, `LaunchSettles` follow a launch through admission and the
semaphore; `StopChild`, `AbortWorkflow` and `ScriptEnds` come at any time; `Finish` and
`SettleWorkflow` end. Script, parent and result are told the same outcome of a child, and no
call hangs for a permit. One difference is in the code and in the property: a result that is no
JSON (`Readings`) cannot be sent to the script, which gets an error, as the workflow's result does
(scripted-workflow.ts:2326-2333, 2489, 2634), although the parent was told of the outcome of the
launch (2617); src/test/unit/scripted-workflow.test.ts:751-801 asserts it. So `OneStory` lets the
parent's report differ for such a child, and for no other. Two children and one permit are one that waits and one that it waits for.
Known: the launch that resumes an aborted setup is returned, not awaited, so it runs outside
its permit (scripted-workflow.ts:2597), while docs/configuration.md:310 gives the limit for
all children; the model has it.

**ChildSession.** Events of Pi's session in any order, with the drain, hard, tail and abort
timers. A steer is accepted as soon as the step runs (`Steer`): while the session is being created,
or after it has settled, the steer waits in the runner (`WaitingSteers`, subagent-runner.ts:2934),
`CreateSession` hands over what waits, `LaterAttempt` is another session of the step that does so,
and `RunSettles`, the end of the run, fails what has no outcome by then (4888-4894). So a child that
settles before its session is open leaves a steer "routed" behind, and nothing is said of
it until another attempt or the end of the run. The settled child leaves no timer and no steer without
outcome of those it was given; an open session has been given all, and no run ends with one
without outcome; and the result says what was asked for last. An asked end and a drain come to
their end whatever the session does. The ledger keeps the last requests only (steering.ts:71), which one steer does not
reach. Two reports of the watchdog are one that starts a review and one that ends it.

**ForegroundRun.** `runSync` races the completion of the child with a receipt: `DetachByUser`,
or a question that `Poll` finds, gives the receipt, the call returns (`Return`,
`Remember`, `Leave`), and the child is followed by `onDetachedExit` (`StartCallback`,
`FinishCallback`). The control lists the run while its scheduling owner or its child holds it
(`held`). Aborts of the call reach an attached child only, an interrupt comes through the
control, a timeout and an interrupt give way to each other, a shutdown of the session
aborts an attached child; `Judge` may resume one attempt. The control is there while the child lives;
the recorded end is the child's; a question's file is not dropped while the child waits;
and parent and child never wait for each other, without counting on the question's time limit.
Two questions are one that detaches the run and one after that. The agent is one that may detach for
coordination (`allowIntercomDetach`), as every child with the channel is.

Known: if the hand-off of the worktree of a detached run throws, the run stays "detached" in
memory for ever, because `onDetachedExit` skips the update and `runSync` swallows the error
(`handoffLost`); a reply written in the last 250 ms before the question's time limit is
confirmed to the parent and not read by the child. Not modelled: foreground-history.json,
which several processes read, modify and write without a lock, and in which detached runs are
not kept.

### Fairness

- `SessionLease` (`side_live`): acquisition is straight-line synchronous code, so a live
  process finishes it. Nobody has to start, release or die.
- `AsyncCapacity!LiveSpec`: an operation that has begun runs on; a process with the session
  open keeps reconciling, since each launch, status request, completion and
  process-terminal event does (index.ts:926-938).
- `RunnerStartup` (`side_live`): both sides run on, and their waits end by their timeouts.
  Nothing says that an execution ends.
- `ResultDelivery!LiveSpec`: due handlers run, a batch has a longest wait and the intercom a
  time limit, and a file that is there is found by the next scan (30 s beside a native watcher,
  and on demand where there is none). Writers, session changes and reloads owe nothing.
- `RunLifecycle!LiveSpec`: somebody keeps looking at the run. Neither runner nor children owe
  anything.
- `WaitSubscriptions`: time passes, and the timer of each process runs while it has something
  to settle or to sweep. No session has to be opened.
- `ScriptedWorkflow`: the host's event loop goes on while an admission or a launch can proceed,
  and launches return; scripts, steers and host commands owe nothing.
- `ChildSession`: its timers fire. Nothing is assumed of the session.
- `ForegroundRun`: the host's event loop goes on while it has to poll, to return a call
  or to follow a detached child, and the tool call of an aborted child ends. Children, users and
  time limits owe nothing.

Weak fairness suffices everywhere: no property needs a step that is enabled only now and then.
Where one condition covers several steps of an event loop it is the weaker assumption: *some*
of them happens while any is enabled.
Deadlock checking is off in all runs, because every one of these systems may come to rest: all
processes dead, all runs over, all results delivered.

## 4. What is proved

All theorems hold for every value of the constants under the named assumption of their
module, which only says what the constants are (a limit is a natural number, a placeholder
is none of the processes). Further hypotheses are in the statement of the theorem; there are
two, named below. Each inductive invariant was first checked by TLC on small instances.

| module | theorems (the property of a run in brackets) | hypothesis |
|---|---|---|
| `SessionLeaseProofs` | `TypeCorrect`, `TakeoverExcludes` (`TakeoversExclude`), `TombstoneExcludes` (`CrashesKeepExclusion`), `ImplementsContract` (`KeepsContract`) | |
| `AsyncCapacityProofs` | `CapacityTypeCorrect`, `LimitKept` (`ActiveWithinLimit`), `ChargeKept` (`ChargedUntilGone`), `ClaimsExclude`, `NoSlotLost` (`NoOrphanReservation`), `OnlyKillsLeak`, `ImplementsPool` (`KeepsPool`) | |
| `RunnerStartupProofs` | `TypeCorrect`, `FailedNeverExecutes` (`FailureIsFinal`), `NothingUnrecorded` (`ExecutesRecorded`), `RevivalsExclude` (`OneRevivalCommitted`), `FailuresProved` (`FailureProved`), `ObservedReleases` (`ObservedReleased`), `ImplementsContract` | |
| `ResultDeliveryProofs` | `TypeCorrect`, `OnlyOwners` (`OwnerOnly`), `NotifiedAtMostOnce` (`NotifiedOnce`), `MarksTellTheTruth` (`MarkedWasTold`) | |
| | `KeptToTheEnd` (`KeptUntilSettled`), `ImplementsOutbox` (`DeliversOutbox`) | `Undisturbed` |
| `RunLifecycleProofs` | `LifecycleTypeCorrect`, `NeverSilent` (`NoSilentEnd`), `SteerSettled` (`AcceptedSteerSettled`) | |
| | `AppendsOnce` | `~Sticky` |
| `SideSafeProofs` | `FanoutTypeCorrect`, `FanoutAdmittedPaid` (`AdmittedPaid`), `FanoutWithinLimit` | |
| | `JobTypeCorrect`, `JobDispatchedOnce` (`DispatchedOnce`), `JobCancelledNotDispatched` (`CancelledNotDispatched`) | |
| | `ScheduleTypeCorrect`, `ScheduleSkipsOverlap` (`SkipsOverlap`), `ScheduleKeepsArmed` (`KeepsArmed`) | |
| `SideLiveProofs` | `WaitTypeCorrect`, `WaitWokenOnce` (`WokenOnce`), `WaitNotForgotten` | |
| | `WorkflowTypeCorrect`, `WorkflowOneStory` (`OneStory`), `WorkflowPermits`, `WorkflowWakes` | |
| | `ChildTypeCorrect`, `ChildEndsCleanly` (`EndsCleanly`), `ChildTimed` | |
| | `ForegroundTypeCorrect`, `ForegroundFollowed` (`FollowedToItsEnd`), `ForegroundKnows` | |
| `RetentionProofs` | `RetentionTypeCorrect`, `ReferencedKept` (`KeepsReferenced`), `ResultOutlives` (`ResultOutlivesRun`) | |

**The lease.** Mutual exclusion is not inductive: nothing in it says what a contender that
is about to rename will find. `IInv` adds where a live holder's record is
(`HolderIsRecorded`) and why a pending reclaim is harmless (`ReclaimJustified`: the stale
owner's own lease is still there, or its occupied tombstone makes the rename fail), both
until a contender was overtaken, and that recorded owners have started and have not given up
what is recorded (`RecordNotGivenUp`). `OvertakenByRelease` says that nobody is overtaken while
owners only crash, which gives `CrashesKeepExclusion`. The refinement of `LeaseContract` needs no
more: by `HolderIsRecorded` a directory without a record has no holder, so it may be taken, and
by `ReclaimJustified` a record that is moved away is that of a dead owner.

**Capacity.** `CapacityInv`. That no more runs execute than there are slots follows from each
one's handle naming a bound slot that names the run (`ExecutingCharged`, `OwnersHeld`). This
survives a reconciliation with an old verdict because a verdict is about a runner that will not
execute again (`VerdictOK`), a record that was passed on names another run and generation (`Matches`), and no two
processes launch one run (`Apart`). It survives rollbacks because of `TransfersUndoable`: the
source of a transfer that can still be undone has no slot, is not running by its status,
and nobody else took over from it. The refinement of `SlotPool` rests on the same facts, read step by step: what is
removed is of a run that is over, a transfer finds its source ended, a rollback its source without a slot,
and a runner is authorized only in the slot that names its run. `ClaimsExclude` is about the model as
much as about the code: two processes are never in the guarded part of one slot, so taking
that part (read, compare, rename or write) as one step loses no behaviour.
`OnlyKillsLeak` follows from `ClaimsOwned`, which is inductive beside `CapacityInv`: a claim file
goes with the guarded part it was made for. `NoSlotLost` adds `SoloInv` to it: as long as two
live processes have not had the session open at once (`together`), and while nobody was killed,
what a transfer would give back is bound, and an unbound slot is that
of the launch in hand, which has yet to bind it or to give it back. Section 3 says
what two processes do. TLC: `CapacityInv` on 169 441 states, and with `SoloInv` on 4 469 754
(three runs on two slots, one process at a time).

**Startup.** `IInv` adds to the types `Authorized` (whoever is past its commit was launched
by a parent that cannot fail any more), `NotStarted` (who may have written "not started"),
`RecordedFirst` (what each stage of the parent has recorded), and `HoldsLease` (a revival holds the
lease from its acquisition on). `Judged` adds what the verdicts rest on: they come last and
on a runner that is gone (`VerdictLast`), a candidate names a lease token only after its
runner was authorized, and before a revival executes (`TokenNamed`), and a failure that
was persisted is not judged "unknown" (`FailureJudged`). For the refinement of `LeaseContract`
all steps come down to three effects on runner and lease (`Moves`): a stage changes, a runner
takes a lease that no live runner has, or frees its own as it ends.

**Delivery.** The type invariant relates the loop to the handler in a section, which is why
no session change falls inside one; `Authority` says that a section runs under the owner's
present epoch, from which the action property follows. `Told` says that the send registry is
exact (`SentOnce`) and that no memory (`MemoryTold`), mark (`MarkedWasTold`) or flag of a handler
(`HandlersTold`) claims a telling that did not happen; none of the four is inductive without the
others. `Settling` relates each handler to the files: a section is about the newest result, what
a handler kept is its replay, and it removes a file only when that result was told and
recorded. From it follow `KeptUntilSettled` and, step by step, the refinement: every step
posts, tells, throws away what was told, or leaves the box alone. Both need
`Undisturbed == N = 1 \/ (~Fine /\ ~CanBlock)`: one result, or writers that come between
sections and whose files are never refused. The condition is tight, and it is not where the
proof gave up: for two results TLC violates `KeptUntilSettled` with `Fine` and with `CanBlock`,
which is the finding `delivery_replaced`. `NothingLost`, the claim of that finding, is therefore no theorem. TLC:
`Settling` on five instances with one to three results, the largest stopped after 11 M states.

**The run.** `LifecycleInv`. `NothingSilent`: whatever status another process is about to write
says running or has its result published (`OthersAudible`); the runner says complete only when
that result is written, and before its end it has given its writer a result for each other end
(`RunnerAudible`), so that the status on disk and the one held back are `Backed`. That is why an
old status may come back but never one that ends a run without a result, unless the writer
still owes one. `SteersKept`: a steer that
was written is in the inbox or was received; once the runner has drained its inbox the marker
is there, and a steer is accepted only by a check that comes after its write. `StepsCounted`:
the steps are the first ones and one for each time an append was taken, twice at most, and
once if no request resists its removal, which is what `AppendsOnce` says (chain-append.ts:143).
TLC: 3 097 033 states, the instance of `lifecycle`, and 37 272 with up to three writes held back.

**The budget.** `FanoutInv`: slot files belong to one process each, the lock has one holder, a
claiming process has as many files as it has placed and the limit has room for the rest, and
a committed batch keeps its files. All but the first hold unless a live process was
robbed of the lock, the same exception the property makes. `FanoutWithinLimit` counts: the
numbered children of all committed batches are mapped one to one into the slots (`ChildrenFit`),
of which there are as many as the limit says.

**External jobs.** `JobInv`. One dispatch follows from the claim being the only one as long as none
was given up (`OnlyClaim`). That none comes after a cancellation needs more: a claim is given up by one
host at a time and with an answer in place, and the runner's own claim is complete from the
beginning (`OneDrop`, `ClosedByRunner`).

**Retention.** `RetentionInv`. A tombstone has the name of the pass that made it (`TombsNamed`), so
two passes at once, after one was robbed of the lock, never move each other's directory back. A
reference counts when it was made with the directory in place, and the second look reads the
waits when it is away: what it has seen covers every reference that counts (`WaitsReread`), so what
is about to be removed is not referred to (`RemovedUnneeded`). This part does not need the lock.
That a result outlives its run does: `OneLatch`, one holder unless a live pass was robbed, and
`RunStaysAway`, nobody is on the way to bring the directory of a removed result back.
TLC: 548 701 states with two passes and a kill, and 7.6 M by simulation with three passes and
two kills.

**Schedules.** `LockInv`: unless the lock of a run that goes on was removed, every run that goes on, from its claim
until its process has ended or its launch has failed, has the lock. Only a claim makes a run go on (`Quiet`,
`Claimed`), and it is made where there is no lock; so at most one goes on, and what executes goes on. That no
list of operations claims for a second run is carried by `Sound`, and `Continues` says what an
operation leaves of a list, for the sixteen lists there are (`ListsHarmless`). `ArmedInv`: in an interval
schedule that was never to be stopped the record on disk, the copy of every handler and that of every launch
have a next occurrence, and each process has a timer, awaits a launch, or has operations left that end by
arming one; `StaysArmed` is this for one process's step. `UnguardedForCause` is model-checked only: it
needs what every handler in memory knows of every other file, for each of the lists.

**Waits.** `WaitInv`. What a process has loaded is of the session it has open; whoever was told has
removed the record and has it loaded no more (`ToldGone`), and unless a session is open twice
nobody else has it loaded either (`OpenOnce`): a later opening reads the directory, and the record is gone.
`ArmedLoaded` is the converse, and inductive beside it under the same exception: opening a session
loads all its armed records, arming loads the new one, and only a removed record is unloaded.

**Workflows.** `WorkflowInv`. The queue holds the launches that wait, each once, and each permit is in the
pool or with one launch (`QueueWaits`, `PermitsCounted`). `LaunchesTold` says what is known of a child
at each point of its launch: no outcome before its end but that it was stopped, and none reported but
its own, unless it cannot be read; that is why an outcome that comes after a stop is dropped everywhere or nowhere.
`Waiting` adds that a launch that waits is in the queue, and that the pool is empty while there is
a queue; with `PermitsCounted` all permits are then with launches that will release them.

**Child sessions.** `ChildInv`. One thing is asked of a child at a time (`OneAsked`), and a steer without
its outcome is accepted by a live session or waits for one (`SteersFollowed`), where the end of the run,
which comes after the child's, finds it; the exit code follows from what was asked
when the session settles. `Timed` says which timer ends each waiting: the limit of the abort once
the child was asked to end, also after a drain that has passed (`forced`), and a drain or the
review's limit once it has said its last word, unless something is queued.

**Foreground runs.** `ForegroundInv`. The order in which call, receipt and callback end (`EndsInOrder`)
together with the property itself, which is nearly inductive. `AsksNumbered` says that a new
question was never seen before; `QuestionKnown` then carries a seen one to its answer.
TLC: the four invariants on the 284 162 states of `side_live`'s instance.

Only model-checked is liveness (`EventuallyReleased`, `EventuallyDelivered`, `GoneRunEnds`,
`StaleElectsSuccessor`, `StartupSettles`, `WaitEnds`, `CallsAnswered`, `ChildEnds`,
`ForegroundSettles`), which is out of the prover's reach: it needs ENABLED. For five of
them the invariant they rest on, that what is to be waited for cannot get lost, is a theorem:
`OnlyKillsLeak` for `EventuallyReleased`, `WaitNotForgotten` for `WaitEnds`, `WorkflowWakes` for
`CallsAnswered`, `ChildTimed` for `ChildEnds` and `ForegroundKnows` for `ForegroundSettles`. What is
left to TLC there is that the step which these enable is taken.

`UnguardedForCause` too is left to TLC, for the length of its case analysis. Every other property of a passing run is a theorem. The claims of the five findings are false in the
model, so there is nothing to prove.

## 5. Plan

Done, in this order: the lease, capacity, startup with the process-terminal proof and result
delivery, because a background run that executes twice, unseen, or beyond its limit is what
these files are there to prevent; then the life of a run with its requests and repairs;
waits, schedules, budgets and retention; workflows and the child session; external jobs;
foreground runs with the supervisor channel. Proved: every safety property that a passing run checks, but
`UnguardedForCause`.

Proved as well: the refinements of `LeaseContract`, `SlotPool` and `ResultOutbox`, what is left of
the lease's contract when judgements are split, and the safety under five of the liveness
properties. To prove next: the same for the other four, above all that a pending result always
has something ahead of it that will look at it again (`EventuallyDelivered`); and abstract
specifications for schedules and workflows.

Modules still to write: `ParallelPool` (the pool of parallel steps with early stop), missions
(optimistic updates of a file), the watchdog's reviews against the turn they review, and the
parallel and chain paths of foreground runs.

## 6. What is not modelled, and why

`PROJECT.json` names every component left out, and what is left out of the others, with the
reason. In short: the parts planned above; parts without shared state across steps (configuration, agents, acceptance, prompts,
rendering); parts whose behaviour is another program's (worktrees, adapters of external
tools); what a child does in its turns; and the paths that build prompts, tool plans and
results, which make most of the runner's and the executor's lines. Atomic writes (temporary file and rename) are a step that
happens as a whole or fails. Disk corruption, clock changes and two hosts on one
file system are outside, apart from the lease's own host check. A type invariant is
a theorem of its module and of no run.
