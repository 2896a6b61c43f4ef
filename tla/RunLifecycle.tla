---------------------------- MODULE RunLifecycle ----------------------------
(***************************************************************************)
(* One background chain run from its first step to its last word: the      *)
(* runner's step loop and its end (subagent-runner.ts), the requests other *)
(* processes leave in its control directory (control-channel.ts: stop,     *)
(* interrupt, timeout, steer; chain-append.ts: more steps), and the        *)
(* reconciliation of its status by whoever looks at it                     *)
(* (stale-run-reconciler.ts), in src/src/runs/background.                  *)
(*                                                                         *)
(* They share files only: status.json, the result, the marker that closes  *)
(* the steering inbox and the request files.  A result counts as one file  *)
(* here; ResultDelivery has its pending and public halves and its way to   *)
(* the session.  The run has a session, so every repair writes a result.   *)
(*                                                                         *)
(* The runner is one event loop: its handlers run while it awaits a step   *)
(* or the probes and the export at its end, never in between.  Its result  *)
(* and its status go through one writer (capacity-resilient-json.ts),      *)
(* which holds a write back, per file, while the storage is full, and      *)
(* tries again when the loop is free.  A write that fails otherwise is     *)
(* left out unless it is that of the final result, and the marker of the   *)
(* steering inbox is taken to be written at once.                          *)
(***************************************************************************)
EXTENDS Naturals, FiniteSets

CONSTANTS
  FirstSteps,   \* the steps the run is launched with
  Appends,      \* append-step calls, one step each
  Steers,       \* steer calls
  Observers,    \* processes that reconcile the run's status
  LongSilence,  \* a live runner may leave its status unwritten for a day
  Sticky,       \* an append request may resist its removal once
  MaxAsks,      \* bound on stop, interrupt and timeout requests
  MaxShort,     \* bound on the writes of the runner that lack storage
  MaxCrashes,   \* bound on the observers' crashes
  MaxEvents     \* bound on these three and the steer and append calls together

ASSUME LifecycleAssumption ==
  /\ FirstSteps \in Nat \ {0} /\ LongSilence \in BOOLEAN /\ Sticky \in BOOLEAN
  /\ MaxAsks \in Nat /\ MaxShort \in Nat /\ MaxCrashes \in Nat /\ MaxEvents \in Nat
  /\ IsFiniteSet(Appends) /\ IsFiniteSet(Steers)

VARIABLES
  \* files
  status,     \* status.json
  result,     \* the run's result, None when absent or taken
  inbox,      \* steer requests
  closed,     \* the marker: steering is closed
  pending,    \* append requests
  asked,      \* stop, interrupt and timeout requests
  \* the runner
  at,         \* where it is
  mem,        \* its state of the run and why it ends
  steps,      \* how many steps it has
  done,       \* how many it has finished
  allGood,    \* they all succeeded
  ledger,     \* the outcome of each steer it received
  due,        \* its status is to be written next, the result was
  held,       \* what its writer holds back; it is lost when the runner is killed
  \* the other processes
  append, steer, look, asks, crashes,
  short,      \* how many writes of the runner lacked storage
  \* history
  published,  \* the results ever written
  owing,      \* the last result the runner's writer was given was never written
  ran         \* how often each appended step was taken up

files == <<status, result, inbox, closed, pending, asked>>
runner == <<at, mem, steps, done, allGood, ledger, due, held, short>>
others == <<append, steer, look, asks, crashes>>
history == <<published, owing, ran>>
vars == <<files, runner, others, history>>

None == "none"
Ends == {"complete", "failed", "stopped", "paused"}
Kinds == {"stop", "interrupt", "timeout"}

\* A status has the state of the run, steps left to run, and appends to take.
Status == [state : Ends \cup {"running"}, left : BOOLEAN, appends : BOOLEAN]
NoMemory == [state |-> "running", stopped |-> FALSE, timedOut |-> FALSE,
             interrupted |-> FALSE, appends |-> FALSE]

\* What the writer holds back: nothing at first.
NoStatus == [state |-> None, left |-> FALSE, appends |-> FALSE]
NothingHeld == [result |-> None, status |-> NoStatus]

CallsMade == Cardinality({q \in Steers : steer[q] # "idle"})
             + Cardinality({a \in Appends : append[a].at # "idle"})

Eventful == asks + short + crashes + CallsMade < MaxEvents

\* kill(pid, 0) finds the runner.
Alive == at \notin {"exited", "dead"}

\* The runner is past its last look at the steering inbox.
Drained == at \in {"drained", "withheld", "published", "unpublished", "finished", "exited"}

\* Types; a result on disk was published, a request that waits was written.
TypeOK ==
  /\ status \in Status /\ result \in Ends \cup {None}
  /\ result # None => result \in published
  /\ closed \in BOOLEAN /\ asked \subseteq Kinds
  /\ inbox \subseteq {q \in Steers : steer[q] \in {"written", "accepted"}}
  /\ pending \subseteq {a \in Appends : append[a].at \in {"queued", "answered"}}
  /\ at \in {"top", "step", "ending", "closed", "drained", "withheld", "published",
             "unpublished", "finished", "exited", "dead"}
  /\ due \in BOOLEAN
  /\ held \in [result : Ends \cup {None}, status : Status \cup {NoStatus}]
  /\ mem \in [state : Ends \cup {"running"}, stopped : BOOLEAN,
              timedOut : BOOLEAN, interrupted : BOOLEAN, appends : BOOLEAN]
  /\ steps \in FirstSteps..(FirstSteps + 2 * Cardinality(Appends))
  /\ done \in 0..steps /\ allGood \in BOOLEAN
  /\ ledger \in [Steers -> {None, "open", "settled"}]
  /\ append \in [Appends -> [at : {"idle", "read", "queued", "answered", "refused"},
                             saw : Status]]
  /\ steer \in [Steers -> {"idle", "checked", "written", "accepted", "refused"}]
  /\ look \in [Observers -> [at : {"idle", "read", "fix", "probe", "fail", "failStatus"},
                             saw : Status, found : Ends \cup {None}]]
  /\ published \subseteq Ends /\ owing \in BOOLEAN /\ ran \in [Appends -> 0..2]
  /\ asks \in 0..MaxAsks /\ crashes \in 0..MaxCrashes
  /\ short \in 0..MaxShort

-----------------------------------------------------------------------------

Running(left) == [state |-> "running", left |-> left, appends |-> FALSE]

NoCall == [at |-> "idle", saw |-> Running(FALSE)]
NoLook == [at |-> "idle", saw |-> Running(FALSE), found |-> None]

\* What the runner knows of the run; busy if a step runs or waits for its turn.
Snapshot(m, busy) ==
  [state |-> m.state, left |-> busy /\ ~m.stopped /\ ~m.timedOut, appends |-> m.appends]

\* stopRunner, timeoutRunner and interruptRunner.
Stopped(m) ==
  IF m.stopped \/ m.timedOut \/ m.state \notin {"running", "paused"} THEN m
  ELSE [m EXCEPT !.stopped = TRUE, !.interrupted = FALSE]

TimedOut(m) ==
  IF m.stopped \/ m.timedOut \/ m.interrupted \/ m.state # "running" THEN m
  ELSE [m EXCEPT !.timedOut = TRUE]

Interrupted(m) ==
  IF m.interrupted \/ m.state # "running" THEN m
  ELSE [m EXCEPT !.interrupted = TRUE, !.state = "paused"]

\* A scan of the control inbox handles the stops first and the interrupt last.
Scanned(m) ==
  LET s == IF "stop" \in asked THEN Stopped(m) ELSE m
      t == IF "timeout" \in asked THEN TimedOut(s) ELSE s
  IN IF "interrupt" \in asked THEN Interrupted(t) ELSE t

\* The loop is to be left.
Called == mem.stopped \/ mem.timedOut \/ mem.interrupted

\* The state the run ends with; partial and killed children count as failed.
Outcome(m) ==
  CASE m.stopped -> "stopped"
    [] ~m.stopped /\ (m.timedOut \/ m.state = "failed") -> "failed"
    [] ~m.stopped /\ ~m.timedOut /\ m.interrupted -> "paused"
    [] OTHER -> IF allGood THEN "complete" ELSE "failed"

\* deliverSteerRequest: a steer that comes when the run is not running fails, which
\* settles it as well as a delivery does.
Received(taken, m) ==
  [q \in Steers |->
     IF q \in taken THEN IF m.state = "running" THEN "open" ELSE "settled"
     ELSE ledger[q]]

\* At the end no steer stays open.
Settled(l) == [q \in Steers |-> IF l[q] = "open" THEN "settled" ELSE l[q]]

-----------------------------------------------------------------------------
(***************************************************************************)
(* The runner's writes.  What the writer holds back for a file is replaced *)
(* by what it is given next for that file.                                 *)
(***************************************************************************)
Lacks == Eventful /\ short < MaxShort /\ short' = short + 1

PutResult ==
  \/ /\ result' = mem'.state /\ published' = published \cup {mem'.state}
     /\ held' = [held EXCEPT !.result = None] /\ owing' = FALSE /\ UNCHANGED short
  \/ /\ Lacks /\ held' = [held EXCEPT !.result = mem'.state] /\ owing' = TRUE
     /\ UNCHANGED <<result, published>>

\* A step runs or waits for its turn, until the end.
PutStatus ==
  LET now == Snapshot(mem', done' < steps' /\ at' # "finished")
  IN \/ status' = now /\ held' = [held EXCEPT !.status = NoStatus] /\ UNCHANGED short
     \/ Lacks /\ held' = [held EXCEPT !.status = now] /\ UNCHANGED status

\* Mutant of Write: no result goes with a state other than running.
WriteAlone == due' = FALSE /\ PutStatus /\ UNCHANGED <<result, published, owing>>

\* writeStatusPayload writes a status.  Before the end one that does not say running
\* comes with a result for it, which is written first, so that a runner that is
\* killed later leaves one behind.
Write ==
  IF mem'.state \in Ends
  THEN due' = TRUE /\ PutResult /\ UNCHANGED status
  ELSE due' = FALSE /\ PutStatus /\ UNCHANGED <<result, published, owing>>

Init ==
  /\ status = Running(TRUE) /\ result = None
  /\ inbox = {} /\ closed = FALSE /\ pending = {} /\ asked = {}
  /\ at = "top" /\ steps = FirstSteps /\ done = 0 /\ allGood = TRUE
  /\ due = FALSE /\ held = NothingHeld /\ mem = NoMemory
  /\ ledger = [q \in Steers |-> None]
  /\ append = [a \in Appends |-> NoCall]
  /\ steer = [q \in Steers |-> "idle"]
  /\ look = [o \in Observers |-> NoLook]
  /\ published = {} /\ owing = FALSE /\ ran = [a \in Appends |-> 0]
  /\ asks = 0 /\ crashes = 0 /\ short = 0

(***************************************************************************)
(* The runner's loop.  At its top the append requests are taken; one whose *)
(* file resists is taken all the same.                                     *)
(***************************************************************************)
Take ==
  /\ \E kept \in SUBSET {a \in pending : Sticky /\ ran[a] = 0} :
       /\ pending' = kept
       /\ mem' = [mem EXCEPT !.appends = kept # {}]
  /\ ran' = [a \in Appends |-> IF a \in pending THEN ran[a] + 1 ELSE ran[a]]
  /\ steps' = steps + Cardinality(pending)

BeginStep ==
  /\ at = "top" /\ ~Called
  /\ Take /\ done < steps'
  /\ at' = "step"
  /\ UNCHANGED <<inbox, closed, asked, done, allGood, ledger, others>>
  /\ Write

\* No step is left, or the run was stopped, timed out or interrupted.
LeaveLoop ==
  /\ at = "top" /\ (Called \/ (pending = {} /\ done = steps))
  /\ at' = "ending"
  /\ UNCHANGED <<files, mem, steps, done, allGood, ledger, due, held, short, others, history>>

\* The usage budget is exhausted before the next step.
Exhaust ==
  /\ at = "top" /\ ~Called /\ pending = {} /\ done < steps
  /\ mem' = [mem EXCEPT !.state = "failed"]
  /\ at' = "ending"
  /\ UNCHANGED <<inbox, closed, pending, asked, steps, done, allGood, ledger, others, ran>>
  /\ Write

\* A step that fails ends the chain.
EndStep ==
  /\ at = "step" /\ done' = done + 1
  /\ \E good \in BOOLEAN :
       /\ allGood' = (allGood /\ good)
       /\ at' = IF good THEN "top" ELSE "ending"
  /\ UNCHANGED <<inbox, closed, pending, asked, mem, steps, ledger, others, ran>>
  /\ Write

\* The control inbox is scanned while the runner awaits.
ScanInbox ==
  /\ at \in {"step", "ending"} /\ (asked # {} \/ inbox # {})
  /\ mem' = Scanned(mem) /\ asked' = {}
  /\ ledger' = Received(inbox, mem') /\ inbox' = {}
  /\ UNCHANGED <<closed, pending, at, steps, done, allGood, others, ran>>
  /\ Write

\* The child's session takes a steer, or turns it down.
ChildAnswers(q) ==
  /\ at = "step" /\ ledger[q] = "open"
  /\ ledger' = [ledger EXCEPT ![q] = "settled"]
  /\ UNCHANGED <<inbox, closed, pending, asked, at, mem, steps, done, allGood, others, ran>>
  /\ Write

\* The status that belongs to a result; others come between the two, a kill included.
WriteStatus ==
  /\ due /\ due' = FALSE
  /\ UNCHANGED <<result, inbox, closed, pending, asked, at, mem, steps, done, allGood,
                 ledger, others, history>>
  /\ PutStatus

\* The retry timer.
RetryResult ==
  /\ held.result # None /\ held' = [held EXCEPT !.result = None]
  /\ result' = held.result /\ published' = published \cup {held.result} /\ owing' = FALSE
  /\ at' = IF at = "withheld" THEN "published" ELSE at
  /\ UNCHANGED <<status, inbox, closed, pending, asked, mem, steps, done, allGood,
                 ledger, due, short, others, ran>>

RetryStatus ==
  /\ held.status # NoStatus /\ held' = [held EXCEPT !.status = NoStatus]
  /\ status' = held.status
  /\ UNCHANGED <<result, inbox, closed, pending, asked, at, mem, steps, done, allGood,
                 ledger, due, short, others, history>>

Retry == at \in {"step", "ending", "withheld", "finished"} /\ (RetryResult \/ RetryStatus)

(***************************************************************************)
(* The runner's end, one synchronous section of file operations.  From     *)
(* CloseInbox to WriteLast no status is written.                           *)
(***************************************************************************)
\* The outcome is fixed after a last look at the stops; the marker is written.
CloseInbox ==
  /\ at = "ending"
  /\ LET m == IF "stop" \in asked THEN Stopped(mem) ELSE mem
     IN mem' = [m EXCEPT !.state = Outcome(m)]
  /\ asked' = {} /\ closed' = TRUE
  /\ at' = "closed"
  /\ UNCHANGED <<status, result, inbox, pending, steps, done, allGood, ledger,
                 due, held, short, others, history>>

\* The steers that came before the marker are failed, and so are the open ones.
DrainInbox ==
  /\ at = "closed"
  /\ ledger' = Settled(Received(inbox, mem)) /\ inbox' = {}
  /\ at' = "drained"
  /\ UNCHANGED <<status, result, closed, pending, asked, mem, steps, done, allGood,
                 due, held, short, others, history>>

\* The final result; if it is held back, the end waits until it is written.
Publish ==
  /\ at = "drained"
  /\ UNCHANGED <<status, inbox, closed, pending, asked, mem, steps, done, allGood,
                 ledger, due, others, ran>>
  /\ PutResult
  /\ at' = IF owing' THEN "withheld" ELSE "published"

\* The result cannot be written, at once or when it is tried again: the run failed.
PublishFails ==
  /\ at \in {"drained", "withheld"}
  /\ mem' = [mem EXCEPT !.state = "failed"]
  /\ held' = IF at = "withheld" THEN [held EXCEPT !.result = None] ELSE held
  /\ at' = "unpublished"
  /\ UNCHANGED <<files, steps, done, allGood, ledger, due, short, others, history>>

\* The last status; a result comes with it only if that of the end was not written.
WriteLast ==
  /\ at \in {"published", "unpublished"}
  /\ at' = "finished"
  /\ UNCHANGED <<inbox, closed, pending, asked, mem, steps, done, allGood, ledger, others,
                 ran>>
  /\ IF at = "unpublished" THEN Write
     ELSE UNCHANGED <<result, published, owing, due>> /\ PutStatus

\* The runner does not exit while its writer holds something back.
Exit ==
  /\ at = "finished" /\ held = NothingHeld
  /\ at' = "exited"
  /\ UNCHANGED <<files, mem, steps, done, allGood, ledger, due, held, short, others, history>>

\* The runner is killed; what it had in memory is lost.
Kill ==
  /\ Alive /\ at' = "dead"
  /\ done' = 0 /\ allGood' = TRUE /\ due' = FALSE /\ held' = NothingHeld
  /\ mem' = NoMemory /\ ledger' = [q \in Steers |-> None]
  /\ UNCHANGED <<files, steps, short, others, history>>

(***************************************************************************)
(* Requests of other processes, which look at the status first.  A stop,   *)
(* interrupt or timeout that comes after the last scan stays unread; it    *)
(* is left out.                                                            *)
(***************************************************************************)
Ask(k) ==
  /\ at \in {"top", "step", "ending"}
  /\ status.state = "running" \/ (k = "stop" /\ status.state = "paused")
  /\ k \notin asked /\ asked' = asked \cup {k}
  /\ Eventful /\ asks < MaxAsks /\ asks' = asks + 1
  /\ UNCHANGED <<status, result, inbox, closed, pending, runner, append, steer, look,
                 crashes, history>>

CheckSteer(q) ==
  /\ Eventful /\ steer[q] = "idle"
  /\ steer' = [steer EXCEPT ![q] =
       IF status.state = "running" /\ ~closed THEN "checked" ELSE "refused"]
  /\ UNCHANGED <<files, runner, append, look, asks, crashes, history>>

WriteSteer(q) ==
  /\ steer[q] = "checked"
  /\ inbox' = inbox \cup {q} /\ steer' = [steer EXCEPT ![q] = "written"]
  /\ UNCHANGED <<status, result, closed, pending, asked, runner, append, look,
                 asks, crashes, history>>

\* Mutant of ConfirmSteer: the marker is not looked for again.
ConfirmSteerBlindly(q) ==
  /\ steer[q] = "written" /\ steer' = [steer EXCEPT ![q] = "accepted"]
  /\ UNCHANGED <<files, runner, append, look, asks, crashes, history>>

\* requestAsyncSteer looks for the marker again before it reports the request.
ConfirmSteer(q) ==
  /\ steer[q] = "written"
  /\ IF closed
     THEN inbox' = inbox \ {q} /\ steer' = [steer EXCEPT ![q] = "refused"]
     ELSE steer' = [steer EXCEPT ![q] = "accepted"] /\ UNCHANGED inbox
  /\ UNCHANGED <<status, result, closed, pending, asked, runner, append, look,
                 asks, crashes, history>>

\* enqueueChainAppendRequest: reads the status, writes the request, and writes
\* the status it has read with the appends counted.
ReadForAppend(a) ==
  /\ Eventful /\ append[a].at = "idle"
  /\ append' = [append EXCEPT ![a] =
       IF status.state = "running" /\ (status.left \/ status.appends)
       THEN [at |-> "read", saw |-> status] ELSE [NoCall EXCEPT !.at = "refused"]]
  /\ UNCHANGED <<files, runner, steer, look, asks, crashes, history>>

QueueAppend(a) ==
  /\ append[a].at = "read"
  /\ pending' = pending \cup {a} /\ append' = [append EXCEPT ![a].at = "queued"]
  /\ UNCHANGED <<status, result, inbox, closed, asked, runner, steer, look,
                 asks, crashes, history>>

AnswerAppend(a) ==
  /\ append[a].at = "queued"
  /\ status' = [append[a].saw EXCEPT !.appends = pending # {}]
  /\ append' = [append EXCEPT ![a] = [NoCall EXCEPT !.at = "answered"]]
  /\ UNCHANGED <<result, inbox, closed, pending, asked, runner, steer, look,
                 asks, crashes, history>>

(***************************************************************************)
(* reconcileAsyncRun.                                                      *)
(***************************************************************************)
To(o, pc) == look' = [look EXCEPT ![o].at = pc]
Back(o) == look' = [look EXCEPT ![o] = NoLook]

\* A status that is not running needs no repair.
ReadStatus(o) ==
  /\ look[o].at = "idle" /\ status.state = "running"
  /\ look' = [look EXCEPT ![o] = [NoLook EXCEPT !.at = "read", !.saw = status]]
  /\ UNCHANGED <<files, runner, append, steer, asks, crashes, history>>

\* A result settles a status that says running; without one the runner is probed.
FindResult(o) ==
  /\ look[o].at = "read"
  /\ look' = [look EXCEPT
       ![o].found = result,
       ![o].at = IF result # None THEN "fix" ELSE "probe"]
  /\ UNCHANGED <<files, runner, append, steer, asks, crashes, history>>

Fix(o) ==
  /\ look[o].at = "fix" /\ Back(o)
  /\ status' = [look[o].saw EXCEPT !.state = look[o].found, !.left = FALSE]
  /\ UNCHANGED <<result, inbox, closed, pending, asked, runner, append, steer,
                 asks, crashes, history>>

\* A dead runner's run is failed, and one whose status is a day old.
Probe(o) ==
  /\ look[o].at = "probe"
  /\ \/ ~Alive /\ To(o, "fail")
     \/ Alive /\ Back(o)
     \/ Alive /\ LongSilence /\ To(o, "fail")
  /\ UNCHANGED <<files, runner, append, steer, asks, crashes, history>>

\* Mutant of WriteFailed: the repair ends with the result.
WriteFailedOnly(o) ==
  /\ look[o].at = "fail" /\ Back(o)
  /\ result' = "failed" /\ published' = published \cup {"failed"}
  /\ UNCHANGED <<status, inbox, closed, pending, asked, runner, append, steer,
                 asks, crashes, owing, ran>>

\* writeFailedRepair: the result comes first.
WriteFailed(o) ==
  /\ look[o].at = "fail" /\ To(o, "failStatus")
  /\ result' = "failed" /\ published' = published \cup {"failed"}
  /\ UNCHANGED <<status, inbox, closed, pending, asked, runner, append, steer,
                 asks, crashes, owing, ran>>

MarkFailed(o) ==
  /\ look[o].at = "failStatus" /\ Back(o)
  /\ status' = [look[o].saw EXCEPT !.state = "failed", !.left = FALSE]
  /\ UNCHANGED <<result, inbox, closed, pending, asked, runner, append, steer,
                 asks, crashes, history>>

CrashObserver(o) ==
  /\ look[o].at # "idle" /\ Back(o)
  /\ Eventful /\ crashes < MaxCrashes /\ crashes' = crashes + 1
  /\ UNCHANGED <<files, runner, append, steer, asks, history>>

\* The session is told and the file removed.
Deliver ==
  /\ result # None /\ result' = None
  /\ UNCHANGED <<status, inbox, closed, pending, asked, runner, others, history>>

-----------------------------------------------------------------------------

RunnerStep ==
  \/ WriteStatus
  \/ /\ ~due
     /\ \/ BeginStep \/ LeaveLoop \/ Exhaust \/ EndStep \/ ScanInbox
        \/ \E q \in Steers : ChildAnswers(q)
        \/ Retry
        \/ CloseInbox \/ DrainInbox \/ Publish \/ PublishFails \/ WriteLast \/ Exit

Request ==
  \/ \E k \in Kinds : Ask(k)
  \/ \E q \in Steers : CheckSteer(q) \/ WriteSteer(q) \/ ConfirmSteer(q)
  \/ \E a \in Appends : ReadForAppend(a) \/ QueueAppend(a) \/ AnswerAppend(a)

Observe(o) ==
  ReadStatus(o) \/ FindResult(o) \/ Fix(o) \/ Probe(o) \/ WriteFailed(o) \/ MarkFailed(o)

Next ==
  \/ RunnerStep \/ Kill \/ Request \/ Deliver
  \/ \E o \in Observers : Observe(o) \/ CrashObserver(o)

Spec == Init /\ [][Next]_vars

\* The job tracker and every status request reconcile again and again.
LiveSpec == Spec /\ \A o \in Observers : WF_vars(Observe(o))

-----------------------------------------------------------------------------

\* No run ends in silence.  A status that says complete is never on disk before the result
\* was, as CHANGELOG.md:330 has it, and a runner that exits in order has published the
\* state it ended with.  A status that says that the run ended otherwise has a result
\* with it, whoever is killed or late, unless the runner's writer held that result back
\* for lack of storage and never wrote it (writeRecoverableStatusResult,
\* subagent-runner.ts:2239-2240, 4940-5047, and writeFailedRepair).
NoSilentEnd ==
  /\ status.state = "complete" => "complete" \in published
  /\ at = "exited" => mem.state \in published
  /\ status.state \in Ends /\ ~owing => published # {}

\* A steer whose caller was told it is accepted has an outcome in the ledger when the
\* runner ends, however its two looks at the marker fall between the runner's
\* marker and its last scan (requestAsyncSteer, closeSteerInbox).
AcceptedSteerSettled ==
  \A q \in Steers : steer[q] = "accepted" /\ Drained => ledger[q] = "settled"

\* A run whose runner is gone does not stay "running" on disk, though appends write an old
\* status back and repairs are cut short by crashes (reconcileAsyncRun).
GoneRunEnds == ~Alive /\ status.state = "running" ~> status.state \in Ends

\* A repair as failed does not take the place of a result that is there, as
\* test/unit/stale-run-reconciler.test.ts:551 has it.
ResultPreserved ==
  [][\A o \in Observers : look[o].at = "fail" /\ look'[o].at = "failStatus" => result = None]_vars

\* An append request that was queued for a chain is run before the chain is complete, as
\* the reply says (subagent-executor.ts:1445), unless the run ends otherwise.
QueuedAppendRuns ==
  \A a \in Appends : append[a].at = "answered" /\ "complete" \in published => ran[a] > 0

\* The steps of an append request are added once (chain-append.ts:144).
AppendedOnce == \A a \in Appends : ran[a] <= 1
=============================================================================
