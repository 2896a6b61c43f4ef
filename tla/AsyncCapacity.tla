--------------------------- MODULE AsyncCapacity ---------------------------
(***************************************************************************)
(* The pool of active-run slots of one parent session, from                *)
(* src/src/runs/background/active-async-capacity.ts.  A slot is a directory *)
(* created by mkdir and then given an owner.json; every later change to it *)
(* is made by a process that has created the slot's claim file and has     *)
(* found its expected owner in it.  A process that has the session open    *)
(* reserves a slot, launches a detached runner, binds the slot to it and   *)
(* authorizes it; any such process may find the runner finished and        *)
(* release the slot, or resume the run and transfer the slot to the        *)
(* revival.  Every step is one file-system call, so processes interleave   *)
(* between them and may be killed between them.                            *)
(***************************************************************************)
EXTENDS Naturals, FiniteSets

CONSTANTS
  Procs,       \* processes that have, or later open, this session
  Runs,        \* top-level async runs; each is launched at most once
  Limit,       \* maxActiveAsyncRunsPerSession
  MaxCrashes   \* bound on the processes that are killed

ASSUME CapacityAssumption ==
  /\ Limit \in Nat \ {0}
  /\ "no one" \notin Procs /\ "no run" \notin Runs
  /\ MaxCrashes \in Nat

VARIABLES
  pc,      \* what each process is doing
  loc,     \* the local variables of its current operation
  slot,    \* the slot directories and the owner recorded in each
  claim,   \* who created the claim file that is in each slot directory
  handle,  \* the handle a launch holds in memory, by run
  status,  \* status.json of each run
  runner,  \* the runner process of each run
  proof,   \* process-terminal.json of each run
  together \* history: two live processes have had the session open at once

vars == <<pc, loc, slot, claim, handle, status, runner, proof, together>>

Slots == 0..(Limit - 1)
NoOne == "no one"
NoRun == "no run"

\* An owner record: reservationToken, named after the run it was created for,
\* runId, generation, and whether runnerProcessInstanceId has been recorded.
Owners == [kind: {"owner"}, token: Runs, run: Runs, gen: Nat, bound: BOOLEAN]
Absent  == [kind |-> "absent"]
Corrupt == [kind |-> "corrupt"]  \* a directory without a readable owner.json
NoOwner == [kind |-> "none"]

Operations == {"none", "remove", "transfer", "bind", "undo", "rollback"}
NoLocals == [op |-> "none", at |-> 0, want |-> NoOwner, ok |-> FALSE, todo |-> {}, job |-> NoRun]

Locals == [op: Operations, at: Slots, want: Owners \cup {NoOwner}, ok: BOOLEAN,
           todo: SUBSET Slots, job: Runs \cup {NoRun}]

PCs == {"closed", "idle", "scan", "judge", "claim", "body", "unclaim", "admit", "place",
        "write", "reserved", "authorize", "abort", "giveback", "crashed"}

Open(p) == pc[p] \notin {"closed", "crashed"}
Owned(i) == slot[i].kind = "owner"
OccupiedSlots == {i \in Slots : slot[i] # Absent}
Terminal(r) == status[r] \in {"complete", "failed", "not-started"}
Fresh(r) == handle[r] = NoOwner /\ \A p \in Procs : Open(p) => loc[p].job # r

\* Mutant of Matches: the token alone, which a transfer keeps.
MatchesToken(i, o) == Owned(i) /\ slot[i].token = o.token

\* matchingOwner: token, run and generation are compared, nothing else.
Matches(i, o) ==
  Owned(i) /\ slot[i].token = o.token /\ slot[i].run = o.run /\ slot[i].gen = o.gen

-----------------------------------------------------------------------------
\* runnerReleaseVerdict: proved gone, or known never to have started.
ProvedOver(o) ==
  /\ o.bound /\ Terminal(o.run)
  /\ status[o.run] = "not-started" \/ proof[o.run] = "observed"

\* abandonedRunnerReleaseVerdict once the last activity is old enough.
Abandoned(o) == o.bound /\ status[o.run] = "failed" /\ runner[o.run] = "dead"

\* Control flow: a process goes to a label, keeping or changing its locals.
Goto(p, label) == pc' = [pc EXCEPT ![p] = label]
Return(p) == Goto(p, "idle") /\ loc' = [loc EXCEPT ![p] = NoLocals]

\* Start a guarded operation on slot i, for the owner o.
Guarded(p, o, i, operation) ==
  /\ Goto(p, "claim")
  /\ loc' = [loc EXCEPT ![p] = [@ EXCEPT !.op = operation, !.at = i, !.want = o, !.ok = FALSE]]

\* Only the run being launched outlives a guarded operation.
KeepJob(p) == loc' = [loc EXCEPT ![p] = [NoLocals EXCEPT !.job = loc[p].job]]

\* Where an operation goes on when its claim is dropped or was never obtained.
Continue(p, ok) ==
  LET op == loc[p].op IN
  \/ /\ op = "remove" /\ Goto(p, "scan")
     /\ loc' = [loc EXCEPT ![p] = [NoLocals EXCEPT !.job = loc[p].job,
                                                   !.todo = loc[p].todo \ {loc[p].at}]]
  \/ op = "transfer" /\ IF ok THEN Goto(p, "reserved") /\ KeepJob(p) ELSE Return(p)
  \/ op = "bind" /\ Goto(p, IF ok THEN "authorize" ELSE "abort") /\ KeepJob(p)
  \/ op = "undo" /\ IF ok THEN Return(p) ELSE Goto(p, "giveback") /\ KeepJob(p)
  \/ op = "rollback" /\ Return(p)

-----------------------------------------------------------------------------
\* A process opens the session.
OpenSession(p) ==
  /\ pc[p] = "closed"
  /\ Goto(p, "idle")
  /\ together' = (together \/ \E q \in Procs : Open(q))
  /\ UNCHANGED <<loc, slot, claim, handle, status, runner, proof>>

\* reconcileActiveAsyncCapacity on its own, or first thing in an acquisition.
StartReconcile(p, r) ==
  /\ pc[p] = "idle"
  /\ r # NoRun => Fresh(r)
  /\ Goto(p, "scan")
  /\ loc' = [loc EXCEPT ![p] = [NoLocals EXCEPT !.todo = OccupiedSlots, !.job = r]]
  /\ UNCHANGED <<slot, claim, handle, status, runner, proof, together>>

\* transferActiveAsyncCapacity: it acquires afresh if no slot names the source.
StartResume(p, src, r) ==
  /\ pc[p] = "idle" /\ Fresh(r) /\ r # src
  /\ status[src] \in {"paused", "failed", "complete"}
  /\ IF \E i \in Slots : Owned(i) /\ slot[i].run = src
       THEN \E i \in Slots :
              /\ Owned(i) /\ slot[i].run = src
              /\ Goto(p, "claim")
              /\ loc' = [loc EXCEPT ![p] = [NoLocals EXCEPT !.op = "transfer", !.at = i,
                                                            !.want = slot[i], !.job = r]]
       ELSE /\ Goto(p, "scan")
            /\ loc' = [loc EXCEPT ![p] = [NoLocals EXCEPT !.todo = OccupiedSlots, !.job = r]]
  /\ UNCHANGED <<slot, claim, handle, status, runner, proof, together>>

\* The loop over the occupied slots: readOwner, skipping what cannot be read.
Scan(p) ==
  /\ pc[p] = "scan"
  /\ \/ /\ loc[p].todo = {}
        /\ IF loc[p].job = NoRun THEN Return(p) ELSE Goto(p, "admit") /\ UNCHANGED loc
     \/ \E i \in loc[p].todo :
          /\ \A j \in loc[p].todo : i <= j
          /\ IF Owned(i)
               THEN /\ Goto(p, "judge")
                    /\ loc' = [loc EXCEPT ![p] = [@ EXCEPT !.at = i, !.want = slot[i]]]
               ELSE /\ UNCHANGED pc
                    /\ loc' = [loc EXCEPT ![p].todo = @ \ {i}]
  /\ UNCHANGED <<slot, claim, handle, status, runner, proof, together>>

\* ownerReleaseVerdict on the owner that was read, outside any claim.
Judge(p) ==
  LET o == loc[p].want IN
  /\ pc[p] = "judge"
  /\ \/ /\ ProvedOver(o) \/ Abandoned(o)
        /\ Guarded(p, o, loc[p].at, "remove")
     \/ /\ ~ProvedOver(o)
        /\ Goto(p, "scan")
        /\ loc' = [loc EXCEPT ![p] = [NoLocals EXCEPT !.job = loc[p].job,
                                                      !.todo = loc[p].todo \ {loc[p].at}]]
  /\ UNCHANGED <<slot, claim, handle, status, runner, proof, together>>

-----------------------------------------------------------------------------
\* withSlotClaim: create the claim file in the directory, failing if it is there.
Claim(p) ==
  LET i == loc[p].at IN
  /\ pc[p] = "claim"
  /\ IF slot[i] = Absent \/ claim[i] # NoOne
       THEN Continue(p, FALSE) /\ UNCHANGED claim
       ELSE Goto(p, "body") /\ claim' = [claim EXCEPT ![i] = p] /\ UNCHANGED loc
  /\ UNCHANGED <<slot, handle, status, runner, proof, together>>

\* The end of the guarded part; ok is what it returned.
Done(p, ok) == Goto(p, "unclaim") /\ loc' = [loc EXCEPT ![p].ok = ok]

\* The slot directory is renamed away, with the claim file that is in it.
RenameAway(i) ==
  /\ slot' = [slot EXCEPT ![i] = Absent]
  /\ claim' = [claim EXCEPT ![i] = NoOne]

\* removeOwnedSlot, for a reconciliation.
RemoveOwnedSlot(p) ==
  /\ pc[p] = "body" /\ loc[p].op = "remove"
  /\ IF Matches(loc[p].at, loc[p].want)
       THEN RenameAway(loc[p].at) /\ Done(p, TRUE)
       ELSE UNCHANGED <<slot, claim>> /\ Done(p, FALSE)
  /\ UNCHANGED <<handle, status, runner, proof, together>>

\* transferActiveAsyncCapacity: the revival owns the slot in a new generation.
Transfer(p) ==
  LET i == loc[p].at  r == loc[p].job  o == slot[i] IN
  /\ pc[p] = "body" /\ loc[p].op = "transfer"
  /\ IF Matches(i, loc[p].want) /\ status[loc[p].want.run] \in {"paused", "failed", "complete", "not-started"}
       THEN LET next == [o EXCEPT !.run = r, !.gen = @ + 1, !.bound = FALSE] IN
            /\ slot' = [slot EXCEPT ![i] = next]
            /\ handle' = [handle EXCEPT ![r] =
                 [kind |-> "handle", host |-> p, at |-> i, owner |-> next, undo |-> o]]
            /\ Done(p, TRUE)
       ELSE UNCHANGED <<slot, handle>> /\ Done(p, FALSE)
  /\ UNCHANGED <<claim, status, runner, proof, together>>

\* markStarted: memory first, and then the durable record, which may fail.
MarkStarted(p) ==
  LET i == loc[p].at  r == loc[p].job IN
  /\ pc[p] = "body" /\ loc[p].op = "bind"
  /\ IF Matches(i, handle[r].owner)
       THEN /\ handle' = [handle EXCEPT ![r].owner.bound = TRUE]
            /\ \/ slot' = [slot EXCEPT ![i].bound = TRUE] /\ Done(p, TRUE)
               \/ UNCHANGED slot /\ Done(p, FALSE)
       ELSE UNCHANGED <<slot, handle>> /\ Done(p, FALSE)
  /\ UNCHANGED <<claim, status, runner, proof, together>>

\* What a rollback does: the source gets its slot back, or the slot is freed.
GiveSlotBack(p, i, r) ==
  IF handle[r].undo = NoOwner
    THEN RenameAway(i) /\ UNCHANGED handle
    ELSE /\ slot' = [slot EXCEPT ![i] = handle[r].undo]
         /\ handle' = [handle EXCEPT ![r].owner = handle[r].undo]
         /\ UNCHANGED claim

\* Mutant of UndoBeforeProceed: a failed bind is forgotten.
UndoBoundOnly(p) ==
  LET i == loc[p].at  r == loc[p].job IN
  /\ pc[p] = "body" /\ loc[p].op = "undo"
  /\ IF Matches(i, handle[r].owner) /\ slot[i].bound
       THEN GiveSlotBack(p, i, r) /\ Done(p, TRUE)
       ELSE UNCHANGED <<slot, claim, handle>> /\ Done(p, FALSE)
  /\ UNCHANGED <<status, runner, proof, together>>

\* rollbackBeforeRunnerProceed.
UndoBeforeProceed(p) ==
  LET i == loc[p].at  r == loc[p].job IN
  /\ pc[p] = "body" /\ loc[p].op = "undo"
  /\ IF Matches(i, handle[r].owner) /\ (slot[i].bound \/ handle[r].owner.bound)
       THEN GiveSlotBack(p, i, r) /\ Done(p, TRUE)
       ELSE UNCHANGED <<slot, claim, handle>> /\ Done(p, FALSE)
  /\ UNCHANGED <<status, runner, proof, together>>

\* rollback, refused in memory (GiveBack) and on disk once the runner has started.
Rollback(p) ==
  LET i == loc[p].at  r == loc[p].job IN
  /\ pc[p] = "body" /\ loc[p].op = "rollback"
  /\ IF Matches(i, handle[r].owner) /\ ~slot[i].bound
       THEN GiveSlotBack(p, i, r) /\ Done(p, TRUE)
       ELSE UNCHANGED <<slot, claim, handle>> /\ Done(p, FALSE)
  /\ UNCHANGED <<status, runner, proof, together>>

\* Mutant of Unclaim: the claim file stays when the guarded part succeeded.
UnclaimOnFailure(p) ==
  LET i == loc[p].at IN
  /\ pc[p] = "unclaim"
  /\ claim' = IF claim[i] = p /\ ~loc[p].ok THEN [claim EXCEPT ![i] = NoOne] ELSE claim
  /\ Continue(p, loc[p].ok)
  /\ UNCHANGED <<slot, handle, status, runner, proof, together>>

\* The claim file is removed only if it still carries this claim's token.
Unclaim(p) ==
  LET i == loc[p].at IN
  /\ pc[p] = "unclaim"
  /\ claim' = IF claim[i] = p THEN [claim EXCEPT ![i] = NoOne] ELSE claim
  /\ Continue(p, loc[p].ok)
  /\ UNCHANGED <<slot, handle, status, runner, proof, together>>

-----------------------------------------------------------------------------
\* acquireActiveAsyncCapacity after its reconciliation.
Admit(p) ==
  /\ pc[p] = "admit"
  /\ IF Cardinality(OccupiedSlots) >= Limit
       THEN Return(p)
       ELSE Goto(p, "place") /\ loc' = [loc EXCEPT ![p].at = 0]
  /\ UNCHANGED <<slot, claim, handle, status, runner, proof, together>>

\* Mutant of Place: mkdir with recursive, which accepts an existing directory.
PlaceOverExisting(p) ==
  /\ pc[p] = "place"
  /\ slot' = [slot EXCEPT ![loc[p].at] = Corrupt]
  /\ Goto(p, "write")
  /\ UNCHANGED <<loc, claim, handle, status, runner, proof, together>>

\* createSlot: mkdir of the next slot, until one does not exist yet.
Place(p) ==
  LET i == loc[p].at IN
  /\ pc[p] = "place"
  /\ IF slot[i] = Absent
       THEN slot' = [slot EXCEPT ![i] = Corrupt] /\ Goto(p, "write") /\ UNCHANGED loc
       ELSE /\ UNCHANGED slot
            /\ IF i + 1 < Limit THEN UNCHANGED pc /\ loc' = [loc EXCEPT ![p].at = i + 1]
                                ELSE Return(p)
  /\ UNCHANGED <<claim, handle, status, runner, proof, together>>

\* ... and the owner record, whose write may fail and leave the slot corrupt.
WriteOwner(p) ==
  LET i == loc[p].at  r == loc[p].job
      o == [kind |-> "owner", token |-> r, run |-> r, gen |-> 0, bound |-> FALSE] IN
  /\ pc[p] = "write"
  /\ \/ /\ slot' = [slot EXCEPT ![i] = o]
        /\ handle' = [handle EXCEPT ![r] =
             [kind |-> "handle", host |-> p, at |-> i, owner |-> o, undo |-> NoOwner]]
        /\ Goto(p, "reserved") /\ KeepJob(p)
     \/ Return(p) /\ UNCHANGED <<slot, handle>>
  /\ UNCHANGED <<claim, status, runner, proof, together>>

-----------------------------------------------------------------------------
\* The launch goes wrong before a runner exists.
LaunchFails(p) ==
  /\ pc[p] = "reserved"
  /\ Goto(p, "giveback")
  /\ UNCHANGED <<loc, slot, claim, handle, status, runner, proof, together>>

\* spawnRunner: the runner waits behind its barrier, and the slot is bound to it.
Spawn(p) ==
  LET r == loc[p].job IN
  /\ pc[p] = "reserved"
  /\ runner' = [runner EXCEPT ![r] = "waiting"]
  /\ status' = [status EXCEPT ![r] = "running"]
  /\ Guarded(p, handle[r].owner, handle[r].at, "bind")
  /\ UNCHANGED <<slot, claim, handle, proof, together>>

\* The proceed control is written; or the startup handshake has failed.
Authorize(p) ==
  LET r == loc[p].job IN
  /\ pc[p] = "authorize"
  /\ \/ /\ runner' = [runner EXCEPT ![r] = IF @ = "waiting" THEN "executing" ELSE @]
        /\ Return(p)
     \/ Goto(p, "abort") /\ UNCHANGED <<runner, loc>>
  /\ UNCHANGED <<slot, claim, handle, status, proof, together>>

\* persistPreProceedStartupFailure and the kill, which may not be observed.
Abort(p) ==
  LET r == loc[p].job IN
  /\ pc[p] = "abort"
  /\ status' = [status EXCEPT ![r] = IF proof[r] = "pending" THEN "not-started" ELSE "failed"]
  /\ \/ runner' = [runner EXCEPT ![r] = "dead"]
     \/ UNCHANGED runner
  /\ Guarded(p, handle[r].owner, handle[r].at, "undo")
  /\ UNCHANGED <<slot, claim, handle, proof, together>>

\* rollback(): it returns at once when memory says that the runner was bound.
GiveBack(p) ==
  LET r == loc[p].job IN
  /\ pc[p] = "giveback"
  /\ IF handle[r].owner.bound
       THEN Return(p)
       ELSE Guarded(p, handle[r].owner, handle[r].at, "rollback")
  /\ UNCHANGED <<slot, claim, handle, status, runner, proof, together>>

-----------------------------------------------------------------------------
\* The environment.  A process is killed: what it was doing stops where it was.
Crash(p) ==
  /\ Open(p) /\ Cardinality({q \in Procs : pc[q] = "crashed"}) < MaxCrashes
  /\ Goto(p, "crashed")
  /\ loc' = [loc EXCEPT ![p] = NoLocals]
  /\ UNCHANGED <<slot, claim, handle, status, runner, proof, together>>

\* The runner records the end of its run, or a pause.
RunnerFinish(r) ==
  /\ runner[r] = "executing" /\ status[r] = "running"
  /\ \E s \in {"complete", "failed", "paused"} : status' = [status EXCEPT ![r] = s]
  /\ UNCHANGED <<pc, loc, slot, claim, handle, runner, proof, together>>

RunnerExit(r) ==
  /\ runner[r] \in {"waiting", "executing"}
  /\ runner' = [runner EXCEPT ![r] = "dead"]
  /\ UNCHANGED <<pc, loc, slot, claim, handle, status, proof, together>>

\* finalizeProcessTerminal in the process that launched the runner.
CloseObserved(r) ==
  /\ runner[r] = "dead" /\ proof[r] = "pending"
  /\ handle[r] # NoOwner /\ Open(handle[r].host)
  /\ \E s \in {"observed", "unknown"} : proof' = [proof EXCEPT ![r] = s]
  /\ status' = [status EXCEPT ![r] = IF @ = "not-started" THEN "failed" ELSE @]
  /\ UNCHANGED <<pc, loc, slot, claim, handle, runner, together>>

\* The stale-run reconciler repairs the status of a runner that died running.
RepairStatus(r) ==
  /\ status[r] = "running" /\ runner[r] = "dead"
  /\ status' = [status EXCEPT ![r] = "failed"]
  /\ UNCHANGED <<pc, loc, slot, claim, handle, runner, proof, together>>

-----------------------------------------------------------------------------
Init ==
  /\ pc = [p \in Procs |-> "closed"]
  /\ loc = [p \in Procs |-> NoLocals]
  /\ slot = [i \in Slots |-> Absent]
  /\ claim = [i \in Slots |-> NoOne]
  /\ handle = [r \in Runs |-> NoOwner]
  /\ status = [r \in Runs |-> "none"]
  /\ runner = [r \in Runs |-> "none"]
  /\ proof = [r \in Runs |-> "pending"]
  /\ together = FALSE

\* The steps of an operation once it has begun.
Progress(p) ==
  \/ Scan(p) \/ Judge(p) \/ Claim(p) \/ Unclaim(p)
  \/ RemoveOwnedSlot(p) \/ Transfer(p) \/ MarkStarted(p) \/ UndoBeforeProceed(p) \/ Rollback(p)
  \/ Admit(p) \/ Place(p) \/ WriteOwner(p)
  \/ LaunchFails(p) \/ Spawn(p) \/ Authorize(p) \/ Abort(p) \/ GiveBack(p)

Next ==
  \/ \E p \in Procs : \/ OpenSession(p) \/ Crash(p) \/ Progress(p)
                      \/ \E r \in Runs \cup {NoRun} : StartReconcile(p, r)
                      \/ \E r, src \in Runs : StartResume(p, src, r)
  \/ \E r \in Runs : RunnerFinish(r) \/ RunnerExit(r) \/ CloseObserved(r) \/ RepairStatus(r)

Spec == Init /\ [][Next]_vars

\* An operation that has begun is synchronous code and runs on, unless its process
\* is killed; and a process with the session open keeps reconciling: each launch,
\* status request, completion and process-terminal event does (index.ts:926-938).
LiveSpec == Spec /\ \A p \in Procs : WF_vars(Progress(p)) /\ WF_vars(StartReconcile(p, NoRun))

-----------------------------------------------------------------------------
\* Every variable stays within its domain, and claims are in existing slots.
TypeOK ==
  /\ pc \in [Procs -> PCs]
  /\ loc \in [Procs -> Locals]
  /\ slot \in [Slots -> Owners \cup {Absent, Corrupt}]
  /\ claim \in [Slots -> Procs \cup {NoOne}]
  /\ handle \in [Runs -> {NoOwner} \cup [kind: {"handle"}, host: Procs, at: Slots,
                                        owner: Owners, undo: Owners \cup {NoOwner}]]
  /\ status \in [Runs -> {"none", "running", "paused", "complete", "failed", "not-started"}]
  /\ runner \in [Runs -> {"none", "waiting", "executing", "dead"}]
  /\ proof \in [Runs -> {"pending", "observed", "unknown"}]
  /\ together \in BOOLEAN
  /\ \A i \in Slots : claim[i] # NoOne => slot[i] # Absent

\* A run whose slot has gone to a revival that has not been rolled back.
Resumed(r) ==
  \E q \in Runs : /\ handle[q] # NoOwner /\ handle[q].undo # NoOwner
                  /\ handle[q].undo.run = r /\ handle[q].owner.run = q

\* No more runs execute at once than the configured limit, whatever reservations,
\* releases, transfers, rollbacks and crashes happen (docs/configuration.md:342).
ActiveWithinLimit ==
  Cardinality({r \in Runs : runner[r] = "executing" /\ status[r] = "running"}) <= Limit

\* A run is charged from before it is authorized until its process is gone or the
\* run is resumed: a verdict reached before a transfer, a rollback or a re-creation
\* of the slot never removes the slot of another live run; and a launch in flight keeps
\* the slot it reserved as long as its runner may still be authorized (matchingOwner).
ChargedUntilGone ==
  /\ \A r \in Runs : runner[r] = "executing" /\ ~Resumed(r) =>
       \E i \in Slots : Owned(i) /\ slot[i].run = r /\ slot[i].bound
  /\ \A p \in Procs :
       pc[p] \in {"reserved", "authorize"} /\ runner[loc[p].job] # "dead" =>
         LET h == handle[loc[p].job] IN Matches(h.at, h.owner)

\* As long as one process at a time has had the session open, no slot stays behind unbound
\* with nobody left to bind it or give it back, except by a crash: an unbound slot
\* is never releasable (runnerReleaseVerdict), so it would be lost for ever.
NoOrphanReservation ==
  ~together => \A i \in Slots : Owned(i) /\ ~slot[i].bound =>
    \/ \E p \in Procs : Open(p) /\ loc[p].job = slot[i].run
    \/ \E p \in Procs : pc[p] = "crashed"

\* The promise of SlotPool, as the slot directories keep it: a slot is charged to the run
\* its owner record names, and a run is active while its runner executes and its status
\* says so.
Charge == [i \in Slots |-> IF Owned(i) THEN {slot[i].run} ELSE {}]
PhaseOf(r) ==
  IF runner[r] = "executing" /\ status[r] = "running" THEN "active"
  ELSE IF runner[r] # "dead" /\ status[r] \in {"none", "running"} THEN "new" ELSE "ended"
Phase == [r \in Runs |-> PhaseOf(r)]

Pool == INSTANCE SlotPool WITH
  Places <- Slots, taken <- OccupiedSlots, charge <- Charge, phase <- Phase

\* Whoever reconciles, resumes, rolls back or dies in between: a run begins only in a slot
\* that is charged to it, a slot is freed or handed over only when its run is not active,
\* is never charged to two revivals of one run, and no run begins twice (withSlotClaim).
KeepsPool == Pool!Spec

\* A slot whose runner was observed to exit is released or passed on in the end, unless no
\* process is left to do it or a crashed one left its claim file in the slot: claim
\* files never expire (withSlotClaim).
EventuallyReleased ==
  \A i \in Slots, r \in Runs :
    (Owned(i) /\ slot[i].run = r /\ slot[i].bound /\ Terminal(r) /\ proof[r] = "observed") ~>
      \/ ~(Owned(i) /\ slot[i].run = r)
      \/ claim[i] # NoOne /\ pc[claim[i]] = "crashed"
      \/ \A p \in Procs : ~Open(p)
=============================================================================
