------------------------ MODULE AsyncCapacityProofs ------------------------
(***************************************************************************)
(* Proofs about AsyncCapacity, for any number of processes, runs and slots *)
(* and any limit: no more runs execute than there are slots, a run that    *)
(* executes is charged, the guarded parts of one slot exclude each other,  *)
(* a claim file stays behind only when a process is killed,                *)
(* and the slots implement the counted pool of SlotPool.                   *)
(***************************************************************************)
EXTENDS AsyncCapacity, FiniteSetTheorems, TLAPS

-----------------------------------------------------------------------------
\* Where a process is with the run it launches: nothing in hand; no slot yet; a slot but
\* no runner; a runner that may be authorized, with the slot bound or not; a launch that
\* is taken back.
Guarding(p, operation) == pc[p] \in {"claim", "body", "unclaim"} /\ loc[p].op = operation
Resting(p) == pc[p] \in {"closed", "idle", "crashed"}
Granted(p) ==
  pc[p] = "reserved" \/ (pc[p] = "unclaim" /\ loc[p].op = "transfer" /\ loc[p].ok)
Early(p) ==
  \/ pc[p] \in {"scan", "judge", "admit", "place", "write"}
  \/ Guarding(p, "remove")
  \/ Guarding(p, "transfer") /\ ~Granted(p)
Started(p) == pc[p] \in {"authorize", "abort"} \/ Guarding(p, "bind")
Bound(p) == pc[p] = "authorize" \/ (pc[p] = "unclaim" /\ loc[p].op = "bind" /\ loc[p].ok)
Ending(p) == pc[p] = "giveback" \/ Guarding(p, "undo") \/ Guarding(p, "rollback")
Ended(p) == pc[p] = "unclaim" /\ loc[p].op \in {"undo", "rollback"} /\ loc[p].ok

\* The runner of r will not execute, or not again.
Over(r) == runner[r] = "dead" \/ status[r] = "not-started"

\* The slot that r's handle names is r's.
Holds(r) == Owned(handle[r].at) /\ slot[handle[r].at].run = r

\* A process with nothing in hand launches nothing, and one that has no slot yet has no
\* handle; the directory it is about to give an owner has none.
EarlyOK(p) ==
  LET r == loc[p].job IN
  /\ Resting(p) => r = NoRun
  /\ pc[p] \in {"admit", "place", "write"} \/ Guarding(p, "transfer") => r \in Runs
  /\ Early(p) /\ r \in Runs => handle[r] = NoOwner
  /\ pc[p] = "write" => slot[loc[p].at] = Corrupt
  /\ Resting(p) \/ Early(p) \/ Granted(p) \/ Started(p) \/ Ending(p)

\* A launch holds the slot of its handle until its runner is dead, and has bound it
\* before it authorizes; a launch that is taken back will not be authorized.
LaunchOK(p) ==
  LET r == loc[p].job  h == handle[r] IN
  /\ Granted(p) \/ Started(p) \/ Ending(p) =>
       /\ r \in Runs /\ h.kind = "handle" /\ runner[r] # "executing"
       /\ h.owner.run = r \/ Ended(p)
  /\ Guarding(p, "bind") \/ Guarding(p, "undo") \/ Guarding(p, "rollback") => loc[p].at = h.at
  /\ Granted(p) => status[r] = "none" /\ runner[r] = "none" /\ Holds(r)
  /\ Started(p) => runner[r] \in {"waiting", "dead"}
  /\ Started(p) /\ runner[r] = "waiting" => status[r] = "running" /\ Holds(r)
  /\ Bound(p) /\ runner[r] = "waiting" => slot[h.at].bound

\* A verdict is about a runner that will not execute again.
VerdictOK(p) ==
  /\ pc[p] = "judge" => loc[p].want.kind = "owner"
  /\ pc[p] \in {"claim", "body"} /\ loc[p].op = "remove" =>
       loc[p].want.kind = "owner" /\ Over(loc[p].want.run)

ProcOK(p) == EarlyOK(p) /\ LaunchOK(p) /\ VerdictOK(p)

\* No two processes launch the same run, or write the owner of the same directory.
Apart ==
  \A p, q \in Procs : p # q =>
    /\ loc[p].job # NoRun => loc[q].job # loc[p].job
    /\ pc[p] = "write" /\ pc[q] = "write" => loc[q].at # loc[p].at

\* What the files say of a run before its handle exists and after its runner is gone.
RunFiles ==
  \A r \in Runs :
    /\ handle[r] = NoOwner => status[r] = "none" /\ runner[r] = "none"
    /\ proof[r] # "pending" => runner[r] = "dead"
    /\ status[r] = "not-started" => runner[r] # "executing"

\* The record in a slot is the one the handle of its run has, and of this slot.
OwnersHeld ==
  \A i \in Slots : Owned(i) =>
    LET h == handle[slot[i].run] IN h.kind = "handle" /\ h.at = i /\ Matches(i, h.owner)

\* A transfer that can still be rolled back: the source has no slot, is not running by
\* its status, and gets back the record it had; nobody else took the slot over from it.
Undoable(q) == handle[q].kind = "handle" /\ handle[q].undo # NoOwner /\ handle[q].owner.run = q
TransfersUndoable ==
  \A q \in Runs : Undoable(q) =>
    LET u == handle[q].undo  r == u.run  h == handle[r] IN
    /\ h.kind = "handle" /\ h.at = handle[q].at
    /\ h.owner.token = u.token /\ h.owner.run = r /\ h.owner.gen = u.gen
    /\ status[r] \notin {"none", "running"} /\ ~Holds(r)
    /\ runner[r] = "executing" => u.bound
    /\ \A x \in Runs \ {q} : Undoable(x) => handle[x].undo.run # r

\* What executes and was not resumed has its slot, bound.
ExecutingCharged ==
  \A r \in Runs : runner[r] = "executing" /\ ~Resumed(r) => Holds(r) /\ slot[handle[r].at].bound

Handles == [kind: {"handle"}, host: Procs, at: Slots, owner: Owners, undo: Owners \cup {NoOwner}]
Statuses == {"none", "running", "paused", "complete", "failed", "not-started"}
RunnerStates == {"none", "waiting", "executing", "dead"}

CapacityInv ==
  /\ TypeOK /\ Apart /\ (\A p \in Procs : ProcOK(p))
  /\ RunFiles /\ OwnersHeld /\ TransfersUndoable /\ ExecutingCharged

\* The claim file excludes: two processes are never in the guarded part of one slot.
BodyClaimed == \A p \in Procs : pc[p] = "body" => claim[loc[p].at] = p

-----------------------------------------------------------------------------
\* What the constants give.
LEMMA Constants == Limit \in Nat \ {0} /\ NoOne \notin Procs /\ NoRun \notin Runs
  BY CapacityAssumption DEF NoOne, NoRun

\* There is a slot, as the limit is positive.
LEMMA SlotZero == 0 \in Slots
<1>1. Limit \in Nat \ {0}
  BY Constants
<1> QED
  BY <1>1 DEF Slots

\* A process at rest has nothing in hand.
LEMMA NothingLocal == NoLocals \in Locals /\ NoLocals.job = NoRun
  BY SlotZero DEF NoLocals, Locals, Operations

\* Where an operation goes on, without its claim.
LEMMA ContinueMoves ==
  ASSUME TypeOK, NEW p \in Procs, NEW ok \in BOOLEAN, Continue(p, ok)
  PROVE  /\ pc' \in [Procs -> PCs] /\ loc' \in [Procs -> Locals]
         /\ \A q \in Procs \ {p} : pc'[q] = pc[q] /\ loc'[q] = loc[q]
         /\ \/ loc[p].op = "remove" /\ pc'[p] = "scan" /\ loc'[p].job = loc[p].job
            \/ loc[p].op = "transfer" /\ ok /\ pc'[p] = "reserved" /\ loc'[p].job = loc[p].job
            \/ /\ loc[p].op = "bind" /\ pc'[p] = (IF ok THEN "authorize" ELSE "abort")
               /\ loc'[p].job = loc[p].job
            \/ loc[p].op = "undo" /\ ~ok /\ pc'[p] = "giveback" /\ loc'[p].job = loc[p].job
            \/ /\ loc[p].op = "rollback" \/ (loc[p].op = "transfer" /\ ~ok) \/ (loc[p].op = "undo" /\ ok)
               /\ pc'[p] = "idle" /\ loc'[p] = NoLocals
<1> USE DEF Goto
<1>a. pc \in [Procs -> PCs] /\ loc \in [Procs -> Locals] /\ loc[p].job \in Runs \cup {NoRun}
  BY DEF TypeOK, Locals
<1>1. CASE /\ loc[p].op = "remove" /\ Goto(p, "scan")
           /\ loc' = [loc EXCEPT ![p] = [NoLocals EXCEPT !.job = loc[p].job,
                                                         !.todo = loc[p].todo \ {loc[p].at}]]
  <2>1. loc[p].todo \subseteq Slots
    BY <1>a DEF Locals
  <2>2. loc' \in [Procs -> Locals] /\ loc'[p].job = loc[p].job
    BY <1>1, <1>a, <2>1, NothingLocal DEF Locals, NoLocals
  <2> QED
    BY <1>1, <1>a, <2>2 DEF PCs
<1>2. ASSUME KeepJob(p)
      PROVE  /\ loc' \in [Procs -> Locals] /\ loc'[p].job = loc[p].job
             /\ \A q \in Procs \ {p} : loc'[q] = loc[q]
  BY <1>2, <1>a, NothingLocal DEF KeepJob, Locals, NoLocals
<1>3. ASSUME Return(p)
      PROVE  /\ loc' \in [Procs -> Locals] /\ loc'[p] = NoLocals /\ pc' = [pc EXCEPT ![p] = "idle"]
             /\ \A q \in Procs \ {p} : loc'[q] = loc[q]
  BY <1>3, <1>a, NothingLocal DEF Return
<1>4. CASE loc[p].op = "transfer" /\ IF ok THEN Goto(p, "reserved") /\ KeepJob(p) ELSE Return(p)
  BY <1>4, <1>2, <1>3, <1>a DEF PCs
<1>5. CASE loc[p].op = "bind" /\ Goto(p, IF ok THEN "authorize" ELSE "abort") /\ KeepJob(p)
  BY <1>5, <1>2, <1>a DEF PCs
<1>6. CASE loc[p].op = "undo" /\ IF ok THEN Return(p) ELSE Goto(p, "giveback") /\ KeepJob(p)
  BY <1>6, <1>2, <1>3, <1>a DEF PCs
<1>7. CASE loc[p].op = "rollback" /\ Return(p)
  BY <1>7, <1>3, <1>a DEF PCs
<1> QED
  BY <1>1, <1>4, <1>5, <1>6, <1>7 DEF Continue

\* What a process does by itself.
Acts(p) ==
  \/ OpenSession(p) \/ Crash(p) \/ Progress(p)
  \/ \E r \in Runs \cup {NoRun} : StartReconcile(p, r)
  \/ \E r, src \in Runs : StartResume(p, src, r)

\* A process moves itself only, and to a label and with locals of the model.
LEMMA Moves ==
  ASSUME TypeOK, NEW p \in Procs, LaunchOK(p), Acts(p)
  PROVE  /\ pc' \in [Procs -> PCs] /\ loc' \in [Procs -> Locals]
         /\ \A q \in Procs \ {p} : pc'[q] = pc[q] /\ loc'[q] = loc[q]
<1> DEFINE Moved == /\ pc' \in [Procs -> PCs] /\ loc' \in [Procs -> Locals]
                    /\ \A q \in Procs \ {p} : pc'[q] = pc[q] /\ loc'[q] = loc[q]
<1> USE DEF Goto, PCs
<1>a. /\ pc \in [Procs -> PCs] /\ loc \in [Procs -> Locals] /\ NoLocals \in Locals
      /\ loc[p].job \in Runs \cup {NoRun} /\ loc[p].at \in Slots /\ loc[p].todo \subseteq Slots
      /\ loc[p].want \in Owners \cup {NoOwner} /\ loc[p].ok \in BOOLEAN
  BY NothingLocal DEF TypeOK, Locals
<1> DEFINE
           LocMoved == loc' \in [Procs -> Locals] /\ \A q \in Procs \ {p} : loc'[q] = loc[q]
<1>g. loc \in [Procs -> Locals] /\ loc[p].todo \subseteq Slots
  BY <1>a
<1>b. ASSUME KeepJob(p) \/ Return(p) PROVE LocMoved
  <2>1. NoLocals \in Locals /\ [NoLocals EXCEPT !.job = loc[p].job] \in Locals
    BY <1>a DEF Locals
  <2> QED
    BY <1>b, <1>a, <2>1 DEF KeepJob, Return
<1>c. ASSUME NEW ok \in BOOLEAN, Done(p, ok) PROVE Moved
  BY <1>c, <1>a DEF Done, Locals
<1>d. ASSUME NEW op \in Operations, NEW o \in Owners \cup {NoOwner}, NEW i \in Slots, Guarded(p, o, i, op)
      PROVE  Moved
  <2>1. [loc[p] EXCEPT !.op = op, !.at = i, !.want = o, !.ok = FALSE] \in Locals
    BY <1>a DEF Locals
  <2> QED
    BY <1>d, <2>1, <1>a DEF Guarded
<1>f. Started(p) \/ Granted(p) \/ Ending(p) =>
        handle[loc[p].job].owner \in Owners /\ handle[loc[p].job].at \in Slots
  BY DEF LaunchOK, TypeOK, NoOwner
<1>e. ASSUME NEW i \in Slots, Owned(i) PROVE slot[i] \in Owners
  BY <1>e DEF TypeOK, Owned, Absent, Corrupt
<1>1. ASSUME OpenSession(p) PROVE Moved
  BY <1>1, <1>a DEF OpenSession
<1>2. ASSUME Crash(p) PROVE Moved
  BY <1>2, <1>a DEF Crash
<1>3. ASSUME NEW r \in Runs \cup {NoRun}, StartReconcile(p, r) PROVE Moved
  BY <1>3, <1>a DEF StartReconcile, Locals, NoLocals, OccupiedSlots
<1>4. ASSUME NEW r \in Runs, NEW src \in Runs, StartResume(p, src, r) PROVE Moved
  <2>1. CASE \E i \in Slots :
              /\ Owned(i) /\ slot[i].run = src
              /\ Goto(p, "claim")
              /\ loc' = [loc EXCEPT ![p] = [NoLocals EXCEPT !.op = "transfer", !.at = i,
                                                            !.want = slot[i], !.job = r]]
    <3>1. ASSUME NEW i \in Slots, NEW o \in Owners
          PROVE  [NoLocals EXCEPT !.op = "transfer", !.at = i, !.want = o, !.job = r] \in Locals
      BY <1>a DEF Locals, Operations
    <3>2. PICK i \in Slots :
              /\ Owned(i) /\ Goto(p, "claim")
              /\ loc' = [loc EXCEPT ![p] = [NoLocals EXCEPT !.op = "transfer", !.at = i,
                                                            !.want = slot[i], !.job = r]]
      BY <2>1
    <3>3. slot[i] \in Owners
      BY <3>2, <1>e
    <3>4. [NoLocals EXCEPT !.op = "transfer", !.at = i, !.want = slot[i], !.job = r] \in Locals
      BY <3>1, <3>3
    <3> QED
      BY <3>2, <3>4, <1>a
  <2>2. CASE /\ Goto(p, "scan")
            /\ loc' = [loc EXCEPT ![p] = [NoLocals EXCEPT !.todo = OccupiedSlots, !.job = r]]
    BY <2>2, <1>a DEF Locals, NoLocals, OccupiedSlots
  <2> QED
    BY <1>4, <2>1, <2>2 DEF StartResume
<1>5. ASSUME Scan(p) PROVE Moved
  <2>1. ASSUME NEW i \in Slots, slot[i] \in Owners,
               loc' = [loc EXCEPT ![p] = [@ EXCEPT !.at = i, !.want = slot[i]]]
        PROVE  LocMoved
    BY <2>1, <1>g DEF Locals
  <2>2. ASSUME NEW i \in Slots, loc' = [loc EXCEPT ![p].todo = @ \ {i}] PROVE LocMoved
    BY <2>2, <1>g DEF Locals
  <2>3. CASE loc[p].todo = {}
    BY <1>5, <2>3, <1>a, <1>b DEF Scan, Return
  <2>4. ASSUME NEW i \in loc[p].todo, Owned(i), Goto(p, "judge"),
               loc' = [loc EXCEPT ![p] = [@ EXCEPT !.at = i, !.want = slot[i]]]
        PROVE  Moved
    BY <2>4, <2>1, <1>a, <1>e
  <2>5. ASSUME NEW i \in loc[p].todo, UNCHANGED pc, loc' = [loc EXCEPT ![p].todo = @ \ {i}]
        PROVE  Moved
    BY <2>5, <2>2, <1>a
  <2>6. ASSUME NEW i \in loc[p].todo,
               IF Owned(i)
                 THEN /\ Goto(p, "judge")
                      /\ loc' = [loc EXCEPT ![p] = [@ EXCEPT !.at = i, !.want = slot[i]]]
                 ELSE UNCHANGED pc /\ loc' = [loc EXCEPT ![p].todo = @ \ {i}]
        PROVE  Moved
    <3> HIDE DEF Moved, Goto
    <3> QED
      BY <2>6, <2>4, <2>5
  <2> HIDE DEF Moved, Goto
  <2> QED
    BY <1>5, <2>3, <2>6 DEF Scan
<1>6. ASSUME Judge(p) PROVE Moved
  <2>1. CASE Guarded(p, loc[p].want, loc[p].at, "remove")
    BY <2>1, <1>a, <1>d DEF Operations
  <2>2. CASE /\ Goto(p, "scan")
             /\ loc' = [loc EXCEPT ![p] = [NoLocals EXCEPT !.job = loc[p].job,
                                                          !.todo = loc[p].todo \ {loc[p].at}]]
    BY <2>2, <1>a DEF Locals, NoLocals
  <2> QED
    BY <1>6, <2>1, <2>2 DEF Judge
<1>7. ASSUME Claim(p) PROVE Moved
  <2>1. CASE Continue(p, FALSE)
    BY <2>1, ContinueMoves
  <2>2. CASE Goto(p, "body") /\ UNCHANGED loc
    BY <2>2, <1>a
  <2> QED
    BY <1>7, <2>1, <2>2 DEF Claim
<1>8. ASSUME Unclaim(p) PROVE Moved
  BY <1>8, <1>a, ContinueMoves DEF Unclaim
<1>9. ASSUME RemoveOwnedSlot(p) PROVE Moved
  BY <1>9, <1>c DEF RemoveOwnedSlot
<1>10. ASSUME Transfer(p) PROVE Moved
  BY <1>10, <1>c DEF Transfer
<1>11. ASSUME MarkStarted(p) PROVE Moved
  BY <1>11, <1>c DEF MarkStarted
<1>12. ASSUME UndoBeforeProceed(p) PROVE Moved
  BY <1>12, <1>c DEF UndoBeforeProceed
<1>13. ASSUME Rollback(p) PROVE Moved
  BY <1>13, <1>c DEF Rollback
<1>14. ASSUME Admit(p) PROVE Moved
  BY <1>14, <1>a, <1>b, SlotZero DEF Admit, Return, Locals
<1>15. ASSUME Place(p) PROVE Moved
  <2>1. loc[p].at + 1 < Limit => loc[p].at + 1 \in Slots
    BY <1>a, Constants DEF Slots
  <2>2. CASE slot[loc[p].at] = Absent
    BY <1>15, <2>2, <1>a DEF Place
  <2>3. CASE loc[p].at + 1 < Limit /\ UNCHANGED pc /\ loc' = [loc EXCEPT ![p].at = loc[p].at + 1]
    BY <2>3, <2>1, <1>a DEF Locals
  <2>4. CASE Return(p)
    BY <2>4, <1>a, <1>b DEF Return
  <2> QED
    BY <1>15, <2>2, <2>3, <2>4 DEF Place
<1>16. ASSUME WriteOwner(p) PROVE Moved
  BY <1>16, <1>a, <1>b DEF WriteOwner, Return
<1>17. ASSUME LaunchFails(p) PROVE Moved
  BY <1>17, <1>a DEF LaunchFails
<1>18. ASSUME Spawn(p) PROVE Moved
  <2>1. handle[loc[p].job].owner \in Owners /\ handle[loc[p].job].at \in Slots
    BY <1>18, <1>f DEF Spawn, Granted
  <2> QED
    BY <1>18, <2>1, <1>a, <1>b, <1>d DEF Spawn, Operations, Return
<1>19. ASSUME Authorize(p) PROVE Moved
  BY <1>19, <1>a, <1>b DEF Authorize, Return
<1>20. ASSUME Abort(p) PROVE Moved
  <2>1. handle[loc[p].job].owner \in Owners /\ handle[loc[p].job].at \in Slots
    BY <1>20, <1>f DEF Abort, Started
  <2> QED
    BY <1>20, <2>1, <1>a, <1>b, <1>d DEF Abort, Operations, Return
<1>21. ASSUME GiveBack(p) PROVE Moved
  <2>1. handle[loc[p].job].owner \in Owners /\ handle[loc[p].job].at \in Slots
    BY <1>21, <1>f DEF GiveBack, Ending
  <2> QED
    BY <1>21, <2>1, <1>a, <1>b, <1>d DEF GiveBack, Operations, Return
<1> QED
  BY <1>1, <1>2, <1>3, <1>4, <1>5, <1>6, <1>7, <1>8, <1>9, <1>10, <1>11, <1>12, <1>13, <1>14,
     <1>15, <1>16, <1>17, <1>18, <1>19, <1>20, <1>21 DEF Acts, Progress

-----------------------------------------------------------------------------
\* The other processes are where they were: a step touches only the files of the run its
\* process launches, keeps what is over, the slots of launches in flight and the
\* directories somebody else is about to write.
LEMMA Others ==
  ASSUME CapacityInv, NEW p \in Procs,
         \A q \in Procs \ {p} : pc'[q] = pc[q] /\ loc'[q] = loc[q],
         \A r \in Runs \ {loc[p].job} :
           /\ handle'[r] = handle[r] /\ status'[r] = status[r] /\ runner'[r] = runner[r]
           /\ handle[r].kind = "handle" /\ Holds(r)
                /\ status[r] \in {"none", "running"} /\ runner[r] # "dead" =>
                slot'[handle[r].at] = slot[handle[r].at],
         \A r \in Runs : Over(r) => Over(r)',
         \A i \in Slots : slot[i] = Corrupt =>
           slot'[i] = Corrupt \/ (pc[p] = "write" /\ i = loc[p].at)
  PROVE  \A q \in Procs \ {p} : ProcOK(q)'
<1> SUFFICES ASSUME NEW q \in Procs \ {p} PROVE ProcOK(q)'
  OBVIOUS
<1> USE DEF Resting, Early, Granted, Started, Bound, Ending, Ended, Guarding
<1>1. /\ ProcOK(q) /\ pc'[q] = pc[q] /\ loc'[q] = loc[q]
      /\ loc[q].job # NoRun => loc[q].job # loc[p].job
      /\ pc[p] = "write" /\ pc[q] = "write" => loc[q].at # loc[p].at
      /\ loc[q].at \in Slots /\ loc[q].want \in Owners \cup {NoOwner}
      /\ NoRun \notin Runs
  BY Constants DEF CapacityInv, Apart, TypeOK, Locals
<1>2. EarlyOK(q)'
  BY <1>1 DEF ProcOK, EarlyOK
<1>3. LaunchOK(q)'
  <2>1. CASE loc[q].job \in Runs
    <3>1. /\ handle'[loc[q].job] = handle[loc[q].job]
          /\ status'[loc[q].job] = status[loc[q].job]
          /\ runner'[loc[q].job] = runner[loc[q].job]
      BY <2>1, <1>1
    <3> QED
      BY <2>1, <3>1, <1>1 DEF ProcOK, LaunchOK, Holds, Owned
  <2>2. CASE loc[q].job \notin Runs
    BY <2>2, <1>1 DEF ProcOK, LaunchOK
  <2> QED
    BY <2>1, <2>2, SMTT(30)
<1>4. VerdictOK(q)'
  <2>1. loc[q].want.kind = "owner" => loc[q].want.run \in Runs
    BY <1>1 DEF Owners, NoOwner
  <2> QED
    BY <1>1, <2>1 DEF ProcOK, VerdictOK
<1> QED
  BY <1>2, <1>3, <1>4 DEF ProcOK

\* A step that changes nothing but where its process is.
LEMMA LocalStep ==
  ASSUME CapacityInv, NEW p \in Procs, UNCHANGED <<slot, handle, status, runner, proof>>, TypeOK',
         \A q \in Procs \ {p} : pc'[q] = pc[q] /\ loc'[q] = loc[q],
         ProcOK(p)', pc'[p] # "write",
         \A q \in Procs \ {p} : loc'[p].job # NoRun => loc[q].job # loc'[p].job
  PROVE  CapacityInv'
<1>1. \A q \in Procs \ {p} : ProcOK(q)'
  BY Others DEF Over
<1>2. Apart'
  BY DEF CapacityInv, Apart
<1>3. RunFiles' /\ OwnersHeld' /\ ExecutingCharged'
  BY SMTT(30) DEF CapacityInv, RunFiles, OwnersHeld, ExecutingCharged, Holds, Owned, Matches, Resumed
<1>4. TransfersUndoable'
  BY DEF CapacityInv, TransfersUndoable, Undoable, Holds, Owned
<1> QED
  BY <1>1, <1>2, <1>3, <1>4 DEF CapacityInv

\* The files stay within their domains.
LEMMA FileTypes ==
  ASSUME CapacityInv, Next
  PROVE  /\ slot' \in [Slots -> Owners \cup {Absent, Corrupt}]
         /\ claim' \in [Slots -> Procs \cup {NoOne}]
         /\ \A i \in Slots : claim'[i] # NoOne => slot'[i] # Absent
         /\ handle' \in [Runs -> {NoOwner} \cup Handles]
         /\ status' \in [Runs -> Statuses] /\ runner' \in [Runs -> RunnerStates]
         /\ proof' \in [Runs -> {"pending", "observed", "unknown"}]
<1> DEFINE Files == /\ slot' \in [Slots -> Owners \cup {Absent, Corrupt}]
                    /\ claim' \in [Slots -> Procs \cup {NoOne}]
                    /\ \A i \in Slots : claim'[i] # NoOne => slot'[i] # Absent
           Records == handle' \in [Runs -> {NoOwner} \cup Handles]
           RunTypes == /\ status' \in [Runs -> Statuses] /\ runner' \in [Runs -> RunnerStates]
                       /\ proof' \in [Runs -> {"pending", "observed", "unknown"}]
<1>a. /\ slot \in [Slots -> Owners \cup {Absent, Corrupt}]
      /\ claim \in [Slots -> Procs \cup {NoOne}]
      /\ \A i \in Slots : claim[i] # NoOne => slot[i] # Absent
      /\ handle \in [Runs -> {NoOwner} \cup Handles]
      /\ status \in [Runs -> Statuses] /\ runner \in [Runs -> RunnerStates]
      /\ proof \in [Runs -> {"pending", "observed", "unknown"}]
      /\ Absent \notin Owners /\ Corrupt # Absent
  BY DEF CapacityInv, TypeOK, Handles, Statuses, RunnerStates, Owners, Absent, Corrupt
<1>b. \A p \in Procs : loc[p].at \in Slots
  BY DEF CapacityInv, TypeOK, Locals
<1>c. \A p \in Procs : Granted(p) \/ Started(p) \/ Ending(p) =>
        loc[p].job \in Runs /\ handle[loc[p].job] \in Handles
  BY <1>a DEF CapacityInv, ProcOK, LaunchOK, NoOwner
<1>d. \A p \in Procs : pc[p] = "write" \/ Guarding(p, "transfer") => loc[p].job \in Runs
  BY DEF CapacityInv, ProcOK, EarlyOK
<1>1. ASSUME UNCHANGED <<slot, claim>> PROVE Files
  BY <1>1, <1>a
<1>2. ASSUME UNCHANGED handle PROVE Records
  BY <1>2, <1>a
<1>3. ASSUME UNCHANGED <<status, runner, proof>> PROVE RunTypes
  BY <1>3, <1>a
<1>4. ASSUME NEW i \in Slots, RenameAway(i) PROVE Files
  BY <1>4, <1>a DEF RenameAway
<1>5. ASSUME NEW p \in Procs, Claim(p) \/ Unclaim(p) PROVE Files
  BY <1>5, <1>a, <1>b DEF Claim, Unclaim
<1>6. ASSUME NEW i \in Slots, NEW o \in Owners \cup {Corrupt}, slot' = [slot EXCEPT ![i] = o], UNCHANGED claim
      PROVE  Files
  BY <1>6, <1>a
<1>7. ASSUME NEW p \in Procs, Transfer(p) PROVE Files /\ Records
  <2> DEFINE i == loc[p].at  r == loc[p].job  o == slot[i]
             next == [o EXCEPT !.run = r, !.gen = @ + 1, !.bound = FALSE]
  <2>1. r \in Runs /\ i \in Slots
    BY <1>7, <1>b, <1>d DEF Transfer, Guarding
  <2>2. CASE Matches(i, loc[p].want) /\ slot' = [slot EXCEPT ![i] = next]
             /\ handle' = [handle EXCEPT ![r] =
                  [kind |-> "handle", host |-> p, at |-> i, owner |-> next, undo |-> o]]
    <3>1. o \in Owners
      BY <2>2, <2>1, <1>a DEF Matches, Owned, Absent, Corrupt
    <3>2. next \in Owners
      <4>1. ASSUME NEW x \in Owners, NEW y \in Runs
            PROVE  [x EXCEPT !.run = y, !.gen = x.gen + 1, !.bound = FALSE] \in Owners
        <5>1. x.gen + 1 \in Nat
          BY DEF Owners
        <5> QED
          BY <5>1 DEF Owners
      <4> QED
        BY <4>1, <3>1, <2>1
    <3>3. Files
      BY <1>7, <2>1, <2>2, <3>2, <1>6 DEF Transfer
    <3>4. [kind |-> "handle", host |-> p, at |-> i, owner |-> next, undo |-> o] \in Handles
      BY <3>1, <3>2, <2>1 DEF Handles
    <3>5. Records
      BY <2>2, <3>4, <2>1, <1>a
    <3> QED
      BY <3>3, <3>5
  <2>3. CASE UNCHANGED <<slot, handle>>
    BY <1>7, <2>3, <1>1, <1>2 DEF Transfer
  <2> QED
    BY <1>7, <2>2, <2>3 DEF Transfer
<1>8. ASSUME NEW p \in Procs, MarkStarted(p) PROVE Files /\ Records
  <2> DEFINE i == loc[p].at  r == loc[p].job
  <2>1. r \in Runs /\ i \in Slots /\ handle[r] \in Handles
    BY <1>8, <1>b, <1>c DEF MarkStarted, Guarding, Started
  <2>2. Records
    <3>1. [handle[r] EXCEPT !.owner.bound = TRUE] \in Handles
      BY <2>1 DEF Handles, Owners
    <3>2. CASE handle' = [handle EXCEPT ![r].owner.bound = TRUE]
      BY <3>1, <3>2, <2>1, <1>a
    <3> QED
      BY <1>8, <3>2, <1>2 DEF MarkStarted
  <2>3. CASE Matches(i, handle[r].owner) /\ slot' = [slot EXCEPT ![i].bound = TRUE]
    <3>1. slot[i] \in Owners
      BY <2>3, <2>1, <1>a DEF Matches, Owned, Absent, Corrupt
    <3>2. [slot[i] EXCEPT !.bound = TRUE] \in Owners
      BY <3>1 DEF Owners
    <3>3. slot' = [slot EXCEPT ![i] = [slot[i] EXCEPT !.bound = TRUE]]
      BY <2>3, <2>1, <1>a
    <3> QED
      BY <1>8, <3>2, <3>3, <2>1, <2>2, <1>6 DEF MarkStarted
  <2>4. CASE UNCHANGED slot
    BY <1>8, <2>4, <2>2, <1>1 DEF MarkStarted
  <2> QED
    BY <1>8, <2>3, <2>4 DEF MarkStarted
<1>9. ASSUME NEW i \in Slots, NEW r \in Runs, handle[r] \in Handles, NEW p \in Procs, GiveSlotBack(p, i, r)
      PROVE  Files /\ Records
  <2>1. CASE handle[r].undo = NoOwner
    BY <1>9, <2>1, <1>2, <1>4 DEF GiveSlotBack
  <2>2. CASE handle[r].undo # NoOwner
    <3>1. handle[r].undo \in Owners
      BY <1>9, <2>2 DEF Handles
    <3>2. Files
      BY <1>9, <2>2, <3>1, <1>6 DEF GiveSlotBack
    <3>3. [handle[r] EXCEPT !.owner = handle[r].undo] \in Handles
      BY <1>9, <3>1 DEF Handles
    <3>4. handle' = [handle EXCEPT ![r] = [handle[r] EXCEPT !.owner = handle[r].undo]]
      BY <1>9, <2>2, <1>a DEF GiveSlotBack
    <3> QED
      BY <3>2, <3>3, <3>4, <1>9, <1>a
  <2> QED
    BY <2>1, <2>2
<1>10. ASSUME NEW p \in Procs, UndoBeforeProceed(p) \/ Rollback(p) PROVE Files /\ Records
  <2>1. loc[p].job \in Runs /\ loc[p].at \in Slots /\ handle[loc[p].job] \in Handles
    BY <1>10, <1>b, <1>c DEF UndoBeforeProceed, Rollback, Guarding, Ending
  <2> QED
    BY <1>10, <2>1, <1>1, <1>2, <1>9 DEF UndoBeforeProceed, Rollback
<1>11. ASSUME NEW p \in Procs, WriteOwner(p) PROVE Files /\ Records
  <2> DEFINE r == loc[p].job
             o == [kind |-> "owner", token |-> r, run |-> r, gen |-> 0, bound |-> FALSE]
  <2>1. r \in Runs /\ loc[p].at \in Slots
    BY <1>11, <1>b, <1>d DEF WriteOwner
  <2>2. /\ o \in Owners
        /\ [kind |-> "handle", host |-> p, at |-> loc[p].at, owner |-> o, undo |-> NoOwner]
             \in Handles
    BY <2>1 DEF Owners, Handles
  <2>3. CASE /\ slot' = [slot EXCEPT ![loc[p].at] = o]
             /\ handle' = [handle EXCEPT ![r] =
                  [kind |-> "handle", host |-> p, at |-> loc[p].at, owner |-> o, undo |-> NoOwner]]
    BY <1>11, <2>1, <2>2, <2>3, <1>6, <1>a DEF WriteOwner
  <2>4. CASE UNCHANGED <<slot, handle>>
    BY <1>11, <2>4, <1>1, <1>2 DEF WriteOwner
  <2> QED
    BY <1>11, <2>3, <2>4 DEF WriteOwner
<1>12. ASSUME NEW p \in Procs, Spawn(p) \/ Authorize(p) \/ Abort(p) PROVE RunTypes
  BY <1>12, <1>a DEF Spawn, Authorize, Abort, Statuses, RunnerStates
<1>13. ASSUME NEW r \in Runs, RunnerFinish(r) \/ RunnerExit(r) \/ CloseObserved(r) \/ RepairStatus(r)
       PROVE  Files /\ Records /\ RunTypes
  BY <1>13, <1>1, <1>2, <1>a
     DEF RunnerFinish, RunnerExit, CloseObserved, RepairStatus, Statuses, RunnerStates
<1>14. ASSUME NEW p \in Procs, Acts(p) PROVE Files /\ Records /\ RunTypes
  <2> HIDE DEF Files, Records, RunTypes
  <2>1. ASSUME NEW r \in Runs \cup {NoRun}, StartReconcile(p, r)
        PROVE  Files /\ Records /\ RunTypes
    BY <2>1, <1>1, <1>2, <1>3 DEF StartReconcile
  <2>2. ASSUME NEW r \in Runs, NEW src \in Runs, StartResume(p, src, r)
        PROVE  Files /\ Records /\ RunTypes
    BY <2>2, <1>1, <1>2, <1>3 DEF StartResume
  <2>3. CASE OpenSession(p) \/ Crash(p) \/ Scan(p) \/ Judge(p) \/ Admit(p) \/ LaunchFails(p) \/ GiveBack(p)
    BY <2>3, <1>1, <1>2, <1>3 DEF OpenSession, Crash, Scan, Judge, Admit, LaunchFails, GiveBack
  <2>4. CASE Claim(p) \/ Unclaim(p)
    BY <2>4, <1>5, <1>2, <1>3 DEF Claim, Unclaim
  <2>5. CASE RemoveOwnedSlot(p)
    BY <2>5, <1>1, <1>2, <1>3, <1>4, <1>b DEF RemoveOwnedSlot
  <2>6. CASE Transfer(p) \/ MarkStarted(p) \/ UndoBeforeProceed(p) \/ Rollback(p) \/ WriteOwner(p)
    BY <2>6, <1>3, <1>7, <1>8, <1>10, <1>11 DEF Transfer, MarkStarted, UndoBeforeProceed,
       Rollback, WriteOwner
  <2>7. CASE Place(p)
    BY <2>7, <1>1, <1>2, <1>3, <1>6, <1>b DEF Place
  <2>8. CASE Spawn(p) \/ Authorize(p) \/ Abort(p)
    BY <2>8, <1>1, <1>2, <1>12 DEF Spawn, Authorize, Abort
  <2> QED
    BY <1>14, <2>1, <2>2, <2>3, <2>4, <2>5, <2>6, <2>7, <2>8 DEF Acts, Progress
<1> QED
  BY <1>13, <1>14 DEF Next, Acts

\* Two processes that have had the session open at once have had it open for good.
LEMMA TogetherStays ==
  ASSUME NEW p \in Procs, Acts(p)
  PROVE  /\ together => together'
         /\ together \in BOOLEAN => together' \in BOOLEAN
<1>1. CASE OpenSession(p)
  BY <1>1 DEF OpenSession
<1>2. CASE ~OpenSession(p)
  <2>1. UNCHANGED together
    BY <1>2 DEF Acts, Crash, Progress, Scan, Judge, Claim, Unclaim, RemoveOwnedSlot, Transfer,
       MarkStarted, UndoBeforeProceed, Rollback, Admit, Place, WriteOwner, LaunchFails, Spawn,
       Authorize, Abort, GiveBack, StartReconcile, StartResume
  <2> QED
    BY <2>1
<1> QED
  BY <1>1, <1>2

\* So does all the rest.
LEMMA TypeStep ==
  ASSUME CapacityInv, Next
  PROVE  TypeOK'
<1>1. pc' \in [Procs -> PCs] /\ loc' \in [Procs -> Locals]
  <2>1. ASSUME NEW p \in Procs, Acts(p)
        PROVE  pc' \in [Procs -> PCs] /\ loc' \in [Procs -> Locals]
    BY <2>1, Moves DEF CapacityInv, ProcOK
  <2>2. ASSUME NEW r \in Runs, RunnerFinish(r) \/ RunnerExit(r) \/ CloseObserved(r) \/ RepairStatus(r)
        PROVE  pc' \in [Procs -> PCs] /\ loc' \in [Procs -> Locals]
    BY <2>2 DEF CapacityInv, TypeOK, RunnerFinish, RunnerExit, CloseObserved, RepairStatus
  <2> QED
    BY <2>1, <2>2 DEF Next, Acts
<1>2. together' \in BOOLEAN
  <2>1. together \in BOOLEAN
    BY DEF CapacityInv, TypeOK
  <2>2. ASSUME NEW r \in Runs, RunnerFinish(r) \/ RunnerExit(r) \/ CloseObserved(r) \/ RepairStatus(r)
        PROVE  UNCHANGED together
    BY <2>2 DEF RunnerFinish, RunnerExit, CloseObserved, RepairStatus
  <2> QED
    BY <2>1, <2>2, TogetherStays DEF Next, Acts
<1> QED
  BY <1>1, <1>2, FileTypes DEF TypeOK, Handles, Statuses, RunnerStates

-----------------------------------------------------------------------------
\* A session is opened or a process is killed.
LEMMA OpenOrCrash ==
  ASSUME CapacityInv, TypeOK', NEW p \in Procs, OpenSession(p) \/ Crash(p)
  PROVE  CapacityInv'
<1> USE DEF Goto, Resting, Early, Granted, Started, Bound, Ending, Ended, Guarding
<1>1. /\ pc \in [Procs -> PCs] /\ loc \in [Procs -> Locals] /\ EarlyOK(p)
      /\ NoLocals.job = NoRun
  BY NothingLocal DEF CapacityInv, TypeOK, ProcOK
<1>2. pc'[p] \in {"idle", "crashed"} /\ loc'[p].job = NoRun
  BY <1>1 DEF OpenSession, Crash, EarlyOK
<1>3. ProcOK(p)'
  BY <1>2 DEF ProcOK, EarlyOK, LaunchOK, VerdictOK
<1>4. \A q \in Procs \ {p} : pc'[q] = pc[q] /\ loc'[q] = loc[q]
  BY <1>1 DEF OpenSession, Crash
<1> QED
  BY <1>2, <1>3, <1>4, LocalStep DEF OpenSession, Crash

\* Only the one who is launching a run has it in hand.
LEMMA FreshForAll ==
  ASSUME CapacityInv, NEW r \in Runs, Fresh(r)
  PROVE  handle[r] = NoOwner /\ \A q \in Procs : loc[q].job # r
<1>1. ASSUME NEW q \in Procs PROVE loc[q].job # r
  <2>1. CASE Open(q)
    BY <2>1 DEF Fresh
  <2>2. CASE ~Open(q)
    BY <2>2, Constants DEF Open, CapacityInv, ProcOK, EarlyOK, Resting
  <2> QED
    BY <2>1, <2>2
<1> QED
  BY <1>1 DEF Fresh

\* An operation begins.
LEMMA Starts ==
  ASSUME CapacityInv, TypeOK', NEW p \in Procs,
         \/ \E r \in Runs \cup {NoRun} : StartReconcile(p, r)
         \/ \E r, src \in Runs : StartResume(p, src, r)
  PROVE  CapacityInv'
<1> USE DEF Goto, Resting, Early, Granted, Started, Bound, Ending, Ended, Guarding
<1>1. pc \in [Procs -> PCs] /\ loc \in [Procs -> Locals]
  BY DEF CapacityInv, TypeOK
<1>2. ASSUME NEW r \in Runs \cup {NoRun}, r # NoRun => Fresh(r), loc'[p].job = r,
             \/ pc'[p] = "scan"
             \/ pc'[p] = "claim" /\ loc'[p].op = "transfer" /\ r \in Runs,
             \A q \in Procs \ {p} : pc'[q] = pc[q] /\ loc'[q] = loc[q],
             UNCHANGED <<slot, handle, status, runner, proof>>
      PROVE  CapacityInv'
  <2>1. ProcOK(p)'
    <3>1. r \in Runs => handle'[r] = NoOwner
      BY <1>2, FreshForAll, Constants
    <3> QED
      BY <1>2, <3>1 DEF ProcOK, EarlyOK, LaunchOK, VerdictOK
  <2>2. \A q \in Procs \ {p} : loc'[p].job # NoRun => loc[q].job # loc'[p].job
    BY <1>2, FreshForAll
  <2> QED
    BY <1>2, <2>1, <2>2, LocalStep
<1>3. ASSUME NEW r \in Runs \cup {NoRun}, StartReconcile(p, r) PROVE CapacityInv'
  <2>1. loc'[p].job = r /\ pc'[p] = "scan" /\ \A q \in Procs \ {p} : pc'[q] = pc[q] /\ loc'[q] = loc[q]
    BY <1>3, <1>1, ZenonT(30) DEF StartReconcile, NoLocals
  <2> QED
    BY <1>2, <1>3, <2>1 DEF StartReconcile
<1>4. ASSUME NEW r \in Runs, NEW src \in Runs, StartResume(p, src, r) PROVE CapacityInv'
  <2>1. /\ loc'[p].job = r
        /\ pc'[p] = "scan" \/ (pc'[p] = "claim" /\ loc'[p].op = "transfer")
        /\ \A q \in Procs \ {p} : pc'[q] = pc[q] /\ loc'[q] = loc[q]
    <3>1. CASE \E i \in Slots :
                 /\ Goto(p, "claim")
                 /\ loc' = [loc EXCEPT ![p] = [NoLocals EXCEPT !.op = "transfer", !.at = i,
                                                               !.want = slot[i], !.job = r]]
      BY <3>1, <1>1 DEF NoLocals
    <3>2. CASE /\ Goto(p, "scan")
               /\ loc' = [loc EXCEPT ![p] = [NoLocals EXCEPT !.todo = OccupiedSlots, !.job = r]]
      BY <3>2, <1>1 DEF NoLocals
    <3> QED
      BY <1>4, <3>1, <3>2 DEF StartResume
  <2> QED
    BY <1>2, <1>4, <2>1, ZenonT(30) DEF StartResume
<1> QED
  BY <1>3, <1>4

\* The steps by which an operation goes on without touching a slot.
LEMMA GoesOn ==
  ASSUME CapacityInv, TypeOK', NEW p \in Procs,
         Scan(p) \/ Judge(p) \/ Claim(p) \/ Unclaim(p) \/ Admit(p) \/ LaunchFails(p) \/ GiveBack(p)
  PROVE  CapacityInv'
<1> USE DEF Goto
<1> DEFINE Unmoved == \A q \in Procs \ {p} : pc'[q] = pc[q] /\ loc'[q] = loc[q]
<1>a. /\ pc \in [Procs -> PCs] /\ loc \in [Procs -> Locals] /\ loc[p] \in Locals
      /\ ProcOK(p) /\ TypeOK /\ NoLocals.job = NoRun
      /\ \A q \in Procs \ {p} : loc[p].job # NoRun => loc[q].job # loc[p].job
      /\ loc[p].job \in Runs \cup {NoRun} /\ NoRun \notin Runs
  BY NothingLocal, Constants, SMTT(30) DEF CapacityInv, TypeOK, Apart, Locals
<1>b. UNCHANGED <<slot, handle, status, runner, proof>>
  BY DEF Scan, Judge, Claim, Unclaim, Admit, LaunchFails, GiveBack
<1>c. Unmoved
  BY <1>a, Moves DEF Acts, Progress, ProcOK
<1>d. ASSUME ProcOK(p)', pc'[p] # "write", loc'[p].job \in {NoRun, loc[p].job}
      PROVE  CapacityInv'
  BY <1>a, <1>b, <1>c, <1>d, LocalStep
<1>e. ASSUME Return(p) PROVE pc'[p] = "idle" /\ loc'[p].job = NoRun
  BY <1>e, <1>a DEF Return
<1>f. ASSUME pc'[p] = "idle", loc'[p].job = NoRun PROVE CapacityInv'
  <2>1. ProcOK(p)'
    BY <1>f DEF ProcOK, EarlyOK, LaunchOK, VerdictOK, Resting, Early, Granted, Started, Bound,
       Ending,
                Ended, Guarding
  <2> QED
    BY <2>1, <1>d, <1>f
<1> USE DEF Resting, Early, Granted, Started, Bound, Ending, Ended, Guarding
<1>1. CASE Scan(p)
  <2>1. \/ pc'[p] = "idle" /\ loc'[p].job = NoRun
        \/ /\ loc'[p].job = loc[p].job
           /\ \/ pc'[p] = "admit" /\ loc[p].job # NoRun
              \/ pc'[p] = "judge" /\ loc'[p].want.kind = "owner"
              \/ pc'[p] = "scan"
    <3>1. CASE loc[p].todo = {}
      BY <1>1, <3>1, <1>a, <1>e DEF Scan
    <3>2. ASSUME NEW i \in loc[p].todo, Owned(i), Goto(p, "judge"),
                 loc' = [loc EXCEPT ![p] = [@ EXCEPT !.at = i, !.want = slot[i]]]
          PROVE  loc'[p].job = loc[p].job /\ pc'[p] = "judge" /\ loc'[p].want.kind = "owner"
      BY <3>2, <1>a DEF Locals, Owned
    <3>3. ASSUME NEW i \in loc[p].todo, UNCHANGED pc, loc' = [loc EXCEPT ![p].todo = @ \ {i}]
          PROVE  loc'[p].job = loc[p].job /\ pc'[p] = pc[p]
      BY <3>3, <1>a, SMTT(30) DEF Locals
    <3>4. CASE loc[p].todo # {}
      <4> HIDE DEF Goto
      <4> QED
        BY <1>1, <3>2, <3>3, <3>4 DEF Scan
    <3> QED
      BY <3>1, <3>4
  <2>2. pc[p] = "scan"
    BY <1>1 DEF Scan
  <2>3. CASE pc'[p] \in {"admit", "judge", "scan"} /\ loc'[p].job = loc[p].job
    <3>1. ProcOK(p)'
      BY <2>1, <2>2, <2>3, <1>a, <1>b DEF ProcOK, EarlyOK, LaunchOK, VerdictOK
    <3> QED
      BY <3>1, <2>3, <1>d
  <2> QED
    BY <2>1, <2>3, <1>f
<1>2. CASE Judge(p)
  <2>1. CASE /\ ProvedOver(loc[p].want) \/ Abandoned(loc[p].want)
             /\ Guarded(p, loc[p].want, loc[p].at, "remove")
    <3>1. pc'[p] = "claim" /\ loc'[p].op = "remove" /\ loc'[p].job = loc[p].job /\ loc'[p].want = loc[p].want
      BY <2>1, <1>a DEF Guarded, Locals
    <3>2. loc[p].want.kind = "owner" /\ loc[p].want.run \in Runs
      BY <1>2, <1>a DEF ProcOK, VerdictOK, Judge, Locals, Owners, NoOwner
    <3>3. Over(loc[p].want.run)
      BY <2>1, <3>2 DEF ProvedOver, Abandoned, Over, CapacityInv, RunFiles
    <3>4. ProcOK(p)'
      BY <1>2, <3>1, <3>2, <3>3, <1>a, <1>b DEF ProcOK, EarlyOK, LaunchOK, VerdictOK, Judge,
         Over
    <3> QED
      BY <3>1, <3>4, <1>d
  <2>2. CASE /\ Goto(p, "scan")
             /\ loc' = [loc EXCEPT ![p] = [NoLocals EXCEPT !.job = loc[p].job,
                                                          !.todo = loc[p].todo \ {loc[p].at}]]
    <3>1. pc'[p] = "scan" /\ loc'[p].job = loc[p].job
      BY <2>2, <1>a DEF NoLocals
    <3>2. ProcOK(p)'
      BY <1>2, <3>1, <1>a, <1>b DEF ProcOK, EarlyOK, LaunchOK, VerdictOK, Judge
    <3> QED
      BY <3>1, <3>2, <1>d
  <2> QED
    BY <1>2, <2>1, <2>2 DEF Judge
<1>3. ASSUME NEW ok \in BOOLEAN, Continue(p, ok), pc[p] \in {"claim", "unclaim"},
             ok => pc[p] = "unclaim" /\ loc[p].ok = ok, pc[p] = "unclaim" => loc[p].ok = ok
      PROVE  CapacityInv'
  <2>1. CASE loc[p].op = "remove" /\ pc'[p] = "scan" /\ loc'[p].job = loc[p].job
    <3>1. ProcOK(p)'
      BY <1>3, <2>1, <1>a, <1>b DEF ProcOK, EarlyOK, LaunchOK, VerdictOK
    <3> QED
      BY <3>1, <2>1, <1>d
  <2>2. CASE loc[p].op = "transfer" /\ ok /\ pc'[p] = "reserved" /\ loc'[p].job = loc[p].job
    <3>1. ProcOK(p)'
      BY <1>3, <2>2, <1>a, <1>b DEF ProcOK, EarlyOK, LaunchOK, VerdictOK, Holds, Owned
    <3> QED
      BY <3>1, <2>2, <1>d
  <2>3. CASE /\ loc[p].op = "bind" /\ pc'[p] = (IF ok THEN "authorize" ELSE "abort")
             /\ loc'[p].job = loc[p].job
    <3>1. ProcOK(p)'
      BY <1>3, <2>3, <1>a, <1>b DEF ProcOK, EarlyOK, LaunchOK, VerdictOK, Holds, Owned
    <3> QED
      BY <3>1, <2>3, <1>d
  <2>4. CASE loc[p].op = "undo" /\ ~ok /\ pc'[p] = "giveback" /\ loc'[p].job = loc[p].job
    <3>1. ProcOK(p)'
      BY <1>3, <2>4, <1>a, <1>b DEF ProcOK, EarlyOK, LaunchOK, VerdictOK
    <3> QED
      BY <3>1, <2>4, <1>d
  <2>5. CASE pc'[p] = "idle" /\ loc'[p] = NoLocals
    BY <2>5, <1>a, <1>f
  <2> QED
    BY <1>3, <1>a, ContinueMoves, <2>1, <2>2, <2>3, <2>4, <2>5
<1>4. CASE Claim(p)
  <2>1. CASE Continue(p, FALSE)
    BY <1>4, <2>1, <1>3 DEF Claim
  <2>2. CASE Goto(p, "body") /\ UNCHANGED loc
    <3>1. pc[p] = "claim" /\ pc'[p] = "body" /\ loc'[p] = loc[p]
      BY <1>4, <2>2, <1>a DEF Claim
    <3>2. ProcOK(p)'
      BY <3>1, <1>a, <1>b DEF ProcOK, EarlyOK, LaunchOK, VerdictOK, Over, Holds, Owned
    <3> QED
      BY <3>1, <3>2, <1>d
  <2> QED
    BY <1>4, <2>1, <2>2 DEF Claim
<1>5. CASE Unclaim(p)
  BY <1>5, <1>a, <1>3 DEF Unclaim, Locals
<1>6. CASE Admit(p)
  <2>1. CASE Goto(p, "place") /\ loc' = [loc EXCEPT ![p].at = 0]
    <3>1. pc[p] = "admit" /\ pc'[p] = "place" /\ loc'[p].job = loc[p].job
      BY <1>6, <2>1, <1>a DEF Admit, Locals
    <3>2. ProcOK(p)'
      BY <3>1, <1>a, <1>b DEF ProcOK, EarlyOK, LaunchOK, VerdictOK
    <3> QED
      BY <3>1, <3>2, <1>d
  <2> QED
    BY <1>6, <2>1, <1>e, <1>f DEF Admit
<1>7. CASE LaunchFails(p)
  <2>1. pc[p] = "reserved" /\ pc'[p] = "giveback" /\ loc'[p] = loc[p]
    BY <1>7, <1>a DEF LaunchFails
  <2>2. ProcOK(p)'
    BY <2>1, <1>a, <1>b DEF ProcOK, EarlyOK, LaunchOK, VerdictOK
  <2> QED
    BY <2>1, <2>2, <1>d
<1>8. CASE GiveBack(p)
  <2> DEFINE h == handle[loc[p].job]
  <2>1. CASE Guarded(p, h.owner, h.at, "rollback")
    <3>1. pc[p] = "giveback" /\ pc'[p] = "claim"
      BY <1>8, <2>1, <1>a DEF GiveBack, Guarded
    <3>2. loc'[p].op = "rollback" /\ loc'[p].job = loc[p].job /\ loc'[p].at = h.at
      BY <2>1, <1>a DEF Guarded, Locals
    <3> HIDE DEF h
    <3>3. ProcOK(p)'
      BY <3>1, <3>2, <1>a, <1>b DEF ProcOK, EarlyOK, LaunchOK, VerdictOK, h
    <3> QED
      BY <3>1, <3>2, <3>3, <1>d
  <2> QED
    BY <1>8, <2>1, <1>e, <1>f DEF GiveBack
<1> QED
  BY <1>1, <1>2, <1>4, <1>5, <1>6, <1>7, <1>8

-----------------------------------------------------------------------------
\* Steps on the slots.  What is said of files and slots alone ...
Shared == RunFiles /\ OwnersHeld /\ TransfersUndoable /\ ExecutingCharged

\* ... survives that a slot is freed whose run does not execute, ...
LEMMA Freed ==
  ASSUME CapacityInv, NEW i \in Slots, Owned(i), runner[slot[i].run] # "executing",
         slot' = [slot EXCEPT ![i] = Absent], UNCHANGED <<handle, status, runner, proof>>
  PROVE  Shared'
<1>a. slot \in [Slots -> Owners \cup {Absent, Corrupt}] /\ Shared
  BY DEF CapacityInv, TypeOK, Shared
<1>b. \A r \in Runs : handle[r].kind = "handle" => handle[r].at \in Slots
  BY DEF CapacityInv, TypeOK, NoOwner
<1>c. \A j \in Slots : j # i => slot'[j] = slot[j]
  BY <1>a
<1>d. slot'[i].kind # "owner"
  BY <1>a DEF Absent
<1>1. RunFiles'
  BY <1>a DEF Shared, RunFiles
<1>2. OwnersHeld'
  BY <1>a, <1>c, <1>d DEF Shared, OwnersHeld, Owned, Matches
<1>3. TransfersUndoable'
  <2>1. \A q \in Runs : Undoable(q)' <=> Undoable(q)
    BY DEF Undoable
  <2>2. \A r \in Runs : handle[r].kind = "handle" => (Holds(r)' => Holds(r))
    BY <1>b, <1>c, <1>d DEF Holds, Owned
  <2>3. \A q \in Runs : Undoable(q) => handle[q].undo.run \in Runs
    BY DEF Undoable, CapacityInv, TypeOK, Owners, NoOwner
  <2> QED
    BY <1>a, <2>1, <2>2, <2>3 DEF Shared, TransfersUndoable
<1>4. ExecutingCharged'
  <2>1. ASSUME NEW r \in Runs, runner[r] = "executing", Holds(r) PROVE handle[r].at # i
    BY <2>1 DEF Holds
  <2>2. \A r \in Runs : Resumed(r)' <=> Resumed(r)
    BY DEF Resumed
  <2>3. ASSUME NEW r \in Runs, runner[r] = "executing", ~Resumed(r)
        PROVE  Holds(r)' /\ slot'[handle'[r].at].bound
    <3>1. Holds(r) /\ slot[handle[r].at].bound /\ handle[r].at # i
      BY <2>1, <2>3, <1>a DEF Shared, ExecutingCharged
    <3>2. handle[r].kind = "handle"
      BY <2>3, <1>a DEF Shared, RunFiles, CapacityInv, TypeOK
    <3> QED
      BY <3>1, <3>2, <1>b, <1>c DEF Holds, Owned
  <2> QED
    BY <2>2, <2>3 DEF ExecutingCharged
<1> QED
  BY <1>1, <1>2, <1>3, <1>4 DEF Shared

\* ... that a revival gives a slot back to its source, ...
LEMMA GivenBack ==
  ASSUME CapacityInv, NEW r \in Runs, NEW i \in Slots, Undoable(r), handle[r].at = i,
         Matches(i, handle[r].owner), runner[r] # "executing",
         slot' = [slot EXCEPT ![i] = handle[r].undo],
         handle' = [handle EXCEPT ![r].owner = handle[r].undo], UNCHANGED <<status, runner, proof>>
  PROVE  Shared'
<1> DEFINE u == handle[r].undo  src == u.run
<1>a. slot \in [Slots -> Owners \cup {Absent, Corrupt}] /\ Shared
  BY DEF CapacityInv, TypeOK, Shared
<1>b. \A q \in Runs : handle[q].kind = "handle" => handle[q] \in Handles
  BY DEF CapacityInv, TypeOK, NoOwner, Handles
<1>c. u \in Owners /\ src \in Runs /\ u.kind = "owner"
  BY <1>b DEF Undoable, Handles, Owners
<1>d. Holds(r) /\ slot[i].run = r
  BY DEF Holds, Matches, Undoable
<1>e. /\ handle[src].kind = "handle" /\ handle[src].at = i /\ ~Holds(src)
      /\ handle[src].owner.token = u.token /\ handle[src].owner.run = src /\ handle[src].owner.gen = u.gen
      /\ runner[src] = "executing" => u.bound
      /\ \A x \in Runs \ {r} : Undoable(x) => handle[x].undo.run # src
  BY <1>a DEF Shared, TransfersUndoable
<1>f. src # r
  BY <1>d, <1>e
<1>g. /\ \A q \in Runs \ {r} : handle'[q] = handle[q]
      /\ handle'[r] = [handle[r] EXCEPT !.owner = u]
  BY <1>b DEF CapacityInv, TypeOK
<1>h. /\ handle'[r].kind = "handle" /\ handle'[r].at = i /\ handle'[r].undo = u
      /\ handle'[r].owner = u
  BY <1>b, <1>g DEF Undoable, Handles
<1>i. slot'[i] = u /\ \A j \in Slots : j # i => slot'[j] = slot[j]
  BY <1>a
<1> HIDE DEF u, src
<1>1. RunFiles'
  BY <1>a, <1>g, <1>h, SMTT(30) DEF Shared, RunFiles, NoOwner
<1>2. OwnersHeld'
  <2>1. ASSUME NEW j \in Slots, j # i, Owned(j)' PROVE slot[j].run # r /\ slot[j].run \in Runs
    <3>1. Owned(j) /\ slot[j].run \in Runs
      BY <2>1, <1>a, <1>i DEF Owned, Owners, Absent, Corrupt
    <3> QED
      BY <2>1, <3>1, <1>a DEF Shared, OwnersHeld
  <2>2. ASSUME NEW j \in Slots, j # i, Owned(j)'
        PROVE  LET h == handle'[slot'[j].run] IN
               h.kind = "handle" /\ h.at = j /\ slot'[j].token = h.owner.token
               /\ slot'[j].run = h.owner.run /\ slot'[j].gen = h.owner.gen
    <3>1. slot'[j] = slot[j] /\ handle'[slot[j].run] = handle[slot[j].run] /\ Owned(j)
      BY <2>1, <2>2, <1>g, <1>i DEF Owned
    <3> QED
      BY <3>1, <1>a DEF Shared, OwnersHeld, Matches
  <2>3. LET h == handle'[slot'[i].run] IN
        h.kind = "handle" /\ h.at = i /\ slot'[i].token = h.owner.token
        /\ slot'[i].run = h.owner.run /\ slot'[i].gen = h.owner.gen
    <3>1. u.run = src
      BY DEF src
    <3>2. slot'[i] = u /\ handle'[src] = handle[src]
      BY <1>c, <1>f, <1>g, <1>i
    <3> QED
      BY <3>1, <3>2, <1>e
  <2> QED
    BY <2>2, <2>3 DEF OwnersHeld, Matches, Owned
<1>3. \A q \in Runs : Undoable(q)' <=> Undoable(q) /\ q # r
  BY <1>f, <1>g, <1>h DEF Undoable, src
<1>4. TransfersUndoable'
  <2> DEFINE Source(q, x) ==
        LET w == handle[q].undo  h == handle[x] IN
        /\ h.kind = "handle" /\ h.at = handle[q].at
        /\ h.owner.token = w.token /\ h.owner.run = x /\ h.owner.gen = w.gen
        /\ status[x] \notin {"none", "running"} /\ ~Holds(x)
        /\ runner[x] = "executing" => w.bound
        /\ \A y \in Runs \ {q} : Undoable(y) => handle[y].undo.run # x
  <2>1. ASSUME NEW q \in Runs, Undoable(q), q # r, NEW x \in Runs, x = handle[q].undo.run
        PROVE  Source(q, x)'
    <3>1. Source(q, x)
      BY <2>1, <1>a DEF Shared, TransfersUndoable
    <3>2. x # src
      BY <2>1, <1>e
    <3>3. x # r
      BY <3>1, <1>d
    <3>4. handle'[q] = handle[q] /\ handle'[x] = handle[x] /\ handle[x].at \in Slots
      BY <2>1, <3>1, <3>3, <1>b, <1>g DEF Handles
    <3>5. slot'[i].run # x
      BY <3>2, <1>i DEF src
    <3>6. ~(slot'[handle[x].at].kind = "owner" /\ slot'[handle[x].at].run = x)
      <4>1. CASE handle[x].at = i
        BY <3>5, <4>1
      <4>2. CASE handle[x].at # i
        BY <3>1, <3>4, <4>2, <1>i DEF Holds, Owned
      <4> QED
        BY <4>1, <4>2
    <3>7. ~Holds(x)'
      BY <3>4, <3>6 DEF Holds, Owned
    <3>8. ASSUME NEW y \in Runs \ {q}, Undoable(y)' PROVE handle'[y].undo.run # x
      <4>1. Undoable(y) /\ y # r
        BY <3>8, <1>3
      <4>2. handle'[y] = handle[y]
        BY <4>1, <1>g
      <4> QED
        BY <3>1, <4>1, <4>2
    <3>9. LET w == handle[q].undo  h == handle[x] IN
          /\ h.kind = "handle" /\ h.at = handle[q].at
          /\ h.owner.token = w.token /\ h.owner.run = x /\ h.owner.gen = w.gen
          /\ status[x] \notin {"none", "running"}
          /\ runner[x] = "executing" => w.bound
      BY <3>1
    <3> HIDE DEF Source
    <3> QED
      BY <3>4, <3>7, <3>8, <3>9 DEF Source
  <2> HIDE DEF Source
  <2>2. ASSUME NEW q \in Runs, Undoable(q)'
        PROVE  Source(q, handle[q].undo.run)'
    <3>1. Undoable(q) /\ q # r /\ handle'[q] = handle[q]
      BY <2>2, <1>3, <1>g
    <3>2. PICK x \in Runs : x = handle[q].undo.run
      BY <3>1, <1>b DEF Undoable, Handles, Owners
    <3>3. Source(q, x)' /\ x = handle'[q].undo.run
      BY <2>1, <3>1, <3>2
    <3> QED
      BY <3>3 DEF Source
  <2> QED
    BY <2>2 DEF TransfersUndoable, Source
<1>5. ExecutingCharged'
  <2>1. Resumed(src) /\ \A x \in Runs : Resumed(x) <=> \E q \in Runs : Undoable(q) /\ handle[q].undo.run = x
    BY <1>b DEF Resumed, Undoable, NoOwner, src, u, CapacityInv, TypeOK
  <2>2. \A x \in Runs : Resumed(x)' <=> \E q \in Runs : Undoable(q)' /\ handle'[q].undo.run = x
    <3>1. \A q \in Runs : handle'[q] # NoOwner <=> handle'[q].kind = "handle"
      BY <1>b, <1>g, <1>h DEF CapacityInv, TypeOK, NoOwner
    <3> QED
      BY <3>1 DEF Resumed, Undoable
  <2>3. ASSUME NEW x \in Runs, runner[x] = "executing", ~Resumed(x)'
        PROVE  Holds(x)' /\ slot'[handle'[x].at].bound
    <3>1. CASE x = src
      BY <3>1, <2>3, <1>c, <1>e, <1>f, <1>g, <1>i DEF Holds, Owned, src
    <3>2. CASE x # src
      <4>1. x # r /\ ~Resumed(x)
        BY <3>2, <2>1, <2>2, <2>3, <1>3, <1>g DEF src, u
      <4>2. Holds(x) /\ slot[handle[x].at].bound /\ handle[x].kind = "handle"
        BY <4>1, <2>3, <1>a DEF Shared, ExecutingCharged, RunFiles, CapacityInv, TypeOK
      <4>3. handle[x].at \in Slots /\ handle[x].at # i
        BY <4>1, <4>2, <1>b, <1>d DEF Holds, Handles
      <4> QED
        BY <4>1, <4>2, <4>3, <1>g, <1>i DEF Holds, Owned
    <3> QED
      BY <3>1, <3>2
  <2> QED
    BY <2>3 DEF ExecutingCharged
<1> QED
  BY <1>1, <1>2, <1>4, <1>5 DEF Shared

\* ... and that a revival takes a slot over.
LEMMA Transferred ==
  ASSUME CapacityInv, NEW r \in Runs, NEW i \in Slots, NEW p \in Procs, handle[r] = NoOwner, Owned(i),
         status[slot[i].run] \in {"paused", "failed", "complete", "not-started"},
         NEW next, next = [slot[i] EXCEPT !.run = r, !.gen = @ + 1, !.bound = FALSE],
         slot' = [slot EXCEPT ![i] = next],
         handle' = [handle EXCEPT ![r] =
           [kind |-> "handle", host |-> p, at |-> i, owner |-> next, undo |-> slot[i]]],
         UNCHANGED <<status, runner, proof>>
  PROVE  Shared' /\ Holds(r)' /\ handle'[r].kind = "handle" /\ handle'[r].owner.run = r /\ handle'[r].at = i
<1>a. slot \in [Slots -> Owners \cup {Absent, Corrupt}] /\ Shared /\ handle \in [Runs -> {NoOwner} \cup Handles]
  BY DEF CapacityInv, TypeOK, Shared, Handles
<1>b. \A q \in Runs : handle[q].kind = "handle" <=> handle[q] # NoOwner
  BY <1>a DEF NoOwner, Handles
<1>l. PICK o \in Owners : o = slot[i]
  BY <1>a DEF Owned, Absent, Corrupt
<1>m. PICK src \in Runs : src = o.run
  BY DEF Owners
<1>c. o.kind = "owner"
  BY <1>l DEF Owned
<1>d. /\ handle[src].kind = "handle" /\ handle[src].at = i /\ handle[src].owner.token = o.token
      /\ handle[src].owner.run = src /\ handle[src].owner.gen = o.gen /\ Holds(src)
  BY <1>a, <1>l, <1>m DEF Shared, OwnersHeld, Matches, Holds
<1>e. src # r
  BY <1>b, <1>d
<1>f. next.kind = "owner" /\ next.token = o.token /\ next.run = r /\ next.gen = o.gen + 1
  BY <1>c, <1>l DEF Owners
<1>g. /\ \A q \in Runs \ {r} : handle'[q] = handle[q]
      /\ handle'[r].kind = "handle" /\ handle'[r].at = i /\ handle'[r].owner = next /\ handle'[r].undo = o
  BY <1>a, <1>l
<1>h. slot'[i] = next /\ \A j \in Slots : j # i => slot'[j] = slot[j]
  BY <1>a
<1>i. \A q \in Runs : Undoable(q) => handle[q].undo.run \in Runs /\ handle[q].undo.run # src /\ q # r
  BY <1>a, <1>b, <1>d DEF Undoable, Shared, TransfersUndoable, Handles, Owners
<1>j. Holds(r)'
  BY <1>f, <1>g, <1>h, ZenonT(30) DEF Holds, Owned
<1>k. o # NoOwner
  BY <1>c DEF NoOwner
<1>1. RunFiles'
  BY <1>a, <1>g DEF Shared, RunFiles, NoOwner
<1>2. OwnersHeld'
  <2>1. ASSUME NEW j \in Slots, j # i, Owned(j)'
        PROVE  LET h == handle'[slot'[j].run] IN
               h.kind = "handle" /\ h.at = j /\ slot'[j].token = h.owner.token
               /\ slot'[j].run = h.owner.run /\ slot'[j].gen = h.owner.gen
    <3>1. slot'[j] = slot[j] /\ Owned(j) /\ slot[j].run \in Runs
      BY <2>1, <1>a, <1>h DEF Owned, Owners, Absent, Corrupt
    <3>2. handle[slot[j].run].kind = "handle"
      BY <3>1, <1>a DEF Shared, OwnersHeld
    <3>3. handle'[slot[j].run] = handle[slot[j].run]
      BY <3>1, <3>2, <1>b, <1>g
    <3> QED
      BY <3>1, <3>3, <1>a DEF Shared, OwnersHeld, Matches
  <2>2. LET h == handle'[slot'[i].run] IN
        h.kind = "handle" /\ h.at = i /\ slot'[i].token = h.owner.token
        /\ slot'[i].run = h.owner.run /\ slot'[i].gen = h.owner.gen
    <3>1. slot'[i].run = r /\ slot'[i].token = next.token /\ slot'[i].gen = next.gen /\ next.run = r
      BY <1>f, <1>h
    <3> QED
      BY <3>1, <1>g
  <2> QED
    BY <2>1, <2>2 DEF OwnersHeld, Matches, Owned
<1>3. \A q \in Runs : Undoable(q)' <=> Undoable(q) \/ q = r
  <2>1. Undoable(r)'
    BY <1>f, <1>g, <1>k DEF Undoable
  <2>2. \A q \in Runs \ {r} : Undoable(q)' <=> Undoable(q)
    BY <1>g DEF Undoable
  <2> QED
    BY <2>1, <2>2
<1>4. TransfersUndoable'
  <2>1. ASSUME NEW q \in Runs, Undoable(q)
        PROVE  LET x == handle[q].undo.run IN 
               handle'[q] = handle[q] /\ handle'[x] = handle[x]
               /\ ~(slot'[handle[x].at].kind = "owner" /\ slot'[handle[x].at].run = x)
    <3>0. PICK x \in Runs : x = handle[q].undo.run
      BY <2>1, <1>i
    <3>1. x # src /\ q # r /\ handle[x].kind = "handle" /\ ~Holds(x)
      BY <3>0, <2>1, <1>i, <1>a DEF Shared, TransfersUndoable
    <3>2. x # r /\ handle'[x] = handle[x] /\ handle[x].at \in Slots
      BY <3>1, <1>a, <1>b, <1>g DEF Handles
    <3>3. ~(slot'[handle[x].at].kind = "owner" /\ slot'[handle[x].at].run = x)
      BY <3>1, <3>2, <1>f, <1>h DEF Holds, Owned
    <3> QED
      BY <3>0, <3>1, <3>2, <3>3, <1>g
  <2>2. /\ handle'[src] = handle[src] /\ ~Holds(src)' /\ handle'[r].undo.run = src
        /\ status'[src] \notin {"none", "running"}
    <3>1. handle'[src] = handle[src] /\ slot'[i].run = r
      BY <1>c, <1>e, <1>f, <1>g, <1>h
    <3>2. ~Holds(src)'
      BY <3>1, <1>d, <1>e DEF Holds
    <3>3. handle'[r].undo.run = src
      BY <1>g, <1>m
    <3>4. status'[src] \notin {"none", "running"}
      BY <1>l, <1>m
    <3> QED
      BY <3>1, <3>2, <3>3, <3>4
  <2>3. runner[src] = "executing" => o.bound
    <3>1. ~Resumed(src)
      BY <1>b, <1>i DEF Resumed, Undoable
    <3> QED
      BY <3>1, <1>d, <1>a, <1>l DEF Shared, ExecutingCharged
  <2> DEFINE Source(q, x) ==
        LET u == handle[q].undo  h == handle[x] IN
        /\ h.kind = "handle" /\ h.at = handle[q].at
        /\ h.owner.token = u.token /\ h.owner.run = x /\ h.owner.gen = u.gen
        /\ status[x] \notin {"none", "running"} /\ ~Holds(x)
        /\ runner[x] = "executing" => u.bound
        /\ \A y \in Runs \ {q} : Undoable(y) => handle[y].undo.run # x
  <2>4. ASSUME NEW q \in Runs, Undoable(q), NEW x \in Runs, x = handle[q].undo.run
        PROVE  Source(q, x)'
    <3>1. /\ handle'[q] = handle[q] /\ handle'[x] = handle[x]
          /\ ~(slot'[handle[x].at].kind = "owner" /\ slot'[handle[x].at].run = x)
      BY <2>1, <2>4
    <3>2. ~Holds(x)'
      BY <3>1, SMTT(30) DEF Holds, Owned
    <3>3. \A y \in Runs \ {q} : Undoable(y)' => handle'[y].undo.run # x
      BY <2>4, <1>3, <1>i, <2>1, <2>2, <1>a, SMTT(30) DEF Shared, TransfersUndoable
    <3>4. LET u == handle[q].undo  h == handle[x] IN
          /\ h.kind = "handle" /\ h.at = handle[q].at
          /\ h.owner.token = u.token /\ h.owner.run = x /\ h.owner.gen = u.gen
          /\ status[x] \notin {"none", "running"}
          /\ runner[x] = "executing" => u.bound
      BY <2>4, <1>a DEF Shared, TransfersUndoable
    <3> QED
      BY <3>1, <3>2, <3>3, <3>4
  <2>5. \A y \in Runs \ {r} : Undoable(y)' => handle'[y].undo.run # src
    BY <1>3, <1>i, <2>1
  <2>6. /\ handle'[src].kind = "handle" /\ handle'[src].at = handle'[r].at
        /\ handle'[src].owner.token = o.token /\ handle'[src].owner.run = src
        /\ handle'[src].owner.gen = o.gen
    BY <2>2, <1>d, <1>g
  <2>7. Source(r, src)'
    BY <2>2, <2>3, <2>5, <2>6, <1>g
  <2>8. ASSUME NEW q \in Runs, Undoable(q)'
        PROVE  \E x \in Runs : x = handle'[q].undo.run /\ Source(q, x)'
    <3>1. CASE q = r
      BY <3>1, <2>2, <2>7
    <3>2. CASE q # r
      <4>1. Undoable(q) /\ handle[q].undo.run \in Runs /\ handle'[q] = handle[q]
        BY <3>2, <2>8, <1>3, <1>i, <1>g
      <4> HIDE DEF Source
      <4> QED
        BY <4>1, <2>4
    <3> QED
      BY <3>1, <3>2
  <2> QED
    BY <2>8, SMTT(30) DEF TransfersUndoable
<1>5. ExecutingCharged'
  <2>1. \A x \in Runs : Resumed(x) <=> \E q \in Runs : Undoable(q) /\ handle[q].undo.run = x
    BY <1>b DEF Resumed, Undoable
  <2>2. \A x \in Runs : Resumed(x)' <=> \E q \in Runs : Undoable(q)' /\ handle'[q].undo.run = x
    <3>1. \A q \in Runs : handle'[q] # NoOwner <=> handle'[q].kind = "handle"
      BY <1>b, <1>g DEF NoOwner
    <3> QED
      BY <3>1 DEF Resumed, Undoable
  <2>3. ASSUME NEW x \in Runs, runner[x] = "executing", ~Resumed(x)'
        PROVE  Holds(x)' /\ slot'[handle'[x].at].bound
    <3>1. x # src /\ ~Resumed(x)
      BY <2>1, <2>2, <2>3, <1>3, <1>g, <1>i, <1>m
    <3>2. Holds(x) /\ slot[handle[x].at].bound /\ handle[x].kind = "handle"
      BY <3>1, <2>3, <1>a, <1>b DEF Shared, ExecutingCharged, RunFiles
    <3>3. x # r /\ handle[x].at \in Slots /\ handle[x].at # i
      BY <3>1, <3>2, <1>a, <1>b, <1>l, <1>m DEF Holds, Handles
    <3> QED
      BY <3>2, <3>3, <1>g, <1>h DEF Holds, Owned
  <2> QED
    BY <2>3 DEF ExecutingCharged
<1> QED
  BY <1>1, <1>2, <1>4, <1>5, <1>f, <1>g, <1>j DEF Shared

\* What is left to show of a step on the files: its own process, and that it keeps what the
\* others rely on.
LEMMA SharedStep ==
  ASSUME CapacityInv, TypeOK', NEW p \in Procs, Acts(p), ProcOK(p)', Shared',
         loc'[p].job \in {NoRun, loc[p].job},
         pc'[p] = "write" => pc[p] = "write" \/ slot[loc'[p].at] = Absent,
         pc'[p] = "write" /\ pc[p] = "write" => loc'[p].at = loc[p].at,
         \A r \in Runs \ {loc[p].job} :
           /\ handle'[r] = handle[r] /\ status'[r] = status[r] /\ runner'[r] = runner[r]
           /\ handle[r].kind = "handle" /\ Holds(r)
                /\ status[r] \in {"none", "running"} /\ runner[r] # "dead" =>
                slot'[handle[r].at] = slot[handle[r].at],
         \A r \in Runs : Over(r) => Over(r)',
         \A i \in Slots : slot[i] = Corrupt =>
           slot'[i] = Corrupt \/ (pc[p] = "write" /\ i = loc[p].at)
  PROVE  CapacityInv'
<1>1. \A q \in Procs \ {p} : pc'[q] = pc[q] /\ loc'[q] = loc[q]
  BY Moves DEF CapacityInv, ProcOK
<1>2. \A q \in Procs : ProcOK(q)'
  BY <1>1, Others
<1>3. Apart'
  <2>1. Corrupt # Absent /\ \A q \in Procs : pc[q] = "write" => slot[loc[q].at] = Corrupt
    BY DEF CapacityInv, ProcOK, EarlyOK, Absent, Corrupt
  <2> QED
    BY <1>1, <2>1 DEF CapacityInv, Apart
<1> QED
  BY <1>2, <1>3 DEF CapacityInv, Shared

\* The end of a guarded part.
LEMMA DoneMoves ==
  ASSUME TypeOK, NEW p \in Procs, NEW ok \in BOOLEAN, Done(p, ok)
  PROVE  /\ pc'[p] = "unclaim" /\ loc'[p].ok = ok /\ loc'[p].op = loc[p].op
         /\ loc'[p].at = loc[p].at /\ loc'[p].job = loc[p].job /\ loc'[p].want = loc[p].want
  BY DEF TypeOK, Done, Goto, Locals

\* A guarded part that finds the slot changed leaves it alone.
LEMMA LeftAlone ==
  ASSUME CapacityInv, TypeOK', NEW p \in Procs, Acts(p), pc[p] = "body", Done(p, FALSE),
         UNCHANGED <<slot, handle, status, runner, proof>>
  PROVE  CapacityInv'
<1> USE DEF Resting, Early, Granted, Started, Bound, Ending, Ended, Guarding
<1>1. /\ pc'[p] = "unclaim" /\ loc'[p].ok = FALSE /\ loc'[p].op = loc[p].op
      /\ loc'[p].at = loc[p].at /\ loc'[p].job = loc[p].job
  BY DoneMoves DEF CapacityInv
<1>2. ProcOK(p)'
  BY <1>1, SMTT(30) DEF CapacityInv, ProcOK, EarlyOK, LaunchOK, VerdictOK, Holds, Owned
<1>3. \A q \in Procs \ {p} : pc'[q] = pc[q] /\ loc'[q] = loc[q]
  BY Moves DEF CapacityInv, ProcOK
<1> QED
  BY <1>1, <1>2, <1>3, LocalStep DEF CapacityInv, Apart

\* A reconciliation frees the slot of a runner that will not execute again.
LEMMA RemoveOwnedSlotStep ==
  ASSUME CapacityInv, TypeOK', NEW p \in Procs, RemoveOwnedSlot(p)
  PROVE  CapacityInv'
<1> DEFINE i == loc[p].at
<1>a. Acts(p) /\ pc[p] = "body" /\ loc[p].op = "remove" /\ UNCHANGED <<handle, status, runner, proof>>
  BY DEF RemoveOwnedSlot, Acts, Progress
<1>1. CASE Matches(i, loc[p].want) /\ RenameAway(i) /\ Done(p, TRUE)
  <2>1. Over(slot[i].run) /\ Owned(i) /\ i \in Slots /\ slot[i].run \in Runs
    BY <1>1, <1>a, SMTT(30) DEF CapacityInv, ProcOK, VerdictOK, Matches, TypeOK, Locals, Owned, Owners,
       Absent, Corrupt
  <2>2. runner[slot[i].run] # "executing"
    BY <2>1 DEF Over, CapacityInv, RunFiles
  <2>3. Shared'
    BY <1>1, <1>a, <2>1, <2>2, Freed DEF RenameAway
  <2>4. ProcOK(p)'
    <3>1. pc'[p] = "unclaim" /\ loc'[p].op = "remove" /\ loc'[p].job = loc[p].job
      BY <1>1, <1>a, DoneMoves DEF CapacityInv
    <3>2. loc[p].job \in Runs => handle[loc[p].job] = NoOwner
      BY <1>a DEF CapacityInv, ProcOK, EarlyOK, Early, Guarding
    <3> QED
      BY <3>1, <3>2, <1>a DEF ProcOK, EarlyOK, LaunchOK, VerdictOK, Resting, Early, Granted,
         Started,
                              Bound, Ending, Ended, Guarding
  <2>5. \A r \in Runs : Holds(r) /\ status[r] \in {"none", "running"} /\ runner[r] # "dead" =>
          slot'[handle[r].at] = slot[handle[r].at]
    BY <1>1, <2>1 DEF Holds, Over, RenameAway, CapacityInv, TypeOK
  <2>6. \A j \in Slots : slot[j] = Corrupt => slot'[j] = Corrupt
    BY <1>1, <2>1 DEF RenameAway, CapacityInv, TypeOK, Owned, Corrupt
  <2>7. loc'[p].job = loc[p].job /\ pc'[p] = "unclaim" /\ \A r \in Runs : Over(r) => Over(r)'
    BY <1>1, <1>a, DoneMoves DEF Over, CapacityInv
  <2> QED
    BY <1>a, <2>3, <2>4, <2>5, <2>6, <2>7, SharedStep
<1>2. CASE UNCHANGED <<slot, claim>> /\ Done(p, FALSE)
  BY <1>2, <1>a, LeftAlone
<1> QED
  BY <1>1, <1>2 DEF RemoveOwnedSlot

\* A revival takes the slot of a run that is paused or over, and of nobody else.
LEMMA TransferStep ==
  ASSUME CapacityInv, TypeOK', NEW p \in Procs, Transfer(p)
  PROVE  CapacityInv'
<1>b. /\ Acts(p) /\ pc[p] = "body" /\ loc[p].op = "transfer"
      /\ UNCHANGED <<status, runner, proof>>
      /\ loc[p].job \in Runs /\ loc[p].at \in Slots /\ handle[loc[p].job] = NoOwner
  BY DEF Transfer, Acts, Progress, CapacityInv, ProcOK, EarlyOK, Guarding, Early, Granted,
     TypeOK, Locals
<1>c. PICK r \in Runs, i \in Slots : r = loc[p].job /\ i = loc[p].at
  BY <1>b
<1>d. PICK next : next = [slot[i] EXCEPT !.run = r, !.gen = @ + 1, !.bound = FALSE]
  OBVIOUS
<1>a. /\ Acts(p) /\ pc[p] = "body" /\ loc[p].op = "transfer"
      /\ UNCHANGED <<status, runner, proof>>
      /\ handle[r] = NoOwner
  BY <1>b, <1>c
<1>1. CASE /\ Matches(i, loc[p].want)
           /\ status[loc[p].want.run] \in {"paused", "failed", "complete", "not-started"}
           /\ slot' = [slot EXCEPT ![i] = next]
           /\ handle' = [handle EXCEPT ![r] =
                [kind |-> "handle", host |-> p, at |-> i, owner |-> next, undo |-> slot[i]]]
           /\ Done(p, TRUE)
  <2>1. Owned(i) /\ status[slot[i].run] \in {"paused", "failed", "complete", "not-started"}
    BY <1>1 DEF Matches
  <2>2. Shared' /\ Holds(r)' /\ handle'[r].kind = "handle" /\ handle'[r].owner.run = r /\ handle'[r].at = i
    BY <1>1, <1>a, <1>d, <2>1, Transferred
  <2>3. /\ loc'[p].job = r /\ pc'[p] = "unclaim" /\ loc'[p].op = "transfer" /\ loc'[p].ok
        /\ status[r] = "none" /\ runner[r] = "none"
    BY <1>1, <1>a, <1>c, DoneMoves DEF CapacityInv, RunFiles
  <2>4. ProcOK(p)'
    BY <1>a, <2>2, <2>3 DEF ProcOK, EarlyOK, LaunchOK, VerdictOK, Resting, Early, Granted,
       Started, Bound, Ending, Ended, Guarding
  <2>5. \A x \in Runs : Holds(x) /\ status[x] \in {"none", "running"} /\ runner[x] # "dead" =>
          slot'[handle[x].at] = slot[handle[x].at]
    BY <1>1, <1>a, <2>1 DEF Holds, CapacityInv, TypeOK
  <2>6. \A j \in Slots : slot[j] = Corrupt => slot'[j] = Corrupt
    BY <1>1, <2>1, <1>a DEF CapacityInv, TypeOK, Owned, Corrupt
  <2>7. /\ \A x \in Runs : Over(x) => Over(x)'
        /\ \A x \in Runs \ {r} : handle'[x] = handle[x] /\ status'[x] = status[x] /\ runner'[x] = runner[x]
    BY <1>1, <1>a DEF Over, CapacityInv, TypeOK
  <2> QED
    BY <1>a, <2>2, <2>3, <2>4, <2>5, <2>6, <2>7, <1>c, SharedStep
<1>2. CASE UNCHANGED <<slot, handle>> /\ Done(p, FALSE)
  BY <1>2, <1>a, LeftAlone DEF Transfer
<1> QED
  BY <1>1, <1>2, <1>c, <1>d DEF Transfer

\* A slot is bound to its runner: the durable record, or only the one in memory.
LEMMA MarkStartedStep ==
  ASSUME CapacityInv, TypeOK', NEW p \in Procs, MarkStarted(p)
  PROVE  CapacityInv'
<1>b. /\ Acts(p) /\ pc[p] = "body" /\ loc[p].op = "bind" /\ UNCHANGED <<status, runner, proof>>
      /\ loc[p].job \in Runs /\ loc[p].at \in Slots /\ LaunchOK(p) /\ EarlyOK(p)
  BY DEF MarkStarted, Acts, Progress, CapacityInv, ProcOK, LaunchOK, Guarding, Started, TypeOK,
     Locals
<1>c. PICK r \in Runs, i \in Slots : r = loc[p].job /\ i = loc[p].at
  BY <1>b
<1>d. handle[r].at = i /\ handle[r].kind = "handle" /\ handle[r] \in Handles /\ handle[r].owner.run = r
  BY <1>b, <1>c DEF LaunchOK, Guarding, Started, Ended, CapacityInv, TypeOK, NoOwner, Handles
<1>1. ASSUME Matches(i, handle[r].owner), handle' = [handle EXCEPT ![r].owner.bound = TRUE],
             \/ slot' = [slot EXCEPT ![i].bound = TRUE] /\ Done(p, TRUE)
             \/ UNCHANGED slot /\ Done(p, FALSE)
      PROVE  CapacityInv'
  <2>1. slot[i] \in Owners /\ slot[i].run = r
    BY <1>1, <1>d DEF Matches, Owned, CapacityInv, TypeOK, Absent, Corrupt
  <2>2. /\ \A x \in Runs \ {r} : handle'[x] = handle[x]
        /\ handle'[r].kind = "handle" /\ handle'[r].at = i /\ handle'[r].undo = handle[r].undo
        /\ handle'[r].owner.token = handle[r].owner.token /\ handle'[r].owner.run = r
        /\ handle'[r].owner.gen = handle[r].owner.gen
    BY <1>1, <1>d DEF CapacityInv, TypeOK, Handles, Owners
  <2>3. /\ \A j \in Slots : j # i => slot'[j] = slot[j]
        /\ slot'[i].kind = "owner" /\ slot'[i].token = slot[i].token /\ slot'[i].run = r
        /\ slot'[i].gen = slot[i].gen /\ (slot[i].bound => slot'[i].bound)
    <3>1. \A j \in Slots : j # i => slot'[j] = slot[j]
      BY <1>1 DEF CapacityInv, TypeOK
    <3>2. slot'[i] = slot[i] \/ slot'[i] = [slot[i] EXCEPT !.bound = TRUE]
      BY <1>1 DEF CapacityInv, TypeOK
    <3> QED
      BY <3>1, <3>2, <2>1 DEF Owners
  <2>4. /\ pc'[p] = "unclaim" /\ loc'[p].op = "bind" /\ loc'[p].job = r /\ loc'[p].at = i
        /\ loc'[p].ok => slot'[i].bound
    <3>1. \A ok \in BOOLEAN : Done(p, ok) =>
            /\ pc'[p] = "unclaim" /\ loc'[p].ok = ok /\ loc'[p].op = loc[p].op
            /\ loc'[p].at = loc[p].at /\ loc'[p].job = loc[p].job
      BY DoneMoves DEF CapacityInv
    <3>2. slot' = [slot EXCEPT ![i].bound = TRUE] => slot'[i].bound
      BY <2>1 DEF CapacityInv, TypeOK, Owners
    <3> QED
      BY <1>1, <1>b, <1>c, <3>1, <3>2
  <2>5. /\ \A j \in Slots : Owned(j)' <=> Owned(j)
        /\ \A j \in Slots : slot'[j].run = slot[j].run \/ ~Owned(j)
    BY <2>1, <2>3 DEF Owned, Owners
  <2>6. \A x \in Runs : handle[x].kind = "handle" => handle[x].at \in Slots /\ handle'[x].at = handle[x].at
    BY <1>d, <2>2 DEF CapacityInv, TypeOK, NoOwner
  <2>7. \A x \in Runs : handle[x].kind = "handle" => (Holds(x)' <=> Holds(x))
    BY <2>5, <2>6 DEF Holds
  <2>8. \A x \in Runs : /\ handle'[x].kind = handle[x].kind /\ handle'[x].undo = handle[x].undo
                        /\ handle'[x].owner.token = handle[x].owner.token
                        /\ handle'[x].owner.run = handle[x].owner.run
                        /\ handle'[x].owner.gen = handle[x].owner.gen
    BY <1>d, <2>2
  <2>9. \A x \in Runs : /\ (handle[x] = NoOwner <=> handle[x].kind # "handle")
                         /\ (handle'[x] = NoOwner <=> handle'[x].kind # "handle")
    BY <1>d, <2>2 DEF CapacityInv, TypeOK, NoOwner
  <2>10. RunFiles'
    BY <1>b, <2>8, <2>9 DEF CapacityInv, RunFiles
  <2>11. OwnersHeld'
    <3>1. ASSUME NEW j \in Slots, Owned(j)
          PROVE  LET h == handle'[slot'[j].run] IN
                 /\ h.kind = "handle" /\ h.at = j /\ Owned(j)' /\ slot'[j].token = h.owner.token
                 /\ slot'[j].run = h.owner.run /\ slot'[j].gen = h.owner.gen
      <4>1. CASE j = i
        BY <4>1, <3>1, <2>1, <2>2, <2>3, <2>5, <1>1, ZenonT(30) DEF Matches
      <4>2. CASE j # i
        <5>1. slot'[j] = slot[j] /\ slot[j].run \in Runs
          BY <4>2, <3>1, <2>3 DEF CapacityInv, TypeOK, Owned, Owners, Absent, Corrupt
        <5> QED
          BY <5>1, <3>1, <2>5, <2>6, <2>8 DEF CapacityInv, OwnersHeld, Matches
      <4> QED
        BY <4>1, <4>2
    <3> QED
      BY <3>1, <2>5 DEF OwnersHeld, Matches
  <2>12. \A q \in Runs : Undoable(q)' <=> Undoable(q)
    BY <2>8 DEF Undoable
  <2>13. TransfersUndoable'
    <3>1. \A q \in Runs : Undoable(q) => handle[q].undo.run \in Runs
      BY DEF Undoable, CapacityInv, TypeOK, Owners, NoOwner
    <3> DEFINE Source(q, x) ==
          LET u == handle[q].undo  h == handle[x] IN
          /\ h.kind = "handle" /\ h.at = handle[q].at
          /\ h.owner.token = u.token /\ h.owner.run = x /\ h.owner.gen = u.gen
          /\ status[x] \notin {"none", "running"} /\ ~Holds(x)
          /\ runner[x] = "executing" => u.bound
          /\ \A y \in Runs \ {q} : Undoable(y) => handle[y].undo.run # x
    <3>2. ASSUME NEW q \in Runs, Undoable(q), NEW x \in Runs, x = handle[q].undo.run
          PROVE  x = handle'[q].undo.run /\ Source(q, x)'
      <4>1. Source(q, x) /\ handle[q].kind = "handle"
        BY <3>2 DEF CapacityInv, TransfersUndoable, Undoable
      <4>2. ~Holds(x)' /\ handle'[x].at = handle[x].at /\ handle'[q].at = handle[q].at
        BY <4>1, <2>6, <2>7
      <4>3. \A y \in Runs \ {q} : Undoable(y)' => handle'[y].undo.run # x
        BY <4>1, <2>8, <2>12
      <4> QED
        BY <4>1, <4>2, <4>3, <2>8, <1>b, <3>2
    <3>3. ASSUME NEW q \in Runs, Undoable(q)'
          PROVE  \E x \in Runs : x = handle'[q].undo.run /\ Source(q, x)'
      <4> HIDE DEF Source
      <4> QED
        BY <3>1, <3>2, <3>3, <2>12
    <3> QED
      BY <3>3 DEF TransfersUndoable
  <2>14. ExecutingCharged'
    <3>1. \A x \in Runs : Resumed(x)' <=> Resumed(x)
      BY <2>8, <2>9 DEF Resumed
    <3>2. ASSUME NEW x \in Runs, runner[x] = "executing", ~Resumed(x)
          PROVE  Holds(x)' /\ slot'[handle'[x].at].bound
      <4>1. Holds(x) /\ slot[handle[x].at].bound /\ handle[x].kind = "handle"
        BY <3>2, <2>9 DEF CapacityInv, ExecutingCharged, RunFiles
      <4> QED
        BY <4>1, <2>3, <2>6, <2>7
    <3> QED
      BY <1>b, <3>1, <3>2 DEF ExecutingCharged
  <2>15. ProcOK(p)'
    <3>1. Holds(r)'
      BY <2>1, <2>7, <1>d DEF Holds, Owned, Owners
    <3>2. runner[r] \in {"waiting", "dead"} /\ (runner[r] = "waiting" => status[r] = "running")
      BY <1>b, <1>c DEF LaunchOK, Started, Guarding
    <3> QED
      BY <1>b, <2>2, <2>4, <3>1, <3>2 DEF ProcOK, EarlyOK, LaunchOK, VerdictOK, Resting, Early,
         Granted,
         Started, Bound, Ending, Ended, Guarding
  <2>16. \A x \in Runs \ {r} : handle[x].kind = "handle" /\ Holds(x) => slot'[handle[x].at] = slot[handle[x].at]
    BY <2>1, <2>3, <2>6 DEF Holds
  <2>17. /\ \A x \in Runs : Over(x) => Over(x)'
         /\ \A x \in Runs \ {r} : handle'[x] = handle[x] /\ status'[x] = status[x] /\ runner'[x] = runner[x]
         /\ \A j \in Slots : slot[j] = Corrupt => slot'[j] = Corrupt
    BY <1>b, <2>1, <2>2, <2>3 DEF Over, Owners, Corrupt
  <2> QED
    BY <1>b, <1>c, <2>4, <2>10, <2>11, <2>13, <2>14, <2>15, <2>16, <2>17, SharedStep DEF Shared
<1>2. CASE UNCHANGED <<slot, handle>> /\ Done(p, FALSE)
  BY <1>2, <1>b, LeftAlone
<1> QED
  BY <1>1, <1>2, <1>c DEF MarkStarted

\* A launch is taken back: the slot is freed, or given back to the run that was resumed.
LEMMA GiveSlotBackStep ==
  ASSUME CapacityInv, TypeOK', NEW p \in Procs, UndoBeforeProceed(p) \/ Rollback(p)
  PROVE  CapacityInv'
<1>b. /\ Acts(p) /\ pc[p] = "body" /\ loc[p].op \in {"undo", "rollback"}
      /\ UNCHANGED <<status, runner, proof>>
      /\ loc[p].job \in Runs /\ loc[p].at \in Slots /\ LaunchOK(p) /\ EarlyOK(p)
  BY DEF UndoBeforeProceed, Rollback, Acts, Progress, CapacityInv, ProcOK, LaunchOK, Guarding,
     Ending, TypeOK, Locals
<1>c. PICK r \in Runs, i \in Slots : r = loc[p].job /\ i = loc[p].at
  BY <1>b
<1>d. /\ handle[r].at = i /\ handle[r].kind = "handle" /\ handle[r] \in Handles
      /\ handle[r].owner.run = r
      /\ runner[r] # "executing"
  BY <1>b, <1>c DEF LaunchOK, Guarding, Ending, Ended, CapacityInv, TypeOK, NoOwner, Handles
<1>1. ASSUME Matches(i, handle[r].owner), GiveSlotBack(p, i, r), Done(p, TRUE)
      PROVE  CapacityInv'
  <2>1. slot[i] \in Owners /\ slot[i].run = r /\ Owned(i)
    BY <1>1, <1>d DEF Matches, Owned, CapacityInv, TypeOK, Absent, Corrupt
  <2>2. Shared' /\ handle'[r].kind = "handle" /\ \A x \in Runs \ {r} : handle'[x] = handle[x]
    <3>1. CASE handle[r].undo = NoOwner
      BY <1>1, <1>b, <1>d, <2>1, <3>1, Freed DEF GiveSlotBack, RenameAway
    <3>2. CASE handle[r].undo # NoOwner
      <4>1. Undoable(r)
        BY <1>d, <3>2 DEF Undoable
      <4>2. Shared'
        BY <1>1, <1>b, <1>d, <3>2, <4>1, GivenBack DEF GiveSlotBack
      <4> QED
        BY <4>2, <1>1, <1>d, <3>2 DEF GiveSlotBack, CapacityInv, TypeOK, Handles
    <3> QED
      BY <3>1, <3>2
  <2>3. \A j \in Slots : j # i => slot'[j] = slot[j]
    BY <1>1 DEF GiveSlotBack, RenameAway, CapacityInv, TypeOK
  <2>4. pc'[p] = "unclaim" /\ loc'[p].op = loc[p].op /\ loc'[p].job = r /\ loc'[p].at = i /\ loc'[p].ok
    BY <1>1, <1>c, DoneMoves DEF CapacityInv
  <2>5. handle'[r].at = i
    BY <1>1, <1>d DEF GiveSlotBack, CapacityInv, TypeOK, Handles
  <2>6. ProcOK(p)'
    BY <1>b, <1>d, <2>2, <2>4, <2>5 DEF ProcOK, EarlyOK, LaunchOK, VerdictOK, Resting, Early,
       Granted,
         Started, Bound, Ending, Ended, Guarding
  <2>7. \A x \in Runs \ {r} : handle[x].kind = "handle" /\ Holds(x) => slot'[handle[x].at] = slot[handle[x].at]
    <3>1. \A x \in Runs : handle[x].kind = "handle" => handle[x].at \in Slots
      BY DEF CapacityInv, TypeOK, NoOwner
    <3> QED
      BY <2>1, <2>3, <3>1 DEF Holds
  <2>8. /\ \A x \in Runs : Over(x) => Over(x)'
        /\ \A x \in Runs \ {r} : status'[x] = status[x] /\ runner'[x] = runner[x]
        /\ \A j \in Slots : slot[j] = Corrupt => slot'[j] = Corrupt
    BY <1>b, <2>1, <2>3 DEF Over, Owners, Corrupt
  <2> QED
    BY <1>b, <1>c, <2>2, <2>4, <2>6, <2>7, <2>8, SharedStep
<1>2. CASE UNCHANGED <<slot, claim, handle>> /\ Done(p, FALSE)
  BY <1>2, <1>b, LeftAlone
<1> QED
  BY <1>1, <1>2, <1>c DEF UndoBeforeProceed, Rollback

\* A directory is made for a slot.
LEMMA PlaceStep ==
  ASSUME CapacityInv, TypeOK', NEW p \in Procs, Place(p)
  PROVE  CapacityInv'
<1>a. /\ Acts(p) /\ pc[p] = "place" /\ UNCHANGED <<handle, status, runner, proof>>
      /\ loc[p].job \in Runs /\ loc[p].at \in Slots /\ handle[loc[p].job] = NoOwner
      /\ \A q \in Procs \ {p} : pc'[q] = pc[q] /\ loc'[q] = loc[q]
  BY Moves DEF Place, Acts, Progress, CapacityInv, ProcOK, EarlyOK, Early, TypeOK, Locals
<1>b. slot \in [Slots -> Owners \cup {Absent, Corrupt}] /\ loc \in [Procs -> Locals] /\ pc \in [Procs -> PCs]
  BY DEF CapacityInv, TypeOK
<1>1. CASE /\ slot[loc[p].at] = Absent /\ slot' = [slot EXCEPT ![loc[p].at] = Corrupt]
           /\ Goto(p, "write") /\ UNCHANGED loc
  <2>1. /\ pc'[p] = "write" /\ loc'[p] = loc[p] /\ slot'[loc[p].at] = Corrupt
        /\ \A j \in Slots : j # loc[p].at => slot'[j] = slot[j]
    BY <1>1, <1>a, <1>b DEF Goto
  <2>2. \A j \in Slots : (Owned(j)' <=> Owned(j)) /\ (Owned(j) => slot'[j] = slot[j])
    BY <1>1, <2>1 DEF Owned, Absent, Corrupt
  <2>3. \A r \in Runs : handle[r].kind = "handle" => handle[r].at \in Slots
    BY DEF CapacityInv, TypeOK, NoOwner
  <2>4. \A r \in Runs : handle[r].kind = "handle" =>
          (Holds(r)' <=> Holds(r)) /\ (Holds(r) => slot'[handle[r].at] = slot[handle[r].at])
    BY <1>a, <2>2, <2>3 DEF Holds
  <2>5. RunFiles' /\ OwnersHeld'
    BY <1>a, <2>2 DEF CapacityInv, RunFiles, OwnersHeld, Matches
  <2>6. TransfersUndoable'
    <3>1. \A q \in Runs : (Undoable(q)' <=> Undoable(q)) /\ (Undoable(q) => handle[q].undo.run \in Runs)
      BY <1>a DEF Undoable, CapacityInv, TypeOK, Owners, NoOwner
    <3> QED
      BY <1>a, <2>4, <3>1 DEF CapacityInv, TransfersUndoable
  <2>7. ExecutingCharged'
    <3>1. \A r \in Runs : (Resumed(r)' <=> Resumed(r)) /\ (runner[r] = "executing" => handle[r].kind = "handle")
      BY <1>a DEF Resumed, CapacityInv, TypeOK, RunFiles
    <3> QED
      BY <1>a, <2>4, <3>1 DEF CapacityInv, ExecutingCharged
  <2>8. ProcOK(p)'
    BY <1>a, <2>1, <2>4 DEF ProcOK, EarlyOK, LaunchOK, VerdictOK, Resting, Early, Granted,
         Started, Bound, Ending, Ended, Guarding
  <2>9. /\ \A r \in Runs : Over(r) => Over(r)'
        /\ \A j \in Slots : slot[j] = Corrupt => slot'[j] = Corrupt
    BY <1>a, <2>1 DEF Over
  <2> QED
    BY <1>1, <1>a, <2>1, <2>4, <2>5, <2>6, <2>7, <2>8, <2>9, SharedStep DEF Shared
<1>2. ASSUME UNCHANGED slot, pc'[p] \in {"place", "idle"},
             loc'[p].job = IF pc'[p] = "place" THEN loc[p].job ELSE NoRun
      PROVE  CapacityInv'
  <2>1. ProcOK(p)'
    BY <1>a, <1>2 DEF ProcOK, EarlyOK, LaunchOK, VerdictOK, Resting, Early, Granted,
         Started, Bound, Ending, Ended, Guarding
  <2> QED
    BY <1>a, <1>2, <2>1, LocalStep DEF CapacityInv, Apart
<1>3. CASE UNCHANGED pc /\ loc' = [loc EXCEPT ![p].at = loc[p].at + 1] /\ UNCHANGED slot
  BY <1>3, <1>2, <1>a, <1>b DEF Locals
<1>4. CASE Return(p) /\ UNCHANGED slot
  BY <1>4, <1>2, <1>a, <1>b, NothingLocal DEF Return, Goto
<1> QED
  BY <1>1, <1>3, <1>4 DEF Place

\* The directory gets its owner.
LEMMA WriteOwnerStep ==
  ASSUME CapacityInv, TypeOK', NEW p \in Procs, WriteOwner(p)
  PROVE  CapacityInv'
<1>b. /\ Acts(p) /\ pc[p] = "write" /\ UNCHANGED <<status, runner, proof>>
      /\ loc[p].job \in Runs /\ loc[p].at \in Slots /\ handle[loc[p].job] = NoOwner
      /\ slot[loc[p].at] = Corrupt
      /\ \A q \in Procs \ {p} : pc'[q] = pc[q] /\ loc'[q] = loc[q]
  BY Moves DEF WriteOwner, Acts, Progress, CapacityInv, ProcOK, EarlyOK, Early, TypeOK, Locals
<1>c. PICK r \in Runs, i \in Slots : r = loc[p].job /\ i = loc[p].at
  BY <1>b
<1>d. /\ slot \in [Slots -> Owners \cup {Absent, Corrupt}] /\ loc \in [Procs -> Locals]
      /\ pc \in [Procs -> PCs]
      /\ handle \in [Runs -> {NoOwner} \cup Handles]
  BY DEF CapacityInv, TypeOK, Handles
<1>e. PICK o : o = [kind |-> "owner", token |-> r, run |-> r, gen |-> 0, bound |-> FALSE]
  OBVIOUS
<1>1. CASE /\ slot' = [slot EXCEPT ![i] = o]
           /\ handle' = [handle EXCEPT ![r] =
                [kind |-> "handle", host |-> p, at |-> i, owner |-> o, undo |-> NoOwner]]
           /\ Goto(p, "reserved") /\ KeepJob(p)
  <2>1. /\ \A q \in Runs \ {r} : handle'[q] = handle[q]
        /\ handle'[r].kind = "handle" /\ handle'[r].at = i /\ handle'[r].owner = o /\ handle'[r].undo = NoOwner
    BY <1>1, <1>d
  <2>2. slot'[i] = o /\ \A j \in Slots : j # i => slot'[j] = slot[j]
    BY <1>1, <1>d
  <2>3. o.kind = "owner" /\ o.token = r /\ o.run = r /\ o.gen = 0
    BY <1>e
  <2>4. pc'[p] = "reserved" /\ loc'[p].job = r
    BY <1>1, <1>c, <1>d DEF Goto, KeepJob, NoLocals
  <2>5. \A q \in Runs : /\ handle[q].kind = "handle" <=> handle[q] # NoOwner
                        /\ handle'[q].kind = "handle" <=> handle'[q] # NoOwner
                        /\ handle[q].kind = "handle" => handle[q].at \in Slots /\ q # r
    BY <1>b, <1>c, <1>d, <2>1 DEF Handles, NoOwner
  <2>6. ~Owned(i)
    BY <1>b, <1>c DEF Owned, Corrupt
  <2>7. \A q \in Runs : handle[q].kind = "handle" =>
          /\ handle'[q] = handle[q]
          /\ Holds(q)' <=> Holds(q)
          /\ Holds(q) => slot'[handle[q].at] = slot[handle[q].at]
    BY <2>1, <2>2, <2>3, <2>5, <2>6 DEF Holds, Owned
  <2>8. RunFiles'
    BY <1>b, <2>1, <2>5 DEF CapacityInv, RunFiles
  <2>9. OwnersHeld'
    <3>1. ASSUME NEW j \in Slots, Owned(j)'
          PROVE  LET h == handle'[slot'[j].run] IN
                 /\ h.kind = "handle" /\ h.at = j /\ slot'[j].token = h.owner.token
                 /\ slot'[j].run = h.owner.run /\ slot'[j].gen = h.owner.gen
      <4>1. CASE j = i
        BY <4>1, <2>1, <2>2, <2>3
      <4>2. CASE j # i
        <5>1. slot'[j] = slot[j] /\ Owned(j) /\ slot[j].run \in Runs
          BY <4>2, <3>1, <2>2, <1>d DEF Owned, Owners, Absent, Corrupt
        <5> QED
          BY <5>1, <2>7 DEF CapacityInv, OwnersHeld, Matches
      <4> QED
        BY <4>1, <4>2
    <3> QED
      BY <3>1 DEF OwnersHeld, Matches, Owned
  <2>10. \A q \in Runs : (Undoable(q)' <=> Undoable(q)) /\ (Undoable(q) => handle[q].undo.run \in Runs)
    BY <1>d, <2>1, <2>5, <2>7 DEF Undoable, Handles, Owners
  <2>11. TransfersUndoable'
    BY <1>b, <2>7, <2>10 DEF CapacityInv, TransfersUndoable, Undoable
  <2>12. ExecutingCharged'
    <3>1. \A x \in Runs : Resumed(x)' <=> Resumed(x)
      <4>1. \A x \in Runs : Resumed(x) <=> \E q \in Runs : Undoable(q) /\ handle[q].undo.run = x
        BY <2>5 DEF Resumed, Undoable
      <4>2. \A x \in Runs : Resumed(x)' <=> \E q \in Runs : Undoable(q)' /\ handle'[q].undo.run = x
        BY <2>5 DEF Resumed, Undoable
      <4> QED
        BY <4>1, <4>2, <2>7, <2>10 DEF Undoable
    <3> QED
      BY <1>b, <3>1, <2>5, <2>7 DEF CapacityInv, ExecutingCharged, RunFiles
  <2>13. ProcOK(p)'
    <3>1. Holds(r)' /\ status'[r] = "none" /\ runner'[r] = "none"
      BY <1>b, <1>c, <2>1, <2>2, <2>3 DEF Holds, Owned, CapacityInv, RunFiles
    <3> QED
      BY <2>1, <2>3, <2>4, <3>1 DEF ProcOK, EarlyOK, LaunchOK, VerdictOK, Resting, Early,
         Granted,
         Started, Bound, Ending, Ended, Guarding
  <2>14. /\ \A x \in Runs : Over(x) => Over(x)'
         /\ \A j \in Slots : slot[j] = Corrupt => slot'[j] = Corrupt \/ j = i
    BY <1>b, <2>2 DEF Over
  <2> QED
    BY <1>b, <1>c, <2>1, <2>4, <2>7, <2>8, <2>9, <2>11, <2>12, <2>13, <2>14, SharedStep
       DEF Shared
<1>2. CASE Return(p) /\ UNCHANGED <<slot, handle>>
  <2>1. pc'[p] = "idle" /\ loc'[p].job = NoRun
    BY <1>2, <1>d, NothingLocal DEF Return, Goto
  <2>2. ProcOK(p)'
    BY <2>1 DEF ProcOK, EarlyOK, LaunchOK, VerdictOK, Resting, Early, Granted,
       Started, Bound, Ending, Ended, Guarding
  <2> QED
    BY <1>2, <1>b, <2>1, <2>2, LocalStep
<1> QED
  BY <1>1, <1>2, <1>c, <1>e DEF WriteOwner

\* A step that leaves the slots alone and moves one run on: its runner is not authorized
\* unless its slot is bound, and a run that is a source is not running again.
LEMMA RunMoves ==
  ASSUME CapacityInv, UNCHANGED <<slot, handle>>, NEW r \in Runs,
         handle[r].kind = "handle",
         \A x \in Runs \ {r} : status'[x] = status[x] /\ runner'[x] = runner[x] /\ proof'[x] = proof[x],
         proof'[r] # "pending" => runner'[r] = "dead",
         status'[r] = "not-started" => runner'[r] # "executing",
         status[r] \notin {"none", "running"} => status'[r] \notin {"none", "running"},
         runner'[r] = "executing" =>
           runner[r] = "executing" \/ (status[r] = "running" /\ Holds(r) /\ slot[handle[r].at].bound)
  PROVE  Shared'
<1>1. RunFiles'
  BY DEF CapacityInv, RunFiles, NoOwner
<1>2. OwnersHeld'
  BY DEF CapacityInv, OwnersHeld, Matches, Owned
<1>3. TransfersUndoable'
  <2>1. \A q \in Runs : (Undoable(q)' <=> Undoable(q)) /\ (Undoable(q) => handle[q].undo.run \in Runs)
    BY DEF Undoable, CapacityInv, TypeOK, Owners, NoOwner
  <2>2. \A x \in Runs : status[x] \notin {"none", "running"} => status'[x] \notin {"none", "running"}
    OBVIOUS
  <2>3. \A x \in Runs : runner'[x] = "executing" => runner[x] = "executing" \/ status[x] = "running"
    OBVIOUS
  <2>4. \A x \in Runs : Holds(x)' <=> Holds(x)
    BY DEF Holds, Owned
  <2> QED
    BY <2>1, <2>2, <2>3, <2>4 DEF CapacityInv, TransfersUndoable
<1>4. ExecutingCharged'
  BY SMTT(30) DEF CapacityInv, ExecutingCharged, Holds, Owned, Resumed
<1> QED
  BY <1>1, <1>2, <1>3, <1>4 DEF Shared

\* The runner is spawned, authorized or given up by the process that launches it.
LEMMA LaunchStep ==
  ASSUME CapacityInv, TypeOK', NEW p \in Procs, Spawn(p) \/ Authorize(p) \/ Abort(p)
  PROVE  CapacityInv'
<1> USE DEF Resting, Early, Granted, Started, Bound, Ending, Ended, Guarding
<1>b. /\ Acts(p) /\ UNCHANGED <<slot, claim, handle, proof>> /\ LaunchOK(p)
      /\ loc[p].job \in Runs /\ handle[loc[p].job].kind = "handle"
  BY DEF Spawn, Authorize, Abort, Acts, Progress, CapacityInv, ProcOK, LaunchOK
<1>c. PICK r \in Runs : r = loc[p].job
  BY <1>b
<1>d. /\ status \in [Runs -> Statuses] /\ runner \in [Runs -> RunnerStates]
      /\ loc \in [Procs -> Locals] /\ loc[p] \in Locals /\ pc \in [Procs -> PCs]
      /\ proof[r] # "pending" => runner[r] = "dead"
      /\ status[r] = "not-started" => runner[r] # "executing"
      /\ handle[r].kind = "handle"
  BY <1>b, <1>c DEF CapacityInv, TypeOK, Statuses, RunnerStates, RunFiles
<1>e. ASSUME ProcOK(p)', Shared', loc'[p].job \in {NoRun, r}, pc'[p] # "write",
             \A x \in Runs \ {r} : status'[x] = status[x] /\ runner'[x] = runner[x],
             Over(r) => Over(r)'
      PROVE  CapacityInv'
  <2>1. \A x \in Runs : Over(x) => Over(x)'
    BY <1>e DEF Over
  <2> QED
    BY <1>b, <1>c, <1>e, <2>1, SharedStep
<1>1. CASE Spawn(p)
  <2>1. /\ runner' = [runner EXCEPT ![r] = "waiting"]
        /\ status' = [status EXCEPT ![r] = "running"]
        /\ pc' = [pc EXCEPT ![p] = "claim"] /\ pc[p] = "reserved"
        /\ loc'[p].op = "bind" /\ loc'[p].job = r /\ loc'[p].at = handle[r].at
    BY <1>1, <1>c, <1>d DEF Spawn, Guarded, Goto, Locals
  <2>2. status[r] = "none" /\ runner[r] = "none" /\ Holds(r) /\ handle[r].owner.run = r
    BY <2>1, <1>b, <1>c DEF LaunchOK
  <2>3. status'[r] = "running" /\ runner'[r] = "waiting" /\ pc'[p] = "claim"
    BY <2>1, <1>d
  <2>4. \A x \in Runs \ {r} : status'[x] = status[x] /\ runner'[x] = runner[x] /\ proof'[x] = proof[x]
    BY <2>1, <1>b, <1>d
  <2>5. ~\E q \in Runs : Undoable(q) /\ handle[q].undo.run = r
    BY <2>2 DEF CapacityInv, TransfersUndoable
  <2>6. proof[r] = "pending"
    BY <2>2, <1>d
  <2>7. Shared'
    <3>1. RunFiles' /\ OwnersHeld' /\ ExecutingCharged'
      BY <1>b, <1>d, <2>3, <2>4, <2>6 DEF CapacityInv, RunFiles, OwnersHeld, ExecutingCharged,
         Matches,
         Owned, Holds, Resumed, NoOwner
    <3>2. TransfersUndoable'
      <4>1. \A q \in Runs : (Undoable(q)' <=> Undoable(q)) /\ (Undoable(q) => handle[q].undo.run \in Runs \ {r})
        BY <1>b, <2>5 DEF Undoable, CapacityInv, TypeOK, Owners, NoOwner
      <4>2. \A x \in Runs : Holds(x)' <=> Holds(x)
        BY <1>b DEF Holds, Owned
      <4> QED
        BY <1>b, <2>4, <4>1, <4>2 DEF CapacityInv, TransfersUndoable
    <3> QED
      BY <3>1, <3>2 DEF Shared
  <2>8. ProcOK(p)'
    BY <1>b, <1>d, <2>1, <2>2, <2>3 DEF ProcOK, EarlyOK, LaunchOK, VerdictOK, Holds, Owned
  <2>9. Over(r) => Over(r)'
    BY <2>2 DEF Over
  <2> QED
    BY <1>e, <2>1, <2>3, <2>4, <2>7, <2>8, <2>9
<1>2. CASE Authorize(p)
  <2>a. /\ pc[p] = "authorize" /\ UNCHANGED status /\ runner[r] \in {"waiting", "dead"}
        /\ handle[r].owner.run = r
        /\ runner[r] = "waiting" => status[r] = "running" /\ Holds(r) /\ slot[handle[r].at].bound
    BY <1>2, <1>b, <1>c DEF Authorize, LaunchOK
  <2>1. CASE /\ runner' = [runner EXCEPT ![r] =
                             IF runner[r] = "waiting" THEN "executing" ELSE runner[r]]
             /\ Return(p)
    <3>1. /\ runner'[r] = (IF runner[r] = "waiting" THEN "executing" ELSE "dead")
          /\ \A x \in Runs \ {r} : runner'[x] = runner[x]
          /\ pc'[p] = "idle" /\ loc'[p].job = NoRun
      BY <2>1, <2>a, <1>d, NothingLocal DEF Return, Goto
    <3>2. Shared'
      BY <3>1, <2>a, <1>b, <1>d, RunMoves
    <3>3. ProcOK(p)'
      BY <3>1 DEF ProcOK, EarlyOK, LaunchOK, VerdictOK
    <3>4. Over(r) => Over(r)'
      BY <3>1, <2>a DEF Over
    <3> QED
      BY <1>e, <2>a, <3>1, <3>2, <3>3, <3>4
  <2>2. CASE Goto(p, "abort") /\ UNCHANGED <<runner, loc>>
    <3>1. pc'[p] = "abort" /\ loc'[p] = loc[p]
      BY <2>2, <1>d DEF Goto
    <3>2. Shared'
      BY <2>a, <2>2, <1>b, <1>d, RunMoves
    <3>3. ProcOK(p)'
      BY <3>1, <2>2, <2>a, <1>b, <1>c, <1>d DEF ProcOK, EarlyOK, LaunchOK, VerdictOK, Holds,
         Owned
    <3>4. Over(r) => Over(r)'
      BY <2>a, <2>2 DEF Over
    <3> QED
      BY <1>e, <1>c, <2>a, <2>2, <3>1, <3>2, <3>3, <3>4
  <2> QED
    BY <1>2, <1>c, <2>1, <2>2 DEF Authorize
<1>3. CASE Abort(p)
  <2>1. /\ pc[p] = "abort" /\ pc'[p] = "claim" /\ loc'[p].op = "undo" /\ loc'[p].job = r
        /\ loc'[p].at = handle[r].at
        /\ status'[r] = (IF proof[r] = "pending" THEN "not-started" ELSE "failed")
        /\ runner'[r] = "dead" \/ runner'[r] = runner[r]
        /\ \A x \in Runs \ {r} : status'[x] = status[x] /\ runner'[x] = runner[x]
    BY <1>3, <1>c, <1>d DEF Abort, Guarded, Goto, Locals
  <2>2. runner[r] \in {"waiting", "dead"} /\ handle[r].owner.run = r
    BY <2>1, <1>b, <1>c DEF LaunchOK
  <2>3. Shared'
    BY <2>1, <2>2, <1>b, <1>d, RunMoves
  <2>4. ProcOK(p)'
    BY <2>1, <2>2, <1>b, <1>d DEF ProcOK, EarlyOK, LaunchOK, VerdictOK
  <2>5. Over(r) => Over(r)'
    BY <2>1, <1>d DEF Over
  <2> QED
    BY <1>e, <2>1, <2>3, <2>4, <2>5
<1> QED
  BY <1>1, <1>2, <1>3

\* The runner ends, and what ends is recorded.
LEMMA RunStep ==
  ASSUME CapacityInv, TypeOK', NEW r \in Runs,
         RunnerFinish(r) \/ RunnerExit(r) \/ CloseObserved(r) \/ RepairStatus(r)
  PROVE  CapacityInv'
<1>a. /\ UNCHANGED <<pc, loc, slot, claim, handle>>
      /\ status \in [Runs -> Statuses] /\ runner \in [Runs -> RunnerStates]
      /\ proof \in [Runs -> {"pending", "observed", "unknown"}]
      /\ handle[r] = NoOwner => status[r] = "none" /\ runner[r] = "none"
      /\ handle[r] = NoOwner \/ handle[r].kind = "handle"
      /\ proof[r] # "pending" => runner[r] = "dead"
      /\ status[r] = "not-started" => runner[r] # "executing"
  BY DEF RunnerFinish, RunnerExit, CloseObserved, RepairStatus, CapacityInv, TypeOK, RunFiles,
     Statuses, RunnerStates
<1>1. /\ \A x \in Runs \ {r} :
           status'[x] = status[x] /\ runner'[x] = runner[x] /\ proof'[x] = proof[x]
      /\ handle[r].kind = "handle"
      /\ runner'[r] \in {"dead", runner[r]}
      /\ runner[r] = "dead" => runner'[r] = "dead"
      /\ \/ status'[r] = status[r]
         \/ runner[r] \in {"dead", "executing"} /\ status'[r] \in {"complete", "failed", "paused"}
      /\ proof'[r] = proof[r] \/ runner'[r] = "dead"
  BY <1>a DEF RunnerFinish, RunnerExit, CloseObserved, RepairStatus
<1>2. runner[r] = "none" => runner'[r] = "none" /\ status'[r] = status[r]
  BY <1>a DEF RunnerFinish, RunnerExit, CloseObserved, RepairStatus
<1>3. Shared'
  BY <1>a, <1>1, RunMoves
<1>4. \A x \in Runs : Over(x) => Over(x)'
  BY <1>a, <1>1 DEF Over
<1>5. ASSUME NEW p \in Procs PROVE ProcOK(p)'
  <2>1. ProcOK(p) /\ pc'[p] = pc[p] /\ loc'[p] = loc[p]
    BY <1>a DEF CapacityInv
  <2>2. EarlyOK(p)'
    BY <1>a, <2>1, SMTT(30) DEF ProcOK, EarlyOK, Resting, Early, Granted, Started, Ending, Guarding
  <2>3. LaunchOK(p)'
    BY <1>a, <1>1, <1>2, <2>1, SMTT(30) DEF ProcOK, LaunchOK, Granted, Started, Bound, Ending, Ended,
       Guarding, Holds, Owned
  <2>4. VerdictOK(p)'
    <3>1. loc[p].want.kind = "owner" => loc[p].want.run \in Runs
      BY DEF CapacityInv, TypeOK, Locals, Owners, NoOwner
    <3> QED
      BY <1>4, <2>1, <3>1 DEF ProcOK, VerdictOK
  <2> QED
    BY <2>2, <2>3, <2>4 DEF ProcOK
<1>6. Apart'
  BY <1>a DEF CapacityInv, Apart
<1> QED
  BY <1>3, <1>5, <1>6 DEF CapacityInv, Shared

\* Together: every step keeps the invariant.
LEMMA CapacityStep ==
  ASSUME CapacityInv, [Next]_vars
  PROVE  CapacityInv'
<1>1. CASE Next
  <2>1. TypeOK'
    BY <1>1, TypeStep
  <2>2. ASSUME NEW p \in Procs, Acts(p) PROVE CapacityInv'
    BY <2>1, <2>2, OpenOrCrash, Starts, GoesOn, RemoveOwnedSlotStep, TransferStep,
       MarkStartedStep,
       GiveSlotBackStep, PlaceStep, WriteOwnerStep, LaunchStep DEF Acts, Progress
  <2>3. ASSUME NEW r \in Runs, RunnerFinish(r) \/ RunnerExit(r) \/ CloseObserved(r) \/ RepairStatus(r)
        PROVE  CapacityInv'
    BY <2>1, <2>3, RunStep
  <2> QED
    BY <1>1, <2>2, <2>3 DEF Next, Acts
<1>2. CASE UNCHANGED vars
  <2> USE <1>2 DEF vars
  <2>1. TypeOK' /\ Apart' /\ RunFiles'
    BY DEF CapacityInv, TypeOK, Apart, RunFiles
  <2>2. ASSUME NEW p \in Procs PROVE ProcOK(p)'
    <3>1. ProcOK(p)
      BY DEF CapacityInv
    <3>2. /\ Resting(p)' <=> Resting(p)
          /\ Granted(p)' <=> Granted(p)
          /\ \A operation : Guarding(p, operation)' <=> Guarding(p, operation)
      BY DEF Resting, Granted, Guarding
    <3>3. /\ Early(p)' <=> Early(p)
          /\ Started(p)' <=> Started(p)
          /\ Bound(p)' <=> Bound(p)
          /\ Ending(p)' <=> Ending(p)
          /\ Ended(p)' <=> Ended(p)
      BY <3>2 DEF Early, Started, Bound, Ending, Ended
    <3>4. EarlyOK(p)'
      BY <3>1, <3>2, <3>3 DEF ProcOK, EarlyOK
    <3>5. Holds(loc[p].job)' <=> Holds(loc[p].job)
      BY DEF Holds, Owned
    <3>6. LaunchOK(p)'
      BY <3>1, <3>2, <3>3, <3>5 DEF ProcOK, LaunchOK
    <3>7. VerdictOK(p)'
      BY <3>1 DEF ProcOK, VerdictOK, Over
    <3> QED
      BY <3>4, <3>6, <3>7 DEF ProcOK
  <2>3. OwnersHeld' /\ ExecutingCharged'
    BY DEF CapacityInv, OwnersHeld, ExecutingCharged, Matches, Owned, Holds, Resumed
  <2>4. ASSUME NEW q \in Runs, Undoable(q)'
        PROVE  LET u == handle[q].undo  r == u.run  h == handle[r] IN
               /\ h.kind = "handle" /\ h.at = handle[q].at
               /\ h.owner.token = u.token /\ h.owner.run = r /\ h.owner.gen = u.gen
               /\ status[r] \notin {"none", "running"} /\ ~Holds(r)'
               /\ runner[r] = "executing" => u.bound
               /\ \A x \in Runs \ {q} : Undoable(x)' => handle[x].undo.run # r
    <3>1. \A x \in Runs : Undoable(x)' <=> Undoable(x)
      BY DEF Undoable
    <3>2. Holds(handle[q].undo.run)' <=> Holds(handle[q].undo.run)
      BY DEF Holds, Owned
    <3> QED
      BY <2>4, <3>1, <3>2 DEF CapacityInv, TransfersUndoable
  <2>5. TransfersUndoable'
    BY <2>4 DEF TransfersUndoable
  <2> QED
    BY <2>1, <2>2, <2>3, <2>5 DEF CapacityInv
<1> QED
  BY <1>1, <1>2

\* Nothing is charged before the first session opens.
LEMMA CapacityInit == Init => CapacityInv
<1> SUFFICES ASSUME Init PROVE CapacityInv
  OBVIOUS
<1>1. TypeOK
  BY NothingLocal DEF Init, TypeOK, PCs
<1>2. \A i \in Slots : ~Owned(i)
  BY DEF Init, Owned, Absent
<1>3. \A r \in Runs : handle[r].kind # "handle" /\ ~Undoable(r)
  BY DEF Init, NoOwner, Undoable
<1>4. \A p \in Procs : ProcOK(p)
  BY NothingLocal DEF Init, ProcOK, EarlyOK, LaunchOK, VerdictOK, Resting, Early, Granted,
     Started, Bound,
     Ending, Ended, Guarding
<1>5. Apart /\ RunFiles
  BY NothingLocal DEF Init, Apart, RunFiles
<1> QED
  BY <1>1, <1>2, <1>3, <1>4, <1>5 DEF Init, CapacityInv, OwnersHeld, TransfersUndoable,
     ExecutingCharged

-----------------------------------------------------------------------------
\* The invariant holds in every state that can be reached.
THEOREM CapacityInductive == Spec => []CapacityInv
  BY CapacityInit, CapacityStep, PTL DEF Spec

\* Processes, slots, handles and run files stay within the states the source knows.
THEOREM CapacityTypeCorrect == Spec => []TypeOK
<1>1. CapacityInv => TypeOK
  BY DEF CapacityInv
<1> QED
  BY CapacityInductive, <1>1, PTL

\* Of any number of runs no more execute at once than there are slots: each holds the one
\* its handle names, and a slot names one run.
THEOREM LimitKept == Spec => []ActiveWithinLimit
<1>1. CapacityInv => ActiveWithinLimit
  <2> SUFFICES ASSUME CapacityInv PROVE ActiveWithinLimit
    OBVIOUS
  <2> DEFINE Active == {r \in Runs : runner[r] = "executing" /\ status[r] = "running"}
             Home == [r \in Active |-> handle[r].at]
  <2>1. ASSUME NEW r \in Active PROVE Holds(r) /\ handle[r].at \in Slots
    <3>1. ~Resumed(r)
      BY DEF Resumed, CapacityInv, TransfersUndoable, Undoable, TypeOK, NoOwner
    <3> QED
      BY <3>1 DEF CapacityInv, ExecutingCharged, RunFiles, TypeOK
  <2>2. IsFiniteSet(Slots) /\ Cardinality(Slots) = Limit
    <3>1. 0 \in Int /\ Limit - 1 \in Int /\ Limit \in Nat \ {0}
      BY Constants
    <3> QED
      BY <3>1, FS_Interval DEF Slots
  <2>3. Home \in Injection(Active, Slots)
    <3>1. \A r \in Active : slot[handle[r].at].run = r
      BY <2>1 DEF Holds
    <3>2. Home \in [Active -> Slots]
      BY <2>1
    <3>3. \A q, r \in Active : Home[q] = Home[r] => q = r
      BY <3>1
    <3> QED
      BY <3>2, <3>3 DEF Injection, IsInjective
  <2>4. Cardinality(Active) <= Cardinality(Slots)
    BY <2>2, <2>3, FS_Injection
  <2> QED
    BY <2>2, <2>4 DEF ActiveWithinLimit
<1> QED
  BY CapacityInductive, <1>1, PTL

\* A run that executes is charged until it is resumed, and a launch in flight has the slot
\* it reserved as long as its runner may still be authorized: no verdict, rollback or
\* transfer of another process reaches it.
THEOREM ChargeKept == Spec => []ChargedUntilGone
<1>1. CapacityInv => ChargedUntilGone
  <2> SUFFICES ASSUME CapacityInv PROVE ChargedUntilGone
    OBVIOUS
  <2>1. ASSUME NEW r \in Runs, runner[r] = "executing", ~Resumed(r)
        PROVE  \E i \in Slots : Owned(i) /\ slot[i].run = r /\ slot[i].bound
    BY <2>1 DEF CapacityInv, ExecutingCharged, RunFiles, TypeOK, Holds
  <2>2. ASSUME NEW p \in Procs, pc[p] \in {"reserved", "authorize"}, runner[loc[p].job] # "dead"
        PROVE  Matches(handle[loc[p].job].at, handle[loc[p].job].owner)
    <3>1. Holds(loc[p].job) /\ handle[loc[p].job].at \in Slots
      BY <2>2 DEF CapacityInv, ProcOK, LaunchOK, Granted, Started, TypeOK, NoOwner
    <3> QED
      BY <3>1 DEF CapacityInv, OwnersHeld, Holds
  <2> QED
    BY <2>1, <2>2 DEF ChargedUntilGone
<1> QED
  BY CapacityInductive, <1>1, PTL

\* The claim file excludes: two processes are never in the guarded part of one slot, which
\* is why that part is one step of the model although it reads before it renames or writes.
THEOREM ClaimsExclude == Spec => []BodyClaimed
<1>1. Init => BodyClaimed
  BY DEF Init, BodyClaimed
<1>2. CapacityInv /\ BodyClaimed /\ [Next]_vars => BodyClaimed'
  <2> SUFFICES ASSUME CapacityInv, BodyClaimed, [Next]_vars PROVE BodyClaimed'
    OBVIOUS
  <2>a. /\ claim \in [Slots -> Procs \cup {NoOne}] /\ pc \in [Procs -> PCs]
        /\ NoOne \notin Procs
        /\ \A p \in Procs : loc[p].at \in Slots
    BY Constants DEF CapacityInv, TypeOK, Locals
  <2>1. ASSUME NEW p \in Procs, Acts(p),
               \A i \in Slots : claim'[i] = claim[i] \/ claim[i] \in {NoOne, p},
               pc'[p] = "body" => claim'[loc'[p].at] = p
        PROVE  BodyClaimed'
    <3>1. \A q \in Procs \ {p} : pc'[q] = pc[q] /\ loc'[q] = loc[q]
      BY <2>1, Moves DEF CapacityInv, ProcOK
    <3> QED
      BY <3>1, <2>1, <2>a DEF BodyClaimed
  <2>2. ASSUME NEW p \in Procs, Acts(p) PROVE BodyClaimed'
    <3>1. CASE Claim(p)
      <4>1. CASE Continue(p, FALSE) /\ UNCHANGED claim
        <5>1. pc'[p] # "body"
          BY <4>1, ContinueMoves DEF CapacityInv
        <5> QED
          BY <2>1, <2>2, <4>1, <5>1
      <4>2. CASE claim[loc[p].at] = NoOne /\ claim' = [claim EXCEPT ![loc[p].at] = p] /\ UNCHANGED loc
        BY <2>1, <2>2, <2>a, <4>2
      <4> QED
        BY <3>1, <4>1, <4>2 DEF Claim
    <3>2. CASE Unclaim(p)
      <4>1. pc'[p] # "body"
        BY <3>2, ContinueMoves, SMTT(30) DEF CapacityInv, TypeOK, Locals, Unclaim
      <4> QED
        BY <2>1, <2>2, <2>a, <3>2, <4>1 DEF Unclaim
    <3>3. CASE RemoveOwnedSlot(p) \/ Transfer(p) \/ MarkStarted(p) \/ UndoBeforeProceed(p) \/ Rollback(p)
      <4>1. pc'[p] = "unclaim" /\ claim[loc[p].at] = p
        BY <3>3, <2>a, DoneMoves DEF BodyClaimed, RemoveOwnedSlot, Transfer, MarkStarted,
           UndoBeforeProceed,
           Rollback, CapacityInv
      <4>2. \A i \in Slots : i # loc[p].at => claim'[i] = claim[i]
        BY <3>3, <2>a DEF RemoveOwnedSlot, Transfer, MarkStarted, UndoBeforeProceed, Rollback,
           GiveSlotBack, RenameAway
      <4> QED
        BY <2>1, <2>2, <4>1, <4>2
    <3>4. ASSUME UNCHANGED claim, pc'[p] # "body" PROVE BodyClaimed'
      BY <2>1, <2>2, <3>4
    <3>5. CASE OpenSession(p) \/ Crash(p) \/ Scan(p) \/ Judge(p) \/ Admit(p) \/ Place(p) \/ WriteOwner(p)
      BY <3>4, <3>5, <2>a DEF OpenSession, Crash, Scan, Judge, Admit, Place, WriteOwner, Goto,
         Return, Guarded
    <3>6. CASE LaunchFails(p) \/ Spawn(p) \/ Authorize(p) \/ Abort(p) \/ GiveBack(p)
      BY <3>4, <3>6, <2>a DEF LaunchFails, Spawn, Authorize, Abort, GiveBack, Goto, Return,
         Guarded
    <3>7. CASE \E r \in Runs \cup {NoRun} : StartReconcile(p, r)
      BY <3>4, <3>7, <2>a DEF StartReconcile, Goto
    <3>8. CASE \E r, src \in Runs : StartResume(p, src, r)
      BY <3>4, <3>8, <2>a DEF StartResume, Goto
    <3> QED
      BY <2>2, <3>1, <3>2, <3>3, <3>5, <3>6, <3>7, <3>8 DEF Acts, Progress
  <2>3. ASSUME NEW r \in Runs, RunnerFinish(r) \/ RunnerExit(r) \/ CloseObserved(r) \/ RepairStatus(r)
        PROVE  BodyClaimed'
    BY <2>3 DEF BodyClaimed, RunnerFinish, RunnerExit, CloseObserved, RepairStatus
  <2>4. CASE UNCHANGED vars
    BY <2>4 DEF vars, BodyClaimed
  <2> QED
    BY <2>2, <2>3, <2>4 DEF Next, Acts
<1> QED
  BY CapacityInductive, <1>1, <1>2, PTL DEF Spec

-----------------------------------------------------------------------------
\* A claim file is that of a guarded part under way, or of a process that was killed.
ClaimsOwned ==
  \A i \in Slots : claim[i] # NoOne =>
    pc[claim[i]] = "crashed" \/ (pc[claim[i]] \in {"body", "unclaim"} /\ loc[claim[i]].at = i)

\* A claim file goes with the guarded part it was made for.
LEMMA OwnedStep ==
  ASSUME CapacityInv, ClaimsOwned, [Next]_vars
  PROVE  ClaimsOwned'
<1>1. ASSUME NEW p \in Procs, Acts(p) PROVE ClaimsOwned'
  <2>a. /\ claim \in [Slots -> Procs \cup {NoOne}] /\ pc \in [Procs -> PCs] /\ NoOne \notin Procs
        /\ \A q \in Procs : loc[q].at \in Slots
        /\ \A q \in Procs \ {p} : pc'[q] = pc[q] /\ loc'[q] = loc[q]
    BY <1>1, Constants, Moves DEF CapacityInv, TypeOK, Locals, ProcOK
  <2>1. \A i \in Slots : claim[i] = p => pc[p] \in {"body", "unclaim"} /\ loc[p].at = i
    <3>1. pc[p] # "crashed"
      BY <1>1 DEF Acts, OpenSession, Open, Crash, Progress, Scan, Judge, Claim, Unclaim,
         RemoveOwnedSlot, Transfer, MarkStarted, UndoBeforeProceed, Rollback, Admit, Place, WriteOwner,
         LaunchFails, Spawn, Authorize, Abort, GiveBack, StartReconcile, StartResume
    <3> QED
      BY <3>1, <2>a, SMTT(30) DEF ClaimsOwned
  <2>2. ASSUME NEW i \in Slots, claim'[i] = claim[i], claim[i] # p, claim[i] # NoOne
        PROVE  pc'[claim'[i]] = "crashed"
                 \/ (pc'[claim'[i]] \in {"body", "unclaim"} /\ loc'[claim'[i]].at = i)
    BY <2>2, <2>a DEF ClaimsOwned
  <2>3. CASE Claim(p)
    <3>1. \A i \in Slots : claim[i] # p
      BY <2>1, <2>3 DEF Claim
    <3>2. CASE UNCHANGED claim
      BY <2>2, <3>1, <3>2 DEF ClaimsOwned
    <3>3. CASE Goto(p, "body") /\ claim' = [claim EXCEPT ![loc[p].at] = p] /\ UNCHANGED loc
      <4>1. /\ pc'[p] = "body" /\ loc'[p].at = loc[p].at /\ claim'[loc[p].at] = p
            /\ \A i \in Slots : i # loc[p].at => claim'[i] = claim[i]
        BY <3>3, <2>a DEF Goto
      <4> QED
        BY <4>1, <2>2, <3>1 DEF ClaimsOwned
    <3> QED
      BY <2>3, <3>2, <3>3 DEF Claim
  <2>4. CASE Unclaim(p)
    <3>1. \A i \in Slots : claim'[i] = NoOne \/ (claim'[i] = claim[i] /\ claim[i] # p)
      BY <2>4, <2>1, <2>a DEF Unclaim
    <3> QED
      BY <2>2, <3>1 DEF ClaimsOwned
  <2>5. CASE RemoveOwnedSlot(p) \/ Transfer(p) \/ MarkStarted(p) \/ UndoBeforeProceed(p)
             \/ Rollback(p)
    <3>1. pc'[p] = "unclaim" /\ loc'[p].at = loc[p].at
      BY <2>5, DoneMoves DEF RemoveOwnedSlot, Transfer, MarkStarted, UndoBeforeProceed, Rollback,
         CapacityInv
    <3>2. \A i \in Slots : claim'[i] \in {claim[i], NoOne}
      BY <2>5, <2>a, ZenonT(30) DEF RemoveOwnedSlot, Transfer, MarkStarted, UndoBeforeProceed, Rollback,
         GiveSlotBack, RenameAway
    <3> QED
      BY <2>1, <2>2, <3>1, <3>2, SMTT(30) DEF ClaimsOwned
  <2>6. ASSUME pc[p] \notin {"body", "unclaim"}, UNCHANGED claim PROVE ClaimsOwned'
    BY <2>1, <2>2, <2>6 DEF ClaimsOwned
  <2>7. CASE OpenSession(p) \/ Scan(p) \/ Judge(p) \/ Admit(p) \/ Place(p) \/ WriteOwner(p)
             \/ LaunchFails(p) \/ Spawn(p) \/ Authorize(p) \/ Abort(p) \/ GiveBack(p)
    BY <2>6, <2>7 DEF OpenSession, Scan, Judge, Admit, Place, WriteOwner, LaunchFails, Spawn,
       Authorize, Abort, GiveBack
  <2>8. CASE \/ \E r \in Runs \cup {NoRun} : StartReconcile(p, r)
             \/ \E r, src \in Runs : StartResume(p, src, r)
    BY <2>6, <2>8 DEF StartReconcile, StartResume
  <2>9. CASE Crash(p)
    <3>1. pc'[p] = "crashed" /\ UNCHANGED claim
      BY <2>9, <2>a DEF Crash, Goto
    <3> QED
      BY <2>2, <3>1 DEF ClaimsOwned
  <2> QED
    BY <1>1, <2>3, <2>4, <2>5, <2>7, <2>8, <2>9 DEF Acts, Progress
<1>2. ASSUME UNCHANGED <<pc, loc, claim>> PROVE ClaimsOwned'
  BY <1>2 DEF ClaimsOwned
<1>3. ASSUME NEW r \in Runs, RunnerFinish(r) \/ RunnerExit(r) \/ CloseObserved(r) \/ RepairStatus(r)
      PROVE  ClaimsOwned'
  BY <1>2, <1>3 DEF RunnerFinish, RunnerExit, CloseObserved, RepairStatus
<1>4. CASE UNCHANGED vars
  BY <1>2, <1>4 DEF vars
<1> QED
  BY <1>1, <1>3, <1>4 DEF Next, Acts

\* Only a kill leaves a claim file behind: whatever the guarded part did or failed to do, its
\* file is gone when the operation is over (withSlotClaim).  This is why a run proved over
\* keeps its slot for ever only behind the file of a process that was killed.
THEOREM OnlyKillsLeak == Spec => []ClaimsOwned
<1>1. Init => ClaimsOwned
  BY DEF Init, ClaimsOwned
<1>2. CapacityInv /\ ClaimsOwned /\ [Next]_vars => ClaimsOwned'
  BY OwnedStep
<1> QED
  BY CapacityInductive, <1>1, <1>2, PTL DEF Spec

-----------------------------------------------------------------------------
\* When one process at a time has the session open and none has been killed: ...
Solo == \A p, q \in Procs : Open(p) /\ Open(q) => p = q
Alive == \A p \in Procs : pc[p] # "crashed"

\* ... what a resume would give back is bound, ...
UndoBound ==
  \A q \in Runs : handle[q].kind = "handle" /\ handle[q].undo # NoOwner => handle[q].undo.bound

\* ... and an unbound slot is that of the launch in hand, which will still bind it or give
\* it back: the guarded part has not come to its end, and memory does not refuse.
Settled(p) ==
  \/ pc[p] = "authorize"
  \/ pc[p] = "unclaim" /\ loc[p].op \in {"bind", "undo"} /\ loc[p].ok
  \/ pc[p] = "unclaim" /\ loc[p].op = "rollback"
ToGiveBack(p) ==
  Granted(p) \/ pc[p] = "giveback" \/ (pc[p] = "unclaim" /\ loc[p].op = "undo")
Kept(p, i) ==
  /\ Open(p) /\ loc[p].job = slot[i].run /\ ~Settled(p)
  /\ ToGiveBack(p) => ~handle[loc[p].job].owner.bound
Unlost == \A i \in Slots : Owned(i) /\ ~slot[i].bound => \E p \in Procs : Kept(p, i)

SoloInv == Solo /\ (Alive => UndoBound /\ Unlost)

\* Of the process whose step it is: what an unbound slot says of it.
LEMMA UnboundSlot ==
  ASSUME CapacityInv, Solo, Unlost, NEW p \in Procs, Open(p),
         NEW i \in Slots, Owned(i), ~slot[i].bound
  PROVE  /\ Kept(p, i) /\ ~Early(p) /\ ~Resting(p) /\ Matches(i, handle[loc[p].job].owner)
         /\ Guarding(p, "bind") \/ Guarding(p, "undo") \/ Guarding(p, "rollback") =>
              loc[p].at = i
<1>1. Kept(p, i)
  <2>1. PICK q \in Procs : Kept(q, i)
    BY DEF Unlost
  <2> QED
    BY <2>1 DEF Kept, Solo
<1>2. slot[i].run \in Runs /\ slot[i].run # NoRun
  BY Constants DEF CapacityInv, TypeOK, Owned, Owners, Absent, Corrupt
<1>3. LET h == handle[slot[i].run] IN
      h.kind = "handle" /\ h # NoOwner /\ h.at = i /\ Matches(i, h.owner)
  BY <1>2 DEF CapacityInv, OwnersHeld, NoOwner
<1> QED
  BY <1>1, <1>2, <1>3 DEF Kept, CapacityInv, ProcOK, EarlyOK, LaunchOK

\* The process that acts is the one that has the session open.
LEMMA SoloActs ==
  ASSUME CapacityInv, Solo, ~together', NEW p \in Procs, Acts(p)
  PROVE  /\ Solo' /\ (Alive' => Alive)
         /\ OpenSession(p) => \A q \in Procs : ~Open(q)
         /\ ~OpenSession(p) => Open(p)
<1>1. \A q \in Procs \ {p} : pc'[q] = pc[q]
  BY Moves DEF CapacityInv, ProcOK
<1>2. OpenSession(p) => \A q \in Procs : ~Open(q)
  BY DEF OpenSession
<1>3. ~OpenSession(p) => Open(p)
  BY ZenonT(30) DEF Acts, Open, Crash, Progress, Scan, Judge, Claim, Unclaim, RemoveOwnedSlot, Transfer,
     MarkStarted, UndoBeforeProceed, Rollback, Admit, Place, WriteOwner, LaunchFails, Spawn,
     Authorize, Abort, GiveBack, StartReconcile, StartResume
<1>4. pc[p] # "crashed"
  BY <1>3 DEF OpenSession, Open
<1> QED
  BY <1>1, <1>2, <1>3, <1>4 DEF Solo, Alive, Open

\* A resume takes over a bound slot only: an unbound one is still in the hand of its launch.
LEMMA UndoStep ==
  ASSUME CapacityInv, Solo, UndoBound, Unlost, ~together', NEW p \in Procs, Acts(p)
  PROVE  UndoBound'
<1>a. /\ handle \in [Runs -> {NoOwner} \cup Handles]
      /\ slot \in [Slots -> Owners \cup {Absent, Corrupt}]
      /\ loc[p].at \in Slots
  BY DEF CapacityInv, TypeOK, Handles, Locals
<1>1. CASE UNCHANGED handle
  BY <1>1 DEF UndoBound
<1>2. CASE Transfer(p) /\ ~UNCHANGED handle
  <2>1. loc[p].job \in Runs /\ Early(p) /\ Open(p)
    BY <1>2 DEF Transfer, CapacityInv, ProcOK, EarlyOK, Guarding, Early, Granted, Open
  <2>2. Owned(loc[p].at)
    BY <1>2 DEF Transfer, Matches
  <2>3. slot[loc[p].at].bound
    BY <2>1, <2>2, <1>a, UnboundSlot
  <2>4. /\ \A q \in Runs \ {loc[p].job} : handle'[q] = handle[q]
        /\ handle'[loc[p].job].undo = slot[loc[p].at]
    <3>1. PICK r \in Runs : r = loc[p].job
      BY <2>1
    <3>2. PICK next : handle' = [handle EXCEPT ![r] =
                        [kind |-> "handle", host |-> p, at |-> loc[p].at, owner |-> next,
                         undo |-> slot[loc[p].at]]]
      BY <1>2, <3>1 DEF Transfer
    <3> QED
      BY <3>1, <3>2, <1>a
  <2> QED
    BY <2>3, <2>4 DEF UndoBound
<1>3. ASSUME MarkStarted(p) \/ UndoBeforeProceed(p) \/ Rollback(p) PROVE UndoBound'
  <2>1. Started(p) \/ Ending(p)
    BY <1>3 DEF MarkStarted, UndoBeforeProceed, Rollback, Started, Ending, Guarding
  <2>2. PICK r \in Runs : r = loc[p].job /\ handle[r].kind = "handle"
    BY <2>1 DEF CapacityInv, ProcOK, LaunchOK
  <2>3. handle[r] \in Handles
    BY <2>2, <1>a, SMTT(30) DEF NoOwner
  <2>4. \/ UNCHANGED handle
        \/ handle' = [handle EXCEPT ![r].owner.bound = TRUE]
        \/ handle' = [handle EXCEPT ![r].owner = handle[r].undo]
    BY <1>3, <2>2 DEF MarkStarted, UndoBeforeProceed, Rollback, GiveSlotBack
  <2>5. \A q \in Runs : handle'[q].kind = handle[q].kind /\ handle'[q].undo = handle[q].undo
    BY <2>3, <2>4, <1>a DEF Handles
  <2> QED
    BY <2>5 DEF UndoBound
<1>4. CASE WriteOwner(p)
  <2>1. loc[p].job \in Runs
    BY <1>4, SMTT(30) DEF WriteOwner, CapacityInv, ProcOK, EarlyOK
  <2> QED
    BY <1>4, <2>1, <1>a DEF WriteOwner, UndoBound
<1> QED
  BY <1>1, <1>2, <1>3, <1>4 DEF Acts, Progress, OpenSession, Crash, Scan, Judge, Claim, Unclaim,
     RemoveOwnedSlot, Admit, Place, LaunchFails, Spawn, Authorize, Abort, GiveBack,
     StartReconcile, StartResume

\* Where the launch that has an unbound slot in hand goes on, it still has it in hand.
LEMMA UnlostGoesOn ==
  ASSUME CapacityInv, Solo, Unlost, ClaimsOwned, ~together', NEW p \in Procs, Acts(p),
         Alive', UNCHANGED <<slot, handle>>, pc[p] # "body"
  PROVE  Unlost'
<1> USE DEF Resting, Early, Granted, Guarding, Settled, ToGiveBack
<1>a. /\ pc \in [Procs -> PCs] /\ loc \in [Procs -> Locals]
      /\ \A q \in Procs \ {p} : pc'[q] = pc[q] /\ loc'[q] = loc[q]
  BY Moves DEF CapacityInv, TypeOK, ProcOK
<1> SUFFICES ASSUME NEW i \in Slots, Owned(i), ~slot[i].bound
             PROVE  \E q \in Procs : Kept(q, i)'
  BY DEF Unlost, Owned
<1>1. PICK q \in Procs : Kept(q, i)
  BY DEF Unlost
<1>2. ~OpenSession(p) /\ Open(p)
  BY <1>1, SoloActs DEF Kept
<1>3. /\ Kept(p, i) /\ ~Early(p) /\ ~Resting(p)
      /\ Guarding(p, "bind") \/ Guarding(p, "undo") \/ Guarding(p, "rollback") => loc[p].at = i
  BY <1>2, UnboundSlot
<1>4. Alive /\ pc'[p] # "crashed"
  BY SoloActs DEF Alive
<1>5. CASE LaunchFails(p)
  BY <1>3, <1>5, <1>a DEF LaunchFails, Goto, Kept, Open
<1>6. CASE Spawn(p) \/ Abort(p) \/ GiveBack(p)
  <2>1. ~handle[loc[p].job].owner.bound \/ pc[p] # "giveback"
    BY <1>3 DEF Kept
  <2>2. /\ pc'[p] = "claim" /\ loc'[p].job = loc[p].job
    <3>1. \E o \in {handle[loc[p].job].owner}, a \in {handle[loc[p].job].at},
             op \in {"bind", "undo", "rollback"} : Guarded(p, o, a, op)
      BY <1>6, <1>3 DEF Spawn, Abort, GiveBack, Kept
    <3> QED
      BY <3>1, <1>a DEF Guarded, Goto, Locals
  <2> QED
    BY <1>3, <2>2 DEF Kept, Open
<1>7. CASE Claim(p)
  <2>1. claim[loc[p].at] = NoOne
    <3>1. claim[loc[p].at] # NoOne =>
            claim[loc[p].at] = p /\ pc[p] \in {"body", "unclaim"}
      BY <1>2, <1>4, <1>a DEF ClaimsOwned, Alive, Open, Solo, CapacityInv, TypeOK, Locals
    <3> QED
      BY <3>1, <1>7 DEF Claim
  <2>2. loc[p].at = i
    BY <1>3, <1>7, <1>a DEF Claim, CapacityInv, ProcOK, EarlyOK, Started, Ending
  <2>3. pc'[p] = "body" /\ loc' = loc
    <3>1. slot[i] # Absent
      BY DEF Owned, Absent
    <3>2. Goto(p, "body") /\ UNCHANGED loc
      BY <1>7, <2>1, <2>2, <3>1 DEF Claim
    <3> QED
      BY <3>2, <1>a DEF Goto
  <2> QED
    BY <1>3, <2>3 DEF Kept, Open
<1>8. CASE Unclaim(p)
  <2>1. /\ pc[p] = "unclaim" /\ loc[p].ok \in BOOLEAN
    BY <1>8, <1>a DEF Unclaim, Locals
  <2>2. \/ loc[p].op = "transfer" /\ loc[p].ok
        \/ loc[p].op \in {"bind", "undo"} /\ ~loc[p].ok
    <3>1. Resting(p) \/ Early(p) \/ Granted(p) \/ Started(p) \/ Ending(p)
      BY DEF CapacityInv, ProcOK, EarlyOK
    <3>2. ~Settled(p)
      BY <1>3 DEF Kept
    <3>3. (loc[p].op = "transfer" /\ loc[p].ok) \/ loc[p].op \in {"bind", "undo", "rollback"}
      BY <1>3, <2>1, <3>1 DEF Started, Ending
    <3> QED
      BY <2>1, <3>2, <3>3
  <2>3. loc'[p].job = loc[p].job /\ pc'[p] \in {"reserved", "abort", "giveback"}
    BY <1>8, <2>1, <2>2, ContinueMoves DEF Unclaim, CapacityInv
  <2>4. pc'[p] \in {"reserved", "giveback"} => ~handle[loc[p].job].owner.bound
    BY <1>8, <1>3, <2>1, <2>2, ContinueMoves DEF Unclaim, CapacityInv, Kept
  <2> QED
    BY <1>3, <2>3, <2>4 DEF Kept, Open
<1>9. ~Crash(p)
  BY <1>4, <1>a, SMTT(30) DEF Crash, Goto
<1>10. ~Scan(p) /\ ~Judge(p) /\ ~Admit(p) /\ ~Place(p) /\ ~WriteOwner(p) /\ ~Authorize(p)
  BY <1>3 DEF Scan, Judge, Admit, Place, WriteOwner, Authorize, Kept
<1>11. ~\E r \in Runs \cup {NoRun} : StartReconcile(p, r)
  BY <1>3, ZenonT(30) DEF StartReconcile
<1>12. ~\E r, src \in Runs : StartResume(p, src, r)
  BY <1>3 DEF StartResume
<1> QED
  BY <1>2, <1>5, <1>6, <1>7, <1>8, <1>9, <1>10, <1>11, <1>12 DEF Acts, Progress,
     RemoveOwnedSlot, Transfer, MarkStarted, UndoBeforeProceed, Rollback

\* A guarded part ends, or a directory gets its owner: the unbound slots are those there
\* were, but for the one that is now in hand.
LEMMA UnlostSlots ==
  ASSUME CapacityInv, Solo, UndoBound, Unlost, ~together', NEW p \in Procs, Acts(p), Alive',
         RemoveOwnedSlot(p) \/ Transfer(p) \/ MarkStarted(p) \/ UndoBeforeProceed(p)
         \/ Rollback(p) \/ Place(p) \/ WriteOwner(p)
  PROVE  Unlost'
<1> USE DEF Resting, Early, Granted, Guarding, Settled, ToGiveBack
<1>a. /\ handle \in [Runs -> {NoOwner} \cup Handles] /\ Owners \cap {Absent, Corrupt} = {}
      /\ slot \in [Slots -> Owners \cup {Absent, Corrupt}]
      /\ pc \in [Procs -> PCs] /\ loc \in [Procs -> Locals] /\ loc[p].at \in Slots
  BY SMTT(30) DEF CapacityInv, TypeOK, Handles, Locals, Owners, Absent, Corrupt
<1>b. Open(p)
  BY DEF Open, RemoveOwnedSlot, Transfer, MarkStarted, UndoBeforeProceed, Rollback, Place,
     WriteOwner
<1> SUFFICES ASSUME NEW i \in Slots, Owned(i)', ~slot'[i].bound
             PROVE  Kept(p, i)'
  BY DEF Unlost
<1>1. ASSUME Owned(i), ~slot[i].bound
      PROVE  /\ Kept(p, i) /\ ~Early(p) /\ Matches(i, handle[loc[p].job].owner)
             /\ Guarding(p, "bind") \/ Guarding(p, "undo") \/ Guarding(p, "rollback") =>
                  loc[p].at = i
  BY <1>1, <1>b, UnboundSlot
<1>2. CASE RemoveOwnedSlot(p)
  <2>1. Early(p)
    BY <1>2 DEF RemoveOwnedSlot
  <2>2. slot'[i] = slot[i]
    <3>1. slot' = [slot EXCEPT ![loc[p].at] = Absent] \/ UNCHANGED slot
      BY <1>2 DEF RemoveOwnedSlot, RenameAway
    <3> QED
      BY <3>1, <1>a DEF Owned, Absent
  <2> QED
    BY <1>1, <2>1, <2>2 DEF Owned
<1>3. CASE Transfer(p)
  <2>1. Early(p) /\ loc[p].job \in Runs
    BY <1>3 DEF Transfer, CapacityInv, ProcOK, EarlyOK
  <2>2. slot'[i] # slot[i]
    BY <1>1, <2>1 DEF Owned
  <2>3. /\ i = loc[p].at /\ slot'[i].run = loc[p].job /\ Done(p, TRUE)
        /\ handle'[loc[p].job].owner = slot'[i]
    <3>1. ~UNCHANGED slot
      BY <2>2
    <3>2. PICK r \in Runs : r = loc[p].job
      BY <2>1
    <3>3. PICK next : /\ next = [slot[loc[p].at] EXCEPT !.run = r, !.gen = @ + 1, !.bound = FALSE]
                      /\ slot' = [slot EXCEPT ![loc[p].at] = next]
                      /\ handle' = [handle EXCEPT ![r] =
                           [kind |-> "handle", host |-> p, at |-> loc[p].at, owner |-> next,
                            undo |-> slot[loc[p].at]]]
                      /\ Owned(loc[p].at) /\ Done(p, TRUE)
      BY <1>3, <3>1, <3>2 DEF Transfer, Matches
    <3>4. slot[loc[p].at] \in Owners
      BY <3>3, <1>a DEF Owned, Absent, Corrupt
    <3>5. next.run = r
      BY <3>3, <3>4 DEF Owners
    <3>6. i = loc[p].at /\ slot'[i] = next
      BY <3>3, <2>2, <1>a
    <3> QED
      BY <3>2, <3>3, <3>5, <3>6, <1>a
  <2>4. pc'[p] = "unclaim" /\ loc'[p].op = "transfer" /\ loc'[p].job = loc[p].job
    BY <2>3, <1>3, DoneMoves DEF CapacityInv, Transfer
  <2> QED
    BY <2>3, <2>4 DEF Kept, Open
<1>4. CASE MarkStarted(p)
  <2>1. loc[p].job \in Runs
    BY <1>4 DEF MarkStarted, CapacityInv, ProcOK, LaunchOK, Started
  <2>2. slot'[i] = slot[i]
    <3>1. slot' = [slot EXCEPT ![loc[p].at].bound = TRUE] \/ UNCHANGED slot
      BY <1>4 DEF MarkStarted
    <3>2. slot'[loc[p].at].bound \/ slot'[loc[p].at] = slot[loc[p].at]
      <4>1. CASE Owned(loc[p].at)
        BY <3>1, <4>1, <1>a DEF Owned, Owners, Absent, Corrupt
      <4>2. CASE ~Owned(loc[p].at)
        BY <1>4, <4>2 DEF MarkStarted, Matches
      <4> QED
        BY <4>1, <4>2
    <3> QED
      BY <3>1, <3>2, <1>a
  <2>3. Kept(p, i) /\ i = loc[p].at
    BY <1>1, <1>4, <2>2 DEF Owned, MarkStarted
  <2>4. Done(p, FALSE)
    <3>1. Done(p, FALSE) \/ (slot' = [slot EXCEPT ![i].bound = TRUE] /\ Owned(i))
      BY <1>4, <2>3 DEF MarkStarted, Matches
    <3>3. Owned(i) => slot[i] \in Owners
      BY <1>a DEF Owned, Absent, Corrupt
    <3>2. slot[i] \in Owners /\ slot' = [slot EXCEPT ![i].bound = TRUE] => slot'[i].bound
      BY <1>a DEF Owners
    <3> QED
      BY <2>2, <3>1, <3>2, <3>3
  <2>5. pc'[p] = "unclaim" /\ loc'[p].op = "bind" /\ ~loc'[p].ok /\ loc'[p].job = loc[p].job
    BY <2>4, <1>4, DoneMoves DEF CapacityInv, MarkStarted
  <2> QED
    BY <2>2, <2>3, <2>5 DEF Kept, Open
<1>5. CASE UndoBeforeProceed(p) \/ Rollback(p)
  <2>1. /\ loc[p].job \in Runs /\ handle[loc[p].job] \in Handles
    <3>1. Ending(p)
      BY <1>5 DEF UndoBeforeProceed, Rollback, Ending
    <3>2. loc[p].job \in Runs /\ handle[loc[p].job].kind = "handle"
      BY <3>1 DEF CapacityInv, ProcOK, LaunchOK
    <3> QED
      BY <3>2, <1>a DEF NoOwner
  <2>2. ASSUME GiveSlotBack(p, loc[p].at, loc[p].job)
        PROVE  slot'[i] = slot[i] /\ i # loc[p].at
    <3>1. CASE handle[loc[p].job].undo = NoOwner
      BY <2>2, <3>1, <1>a DEF GiveSlotBack, RenameAway, Owned, Absent
    <3>2. CASE handle[loc[p].job].undo # NoOwner
      <4>1. handle[loc[p].job].undo.bound
        BY <2>1, <3>2 DEF UndoBound, Handles
      <4> QED
        BY <2>2, <3>2, <4>1, <1>a DEF GiveSlotBack
    <3> QED
      BY <3>1, <3>2
  <2>3. slot'[i] = slot[i] /\ ~GiveSlotBack(p, loc[p].at, loc[p].job)
    <3>1. UNCHANGED slot \/ GiveSlotBack(p, loc[p].at, loc[p].job)
      BY <1>5 DEF UndoBeforeProceed, Rollback
    <3>2. slot'[i] = slot[i]
      BY <3>1, <2>2
    <3>3. i = loc[p].at
      BY <1>1, <1>5, <3>2 DEF Owned, UndoBeforeProceed, Rollback
    <3> QED
      BY <2>2, <3>2, <3>3
  <2>4. /\ Kept(p, i) /\ i = loc[p].at /\ Matches(i, handle[loc[p].job].owner)
    BY <1>1, <1>5, <2>3 DEF Owned, UndoBeforeProceed, Rollback
  <2>5. /\ UndoBeforeProceed(p) /\ Done(p, FALSE) /\ ~handle[loc[p].job].owner.bound
        /\ UNCHANGED handle
    BY <1>5, <2>3, <2>4 DEF UndoBeforeProceed, Rollback
  <2>6. pc'[p] = "unclaim" /\ loc'[p].op = "undo" /\ ~loc'[p].ok /\ loc'[p].job = loc[p].job
    BY <2>5, DoneMoves DEF CapacityInv, UndoBeforeProceed
  <2> QED
    BY <2>3, <2>4, <2>5, <2>6 DEF Kept, Open
<1>6. CASE Place(p)
  <2>1. slot'[i] = slot[i] /\ Early(p)
    BY <1>6, <1>a DEF Place, Owned, Corrupt
  <2> QED
    BY <1>1, <2>1 DEF Owned
<1>7. CASE WriteOwner(p)
  <2>1. Early(p) /\ loc[p].job \in Runs
    BY <1>7 DEF WriteOwner, CapacityInv, ProcOK, EarlyOK
  <2>2. slot'[i] # slot[i]
    BY <1>1, <2>1 DEF Owned
  <2>3. /\ i = loc[p].at /\ slot'[i].run = loc[p].job /\ handle'[loc[p].job].owner = slot'[i]
        /\ pc' = [pc EXCEPT ![p] = "reserved"] /\ KeepJob(p)
    <3>1. PICK r \in Runs : r = loc[p].job
      BY <2>1
    <3>2. PICK o : /\ o = [kind |-> "owner", token |-> r, run |-> r, gen |-> 0, bound |-> FALSE]
                   /\ slot' = [slot EXCEPT ![loc[p].at] = o]
                   /\ handle' = [handle EXCEPT ![r] =
                        [kind |-> "handle", host |-> p, at |-> loc[p].at, owner |-> o,
                         undo |-> NoOwner]]
                   /\ Goto(p, "reserved") /\ KeepJob(p)
      BY <1>7, <2>2, <3>1 DEF WriteOwner
    <3>3. i = loc[p].at /\ slot'[i] = o
      BY <3>2, <2>2, <1>a
    <3> QED
      BY <3>1, <3>2, <3>3, <1>a DEF Goto
  <2>4. pc'[p] = "reserved" /\ loc'[p].job = loc[p].job
    BY <2>3, <1>a DEF KeepJob, NoLocals
  <2> QED
    BY <2>3, <2>4 DEF Kept, Open
<1> QED
  BY <1>2, <1>3, <1>4, <1>5, <1>6, <1>7

\* As long as two live processes have not had the session open, no slot is lost: unless one
\* was killed, an unbound slot is that of a launch in hand.
THEOREM NoSlotLost == Spec => []NoOrphanReservation
<1> DEFINE Inv == ~together => SoloInv
<1>1. Init => Inv
  BY DEF Init, SoloInv, Solo, Open, Alive, UndoBound, Unlost, Owned, Absent, NoOwner
<1>2. CapacityInv /\ ClaimsOwned /\ Inv /\ [Next]_vars => Inv'
  <2> SUFFICES ASSUME CapacityInv, ClaimsOwned, Inv, [Next]_vars, ~together' PROVE SoloInv'
    OBVIOUS
  <2>1. ASSUME NEW p \in Procs, Acts(p) PROVE SoloInv'
    <3>1. SoloInv
      BY <2>1, TogetherStays
    <3>2. Solo' /\ (Alive' => Alive)
      BY <2>1, <3>1, SoloActs, SMTT(30) DEF SoloInv
    <3>3. ASSUME Alive' PROVE UndoBound' /\ Unlost'
      <4>1. UndoBound'
        BY <2>1, <3>1, <3>2, <3>3, UndoStep DEF SoloInv
      <4>2. CASE UNCHANGED <<slot, handle>> /\ pc[p] # "body"
        <5>1. Solo /\ Unlost
          BY <3>1, <3>2, <3>3 DEF SoloInv
        <5> QED
          BY <2>1, <3>3, <4>1, <4>2, <5>1, UnlostGoesOn
      <4>3. CASE RemoveOwnedSlot(p) \/ Transfer(p) \/ MarkStarted(p) \/ UndoBeforeProceed(p)
                 \/ Rollback(p) \/ Place(p) \/ WriteOwner(p)
        <5>1. Solo /\ Unlost /\ UndoBound
          BY <3>1, <3>2, <3>3 DEF SoloInv
        <5> QED
          BY <2>1, <3>3, <4>1, <4>3, <5>1, UnlostSlots
      <4>4. ~Crash(p)
        BY <3>3 DEF Crash, Goto, Alive, CapacityInv, TypeOK
      <4> QED
        BY <2>1, <4>1, <4>2, <4>3, <4>4 DEF Acts, Progress, OpenSession, Scan, Judge, Claim,
           Unclaim, Admit, LaunchFails, Spawn, Authorize, Abort, GiveBack, StartReconcile,
           StartResume
    <3> QED
      BY <3>2, <3>3 DEF SoloInv
  <2>2. ASSUME NEW r \in Runs, RunnerFinish(r) \/ RunnerExit(r) \/ CloseObserved(r)
                               \/ RepairStatus(r)
        PROVE  SoloInv'
    <3>1. UNCHANGED <<pc, loc, slot, claim, handle, together>>
      BY <2>2 DEF RunnerFinish, RunnerExit, CloseObserved, RepairStatus
    <3> QED
      BY <3>1 DEF SoloInv, Solo, Open, Alive, UndoBound, Unlost, Owned, Kept,
         Settled, ToGiveBack, Granted
  <2>3. CASE UNCHANGED vars
    BY <2>3 DEF vars, SoloInv, Solo, Open, Alive, UndoBound, Unlost, Owned, Kept,
       Settled, ToGiveBack, Granted
  <2> QED
    BY <2>1, <2>2, <2>3 DEF Next, Acts
<1>3. Inv => NoOrphanReservation
  BY DEF SoloInv, Alive, Unlost, Kept, NoOrphanReservation
<1> QED
  BY CapacityInductive, OnlyKillsLeak, <1>1, <1>2, <1>3, PTL DEF Spec

-----------------------------------------------------------------------------
\* The pool that the slots implement: a step of its own, or none.
PoolStep == Pool!Next \/ UNCHANGED Pool!pool

\* What the pool consists of depends on the slots, and on the runs.
LEMMA SlotsKept == ASSUME UNCHANGED slot PROVE UNCHANGED <<OccupiedSlots, Charge>>
  BY DEF OccupiedSlots, Charge, Owned

LEMMA PhasesKept == ASSUME UNCHANGED <<runner, status>> PROVE UNCHANGED Phase
  BY DEF Phase, PhaseOf

\* A run is charged where its handle says, if at all, and nowhere if it has none.
LEMMA UnchargedRun ==
  ASSUME CapacityInv, NEW r \in Runs, ~(handle[r].kind = "handle" /\ Holds(r))
  PROVE  Pool!Uncharged(r)
<1>1. ASSUME NEW i \in Slots, Owned(i), slot[i].run = r PROVE FALSE
  BY <1>1 DEF CapacityInv, OwnersHeld, Holds
<1> QED
  BY <1>1 DEF Pool!Uncharged, Charge

\* A slot gets another record: what it is charged to follows.
LEMMA Recharged ==
  ASSUME NEW i \in Slots, \A j \in Slots \ {i} : slot'[j] = slot[j], UNCHANGED <<runner, status>>
  PROVE  /\ slot'[i].kind = "owner" => Charge' = [Charge EXCEPT ![i] = {slot'[i].run}]
         /\ slot'[i].kind # "owner" => Charge' = [Charge EXCEPT ![i] = {}]
         /\ UNCHANGED Phase
         /\ slot'[i] = Absent => OccupiedSlots' = OccupiedSlots \ {i}
         /\ slot'[i] # Absent => OccupiedSlots' = OccupiedSlots \cup {i}
<1>1. \A j \in Slots \ {i} : Charge'[j] = Charge[j]
  BY DEF Charge, Owned
<1>2. /\ slot'[i].kind = "owner" => Charge'[i] = {slot'[i].run}
      /\ slot'[i].kind # "owner" => Charge'[i] = {}
  BY DEF Charge, Owned
<1>3. /\ DOMAIN Charge = Slots /\ Charge' = [j \in Slots |-> Charge'[j]]
      /\ Charge = [j \in Slots |-> Charge[j]]
  BY DEF Charge
<1>4. Charge' = [Charge EXCEPT ![i] = Charge'[i]]
  BY <1>1, <1>3
<1>5. /\ slot'[i] = Absent => OccupiedSlots' = OccupiedSlots \ {i}
      /\ slot'[i] # Absent => OccupiedSlots' = OccupiedSlots \cup {i}
  BY DEF OccupiedSlots
<1> QED
  BY <1>2, <1>4, <1>5, PhasesKept

\* A slot is freed whose run is not active.
LEMMA PoolReleases ==
  ASSUME CapacityInv, NEW i \in Slots, Owned(i), PhaseOf(slot[i].run) # "active",
         slot' = [slot EXCEPT ![i] = Absent], UNCHANGED <<runner, status>>
  PROVE  PoolStep
<1>1. slot[i].run \in Runs
  BY DEF CapacityInv, TypeOK, Owned, Owners, Absent, Corrupt
<1>2. Charge' = [Charge EXCEPT ![i] = {}] /\ UNCHANGED Phase /\ OccupiedSlots' = OccupiedSlots \ {i}
  <2>1. slot'[i] = Absent /\ \A j \in Slots \ {i} : slot'[j] = slot[j]
    BY DEF CapacityInv, TypeOK
  <2> QED
    BY <2>1, Recharged DEF Absent
<1>3. Charge[i] = {slot[i].run} /\ Phase[slot[i].run] # "active"
  BY <1>1 DEF Charge, Phase
<1> QED
  BY <1>1, <1>2, <1>3 DEF PoolStep, Pool!Next, Pool!Release

\* One run's phase changes as it may, and the slots stay.
LEMMA PoolRuns ==
  ASSUME CapacityInv, NEW r \in Runs, UNCHANGED slot,
         \A x \in Runs \ {r} : runner'[x] = runner[x] /\ status'[x] = status[x],
         \/ PhaseOf(r)' \in {PhaseOf(r), "ended"}
         \/ PhaseOf(r) = "new" /\ PhaseOf(r)' = "active" /\ Holds(r) /\ handle[r].at \in Slots
  PROVE  PoolStep
<1>1. UNCHANGED <<OccupiedSlots, Charge>>
  BY SlotsKept
<1>2. \A x \in Runs \ {r} : PhaseOf(x)' = PhaseOf(x)
  BY DEF PhaseOf
<1>3. Phase' = [Phase EXCEPT ![r] = PhaseOf(r)']
  BY <1>2 DEF Phase
<1>4. Phase[r] = PhaseOf(r)
  BY DEF Phase
<1>5. CASE PhaseOf(r)' = PhaseOf(r)
  <2>1. Phase' = Phase
    BY <1>2, <1>5 DEF Phase
  <2> QED
    BY <1>1, <2>1 DEF PoolStep, Pool!pool
<1>6. CASE PhaseOf(r)' = "ended"
  BY <1>1, <1>3, <1>6 DEF PoolStep, Pool!Next, Pool!End
<1>7. CASE PhaseOf(r) = "new" /\ PhaseOf(r)' = "active" /\ Holds(r) /\ handle[r].at \in Slots
  <2>1. ~Pool!Uncharged(r)
    BY <1>7 DEF Pool!Uncharged, Charge, Holds
  <2> QED
    BY <1>1, <1>3, <1>4, <1>7, <2>1 DEF PoolStep, Pool!Next, Pool!Begin
<1> QED
  BY <1>5, <1>6, <1>7

\* A step that touches neither slots nor runs is none of the pool.
LEMMA PoolKept ==
  ASSUME UNCHANGED <<slot, runner, status>> PROVE PoolStep
  BY SlotsKept, PhasesKept DEF PoolStep, Pool!pool

\* A reservation: the directory is made, and then given to a run that is new.
LEMMA PoolReserves ==
  ASSUME CapacityInv, NEW p \in Procs, Place(p) \/ WriteOwner(p)
  PROVE  PoolStep
<1>a. loc[p].at \in Slots
  BY DEF CapacityInv, TypeOK, Locals
<1>1. CASE Place(p)
  <2>1. CASE slot[loc[p].at] = Absent /\ slot' = [slot EXCEPT ![loc[p].at] = Corrupt]
    <3>1. /\ Charge' = [Charge EXCEPT ![loc[p].at] = {}] /\ UNCHANGED Phase
          /\ OccupiedSlots' = OccupiedSlots \cup {loc[p].at}
      <4>1. slot'[loc[p].at] = Corrupt /\ \A j \in Slots \ {loc[p].at} : slot'[j] = slot[j]
        BY <1>a, <2>1 DEF CapacityInv, TypeOK
      <4> QED
        BY <1>1, <1>a, <4>1, Recharged DEF Place, Corrupt, Absent
    <3>2. Charge[loc[p].at] = {}
      BY <1>a, <2>1 DEF Charge, Owned, Absent
    <3>3. UNCHANGED Charge
      BY <3>1, <3>2 DEF Charge
    <3>4. loc[p].at \notin OccupiedSlots
      BY <2>1 DEF OccupiedSlots
    <3> QED
      BY <1>a, <3>1, <3>3, <3>4 DEF PoolStep, Pool!Next, Pool!Take
  <2>2. CASE UNCHANGED slot
    BY <1>1, <2>2, PoolKept DEF Place
  <2> QED
    BY <1>1, <2>1, <2>2 DEF Place
<1>2. CASE WriteOwner(p)
  <2> DEFINE i == loc[p].at  r == loc[p].job
             o == [kind |-> "owner", token |-> r, run |-> r, gen |-> 0, bound |-> FALSE]
  <2>1. CASE slot' = [slot EXCEPT ![i] = o]
    <3>1. r \in Runs /\ handle[r] = NoOwner /\ slot[i] = Corrupt
      BY <1>2 DEF WriteOwner, CapacityInv, ProcOK, EarlyOK, Early
    <3>2. Pool!Uncharged(r)
      BY <3>1, UnchargedRun DEF NoOwner
    <3>3. Phase[r] = "new"
      BY <3>1 DEF Phase, PhaseOf, CapacityInv, RunFiles
    <3>4. Charge' = [Charge EXCEPT ![i] = {r}] /\ UNCHANGED Phase
          /\ OccupiedSlots' = OccupiedSlots \cup {i}
      <4>1. slot'[i] = o /\ \A j \in Slots \ {i} : slot'[j] = slot[j]
        BY <1>a, <2>1 DEF CapacityInv, TypeOK
      <4>2. o.kind = "owner" /\ o.run = r /\ o # Absent
        BY DEF Absent
      <4> HIDE DEF o
      <4> QED
        BY <1>2, <1>a, <4>1, <4>2, Recharged DEF WriteOwner
    <3>5. i \in OccupiedSlots /\ Charge[i] = {}
      BY <1>a, <3>1 DEF OccupiedSlots, Charge, Owned, Corrupt, Absent
    <3>6. UNCHANGED OccupiedSlots
      BY <3>4, <3>5
    <3> HIDE DEF o, i, r
    <3>7. i \in Slots
      BY <1>a DEF i
    <3> QED
      BY <3>1, <3>2, <3>3, <3>4, <3>5, <3>6, <3>7 DEF PoolStep, Pool!Next, Pool!Charge
  <2>2. CASE UNCHANGED slot
    BY <1>2, <2>2, PoolKept DEF WriteOwner
  <2> QED
    BY <1>2, <2>1, <2>2 DEF WriteOwner
<1> QED
  BY <1>1, <1>2

\* A resume passes on the slot of a run that has ended to a new one.
LEMMA PoolPassesOn ==
  ASSUME CapacityInv, NEW p \in Procs, Transfer(p)
  PROVE  PoolStep
<1> DEFINE i == loc[p].at  r == loc[p].job
           next == [slot[i] EXCEPT !.run = r, !.gen = @ + 1, !.bound = FALSE]
<1>1. CASE UNCHANGED slot
  BY <1>1, PoolKept DEF Transfer
<1>2. CASE /\ Matches(i, loc[p].want)
           /\ status[loc[p].want.run] \in {"paused", "failed", "complete", "not-started"}
           /\ slot' = [slot EXCEPT ![i] = next]
  <2>1. i \in Slots /\ r \in Runs /\ handle[r] = NoOwner
    BY DEF CapacityInv, TypeOK, Locals, Transfer, ProcOK, EarlyOK, Early, Guarding, Granted
  <2>2. PICK o \in Owners : o = slot[i]
    BY <1>2, <2>1 DEF CapacityInv, TypeOK, Matches, Owned, Absent, Corrupt
  <2>3. PICK q \in Runs : q = o.run
    BY DEF Owners
  <2>4. next.kind = "owner" /\ next.run = r /\ next # Absent
    BY <2>2 DEF Owners, Absent
  <2>5. Charge[i] = {q} /\ i \in OccupiedSlots
    BY <1>2, <2>1, <2>2, <2>3 DEF Charge, Matches, OccupiedSlots, Owned, Absent
  <2>6. Phase[q] = "ended"
    BY <1>2, <2>2, <2>3 DEF Phase, PhaseOf, Matches
  <2>7. Pool!Uncharged(r) /\ Phase[r] = "new"
    BY <2>1, UnchargedRun DEF NoOwner, Phase, PhaseOf, CapacityInv, RunFiles
  <2> HIDE DEF next, i, r
  <2>8. UNCHANGED <<runner, status>>
    BY DEF Transfer
  <2>9. Charge' = [Charge EXCEPT ![i] = {r}] /\ UNCHANGED <<Phase, OccupiedSlots>>
    <3>1. slot'[i] = next /\ \A j \in Slots \ {i} : slot'[j] = slot[j]
      BY <1>2, <2>1 DEF CapacityInv, TypeOK
    <3>2. slot'[i].kind = "owner" /\ slot'[i].run = r /\ slot'[i] # Absent
      BY <2>4, <3>1
    <3>3. /\ Charge' = [Charge EXCEPT ![i] = {r}] /\ UNCHANGED Phase
          /\ OccupiedSlots' = OccupiedSlots \cup {i}
      BY <2>1, <2>8, <3>1, <3>2, Recharged
    <3> QED
      BY <2>5, <3>3
  <2> QED
    BY <2>1, <2>5, <2>6, <2>7, <2>9 DEF PoolStep, Pool!Next, Pool!PassOn
<1> QED
  BY <1>1, <1>2 DEF Transfer

\* A rollback frees the slot, or gives it back to the run the revival had it from.
LEMMA PoolTakesBack ==
  ASSUME CapacityInv, NEW p \in Procs, UndoBeforeProceed(p) \/ Rollback(p)
  PROVE  PoolStep
<1> DEFINE i == loc[p].at  r == loc[p].job
<1>a. /\ i \in Slots /\ r \in Runs /\ handle[r].kind = "handle" /\ handle[r].at = i
      /\ runner[r] # "executing" /\ handle[r].owner.run = r
  <2>1. Guarding(p, "undo") \/ Guarding(p, "rollback")
    BY DEF UndoBeforeProceed, Rollback, Guarding
  <2>2. ~Ended(p)
    BY DEF Ended, UndoBeforeProceed, Rollback
  <2>3. i \in Slots /\ LaunchOK(p)
    BY DEF CapacityInv, TypeOK, Locals, ProcOK
  <2> QED
    BY <2>1, <2>2, <2>3 DEF LaunchOK, Ending
<1>b. UNCHANGED <<runner, status>>
  BY DEF UndoBeforeProceed, Rollback
<1>c. PhaseOf(r) # "active" /\ Phase[r] # "active"
  BY <1>a DEF PhaseOf, Phase
<1>1. CASE UNCHANGED slot
  BY <1>1, <1>b, PoolKept
<1>2. CASE Matches(i, handle[r].owner) /\ GiveSlotBack(p, i, r)
  <2>1. Owned(i) /\ slot[i].run = r
    BY <1>2, <1>a DEF Matches
  <2>2. CASE handle[r].undo = NoOwner
    BY <1>2, <1>a, <1>b, <1>c, <2>1, <2>2, PoolReleases DEF GiveSlotBack, RenameAway
  <2>3. CASE handle[r].undo # NoOwner
    <3>1. PICK u \in Owners : u = handle[r].undo
      BY <1>a, <2>3 DEF CapacityInv, TypeOK, NoOwner
    <3>2. PICK q \in Runs : q = u.run
      BY DEF Owners
    <3>3. status[q] \notin {"none", "running"} /\ ~Holds(q)
      BY <1>a, <2>3, <3>1, <3>2 DEF CapacityInv, TransfersUndoable, Undoable
    <3>4. Phase[q] = "ended" /\ Pool!Uncharged(q)
      BY <3>3, UnchargedRun DEF Phase, PhaseOf
    <3>5. u.kind = "owner" /\ u # Absent
      BY DEF Owners, Absent
    <3>6. slot' = [slot EXCEPT ![i] = u]
      BY <1>2, <2>3, <3>1 DEF GiveSlotBack
    <3>7. Charge[i] = {r} /\ i \in OccupiedSlots
      BY <1>a, <2>1 DEF Charge, OccupiedSlots, Owned, Absent
    <3> HIDE DEF i, r
    <3>8. Charge' = [Charge EXCEPT ![i] = {q}] /\ UNCHANGED <<Phase, OccupiedSlots>>
      <4>1. slot'[i] = u /\ \A j \in Slots \ {i} : slot'[j] = slot[j]
        BY <1>a, <3>6 DEF CapacityInv, TypeOK
      <4>2. slot'[i].kind = "owner" /\ slot'[i].run = q /\ slot'[i] # Absent
        BY <3>2, <3>5, <4>1
      <4>3. /\ Charge' = [Charge EXCEPT ![i] = {q}] /\ UNCHANGED Phase
            /\ OccupiedSlots' = OccupiedSlots \cup {i}
        BY <1>a, <1>b, <4>1, <4>2, Recharged
      <4> QED
        BY <3>7, <4>3
    <3> QED
      BY <1>a, <1>c, <3>4, <3>7, <3>8 DEF PoolStep, Pool!Next, Pool!GiveBack
  <2> QED
    BY <2>2, <2>3
<1> QED
  BY <1>1, <1>2 DEF UndoBeforeProceed, Rollback

\* A reconciliation frees the slot of a run whose runner will not execute again, and a
\* runner that is recorded in its slot changes nothing of the pool.
LEMMA PoolReconciles ==
  ASSUME CapacityInv, NEW p \in Procs, RemoveOwnedSlot(p) \/ MarkStarted(p)
  PROVE  PoolStep
<1>a. loc[p].at \in Slots /\ UNCHANGED <<runner, status>>
  BY DEF CapacityInv, TypeOK, Locals, RemoveOwnedSlot, MarkStarted
<1>1. CASE UNCHANGED slot
  BY <1>1, <1>a, PoolKept
<1>2. CASE RemoveOwnedSlot(p) /\ Matches(loc[p].at, loc[p].want) /\ RenameAway(loc[p].at)
  <2>1. Over(slot[loc[p].at].run) /\ Owned(loc[p].at)
    BY <1>2 DEF CapacityInv, ProcOK, VerdictOK, RemoveOwnedSlot, Matches
  <2>2. PhaseOf(slot[loc[p].at].run) # "active"
    BY <2>1 DEF Over, PhaseOf
  <2> QED
    BY <1>2, <1>a, <2>1, <2>2, PoolReleases DEF RenameAway
<1>3. CASE /\ MarkStarted(p) /\ Matches(loc[p].at, handle[loc[p].job].owner)
           /\ slot' = [slot EXCEPT ![loc[p].at].bound = TRUE]
  <2>1. PICK o \in Owners : o = slot[loc[p].at]
    BY <1>3, <1>a DEF CapacityInv, TypeOK, Matches, Owned, Absent, Corrupt
  <2> DEFINE next == [o EXCEPT !.bound = TRUE]
  <2>2. next.kind = "owner" /\ next.run = o.run /\ next # Absent
    BY DEF Owners, Absent
  <2>3. slot' = [slot EXCEPT ![loc[p].at] = next]
    BY <1>3, <1>a, <2>1 DEF CapacityInv, TypeOK
  <2>4. Charge[loc[p].at] = {o.run} /\ loc[p].at \in OccupiedSlots
    BY <1>a, <2>1 DEF Charge, OccupiedSlots, Owned, Owners, Absent
  <2> HIDE DEF next
  <2>5. /\ Charge' = [Charge EXCEPT ![loc[p].at] = {o.run}] /\ UNCHANGED <<Phase, OccupiedSlots>>
    <3>1. slot'[loc[p].at] = next /\ \A j \in Slots \ {loc[p].at} : slot'[j] = slot[j]
      BY <1>a, <2>3 DEF CapacityInv, TypeOK
    <3> DEFINE i == loc[p].at
    <3>2. slot'[i].kind = "owner" /\ slot'[i].run = o.run /\ slot'[i] # Absent
      BY <2>2, <3>1
    <3>3. /\ Charge' = [Charge EXCEPT ![i] = {o.run}] /\ UNCHANGED Phase
          /\ OccupiedSlots' = OccupiedSlots \cup {i}
      BY <1>a, <3>1, <3>2, Recharged
    <3> QED
      BY <2>4, <3>3
  <2>6. UNCHANGED Charge
    BY <2>4, <2>5 DEF Charge
  <2> QED
    BY <2>5, <2>6 DEF PoolStep, Pool!pool
<1> QED
  BY <1>1, <1>2, <1>3 DEF RemoveOwnedSlot, MarkStarted

\* A launch: the runner that is spawned is new until it is authorized, which it is with its
\* slot charged to it, and one that is given up has ended.
LEMMA PoolLaunches ==
  ASSUME CapacityInv, NEW p \in Procs, Spawn(p) \/ Authorize(p) \/ Abort(p)
  PROVE  PoolStep
<1>a. PICK r \in Runs : r = loc[p].job
  BY DEF CapacityInv, ProcOK, LaunchOK, Granted, Started, Spawn, Authorize, Abort
<1>b. /\ UNCHANGED slot /\ handle[r].at \in Slots
      /\ runner \in [Runs -> RunnerStates] /\ status \in [Runs -> Statuses]
      /\ runner[r] # "executing"
  BY <1>a, SMTT(30) DEF CapacityInv, TypeOK, RunnerStates, Statuses, ProcOK, LaunchOK, NoOwner, Granted,
     Started, Spawn, Authorize, Abort
<1>1. CASE Spawn(p)
  <2>1. runner[r] = "none" /\ status[r] = "none"
    BY <1>a, <1>1 DEF Spawn, CapacityInv, ProcOK, LaunchOK, Granted
  <2>2. /\ \A x \in Runs \ {r} : runner'[x] = runner[x] /\ status'[x] = status[x]
        /\ runner'[r] = "waiting" /\ status'[r] = "running"
    BY <1>a, <1>b, <1>1 DEF Spawn
  <2>3. PhaseOf(r)' = PhaseOf(r)
    BY <2>1, <2>2 DEF PhaseOf
  <2> QED
    BY <1>b, <2>2, <2>3, PoolRuns, SMTT(30)
<1>2. CASE Authorize(p)
  <2>1. /\ \A x \in Runs \ {r} : runner'[x] = runner[x] /\ status'[x] = status[x]
        /\ status'[r] = status[r]
        /\ runner'[r] = runner[r] \/ (runner[r] = "waiting" /\ runner'[r] = "executing")
    BY <1>a, <1>b, <1>2 DEF Authorize
  <2>2. runner[r] = "waiting" => status[r] = "running" /\ Holds(r)
    BY <1>a, <1>2 DEF Authorize, CapacityInv, ProcOK, LaunchOK, Started
  <2>3. \/ PhaseOf(r)' = PhaseOf(r)
        \/ PhaseOf(r) = "new" /\ PhaseOf(r)' = "active" /\ Holds(r)
    BY <2>1, <2>2 DEF PhaseOf
  <2> QED
    BY <1>b, <2>1, <2>3, PoolRuns
<1>3. CASE Abort(p)
  <2>1. /\ \A x \in Runs \ {r} : runner'[x] = runner[x] /\ status'[x] = status[x]
        /\ status'[r] \in {"not-started", "failed"}
    BY <1>a, <1>b, <1>3 DEF Abort
  <2>2. PhaseOf(r)' = "ended"
    BY <2>1 DEF PhaseOf
  <2> QED
    BY <1>b, <2>1, <2>2, PoolRuns
<1> QED
  BY <1>1, <1>2, <1>3

\* A run that is active ends, and what has ended does not begin again.
LEMMA PoolEnds ==
  ASSUME CapacityInv, NEW r \in Runs,
         RunnerFinish(r) \/ RunnerExit(r) \/ CloseObserved(r) \/ RepairStatus(r)
  PROVE  PoolStep
<1>1. /\ UNCHANGED slot
      /\ \A x \in Runs \ {r} : runner'[x] = runner[x] /\ status'[x] = status[x]
      /\ \/ runner'[r] = "dead"
         \/ status'[r] \in {"complete", "failed", "paused"}
  BY DEF CapacityInv, TypeOK, RunnerFinish, RunnerExit, CloseObserved, RepairStatus
<1>2. PhaseOf(r)' = "ended"
  BY <1>1 DEF PhaseOf
<1> QED
  BY <1>1, <1>2, PoolRuns

\* A session is opened or a process killed, it looks for slots to release, claims one, or
\* is refused: nothing of the pool.
LEMMA PoolLooks ==
  ASSUME NEW p \in Procs,
         \/ OpenSession(p) \/ Crash(p) \/ Scan(p) \/ Judge(p) \/ Claim(p) \/ Unclaim(p)
         \/ Admit(p) \/ LaunchFails(p) \/ GiveBack(p)
         \/ \E r \in Runs \cup {NoRun} : StartReconcile(p, r)
         \/ \E r, src \in Runs : StartResume(p, src, r)
  PROVE  PoolStep
<1>1. UNCHANGED <<slot, runner, status>>
  BY DEF OpenSession, Crash, Scan, Judge, Claim, Unclaim, Admit, LaunchFails, GiveBack,
     StartReconcile, StartResume
<1> QED
  BY <1>1, PoolKept, SMTT(30)

\* The slot directories implement the counted pool, for any number of processes, runs and
\* slots, whatever is resumed, rolled back or killed in between.
THEOREM ImplementsPool == Spec => KeepsPool
<1>1. Init => Pool!Init
  BY DEF Init, Pool!Init, OccupiedSlots, Charge, Phase, PhaseOf, Owned, Absent
<1>2. CapacityInv /\ [Next]_vars => [Pool!Next]_(Pool!pool)
  <2>1. ASSUME CapacityInv, NEW p \in Procs, Acts(p) PROVE PoolStep
    BY <2>1, PoolReserves, PoolPassesOn, PoolTakesBack, PoolReconciles, PoolLaunches, PoolLooks
       DEF Acts, Progress
  <2>2. ASSUME CapacityInv, Next PROVE PoolStep
    BY <2>1, <2>2, PoolEnds DEF Next, Acts
  <2>3. ASSUME UNCHANGED vars PROVE PoolStep
    BY <2>3, PoolKept DEF vars
  <2> QED
    BY <2>2, <2>3 DEF PoolStep
<1> QED
  BY <1>1, <1>2, CapacityInductive, PTL DEF Spec, KeepsPool, Pool!Spec, Pool!pool
=============================================================================
