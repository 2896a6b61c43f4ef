---------------------------- MODULE ScheduledRuns ----------------------------
(***************************************************************************)
(* One schedule of a project (src/src/runs/background/scheduled-runs.ts):  *)
(* its record, launch claim (active.lock) and bounded history are files    *)
(* that every Pi process bound to the project reads, writes and fires      *)
(* from its own timer.                                                     *)
(*                                                                         *)
(* A handler reads the record once and then works on its copy: what it has *)
(* left to do, one operation on the files each, is a list, and operations  *)
(* of other processes may come between any two of them.  The launch itself *)
(* is awaited, with no list.  Time is counted in intervals and stands      *)
(* still while a handler has operations left.                              *)
(***************************************************************************)
EXTENDS Integers, Sequences

CONSTANTS
  Managers,     \* Pi processes
  MaxHistory,   \* records kept in history.json (100 in the source)
  MaxTime,      \* bound on the time
  MaxLaunches,  \* bound on claimed launches
  MaxCommands,  \* bound on schedule commands given
  MaxFireErrors,    \* bound on fires that fail on a file
  MaxProcessDeaths  \* bound on processes that die

ASSUME ScheduleAssumption ==
  /\ MaxHistory \in Nat \ {0} /\ MaxTime \in Nat
  /\ MaxLaunches \in Nat /\ MaxCommands \in Nat
  /\ MaxFireErrors \in Nat /\ MaxProcessDeaths \in Nat

VARIABLES
  time,
  trigger,    \* [kind, catchUp]: "once" or "interval", "latest" or "none"
  owns,       \* the processes whose session the schedule belongs to
  store,      \* the schedule's directory
  work,       \* the async run of each launch: "none", "executing" or "ended"
  reported,   \* the runs whose completion has been handed to a process
  bound,      \* processes that have the project open
  timer,      \* the time each process's timer is armed for, or NoTime
  todo,       \* what each process's handler has left to do
  launching,  \* the launches that are awaited
  launches, commands, errors, deaths,
  unguarded,  \* history: the lock of a run that goes on was removed
  mishap,     \* history: a run was given up, or its record dropped, out of turn
  together,   \* history: handlers of two processes ran at once
  stopped     \* history: the schedule was to be paused or deleted

scheduleVars == <<time, trigger, owns, store, work, reported, bound, timer, todo, launching,
                  launches, commands, errors, deaths, unguarded, mishap, together, stopped>>

NoTime == -1
Every == 1
RunIds == 1..MaxLaunches

\* The directory: schedule.json (next, active, paused), active.lock with the run that
\* claimed, the receipts of the launched runs and history.json, newest first, where 0 is a
\* record that started nothing.
Created == [exists |-> TRUE, next |-> Every, active |-> 0, paused |-> FALSE, lock |-> 0,
            history |-> <<>>, receipt |-> [r \in RunIds |-> "none"]]
Deleted == [Created EXCEPT !.exists = FALSE, !.next = NoTime]

\* The record as a process reads it, and written back.
AsRead(d) == [next |-> d.next, active |-> d.active, paused |-> d.paused]
Written(d, c) == [d EXCEPT !.exists = TRUE, !.next = c.next, !.active = c.active, !.paused = c.paused]

\* The records but that of run r, which has one at most.
Others(h, r) ==
  IF \E i \in 1..Len(h) : h[i] = r /\ r # 0
  THEN LET at == CHOOSE i \in 1..Len(h) : h[i] = r IN
         SubSeq(h, 1, at - 1) \o SubSeq(h, at + 1, Len(h))
  ELSE h

\* writeRun: the record goes to the front, and the oldest one may fall off the end.
Recorded(d, r) ==
  LET runs == <<r>> \o Others(d.history, r)
      kept == IF Len(runs) < MaxHistory THEN Len(runs) ELSE MaxHistory IN
    [d EXCEPT !.history = SubSeq(runs, 1, kept)]

\* The history says that run r is running.
OnRecord(d, r) ==
  r \in {d.history[i] : i \in DOMAIN d.history} \ {0} /\ d.receipt[r] \in {"claimed", "attached"}

NextAfter(planned) ==
  IF trigger.kind = "once" THEN NoTime ELSE planned + Every * ((time - planned) \div Every + 1)

Due(d) == d.next # NoTime /\ d.next <= time

DuePlannedAt(d) ==
  IF Due(d) /\ trigger = [kind |-> "interval", catchUp |-> "latest"]
  THEN d.next + ((time - d.next) \div Every) * Every
  ELSE d.next

\* The copy with the occurrence that is due passed over.
Advanced(c) == [c EXCEPT !.next = NextAfter(DuePlannedAt(c))]

-----------------------------------------------------------------------------
\* What a handler has left to do: why it runs, its copy of the record, the operations, how
\* the timer is armed at the end ("later": not before the next interval) and the run.
Handling(why, c, ops, arm, r) == [why |-> why, rec |-> c, ops |-> ops, arm |-> arm, run |-> r]
AtRest == Handling("none", [next |-> NoTime, active |-> 0, paused |-> FALSE], <<>>, "no", 0)

\* A process runs one handler at a time, whose first operation is op.
Ready(p) == p \in bound /\ todo[p] = AtRest
Does(p, op) == todo[p].ops # <<>> /\ Head(todo[p].ops) = op
Rest(t) == [t EXCEPT !.ops = Tail(@)]
Starts(p, t) == todo' = [todo EXCEPT ![p] = t]

\* Mutant of Arm: no timer for an occurrence that is already due.
ArmFuture(p, t) ==
  timer' = [timer EXCEPT ![p] = IF t.arm = "no" THEN @
                                ELSE IF t.rec.paused \/ t.rec.next <= time THEN NoTime ELSE t.rec.next]

\* arm: the timer is for the next occurrence, if there is one.
Arm(p, t) ==
  timer' = [timer EXCEPT ![p] =
    IF t.arm = "no" THEN @
    ELSE IF t.rec.paused THEN NoTime
    ELSE IF t.arm = "later" /\ Due(t.rec) THEN NextAfter(DuePlannedAt(t.rec))
    ELSE t.rec.next]

\* A handler with nothing left ends by arming the timer.
GoesOn(p, t) ==
  IF t.ops = <<>> THEN Starts(p, AtRest) /\ Arm(p, t) ELSE Starts(p, t) /\ UNCHANGED timer

\* Against a claim, the launch is skipped.  (A manual one writes no record.)
Skipping(t) ==
  IF t.why = "manual"
  THEN [t EXCEPT !.ops = <<"skipped">>]
  ELSE [t EXCEPT !.rec = Advanced(t.rec), !.ops = <<"write", "skipped">>]

\* launch, up to the claim.
Attempt(why, d) ==
  LET t == Handling(why, AsRead(d), <<"claim">>, "next", 0) IN IF d.active # 0 THEN Skipping(t) ELSE t

\* finishRun: an occurrence that passed meanwhile is skipped; the claim is given up.
Finishing(t, r) ==
  LET c == [(IF Due(t.rec) THEN Advanced(t.rec) ELSE t.rec) EXCEPT !.active = 0]
      given == <<"write", "unlock", "over">> IN
    [t EXCEPT !.rec = c, !.run = r, !.arm = IF @ = "no" THEN "next" ELSE @,
              !.ops = IF Due(t.rec) THEN <<"skipped">> \o given ELSE given]

\* The claim as restoreOne gives it up: by the history the run has no running record, or
\* was claimed five minutes ago and not attached.
GivingUp(t, ops) == [t EXCEPT !.rec.active = 0, !.run = t.rec.active, !.ops = ops]

\* restoreOne after the claim: an occurrence that is not to be caught up is recorded as
\* missed; a schedule that is paused or over is not armed.
Restoring(t) ==
  IF t.arm = "no" \/ t.rec.paused \/ t.rec.next = NoTime THEN [t EXCEPT !.arm = "no"]
  ELSE IF t.rec.active = 0 /\ t.rec.next < time /\ trigger.catchUp = "none"
       THEN [t EXCEPT !.ops = @ \o <<"miss", "skipped">>]
       ELSE t

\* Mutant of Judged: a run that is attached is taken for ended.
JudgedEnded(t) ==
  LET r == t.rec.active IN
  CASE r = 0 -> {Restoring(Rest(t))}
    [] r # 0 /\ ~OnRecord(store, r) -> {Restoring(GivingUp(t, <<"write", "unlock">>))}
    [] r # 0 /\ OnRecord(store, r) /\ store.receipt[r] = "attached" -> {Finishing(t, r)}
    [] OTHER -> {Restoring(Rest(t)), Restoring(GivingUp(t, <<"over", "write", "unlock">>))}

\* restoreOne's look at the claim, by history.json and the run's status.json.
Judged(t) ==
  LET r == t.rec.active IN
  CASE r = 0 -> {Restoring(Rest(t))}
    [] r # 0 /\ ~OnRecord(store, r) -> {Restoring(GivingUp(t, <<"write", "unlock">>))}
    [] r # 0 /\ OnRecord(store, r) /\ store.receipt[r] = "attached" ->
         {IF work[r] = "ended" THEN Finishing(t, r) ELSE Restoring(Rest(t))}
    [] OTHER -> {Restoring(Rest(t)), Restoring(GivingUp(t, <<"over", "write", "unlock">>))}

-----------------------------------------------------------------------------
\* It is given a schedule command.
Commanded(p) ==
  /\ Ready(p) /\ store.exists
  /\ commands < MaxCommands /\ commands' = commands + 1

\* bindSession: the project is opened, and the schedule restored.
BindSession(p) ==
  /\ p \notin bound
  /\ bound' = bound \cup {p}
  /\ IF store.exists /\ p \in owns
     THEN Starts(p, Handling("other", AsRead(store), <<"judge">>, "next", 0))
     ELSE UNCHANGED todo
  /\ UNCHANGED <<time, trigger, owns, store, work, reported, timer, launching, launches,
                 commands, errors, deaths>>

\* fire: a timer that is early is armed again.
Fire(p) ==
  /\ Ready(p) /\ timer[p] # NoTime /\ timer[p] <= time
  /\ LET planned == DuePlannedAt(store)
         off == ~store.exists \/ p \notin owns \/ planned = NoTime \/ store.paused IN
       \/ off /\ timer' = [timer EXCEPT ![p] = NoTime] /\ UNCHANGED todo
       \/ ~off /\ planned > time /\ timer' = [timer EXCEPT ![p] = store.next] /\ UNCHANGED todo
       \/ /\ ~off /\ planned <= time
          /\ timer' = [timer EXCEPT ![p] = NoTime]
          /\ Starts(p, Attempt("timer", store))
  /\ UNCHANGED <<time, trigger, owns, store, work, reported, bound, launching, launches,
                 commands, errors, deaths>>

RunManual(p) ==
  /\ Commanded(p) /\ p \in owns
  /\ Starts(p, Attempt("manual", store))
  /\ UNCHANGED <<time, trigger, owns, store, work, reported, bound, timer, launching, launches,
                 errors, deaths>>

RunDue(p) ==
  /\ Commanded(p) /\ p \in owns /\ ~store.paused /\ Due(store)
  /\ IF store.active = 0 /\ trigger.catchUp = "none" /\ DuePlannedAt(store) < time
     THEN Starts(p, Handling("due", AsRead(store), <<"miss", "skipped">>, "no", 0))
     ELSE Starts(p, Attempt("due", store))
  /\ UNCHANGED <<time, trigger, owns, store, work, reported, bound, timer, launching, launches,
                 errors, deaths>>

\* handleAsyncCompletion: the completion is handed to one process, which reads the record.
CompleteScheduled(p, r) ==
  /\ Ready(p) /\ work[r] = "ended" /\ r \notin reported
  /\ reported' = reported \cup {r}
  /\ IF store.exists
     THEN Starts(p, Handling("other", AsRead(store), <<"complete">>, "no", r))
     ELSE UNCHANGED todo
  /\ UNCHANGED <<time, trigger, owns, store, work, bound, timer, launching, launches, commands,
                 errors, deaths>>

Pause(p) ==
  /\ Commanded(p) /\ ~store.paused
  /\ Starts(p, Handling("stop", [AsRead(store) EXCEPT !.paused = TRUE], <<"write">>, "next", 0))
  /\ UNCHANGED <<time, trigger, owns, store, work, reported, bound, timer, launching, launches,
                 errors, deaths>>

ResumeSchedule(p) ==
  /\ Commanded(p) /\ store.paused
  /\ LET c == [AsRead(store) EXCEPT !.paused = FALSE] IN
       Starts(p, IF p \in owns THEN Handling("other", c, <<"write", "judge">>, "next", 0)
                               ELSE Handling("other", c, <<"write">>, "no", 0))
  /\ UNCHANGED <<time, trigger, owns, store, work, reported, bound, timer, launching, launches,
                 errors, deaths>>

\* A schedule with an active run is deleted only once its record shows that it ended.
Delete(p) ==
  /\ Commanded(p)
  /\ LET r == store.active IN
       r = 0 \/ (OnRecord(store, r) /\ store.receipt[r] = "attached" /\ work[r] = "ended")
  /\ Starts(p, Handling("stop", AsRead(store), <<"delete">>, "no", 0))
  /\ timer' = [timer EXCEPT ![p] = NoTime]
  /\ UNCHANGED <<time, trigger, owns, store, work, reported, bound, launching, launches, errors,
                 deaths>>

-----------------------------------------------------------------------------
\* The operations.  Writing the record brings back a deleted directory.
WriteRecord(p) ==
  /\ Does(p, "write")
  /\ store' = Written(store, todo[p].rec)
  /\ GoesOn(p, Rest(todo[p]))
  /\ UNCHANGED <<time, trigger, owns, work, reported, bound, launching, launches, commands,
                 errors, deaths>>

RemoveLock(p) ==
  /\ Does(p, "unlock")
  /\ store' = [store EXCEPT !.lock = 0]
  /\ GoesOn(p, Rest(todo[p]))
  /\ UNCHANGED <<time, trigger, owns, work, reported, bound, launching, launches, commands,
                 errors, deaths>>

\* writeRun, of an occurrence that is skipped or missed, and of a run that is over.
NoteSkipped(p) ==
  /\ Does(p, "skipped")
  /\ store' = Recorded(store, 0)
  /\ GoesOn(p, Rest(todo[p]))
  /\ UNCHANGED <<time, trigger, owns, work, reported, bound, launching, launches, commands,
                 errors, deaths>>

NoteOver(p) ==
  /\ Does(p, "over")
  /\ LET r == todo[p].run IN store' = Recorded([store EXCEPT !.receipt[r] = "over"], r)
  /\ GoesOn(p, Rest(todo[p]))
  /\ UNCHANGED <<time, trigger, owns, work, reported, bound, launching, launches, commands,
                 errors, deaths>>

\* recordMissed: the record, and then the history.
Miss(p) ==
  /\ Does(p, "miss")
  /\ LET c == Advanced(todo[p].rec) IN
       /\ store' = Written(store, c)
       /\ GoesOn(p, Rest([todo[p] EXCEPT !.rec = c]))
  /\ UNCHANGED <<time, trigger, owns, work, reported, bound, launching, launches, commands,
                 errors, deaths>>

\* Mutant of Taken: the record that was read is trusted.
TakenByRecord(p) == todo[p].rec.active # 0

\* active.lock is there.
Taken(p) == store.lock # 0

\* The claim: active.lock is made, if it is not there; the record and the history follow.
Claim(p) ==
  LET t == todo[p]
      c == IF t.why = "manual" THEN t.rec ELSE Advanced(t.rec) IN
  /\ Does(p, "claim")
  /\ \/ /\ Taken(p)
        /\ Starts(p, Skipping(t))
        /\ UNCHANGED <<store, launches>>
     \/ /\ ~Taken(p) /\ launches < MaxLaunches
        /\ launches' = launches + 1
        /\ store' = [store EXCEPT !.lock = launches']
        /\ Starts(p, Handling(t.why, [c EXCEPT !.active = launches'], <<"write", "claimed">>,
                             "next", launches'))
  /\ UNCHANGED <<time, trigger, owns, work, reported, bound, timer, launching, commands, errors,
                 deaths>>

\* With the run in the history it is launched, which is awaited.
NoteClaimed(p) ==
  /\ Does(p, "claimed")
  /\ LET t == todo[p] IN
       /\ store' = Recorded([store EXCEPT !.receipt[t.run] = "claimed"], t.run)
       /\ launching' = launching \cup {[run |-> t.run, by |-> p, why |-> t.why, rec |-> t.rec]}
  /\ Starts(p, AtRest)
  /\ UNCHANGED <<time, trigger, owns, work, reported, bound, timer, launches, commands, errors,
                 deaths>>

\* The run's process is started while the launch is awaited.
StartWork(l) ==
  /\ work[l.run] = "none"
  /\ work' = [work EXCEPT ![l.run] = "executing"]
  /\ UNCHANGED <<time, trigger, owns, store, reported, bound, timer, todo, launching, launches,
                 commands, errors, deaths>>

\* The launch returns with the run; runManual goes on.
LaunchReturns(l) ==
  /\ Ready(l.by) /\ work[l.run] # "none"
  /\ launching' = launching \ {l}
  /\ Starts(l.by, Handling(l.why, l.rec,
                          IF l.why = "manual" THEN <<"attached", "satisfy">> ELSE <<"attached">>,
                          "next", l.run))
  /\ UNCHANGED <<time, trigger, owns, store, work, reported, bound, timer, launches, commands,
                 errors, deaths>>

NoteAttached(p) ==
  /\ Does(p, "attached")
  /\ LET t == todo[p]
         rest == Rest(t) IN
       /\ store' = Recorded([store EXCEPT !.receipt[t.run] = "attached"], t.run)
       /\ Starts(p, IF rest.ops = <<>> THEN AtRest ELSE [rest EXCEPT !.arm = "no"])
       /\ Arm(p, t)
  /\ UNCHANGED <<time, trigger, owns, work, reported, bound, launching, launches, commands,
                 errors, deaths>>

\* A manual run stands for the next occurrence.
Satisfy(p) ==
  /\ Does(p, "satisfy")
  /\ LET next == IF trigger.kind = "once" THEN NoTime ELSE time + Every IN
       Starts(p, IF store.exists
                 THEN Handling("manual", [AsRead(store) EXCEPT !.next = next], <<"write">>, "next", 0)
                 ELSE AtRest)
  /\ UNCHANGED <<time, trigger, owns, store, work, reported, bound, timer, launching, launches,
                 commands, errors, deaths>>

\* The launch reports an error, before or after it started the run, or the record of the
\* attached run cannot be written: the claim is given up by a record read afresh, and a
\* manual run has not touched the schedule.
LaunchFails(l) ==
  /\ Ready(l.by)
  /\ launching' = launching \ {l}
  /\ IF store.exists
     THEN LET c == [AsRead(store) EXCEPT
                      !.active = 0,
                      !.next = IF l.why = "manual" /\ l.rec.next # NoTime THEN l.rec.next ELSE @] IN
            Starts(l.by, Handling(l.why, c, <<"write", "over", "unlock">>, "next", l.run))
     ELSE UNCHANGED todo
  /\ UNCHANGED <<time, trigger, owns, store, work, reported, bound, timer, launches, commands,
                 errors, deaths>>

\* The looks of restoreOne and handleAsyncCompletion.
Judge(p) ==
  /\ Does(p, "judge")
  /\ \E t \in Judged(todo[p]) : GoesOn(p, t)
  /\ UNCHANGED <<time, trigger, owns, store, work, reported, bound, launching, launches,
                 commands, errors, deaths>>

CompleteRun(p) ==
  /\ Does(p, "complete")
  /\ LET r == todo[p].run IN
       GoesOn(p, IF OnRecord(store, r) /\ store.receipt[r] = "attached"
                 THEN Finishing(todo[p], r) ELSE Rest(todo[p]))
  /\ UNCHANGED <<time, trigger, owns, store, work, reported, bound, launching, launches,
                 commands, errors, deaths>>

DeleteFiles(p) ==
  /\ Does(p, "delete")
  /\ store' = Deleted
  /\ GoesOn(p, Rest(todo[p]))
  /\ UNCHANGED <<time, trigger, owns, work, reported, bound, launching, launches, commands,
                 errors, deaths>>

\* An operation of a fire fails: restoreAfterFireError restores an interval schedule, but
\* not before its next interval.
FireFails(p) ==
  /\ todo[p].why = "timer" /\ ~Does(p, "attached")
  /\ errors < MaxFireErrors /\ errors' = errors + 1
  /\ Starts(p, IF store.exists /\ p \in owns
               THEN Handling("restore", AsRead(store), <<"judge">>,
                            IF trigger.kind = "interval" THEN "later" ELSE "no", 0)
               ELSE AtRest)
  /\ UNCHANGED <<time, trigger, owns, store, work, reported, bound, timer, launching, launches,
                 commands, deaths>>

-----------------------------------------------------------------------------
\* The process is gone, and with it what it was doing.
Die(p) ==
  /\ p \in bound /\ deaths < MaxProcessDeaths
  /\ deaths' = deaths + 1
  /\ bound' = bound \ {p}
  /\ timer' = [timer EXCEPT ![p] = NoTime]
  /\ Starts(p, AtRest)
  /\ launching' = {l \in launching : l.by # p}
  /\ UNCHANGED <<time, trigger, owns, store, work, reported, launches, commands, errors>>

RunEnds(r) ==
  /\ work[r] = "executing"
  /\ work' = [work EXCEPT ![r] = "ended"]
  /\ UNCHANGED <<time, trigger, owns, store, reported, bound, timer, todo, launching, launches,
                 commands, errors, deaths>>

Tick ==
  /\ time < MaxTime /\ \A p \in Managers : todo[p] = AtRest
  /\ time' = time + 1
  /\ UNCHANGED <<trigger, owns, store, work, reported, bound, timer, todo, launching, launches,
                 commands, errors, deaths>>

-----------------------------------------------------------------------------
\* create: one process has made the schedule, for every session or its own, and armed its
\* timer.
ScheduleInit ==
  /\ time = 0
  /\ trigger \in [kind : {"once", "interval"}, catchUp : {"none", "latest"}]
  /\ store = Created
  /\ work = [r \in RunIds |-> "none"]
  /\ reported = {}
  /\ \E p \in Managers :
       /\ bound = {p} /\ owns \in {{p}, Managers}
       /\ timer = [q \in Managers |-> IF q = p THEN Every ELSE NoTime]
  /\ todo = [p \in Managers |-> AtRest]
  /\ launching = {}
  /\ launches = 0 /\ commands = 0 /\ errors = 0 /\ deaths = 0
  /\ unguarded = FALSE /\ mishap = FALSE /\ together = FALSE /\ stopped = FALSE

\* The handler claims for run r, or gives its claim up.
Left(t) == {t.ops[i] : i \in DOMAIN t.ops}
Claims(t, r) == t.run = r /\ "claimed" \in Left(t)
Gives(t, r) == t.run = r /\ "unlock" \in Left(t)

\* A run goes on from its claim until its process has ended, or its launch has failed
\* without one.
Going(r) ==
  \/ work[r] = "executing"
  \/ \E l \in launching : l.run = r
  \/ \E p \in Managers : Claims(todo[p], r)

\* The lock of a run that goes on is removed.
Unguards == \E r \in RunIds : store.lock = r /\ store'.lock = 0 /\ Going(r)

\* A full history drops the record of a run that goes on.
Drops ==
  \E r \in RunIds : OnRecord(store, r) /\ ~OnRecord(store', r) /\ store'.receipt[r] # "over" /\ Going(r)

\* The claim of a run that goes on is given up before the run is attached: its launch has
\* reported an error, or taken five minutes.
GivesUp ==
  \E r \in RunIds, p \in Managers :
    ~Gives(todo[p], r) /\ Gives(todo'[p], r) /\ store.receipt[r] = "claimed" /\ Going(r)'

\* A handler that has given a claim up is cut short before the history says so.
CutShort == \E p \in Managers : todo[p].ops = <<"over">> /\ todo'[p] # todo[p] /\ UNCHANGED store

ScheduleNext ==
  /\ \/ \E p \in Managers :
          \/ BindSession(p) \/ Fire(p) \/ RunManual(p) \/ RunDue(p)
          \/ Pause(p) \/ ResumeSchedule(p) \/ Delete(p)
          \/ WriteRecord(p) \/ RemoveLock(p) \/ NoteSkipped(p) \/ NoteOver(p) \/ Miss(p)
          \/ Claim(p) \/ NoteClaimed(p) \/ NoteAttached(p) \/ Satisfy(p) \/ Judge(p)
          \/ CompleteRun(p) \/ DeleteFiles(p) \/ FireFails(p) \/ Die(p)
          \/ \E r \in RunIds : CompleteScheduled(p, r)
     \/ \E l \in launching : StartWork(l) \/ LaunchReturns(l) \/ LaunchFails(l)
     \/ \E r \in RunIds : RunEnds(r)
     \/ Tick
  /\ unguarded' = (unguarded \/ Unguards)
  /\ mishap' = (mishap \/ (~unguarded /\ (Drops \/ GivesUp \/ CutShort)))
  /\ together' = (together \/ (~unguarded /\ \E p, q \in Managers : p # q /\ todo'[p] # AtRest /\ todo'[q] # AtRest))
  /\ stopped' = (stopped \/ \E p \in Managers : todo'[p].why = "stop")

ScheduleSpec == ScheduleInit /\ [][ScheduleNext]_scheduleVars

-----------------------------------------------------------------------------
Times == 0..(MaxTime + Every + 1) \cup {NoTime}

Copies == [next : Times, active : RunIds \cup {0}, paused : BOOLEAN]

Operations == {"write", "unlock", "skipped", "over", "miss", "claim", "claimed", "attached",
               "satisfy", "judge", "complete", "delete"}

\* Every variable stays within its domain.
ScheduleTypeOK ==
  /\ time \in 0..MaxTime
  /\ store.next \in Times /\ store.active \in RunIds \cup {0} /\ store.lock \in RunIds \cup {0}
  /\ store.exists \in BOOLEAN /\ store.paused \in BOOLEAN
  /\ store.history \in Seq(RunIds \cup {0}) /\ Len(store.history) <= MaxHistory
  /\ store.receipt \in [RunIds -> {"none", "claimed", "attached", "over"}]
  /\ work \in [RunIds -> {"none", "executing", "ended"}]
  /\ reported \subseteq RunIds
  /\ bound \subseteq Managers /\ owns \subseteq Managers
  /\ timer \in [Managers -> Times]
  /\ \A p \in Managers :
       /\ todo[p].rec \in Copies /\ todo[p].ops \in Seq(Operations)
       /\ todo[p].run \in RunIds \cup {0} /\ todo[p].arm \in {"no", "next", "later"}
  /\ \A l \in launching : l.run \in RunIds /\ l.by \in Managers /\ l.rec \in Copies
  /\ launches \in 0..MaxLaunches /\ commands \in 0..MaxCommands
  /\ errors \in 0..MaxFireErrors /\ deaths \in 0..MaxProcessDeaths

\* At most one run of a schedule executes.
OneExecutes == \A r, q \in RunIds : work[r] = "executing" /\ work[q] = "executing" => r = q

\* Two runs of a schedule do not execute at once, however the fires, manual runs, failures
\* and restarts of several processes interleave, as long as no handler removes the lock of
\* a run that goes on (scheduled-runs.ts:860, 870).
SkipsOverlap == ~unguarded => OneExecutes

\* The lock of a run that goes on is removed only where a launch was given up that went on
\* (scheduled-runs.ts:767, 892), the full history dropped its record (scheduled-runs.ts:376),
\* a process died between giving up a claim and recording that (scheduled-runs.ts:932), or
\* handlers of two processes ran at once, each on the record it had read.
UnguardedForCause == unguarded => mishap \/ together

\* An occurrence that overlaps a run of the schedule is skipped (docs/missions.md:124),
\* whatever the processes have read before, unless its launch was given up or its record
\* dropped.
OverlapSkipped == ~mishap => OneExecutes

\* An interval schedule goes on: whatever was skipped, missed or failed, every process
\* that may run it has a timer for it, is launching it or has something left to do
\* (scheduled-runs.ts:792, 803, 825).
KeepsArmed ==
  trigger.kind = "interval" /\ ~stopped =>
    \A p \in bound \cap owns :
      todo[p] = AtRest /\ (\A l \in launching : l.by # p) => timer[p] # NoTime
=============================================================================
