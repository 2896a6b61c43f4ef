--------------------------- MODULE ResultDelivery ---------------------------
(***************************************************************************)
(* The delivery of the results of one background run to the session that   *)
(* started it: result-files.ts, result-watcher.ts and notify.ts in         *)
(* src/src/runs/background.  A result is written to a pending file and     *)
(* renamed to the public one; a run may have several results (paused or    *)
(* judged dead first, finished later), each replacing the one before.  The *)
(* parent process reads the file, records the completion for waits, gives  *)
(* the notification, marks the file as delivered and removes it.           *)
(*                                                                         *)
(* The parent is one event loop.  Its handler is cut where it awaits, and  *)
(* also before each file-system call that another process could come       *)
(* before; loop says which instance is between two such calls, and nothing *)
(* else of the parent runs then.  An extension reload leaves the           *)
(* handlers of the old instance to their awaits.  Handlers are resumed in  *)
(* microtasks; the model lets other events of the loop come first.         *)
(*                                                                         *)
(* The completion keys outlive the model: their time to live (10 minutes)  *)
(* does not expire in it.                                                  *)
(***************************************************************************)
EXTENDS Naturals

CONSTANTS
  N,            \* the number of results the run has
  Key,          \* the completion key (session, run, state) of each
  Batched,      \* those of status completed, which the batcher holds
  Instances,    \* extension instances, 1 .. n, each made by a reload
  Intercom,     \* the result names an intercom target
  Fine,         \* the writer is another process and comes in between
  CanBlock,     \* the public file may refuse to be replaced
  MaxFailures,  \* bound on failing operations
  MaxSwitches   \* bound on the session changes of an instance

Versions == 1..N

ASSUME DeliveryAssumption ==
  /\ N \in Nat /\ Instances \in SUBSET (Nat \ {0}) /\ 1 \in Instances
  /\ Intercom \in BOOLEAN /\ Fine \in BOOLEAN /\ CanBlock \in BOOLEAN
  /\ MaxFailures \in Nat /\ MaxSwitches \in Nat

VARIABLES
  pub, pend,  \* the public and the pending file
  written,    \* the newest result that was written
  renaming,   \* the writer has not renamed its pending file yet
  cur,        \* the extension instance that is installed
  here,       \* its current session is the one of the run
  claimed,    \* it has claimed the run's session as a predecessor
  loop,       \* the instance inside a synchronous section, 0 if none
  h,          \* the handler of each instance
  seen,       \* completionSeen of each instance
  notified,   \* the notifier's seen keys of each instance
  registry,   \* the process-global send registry
  sent,       \* history: notifications sent, by key
  acked,      \* history: keys acknowledged over intercom
  replay,     \* the result the durable replay of the run holds, 0 if none
  failures, switches

files == <<pub, pend, written, renaming>>
session == <<cur, here, claimed, switches>>
memory == <<seen, notified, registry>>
history == <<sent, acked>>
vars == <<files, session, loop, h, memory, history, replay, failures>>

None == [v |-> 0, marked |-> FALSE]
Keys == {Key[v] : v \in Versions}

Payload == [v : Versions, marked : BOOLEAN]

Idle == [pc |-> "idle", v |-> 0, marked |-> FALSE, fresh |-> FALSE,
         kept |-> FALSE, intercom |-> FALSE, accepted |-> FALSE]

\* Where a handler may be: waiting, or in a synchronous section of the loop.
Waiting == {"idle", "intercom", "held", "resume"}
Running == {"judge", "deliver", "mark", "promote", "check", "unlink", "unindex"}

\* Types; the loop is inside the handler that is in a section, and a handler
\* that has begun has read a result.
TypeOK ==
  /\ pub \in Payload \cup {None} /\ pend \in Payload \cup {None}
  /\ written \in 0..N /\ renaming \in BOOLEAN
  /\ cur \in Instances /\ here \in BOOLEAN /\ claimed \in BOOLEAN
  /\ loop \in Instances \cup {0}
  /\ h \in [Instances ->
       [pc : Waiting \cup Running, v : 0..N, marked : BOOLEAN, fresh : BOOLEAN,
        kept : BOOLEAN, intercom : BOOLEAN, accepted : BOOLEAN]]
  /\ \A i \in Instances :
       (h[i].pc \in Running <=> loop = i) /\ (h[i].v = 0 => h[i].pc = "idle")
  /\ seen \in [Instances -> SUBSET Keys]
  /\ notified \in [Instances -> SUBSET Keys]
  /\ registry \subseteq Keys
  /\ sent \in [Keys -> Nat] /\ acked \subseteq Keys
  /\ replay \in 0..N
  /\ failures \in 0..MaxFailures /\ switches \in 0..MaxSwitches

-----------------------------------------------------------------------------

\* An operation fails, within the bound.
Fail == failures < MaxFailures /\ failures' = failures + 1

\* The event loop is free.
Free == loop = 0

\* The instance is between two calls of one synchronous section.
In(i, at) == loop = i /\ h[i].pc = at

\* The instance owns the run's session: its own or one it succeeded.
Owns(i) == i = cur /\ (here \/ claimed)

\* ... and no session change came since the handler took its epoch.
OwnsCompletion(i) == Owns(i) /\ h[i].fresh

\* Mutant of Replaced: the file is not read again.
ReplacedNever(i) == FALSE

\* The public file is not the one the handler has read.
Replaced(i) == pub # None /\ pub.v # h[i].v

At(i, pc) == h' = [h EXCEPT ![i].pc = pc]

\* Mutant of Return: the file stays in the set of those being processed.
ReturnProcessing(i) == h' = [h EXCEPT ![i].pc = "ended"] /\ loop' = 0

\* The handler ends; the file is scheduled again, or found by the next scan.
Return(i) == h' = [h EXCEPT ![i] = Idle] /\ loop' = 0

\* The pending payload p is renamed over the public file, or refused.
Promote(p) ==
  \/ pub' = p /\ pend' = None /\ UNCHANGED failures
  \/ CanBlock /\ pub # None /\ Fail /\ pend' = p /\ UNCHANGED pub

\* The keys the user was told about.
ToldKeys == {k \in Keys : sent[k] > 0} \cup acked

-----------------------------------------------------------------------------

Init ==
  /\ pub = None /\ pend = None /\ written = 0 /\ renaming = FALSE
  /\ cur = 1 /\ here = TRUE /\ claimed = FALSE /\ switches = 0
  /\ loop = 0 /\ h = [i \in Instances |-> Idle]
  /\ seen = [i \in Instances |-> {}] /\ notified = [i \in Instances |-> {}]
  /\ registry = {} /\ sent = [k \in Keys |-> 0] /\ acked = {}
  /\ replay = 0 /\ failures = 0

(***************************************************************************)
(* The writer.  A writer in the parent process writes and renames before   *)
(* anything else runs.  Another process may be overtaken before its        *)
(* rename, or die there; the runner's recoverable results stay pending.    *)
(***************************************************************************)
WriteResult ==
  /\ Fine \/ Free
  /\ written < N /\ written' = written + 1
  /\ LET p == [v |-> written + 1, marked |-> FALSE]
     IN IF Fine THEN pend' = p /\ renaming' = TRUE /\ UNCHANGED <<pub, failures>>
                ELSE Promote(p) /\ UNCHANGED renaming

RenameResult ==
  /\ renaming /\ renaming' = FALSE
  /\ IF pend = None THEN UNCHANGED <<pub, pend, failures>> ELSE Promote(pend)
  /\ UNCHANGED written

Writer ==
  /\ WriteResult \/ RenameResult
  /\ UNCHANGED <<session, loop, h, memory, history, replay>>

(***************************************************************************)
(* The handler of a file, up to its first await.                           *)
(***************************************************************************)
\* The file's payload is read: the pending one, promoted first, or the public.
Read(i) ==
  /\ Free /\ h[i].pc = "idle" /\ Owns(i)
  /\ LET p == IF pend # None THEN pend ELSE pub
     IN /\ p # None
        /\ IF pend # None THEN Promote(pend) ELSE UNCHANGED <<pub, pend, failures>>
        /\ h' = [h EXCEPT ![i] = [Idle EXCEPT !.pc = "judge", !.v = p.v,
                                              !.marked = p.marked, !.fresh = TRUE]]
  /\ loop' = i
  /\ UNCHANGED <<written, renaming, session, memory, history, replay>>

\* The completion is observed and recorded for waits.
Record(i, kept) ==
  \/ kept /\ replay' = h[i].v /\ UNCHANGED failures
  \/ ~kept /\ Fail /\ replay' \in {replay, h[i].v}

\* The notification of this payload was delivered, says the file or the memory.
AlreadyDelivered(i) == h[i].marked \/ Key[h[i].v] \in seen[i]

\* It was: only the file is left to remove, if the completion is recorded.
Skip(i) ==
  /\ In(i, "judge") /\ AlreadyDelivered(i)
  /\ \E kept \in BOOLEAN :
       /\ Record(i, kept)
       /\ IF kept THEN At(i, "check") /\ UNCHANGED loop ELSE Return(i)
  /\ seen' = [seen EXCEPT ![i] = @ \cup {Key[h[i].v]}]
  /\ UNCHANGED <<files, session, notified, registry, history>>

\* It was not: the intercom is asked first when the result names a target.
Announce(i) ==
  /\ In(i, "judge") /\ ~AlreadyDelivered(i)
  /\ \E kept \in BOOLEAN, awaits \in {FALSE, Intercom} :
       /\ Record(i, kept)
       /\ h' = [h EXCEPT ![i].kept = kept,
                         ![i].pc = IF awaits THEN "intercom" ELSE "deliver"]
       /\ loop' = IF awaits THEN 0 ELSE i
  /\ UNCHANGED <<files, session, memory, history>>

\* The nested registry cannot be read: the file is left for a later attempt.
EnrichFails(i) ==
  /\ In(i, "judge") /\ Fail
  /\ replay' = h[i].v /\ Return(i)
  /\ UNCHANGED <<files, session, memory, history>>

\* The intercom answers, or its time runs out.
IntercomAnswers(i) ==
  /\ Free /\ h[i].pc = "intercom"
  /\ \E yes \in BOOLEAN :
       /\ acked' = IF yes THEN acked \cup {Key[h[i].v]} ELSE acked
       /\ IF OwnsCompletion(i)
          THEN h' = [h EXCEPT ![i].pc = "deliver", ![i].intercom = yes] /\ loop' = i
          ELSE Return(i)
  /\ UNCHANGED <<files, session, memory, sent, replay, failures>>

(***************************************************************************)
(* The notifier.  Its promise settles now or when the batch is emitted.    *)
(***************************************************************************)
Settle(i, accepted) ==
  /\ h' = [h EXCEPT ![i].pc = "resume", ![i].accepted = accepted]
  /\ loop' = 0

\* Mutant of Emit: what this process has sent is not asked for.
EmitUnclaimed(i) ==
  LET k == Key[h[i].v]
  IN /\ Owns(i) /\ Settle(i, TRUE)
     /\ notified' = [notified EXCEPT ![i] = @ \cup {k}]
     /\ registry' = registry \cup {k}
     /\ sent' = [sent EXCEPT ![k] = @ + 1]
     /\ UNCHANGED failures

\* emit: the message is sent unless this process has sent it already.
Emit(i) ==
  LET k == Key[h[i].v]
      Accept == Settle(i, TRUE) /\ notified' = [notified EXCEPT ![i] = @ \cup {k}]
  IN \/ /\ ~Owns(i)
        /\ Settle(i, FALSE) /\ UNCHANGED <<notified, registry, sent, failures>>
     \/ /\ Owns(i) /\ k \in registry
        /\ Accept /\ UNCHANGED <<registry, sent, failures>>
     \/ /\ Owns(i) /\ k \notin registry
        /\ Accept /\ registry' = registry \cup {k}
        /\ sent' = [sent EXCEPT ![k] = @ + 1]
        /\ UNCHANGED failures
     \/ /\ Owns(i) /\ k \notin registry
        /\ Fail /\ Settle(i, FALSE) /\ UNCHANGED <<notified, registry, sent>>

\* What needs no message: the intercom has it, or the session has it already.
Dispensable(i) == h[i].intercom \/ Key[h[i].v] \in notified[i]

Deliver(i) ==
  /\ In(i, "deliver")
  /\ \/ /\ Dispensable(i)
        /\ Settle(i, TRUE) /\ UNCHANGED <<notified, registry, sent, failures>>
     \/ /\ ~Dispensable(i) /\ h[i].v \in Batched
        /\ At(i, "held") /\ loop' = 0 /\ UNCHANGED <<notified, registry, sent, failures>>
     \/ /\ ~Dispensable(i) /\ h[i].v \notin Batched
        /\ Emit(i)
  /\ UNCHANGED <<files, session, seen, acked, replay>>

EmitGroup(i) ==
  /\ Free /\ h[i].pc = "held" /\ Emit(i)
  /\ UNCHANGED <<files, session, seen, acked, replay>>

(***************************************************************************)
(* The rest of the handler, after its last await.                          *)
(***************************************************************************)
\* Mutants of Resume: the notifier's answer, or the ownership, is not looked at.
ResumeRegardless(i) ==
  /\ Free /\ h[i].pc = "resume"
  /\ IF OwnsCompletion(i) /\ ~Replaced(i)
     THEN At(i, "mark") /\ loop' = i
     ELSE Return(i)
  /\ UNCHANGED <<files, session, memory, history, replay, failures>>
ResumeStale(i) ==
  /\ Free /\ h[i].pc = "resume"
  /\ IF h[i].accepted /\ ~Replaced(i)
     THEN At(i, "mark") /\ loop' = i
     ELSE Return(i)
  /\ UNCHANGED <<files, session, memory, history, replay, failures>>

Resume(i) ==
  /\ Free /\ h[i].pc = "resume"
  /\ IF OwnsCompletion(i) /\ h[i].accepted /\ ~Replaced(i)
     THEN At(i, "mark") /\ loop' = i
     ELSE Return(i)
  /\ UNCHANGED <<files, session, memory, history, replay, failures>>

\* markDeliveredNotification: the pending file is written with the mark ...
Mark(i) ==
  /\ In(i, "mark")
  /\ \/ /\ pend' = [v |-> h[i].v, marked |-> TRUE]
        /\ At(i, "promote") /\ UNCHANGED <<loop, failures>>
     \/ Fail /\ Return(i) /\ UNCHANGED pend
  /\ UNCHANGED <<pub, written, renaming, session, memory, history, replay>>

\* Mutant of PromoteMark: the file goes whether or not it was recorded.
PromoteMarkUnrecorded(i) ==
  /\ In(i, "promote")
  /\ IF pend = None THEN UNCHANGED <<pub, pend, failures>> ELSE Promote(pend)
  /\ seen' = [seen EXCEPT ![i] = @ \cup {Key[h[i].v]}]
  /\ At(i, "unlink") /\ UNCHANGED loop
  /\ UNCHANGED <<written, renaming, session, notified, registry, history, replay>>

\* ... and promoted; the completion is seen, and its file may go when recorded.
PromoteMark(i) ==
  /\ In(i, "promote")
  /\ IF pend = None THEN UNCHANGED <<pub, pend, failures>> ELSE Promote(pend)
  /\ seen' = [seen EXCEPT ![i] = @ \cup {Key[h[i].v]}]
  /\ IF h[i].kept THEN At(i, "unlink") /\ UNCHANGED loop ELSE Return(i)
  /\ UNCHANGED <<written, renaming, session, notified, registry, history, replay>>

\* A result that was told before is removed unless another has replaced it.
Check(i) ==
  /\ In(i, "check")
  /\ IF Replaced(i) THEN Return(i) ELSE At(i, "unlink") /\ UNCHANGED loop
  /\ UNCHANGED <<files, session, memory, history, replay, failures>>

\* removeDeliveredResult: the public file ...
Unlink(i) ==
  /\ In(i, "unlink")
  /\ \/ pub' = None /\ At(i, "unindex") /\ UNCHANGED <<loop, failures>>
     \/ pub # None /\ Fail /\ Return(i) /\ UNCHANGED pub
  /\ UNCHANGED <<pend, written, renaming, session, memory, history, replay>>

\* ... and removeResultIndex: what is pending.
Unindex(i) ==
  /\ In(i, "unindex")
  /\ Return(i)
  /\ \/ pend' = None /\ UNCHANGED failures
     \/ pend # None /\ Fail /\ UNCHANGED pend
  /\ UNCHANGED <<pub, written, renaming, session, memory, history, replay>>

(***************************************************************************)
(* The session.                                                            *)
(***************************************************************************)
Stale == [i \in Instances |-> [h[i] EXCEPT !.fresh = FALSE]]

\* session_start in an instance; the session it leaves may be claimed.
SwitchSession ==
  /\ Free /\ switches < MaxSwitches /\ switches' = switches + 1
  /\ here' \in BOOLEAN
  /\ claimed' \in IF here THEN {claimed, TRUE} ELSE {claimed}
  /\ h' = Stale
  /\ UNCHANGED <<files, cur, loop, memory, history, replay, failures>>

\* The extension is reloaded: held notifications settle as not accepted.
Reload ==
  /\ Free /\ cur + 1 \in Instances /\ cur' = cur + 1
  /\ here' \in BOOLEAN /\ claimed' = FALSE
  /\ h' = [i \in Instances |-> IF h[i].pc = "held"
             THEN [Stale[i] EXCEPT !.pc = "resume", !.accepted = FALSE] ELSE Stale[i]]
  /\ UNCHANGED <<files, switches, loop, memory, history, replay, failures>>

-----------------------------------------------------------------------------

Handler(i) ==
  \/ Skip(i) \/ Announce(i) \/ EnrichFails(i) \/ IntercomAnswers(i)
  \/ Deliver(i) \/ EmitGroup(i)
  \/ Resume(i) \/ Mark(i) \/ PromoteMark(i)
  \/ Check(i) \/ Unlink(i) \/ Unindex(i)

Next ==
  \/ Writer \/ SwitchSession \/ Reload
  \/ \E i \in Instances : Read(i) \/ Handler(i)

Spec == Init /\ [][Next]_vars

(***************************************************************************)
(* The loop runs what is due: a handler goes on after its await, a batch   *)
(* has a longest wait and the intercom a time limit.  A file that is there *)
(* is found by the next scan (result-watcher.ts, primeExistingResults).    *)
(* Writers, sessions and reloads owe nothing.                              *)
(***************************************************************************)
LiveSpec ==
  /\ Spec
  /\ \A i \in Instances : WF_vars(Read(i)) /\ WF_vars(Handler(i))

-----------------------------------------------------------------------------

OnDisk == {pub.v, pend.v} \ {0}

\* A completion is sent to the session at most once, whatever retries, session
\* changes and reloads of the extension come between the sending and the
\* removal of the file (processCompletionSendRegistry in notify.ts).
NotifiedOnce == \A k \in Keys : sent[k] <= 1

\* The newest result is on disk until it was told: notify.ts:4-5, result files
\* "are deleted only after sendMessage() accepts the notification".
NothingLost == written > 0 => written \in OnDisk \/ Key[written] \in ToldKeys

\* A file that says that its notification was delivered tells the truth.
MarkedWasTold ==
  \A p \in {pub, pend} : p.marked => Key[p.v] \in ToldKeys

\* The removal of the public file of a result.
Removed == pub # None /\ pub' = None

\* A mark is put on a result on the disk.
Marked == pend'.marked /\ pend' # pend

\* Only a handler whose instance owns the session, under the session's present
\* epoch, marks or removes a file: a stale watcher drops its authority over it.
OwnerOnly == [][(Removed \/ Marked) => loop # 0 /\ OwnsCompletion(loop)]_vars

\* The newest result is on disk until it was told and has its durable replay, so that
\* a later wait for the run still finds it: a replay that cannot be written keeps the
\* file although its notification was accepted (result-watcher.ts:615).
KeptUntilSettled ==
  written > 0 => written \in OnDisk \/ (Key[written] \in ToldKeys /\ replay = written)

\* When some instance keeps owning the session, the newest result is told and
\* its files disappear.
EventuallyDelivered ==
  <>[](here \/ claimed) =>
    []<>(OnDisk = {} /\ (written > 0 => Key[written] \in ToldKeys))

(***************************************************************************)
(* The promise of ResultOutbox: what is kept is the pending file when      *)
(* there is one, and the public one otherwise.                             *)
(***************************************************************************)
Box == IF pend # None THEN pend.v ELSE pub.v

Outbox == INSTANCE ResultOutbox
  WITH newest <- written, box <- Box, told <- ToldKeys

DeliversOutbox == Outbox!Spec
=============================================================================
