------------------------------ MODULE Retention ------------------------------
(***************************************************************************)
(* The clean-up of what old runs leave behind                              *)
(* (src/src/runs/background/async-retention.ts): a minute after its start  *)
(* every process makes one pass, under a lock, that removes the            *)
(* directories of old runs and the results of the runs that are gone.      *)
(*                                                                         *)
(* One run that ended more than thirty days ago, and its result, are       *)
(* followed.  Both are first renamed to a tombstone of the pass, looked at *)
(* again there, and removed or put back; while the directory is away a     *)
(* marker keeps the result.  A pass may be killed anywhere, and a lock     *)
(* that is a day old is taken from whoever holds it.                       *)
(***************************************************************************)
EXTENDS Naturals

CONSTANTS
  Passes,         \* the passes, each of a process and with a token of its own
  MaxSweepKills   \* bound on killed processes

\* A pass is none of the other places and owners.
ASSUME RetentionAssumption ==
  /\ {"nothing", "unowned", "in place", "gone"} \cap Passes = {}
  /\ MaxSweepKills \in Nat

VARIABLES
  sweep,       \* where each pass is
  latch,       \* the lock: free, an unnamed directory, or the pass it names
  latchSeen,   \* the owner of the lock a pass has judged stale
  latchTombs,  \* the tombstones of stale locks that hold a file, by their token
  runFound,    \* the directory of the run that each pass has discovered
  resultFound, \* the result file that each pass has discovered
  waitSeen,    \* whether each pass has read a wait for the run
  runAt,       \* the directory: in place, a pass's tombstone, or gone
  torn,        \* some of the directory's files have been removed
  marker,      \* the tombstone that the marker names
  resultAt,    \* the result: in place, a pass's tombstone, or gone
  refs,        \* what refers to the run now
  sweepKills,
  kept,        \* history: the references that were made while the run was in place
  seized       \* history: the lock was taken from a live pass

retentionVars == <<sweep, latch, latchSeen, latchTombs, runFound, resultFound, waitSeen, runAt,
                   torn, marker, resultAt, refs, sweepKills, kept, seized>>

leavings == <<runAt, torn, marker, resultAt>>
latching == <<latch, latchSeen, latchTombs, seized>>
known == <<runFound, resultFound, waitSeen>>
around == <<refs, kept, sweepKills>>

Nothing == "nothing"
Unowned == "unowned"
InPlace == "in place"
Gone == "gone"

\* A wait has a record that a pass reads at once for all runs; the others (the index of
\* active runs, a mission, a session that can be resumed) are looked up where they stand.
References == {"wait", "live"}

Passing(p) == sweep[p] \notin {"ended", "killed"}

Doing(p, step) == sweep[p] = step
Turns(p, step) == sweep' = [sweep EXCEPT ![p] = step]

-----------------------------------------------------------------------------
(* The lock *)

\* mkdir: the lock is free, or somebody has it.
TakeLatch(p) ==
  /\ Doing(p, "start")
  /\ IF latch = Nothing THEN latch' = Unowned /\ Turns(p, "name")
                        ELSE Turns(p, "judge") /\ UNCHANGED latch
  /\ UNCHANGED <<latchSeen, latchTombs, seized, known, leavings, around>>

\* owner.json is written into whatever stands at the path.  It fails when nothing does,
\* or for want of space, and then whatever stands there is removed.
NameLatch(p) ==
  /\ Doing(p, "name")
  /\ \/ latch # Nothing /\ latch' = p /\ Turns(p, "discover")
     \/ latch' = Nothing /\ Turns(p, "ended")
  /\ UNCHANGED <<latchSeen, latchTombs, seized, known, leavings, around>>

\* A dead owner's lock is stale at once, any other when it is a day old.
JudgeLatch(p) ==
  /\ Doing(p, "judge")
  /\ \/ latch # Nothing /\ Turns(p, "evict")
     \/ (latch \in Passes => Passing(latch)) /\ Turns(p, "ended")
  /\ latchSeen' = [latchSeen EXCEPT ![p] = IF sweep'[p] = "evict" THEN latch ELSE @]
  /\ UNCHANGED <<latch, latchTombs, seized, known, leavings, around>>

\* The lock is renamed to the tombstone of the token that was read (of one's own when
\* there was none), which fails when that one exists and is not empty.
EvictLatch(p) ==
  /\ Doing(p, "evict")
  /\ LET token == IF latchSeen[p] \in Passes THEN latchSeen[p] ELSE p IN
       IF latch = Nothing \/ token \in latchTombs
       THEN UNCHANGED <<latch, latchTombs, seized>>
       ELSE /\ latch' = Nothing
            /\ latchTombs' = IF latch \in Passes THEN latchTombs \cup {token} ELSE latchTombs
            /\ seized' = (seized \/ \E q \in Passes : \/ latch = q /\ Passing(q)
                                                      \/ latch = Unowned /\ Doing(q, "name"))
  /\ latchSeen' = [latchSeen EXCEPT ![p] = Nothing]
  /\ \E step \in {"start", "ended"} : Turns(p, step)
  /\ UNCHANGED <<known, leavings, around>>

\* What a pass knows goes with it.
Forgets(p) ==
  /\ runFound' = [runFound EXCEPT ![p] = Gone]
  /\ resultFound' = [resultFound EXCEPT ![p] = Gone]
  /\ waitSeen' = [waitSeen EXCEPT ![p] = FALSE]

ReadLatch(p) ==
  /\ Doing(p, "release")
  /\ Turns(p, IF latch = p THEN "unlock" ELSE "ended")
  /\ Forgets(p)
  /\ UNCHANGED <<latching, leavings, around>>

Unlock(p) ==
  /\ Doing(p, "unlock")
  /\ latch' = Nothing
  /\ Turns(p, "ended")
  /\ UNCHANGED <<latchSeen, latchTombs, seized, known, leavings, around>>

-----------------------------------------------------------------------------
(* The pass *)

\* The worker lists the directories, a window of each; a failed or cancelled worker
\* ends the pass.
Discover(p) ==
  /\ Doing(p, "discover")
  /\ runFound' \in {[runFound EXCEPT ![p] = d] : d \in {runAt, Gone}}
  /\ resultFound' \in {[resultFound EXCEPT ![p] = f] : f \in {resultAt, Gone}}
  /\ \E step \in {"commit", "release"} : Turns(p, step)
  /\ UNCHANGED <<latching, waitSeen, leavings, around>>

\* Whoever lost the lock meanwhile touches nothing.
BeginCommit(p) ==
  /\ Doing(p, "commit")
  /\ Turns(p, IF latch = p THEN "run" ELSE "release")
  /\ waitSeen' = [waitSeen EXCEPT ![p] = "wait" \in refs]
  /\ UNCHANGED <<latching, runFound, resultFound, leavings, around>>

\* Nothing refers to the run, going by the waits the pass has read.
Unneeded(p) == ~waitSeen[p] /\ "live" \notin refs

\* What is left of the pass: it may be cancelled between two candidates.
OnToResult(p) == \E step \in {"result", "release"} : Turns(p, step)

\* The directory is where it was found, and no longer needed; a tombstone also has its marker.
Removable(p) ==
  /\ runAt = runFound[p] /\ runAt # Gone /\ Unneeded(p)
  /\ runAt \in Passes => marker = runAt

\* A torn directory may be too young again, or without a status for good.
ExamineRun(p) ==
  /\ Doing(p, "run")
  /\ \/ Removable(p) /\ Turns(p, IF runAt = InPlace THEN "mark" ELSE "reread")
     \/ (Removable(p) => torn) /\ OnToResult(p)
  /\ UNCHANGED <<latching, known, leavings, around>>

\* The marker is written before the directory moves, or the candidate is given up.
MarkAway(p) ==
  /\ Doing(p, "mark")
  /\ \/ marker' = p /\ Turns(p, "rename")
     \/ OnToResult(p) /\ UNCHANGED marker
  /\ UNCHANGED <<latching, known, runAt, torn, resultAt, around>>

\* The tombstone's name is new.  When the directory is not there, the marker goes again.
MoveRun(p) ==
  /\ Doing(p, "rename")
  /\ IF runAt = InPlace
     THEN /\ runAt' = p /\ runFound' = [runFound EXCEPT ![p] = p]
          /\ Turns(p, "recheck waits") /\ UNCHANGED marker
     ELSE /\ marker' = Nothing
          /\ OnToResult(p) /\ UNCHANGED <<runAt, runFound>>
  /\ UNCHANGED <<latching, resultFound, waitSeen, torn, resultAt, around>>

\* Mutant of RereadWaits: the second look goes by the waits of the first.
RereadWaitsNever(p) ==
  /\ sweep[p] \in {"reread", "recheck waits"}
  /\ Turns(p, IF Doing(p, "reread") THEN "last look" ELSE "recheck")
  /\ UNCHANGED <<latching, known, leavings, around>>

\* The second look goes by the waits of now.
RereadWaits(p) ==
  /\ sweep[p] \in {"reread", "recheck waits"}
  /\ waitSeen' = [waitSeen EXCEPT ![p] = "wait" \in refs]
  /\ Turns(p, IF Doing(p, "reread") THEN "last look" ELSE "recheck")
  /\ UNCHANGED <<latching, runFound, resultFound, leavings, around>>

\* The directory was found as a tombstone: it is removed or left.
LastLook(p) ==
  /\ Doing(p, "last look")
  /\ IF Unneeded(p) THEN Turns(p, "remove") ELSE OnToResult(p)
  /\ UNCHANGED <<latching, known, leavings, around>>

RecheckRun(p) ==
  /\ Doing(p, "recheck")
  /\ \/ Unneeded(p) /\ runAt = p /\ Turns(p, "remove")
     \/ (~Unneeded(p) \/ runAt # p \/ torn) /\ Turns(p, "restore")
  /\ UNCHANGED <<latching, known, leavings, around>>

\* Back to its place.  A tombstone that somebody else has removed fails here, and its
\* marker stays.
RestoreRun(p) ==
  /\ Doing(p, "restore")
  /\ IF runAt = p THEN runAt' = InPlace /\ Turns(p, "unmark")
                  ELSE OnToResult(p) /\ UNCHANGED runAt
  /\ UNCHANGED <<latching, known, torn, marker, resultAt, around>>

\* The removal may fail, before or after its first files, or find nothing.
RemoveRun(p) ==
  /\ Doing(p, "remove")
  /\ \/ /\ runAt = runFound[p]
        /\ runAt' = Gone
        /\ Turns(p, "unmark") /\ UNCHANGED torn
     \/ /\ torn' \in IF runAt = runFound[p] THEN {torn, TRUE} ELSE {torn}
        /\ OnToResult(p) /\ UNCHANGED runAt
  /\ UNCHANGED <<latching, known, marker, resultAt, around>>

\* The marker is removed by the run's name, whatever tombstone it names by now.
Unmark(p) ==
  /\ Doing(p, "unmark")
  /\ marker' = Nothing
  /\ OnToResult(p)
  /\ UNCHANGED <<latching, known, runAt, torn, resultAt, around>>

\* runTombstoneMarkerBlocks: a marker whose tombstone is gone is removed and blocks no more.
Blocked == marker # Nothing /\ runAt = marker

\* Mutant of ResultFree: a run that is only away counts as gone.
ResultFreeUnmarked(p) == runAt # InPlace /\ Unneeded(p)

\* The run is gone and not only away, and nothing refers to it.
ResultFree(p) == ~Blocked /\ runAt # InPlace /\ Unneeded(p)

ExamineResult(p) ==
  /\ Doing(p, "result")
  /\ marker' = IF Blocked THEN marker ELSE Nothing
  /\ LET there == resultAt # Gone /\ resultAt = resultFound[p] IN
       Turns(p, IF ~there \/ ~ResultFree(p) THEN "release"
                ELSE IF resultAt = InPlace THEN "move result" ELSE "reread result")
  /\ UNCHANGED <<latching, known, runAt, torn, resultAt, around>>

MoveResult(p) ==
  /\ Doing(p, "move result")
  /\ IF resultAt = InPlace
     THEN /\ resultAt' = p /\ resultFound' = [resultFound EXCEPT ![p] = p]
          /\ Turns(p, "reread moved result")
     ELSE Turns(p, "release") /\ UNCHANGED <<resultAt, resultFound>>
  /\ UNCHANGED <<latching, runFound, waitSeen, runAt, torn, marker, around>>

RereadResultWaits(p) ==
  /\ sweep[p] \in {"reread result", "reread moved result"}
  /\ waitSeen' = [waitSeen EXCEPT ![p] = "wait" \in refs]
  /\ Turns(p, IF Doing(p, "reread result") THEN "recheck result" ELSE "recheck moved result")
  /\ UNCHANGED <<latching, runFound, resultFound, leavings, around>>

\* The second look, at the tombstone: remove it, or put it back if this pass has moved it.
RecheckResult(p) ==
  /\ sweep[p] \in {"recheck result", "recheck moved result"}
  /\ marker' = IF Blocked THEN marker ELSE Nothing
  /\ Turns(p, IF ResultFree(p) THEN "remove result"
              ELSE IF Doing(p, "recheck moved result") THEN "restore result" ELSE "release")
  /\ UNCHANGED <<latching, known, runAt, torn, resultAt, around>>

SettleResult(p) ==
  /\ sweep[p] \in {"remove result", "restore result"}
  /\ resultAt' = IF resultAt # resultFound[p] THEN resultAt
                 ELSE IF Doing(p, "remove result") THEN Gone ELSE InPlace
  /\ Turns(p, "release")
  /\ UNCHANGED <<latching, known, runAt, torn, marker, around>>

\* A process that is killed while it removes the directory leaves some of it.
KillPass(p) ==
  /\ Passing(p) /\ sweepKills < MaxSweepKills
  /\ sweepKills' = sweepKills + 1
  /\ torn' \in IF Doing(p, "remove") /\ runAt = runFound[p] THEN {torn, TRUE} ELSE {torn}
  /\ Turns(p, "killed") /\ Forgets(p)
  /\ UNCHANGED <<latching, runAt, marker, resultAt, refs, kept>>

\* A session waits for the run, or something else comes to need it; and later no more.
Refer(r) ==
  /\ r \notin refs
  /\ refs' = refs \cup {r}
  /\ kept' = IF runAt = InPlace /\ ~torn THEN kept \cup {r} ELSE kept
  /\ UNCHANGED <<sweep, latching, known, leavings, sweepKills>>

Dismiss(r) ==
  /\ r \in refs
  /\ refs' = refs \ {r}
  /\ kept' = kept \ {r}
  /\ UNCHANGED <<sweep, latching, known, leavings, sweepKills>>

-----------------------------------------------------------------------------
RetentionInit ==
  /\ sweep = [p \in Passes |-> "start"]
  /\ latch = Nothing
  /\ latchSeen = [p \in Passes |-> Nothing]
  /\ latchTombs = {}
  /\ runFound = [p \in Passes |-> Gone]
  /\ resultFound = [p \in Passes |-> Gone]
  /\ waitSeen = [p \in Passes |-> FALSE]
  /\ runAt = InPlace
  /\ torn = FALSE
  /\ marker = Nothing
  /\ resultAt = InPlace
  /\ refs = {}
  /\ sweepKills = 0
  /\ kept = {}
  /\ seized = FALSE

RetentionNext ==
  \/ \E p \in Passes :
       \/ TakeLatch(p) \/ NameLatch(p) \/ JudgeLatch(p) \/ EvictLatch(p)
       \/ Discover(p) \/ BeginCommit(p) \/ ReadLatch(p) \/ Unlock(p)
       \/ ExamineRun(p) \/ MarkAway(p) \/ MoveRun(p) \/ RereadWaits(p) \/ LastLook(p)
       \/ RecheckRun(p) \/ RestoreRun(p) \/ RemoveRun(p) \/ Unmark(p)
       \/ ExamineResult(p) \/ MoveResult(p) \/ RereadResultWaits(p)
       \/ RecheckResult(p) \/ SettleResult(p) \/ KillPass(p)
  \/ \E r \in References : Refer(r) \/ Dismiss(r)

RetentionSpec == RetentionInit /\ [][RetentionNext]_retentionVars

-----------------------------------------------------------------------------
\* Every variable stays within its domain.
RetentionTypeOK ==
  /\ latch \in Passes \cup {Nothing, Unowned}
  /\ latchSeen \in [Passes -> Passes \cup {Nothing, Unowned}]
  /\ latchTombs \subseteq Passes
  /\ {runAt, resultAt} \subseteq Passes \cup {InPlace, Gone}
  /\ {runFound, resultFound} \subseteq [Passes -> Passes \cup {InPlace, Gone}]
  /\ waitSeen \in [Passes -> BOOLEAN]
  /\ {torn, seized} \subseteq BOOLEAN
  /\ marker \in Passes \cup {Nothing}
  /\ kept \subseteq refs /\ refs \subseteq References
  /\ sweepKills \in 0..MaxSweepKills

\* A run that something has come to refer to while it was in place loses nothing as
\* long as the reference stands, however stale the references are by which passes judge
\* it, whoever is killed and even if two passes run at once: it is in place, or at a
\* tombstone from which its pass will bring it back unless it is killed
\* (async-retention.ts:807-832).
KeepsReferenced ==
  kept # {} =>
    /\ ~torn
    /\ \/ runAt = InPlace
       \/ runAt \in Passes /\ sweep[runAt] \in {"recheck waits", "recheck", "restore", "killed"}

\* The result of a run outlives the directory of the run: it is removed only when the
\* run will never come back, although the directory is away while a pass judges it and
\* stays away if that pass is killed, as long as the lock is not taken from a live pass
\* (async-retention.ts:245-256, 496-500).
ResultOutlivesRun ==
  resultAt = Gone /\ ~seized => runAt # InPlace /\ marker # runAt
=============================================================================
