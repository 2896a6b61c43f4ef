---------------------------- MODULE SessionLease ----------------------------
(***************************************************************************)
(* The revival lease of src/src/runs/shared/session-lease.ts: a detached   *)
(* runner that revives a session file first takes an exclusive lease on it,*)
(* so that two runners never append to one session.                        *)
(*                                                                         *)
(* The lease is a directory.  It is taken by renaming a private candidate  *)
(* directory, which holds owner.json, onto the lease path; it is released  *)
(* by a recursive removal; and a lease whose owner is demonstrably gone is *)
(* moved to a tombstone named after the stale token.  Every step below is  *)
(* one system call of one process, so processes interleave between them    *)
(* and may be killed between them.  updateWriter, which no code calls, is  *)
(* left out.                                                               *)
(***************************************************************************)
EXTENDS Naturals, FiniteSets

CONSTANTS
  Procs,         \* runner processes; each one acquires the lease at most once
  Host,          \* [Procs -> hosts]: os.hostname() of the process
  Pid,           \* [Procs -> pids]: two processes of one host may reuse a pid
  Identity,      \* the platform exposes process start identities (Linux does)
  MaxAttempts    \* rounds of the acquisition loop (4 in the source)

ASSUME LeaseAssumption ==
  /\ Identity \in BOOLEAN
  /\ MaxAttempts \in Nat \ {0}

VARIABLES
  life,       \* the operating system's view of each process
  pc,         \* where each process is in acquire / hold / release
  attempt,    \* rounds of the acquisition loop already used
  seen,       \* the owner record a contender read from owner.json
  leaseDir,   \* the lease directory
  tombstone,  \* the directory <lease>.stale-<token>, for each token
  overtaken   \* history: an owner judged stale had given the lease up in between

vars == <<life, pc, attempt, seen, leaseDir, tombstone, overtaken>>

\* Tokens are random UUIDs, one per acquisition: the process stands for its token.
\* Its writerState is "none": no code under src/src calls updateWriter.
Owners == [kind: {"owner"}, token: Procs]
Absent == [kind |-> "absent"]
Empty  == [kind |-> "empty"]
NoOwner == [kind |-> "unread"]

OwnerOf(p) == [kind |-> "owner", token |-> p]
Recorded(d) == d.kind = "owner"

PCs == {"idle", "create", "recheck", "inspect", "check", "reclaim",
        "held", "unlink", "rmdir", "released", "failed"}

\* A live handle: acquired, and its release has not removed anything yet.
Holds(p) == life[p] = "alive" /\ pc[p] \in {"held", "unlink"}

-----------------------------------------------------------------------------
\* processDemonstrablyGone: no process answers to the pid, or the one that does
\* started at another time (which only a platform with identities can tell).
PidInUse(s) == \E q \in Procs : life[q] = "alive" /\ Host[q] = Host[s] /\ Pid[q] = Pid[s]

ProcessGone(s) == \/ ~PidInUse(s)
                  \/ life[s] = "dead" /\ Identity

\* Mutant of Stale: the owner's host forgotten.
StaleAcrossHosts(o, p) ==
  ~\E q \in Procs : life[q] = "alive" /\ Host[q] = Host[p] /\ Pid[q] = Pid[o.token]

\* demonstrablyStale(owner), judged by contender p from a record it has read.
Stale(o, p) ==
  /\ Host[o.token] = Host[p]
  /\ ProcessGone(o.token)

\* Mutant of NextRound: the loop ends after a successful reclaim.
NoNextRound(p) ==
  /\ attempt' = [attempt EXCEPT ![p] = @ + 1]
  /\ pc' = [pc EXCEPT ![p] = "failed"]

\* The end of one round of the acquisition loop.
NextRound(p) ==
  /\ attempt' = [attempt EXCEPT ![p] = @ + 1]
  /\ pc' = [pc EXCEPT ![p] = IF attempt[p] + 1 < MaxAttempts THEN "create" ELSE "failed"]

-----------------------------------------------------------------------------
\* A runner process starts and enters acquireSessionLease.  Its pid is free.
Start(p) ==
  /\ life[p] = "unborn"
  /\ ~PidInUse(p)
  /\ life' = [life EXCEPT ![p] = "alive"]
  /\ pc' = [pc EXCEPT ![p] = "create"]
  /\ UNCHANGED <<attempt, seen, leaseDir, tombstone, overtaken>>

\* createLeaseDirectory: rename(candidate, lease) succeeds when the target is
\* absent or an empty directory and fails with ENOTEMPTY otherwise.
Create(p) ==
  /\ pc[p] = "create"
  /\ IF Recorded(leaseDir)
       THEN /\ pc' = [pc EXCEPT ![p] = "recheck"]
            /\ UNCHANGED leaseDir
       ELSE /\ pc' = [pc EXCEPT ![p] = "held"]
            /\ leaseDir' = OwnerOf(p)
  /\ UNCHANGED <<life, attempt, seen, tombstone, overtaken>>

\* The catch block: contention is reported only if the lease still exists, and
\* the rename error escapes to the caller if it has been released meanwhile.
RecheckExists(p) ==
  /\ pc[p] = "recheck"
  /\ pc' = [pc EXCEPT ![p] = IF leaseDir = Absent THEN "failed" ELSE "inspect"]
  /\ UNCHANGED <<life, attempt, seen, leaseDir, tombstone, overtaken>>

\* readLeaseOwner of the contender; metadata that cannot be read is a conflict.
Inspect(p) ==
  /\ pc[p] = "inspect"
  /\ IF Recorded(leaseDir)
       THEN /\ seen' = [seen EXCEPT ![p] = leaseDir]
            /\ pc' = [pc EXCEPT ![p] = "check"]
       ELSE /\ pc' = [pc EXCEPT ![p] = "failed"]
            /\ UNCHANGED seen
  /\ UNCHANGED <<life, attempt, leaseDir, tombstone, overtaken>>

\* The process has removed its owner.json, or found that it is another's.
GaveUp(p) == pc[p] \in {"rmdir", "released"}

\* demonstrablyStale on the record read earlier, which its owner may have removed since.
CheckStale(p) ==
  /\ pc[p] = "check"
  /\ pc' = [pc EXCEPT ![p] = IF Stale(seen[p], p) THEN "reclaim" ELSE "failed"]
  /\ overtaken' = (overtaken \/ (Stale(seen[p], p) /\ GaveUp(seen[p].token)))
  /\ UNCHANGED <<life, attempt, seen, leaseDir, tombstone>>

\* Mutant of Reclaim: the tombstone is not retained.
ReclaimWithoutTombstone(p) ==
  /\ pc[p] = "reclaim"
  /\ leaseDir' = Absent
  /\ NextRound(p)
  /\ UNCHANGED <<life, seen, tombstone, overtaken>>

\* rename(lease, tombstone of the token read): it loses to ENOENT when the lease
\* is gone and to ENOTEMPTY when an earlier reclaim occupied the tombstone.
Reclaim(p) ==
  LET s == seen[p].token IN
  /\ pc[p] = "reclaim"
  /\ IF leaseDir = Absent \/ tombstone[s] = "occupied"
       THEN UNCHANGED <<leaseDir, tombstone>>
       ELSE /\ tombstone' = [tombstone EXCEPT ![s] = IF Recorded(leaseDir) THEN "occupied" ELSE "empty"]
            /\ leaseDir' = Absent
  /\ NextRound(p)
  /\ UNCHANGED <<life, seen, overtaken>>

-----------------------------------------------------------------------------
\* release(): the token check, and then rmSync unlinks owner.json ...
BeginRelease(p) ==
  /\ pc[p] = "held"
  /\ pc' = [pc EXCEPT ![p] = IF Recorded(leaseDir) /\ leaseDir.token = p THEN "unlink" ELSE "released"]
  /\ UNCHANGED <<life, attempt, seen, leaseDir, tombstone, overtaken>>

UnlinkOwner(p) ==
  /\ pc[p] = "unlink"
  /\ pc' = [pc EXCEPT ![p] = "rmdir"]
  /\ leaseDir' = IF leaseDir = Absent THEN Absent ELSE Empty
  /\ UNCHANGED <<life, attempt, seen, tombstone, overtaken>>

\* Mutant of RemoveDir: whatever is in the directory by now is removed with it.
RemoveFilledDir(p) ==
  /\ pc[p] = "rmdir"
  /\ pc' = [pc EXCEPT ![p] = "released"]
  /\ leaseDir' = Absent
  /\ UNCHANGED <<life, attempt, seen, tombstone, overtaken>>

\* ... and removes the directory, which fails if a contender has filled it.
RemoveDir(p) ==
  /\ pc[p] = "rmdir"
  /\ pc' = [pc EXCEPT ![p] = "released"]
  /\ leaseDir' = IF Recorded(leaseDir) THEN leaseDir ELSE Absent
  /\ UNCHANGED <<life, attempt, seen, tombstone, overtaken>>

\* Process exit and kill: at any point, also between two calls of a release.
Die(p) ==
  /\ life[p] = "alive"
  /\ life' = [life EXCEPT ![p] = "dead"]
  /\ UNCHANGED <<pc, attempt, seen, leaseDir, tombstone, overtaken>>

-----------------------------------------------------------------------------
Init ==
  /\ life = [p \in Procs |-> "unborn"]
  /\ pc = [p \in Procs |-> "idle"]
  /\ attempt = [p \in Procs |-> 0]
  /\ seen = [p \in Procs |-> NoOwner]
  /\ leaseDir = Absent
  /\ tombstone = [p \in Procs |-> "absent"]
  /\ overtaken = FALSE

\* The steps of acquireSessionLease, which has no await in it.
Acquire(p) ==
  Create(p) \/ RecheckExists(p) \/ Inspect(p) \/ CheckStale(p) \/ Reclaim(p)

\* The steps of release().
Release(p) == BeginRelease(p) \/ UnlinkOwner(p) \/ RemoveDir(p)

Step(p) ==
  /\ life[p] = "alive"
  /\ \/ Acquire(p)
     \/ Release(p)

Next == \E p \in Procs : Start(p) \/ Step(p) \/ Die(p)

Spec == Init /\ [][Next]_vars

\* Acquisition is straight-line synchronous code: a live process finishes it.
\* Nothing obliges a process to start, to release or to die.
FairSpec == Spec /\ \A p \in Procs : WF_vars(life[p] = "alive" /\ Acquire(p))

-----------------------------------------------------------------------------
\* Every variable stays within its domain.
TypeOK ==
  /\ life \in [Procs -> {"unborn", "alive", "dead"}]
  /\ pc \in [Procs -> PCs]
  /\ attempt \in [Procs -> 0..MaxAttempts]
  /\ seen \in [Procs -> Owners \cup {NoOwner}]
  /\ leaseDir \in Owners \cup {Absent, Empty}
  /\ tombstone \in [Procs -> {"absent", "empty", "occupied"}]
  /\ overtaken \in BOOLEAN

\* At most one live process holds the lease of a session file, whatever the
\* contenders, crashes, partial releases and pid reuse (session-lease.ts:278-280).
MutualExclusion ==
  \A p, q \in Procs : Holds(p) /\ Holds(q) => p = q

\* Exclusion is lost in one way only: a contender read the record of an owner that then
\* gave the lease up and exited before the contender's probes.  Readings, probes and
\* moves of any contenders, kills at any call, half-done releases and reused pids
\* never let a second process in otherwise (session-lease.ts:274-288).
TakeoversExclude == ~overtaken => MutualExclusion

\* A live holder's own record is the one in the lease directory, so its release acts on
\* its own lease (session-lease.ts:265-268).
HolderIsRecorded ==
  \A p \in Procs : Holds(p) => Recorded(leaseDir) /\ leaseDir.token = p

\* The promise of LeaseContract: the record is the owner record in the directory, and a
\* process has taken the lease while it Holds it.
LeaseRecord  == IF Recorded(leaseDir) THEN {leaseDir.token} ELSE {}
LeaseHolders == {p \in Procs : Holds(p)}

Contract == INSTANCE LeaseContract WITH
  Clients <- Procs, record <- LeaseRecord, holders <- LeaseHolders

\* Until a contender was overtaken, every change of the directories, by whomever, is a
\* step of the contract: a taken session's record changes only when its holder gives it
\* up or is gone (session-lease.ts:202-292).
KeepsContract ==
  /\ Contract!Init
  /\ [][overtaken' \/ Contract!Next]_(<<LeaseRecord, LeaseHolders>>)

\* The tombstone's contract without any assumption on scheduling: as long as owners
\* only crash and nobody has begun a release, contenders that judged the same
\* token stale elect one successor (session-lease.ts:278-288).
NobodyReleased == \A p \in Procs : pc[p] \notin {"unlink", "rmdir", "released"}

CrashesKeepExclusion == NobodyReleased => MutualExclusion

\* Why exclusion holds: a contender that is about to move the lease of token s finds
\* either s's own lease, s being dead, or s's occupied tombstone in the way; before its
\* probes s may have given the lease up.
ReclaimJustified ==
  ~overtaken => \A p \in Procs :
    /\ life[p] = "alive" /\ pc[p] \in {"check", "reclaim"} =>
         /\ Recorded(seen[p])
         /\ \/ tombstone[seen[p].token] = "occupied"
            \/ Recorded(leaseDir) /\ leaseDir.token = seen[p].token
            \/ pc[p] = "check" /\ GaveUp(seen[p].token)
    /\ life[p] = "alive" /\ pc[p] = "reclaim" => life[seen[p].token] = "dead"

\* A lease left by a crashed owner does not stay for ever: once a
\* live contender of its host is in the acquisition loop somebody acquires, unless
\* a contender is killed or the dead owner's pid is in use again.  Killing is an
\* honest excuse: a contender whose rename lost to a lease that is then reclaimed
\* throws the raw rename error (193-196) and leaves the work to the reclaimer.
StaleElectsSuccessor ==
  \A s \in Procs :
    (/\ life[s] = "dead" /\ leaseDir = OwnerOf(s)
     /\ \E p \in Procs : life[p] = "alive" /\ pc[p] = "create" /\ Host[p] = Host[s])
    ~> \/ \E q \in Procs \ {s} : pc[q] \in {"held", "unlink", "rmdir", "released"}
       \/ \E q \in Procs \ {s} : life[q] = "dead"
       \/ PidInUse(s)
=============================================================================
