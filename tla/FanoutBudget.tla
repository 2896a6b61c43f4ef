---------------------------- MODULE FanoutBudget ----------------------------
(***************************************************************************)
(* The fan-out budget of one top-level run                                 *)
(* (src/src/runs/shared/run-fanout-budget.ts): every process of the run's  *)
(* tree claims a slot file for each child it is about to start, a batch at *)
(* a time and under an admission lock, a directory that is taken over when *)
(* its owner is found dead.                                                *)
(*                                                                         *)
(* One batch of each process is followed.  The lock directory is known by  *)
(* its path only, so `lock' is what stands at that path.                   *)
(***************************************************************************)
EXTENDS Naturals, FiniteSets

CONSTANTS
  Admitters,    \* processes, each with one batch
  Batch,        \* the number of children of a process's batch
  FanoutLimit,  \* maxSubagentSpawnsPerRun
  MaxKills      \* bound on killed processes

\* A process is not an owner that nobody has; a batch of nothing takes no lock (217).
ASSUME FanoutAssumption ==
  /\ {"vacant", "unnamed"} \cap Admitters = {}
  /\ Batch \in [Admitters -> Nat \ {0}]
  /\ FanoutLimit \in Nat /\ MaxKills \in Nat

VARIABLES
  gate,       \* where each process is in commitRunFanoutBatch
  ownerSeen,  \* the owner of the lock it has read
  lock,       \* Vacant, Unnamed until owner.json is written, or the owner
  slots,      \* the slot files
  made,       \* the slot files each process has created
  placed,     \* how many of its paths it has dealt with
  kills,
  started,    \* history: the processes whose batch was committed
  robbed      \* history: the lock was taken from a live process

fanoutVars == <<gate, ownerSeen, lock, slots, made, placed, kills, started, robbed>>

Vacant == "vacant"
Unnamed == "unnamed"
Slots == 1..FanoutLimit

\* The process is gone: killed, or its command has ended.
Dead(p) == gate[p] \in {"exited", "killed"}

InLock(p) == gate[p] \in {"count", "claim", "commit", "undo", "release", "refused"}

Goes(p, g) == gate' = [gate EXCEPT ![p] = g]

\* mkdir: the lock is free, or somebody has it.
TryLock(p) ==
  /\ gate[p] = "lock"
  /\ IF lock = Vacant THEN lock' = Unnamed /\ Goes(p, "name")
                      ELSE Goes(p, "owner") /\ UNCHANGED lock
  /\ UNCHANGED <<ownerSeen, slots, made, placed, kills, started, robbed>>

\* owner.json is written into whatever stands at the path.  It fails when nothing
\* does, or for want of space, and then whatever stands there is removed.
NameLock(p) ==
  /\ gate[p] = "name"
  /\ \/ lock # Vacant /\ lock' = p /\ Goes(p, "count")
     \/ lock' = Vacant /\ Goes(p, "failed")
  /\ UNCHANGED <<ownerSeen, slots, made, placed, kills, started, robbed>>

ReadOwner(p) ==
  /\ gate[p] = "owner"
  /\ ownerSeen' = [ownerSeen EXCEPT ![p] = lock]
  /\ Goes(p, "probe")
  /\ UNCHANGED <<lock, slots, made, placed, kills, started, robbed>>

\* admissionLockIsStale: the owner that was read is dead; or nobody is named and the
\* directory is a minute old, which it is only after the death of its maker.
StaleOwner(p) ==
  \/ ownerSeen[p] \in Admitters /\ Dead(ownerSeen[p])
  \/ /\ ownerSeen[p] = Unnamed /\ lock = Unnamed
     /\ \A q \in Admitters : gate[q] # "name"

\* A lock that is not stale is waited for, as long as the retries last.
ProbeOwner(p) ==
  /\ gate[p] = "probe"
  /\ IF StaleOwner(p) THEN Goes(p, "evict") ELSE \E g \in {"lock", "failed"} : Goes(p, g)
  /\ ownerSeen' = [ownerSeen EXCEPT ![p] = Vacant]
  /\ UNCHANGED <<lock, slots, made, placed, kills, started, robbed>>

\* The stale lock is renamed away: whatever stands at the path by now.
Evict(p) ==
  /\ gate[p] = "evict"
  /\ lock' = Vacant
  /\ robbed' = (robbed \/ \E q \in Admitters : ~Dead(q) /\ (lock = q \/ (lock = Unnamed /\ gate[q] = "name")))
  /\ Goes(p, "lock")
  /\ UNCHANGED <<ownerSeen, slots, made, placed, kills, started>>

\* Mutant of CountSlots: a batch may be one slot too large.
CountSlotsLoose(p) ==
  /\ gate[p] = "count"
  /\ Goes(p, IF Batch[p] > FanoutLimit - Cardinality(slots) + 1 THEN "refused" ELSE "claim")
  /\ UNCHANGED <<ownerSeen, lock, slots, made, placed, kills, started, robbed>>

\* The snapshot before: a batch that does not fit is refused as a whole.
CountSlots(p) ==
  /\ gate[p] = "count"
  /\ Goes(p, IF Batch[p] > FanoutLimit - Cardinality(slots) THEN "refused" ELSE "claim")
  /\ UNCHANGED <<ownerSeen, lock, slots, made, placed, kills, started, robbed>>

\* One path: the first slot whose file does not exist yet; a path that finds none
\* goes without.  A slot that cannot be written fails the batch.
ClaimSlot(p) ==
  /\ gate[p] = "claim"
  /\ placed' = [placed EXCEPT ![p] = @ + 1]
  /\ \/ /\ \E slot \in Slots \ slots :
             /\ \A other \in Slots \ slots : slot <= other
             /\ slots' = slots \cup {slot}
             /\ made' = [made EXCEPT ![p] = @ \cup {slot}]
        /\ \E g \in {IF placed'[p] = Batch[p] THEN "commit" ELSE "claim", "undo"} : Goes(p, g)
     \/ /\ slots = Slots
        /\ Goes(p, IF placed'[p] = Batch[p] THEN "commit" ELSE "claim")
        /\ UNCHANGED <<slots, made>>
  /\ UNCHANGED <<ownerSeen, lock, kills, started, robbed>>

\* The commit callback persists the batch (it is started after that), or throws.
CommitBatch(p) ==
  /\ gate[p] = "commit"
  /\ \/ Goes(p, "release") /\ started' = started \cup {p}
     \/ Goes(p, "undo") /\ UNCHANGED started
  /\ UNCHANGED <<ownerSeen, lock, slots, made, placed, kills, robbed>>

\* The slots of a failed batch are removed, as far as they can be.
UndoBatch(p) ==
  /\ gate[p] = "undo"
  /\ \E stuck \in SUBSET made[p] : slots' = (slots \ made[p]) \cup stuck
  /\ made' = [made EXCEPT ![p] = {}]
  /\ Goes(p, "refused")
  /\ UNCHANGED <<ownerSeen, lock, placed, kills, started, robbed>>

\* The lock is removed by whoever still finds its own token in it.
ReleaseLock(p) ==
  /\ gate[p] \in {"release", "refused"}
  /\ lock' = IF lock = p THEN Vacant ELSE lock
  /\ Goes(p, IF gate[p] = "release" THEN "admitted" ELSE "failed")
  /\ UNCHANGED <<ownerSeen, slots, made, placed, kills, started, robbed>>

\* The process ends in its own time: a runner at the end of its run, for example.
Leave(p) ==
  /\ gate[p] \in {"admitted", "failed"}
  /\ Goes(p, "exited")
  /\ UNCHANGED <<ownerSeen, lock, slots, made, placed, kills, started, robbed>>

KillAdmitter(p) ==
  /\ ~Dead(p) /\ kills < MaxKills
  /\ Goes(p, "killed")
  /\ kills' = kills + 1
  /\ UNCHANGED <<ownerSeen, lock, slots, made, placed, started, robbed>>

-----------------------------------------------------------------------------
FanoutInit ==
  /\ gate = [p \in Admitters |-> "lock"]
  /\ ownerSeen = [p \in Admitters |-> Vacant]
  /\ lock = Vacant
  /\ slots = {}
  /\ made = [p \in Admitters |-> {}]
  /\ placed = [p \in Admitters |-> 0]
  /\ kills = 0
  /\ started = {}
  /\ robbed = FALSE

FanoutNext ==
  \E p \in Admitters :
    \/ TryLock(p) \/ NameLock(p) \/ ReadOwner(p) \/ ProbeOwner(p) \/ Evict(p)
    \/ CountSlots(p) \/ ClaimSlot(p) \/ CommitBatch(p) \/ UndoBatch(p) \/ ReleaseLock(p)
    \/ Leave(p) \/ KillAdmitter(p)

FanoutSpec == FanoutInit /\ [][FanoutNext]_fanoutVars

-----------------------------------------------------------------------------
Gates == {"lock", "name", "owner", "probe", "evict", "count", "claim", "commit", "undo",
          "release", "refused", "admitted", "failed", "exited", "killed"}

\* Every variable stays within its domain.
FanoutTypeOK ==
  /\ gate \in [Admitters -> Gates]
  /\ ownerSeen \in [Admitters -> Admitters \cup {Vacant, Unnamed}]
  /\ lock \in Admitters \cup {Vacant, Unnamed}
  /\ slots \subseteq Slots
  /\ made \in [Admitters -> SUBSET slots]
  /\ placed \in [Admitters -> Nat]
  /\ kills \in 0..MaxKills
  /\ started \subseteq Admitters
  /\ robbed \in BOOLEAN

\* Every child that is started has a slot of its own, so no more children are started
\* than the limit says, whatever batches fail and whoever dies, as long as the lock is
\* not taken from a live process (run-fanout-budget.ts:181).
AdmittedPaid ==
  ~robbed => \A p \in started : /\ Cardinality(made[p]) = Batch[p]
                               /\ \A q \in Admitters \ {p} : made[p] \cap made[q] = {}
=============================================================================
