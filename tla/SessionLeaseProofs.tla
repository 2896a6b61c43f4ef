------------------------- MODULE SessionLeaseProofs -------------------------
(***************************************************************************)
(* Proofs about SessionLease for any number of processes, any assignment   *)
(* of hosts and pids, with or without process start identities: the types, *)
(* and, until a contender was overtaken by a release, mutual exclusion and *)
(* the steps of LeaseContract; as long as owners only crash no contender   *)
(* is overtaken.                                                           *)
(***************************************************************************)
EXTENDS SessionLease, TLAPS

-----------------------------------------------------------------------------
\* The strengthening that is inductive.  HolderIsRecorded says where a live
\* holder's lease is, ReclaimJustified what a reclaimer will find; the rest says
\* that recorded owners have started, have not given up what is recorded, and that a
\* contender is overtaken by releases only.
OwnersStarted ==
  Recorded(leaseDir) => life[leaseDir.token] # "unborn"

RecordNotGivenUp ==
  ~overtaken /\ Recorded(leaseDir) => ~GaveUp(leaseDir.token)

OvertakenByRelease == overtaken => ~NobodyReleased

RoundsLeft ==
  \A p \in Procs :
    /\ life[p] = "unborn" => pc[p] = "idle"
    /\ pc[p] \in {"idle", "create", "recheck", "inspect", "check", "reclaim"} =>
         attempt[p] < MaxAttempts

SeenStarted ==
  \A p \in Procs : Recorded(seen[p]) => life[seen[p].token] # "unborn"

IInv ==
  /\ TypeOK
  /\ RoundsLeft
  /\ OwnersStarted
  /\ SeenStarted
  /\ ~overtaken => HolderIsRecorded
  /\ RecordNotGivenUp
  /\ OvertakenByRelease
  /\ ReclaimJustified

-----------------------------------------------------------------------------
\* Every step keeps the variables in their domains: no call of acquire or
\* release leaves the states the source knows.
LEMMA TypeStep == TypeOK /\ RoundsLeft /\ [Next]_vars => TypeOK' /\ RoundsLeft'
<1> SUFFICES ASSUME TypeOK, RoundsLeft, [Next]_vars PROVE TypeOK' /\ RoundsLeft'
  OBVIOUS
<1> USE LeaseAssumption DEF TypeOK, PCs, RoundsLeft
<1>1. ASSUME NEW p \in Procs, Start(p) PROVE TypeOK' /\ RoundsLeft'
  BY <1>1 DEF Start
<1>2. ASSUME NEW p \in Procs, life[p] = "alive", Create(p) PROVE TypeOK' /\ RoundsLeft'
  BY <1>2 DEF Create, OwnerOf, Owners
<1>3. ASSUME NEW p \in Procs, life[p] = "alive", RecheckExists(p) PROVE TypeOK' /\ RoundsLeft'
  BY <1>3 DEF RecheckExists
<1>4. ASSUME NEW p \in Procs, life[p] = "alive", Inspect(p) PROVE TypeOK' /\ RoundsLeft'
  <2>1. CASE Recorded(leaseDir)
    <3>1. leaseDir \in Owners
      BY <2>1 DEF Recorded, Absent, Empty
    <3>2. seen' \in [Procs -> Owners \cup {NoOwner}]
      BY <1>4, <2>1, <3>1 DEF Inspect
    <3>3. pc' \in [Procs -> PCs] /\ RoundsLeft'
      BY <1>4, <2>1 DEF Inspect
    <3> QED
      BY <1>4, <3>2, <3>3 DEF Inspect
  <2>2. CASE ~Recorded(leaseDir)
    BY <1>4, <2>2 DEF Inspect
  <2> QED
    BY <2>1, <2>2
<1>5. ASSUME NEW p \in Procs, life[p] = "alive", CheckStale(p) PROVE TypeOK' /\ RoundsLeft'
  BY <1>5 DEF CheckStale
<1>6. ASSUME NEW p \in Procs, life[p] = "alive", Reclaim(p) PROVE TypeOK' /\ RoundsLeft'
  <2>1. attempt' \in [Procs -> 0..MaxAttempts] /\ pc' \in [Procs -> PCs] /\ RoundsLeft'
    BY <1>6 DEF Reclaim, NextRound
  <2>2. /\ leaseDir' \in Owners \cup {Absent, Empty}
        /\ tombstone' \in [Procs -> {"absent", "empty", "occupied"}]
    BY <1>6 DEF Reclaim
  <2> QED
    BY <1>6, <2>1, <2>2 DEF Reclaim
<1>7. ASSUME NEW p \in Procs, life[p] = "alive", BeginRelease(p) PROVE TypeOK' /\ RoundsLeft'
  BY <1>7 DEF BeginRelease
<1>8. ASSUME NEW p \in Procs, life[p] = "alive", UnlinkOwner(p) PROVE TypeOK' /\ RoundsLeft'
  BY <1>8 DEF UnlinkOwner
<1>9. ASSUME NEW p \in Procs, life[p] = "alive", RemoveDir(p) PROVE TypeOK' /\ RoundsLeft'
  BY <1>9 DEF RemoveDir
<1>10. ASSUME NEW p \in Procs, Die(p) PROVE TypeOK' /\ RoundsLeft'
  BY <1>10 DEF Die
<1>11. CASE UNCHANGED vars
  BY <1>11 DEF vars
<1> QED
  BY <1>1, <1>2, <1>3, <1>4, <1>5, <1>6, <1>7, <1>8, <1>9, <1>10, <1>11
     DEF Next, Step, Acquire, Release

LEMMA InitTypes == Init => TypeOK /\ RoundsLeft
<1> SUFFICES ASSUME Init PROVE TypeOK /\ RoundsLeft
  OBVIOUS
<1>1. overtaken \in BOOLEAN
  BY Zenon DEF Init
<1>2. /\ life \in [Procs -> {"unborn", "alive", "dead"}] /\ pc \in [Procs -> PCs]
      /\ attempt \in [Procs -> 0..MaxAttempts] /\ seen \in [Procs -> Owners \cup {NoOwner}]
      /\ leaseDir \in Owners \cup {Absent, Empty}
      /\ tombstone \in [Procs -> {"absent", "empty", "occupied"}]
  BY LeaseAssumption DEF Init, PCs
<1>3. RoundsLeft
  BY LeaseAssumption DEF Init, RoundsLeft
<1> QED
  BY <1>1, <1>2, <1>3, Zenon DEF TypeOK

\* The variables keep their types in every behaviour of the lease protocol.
THEOREM TypeCorrect == Spec => []TypeOK
<1>1. Init => TypeOK /\ RoundsLeft
  BY LeaseAssumption, InitTypes
<1>2. TypeOK /\ RoundsLeft /\ [Next]_vars => (TypeOK /\ RoundsLeft)'
  BY TypeStep
<1> QED
  BY <1>1, <1>2, PTL DEF Spec

-----------------------------------------------------------------------------
\* A recorded or remembered owner has run.
LEMMA StartedStep ==
  TypeOK /\ RoundsLeft /\ OwnersStarted /\ SeenStarted /\ [Next]_vars
    => OwnersStarted' /\ SeenStarted'
<1> SUFFICES ASSUME TypeOK, RoundsLeft, OwnersStarted, SeenStarted, [Next]_vars
             PROVE OwnersStarted' /\ SeenStarted'
  OBVIOUS
<1> USE LeaseAssumption DEF TypeOK, OwnersStarted, SeenStarted
<1>0. /\ ~Recorded(Absent) /\ ~Recorded(Empty) /\ ~Recorded(NoOwner)
      /\ \A o \in Owners : Recorded(o) /\ o.token \in Procs
      /\ \A p : OwnerOf(p).token = p
  BY DEF Recorded, Absent, Empty, NoOwner, Owners, OwnerOf
<1>1. ASSUME NEW p \in Procs, Start(p) PROVE OwnersStarted' /\ SeenStarted'
  BY <1>0, <1>1 DEF Start
<1>2. ASSUME NEW p \in Procs, life[p] = "alive", Create(p)
      PROVE OwnersStarted' /\ SeenStarted'
  BY <1>0, <1>2 DEF Create
<1>3. ASSUME NEW p \in Procs, life[p] = "alive", RecheckExists(p)
      PROVE OwnersStarted' /\ SeenStarted'
  BY <1>0, <1>3 DEF RecheckExists
<1>4. ASSUME NEW p \in Procs, life[p] = "alive", Inspect(p)
      PROVE OwnersStarted' /\ SeenStarted'
  BY <1>0, <1>4 DEF Inspect
<1>5. ASSUME NEW p \in Procs, life[p] = "alive", CheckStale(p)
      PROVE OwnersStarted' /\ SeenStarted'
  BY <1>0, <1>5 DEF CheckStale
<1>6. ASSUME NEW p \in Procs, life[p] = "alive", Reclaim(p)
      PROVE OwnersStarted' /\ SeenStarted'
  <2>1. leaseDir' \in {leaseDir, Absent}
    BY <1>6 DEF Reclaim
  <2> QED
    BY <1>0, <1>6, <2>1 DEF Reclaim
<1>7. ASSUME NEW p \in Procs, life[p] = "alive", BeginRelease(p)
       PROVE OwnersStarted' /\ SeenStarted'
  BY <1>0, <1>7 DEF BeginRelease
<1>8. ASSUME NEW p \in Procs, life[p] = "alive", UnlinkOwner(p)
       PROVE OwnersStarted' /\ SeenStarted'
  BY <1>0, <1>8 DEF UnlinkOwner
<1>9. ASSUME NEW p \in Procs, life[p] = "alive", RemoveDir(p)
       PROVE OwnersStarted' /\ SeenStarted'
  BY <1>0, <1>9 DEF RemoveDir
<1>10. ASSUME NEW p \in Procs, Die(p) PROVE OwnersStarted' /\ SeenStarted'
  BY <1>0, <1>10 DEF Die
<1>11. CASE UNCHANGED vars
  BY <1>11 DEF vars
<1> QED
  BY <1>1, <1>2, <1>3, <1>4, <1>5, <1>6, <1>7, <1>8, <1>9, <1>10, <1>11
     DEF Next, Step, Acquire, Release

\* A release that has begun stays visible, and so does what was given up.
LEMMA ReleaseStays ==
  ASSUME TypeOK, RoundsLeft, [Next]_vars, NEW r \in Procs
  PROVE  /\ pc[r] \in {"unlink", "rmdir", "released"} => pc'[r] \in {"unlink", "rmdir", "released"}
         /\ GaveUp(r) => GaveUp(r)'
<1> DEFINE Goal ==
      /\ pc[r] \in {"unlink", "rmdir", "released"} => pc'[r] \in {"unlink", "rmdir", "released"}
      /\ pc[r] \in {"rmdir", "released"} => pc'[r] \in {"rmdir", "released"}
<1> SUFFICES Goal
  BY DEF GaveUp
<1>1. ASSUME NEW p \in Procs, Start(p) PROVE Goal
  BY <1>1 DEF Start, TypeOK, RoundsLeft
<1>2. ASSUME NEW p \in Procs, Acquire(p) PROVE Goal
  BY <1>2 DEF Acquire, Create, RecheckExists, Inspect, CheckStale, Reclaim, NextRound, TypeOK
<1>3. ASSUME NEW p \in Procs, Release(p) PROVE Goal
  BY <1>3 DEF Release, BeginRelease, UnlinkOwner, RemoveDir, TypeOK
<1>4. ASSUME NEW p \in Procs, Die(p) PROVE Goal
  BY <1>4 DEF Die
<1>5. CASE UNCHANGED vars
  BY <1>5 DEF vars
<1> QED
  BY <1>1, <1>2, <1>3, <1>4, <1>5 DEF Next, Step

\* A process that has run and that a probe reports gone is dead, whether or not
\* its pid has been reused (processDemonstrablyGone).
LEMMA GoneIsDead ==
  ASSUME TypeOK, NEW s \in Procs, ProcessGone(s), life[s] # "unborn"
  PROVE  life[s] = "dead"
BY DEF TypeOK, ProcessGone, PidInUse

\* Being overtaken is remembered, and only a release overtakes a contender.
LEMMA OvertakenStep ==
  ASSUME IInv, [Next]_vars
  PROVE  /\ overtaken => overtaken'
         /\ OvertakenByRelease'
<1>1. \/ overtaken' = overtaken
      \/ \E p \in Procs : /\ pc[p] = "check" /\ life[p] = "alive"
                         /\ overtaken' = (overtaken \/ (Stale(seen[p], p) /\ GaveUp(seen[p].token)))
  BY DEF Next, Start, Step, Acquire, Create, RecheckExists, Inspect, CheckStale, Reclaim,
         NextRound, Release, BeginRelease, UnlinkOwner, RemoveDir, Die, vars
<1>2. overtaken => overtaken'
  BY <1>1
<1>3. ASSUME overtaken' PROVE \E r \in Procs : pc[r] \in {"unlink", "rmdir", "released"}
  <2>1. CASE overtaken
    BY <2>1 DEF IInv, OvertakenByRelease, NobodyReleased
  <2>2. CASE ~overtaken
    <3>1. PICK p \in Procs : pc[p] = "check" /\ life[p] = "alive" /\ GaveUp(seen[p].token)
      BY <1>1, <1>3, <2>2
    <3>2. seen[p].token \in Procs
      BY <2>2, <3>1 DEF IInv, ReclaimJustified, TypeOK, Recorded, Owners, NoOwner
    <3> QED
      BY <3>1, <3>2 DEF GaveUp
  <2> QED
    BY <2>1, <2>2
<1>4. OvertakenByRelease'
  BY <1>3, ReleaseStays DEF IInv, OvertakenByRelease, NobodyReleased
<1> QED
  BY <1>2, <1>4

-----------------------------------------------------------------------------
\* The step that carries the protocol: a reclaim justified by a dead owner's
\* lease or blocked by its tombstone never moves the lease of a live holder.
LEMMA ExclusionStep ==
  IInv /\ TypeOK' /\ SeenStarted' /\ [Next]_vars /\ ~overtaken' =>
    HolderIsRecorded' /\ ReclaimJustified'
<1> SUFFICES ASSUME IInv, TypeOK', SeenStarted', [Next]_vars, ~overtaken'
             PROVE HolderIsRecorded' /\ ReclaimJustified'
  OBVIOUS
<1> DEFINE Justified(p) ==
      /\ life[p] = "alive" /\ pc[p] \in {"check", "reclaim"} =>
           /\ Recorded(seen[p])
           /\ \/ tombstone[seen[p].token] = "occupied"
              \/ Recorded(leaseDir) /\ leaseDir.token = seen[p].token
              \/ pc[p] = "check" /\ GaveUp(seen[p].token)
      /\ life[p] = "alive" /\ pc[p] = "reclaim" => life[seen[p].token] = "dead"
<1> DEFINE RecordedHolder(p) == Holds(p) => Recorded(leaseDir) /\ leaseDir.token = p
<1>a. ~overtaken
  BY OvertakenStep
<1>b. /\ TypeOK /\ OwnersStarted /\ SeenStarted /\ RoundsLeft
      /\ \A p \in Procs : Justified(p) /\ RecordedHolder(p)
  BY <1>a DEF IInv, ReclaimJustified, HolderIsRecorded
<1>c. /\ ~Recorded(Absent) /\ ~Recorded(Empty) /\ ~Recorded(NoOwner)
      /\ \A o \in Owners : Recorded(o) /\ o.token \in Procs
      /\ \A p : OwnerOf(p).token = p /\ Recorded(OwnerOf(p))
  BY DEF Recorded, Absent, Empty, NoOwner, Owners, OwnerOf
<1>d. SUFFICES ASSUME NEW r \in Procs PROVE Justified(r)' /\ RecordedHolder(r)'
  BY DEF ReclaimJustified, HolderIsRecorded
<1>e. \A q \in Procs : Recorded(seen[q]) => seen[q].token \in Procs
  BY <1>b, <1>c DEF TypeOK
<1>f. Recorded(leaseDir) => leaseDir \in Owners /\ leaseDir.token \in Procs
  BY <1>b, <1>c DEF TypeOK
<1>g. \A q \in Procs : pc[q] \in {"rmdir", "released"} => pc'[q] \in {"rmdir", "released"}
  BY <1>b, ReleaseStays DEF GaveUp
<1> HIDE DEF Justified, RecordedHolder
<1>1. ASSUME NEW p \in Procs, Start(p) PROVE Justified(r)' /\ RecordedHolder(r)'
  <2>1. Justified(r)'
    BY <1>1, <1>b, <1>e, <1>g DEF Start, TypeOK, Justified, GaveUp
  <2>2. RecordedHolder(r)'
    BY <1>1, <1>b DEF Start, TypeOK, RecordedHolder, Holds
  <2> QED
    BY <2>1, <2>2
<1>2. ASSUME NEW p \in Procs, life[p] = "alive", Create(p)
      PROVE Justified(r)' /\ RecordedHolder(r)'
  <2>1. CASE Recorded(leaseDir)
    BY <1>2, <1>b, <1>e, <1>g, <2>1 DEF Create, TypeOK, Justified, GaveUp, RecordedHolder, Holds
  <2>2. CASE ~Recorded(leaseDir)
    <3>1. ~Holds(r)
      BY <1>b, <2>2 DEF RecordedHolder
    <3>2. RecordedHolder(r)'
      BY <1>2, <1>b, <1>c, <2>2, <3>1 DEF Create, TypeOK, RecordedHolder, Holds
    <3>3. Justified(r)'
      BY <1>2, <1>b, <1>e, <1>g, <1>c, <2>2 DEF Create, TypeOK, Justified, GaveUp
    <3> QED
      BY <3>2, <3>3
  <2> QED
    BY <2>1, <2>2
<1>3. ASSUME NEW p \in Procs, life[p] = "alive", RecheckExists(p)
      PROVE Justified(r)' /\ RecordedHolder(r)'
  BY <1>3, <1>b, <1>e, <1>g DEF RecheckExists, TypeOK, Justified, GaveUp, RecordedHolder, Holds
<1>4. ASSUME NEW p \in Procs, life[p] = "alive", Inspect(p)
      PROVE Justified(r)' /\ RecordedHolder(r)'
  <2>1. RecordedHolder(r)'
    BY <1>4, <1>b DEF Inspect, TypeOK, RecordedHolder, Holds
  <2>2. CASE Recorded(leaseDir)
    BY <1>4, <1>b, <1>e, <1>g, <2>1, <2>2 DEF Inspect, TypeOK, Justified, GaveUp
  <2>3. CASE ~Recorded(leaseDir)
    BY <1>4, <1>b, <1>e, <1>g, <2>1, <2>3 DEF Inspect, TypeOK, Justified, GaveUp
  <2> QED
    BY <2>2, <2>3
<1>5. ASSUME NEW p \in Procs, life[p] = "alive", CheckStale(p)
      PROVE Justified(r)' /\ RecordedHolder(r)'
  <2>1. RecordedHolder(r)'
    BY <1>5, <1>b DEF CheckStale, TypeOK, RecordedHolder, Holds
  <2>2. Recorded(seen[p])
    BY <1>5, <1>b, <1>e, <1>g DEF CheckStale, Justified, GaveUp
  <2>3. Stale(seen[p], p) => life[seen[p].token] = "dead"
    BY <1>b, <1>e, <2>2, GoneIsDead DEF Stale, SeenStarted
  <2>4. Stale(seen[p], p) => ~(pc[seen[p].token] \in {"rmdir", "released"})
    BY <1>5 DEF CheckStale, GaveUp
  <2>5. CASE r = p
    BY <1>5, <1>b, <1>e, <2>1, <2>2, <2>3, <2>4, <2>5 DEF CheckStale, TypeOK, Justified, GaveUp
  <2>6. CASE r # p
    BY <1>5, <1>b, <1>e, <1>g, <2>1, <2>6 DEF CheckStale, TypeOK, Justified, GaveUp
  <2> QED
    BY <2>5, <2>6
<1>6. ASSUME NEW p \in Procs, life[p] = "alive", Reclaim(p)
      PROVE Justified(r)' /\ RecordedHolder(r)'
  <2> DEFINE s == seen[p].token
  <2>1. /\ s \in Procs /\ life[s] = "dead"
        /\ tombstone[s] = "occupied" \/ (Recorded(leaseDir) /\ leaseDir.token = s)
    BY <1>6, <1>b, <1>e, <1>g DEF Reclaim, Justified, GaveUp
  <2>2. /\ pc'[r] \in {"check", "reclaim"} => pc'[r] = pc[r]
        /\ pc'[r] \in {"held", "unlink"} => pc'[r] = pc[r]
        /\ life' = life /\ seen' = seen
    BY <1>6, <1>b DEF Reclaim, NextRound, TypeOK
  <2>3. CASE leaseDir = Absent \/ tombstone[s] = "occupied"
    <3>1. leaseDir' = leaseDir /\ tombstone' = tombstone
      BY <1>6, <2>3 DEF Reclaim
    <3> QED
      BY <1>b, <1>e, <1>g, <2>2, <3>1 DEF Justified, GaveUp, RecordedHolder, Holds
  <2>4. CASE ~(leaseDir = Absent \/ tombstone[s] = "occupied")
    <3>1. Recorded(leaseDir) /\ leaseDir.token = s
      BY <2>1, <2>4
    <3>2. leaseDir' = Absent /\ tombstone' = [tombstone EXCEPT ![s] = "occupied"]
      BY <1>6, <2>4, <3>1 DEF Reclaim
    <3>3. ~Holds(r)
      BY <1>b, <2>1, <3>1 DEF RecordedHolder, Holds
    <3>4. RecordedHolder(r)'
      BY <2>2, <3>3 DEF RecordedHolder, Holds
    <3>5. Justified(r)'
      <4>1. tombstone'[s] = "occupied" /\ \A q \in Procs : q # s => tombstone'[q] = tombstone[q]
        BY <1>b, <2>1, <3>2 DEF TypeOK
      <4> QED
        BY <1>b, <1>e, <1>g, <2>2, <3>1, <4>1 DEF Justified, GaveUp
    <3> QED
      BY <3>4, <3>5
  <2> QED
    BY <2>3, <2>4
<1>7. ASSUME NEW p \in Procs, life[p] = "alive", BeginRelease(p)
       PROVE Justified(r)' /\ RecordedHolder(r)'
  BY <1>7, <1>b, <1>e, <1>g DEF BeginRelease, TypeOK, Justified, GaveUp, RecordedHolder, Holds
<1>8. ASSUME NEW p \in Procs, life[p] = "alive", UnlinkOwner(p)
       PROVE Justified(r)' /\ RecordedHolder(r)'
  <2>2. Holds(p) /\ Recorded(leaseDir) /\ leaseDir.token = p
    BY <1>8, <1>b DEF UnlinkOwner, RecordedHolder, Holds
  <2>3. RecordedHolder(r)'
    BY <1>8, <1>b, <2>2 DEF UnlinkOwner, TypeOK, RecordedHolder, Holds
  <2>4. Justified(r)'
    BY <1>8, <1>b, <1>e, <1>g, <2>2 DEF UnlinkOwner, TypeOK, GaveUp, Justified
  <2> QED
    BY <2>3, <2>4
<1>9. ASSUME NEW p \in Procs, life[p] = "alive", RemoveDir(p)
       PROVE Justified(r)' /\ RecordedHolder(r)'
  <2>1. Recorded(leaseDir) => leaseDir' = leaseDir
    BY <1>9 DEF RemoveDir
  <2> QED
    BY <1>9, <1>b, <1>e, <1>g, <2>1 DEF RemoveDir, TypeOK, Justified, GaveUp, RecordedHolder, Holds
<1>10. ASSUME NEW p \in Procs, Die(p) PROVE Justified(r)' /\ RecordedHolder(r)'
  BY <1>10, <1>b, <1>e, <1>g DEF Die, TypeOK, Justified, GaveUp, RecordedHolder, Holds
<1>11. CASE UNCHANGED vars
  BY <1>11, <1>b, <1>e, <1>g DEF vars, Justified, GaveUp, RecordedHolder, Holds
<1> QED
  BY <1>1, <1>2, <1>3, <1>4, <1>5, <1>6, <1>7, <1>8, <1>9, <1>10, <1>11
     DEF Next, Step, Acquire, Release

\* The record in the directory is never that of an owner that gave it up.
LEMMA NotGivenUpStep ==
  ASSUME IInv, ~overtaken', [Next]_vars, Recorded(leaseDir)'
  PROVE  ~GaveUp(leaseDir.token)'
<1>a. ~overtaken
  BY OvertakenStep
<1>b. /\ TypeOK
      /\ \A p \in Procs : Holds(p) => Recorded(leaseDir) /\ leaseDir.token = p
      /\ Recorded(leaseDir) => leaseDir.token \in Procs /\ ~GaveUp(leaseDir.token)
  BY <1>a DEF IInv, HolderIsRecorded, RecordNotGivenUp, TypeOK, Owners, Recorded, Absent, Empty
<1>c. /\ ~Recorded(Absent) /\ ~Recorded(Empty)
      /\ \A p : OwnerOf(p).token = p /\ Recorded(OwnerOf(p))
  BY DEF Recorded, Absent, Empty, OwnerOf
<1>1. ASSUME NEW p \in Procs, life[p] = "alive", Create(p) PROVE ~GaveUp(leaseDir.token)'
  BY <1>1, <1>b, <1>c DEF Create, GaveUp, TypeOK
<1>2. ASSUME NEW p \in Procs, life[p] = "alive",
             RecheckExists(p) \/ Inspect(p) \/ CheckStale(p) \/ Reclaim(p)
      PROVE ~GaveUp(leaseDir.token)'
  <2>1. leaseDir' = leaseDir
    BY <1>2, <1>c DEF RecheckExists, Inspect, CheckStale, Reclaim
  <2>2. PICK stage \in {"create", "inspect", "check", "reclaim", "failed"} : pc' = [pc EXCEPT ![p] = stage]
    BY <1>2 DEF RecheckExists, Inspect, CheckStale, Reclaim, NextRound
  <2> QED
    BY <1>b, <2>1, <2>2 DEF GaveUp, TypeOK
<1>3. ASSUME NEW p \in Procs, life[p] = "alive", BeginRelease(p)
      PROVE ~GaveUp(leaseDir.token)'
  BY <1>3, <1>b DEF BeginRelease, Holds, GaveUp, TypeOK
<1>4. ASSUME NEW p \in Procs, life[p] = "alive", UnlinkOwner(p)
      PROVE ~GaveUp(leaseDir.token)'
  BY <1>4, <1>c DEF UnlinkOwner
<1>5. ASSUME NEW p \in Procs, life[p] = "alive", RemoveDir(p)
      PROVE ~GaveUp(leaseDir.token)'
  BY <1>5, <1>b, <1>c DEF RemoveDir, GaveUp, TypeOK
<1>6. ASSUME NEW p \in Procs, Start(p) PROVE ~GaveUp(leaseDir.token)'
  BY <1>6, <1>b DEF Start, GaveUp, TypeOK
<1>7. ASSUME NEW p \in Procs, Die(p) PROVE ~GaveUp(leaseDir.token)'
  BY <1>7, <1>b DEF Die, GaveUp
<1>8. CASE UNCHANGED vars
  BY <1>8, <1>b DEF vars, GaveUp
<1> QED
  BY <1>1, <1>2, <1>3, <1>4, <1>5, <1>6, <1>7, <1>8 DEF Next, Step, Acquire, Release

-----------------------------------------------------------------------------
\* The inductive invariant holds in every behaviour.
THEOREM Inductive == Spec => []IInv
<1>1. Init => IInv
  <2> SUFFICES ASSUME Init PROVE IInv
    OBVIOUS
  <2>1. ~overtaken
    BY Zenon DEF Init
  <2>2. OwnersStarted /\ SeenStarted /\ HolderIsRecorded /\ ReclaimJustified /\ RecordNotGivenUp
    BY DEF Init, OwnersStarted, SeenStarted, HolderIsRecorded, RecordNotGivenUp, ReclaimJustified,
           Holds, Recorded, Absent, NoOwner
  <2> QED
    BY InitTypes, <2>1, <2>2 DEF IInv, OvertakenByRelease
<1>2. IInv /\ [Next]_vars => IInv'
  <2> SUFFICES ASSUME IInv, [Next]_vars PROVE IInv'
    OBVIOUS
  <2>1. TypeOK' /\ RoundsLeft'
    BY TypeStep DEF IInv
  <2>2. OwnersStarted' /\ SeenStarted'
    BY StartedStep DEF IInv
  <2>3. ~overtaken' => HolderIsRecorded' /\ ReclaimJustified'
    BY <2>1, <2>2, ExclusionStep
  <2>4. ReclaimJustified' /\ RecordNotGivenUp'
    BY <2>3, NotGivenUpStep DEF ReclaimJustified, RecordNotGivenUp
  <2>5. OvertakenByRelease'
    BY OvertakenStep
  <2> QED
    BY <2>1, <2>2, <2>3, <2>4, <2>5 DEF IInv
<1> QED
  BY <1>1, <1>2, PTL DEF Spec

\* Two processes hold the lease of a session file only after a contender probed for an
\* owner that had given the lease up since it was read, for any number of contenders,
\* crashes, partial releases and reused pids (acquireSessionLease,
\* session-lease.ts:274-288).
THEOREM TakeoverExcludes == Spec => []TakeoversExclude
<1>1. IInv => TakeoversExclude
  BY DEF IInv, HolderIsRecorded, MutualExclusion, TakeoversExclude
<1> QED
  BY <1>1, Inductive, PTL

\* As long as owners only crash, at most one live process holds the lease however
\* reading, judging and moving interleave: this is what the retained tombstone
\* buys (session-lease.ts:278-280).
THEOREM TombstoneExcludes == Spec => []CrashesKeepExclusion
<1>1. IInv => CrashesKeepExclusion
  BY DEF IInv, OvertakenByRelease, HolderIsRecorded, MutualExclusion, CrashesKeepExclusion
<1> QED
  BY <1>1, Inductive, PTL

-----------------------------------------------------------------------------
\* What an action that leaves the pcs of holders alone does not change.
LEMMA HoldersStay ==
  ASSUME TypeOK, NEW p \in Procs, NEW stage, pc' = [pc EXCEPT ![p] = stage], life' = life,
         ~(stage \in {"held", "unlink"}) <=> ~(pc[p] \in {"held", "unlink"})
  PROVE  LeaseHolders' = LeaseHolders
<1>1. \A q \in Procs : pc'[q] \in {"held", "unlink"} <=> pc[q] \in {"held", "unlink"}
  BY DEF TypeOK
<1> QED
  BY <1>1 DEF LeaseHolders, Holds

\* Every system call of the protocol and every kill is a step of the contract or does
\* not concern it, until a contender was overtaken.
LEMMA ContractStep ==
  ASSUME IInv, ~overtaken', [Next]_vars
  PROVE  [Contract!Next]_(<<LeaseRecord, LeaseHolders>>)
<1> DEFINE Keeps == UNCHANGED <<LeaseRecord, LeaseHolders>>
           Goal == Contract!Next \/ Keeps
<1> SUFFICES Goal
  OBVIOUS
<1>s. ~overtaken
  BY OvertakenStep
<1>a. /\ TypeOK
      /\ \A p \in Procs : Holds(p) => Recorded(leaseDir) /\ leaseDir.token = p
  BY <1>s DEF IInv, HolderIsRecorded
<1>b. /\ ~Recorded(Absent) /\ ~Recorded(Empty)
      /\ \A p : OwnerOf(p).token = p /\ Recorded(OwnerOf(p))
  BY DEF Recorded, Absent, Empty, OwnerOf
<1>c. leaseDir' = leaseDir => LeaseRecord' = LeaseRecord
  BY DEF LeaseRecord
<1>e. /\ life' = life /\ pc' = pc => LeaseHolders' = LeaseHolders
  BY DEF LeaseHolders, Holds
<1>f. ~Recorded(leaseDir) => LeaseHolders = {}
  BY <1>a DEF LeaseHolders
<1> HIDE DEF Keeps, Goal
<1>1. ASSUME NEW p \in Procs, Start(p) PROVE Goal
  <2>1. life[p] = "unborn" /\ life' = [life EXCEPT ![p] = "alive"] /\ pc' = [pc EXCEPT ![p] = "create"]
    BY <1>1 DEF Start
  <2>2. \A q \in Procs : Holds(q)' <=> Holds(q)
    BY <1>a, <2>1 DEF TypeOK, Holds
  <2> QED
    BY <1>1, <1>c, <2>2 DEF Start, Goal, Keeps, LeaseHolders
<1>2. ASSUME NEW p \in Procs, life[p] = "alive", Create(p) PROVE Goal
  <2>1. CASE Recorded(leaseDir)
    <3>1. LeaseHolders' = LeaseHolders
      BY <1>2, <1>a, <2>1, HoldersStay DEF Create
    <3> QED
      BY <1>2, <1>c, <2>1, <3>1 DEF Create, Goal, Keeps
  <2>2. CASE ~Recorded(leaseDir)
    <3>1. LeaseHolders = {} /\ \A q \in Procs : ~Holds(q)
      BY <1>f, <2>2 DEF LeaseHolders
    <3>2. \A q \in Procs : Holds(q)' <=> q = p
      BY <1>2, <1>a, <2>2, <3>1 DEF Create, TypeOK, Holds
    <3>3. LeaseHolders' = {p}
      BY <3>2 DEF LeaseHolders
    <3>4. LeaseRecord' = {p}
      BY <1>2, <1>b, <2>2 DEF Create, LeaseRecord
    <3>5. Contract!Take(p)
      BY <1>2, <3>1, <3>3, <3>4 DEF Contract!Take
    <3> QED
      BY <3>5 DEF Goal, Contract!Next
  <2> QED
    BY <2>1, <2>2
<1>3. ASSUME NEW p \in Procs, RecheckExists(p) PROVE Goal
  <2>1. LeaseHolders' = LeaseHolders
    BY <1>3, <1>a, HoldersStay DEF RecheckExists
  <2> QED
    BY <1>3, <1>c, <2>1 DEF RecheckExists, Goal, Keeps
<1>4. ASSUME NEW p \in Procs, Inspect(p) PROVE Goal
  <2>1. PICK stage \in {"check", "failed"} : pc' = [pc EXCEPT ![p] = stage]
    BY <1>4 DEF Inspect
  <2>2. LeaseHolders' = LeaseHolders
    BY <1>4, <1>a, <2>1, HoldersStay DEF Inspect
  <2> QED
    BY <1>4, <1>c, <2>2 DEF Inspect, Goal, Keeps
<1>5. ASSUME NEW p \in Procs, CheckStale(p) PROVE Goal
  <2>1. PICK stage \in {"reclaim", "failed"} : pc' = [pc EXCEPT ![p] = stage]
    BY <1>5 DEF CheckStale
  <2>2. LeaseHolders' = LeaseHolders
    BY <1>5, <1>a, <2>1, HoldersStay DEF CheckStale
  <2> QED
    BY <1>5, <1>c, <2>2 DEF CheckStale, Goal, Keeps
<1>6. ASSUME NEW p \in Procs, life[p] = "alive", Reclaim(p) PROVE Goal
  <2>1. PICK stage \in {"create", "failed"} : pc' = [pc EXCEPT ![p] = stage]
    BY <1>6 DEF Reclaim, NextRound
  <2>2. LeaseHolders' = LeaseHolders
    BY <1>6, <1>a, <2>1, HoldersStay DEF Reclaim
  <2>3. CASE leaseDir = Absent \/ tombstone[seen[p].token] = "occupied"
    BY <1>6, <1>c, <2>2, <2>3 DEF Reclaim, Goal, Keeps
  <2>4. CASE leaseDir # Absent /\ tombstone[seen[p].token] # "occupied"
    <3>1. /\ Recorded(leaseDir) /\ leaseDir.token = seen[p].token
          /\ life[seen[p].token] = "dead"
      BY <1>6, <1>s, <2>4 DEF Reclaim, IInv, ReclaimJustified
    <3>2. LeaseHolders = {}
      BY <1>a, <3>1 DEF LeaseHolders, Holds
    <3>3. LeaseRecord' = {}
      BY <1>6, <1>b, <2>4 DEF Reclaim, LeaseRecord
    <3>4. Contract!Vacate
      BY <2>2, <3>2, <3>3 DEF Contract!Vacate
    <3> QED
      BY <3>4 DEF Goal, Contract!Next
  <2> QED
    BY <2>3, <2>4
<1>7. ASSUME NEW p \in Procs, life[p] = "alive", BeginRelease(p) PROVE Goal
  <2>1. Recorded(leaseDir) /\ leaseDir.token = p
    BY <1>7, <1>a DEF BeginRelease, Holds
  <2>2. LeaseHolders' = LeaseHolders
    BY <1>7, <1>a, <2>1, HoldersStay DEF BeginRelease
  <2> QED
    BY <1>7, <1>c, <2>2 DEF BeginRelease, Goal, Keeps
<1>8. ASSUME NEW p \in Procs, life[p] = "alive", UnlinkOwner(p) PROVE Goal
  <2>1. p \in LeaseHolders /\ LeaseRecord = {p}
    BY <1>8, <1>a DEF UnlinkOwner, LeaseHolders, Holds, LeaseRecord
  <2>2. \A q \in Procs : Holds(q)' <=> Holds(q) /\ q # p
    BY <1>8, <1>a DEF UnlinkOwner, TypeOK, Holds
  <2>3. LeaseHolders' = LeaseHolders \ {p}
    BY <2>2 DEF LeaseHolders
  <2>4. LeaseRecord' = {}
    BY <1>8, <1>b DEF UnlinkOwner, LeaseRecord
  <2>5. Contract!GiveUp(p)
    BY <1>8, <2>1, <2>3, <2>4 DEF UnlinkOwner, Contract!GiveUp
  <2> QED
    BY <2>5 DEF Goal, Contract!Next
<1>9. ASSUME NEW p \in Procs, RemoveDir(p) PROVE Goal
  <2>1. LeaseHolders' = LeaseHolders
    BY <1>9, <1>a, HoldersStay DEF RemoveDir
  <2>2. LeaseRecord' = LeaseRecord
    BY <1>9, <1>b DEF RemoveDir, LeaseRecord
  <2> QED
    BY <1>9, <2>1, <2>2 DEF RemoveDir, Goal, Keeps
<1>10. ASSUME NEW p \in Procs, Die(p) PROVE Goal
  <2>1. \A q \in Procs : Holds(q)' <=> Holds(q) /\ q # p
    BY <1>10, <1>a DEF Die, TypeOK, Holds
  <2>2. LeaseHolders' = LeaseHolders \ {p}
    BY <2>1 DEF LeaseHolders
  <2>3. p \in LeaseHolders => Contract!Lose(p)
    BY <1>10, <1>c, <2>2 DEF Die, Contract!Lose
  <2>4. p \notin LeaseHolders => Keeps
    BY <1>10, <1>c, <2>2 DEF Die, Keeps
  <2> QED
    BY <2>3, <2>4 DEF Goal, Contract!Next
<1>11. CASE UNCHANGED vars
  BY <1>11, <1>c, <1>e DEF vars, Goal, Keeps
<1> QED
  BY <1>1, <1>2, <1>3, <1>4, <1>5, <1>6, <1>7, <1>8, <1>9, <1>10, <1>11
     DEF Next, Step, Acquire, Release

\* So the directories keep the contract until a contender was overtaken: a session that is
\* held is taken by nobody else, and its record stays as it is (session-lease.ts:202-292).
THEOREM ImplementsContract == Spec => KeepsContract
<1>1. Init => Contract!Init
  BY DEF Init, Contract!Init, LeaseRecord, LeaseHolders, Holds, Recorded, Absent
<1>2. IInv /\ [Next]_vars => [overtaken' \/ Contract!Next]_(<<LeaseRecord, LeaseHolders>>)
  BY ContractStep
<1> QED
  BY <1>1, <1>2, Inductive, PTL DEF Spec, KeepsContract
=============================================================================
