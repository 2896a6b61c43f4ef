---------------------------- MODULE SideLiveProofs ----------------------------
(***************************************************************************)
(* Proofs about the components that MCSideLive runs side by side, for      *)
(* every value of their constants: a wait wakes its session once, script,  *)
(* parent and result of a workflow are told the same of a child, a child   *)
(* session ends cleanly, and a detached foreground run is followed to its  *)
(* end; and for each, what its liveness rests on.  They share no state;    *)
(* every theorem is about one of them.                                     *)
(***************************************************************************)
EXTENDS WaitSubscriptions, ScriptedWorkflow, ChildSession, ForegroundRun,
        FiniteSetTheorems, TLAPS

(* Waits *)

\* What a process has loaded is of the session it has open, and was armed; a record that
\* is not armed yet is unknown and nobody was told; and who was told has removed it.
LoadedOwn ==
  \A p \in Hosts, w \in Subs : w \in loaded[p] =>
    subFile[w] # "none" /\ open[p] = subOwner[w] /\ open[p] # NoSession
ArmedOwned == \A w \in Subs : subFile[w] = "armed" => subOwner[w] # NoSession
ToldGone ==
  \A p \in Hosts, w \in Subs :
    told[p][w] > 0 => told[p][w] = 1 /\ subFile[w] = "gone" /\ w \notin loaded[p]

\* Unless a session is open twice nobody else has a wait loaded that somebody was told of.
OpenOnce ==
  /\ \A p, q \in Hosts : p # q /\ open[p] = open[q] => open[p] = NoSession
  /\ \A p, q \in Hosts, w \in Subs : told[p][w] > 0 =>
       w \notin loaded[q] /\ (q # p => told[q][w] = 0)

WaitInv == WaitTypeOK /\ LoadedOwn /\ ArmedOwned /\ ToldGone /\ (~shared => OpenOnce)

(* Workflows *)

\* The queue holds the launches that wait for a permit, each once.
QueueWaits ==
  /\ \A i \in 1..Len(queue) : phase[queue[i]] = "queued"
  /\ \A i, j \in 1..Len(queue) : queue[i] = queue[j] => i = j

\* Every permit is in the pool or with a launch.
Permitted == {k \in Keys : phase[k] \in {"granted", "running"}}
PermitsCounted == IsFiniteSet(Permitted) /\ available + Cardinality(Permitted) = Limit

\* A launch that is not done has no outcome but that it was stopped; one that is done
\* was reported with its outcome, if at all, or has one that could not be read; and a child stopped without one is that of
\* an aborted workflow.
LaunchesTold ==
  \A k \in Keys :
    /\ ~Launched(k) => children[k] = "none" /\ k \notin stoppedLaunches
    /\ phase[k] # "done" =>
         /\ notified[k] = <<>> /\ answered[k] = "none"
         /\ children[k] = "none" \/ (children[k] = "stopped" /\ k \in stoppedLaunches)
    /\ phase[k] = "done" /\ k \notin stoppedLaunches => children[k] # "none"
    /\ k \in stoppedLaunches /\ children[k] = "none" => WorkflowOver
    /\ notified[k] # <<>> =>
         /\ notified[k] = <<children[k]>> \/ children[k] = "unread"
         /\ children[k] # "none"

WorkflowInv == WorkflowTypeOK /\ QueueWaits /\ PermitsCounted /\ LaunchesTold /\ OneStory

(* Child sessions *)

\* What was asked of the child is one thing; a steer without its outcome is accepted or
\* waits for a session, every call left a record, and the run ends after the child.
OneAsked == flags = {} \/ \E kind \in {"interrupt", "timeout", "stop"} : flags = {kind}
SteersFollowed ==
  /\ runDone => settled
  /\ \A q \in Steers :
       /\ record[q] \in {"routed", "queued"} => q \in accepted \/ call[q] = "waiting"
       /\ call[q] # "idle" => record[q] # "none"
       /\ call[q] = "waiting" /\ ~settled => record[q] = "routed"

ChildInv == ChildTypeOK /\ OneAsked /\ SteersFollowed /\ EndsCleanly

(* Foreground runs *)

\* Who still holds the control, what the end of the call and of the callback rest on, and
\* what was recorded and announced before.
EndsInOrder ==
  /\ ~Over => "child" \in held
  /\ Over => asking = 0
  /\ callback # "idle" => Over /\ receipt # "none"
  /\ fgCall # "running" /\ receipt = "none" => Over
  /\ remembered = "ended" => Over
  /\ callback # "over" => announced = 0

ForegroundInv == ForegroundTypeOK /\ EndsInOrder /\ FollowedToItsEnd

-----------------------------------------------------------------------------
(* Waits *)

\* No process has the name of none as a session.
LEMMA SessionNamed == \A s \in Sessions : s # NoSession
  BY WaitAssumption DEF NoSession

\* Every variable of the waits stays within its domain.
LEMMA WaitTypeStep ==
  ASSUME WaitTypeOK, [WaitNext]_waitVars
  PROVE  WaitTypeOK'
<1> USE WaitAssumption DEF WaitTypeOK
<1>1. ASSUME NEW p \in Hosts, NEW w \in Subs, NEW kind \in {"async", "foreground"},
             Arm(p, w, kind)
      PROVE  WaitTypeOK'
  <2>1. /\ subFile' \in [Subs -> {"none", "armed", "gone"}]
        /\ subOwner' \in [Subs -> Sessions \cup {NoSession}]
        /\ subKind' \in [Subs -> {"async", "foreground"}]
        /\ UNCHANGED <<age, target, opens, unlinkFails, told, shared>>
    BY <1>1 DEF Arm
  <2>2. /\ loaded' \in [Hosts -> SUBSET Subs] /\ known' \in [Hosts -> SUBSET Subs]
        /\ unresolved' \in [Hosts -> SUBSET Subs]
        /\ open' \in [Hosts -> Sessions \cup {NoSession}]
    <3>1. CASE ForgetsWaits(p)
      BY <3>1 DEF ForgetsWaits
    <3>2. CASE /\ loaded' = [loaded EXCEPT ![p] = @ \cup {w}]
               /\ known' = [known EXCEPT ![p] = IF kind = "foreground" THEN @ \cup {w} ELSE @]
               /\ UNCHANGED <<open, unresolved>>
      BY <3>2
    <3> QED
      BY <1>1, <3>1, <3>2 DEF Arm
  <2> QED
    BY <2>1, <2>2
<1>2. ASSUME NEW p \in Hosts, NEW s \in Sessions, OpenSession(p, s) PROVE WaitTypeOK'
  <2>1. opens' \in 0..MaxOpens
    <3>1. opens \in 0..MaxOpens /\ opens < MaxOpens /\ opens' = opens + 1
      BY <1>2 DEF OpenSession
    <3> QED
      BY <3>1
  <2>2. /\ open' \in [Hosts -> Sessions \cup {NoSession}]
        /\ subFile' \in [Subs -> {"none", "armed", "gone"}]
        /\ UNCHANGED <<subOwner, subKind, age, target, unlinkFails, told>>
    BY <1>2 DEF OpenSession
  <2>3. PICK mine \in SUBSET Subs, restored \in SUBSET Subs, rest \in SUBSET Subs :
          /\ loaded' = [loaded EXCEPT ![p] = mine]
          /\ known' = [known EXCEPT ![p] = restored]
          /\ unresolved' = [unresolved EXCEPT ![p] = rest]
    <3> DEFINE mine == {w \in Subs : subFile[w] = "armed" /\ subOwner[w] = s}
               foreground == {w \in mine : subKind[w] = "foreground"}
    <3>1. PICK restored \in SUBSET foreground :
            /\ loaded' = [loaded EXCEPT ![p] = mine]
            /\ known' = [known EXCEPT ![p] = restored]
            /\ unresolved' = [unresolved EXCEPT ![p] = foreground \ restored]
      BY <1>2 DEF OpenSession
    <3>2. mine \in SUBSET Subs /\ restored \in SUBSET Subs /\ foreground \ restored \in SUBSET Subs
      OBVIOUS
    <3> QED
      BY <3>1, <3>2
  <2>4. shared' \in BOOLEAN
    BY <1>2 DEF OpenSession
  <2> QED
    BY <2>1, <2>2, <2>3, <2>4
<1>3. ASSUME NEW p \in Hosts, CloseSession(p) PROVE WaitTypeOK'
  BY <1>3 DEF CloseSession, ForgetsWaits
<1>4. ASSUME NEW p \in Hosts, Sweep(p) PROVE WaitTypeOK'
  BY <1>4 DEF Sweep
<1>5. ASSUME NEW p \in Hosts, NEW w \in Subs, ReconcileWait(p, w) PROVE WaitTypeOK'
  <2>1. UNCHANGED <<open, subOwner, subKind, age, target, known, opens, shared>>
    BY <1>5 DEF ReconcileWait
  <2>2. Resolved(p, w) \in [Hosts -> SUBSET Subs]
    BY DEF Resolved
  <2>3. CASE /\ subFile' = [subFile EXCEPT ![w] = "gone"]
             /\ loaded' = [loaded EXCEPT ![p] = @ \ {w}]
             /\ unresolved' = [unresolved EXCEPT ![p] = @ \ {w}]
             /\ told' \in {told, [told EXCEPT ![p][w] = @ + 1]}
             /\ UNCHANGED unlinkFails
    <3>1. subFile' \in [Subs -> {"none", "armed", "gone"}]
      BY <2>3
    <3>2. loaded' \in [Hosts -> SUBSET Subs] /\ unresolved' \in [Hosts -> SUBSET Subs]
      BY <2>3
    <3>3. [told EXCEPT ![p][w] = @ + 1] \in [Hosts -> [Subs -> Nat]]
      OBVIOUS
    <3>4. told' \in [Hosts -> [Subs -> Nat]]
      BY <2>3, <3>3
    <3> QED
      BY <2>1, <2>3, <3>1, <3>2, <3>4
  <2>4. CASE /\ unlinkFails < MaxUnlinkFails /\ unlinkFails' = unlinkFails + 1
             /\ unresolved' = Resolved(p, w)
             /\ UNCHANGED <<subFile, loaded, told>>
    <3>1. unlinkFails \in 0..MaxUnlinkFails
      OBVIOUS
    <3>2. unlinkFails' \in 0..MaxUnlinkFails
      BY <2>4, <3>1
    <3> QED
      BY <2>1, <2>2, <2>4, <3>2
  <2>5. CASE unresolved' = Resolved(p, w) /\ UNCHANGED <<subFile, loaded, told, unlinkFails>>
    BY <2>1, <2>2, <2>5
  <2> QED
    BY <1>5, <2>3, <2>4, <2>5 DEF ReconcileWait, SettleWait
<1>6. ASSUME NEW p \in Hosts, NEW w \in Subs, RunRemembered(p, w) PROVE WaitTypeOK'
  BY <1>6 DEF RunRemembered
<1>7. ASSUME NEW w \in Subs, TargetMoves(w) PROVE WaitTypeOK'
  BY <1>7 DEF TargetMoves
<1>8. ASSUME NEW w \in Subs, TimePasses(w) PROVE WaitTypeOK'
  BY <1>8 DEF TimePasses
<1>9. CASE UNCHANGED waitVars
  BY <1>9 DEF waitVars
<1> QED
  BY <1>1, <1>2, <1>3, <1>4, <1>5, <1>6, <1>7, <1>8, <1>9 DEF WaitNext

\* What a process has loaded, and what it told, in every step.
LEMMA WaitStep ==
  ASSUME WaitInv, [WaitNext]_waitVars
  PROVE  LoadedOwn' /\ ArmedOwned' /\ ToldGone' /\ (~shared' => OpenOnce')
<1>1. /\ WaitTypeOK
      /\ \A p \in Hosts, w \in Subs : w \in loaded[p] =>
           subFile[w] # "none" /\ open[p] = subOwner[w] /\ open[p] # NoSession
      /\ \A w \in Subs : subFile[w] = "armed" => subOwner[w] # NoSession
      /\ \A p \in Hosts, w \in Subs :
           told[p][w] > 0 => told[p][w] = 1 /\ subFile[w] = "gone" /\ w \notin loaded[p]
  BY DEF WaitInv, LoadedOwn, ArmedOwned, ToldGone
<1>2. ASSUME ~shared
      PROVE  /\ \A p, q \in Hosts : p # q /\ open[p] = open[q] => open[p] = NoSession
             /\ \A p, q \in Hosts, w \in Subs : told[p][w] > 0 =>
                  w \notin loaded[q] /\ (q # p => told[q][w] = 0)
  BY <1>2 DEF WaitInv, OpenOnce
\* A step that opens and loads nothing and tells nobody, and removes records only.
<1>3. ASSUME UNCHANGED <<open, subOwner, loaded, told, shared>>,
             \A w \in Subs : subFile'[w] = subFile[w]
                             \/ (subFile[w] # "none" /\ subFile'[w] = "gone")
      PROVE  LoadedOwn' /\ ArmedOwned' /\ ToldGone' /\ (~shared' => OpenOnce')
  <2>1. LoadedOwn' /\ ArmedOwned' /\ ToldGone'
    BY <1>1, <1>3 DEF LoadedOwn, ArmedOwned, ToldGone
  <2>2. ~shared' => OpenOnce'
    BY <1>2, <1>3 DEF OpenOnce
  <2> QED
    BY <2>1, <2>2
\* A process that has no session any more.
<1>4. ASSUME NEW p \in Hosts, ForgetsWaits(p), UNCHANGED <<told, shared>>,
             \A w \in Subs : \/ subFile'[w] = subFile[w] /\ subOwner'[w] = subOwner[w]
                             \/ subFile[w] = "none" /\ subFile'[w] = "armed"
                                /\ subOwner'[w] # NoSession
      PROVE  LoadedOwn' /\ ArmedOwned' /\ ToldGone' /\ (~shared' => OpenOnce')
  <2>1. \A q \in Hosts : /\ open'[q] = IF q = p THEN NoSession ELSE open[q]
                         /\ loaded'[q] = IF q = p THEN {} ELSE loaded[q]
    BY <1>1, <1>4 DEF ForgetsWaits, WaitTypeOK
  <2>2. LoadedOwn'
    BY <1>1, <1>4, <2>1 DEF LoadedOwn
  <2>3. ArmedOwned' /\ ToldGone'
    BY <1>1, <1>4, <2>1 DEF ArmedOwned, ToldGone
  <2>4. ~shared' => OpenOnce'
    BY <1>2, <1>4, <2>1 DEF OpenOnce
  <2> QED
    BY <2>2, <2>3, <2>4
<1>5. ASSUME NEW p \in Hosts, NEW w \in Subs, NEW kind \in {"async", "foreground"},
             Arm(p, w, kind)
      PROVE  LoadedOwn' /\ ArmedOwned' /\ ToldGone' /\ (~shared' => OpenOnce')
  <2>1. /\ open[p] # NoSession /\ subFile[w] = "none"
        /\ \A v \in Subs : /\ subFile'[v] = IF v = w THEN "armed" ELSE subFile[v]
                           /\ subOwner'[v] = IF v = w THEN open[p] ELSE subOwner[v]
        /\ UNCHANGED <<told, shared>>
    BY <1>1, <1>5 DEF Arm, WaitTypeOK
  <2>2. CASE ForgetsWaits(p)
    BY <1>4, <2>1, <2>2
  <2>3. CASE loaded' = [loaded EXCEPT ![p] = @ \cup {w}] /\ UNCHANGED open
    <3>1. \A q \in Hosts : loaded'[q] = IF q = p THEN loaded[p] \cup {w} ELSE loaded[q]
      BY <1>1, <2>3 DEF WaitTypeOK
    <3>2. \A q \in Hosts : ~(told[q][w] > 0)
      BY <1>1, <2>1
    <3>3. LoadedOwn'
      BY <1>1, <2>1, <2>3, <3>1 DEF LoadedOwn
    <3>4. ArmedOwned' /\ ToldGone'
      BY <1>1, <2>1, <3>1, <3>2 DEF ArmedOwned, ToldGone
    <3>5. ~shared' => OpenOnce'
      BY <1>2, <2>1, <2>3, <3>1, <3>2 DEF OpenOnce
    <3> QED
      BY <3>3, <3>4, <3>5
  <2> QED
    BY <1>5, <2>2, <2>3 DEF Arm
<1>6. ASSUME NEW p \in Hosts, NEW s \in Sessions, OpenSession(p, s)
      PROVE  LoadedOwn' /\ ArmedOwned' /\ ToldGone' /\ (~shared' => OpenOnce')
  <2>1. /\ \A w \in Subs : \/ subFile'[w] = subFile[w]
                           \/ subFile[w] = "armed" /\ subOwner[w] # s /\ subFile'[w] = "gone"
        /\ \A q \in Hosts : open'[q] = IF q = p THEN s ELSE open[q]
        /\ UNCHANGED <<subOwner, told>>
        /\ ~shared' => ~shared /\ \A q \in Hosts \ {p} : open[q] # s
    BY <1>1, <1>6 DEF OpenSession, Swept, WaitTypeOK
  <2>2. \A q \in Hosts :
          loaded'[q] = IF q = p THEN {w \in Subs : subFile[w] = "armed" /\ subOwner[w] = s}
                       ELSE loaded[q]
    BY <1>1, <1>6 DEF OpenSession, WaitTypeOK
  <2>3. s # NoSession
    BY SessionNamed
  <2>4. ASSUME NEW q \in Hosts, NEW w \in Subs, w \in loaded'[q]
        PROVE  subFile'[w] # "none" /\ open'[q] = subOwner'[w] /\ open'[q] # NoSession
    <3>1. CASE q = p
      BY <2>1, <2>2, <2>3, <2>4, <3>1
    <3>2. CASE q # p
      <4>1. subFile[w] # "none" /\ open[q] = subOwner[w] /\ open[q] # NoSession
        BY <1>1, <2>2, <2>4, <3>2
      <4> QED
        BY <2>1, <3>2, <4>1
    <3> QED
      BY <3>1, <3>2
  <2>5. ArmedOwned'
    BY <1>1, <2>1 DEF ArmedOwned
  <2>6. ToldGone'
    BY <1>1, <2>1, <2>2, ZenonT(30) DEF ToldGone
  <2>7. ~shared' => OpenOnce'
    <3> SUFFICES ASSUME ~shared' PROVE OpenOnce'
      OBVIOUS
    <3>1. \A q \in Hosts, r \in Hosts : q # r /\ open'[q] = open'[r] => open'[q] = NoSession
      BY <1>2, <2>1
    <3>2. ASSUME NEW q \in Hosts, NEW r \in Hosts, NEW w \in Subs, told[q][w] > 0
          PROVE  w \notin loaded'[r] /\ (r # q => told[r][w] = 0)
      <4>1. subFile[w] = "gone"
        BY <1>1, <3>2
      <4>2. w \notin loaded[r] /\ (r # q => told[r][w] = 0)
        BY <1>2, <2>1, <3>2
      <4> QED
        BY <2>2, <4>1, <4>2
    <3> QED
      BY <2>1, <3>1, <3>2 DEF OpenOnce
  <2>8. LoadedOwn'
    BY <2>4 DEF LoadedOwn
  <2> QED
    BY <2>5, <2>6, <2>7, <2>8
<1>7. ASSUME NEW p \in Hosts, CloseSession(p)
      PROVE  LoadedOwn' /\ ArmedOwned' /\ ToldGone' /\ (~shared' => OpenOnce')
  BY <1>4, <1>7 DEF CloseSession
<1>8. ASSUME NEW p \in Hosts, NEW w \in Subs, ReconcileWait(p, w)
      PROVE  LoadedOwn' /\ ArmedOwned' /\ ToldGone' /\ (~shared' => OpenOnce')
  <2>1. w \in loaded[p] /\ UNCHANGED <<open, subOwner, shared>>
    BY <1>8 DEF ReconcileWait
  <2>2. CASE UNCHANGED <<subFile, loaded, told>>
    BY <1>3, <2>1, <2>2
  <2>3. CASE /\ subFile' = [subFile EXCEPT ![w] = "gone"]
             /\ loaded' = [loaded EXCEPT ![p] = @ \ {w}]
             /\ told' \in {told, [told EXCEPT ![p][w] = @ + 1]}
    <3>1. /\ \A v \in Subs : subFile'[v] = IF v = w THEN "gone" ELSE subFile[v]
          /\ \A q \in Hosts : loaded'[q] = IF q = p THEN loaded[p] \ {w} ELSE loaded[q]
      BY <1>1, <2>3 DEF WaitTypeOK
    <3>2. \A q \in Hosts, v \in Subs :
            told'[q][v] = told[q][v] \/ (q = p /\ v = w /\ told'[q][v] = told[p][w] + 1)
      BY <1>1, <2>3 DEF WaitTypeOK
    <3>3. told[p][w] = 0
      <4>1. told[p][w] \in Nat /\ ~(told[p][w] > 0)
        BY <1>1, <2>1 DEF WaitTypeOK
      <4> QED
        BY <4>1
    <3>4. \A q \in Hosts, v \in Subs :
            told'[q][v] = told[q][v] \/ (q = p /\ v = w /\ told'[q][v] = 1)
      BY <3>2, <3>3
    <3>5. LoadedOwn' /\ ArmedOwned'
      BY <1>1, <2>1, <3>1 DEF LoadedOwn, ArmedOwned
    <3>6. ToldGone'
      BY <1>1, <2>1, <3>1, <3>4 DEF ToldGone
    <3>7. ASSUME ~shared'
          PROVE  OpenOnce'
      <4>1. ~shared
        BY <2>1, <3>7
      <4>2. \A q \in Hosts : q # p => w \notin loaded[q]
        BY <1>1, <1>2, <2>1, <4>1
      <4>3. \A q \in Hosts : ~(told[q][w] > 0)
        BY <1>2, <2>1, <4>1
      <4>4. \A q \in Hosts : told[q][w] = 0
        <5>1. \A q \in Hosts : told[q][w] \in Nat
          BY <1>1 DEF WaitTypeOK
        <5> QED
          BY <4>3, <5>1
      <4>5. \A q, r \in Hosts, v \in Subs : told'[q][v] > 0 =>
               v \notin loaded'[r] /\ (r # q => told'[r][v] = 0)
        BY <1>2, <3>1, <3>4, <4>1, <4>2, <4>4
      <4> QED
        BY <1>2, <2>1, <4>1, <4>5 DEF OpenOnce
    <3> QED
      BY <3>5, <3>6, <3>7
  <2> QED
    BY <1>8, <2>2, <2>3 DEF ReconcileWait, SettleWait
<1>9. ASSUME NEW p \in Hosts, Sweep(p)
      PROVE  LoadedOwn' /\ ArmedOwned' /\ ToldGone' /\ (~shared' => OpenOnce')
  BY <1>3, <1>9 DEF Sweep, Swept
<1>10. CASE \/ \E p \in Hosts, w \in Subs : RunRemembered(p, w)
            \/ \E w \in Subs : TargetMoves(w) \/ TimePasses(w)
            \/ UNCHANGED waitVars
  BY <1>3, <1>10 DEF RunRemembered, TargetMoves, TimePasses, waitVars
<1> QED
  BY <1>5, <1>6, <1>7, <1>8, <1>9, <1>10 DEF WaitNext

\* The inductive invariant of the waits.
THEOREM WaitInductive == WaitSpec => []WaitInv
<1>1. ASSUME WaitInit PROVE WaitInv
  <2>1. 0 \in 0..MaxOpens /\ 0 \in 0..MaxUnlinkFails /\ 0 \in 0..2 /\ 0 \in Nat
    BY WaitAssumption
  <2>2. WaitTypeOK
    BY <1>1, <2>1 DEF WaitInit, WaitTypeOK
  <2>3. LoadedOwn /\ ArmedOwned /\ ToldGone /\ OpenOnce
    BY <1>1 DEF WaitInit, LoadedOwn, ArmedOwned, ToldGone, OpenOnce
  <2> QED
    BY <2>2, <2>3 DEF WaitInv
<1>2. WaitInv /\ [WaitNext]_waitVars => WaitInv'
  BY WaitTypeStep, WaitStep DEF WaitInv
<1> QED
  BY <1>1, <1>2, PTL DEF WaitSpec

\* Records, timers, sessions and targets of waits stay within the states the source knows.
THEOREM WaitTypeCorrect == WaitSpec => []WaitTypeOK
  BY WaitInductive, PTL DEF WaitInv

\* A session is woken at most once for a wait, for any number of processes, sessions and
\* waits: each process sends one message at most, and only one process does unless the
\* session is open in two of them (wait-subscriptions.ts:154).
THEOREM WaitWokenOnce == WaitSpec => []WokenOnce
<1>1. ASSUME WaitInv PROVE WokenOnce
  <2>1. \A p \in Hosts, w \in Subs : told[p][w] \in Nat /\ (told[p][w] > 0 => told[p][w] = 1)
    BY <1>1 DEF WaitInv, WaitTypeOK, ToldGone
  <2>2. \A p \in Hosts, w \in Subs : told[p][w] <= 1
    BY <2>1
  <2>3. ASSUME ~shared, NEW p \in Hosts, NEW w \in Subs, told[p][w] = 1
        PROVE  \A q \in Hosts \ {p} : told[q][w] = 0
    <3>1. told[p][w] > 0
      BY <2>3
    <3> QED
      BY <1>1, <2>3, <3>1 DEF WaitInv, OpenOnce
  <2> QED
    BY <2>2, <2>3 DEF WokenOnce
<1> QED
  BY <1>1, WaitInductive, PTL

\* Every armed wait of the session that a process has open is in that process's map.
ArmedLoaded ==
  \A p \in Hosts, w \in Subs : subFile[w] = "armed" /\ open[p] = subOwner[w] => w \in loaded[p]

\* No callback, opening or sweep leaves an armed wait of an open session out.
LEMMA ArmedLoadedStep ==
  ASSUME WaitInv, ~shared => ArmedLoaded, [WaitNext]_waitVars, ~shared'
  PROVE  ArmedLoaded'
<1>1. WaitTypeOK /\ ArmedOwned
  BY DEF WaitInv
<1>2. ~shared
  BY DEF WaitNext, OpenSession, CloseSession, Sweep, Arm, ReconcileWait, RunRemembered, TargetMoves,
     TimePasses, waitVars
<1>3. ArmedLoaded /\ OpenOnce
  BY <1>2 DEF WaitInv
<1>4. ASSUME UNCHANGED <<open, subOwner, loaded>>, \A w \in Subs : subFile'[w] \in {subFile[w], "gone"}
      PROVE  ArmedLoaded'
  BY <1>3, <1>4 DEF ArmedLoaded
<1>5. ASSUME NEW p \in Hosts, CloseSession(p) PROVE ArmedLoaded'
  <2>1. open'[p] = NoSession /\ \A q \in Hosts \ {p} : open'[q] = open[q] /\ loaded'[q] = loaded[q]
    BY <1>1, <1>5 DEF CloseSession, ForgetsWaits, WaitTypeOK
  <2> QED
    BY <1>1, <1>3, <1>5, <2>1 DEF CloseSession, ArmedLoaded, ArmedOwned
<1>6. ASSUME NEW p \in Hosts, NEW u \in Subs, NEW kind \in {"async", "foreground"}, Arm(p, u, kind)
      PROVE  ArmedLoaded'
  <2>1. /\ open[p] # NoSession /\ subFile[u] = "none"
        /\ subFile'[u] = "armed" /\ subOwner'[u] = open[p]
        /\ \A w \in Subs \ {u} : subFile'[w] = subFile[w] /\ subOwner'[w] = subOwner[w]
    BY <1>1, <1>6 DEF Arm, WaitTypeOK
  <2>2. \A q \in Hosts \ {p} : open[q] # open[p]
    BY <1>3, <2>1 DEF OpenOnce
  <2>3. \A q \in Hosts \ {p} : open'[q] = open[q] /\ loaded'[q] = loaded[q]
    BY <1>1, <1>6 DEF Arm, ForgetsWaits, WaitTypeOK
  <2>4. (open'[p] = open[p] /\ loaded'[p] = loaded[p] \cup {u}) \/ open'[p] = NoSession
    BY <1>1, <1>6 DEF Arm, ForgetsWaits, WaitTypeOK
  <2> QED
    BY <1>1, <1>3, <2>1, <2>2, <2>3, <2>4 DEF ArmedLoaded, ArmedOwned
<1>7. ASSUME NEW p \in Hosts, NEW s \in Sessions, OpenSession(p, s) PROVE ArmedLoaded'
  <2>1. /\ open'[p] = s /\ loaded'[p] = {w \in Subs : subFile[w] = "armed" /\ subOwner[w] = s}
        /\ \A q \in Hosts \ {p} : open'[q] = open[q] /\ loaded'[q] = loaded[q]
        /\ subOwner' = subOwner
    BY <1>1, <1>7 DEF OpenSession, WaitTypeOK
  <2>2. \A w \in Subs : subFile'[w] \in {subFile[w], "gone"}
    BY <1>7 DEF OpenSession
  <2> QED
    BY <1>3, <2>1, <2>2 DEF ArmedLoaded
<1>8. ASSUME NEW p \in Hosts, NEW u \in Subs, ReconcileWait(p, u) PROVE ArmedLoaded'
  <2>1. UNCHANGED <<open, subOwner>>
    BY <1>8 DEF ReconcileWait
  <2>2. \/ UNCHANGED <<subFile, loaded>>
        \/ subFile' = [subFile EXCEPT ![u] = "gone"] /\ loaded' = [loaded EXCEPT ![p] = @ \ {u}]
    BY <1>8 DEF ReconcileWait, SettleWait
  <2> QED
    BY <1>1, <1>3, <2>1, <2>2, SMTT(30) DEF ArmedLoaded, WaitTypeOK
<1>9. ASSUME NEW p \in Hosts, Sweep(p) PROVE ArmedLoaded'
  BY <1>4, <1>9 DEF Sweep
<1>10. ASSUME NEW p \in Hosts, NEW w \in Subs, RunRemembered(p, w) PROVE ArmedLoaded'
  BY <1>4, <1>10 DEF RunRemembered
<1>11. ASSUME NEW w \in Subs, TargetMoves(w) \/ TimePasses(w) PROVE ArmedLoaded'
  BY <1>4, <1>11 DEF TargetMoves, TimePasses
<1>12. CASE UNCHANGED waitVars
  BY <1>4, <1>12 DEF waitVars
<1> QED
  BY <1>5, <1>6, <1>7, <1>8, <1>9, <1>10, <1>11, <1>12 DEF WaitNext

\* No wait is forgotten: whichever process has the session of an armed wait open has it in
\* its map, from which it is looked at on every wake-up and every second, whatever restarts,
\* sweeps and records that could not be removed came before; unless the session is open
\* twice (wait-subscriptions.ts).  This is what WaitEnds needs of the restoration.
THEOREM WaitNotForgotten == WaitSpec => [](~shared => ArmedLoaded)
<1>1. WaitInit => (~shared => ArmedLoaded)
  BY DEF WaitInit, ArmedLoaded
<1>2. WaitInv /\ (~shared => ArmedLoaded) /\ [WaitNext]_waitVars => (~shared => ArmedLoaded)'
  BY ArmedLoadedStep
<1> QED
  BY WaitInductive, <1>1, <1>2, PTL DEF WaitSpec

-----------------------------------------------------------------------------
(* Workflows *)

\* What the outcome of a launch changes: what is recorded, reported and answered of it.
LEMMA OutcomeEffect ==
  ASSUME WorkflowTypeOK, NEW k \in Keys, NEW result \in Results, NEW read \in BOOLEAN,
         read \/ ending # "settled", Outcome(k, result, read)
  PROVE  /\ UNCHANGED stoppedLaunches
         /\ children' \in [Keys -> Outcomes] /\ answered' \in [Keys -> Outcomes]
         /\ notified' \in [Keys -> Seq(Results)] /\ barrier' \in BOOLEAN
         /\ \A j \in Keys \ {k} : /\ children'[j] = children[j] /\ notified'[j] = notified[j]
                                  /\ answered'[j] = answered[j]
         /\ k \in stoppedLaunches => notified'[k] = notified[k]
         /\ k \notin stoppedLaunches => notified'[k] = Append(notified[k], result)
         /\ ~read => children'[k] = "unread" /\ answered'[k] = "unread"
         /\ read =>
              /\ children'[k] = IF k \in stoppedLaunches THEN children[k] ELSE result
              /\ \/ answered'[k] = answered[k]
                 \/ k \notin stoppedLaunches /\ answered'[k] = result
                 \/ k \in stoppedLaunches /\ children[k] # "none" /\ answered'[k] = children[k]
                 \/ k \in stoppedLaunches /\ children[k] = "none" /\ answered'[k] = result
<1> USE DEF WorkflowTypeOK
<1>1. result \in Outcomes /\ "unread" \in Outcomes
  BY DEF Outcomes
<1>2. UNCHANGED stoppedLaunches /\ barrier' \in BOOLEAN
  BY DEF Outcome
<1>3. PICK recorded \in Outcomes :
        /\ children' = [children EXCEPT ![k] = recorded]
        /\ recorded = IF ~read THEN "unread"
                      ELSE IF k \in stoppedLaunches THEN children[k] ELSE result
  BY <1>1 DEF Outcome
<1>4. notified' = IF k \in stoppedLaunches THEN notified
                  ELSE [notified EXCEPT ![k] = Append(notified[k], result)]
  BY DEF Outcome
<1>5. Append(notified[k], result) \in Seq(Results)
  OBVIOUS
<1>6. PICK kept \in Outcomes :
        /\ answered' = IF ending = "settled" THEN answered ELSE [answered EXCEPT ![k] = kept]
        /\ kept = IF ~read THEN "unread"
                  ELSE IF k \in stoppedLaunches /\ children[k] # "none" THEN children[k] ELSE result
  BY <1>1 DEF Outcome
<1>7. /\ children' \in [Keys -> Outcomes]
      /\ \A j \in Keys \ {k} : children'[j] = children[j]
      /\ children'[k] = recorded
  BY <1>3
<1>8. /\ notified' \in [Keys -> Seq(Results)]
      /\ \A j \in Keys \ {k} : notified'[j] = notified[j]
      /\ k \in stoppedLaunches => notified'[k] = notified[k]
      /\ k \notin stoppedLaunches => notified'[k] = Append(notified[k], result)
  BY <1>4, <1>5
<1>9. /\ answered' \in [Keys -> Outcomes]
      /\ \A j \in Keys \ {k} : answered'[j] = answered[j]
      /\ answered'[k] = IF ending = "settled" THEN answered[k] ELSE kept
  BY <1>6
<1> QED
  BY <1>2, <1>3, <1>6, <1>7, <1>8, <1>9

\* A launch that settles is told once, and with one outcome or one that cannot be read.
LEMMA ToldOnce ==
  ASSUME WorkflowInv, NEW k \in Keys, NEW result \in Results, NEW read \in Readings(k),
         Outcome(k, result, read),
         phase[k] \notin {"none", "done"}, phase'[k] = "done", UNCHANGED ending,
         \A j \in Keys \ {k} : phase'[j] = phase[j]
                               \/ {phase[j], phase'[j]} \cap {"none", "done"} = {}
  PROVE  LaunchesTold' /\ OneStory'
<1>1. /\ WorkflowTypeOK
      /\ \A j \in Keys :
           /\ phase[j] = "none" => children[j] = "none" /\ j \notin stoppedLaunches
           /\ phase[j] # "done" =>
                /\ notified[j] = <<>> /\ answered[j] = "none"
                /\ children[j] = "none" \/ (children[j] = "stopped" /\ j \in stoppedLaunches)
           /\ phase[j] = "done" /\ j \notin stoppedLaunches => children[j] # "none"
           /\ j \in stoppedLaunches /\ children[j] = "none" => WorkflowOver
           /\ notified[j] # <<>> =>
                (notified[j] = <<children[j]>> \/ children[j] = "unread") /\ children[j] # "none"
  BY DEF WorkflowInv, LaunchesTold, Launched
<1>2. /\ UNCHANGED stoppedLaunches /\ (WorkflowOver <=> WorkflowOver')
      /\ \A j \in Keys \ {k} : /\ children'[j] = children[j] /\ notified'[j] = notified[j]
                               /\ answered'[j] = answered[j]
      /\ k \in stoppedLaunches => notified'[k] = <<>>
      /\ k \notin stoppedLaunches => notified'[k] = <<result>>
      /\ ~read => children'[k] = "unread" /\ answered'[k] = "unread"
      /\ read =>
           /\ children'[k] = IF k \in stoppedLaunches THEN children[k] ELSE result
           /\ \/ answered'[k] = "none"
              \/ k \notin stoppedLaunches /\ answered'[k] = result
              \/ k \in stoppedLaunches /\ children[k] # "none" /\ answered'[k] = children[k]
              \/ k \in stoppedLaunches /\ children[k] = "none" /\ answered'[k] = result
  <2>1. notified[k] = <<>> /\ answered[k] = "none"
    BY <1>1
  <2>2. Append(<<>>, result) = <<result>>
    OBVIOUS
  <2>3. WorkflowOver <=> WorkflowOver'
    BY DEF WorkflowOver
  <2>4. read \in BOOLEAN /\ (read \/ ending # "settled")
    BY Zenon DEF Readings
  <2> QED
    BY <1>1, <2>1, <2>2, <2>3, <2>4, OutcomeEffect
<1>3. result # "none" /\ result # "unread"
  BY DEF Results
<1>4. \/ read
      \/ ~read /\ children'[k] = "unread" /\ answered'[k] = "unread"
  BY <1>2 DEF Readings
<1>5. LaunchesTold'
  <2>1. ASSUME NEW j \in Keys \ {k}
        PROVE  /\ phase'[j] = "none" => children'[j] = "none" /\ j \notin stoppedLaunches'
               /\ phase'[j] # "done" =>
                    /\ notified'[j] = <<>> /\ answered'[j] = "none"
                    /\ children'[j] = "none" \/ (children'[j] = "stopped" /\ j \in stoppedLaunches')
               /\ phase'[j] = "done" /\ j \notin stoppedLaunches' => children'[j] # "none"
               /\ j \in stoppedLaunches' /\ children'[j] = "none" => WorkflowOver'
               /\ notified'[j] # <<>> =>
                    /\ notified'[j] = <<children'[j]>> \/ children'[j] = "unread"
                    /\ children'[j] # "none"
    BY <1>1, <1>2
  <2>2. /\ k \notin stoppedLaunches' => children'[k] # "none"
        /\ k \in stoppedLaunches' /\ children'[k] = "none" => WorkflowOver'
        /\ notified'[k] # <<>> =>
             /\ notified'[k] = <<children'[k]>> \/ children'[k] = "unread"
             /\ children'[k] # "none"
    BY <1>1, <1>2, <1>3, <1>4
  <2> QED
    BY <2>1, <2>2 DEF LaunchesTold, Launched
<1>6. OneStory'
  <2>1. ASSUME NEW j \in Keys \ {k}
        PROVE  /\ Len(notified'[j]) <= 1
               /\ notified'[j] # <<>> => notified'[j] = <<children'[j]>> \/ children'[j] = "unread"
               /\ children'[j] = "unread" => answered'[j] = "unread"
               /\ answered'[j] # "none" =>
                    answered'[j] = children'[j]
                    \/ (WorkflowOver' /\ children'[j] \in {"none", "stopped"})
    BY <1>2, <2>1 DEF WorkflowInv, OneStory
  <2>2. /\ Len(notified'[k]) <= 1
        /\ notified'[k] # <<>> => notified'[k] = <<children'[k]>> \/ children'[k] = "unread"
    <3>1. Len(<<>>) <= 1 /\ Len(<<result>>) <= 1
      OBVIOUS
    <3>2. CASE k \in stoppedLaunches
      BY <1>2, <3>1, <3>2
    <3>3. CASE k \notin stoppedLaunches
      BY <1>2, <1>4, <3>1, <3>3
    <3> QED
      BY <3>2, <3>3
  <2>3. /\ children'[k] = "unread" => answered'[k] = "unread"
        /\ answered'[k] # "none" =>
             answered'[k] = children'[k] \/ (WorkflowOver' /\ children'[k] \in {"none", "stopped"})
    BY <1>1, <1>2, <1>3, <1>4
  <2> QED
    BY <2>1, <2>2, <2>3 DEF OneStory
<1> QED
  BY <1>5, <1>6

\* A released permit goes to the first launch in the queue, or back to the pool.
LEMMA PermitReleased ==
  ASSUME WorkflowInv, NEW k \in Keys, phase[k] \in {"granted", "running"},
         NEW p \in {"done", "resumed"}, ReleasePermit(k, p)
  PROVE  /\ phase' \in [Keys -> Phases] /\ phase'[k] = p
         /\ \A j \in Keys \ {k} : phase'[j] = phase[j]
                                  \/ (phase[j] = "queued" /\ phase'[j] = "granted")
         /\ available' \in 0..Limit /\ queue' \in Seq(Keys)
         /\ QueueWaits' /\ PermitsCounted'
<1>1. /\ phase \in [Keys -> Phases] /\ available \in 0..Limit /\ queue \in Seq(Keys)
      /\ \A i \in 1..Len(queue) : phase[queue[i]] = "queued"
      /\ \A i, j \in 1..Len(queue) : queue[i] = queue[j] => i = j
      /\ IsFiniteSet(Permitted) /\ available + Cardinality(Permitted) = Limit
      /\ Limit \in Nat
  BY WorkflowAssumption DEF WorkflowInv, WorkflowTypeOK, QueueWaits, PermitsCounted
<1>2. k \in Permitted
  BY DEF Permitted
<1>3. /\ IsFiniteSet(Permitted \ {k})
      /\ Cardinality(Permitted \ {k}) = Cardinality(Permitted) - 1
      /\ Cardinality(Permitted) \in Nat /\ Cardinality(Permitted \ {k}) \in Nat
  BY <1>1, <1>2, FS_RemoveElement, FS_CardinalityType
<1>4. CASE queue = <<>>
  <2>1. phase' = [phase EXCEPT ![k] = p] /\ available' = available + 1 /\ queue' = queue
    BY <1>4 DEF ReleasePermit, Moves
  <2>2. \A j \in Keys : phase'[j] = IF j = k THEN p ELSE phase[j]
    BY <1>1, <2>1
  <2>3. phase' \in [Keys -> Phases]
    BY <1>1, <2>1 DEF Phases
  <2>4. Permitted' = Permitted \ {k}
    BY <2>2 DEF Permitted
  <2>5. PermitsCounted' /\ available' \in 0..Limit
    <3>1. available' + Cardinality(Permitted \ {k}) = Limit /\ available' \in 0..Limit
      <4>1. available \in Nat /\ available' = available + 1
        BY <1>1, <2>1
      <4> QED
        BY <1>1, <1>3, <4>1
    <3> QED
      BY <1>3, <2>4, <3>1 DEF PermitsCounted
  <2>6. QueueWaits'
    BY <1>4, <2>1 DEF QueueWaits
  <2> QED
    BY <1>1, <2>1, <2>2, <2>3, <2>5, <2>6
<1>5. CASE queue # <<>>
  <2> DEFINE first == Head(queue)
  <2>1. Len(queue) \in Nat /\ Len(queue) > 0 /\ first = queue[1] /\ first \in Keys
    BY <1>1, <1>5
  <2>2. phase[first] = "queued" /\ first # k /\ first \notin Permitted
    BY <1>1, <2>1 DEF Permitted
  <2>3. /\ phase' = [phase EXCEPT ![k] = p, ![first] = "granted"]
        /\ queue' = Tail(queue) /\ available' = available
    BY <1>5 DEF ReleasePermit
  <2>4. \A j \in Keys : phase'[j] = IF j = first THEN "granted" ELSE IF j = k THEN p ELSE phase[j]
    BY <1>1, <2>1, <2>2, <2>3
  <2>5. phase' \in [Keys -> Phases]
    BY <1>1, <2>3 DEF Phases
  <2>6. Permitted' = (Permitted \ {k}) \cup {first}
    BY <2>1, <2>2, <2>4 DEF Permitted
  <2>7. PermitsCounted'
    <3>1. /\ IsFiniteSet((Permitted \ {k}) \cup {first})
          /\ Cardinality((Permitted \ {k}) \cup {first}) = Cardinality(Permitted \ {k}) + 1
      BY <1>3, <2>2, FS_AddElement
    <3> HIDE DEF first
    <3>2. available + Cardinality((Permitted \ {k}) \cup {first}) = Limit
      <4>1. available \in Nat
        BY <1>1
      <4> QED
        BY <1>1, <1>3, <3>1, <4>1
    <3> QED
      BY <2>3, <2>6, <3>1, <3>2 DEF PermitsCounted
  <2>8. /\ queue' \in Seq(Keys) /\ Len(queue') = Len(queue) - 1
        /\ \A i \in 1..Len(queue') : queue'[i] = queue[i + 1]
    BY <1>1, <1>5, <2>3
  <2>9. \A i \in 1..Len(queue') : i + 1 \in 1..Len(queue) /\ i + 1 # 1
    BY <2>1, <2>8
  <2>10. \A i \in 1..Len(queue') : queue'[i] # first /\ queue'[i] # k /\ queue'[i] \in Keys
                                   /\ phase[queue'[i]] = "queued"
    <3>1. 1 \in 1..Len(queue)
      BY <2>1
    <3> QED
      BY <1>1, <2>1, <2>8, <2>9, <3>1
  <2>11. QueueWaits'
    <3>1. \A i \in 1..Len(queue') : phase'[queue'[i]] = "queued"
      BY <2>4, <2>10
    <3>2. ASSUME NEW i \in 1..Len(queue'), NEW j \in 1..Len(queue'), queue'[i] = queue'[j]
          PROVE  i = j
      <4>1. i + 1 = j + 1
        BY <1>1, <2>8, <2>9, <3>2
      <4> QED
        BY <4>1
    <3> QED
      BY <3>1, <3>2 DEF QueueWaits
  <2> QED
    BY <1>1, <2>2, <2>3, <2>4, <2>5, <2>7, <2>8, <2>11
<1> QED
  BY <1>4, <1>5

\* A launch that moves, but neither in the queue nor with a permit, leaves both as they are.
LEMMA PermitsKept ==
  ASSUME WorkflowInv, UNCHANGED <<available, queue>>, phase' \in [Keys -> Phases],
         \A j \in Keys : phase'[j] = phase[j]
                         \/ {phase[j], phase'[j]} \cap {"queued", "granted", "running"} = {}
                         \/ {phase[j], phase'[j]} \subseteq {"granted", "running"}
  PROVE  QueueWaits' /\ PermitsCounted'
<1>1. Permitted' = Permitted
  BY DEF Permitted
<1>2. PermitsCounted'
  BY <1>1 DEF WorkflowInv, PermitsCounted
<1>3. QueueWaits'
  <2>1. \A i \in 1..Len(queue) : queue[i] \in Keys /\ phase[queue[i]] = "queued"
    BY DEF WorkflowInv, WorkflowTypeOK, QueueWaits
  <2> QED
    BY <2>1, ZenonT(30) DEF WorkflowInv, QueueWaits
<1> QED
  BY <1>2, <1>3

\* What finish does to the end of the workflow.
LEMMA FinishEffect ==
  ASSUME WorkflowTypeOK, NEW outcome \in {"value", "error"}, Finish(outcome)
  PROVE  /\ WorkflowOver' /\ ~WorkflowOver
         /\ ending' \in {"no", "flush", "finishing", "settled"}
         /\ verdict' \in {"none", "value", "error"} /\ awaited' \subseteq SideCalls
         /\ aborted' \in BOOLEAN
  BY DEF Finish, WorkflowOver

\* A step that moves no launch, and records at most what was stopped: the invariant holds
\* after it.
LEMMA UntoldStep ==
  ASSUME WorkflowInv, WorkflowTypeOK', UNCHANGED <<phase, available, queue, notified, answered>>,
         WorkflowOver => WorkflowOver',
         \A j \in Keys :
           \/ children'[j] = children[j] /\ (j \in stoppedLaunches' <=> j \in stoppedLaunches)
           \/ /\ phase[j] # "none" /\ children[j] = "none" /\ j \in stoppedLaunches'
              /\ children'[j] = "stopped" \/ (children'[j] = "none" /\ WorkflowOver')
  PROVE  WorkflowInv'
<1>1. QueueWaits' /\ PermitsCounted'
  BY PermitsKept DEF WorkflowTypeOK
<1>2. ASSUME NEW j \in Keys
      PROVE  /\ phase'[j] = "none" => children'[j] = "none" /\ j \notin stoppedLaunches'
             /\ phase'[j] # "done" =>
                  /\ notified'[j] = <<>> /\ answered'[j] = "none"
                  /\ children'[j] = "none" \/ (children'[j] = "stopped" /\ j \in stoppedLaunches')
             /\ phase'[j] = "done" /\ j \notin stoppedLaunches' => children'[j] # "none"
             /\ j \in stoppedLaunches' /\ children'[j] = "none" => WorkflowOver'
             /\ notified'[j] # <<>> =>
                  /\ notified'[j] = <<children'[j]>> \/ children'[j] = "unread"
                  /\ children'[j] # "none"
  BY DEF WorkflowInv, LaunchesTold, Launched
<1>3. ASSUME NEW j \in Keys
      PROVE  /\ Len(notified'[j]) <= 1
             /\ notified'[j] # <<>> => notified'[j] = <<children'[j]>> \/ children'[j] = "unread"
             /\ children'[j] = "unread" => answered'[j] = "unread"
             /\ answered'[j] # "none" =>
                  answered'[j] = children'[j]
                  \/ (WorkflowOver' /\ children'[j] \in {"none", "stopped"})
  <2>1. /\ Len(notified[j]) <= 1
        /\ children[j] = "unread" => answered[j] = "unread"
        /\ answered[j] # "none" =>
             answered[j] = children[j] \/ (WorkflowOver /\ children[j] \in {"none", "stopped"})
    BY DEF WorkflowInv, OneStory
  <2> QED
    BY <1>2, <2>1
<1>4. LaunchesTold'
  BY <1>2 DEF LaunchesTold, Launched
<1>5. OneStory'
  BY <1>3 DEF OneStory
<1> QED
  BY <1>1, <1>4, <1>5 DEF WorkflowInv

\* A launch that goes on without an outcome.
LEMMA MovesOn ==
  ASSUME WorkflowInv, NEW k \in Keys, NEW p \in Phases \ {"none", "done"},
         phase[k] # "done", UNCHANGED <<outcomeVars>>, WorkflowOver => WorkflowOver',
         phase'[k] = p,
         \A j \in Keys \ {k} : phase'[j] = phase[j]
                               \/ {phase[j], phase'[j]} \cap {"none", "done"} = {}
  PROVE  LaunchesTold' /\ OneStory'
<1>1. UNCHANGED <<stoppedLaunches, children, answered, notified>>
  BY DEF outcomeVars
<1>2. ASSUME NEW j \in Keys
      PROVE  /\ phase'[j] = "none" => children[j] = "none" /\ j \notin stoppedLaunches
             /\ phase'[j] # "done" =>
                  /\ notified[j] = <<>> /\ answered[j] = "none"
                  /\ children[j] = "none" \/ (children[j] = "stopped" /\ j \in stoppedLaunches)
             /\ phase'[j] = "done" /\ j \notin stoppedLaunches => children[j] # "none"
             /\ j \in stoppedLaunches /\ children[j] = "none" => WorkflowOver'
             /\ notified[j] # <<>> =>
                  (notified[j] = <<children[j]>> \/ children[j] = "unread") /\ children[j] # "none"
  BY DEF WorkflowInv, LaunchesTold, Launched
<1>3. LaunchesTold'
  BY <1>1, <1>2 DEF LaunchesTold, Launched
<1>4. OneStory'
  BY <1>1 DEF WorkflowInv, OneStory
<1> QED
  BY <1>3, <1>4

\* A launch that settles without a permit.
LEMMA SettlesUnpermitted ==
  ASSUME WorkflowInv, NEW k \in Keys, NEW result \in Results, NEW read \in Readings(k),
         Outcome(k, result, read),
         phase[k] \in {"called", "resumed"}, Moves(k, "done"),
         UNCHANGED <<admission, available, queue, observed, side, endVars>>
  PROVE  WorkflowInv'
<1>1. WorkflowTypeOK /\ phase \in [Keys -> Phases]
  BY DEF WorkflowInv, WorkflowTypeOK
<1>2. /\ phase' \in [Keys -> Phases]
      /\ \A j \in Keys : phase'[j] = IF j = k THEN "done" ELSE phase[j]
  BY <1>1 DEF Moves, Phases
<1>3. WorkflowTypeOK'
  <2>1. read \in BOOLEAN /\ (read \/ ending # "settled")
    BY Zenon DEF Readings
  <2> QED
    BY <1>1, <1>2, <2>1, OutcomeEffect DEF WorkflowTypeOK, endVars
<1>4. QueueWaits' /\ PermitsCounted'
  BY <1>2, PermitsKept
<1>5. LaunchesTold' /\ OneStory'
  BY <1>2, ToldOnce DEF endVars
<1> QED
  BY <1>3, <1>4, <1>5 DEF WorkflowInv

\* The steps of a launch.
LEMMA LaunchStepKeeps ==
  ASSUME WorkflowInv, NEW k \in Keys, LaunchStep(k)
  PROVE  WorkflowInv'
<1>1. /\ WorkflowTypeOK /\ phase \in [Keys -> Phases] /\ queue \in Seq(Keys)
      /\ available \in 0..Limit /\ Limit \in Nat
      /\ \A i \in 1..Len(queue) : phase[queue[i]] = "queued"
      /\ \A i, j \in 1..Len(queue) : queue[i] = queue[j] => i = j
      /\ IsFiniteSet(Permitted) /\ available + Cardinality(Permitted) = Limit
  BY WorkflowAssumption DEF WorkflowInv, WorkflowTypeOK, QueueWaits, PermitsCounted
<1>2. /\ {"stopped", "failed"} \subseteq Results
      /\ {"called", "queued", "granted", "running", "resumed", "done"} \subseteq Phases
      /\ TRUE \in Readings(k)
  BY DEF Results, Phases, Readings
\* With the outcome of a permitted launch its permit is released.
<1>3. ASSUME NEW result \in Results, NEW read \in Readings(k),
             phase[k] \in {"granted", "running"}, Outcome(k, result, read), ReleasePermit(k, "done"),
             UNCHANGED <<admission, observed, side, endVars>>
      PROVE  WorkflowInv'
  <2>1. /\ phase' \in [Keys -> Phases] /\ phase'[k] = "done"
        /\ \A j \in Keys \ {k} : phase'[j] = phase[j]
                                 \/ (phase[j] = "queued" /\ phase'[j] = "granted")
        /\ available' \in 0..Limit /\ queue' \in Seq(Keys)
        /\ QueueWaits' /\ PermitsCounted'
    BY <1>3, PermitReleased
  <2>2. WorkflowTypeOK'
    <3>1. read \in BOOLEAN /\ (read \/ ending # "settled")
      BY <1>3, Zenon DEF Readings
    <3> QED
      BY <1>1, <1>3, <2>1, <3>1, OutcomeEffect DEF WorkflowTypeOK, endVars
  <2>3. LaunchesTold' /\ OneStory'
    BY <1>3, <2>1, ToldOnce DEF endVars
  <2> QED
    BY <2>1, <2>2, <2>3 DEF WorkflowInv
<1>4. CASE Refused(k)
  BY <1>2, <1>4, SettlesUnpermitted DEF Refused
<1>5. CASE ReturnResumed(k)
  BY <1>5, SettlesUnpermitted DEF ReturnResumed
<1>6. CASE Enter(k)
  <2>1. phase[k] = "called" /\ UNCHANGED <<admission, observed, side, endVars>>
    BY <1>6 DEF Enter
  <2>2. CASE available > 0 /\ available' = available - 1 /\ Moves(k, "granted")
             /\ UNCHANGED <<queue, outcomeVars>>
    <3>1. /\ phase' \in [Keys -> Phases]
          /\ \A j \in Keys : phase'[j] = IF j = k THEN "granted" ELSE phase[j]
      BY <1>1, <1>2, <2>2 DEF Moves
    <3>2. Permitted' = Permitted \cup {k} /\ k \notin Permitted
      BY <2>1, <3>1 DEF Permitted
    <3>3. /\ IsFiniteSet(Permitted \cup {k})
          /\ Cardinality(Permitted \cup {k}) = Cardinality(Permitted) + 1
          /\ Cardinality(Permitted) \in Nat
      BY <1>1, <3>2, FS_AddElement, FS_CardinalityType
    <3>4. available' \in 0..Limit /\ available' + Cardinality(Permitted \cup {k}) = Limit
      BY <1>1, <2>2, <3>3
    <3>5. PermitsCounted'
      BY <3>2, <3>3, <3>4 DEF PermitsCounted
    <3>6. QueueWaits'
      <4>1. \A i \in 1..Len(queue) : queue[i] # k
        BY <1>1, <2>1
      <4>2. \A i \in 1..Len(queue) : queue[i] \in Keys
        BY <1>1
      <4> QED
        BY <1>1, <2>2, <3>1, <4>1, <4>2 DEF QueueWaits
    <3>7. WorkflowTypeOK'
      BY <1>1, <2>1, <2>2, <3>1, <3>4 DEF WorkflowTypeOK, outcomeVars, endVars
    <3>8. LaunchesTold' /\ OneStory'
      BY <1>2, <2>1, <2>2, <3>1, MovesOn DEF endVars, WorkflowOver
    <3> QED
      BY <3>5, <3>6, <3>7, <3>8 DEF WorkflowInv
  <2>3. CASE queue' = Append(queue, k) /\ Moves(k, "queued") /\ UNCHANGED <<available, outcomeVars>>
    <3>1. /\ phase' \in [Keys -> Phases]
          /\ \A j \in Keys : phase'[j] = IF j = k THEN "queued" ELSE phase[j]
      BY <1>1, <1>2, <2>3 DEF Moves
    <3>2. Permitted' = Permitted
      BY <2>1, <3>1 DEF Permitted
    <3>3. PermitsCounted'
      BY <1>1, <2>3, <3>2 DEF PermitsCounted
    <3>4. /\ queue' \in Seq(Keys) /\ Len(queue') = Len(queue) + 1
          /\ \A i \in 1..Len(queue) : queue'[i] = queue[i]
          /\ queue'[Len(queue) + 1] = k /\ Len(queue) \in Nat
      BY <1>1, <2>3
    <3>5. \A i \in 1..Len(queue') : i \in 1..Len(queue) \/ i = Len(queue) + 1
      BY <3>4
    <3>6. \A i \in 1..Len(queue) : queue[i] # k /\ queue[i] \in Keys
      BY <1>1, <2>1
    <3>7. QueueWaits'
      <4>1. \A i \in 1..Len(queue') : phase'[queue'[i]] = "queued"
        BY <1>1, <3>1, <3>4, <3>5, <3>6
      <4>2. \A i, j \in 1..Len(queue') : queue'[i] = queue'[j] => i = j
        BY <1>1, <3>4, <3>5, <3>6
      <4> QED
        BY <4>1, <4>2 DEF QueueWaits
    <3>8. WorkflowTypeOK'
      BY <1>1, <2>1, <2>3, <3>1, <3>4 DEF WorkflowTypeOK, outcomeVars, endVars
    <3>9. LaunchesTold' /\ OneStory'
      BY <1>2, <2>1, <2>3, <3>1, MovesOn DEF endVars, WorkflowOver
    <3> QED
      BY <3>3, <3>7, <3>8, <3>9 DEF WorkflowInv
  <2>4. ASSUME NEW result \in {"stopped", "failed"}, Moves(k, "done"), Outcome(k, result, TRUE),
               UNCHANGED <<available, queue>>
        PROVE  WorkflowInv'
    BY <1>2, <2>1, <2>4, SettlesUnpermitted
  <2> QED
    BY <1>6, <2>2, <2>3, <2>4 DEF Enter
<1>7. CASE StartLaunch(k)
  <2>1. phase[k] = "granted" /\ UNCHANGED <<admission, observed, side, endVars>>
    BY <1>7 DEF StartLaunch
  <2>2. CASE ReleasePermit(k, "done") /\ Outcome(k, "stopped", TRUE)
    BY <1>2, <1>3, <2>1, <2>2
  <2>3. CASE Moves(k, "running") /\ UNCHANGED <<available, queue, outcomeVars>>
    <3>1. /\ phase' \in [Keys -> Phases]
          /\ \A j \in Keys : phase'[j] = IF j = k THEN "running" ELSE phase[j]
      BY <1>1, <1>2, <2>3 DEF Moves
    <3>2. WorkflowTypeOK'
      BY <1>1, <2>1, <2>3, <3>1 DEF WorkflowTypeOK, outcomeVars, endVars
    <3>3. QueueWaits' /\ PermitsCounted'
      BY <2>1, <2>3, <3>1, PermitsKept
    <3>4. LaunchesTold' /\ OneStory'
      BY <1>2, <2>1, <2>3, <3>1, MovesOn DEF endVars, WorkflowOver
    <3> QED
      BY <3>2, <3>3, <3>4 DEF WorkflowInv
  <2> QED
    BY <1>7, <2>2, <2>3 DEF StartLaunch
<1>8. CASE LaunchSettles(k)
  <2>1. phase[k] = "running" /\ UNCHANGED <<admission, observed, side, endVars>>
    BY <1>8 DEF LaunchSettles
  <2>2. ASSUME NEW result \in Results, NEW read \in Readings(k), Outcome(k, result, read),
               ReleasePermit(k, "done")
        PROVE  WorkflowInv'
    BY <1>3, <2>1, <2>2
  <2>3. CASE ReleasePermit(k, "resumed") /\ UNCHANGED outcomeVars
    <3>1. /\ phase' \in [Keys -> Phases] /\ phase'[k] = "resumed"
          /\ \A j \in Keys \ {k} : phase'[j] = phase[j]
                                   \/ (phase[j] = "queued" /\ phase'[j] = "granted")
          /\ available' \in 0..Limit /\ queue' \in Seq(Keys)
          /\ QueueWaits' /\ PermitsCounted'
      BY <2>1, <2>3, PermitReleased
    <3>2. WorkflowTypeOK'
      BY <1>1, <2>1, <2>3, <3>1 DEF WorkflowTypeOK, outcomeVars, endVars
    <3>3. LaunchesTold' /\ OneStory'
      BY <1>2, <2>1, <2>3, <3>1, MovesOn DEF endVars, WorkflowOver
    <3> QED
      BY <3>1, <3>2, <3>3 DEF WorkflowInv
  <2> QED
    BY <1>8, <2>2, <2>3 DEF LaunchSettles
<1> QED
  BY <1>4, <1>5, <1>6, <1>7, <1>8 DEF LaunchStep

\* Every step keeps the invariant.
LEMMA WorkflowStep ==
  ASSUME WorkflowInv, [WorkflowNext]_workflowVars
  PROVE  WorkflowInv'
<1>1. WorkflowTypeOK /\ phase \in [Keys -> Phases] /\ children \in [Keys -> Outcomes]
  BY DEF WorkflowInv, WorkflowTypeOK
<1>2. /\ "called" \in Phases /\ "stopped" \in Outcomes
      /\ {"value", "error"} \subseteq {"none", "value", "error"}
  BY DEF Phases, Outcomes, Results
<1>3. ASSUME NEW k \in Keys, Run(k) PROVE WorkflowInv'
  <2>1. UNCHANGED <<available, queue, outcomeVars, observed, side>> /\ phase[k] = "none"
    BY <1>3 DEF Run, Launched
  <2>2. CASE Refuse /\ UNCHANGED <<admission, phase>>
    <3>1. WorkflowOver' /\ WorkflowTypeOK'
      BY <1>1, <2>1, <2>2, FinishEffect DEF Refuse, WorkflowTypeOK, outcomeVars
    <3> QED
      BY <2>1, <2>2, <3>1, UntoldStep DEF outcomeVars
  <2>3. CASE /\ Moves(k, "called")
             /\ admission' = [admission EXCEPT ![Batch[k]] = IF @ = "none" THEN "pending" ELSE @]
             /\ UNCHANGED endVars
    <3>1. /\ phase' \in [Keys -> Phases]
          /\ \A j \in Keys : phase'[j] = IF j = k THEN "called" ELSE phase[j]
      BY <1>1, <1>2, <2>3 DEF Moves
    <3>2. admission' \in [Batches -> {"none", "pending", "admitted", "refused"}]
      BY <1>1, <2>3 DEF WorkflowTypeOK
    <3>3. WorkflowTypeOK'
      BY <1>1, <2>1, <2>3, <3>1, <3>2 DEF WorkflowTypeOK, outcomeVars, endVars
    <3>4. QueueWaits' /\ PermitsCounted'
      BY <2>1, <3>1, PermitsKept
    <3>5. LaunchesTold' /\ OneStory'
      BY <1>2, <2>1, <2>3, <3>1, MovesOn DEF endVars, WorkflowOver
    <3> QED
      BY <3>3, <3>4, <3>5 DEF WorkflowInv
  <2> QED
    BY <1>3, <2>2, <2>3 DEF Run
<1>4. ASSUME NEW k \in Keys, StopChild(k) PROVE WorkflowInv'
  <2>1. /\ phase[k] # "none" /\ children[k] = "none"
        /\ stoppedLaunches' = stoppedLaunches \cup {k}
        /\ children' = [children EXCEPT ![k] = "stopped"]
        /\ UNCHANGED <<launchVars, answered, notified, observed, side, barrier, endVars>>
    BY <1>4 DEF StopChild, Launched
  <2>2. WorkflowTypeOK'
    BY <1>1, <1>2, <2>1 DEF WorkflowTypeOK, launchVars, endVars
  <2>3. \A j \in Keys : children'[j] = IF j = k THEN "stopped" ELSE children[j]
    BY <1>1, <2>1
  <2> QED
    BY <2>1, <2>2, <2>3, UntoldStep DEF launchVars, endVars, WorkflowOver
<1>5. ASSUME NEW b \in Batches, Admit(b) PROVE WorkflowInv'
  <2>1. UNCHANGED <<phase, available, queue, outcomeVars, observed, side, endVars>>
    BY <1>5 DEF Admit
  <2>2. admission' \in [Batches -> {"none", "pending", "admitted", "refused"}]
    BY <1>1, <1>5 DEF Admit, WorkflowTypeOK
  <2>3. WorkflowTypeOK'
    BY <1>1, <2>1, <2>2 DEF WorkflowTypeOK, outcomeVars, endVars
  <2> QED
    BY <2>1, <2>3, UntoldStep DEF outcomeVars, endVars, WorkflowOver
<1>6. ASSUME NEW x \in SideCalls, CallSide(x) \/ SideSettles(x) PROVE WorkflowInv'
  <2>1. UNCHANGED <<launchVars, outcomeVars, observed>>
    BY <1>6 DEF CallSide, SideSettles
  <2>2. side' \in [SideCalls -> {"none", "pending", "settled"}]
    BY <1>1, <1>6 DEF CallSide, SideSettles, WorkflowTypeOK
  <2>3. UNCHANGED endVars \/ Finish("error")
    BY <1>6 DEF CallSide, SideSettles, Refuse
  <2>4. /\ ending' \in {"no", "flush", "finishing", "settled"}
        /\ verdict' \in {"none", "value", "error"} /\ awaited' \subseteq SideCalls
        /\ aborted' \in BOOLEAN /\ (WorkflowOver => WorkflowOver')
    BY <1>1, <2>3, FinishEffect DEF WorkflowTypeOK, endVars, WorkflowOver
  <2>5. WorkflowTypeOK'
    BY <1>1, <2>1, <2>2, <2>4 DEF WorkflowTypeOK, launchVars, outcomeVars
  <2> QED
    BY <2>1, <2>4, <2>5, UntoldStep DEF launchVars, outcomeVars
<1>7. ASSUME NEW x \in Keys \cup SideCalls, Observe(x) PROVE WorkflowInv'
  <2>1. observed' = observed \cup {x} /\ UNCHANGED <<launchVars, outcomeVars, side, endVars>>
    BY <1>7 DEF Observe
  <2>2. WorkflowTypeOK'
    BY <1>1, <2>1 DEF WorkflowTypeOK, launchVars, outcomeVars, endVars
  <2> QED
    BY <2>1, <2>2, UntoldStep DEF launchVars, outcomeVars, endVars, WorkflowOver
<1>8. CASE ScriptEnds
  <2>1. UNCHANGED <<launchVars, outcomeVars, observed, side>>
    BY <1>8 DEF ScriptEnds
  <2>2. /\ WorkflowOver' /\ ending' \in {"no", "flush", "finishing", "settled"}
        /\ verdict' \in {"none", "value", "error"} /\ awaited' \subseteq SideCalls
        /\ aborted' \in BOOLEAN
    BY <1>1, <1>8, FinishEffect DEF ScriptEnds
  <2>3. WorkflowTypeOK'
    BY <1>1, <2>1, <2>2 DEF WorkflowTypeOK, launchVars, outcomeVars
  <2> QED
    BY <2>1, <2>2, <2>3, UntoldStep DEF launchVars, outcomeVars
<1>9. CASE AbortWorkflow
  <2>1. UNCHANGED <<launchVars, children, answered, notified, observed, side, barrier>>
    BY <1>9 DEF AbortWorkflow
  <2>2. \/ /\ ending' = "flush" /\ aborted' = TRUE /\ ending = "no"
           /\ UNCHANGED <<verdict, awaited, stoppedLaunches>>
        \/ /\ Finish("error")
           /\ stoppedLaunches' = stoppedLaunches
                                   \cup {j \in Keys : phase[j] # "none" /\ children[j] = "none"}
    BY <1>9 DEF AbortWorkflow, Launched
  <2>3. /\ ending' \in {"no", "flush", "finishing", "settled"}
        /\ verdict' \in {"none", "value", "error"} /\ awaited' \subseteq SideCalls
        /\ aborted' \in BOOLEAN /\ (WorkflowOver => WorkflowOver')
        /\ WorkflowOver' \/ stoppedLaunches' = stoppedLaunches
    BY <1>1, <2>2, FinishEffect DEF WorkflowTypeOK, WorkflowOver
  <2>4. stoppedLaunches' \subseteq Keys
    BY <1>1, <2>2 DEF WorkflowTypeOK
  <2>5. WorkflowTypeOK'
    BY <1>1, <2>1, <2>3, <2>4 DEF WorkflowTypeOK, launchVars
  <2> QED
    BY <2>1, <2>2, <2>3, <2>5, UntoldStep DEF launchVars
<1>10. CASE SettleWorkflow
  <2>1. UNCHANGED <<launchVars, outcomeVars, observed, side, awaited, aborted>>
        /\ ending' = "settled" /\ verdict' \in {"error", verdict}
    BY <1>10 DEF SettleWorkflow
  <2>2. WorkflowTypeOK'
    BY <1>1, <2>1 DEF WorkflowTypeOK, launchVars, outcomeVars
  <2> QED
    BY <2>1, <2>2, UntoldStep DEF launchVars, outcomeVars, WorkflowOver
<1>11. CASE UNCHANGED workflowVars
  <2>1. WorkflowTypeOK'
    BY <1>1, <1>11 DEF WorkflowTypeOK, workflowVars
  <2> QED
    BY <1>11, <2>1, UntoldStep DEF workflowVars, WorkflowOver
<1> QED
  BY <1>3, <1>4, <1>5, <1>6, <1>7, <1>8, <1>9, <1>10, <1>11, LaunchStepKeeps DEF WorkflowNext

\* The inductive invariant of a workflow.
THEOREM WorkflowInductive == WorkflowSpec => []WorkflowInv
<1>1. ASSUME WorkflowInit PROVE WorkflowInv
  <2>1. Limit \in Nat /\ Limit \in 0..Limit
    BY WorkflowAssumption
  <2>2. WorkflowTypeOK
    <3>1. <<>> \in Seq(Keys) /\ <<>> \in Seq(Results)
      OBVIOUS
    <3>2. queue \in Seq(Keys) /\ notified \in [Keys -> Seq(Results)]
      BY <1>1, <3>1 DEF WorkflowInit
    <3>3. /\ phase \in [Keys -> Phases] /\ children \in [Keys -> Outcomes]
          /\ answered \in [Keys -> Outcomes]
      BY <1>1 DEF WorkflowInit, Phases, Outcomes
    <3> QED
      BY <1>1, <2>1, <3>2, <3>3 DEF WorkflowInit, WorkflowTypeOK
  <2>3. QueueWaits
    BY <1>1 DEF WorkflowInit, QueueWaits
  <2>4. PermitsCounted
    <3>1. Permitted = {}
      BY <1>1 DEF WorkflowInit, Permitted
    <3> QED
      BY <1>1, <2>1, <3>1, FS_EmptySet DEF WorkflowInit, PermitsCounted
  <2>5. LaunchesTold
    BY <1>1 DEF WorkflowInit, LaunchesTold, Launched
  <2>6. OneStory
    <3>1. Len(<<>>) <= 1
      OBVIOUS
    <3> QED
      BY <1>1, <3>1 DEF WorkflowInit, OneStory
  <2> QED
    BY <2>2, <2>3, <2>4, <2>5, <2>6 DEF WorkflowInv
<1>2. WorkflowInv /\ [WorkflowNext]_workflowVars => WorkflowInv'
  BY WorkflowStep
<1> QED
  BY <1>1, <1>2, PTL DEF WorkflowSpec

\* Children, permits and outcomes of a workflow stay within the states the source knows.
THEOREM WorkflowTypeCorrect == WorkflowSpec => []WorkflowTypeOK
  BY WorkflowInductive, PTL DEF WorkflowInv

\* Script, parent and result of a workflow are told the same of a child, once, for any
\* number of keys, side calls and permits (scripted-workflow.ts:2611).
THEOREM WorkflowOneStory == WorkflowSpec => []OneStory
<1>1. WorkflowInv => OneStory
  BY DEF WorkflowInv
<1> QED
  BY <1>1, WorkflowInductive, PTL

\* No permit of the launch semaphore is lost or made up: those in the pool and those of
\* launches that were granted one or run are the limit, always (parallel-utils.ts).
THEOREM WorkflowPermits ==
  WorkflowSpec => [](available + Cardinality(Permitted) = Limit)
<1>1. WorkflowInv => available + Cardinality(Permitted) = Limit
  BY DEF WorkflowInv, PermitsCounted
<1> QED
  BY <1>1, WorkflowInductive, PTL

\* A launch that waits is in the queue, and while there is a queue the pool is empty.
Waiting ==
  /\ \A k \in Keys : phase[k] = "queued" => \E i \in 1..Len(queue) : queue[i] = k
  /\ queue # <<>> => available = 0

\* A permit that is released with a launch in the queue goes to that launch.
LEMMA WaitingReleased ==
  ASSUME WorkflowTypeOK, Waiting, NEW k \in Keys, NEW p \in {"done", "resumed"},
         phase[k] # "queued", ReleasePermit(k, p)
  PROVE  Waiting'
<1>1. phase \in [Keys -> Phases] /\ queue \in Seq(Keys)
  BY DEF WorkflowTypeOK
<1>2. CASE queue = <<>>
  <2>1. \A j \in Keys : phase'[j] # "queued"
    BY <1>1, <1>2 DEF Waiting, ReleasePermit, Moves
  <2> QED
    BY <1>2, <2>1 DEF ReleasePermit, Waiting
<1>3. CASE queue # <<>>
  <2>1. /\ queue' = Tail(queue) /\ available' = available /\ available = 0
        /\ phase' = [phase EXCEPT ![k] = p, ![Head(queue)] = "granted"]
    BY <1>3 DEF ReleasePermit, Waiting
  <2>2. /\ Len(queue) \in Nat /\ Len(queue) > 0 /\ Head(queue) = queue[1] /\ queue[1] \in Keys
        /\ Len(Tail(queue)) = Len(queue) - 1
        /\ \A i \in 1..Len(Tail(queue)) : Tail(queue)[i] = queue[i + 1]
    BY <1>1, <1>3
  <2>3. ASSUME NEW j \in Keys, phase'[j] = "queued" PROVE \E i \in 1..Len(queue') : queue'[i] = j
    <3>1. phase[j] = "queued" /\ j # queue[1]
      BY <1>1, <2>1, <2>2, <2>3
    <3>2. PICK i \in 1..Len(queue) : queue[i] = j
      BY <3>1 DEF Waiting
    <3>3. i # 1 /\ i - 1 \in 1..(Len(queue) - 1) /\ (i - 1) + 1 = i
      BY <2>2, <3>1, <3>2
    <3>4. i - 1 \in 1..Len(queue') /\ queue'[i - 1] = j
      BY <2>1, <2>2, <3>2, <3>3
    <3> QED
      BY <3>4
  <2> QED
    BY <2>1, <2>3 DEF Waiting
<1> QED
  BY <1>2, <1>3

\* Launches move on: into the queue only when the pool is empty.
LEMMA WaitingStep ==
  ASSUME WorkflowTypeOK, Waiting, [WorkflowNext]_workflowVars
  PROVE  Waiting'
<1>1. phase \in [Keys -> Phases] /\ queue \in Seq(Keys)
  BY DEF WorkflowTypeOK
<1>2. ASSUME UNCHANGED <<available, queue>>,
             \A k \in Keys : phase'[k] = phase[k] \/ phase'[k] # "queued"
      PROVE  Waiting'
  BY <1>2 DEF Waiting
<1>3. ASSUME NEW k \in Keys, NEW p \in Phases \ {"queued"}, Moves(k, p), UNCHANGED <<available, queue>>
      PROVE  Waiting'
  BY <1>1, <1>2, <1>3 DEF Moves
<1>4. ASSUME NEW k \in Keys, Run(k) PROVE Waiting'
  BY <1>2, <1>3, <1>4 DEF Run, Phases
<1>5. ASSUME NEW k \in Keys, Enter(k) PROVE Waiting'
  <2>1. CASE available' = available - 1 /\ available > 0 /\ Moves(k, "granted") /\ UNCHANGED queue
    <3>1. queue = <<>>
      BY <2>1 DEF Waiting
    <3> QED
      BY <1>1, <2>1, <3>1 DEF Waiting, Moves
  <2>2. CASE available = 0 /\ queue' = Append(queue, k) /\ Moves(k, "queued") /\ UNCHANGED available
    <3>1. /\ Len(queue') = Len(queue) + 1 /\ queue'[Len(queue')] = k /\ Len(queue) \in Nat
          /\ \A i \in 1..Len(queue) : queue'[i] = queue[i]
      BY <1>1, <2>2
    <3>2. ASSUME NEW j \in Keys, phase'[j] = "queued" PROVE \E i \in 1..Len(queue') : queue'[i] = j
      <4>1. CASE j = k
        BY <3>1, <4>1
      <4>2. CASE j # k
        <5>1. PICK i \in 1..Len(queue) : queue[i] = j
          BY <1>1, <2>2, <3>2, <4>2 DEF Moves, Waiting
        <5> QED
          BY <3>1, <5>1
      <4> QED
        BY <4>1, <4>2
    <3> QED
      BY <2>2, <3>2 DEF Waiting
  <2>3. CASE Moves(k, "done") /\ UNCHANGED <<available, queue>>
    BY <1>3, <2>3 DEF Phases
  <2> QED
    BY <1>5, <2>1, <2>2, <2>3 DEF Enter
<1>6. ASSUME NEW k \in Keys, Refused(k) \/ ReturnResumed(k) PROVE Waiting'
  BY <1>3, <1>6 DEF Refused, ReturnResumed, Phases
<1>7. ASSUME NEW k \in Keys, StartLaunch(k) \/ LaunchSettles(k) PROVE Waiting'
  <2>1. phase[k] # "queued"
    BY <1>7 DEF StartLaunch, LaunchSettles
  <2>2. CASE ReleasePermit(k, "done") \/ ReleasePermit(k, "resumed")
    BY <2>1, <2>2, WaitingReleased
  <2>3. CASE Moves(k, "running") /\ UNCHANGED <<available, queue>>
    BY <1>3, <2>3 DEF Phases
  <2> QED
    BY <1>7, <2>2, <2>3 DEF StartLaunch, LaunchSettles
<1>8. CASE UNCHANGED <<phase, available, queue>>
  BY <1>2, <1>8
<1>9. ASSUME NEW k \in Keys, StopChild(k) PROVE Waiting'
  BY <1>8, <1>9 DEF StopChild, launchVars
<1>10. ASSUME NEW b \in Batches, Admit(b) PROVE Waiting'
  BY <1>8, <1>10 DEF Admit
<1>11. ASSUME NEW x \in Keys \cup SideCalls,
              CallSide(x) \/ SideSettles(x) \/ Observe(x) \/ ScriptEnds \/ AbortWorkflow \/ SettleWorkflow
       PROVE  Waiting'
  BY <1>8, <1>11 DEF CallSide, SideSettles, Observe, ScriptEnds, AbortWorkflow, SettleWorkflow, launchVars
<1>12. CASE ScriptEnds \/ AbortWorkflow \/ SettleWorkflow
  BY <1>8, <1>12 DEF ScriptEnds, AbortWorkflow, SettleWorkflow, launchVars
<1>13. CASE UNCHANGED workflowVars
  BY <1>8, <1>13 DEF workflowVars
<1> QED
  BY <1>4, <1>5, <1>6, <1>7, <1>9, <1>10, <1>11, <1>12, <1>13 DEF WorkflowNext, LaunchStep

\* No wake-up is lost: a launch waits only while every permit is with a launch that was
\* granted it or runs, and what is at the head of the queue is the next to get one
\* (parallel-utils.ts).  This is what CallsAnswered needs of the semaphore.
THEOREM WorkflowWakes ==
  WorkflowSpec => []((\E k \in Keys : phase[k] = "queued") => Cardinality(Permitted) = Limit)
<1>1. WorkflowInit => Waiting
  BY DEF WorkflowInit, Waiting
<1>2. WorkflowInv /\ Waiting /\ [WorkflowNext]_workflowVars => Waiting'
  BY WaitingStep DEF WorkflowInv
<1>3. WorkflowInv /\ Waiting => ((\E k \in Keys : phase[k] = "queued") => Cardinality(Permitted) = Limit)
  <2> SUFFICES ASSUME WorkflowInv, Waiting, NEW k \in Keys, phase[k] = "queued"
               PROVE  Cardinality(Permitted) = Limit
    OBVIOUS
  <2>1. queue # <<>>
    BY DEF Waiting
  <2>2. available = 0 /\ IsFiniteSet(Permitted) /\ available + Cardinality(Permitted) = Limit
    BY <2>1 DEF Waiting, WorkflowInv, PermitsCounted
  <2>3. Cardinality(Permitted) \in Nat
    BY <2>2, FS_CardinalityType
  <2> QED
    BY <2>2, <2>3
<1> QED
  BY WorkflowInductive, <1>1, <1>2, <1>3, PTL DEF WorkflowSpec

-----------------------------------------------------------------------------
(* Child sessions *)

\* What a settlement does to the session and the records.
LEMMA SettleStep ==
  ASSUME ChildInv, NEW prompt \in {"no", "resolved", "rejected"}, NEW byForce \in BOOLEAN,
         Settle(prompt, byForce)
  PROVE  ChildInv'
<1>1. /\ ~settled /\ settled' = TRUE
      /\ accepted' = {} /\ timers' = {} /\ ended' = prompt
      /\ UNCHANGED <<errorVars, clean, quiet, hold, retrying, reviewVars, hookHeld, inChild, call,
                   runDone>>
  BY DEF Settle
<1>2. record' = [q \in Steers |-> IF q \in accepted /\ record[q] # "delivered" THEN "failed"
                                  ELSE record[q]]
  BY DEF Settle
<1>3. child' = IF child = "open" THEN "closed" ELSE IF prompt = "rejected" THEN "none" ELSE child
  BY DEF Settle
<1>4. /\ exit' \in {0, 1}
      /\ flags \cap {"timeout", "stop"} # {} => exit' = 1
      /\ flags = {} /\ ~failed /\ ~assistantError /\ prompt # "rejected" /\ (clean \/ quiet)
           => exit' = 0
  BY DEF Settle
<1>5. /\ ChildTypeOK /\ OneAsked
      /\ \A q \in Steers : record[q] \in {"routed", "queued"} => q \in accepted \/ call[q] = "waiting"
      /\ \A q \in Steers : call[q] # "idle" => record[q] # "none"
      /\ runDone => settled
  BY DEF ChildInv, SteersFollowed
<1>6. \A q \in Steers : record'[q] \in {"routed", "queued"} => call'[q] = "waiting"
  BY <1>1, <1>2, <1>5
<1>7. ChildTypeOK'
  BY <1>1, <1>2, <1>3, <1>4, <1>5 DEF ChildTypeOK, errorVars, reviewVars
<1>8. OneAsked'
  BY <1>1, <1>5 DEF OneAsked, errorVars
<1>9. SteersFollowed'
  BY <1>1, <1>2, <1>5, <1>6 DEF SteersFollowed
<1>10. LeavesNothing' /\ NoneForgotten'
  BY <1>1, <1>3, <1>5, <1>6 DEF LeavesNothing, NoneForgotten, WaitingSteers
<1>11. Cardinality(flags) <= 1
  <2>1. CASE flags = {}
    BY <2>1, FS_EmptySet
  <2>2. ASSUME NEW kind, flags = {kind} PROVE Cardinality(flags) <= 1
    <3>1. Cardinality({kind}) = 1
      BY FS_Singleton
    <3> QED
      BY <2>2, <3>1
  <2> QED
    BY <1>5, <2>1, <2>2 DEF OneAsked
<1>12. EndsAsAsked'
  BY <1>1, <1>4, <1>11 DEF EndsAsAsked, errorVars
<1> QED
  BY <1>7, <1>8, <1>9, <1>10, <1>12 DEF ChildInv, EndsCleanly

\* Every variable of a child session stays within its domain.
LEMMA ChildTypeStep ==
  ASSUME ChildInv, [ChildNext]_childVars
  PROVE  ChildTypeOK'
<1> USE ChildAssumption DEF ChildTypeOK
<1>0. ChildTypeOK
  BY DEF ChildInv
<1>1. ASSUME CreateSession \/ CreateFails \/ PromptSettles \/ HardPasses PROVE ChildTypeOK'
  <2>1. ASSUME NEW prompt \in {"no", "resolved", "rejected"}, NEW byForce \in BOOLEAN,
               Settle(prompt, byForce)
        PROVE  ChildTypeOK'
    BY <2>1, SettleStep DEF ChildInv
  <2>2. CASE CreateSession
    <3>1. /\ accepted' \subseteq Steers /\ inChild' \subseteq Steers
          /\ call' \in [Steers -> {"idle", "waiting", "sent", "refused", "returned"}]
      BY <1>0, <2>2 DEF CreateSession, HandOver, WaitingSteers
    <3> QED
      BY <1>0, <2>2, <3>1 DEF CreateSession, errorVars, drainVars, reviewVars
  <2>3. ASSUME CreateFails, settled PROVE ChildTypeOK'
    BY <1>0, <2>3 DEF CreateFails, Settle, errorVars, drainVars, reviewVars
  <2> QED
    BY <1>1, <2>1, <2>2, <2>3 DEF CreateFails, PromptSettles, HardPasses
<1>2. ASSUME NEW kind \in {"interrupt", "timeout", "stop"}, Ask(kind) PROVE ChildTypeOK'
  BY <1>0, <1>2 DEF Ask, messageVars, reviewVars
<1>3. ASSUME Begins \/ AgentEnds \/ HookMoves PROVE ChildTypeOK'
  BY <1>0, <1>3 DEF Begins, AgentEnds, HookMoves, CancelDrain, messageVars, errorVars,
     drainVars,
     reviewVars, DrainTimers
<1>4. ASSUME NEW c \in BOOLEAN, NEW q \in BOOLEAN, NEW active \in BOOLEAN,
             NEW armed \in SUBSET (DrainTimers \cup {"tail", "abort"}),
             StartDrain(c, q, active, armed)
      PROVE  timers' \subseteq DrainTimers \cup {"tail", "abort"} /\ hold' \in BOOLEAN
  BY <1>0, <1>4 DEF StartDrain, DrainTimers
<1>5. ASSUME AgentSettles PROVE ChildTypeOK'
  <2>1. timers' \subseteq DrainTimers \cup {"tail", "abort"} /\ hold' \in BOOLEAN
    BY <1>0, <1>4, <1>5 DEF AgentSettles
  <2>2. quiet' = TRUE
        /\ UNCHANGED <<messageVars, errorVars, clean, retrying, reviewVars, hookHeld>>
    BY <1>5 DEF AgentSettles
  <2> QED
    BY <1>0, <2>1, <2>2 DEF messageVars, errorVars, reviewVars
<1>6. ASSUME NEW on \in BOOLEAN, CompactionEnds(on) \/ AssistantSays(on) PROVE ChildTypeOK'
  BY <1>0, <1>6 DEF CompactionEnds, AssistantSays, CancelDrain, messageVars, errorVars,
     drainVars, reviewVars, DrainTimers
<1>7. ASSUME NEW on \in BOOLEAN, WatchdogReports(on) PROVE ChildTypeOK'
  <2>1. reviews' \in 0..MaxReviews
    <3>1. reviews \in 0..MaxReviews /\ reviews < MaxReviews /\ reviews' = reviews + 1
      BY <1>0, <1>7 DEF WatchdogReports
    <3> QED
      BY <3>1
  <2>2. timers' \subseteq DrainTimers \cup {"tail", "abort"} /\ hold' \in BOOLEAN
    <3>1. CASE on \/ clean \/ quiet
      <4>1. PICK armed \in SUBSET (DrainTimers \cup {"tail", "abort"}) :
              StartDrain(clean, quiet, on, armed)
        BY <1>0, <1>7, <3>1 DEF WatchdogReports
      <4> QED
        BY <1>0, <1>4, <4>1
    <3>2. CASE ~(on \/ clean \/ quiet)
      BY <1>0, <1>7, <3>2 DEF WatchdogReports
    <3> QED
      BY <3>1, <3>2
  <2>3. reviewing' = on /\ UNCHANGED <<messageVars, errorVars, clean, quiet, retrying, hookHeld>>
    BY <1>7 DEF WatchdogReports
  <2> QED
    BY <1>0, <2>1, <2>2, <2>3 DEF messageVars, errorVars
<1>8. ASSUME NEW kind \in {"text", "empty", "error"}, AssistantStops(kind) PROVE ChildTypeOK'
  <2>1. clean' \in BOOLEAN /\ assistantError' \in BOOLEAN
    BY <1>0, <1>8 DEF AssistantStops
  <2>2. timers' \subseteq DrainTimers \cup {"tail", "abort"} /\ hold' \in BOOLEAN
    <3>1. StartDrain(clean', quiet, reviewing, timers)
      BY <1>8 DEF AssistantStops
    <3> QED
      BY <1>0, <1>4, <2>1, <3>1
  <2>3. UNCHANGED <<messageVars, flags, failed, forced, quiet, retrying, reviewVars, hookHeld>>
    BY <1>8 DEF AssistantStops
  <2> QED
    BY <1>0, <2>1, <2>2, <2>3 DEF messageVars, reviewVars
<1>9. ASSUME DrainPasses PROVE ChildTypeOK'
  <2>1. hold' \in BOOLEAN /\ forced' \in BOOLEAN /\ failed' \in BOOLEAN
    BY <1>0, <1>9 DEF DrainPasses
  <2>2. timers' \subseteq DrainTimers \cup {"tail", "abort"}
    BY <1>0, <1>9 DEF DrainPasses, DrainTimers
  <2>3. UNCHANGED <<messageVars, flags, assistantError, clean, quiet, retrying, reviewVars,
                    hookHeld>>
    BY <1>9 DEF DrainPasses
  <2> QED
    BY <1>0, <2>1, <2>2, <2>3 DEF messageVars, reviewVars
<1>10. ASSUME TailPasses PROVE ChildTypeOK'
  <2>1. timers' \subseteq DrainTimers \cup {"tail", "abort"} /\ hold' \in BOOLEAN
    <3>1. StartDrain(clean, quiet, FALSE, timers \ {"tail"})
      BY <1>10 DEF TailPasses
    <3> QED
      BY <1>0, <1>4, <3>1
  <2>2. reviewing' = FALSE
        /\ UNCHANGED <<messageVars, errorVars, clean, quiet, retrying, reviews, hookHeld>>
    BY <1>10 DEF TailPasses
  <2> QED
    BY <1>0, <2>1, <2>2 DEF messageVars, errorVars
<1>11. ASSUME NEW q \in Steers, Steer(q) PROVE ChildTypeOK'
  <2>1. /\ accepted' \subseteq Steers /\ inChild' \subseteq Steers
        /\ call' \in [Steers -> {"idle", "waiting", "sent", "refused", "returned"}]
        /\ record' \in [Steers -> {"none", "routed", "queued", "delivered", "failed"}]
        /\ hold' \in BOOLEAN
    BY <1>0, <1>11 DEF Steer, HandOver
  <2>2. UNCHANGED <<child, settled, errorVars, clean, quiet, retrying, timers, reviewVars,
                    hookHeld, exit, ended, runDone>>
    BY <1>11 DEF Steer
  <2> QED
    BY <1>0, <2>1, <2>2 DEF errorVars, reviewVars
<1>12. ASSUME NEW q \in Steers, SteerReturns(q) \/ Consume(q) \/ LaterAttempt(q) PROVE ChildTypeOK'
  <2>1. /\ accepted' \subseteq Steers /\ inChild' \subseteq Steers
        /\ call' \in [Steers -> {"idle", "waiting", "sent", "refused", "returned"}]
    BY <1>0, <1>12 DEF SteerReturns, Consume, LaterAttempt
  <2>2. record' = record \/ \E state \in {"queued", "failed", "delivered"} : RecordState(q, state)
    BY <1>12 DEF SteerReturns, Consume, LaterAttempt
  <2>3. record' \in [Steers -> {"none", "routed", "queued", "delivered", "failed"}]
    BY <1>0, <2>2 DEF RecordState
  <2>4. UNCHANGED <<child, settled, errorVars, drainVars, reviewVars, hookHeld, exit, ended, runDone>>
    BY <1>12 DEF SteerReturns, Consume, LaterAttempt
  <2> QED
    BY <1>0, <2>1, <2>3, <2>4 DEF errorVars, drainVars, reviewVars
<1>13. CASE RunSettles
  BY <1>0, <1>13 DEF RunSettles, errorVars, drainVars, reviewVars
<1>14. CASE UNCHANGED childVars
  BY <1>0, <1>14 DEF childVars
<1> QED
  BY <1>1, <1>2, <1>3, <1>5, <1>6, <1>7, <1>8, <1>9, <1>10, <1>11, <1>12, <1>13, <1>14
     DEF ChildNext

\* Every step keeps the rest: a step that does not settle leaves the end of the child as it
\* is, and moves the records only of a steer that is followed.
LEMMA ChildStep ==
  ASSUME ChildInv, [ChildNext]_childVars
  PROVE  OneAsked' /\ SteersFollowed' /\ EndsCleanly'
<1>1. /\ ChildTypeOK /\ OneAsked
      /\ \A q \in Steers : record[q] \in {"routed", "queued"} => q \in accepted \/ call[q] = "waiting"
      /\ \A q \in Steers : call[q] # "idle" => record[q] # "none"
      /\ \A q \in Steers : call[q] = "waiting" /\ ~settled => record[q] = "routed"
      /\ settled => /\ child # "open" /\ timers = {}
                    /\ \A q \in Steers : record[q] \in {"routed", "queued"} => call[q] = "waiting"
      /\ \A q \in Steers : record[q] = "failed" /\ call[q] = "sent" => settled
      /\ child = "open" => \A q \in Steers : call[q] # "waiting"
      /\ runDone => settled
      /\ runDone => \A q \in Steers : record[q] \notin {"routed", "queued"}
      /\ EndsAsAsked
  BY DEF ChildInv, SteersFollowed, EndsCleanly, LeavesNothing, NoneForgotten, WaitingSteers
<1>2. ASSUME NEW prompt \in {"no", "resolved", "rejected"}, NEW byForce \in BOOLEAN,
             Settle(prompt, byForce)
      PROVE  OneAsked' /\ SteersFollowed' /\ EndsCleanly'
  BY <1>2, SettleStep DEF ChildInv
\* A step of a child that has settled, which moves neither timers nor records.
<1>3. ASSUME settled' = settled, UNCHANGED <<errorVars, clean, quiet, timers, accepted, call,
                                            record, exit, ended, runDone>>,
             child' = "open" => child = "open"
      PROVE  OneAsked' /\ SteersFollowed' /\ EndsCleanly'
  <2>1. OneAsked' /\ EndsAsAsked'
    BY <1>1, <1>3 DEF OneAsked, EndsAsAsked, errorVars
  <2>2. SteersFollowed' /\ LeavesNothing' /\ NoneForgotten'
    BY <1>1, <1>3 DEF SteersFollowed, LeavesNothing, NoneForgotten, WaitingSteers
  <2> QED
    BY <2>1, <2>2 DEF EndsCleanly
\* A step before it, which does not move the records.
<1>4. ASSUME ~settled, UNCHANGED messageVars, OneAsked'
      PROVE  OneAsked' /\ SteersFollowed' /\ EndsCleanly'
  <2>1. SteersFollowed' /\ LeavesNothing' /\ NoneForgotten'
    BY <1>1, <1>4 DEF SteersFollowed, LeavesNothing, NoneForgotten, WaitingSteers, messageVars
  <2>2. EndsAsAsked'
    BY <1>4 DEF EndsAsAsked, messageVars
  <2> QED
    BY <1>4, <2>1, <2>2 DEF EndsCleanly
<1>5. ASSUME UNCHANGED errorVars PROVE OneAsked'
  BY <1>1, <1>5 DEF OneAsked, errorVars
<1>6. CASE CreateSession \/ CreateFails \/ PromptSettles \/ HardPasses
  <2>1. CASE CreateSession
    <3>1. UNCHANGED <<settled, errorVars, clean, quiet, timers, record, exit, ended, runDone>>
      BY <2>1 DEF CreateSession, drainVars
    <3>2. CASE settled
      BY <1>3, <2>1, <3>1, <3>2 DEF CreateSession
    <3>3. CASE ~settled
      <4>1. PICK refused \in SUBSET WaitingSteers :
              /\ accepted' = accepted \cup WaitingSteers
              /\ \A q \in Steers : call'[q] = IF q \in refused THEN "refused"
                                             ELSE IF q \in WaitingSteers THEN "sent" ELSE call[q]
        BY <2>1, <3>3 DEF CreateSession, HandOver
      <4>2. \A q \in Steers :
              /\ call'[q] # "waiting"
              /\ call[q] = "waiting" => q \in accepted' /\ record'[q] = "routed"
              /\ call[q] # "waiting" => call'[q] = call[q]
              /\ q \in accepted => q \in accepted'
        BY <1>1, <3>1, <3>3, <4>1 DEF WaitingSteers
      <4>3. SteersFollowed' /\ LeavesNothing' /\ NoneForgotten'
        BY <1>1, <3>1, <3>3, <4>2 DEF SteersFollowed, LeavesNothing, NoneForgotten, WaitingSteers
      <4>4. EndsAsAsked'
        BY <3>1, <3>3 DEF EndsAsAsked
      <4> QED
        BY <1>5, <3>1, <4>3, <4>4 DEF EndsCleanly
    <3> QED
      BY <3>2, <3>3
  <2>2. ASSUME CreateFails, settled PROVE OneAsked' /\ SteersFollowed' /\ EndsCleanly'
    BY <1>3, <2>2 DEF CreateFails, Settle, drainVars
  <2> QED
    BY <1>2, <1>6, <2>1, <2>2 DEF CreateFails, PromptSettles, HardPasses
<1>7. ASSUME NEW kind \in {"interrupt", "timeout", "stop"}, Ask(kind)
      PROVE  OneAsked' /\ SteersFollowed' /\ EndsCleanly'
  <2>1. flags' = {kind}
    BY <1>1, <1>7 DEF Ask, OneAsked
  <2> QED
    BY <1>4, <1>7, <2>1 DEF Ask, OneAsked
<1>8. CASE Begins \/ AgentEnds \/ HookMoves \/ AgentSettles
  <2>1. ~settled /\ UNCHANGED <<messageVars, errorVars>>
    BY <1>8 DEF Begins, AgentEnds, HookMoves, AgentSettles, Listening
  <2> QED
    BY <1>4, <1>5, <2>1
<1>9. ASSUME NEW on \in BOOLEAN, CompactionEnds(on) \/ AssistantSays(on) \/ WatchdogReports(on)
      PROVE  OneAsked' /\ SteersFollowed' /\ EndsCleanly'
  <2>1. ~settled /\ UNCHANGED <<messageVars, flags>>
    BY <1>9 DEF CompactionEnds, AssistantSays, WatchdogReports, Listening, errorVars
  <2> QED
    BY <1>1, <1>4, <2>1 DEF OneAsked
<1>10. ASSUME NEW kind \in {"text", "empty", "error"}, AssistantStops(kind)
       PROVE  OneAsked' /\ SteersFollowed' /\ EndsCleanly'
  <2>1. ~settled /\ UNCHANGED <<messageVars, flags>>
    BY <1>10 DEF AssistantStops, Listening
  <2> QED
    BY <1>1, <1>4, <2>1 DEF OneAsked
<1>11. CASE DrainPasses \/ TailPasses
  <2>1. ~settled
    BY <1>1, <1>11 DEF DrainPasses, TailPasses
  <2>2. UNCHANGED <<messageVars, flags>>
    BY <1>11 DEF DrainPasses, TailPasses, errorVars
  <2> QED
    BY <1>1, <1>4, <2>1, <2>2 DEF OneAsked
<1>12. ASSUME NEW q \in Steers, Steer(q) PROVE OneAsked' /\ SteersFollowed' /\ EndsCleanly'
  <2>1. /\ ~runDone /\ UNCHANGED <<child, settled, errorVars, clean, quiet, timers, exit, ended, runDone>>
        /\ \A r \in Steers : record'[r] = IF r = q THEN "routed" ELSE record[r]
    BY <1>1, <1>12 DEF Steer, ChildTypeOK
  <2>2. /\ accepted \subseteq accepted'
        /\ \A r \in Steers \ {q} : call'[r] = call[r]
        /\ \/ ~settled /\ q \in accepted' /\ call'[q] # "waiting"
           \/ child # "open" /\ call'[q] = "waiting"
    <3>1. CASE Listening /\ HandOver({q})
      <4>1. PICK refused \in SUBSET {q} :
              /\ accepted' = accepted \cup {q}
              /\ \A r \in Steers : call'[r] = IF r \in refused THEN "refused"
                                             ELSE IF r \in {q} THEN "sent" ELSE call[r]
        BY <3>1 DEF HandOver
      <4> QED
        BY <3>1, <4>1 DEF Listening
    <3>2. CASE ~Listening /\ call' = [call EXCEPT ![q] = "waiting"] /\ UNCHANGED accepted
      BY <1>1, <3>2 DEF Listening, ChildTypeOK
    <3> QED
      BY <1>12, <3>1, <3>2 DEF Steer
  <2>3. SteersFollowed'
    BY <1>1, <2>1, <2>2 DEF SteersFollowed
  <2>4. LeavesNothing'
    BY <1>1, <2>1, <2>2 DEF LeavesNothing, WaitingSteers
  <2>5. NoneForgotten' /\ EndsAsAsked'
    BY <1>1, <2>1, <2>2 DEF NoneForgotten, WaitingSteers, EndsAsAsked, errorVars
  <2> QED
    BY <1>5, <2>1, <2>3, <2>4, <2>5 DEF EndsCleanly
<1>13. ASSUME NEW q \in Steers, SteerReturns(q)
       PROVE  OneAsked' /\ SteersFollowed' /\ EndsCleanly'
  <2>1. /\ call[q] \in {"sent", "refused"}
        /\ UNCHANGED <<child, settled, errorVars, drainVars, exit, ended, runDone>>
        /\ accepted' = IF call[q] = "sent" THEN accepted ELSE accepted \ {q}
        /\ \A r \in Steers : call'[r] = IF r = q THEN "returned" ELSE call[r]
    BY <1>1, <1>13 DEF SteerReturns, ChildTypeOK
  <2>2. \A r \in Steers : record'[r] = IF r # q \/ record[q] \in {"delivered", "failed"} THEN record[r]
                                       ELSE IF call[q] = "sent" THEN "queued" ELSE "failed"
    BY <1>1, <1>13 DEF SteerReturns, RecordState, ChildTypeOK
  <2>3. record[q] \notin {"delivered", "failed"} => q \in accepted /\ ~settled
    BY <1>1, <2>1 DEF ChildTypeOK
  <2>4. SteersFollowed'
    BY <1>1, <2>1, <2>2, <2>3 DEF SteersFollowed
  <2>5. LeavesNothing' /\ NoneForgotten'
    BY <1>1, <2>1, <2>2, <2>3 DEF LeavesNothing, NoneForgotten, WaitingSteers, drainVars
  <2>6. EndsAsAsked'
    BY <1>1, <2>1 DEF EndsAsAsked, errorVars, drainVars
  <2> QED
    BY <1>5, <2>1, <2>4, <2>5, <2>6 DEF EndsCleanly
<1>14. ASSUME NEW q \in Steers, Consume(q) PROVE OneAsked' /\ SteersFollowed' /\ EndsCleanly'
  <2>1. ~settled /\ child = "open" /\ UNCHANGED <<child, settled, errorVars, call, runDone>>
    BY <1>14 DEF Consume, Listening
  <2>2. CASE q \in accepted
    <3>1. /\ accepted' = accepted \ {q}
          /\ \A r \in Steers : record'[r] = IF r # q \/ record[q] \in {"delivered", "failed"}
                                           THEN record[r] ELSE "delivered"
      BY <1>1, <1>14, <2>2 DEF Consume, RecordState, ChildTypeOK
    <3>2. SteersFollowed'
      BY <1>1, <2>1, <3>1 DEF SteersFollowed
    <3>3. LeavesNothing' /\ NoneForgotten' /\ EndsAsAsked'
      BY <1>1, <2>1, <3>1 DEF LeavesNothing, NoneForgotten, WaitingSteers, EndsAsAsked
    <3> QED
      BY <1>5, <2>1, <3>2, <3>3 DEF EndsCleanly
  <2>3. CASE q \notin accepted
    <3>1. UNCHANGED <<child, accepted, record, timers, clean, quiet, exit, ended>>
      BY <1>14, <2>3 DEF Consume, drainVars
    <3> QED
      BY <1>3, <2>1, <3>1
  <2> QED
    BY <2>2, <2>3
<1>15. ASSUME NEW q \in Steers, LaterAttempt(q) PROVE OneAsked' /\ SteersFollowed' /\ EndsCleanly'
  <2>1. /\ settled /\ UNCHANGED <<child, settled, errorVars, clean, quiet, timers, accepted, exit,
                                  ended, runDone>>
        /\ \A r \in Steers : call'[r] = IF r = q THEN "returned" ELSE call[r]
    BY <1>1, <1>15 DEF LaterAttempt, drainVars, ChildTypeOK
  <2>2. /\ \A r \in Steers \ {q} : record'[r] = record[r]
        /\ record'[q] \in {"delivered", "failed"}
    BY <1>1, <1>15 DEF LaterAttempt, RecordState, ChildTypeOK
  <2>3. SteersFollowed'
    BY <1>1, <2>1, <2>2 DEF SteersFollowed
  <2>4. LeavesNothing' /\ NoneForgotten' /\ EndsAsAsked'
    BY <1>1, <2>1, <2>2 DEF LeavesNothing, NoneForgotten, WaitingSteers, EndsAsAsked, errorVars
  <2> QED
    BY <1>5, <2>1, <2>3, <2>4 DEF EndsCleanly
<1>16. CASE RunSettles
  <2>1. /\ settled /\ UNCHANGED <<child, settled, errorVars, clean, quiet, timers, accepted, call,
                                  exit, ended>>
        /\ \A q \in Steers : record'[q] = IF record[q] \in {"routed", "queued"} THEN "failed"
                                         ELSE record[q]
    BY <1>16 DEF RunSettles, drainVars
  <2>2. SteersFollowed'
    BY <1>1, <2>1 DEF SteersFollowed
  <2>3. LeavesNothing' /\ NoneForgotten' /\ EndsAsAsked'
    BY <1>1, <2>1 DEF LeavesNothing, NoneForgotten, WaitingSteers, EndsAsAsked, errorVars
  <2> QED
    BY <1>5, <2>1, <2>2, <2>3 DEF EndsCleanly
<1>17. CASE UNCHANGED childVars
  BY <1>1, <1>3, <1>17 DEF childVars, errorVars
<1> QED
  BY <1>6, <1>7, <1>8, <1>9, <1>10, <1>11, <1>12, <1>13, <1>14, <1>15, <1>16, <1>17 DEF ChildNext

\* The inductive invariant of a child session.
THEOREM ChildInductive == ChildSpec => []ChildInv
<1>1. ASSUME ChildInit PROVE ChildInv
  <2>1. 0 \in 0..MaxReviews
    BY ChildAssumption
  <2>2. ChildTypeOK
    BY <1>1, <2>1 DEF ChildInit, ChildTypeOK
  <2>3. OneAsked /\ SteersFollowed
    BY <1>1 DEF ChildInit, OneAsked, SteersFollowed
  <2>4. EndsCleanly
    BY <1>1 DEF ChildInit, EndsCleanly, LeavesNothing, NoneForgotten, WaitingSteers, EndsAsAsked
  <2> QED
    BY <2>2, <2>3, <2>4 DEF ChildInv
<1>2. ChildInv /\ [ChildNext]_childVars => ChildInv'
  BY ChildTypeStep, ChildStep DEF ChildInv
<1> QED
  BY <1>1, <1>2, PTL DEF ChildSpec

\* A child session, its timers, requests and steers stay within the states the source knows.
THEOREM ChildTypeCorrect == ChildSpec => []ChildTypeOK
  BY ChildInductive, PTL DEF ChildInv

\* A child session ends cleanly, for any number of steers and of reports of its watchdog:
\* it leaves no session, timer or queued steer behind; what it was not given in time is
\* kept for another attempt and has its outcome when the run ends; and its exit code is
\* that of what it was asked for last, or of its own end (run-child-session.ts:560, 586,
\* subagent-runner.ts:4888).
THEOREM ChildEndsCleanly == ChildSpec => []EndsCleanly
<1>1. ChildInv => EndsCleanly
  BY DEF ChildInv
<1> QED
  BY <1>1, ChildInductive, PTL

\* Until it is settled a child that was asked to end has the limit for its end armed, and
\* one that has said its last word a drain, or the limit of its watchdog's review, unless
\* something is queued for it; a drain that has passed has left such a limit.
Timed ==
  ~settled =>
    /\ flags # {} => "abort" \in timers
    /\ "forced" \in timers => "abort" \in timers
    /\ (clean \/ quiet) /\ ~hold => timers \cap {"drain", "forced", "tail"} # {}

\* What startFinalDrain arms.
LEMMA DrainStarted ==
  ASSUME NEW c, NEW q, NEW active, NEW armed, StartDrain(c, q, active, armed)
  PROVE  /\ armed \subseteq timers' /\ timers' \subseteq armed \cup {"drain", "tail"}
         /\ (c \/ q) /\ ~hold' => timers' \cap {"drain", "forced", "tail"} # {}
<1>1. CASE active
  BY <1>1 DEF StartDrain
<1>2. CASE ~active
  BY <1>2 DEF StartDrain
<1> QED
  BY <1>1, <1>2

\* Every callback of the runner's event loop keeps these timers armed.
LEMMA TimedStep ==
  ASSUME ChildTypeOK, Timed, [ChildNext]_childVars
  PROVE  Timed'
<1>1. CASE UNCHANGED <<settled, flags, timers, clean, quiet>> /\ (hold => hold')
  BY <1>1 DEF Timed
<1>2. ASSUME settled' PROVE Timed'
  BY <1>2 DEF Timed
<1>3. ASSUME NEW prompt, NEW byForce, Settle(prompt, byForce) PROVE Timed'
  BY <1>2, <1>3 DEF Settle
<1>4. CASE CreateSession \/ CreateFails \/ PromptSettles \/ HardPasses
  BY <1>1, <1>3, <1>4 DEF CreateSession, CreateFails, PromptSettles, HardPasses, errorVars, drainVars
<1>5. ASSUME NEW kind \in {"interrupt", "timeout", "stop"}, Ask(kind) PROVE Timed'
  <2>1. /\ "abort" \in timers' /\ timers \subseteq timers'
        /\ UNCHANGED <<settled, clean, quiet, hold>>
    BY <1>5 DEF Ask, messageVars
  <2> QED
    BY <2>1 DEF Timed
<1>6. ASSUME ~clean', ~quiet', UNCHANGED <<settled, flags>>, timers' = timers \ (DrainTimers \cup {"tail"})
      PROVE  Timed'
  BY <1>6 DEF Timed, DrainTimers
<1>7. ASSUME Begins \/ AgentEnds PROVE Timed'
  BY <1>6, <1>7 DEF Begins, AgentEnds, CancelDrain, messageVars, errorVars
<1>8. ASSUME NEW on \in BOOLEAN, CompactionEnds(on) PROVE Timed'
  BY <1>1, <1>6, <1>8 DEF CompactionEnds, CancelDrain, messageVars, errorVars
<1>9. ASSUME NEW c, NEW q, NEW active, NEW armed, StartDrain(c, q, active, armed),
             UNCHANGED <<settled, flags>>, clean' \/ quiet' => c \/ q,
             armed \subseteq timers, "abort" \in timers => "abort" \in armed
      PROVE  Timed'
  <2>1. /\ armed \subseteq timers' /\ timers' \subseteq armed \cup {"drain", "tail"}
        /\ (c \/ q) /\ ~hold' => timers' \cap {"drain", "forced", "tail"} # {}
    BY <1>9, DrainStarted
  <2>2. /\ ~settled => (flags # {} => "abort" \in timers')
        /\ ~settled => ("forced" \in timers' => "abort" \in timers')
    BY <1>9, <2>1 DEF Timed
  <2> QED
    BY <1>9, <2>1, <2>2 DEF Timed
<1>10. ASSUME AgentSettles PROVE Timed'
  <2>1. /\ StartDrain(clean, TRUE, reviewing, timers)
        /\ UNCHANGED <<settled, flags>>
    BY <1>10 DEF AgentSettles, messageVars, errorVars
  <2> QED
    BY <1>9, <2>1
<1>11. ASSUME NEW kind \in {"text", "empty", "error"}, AssistantStops(kind) PROVE Timed'
  <2>1. PICK c : c = clean' /\ StartDrain(c, quiet, reviewing, timers)
    BY <1>11 DEF AssistantStops
  <2>2. UNCHANGED <<settled, flags, quiet>>
    BY <1>11 DEF AssistantStops, messageVars
  <2> QED
    BY <1>9, <2>1, <2>2
<1>12. ASSUME NEW on \in BOOLEAN, AssistantSays(on) PROVE Timed'
  BY <1>1, <1>12 DEF AssistantSays, messageVars, drainVars
<1>13. ASSUME NEW on \in BOOLEAN, WatchdogReports(on) PROVE Timed'
  <2>1. UNCHANGED <<settled, flags, clean, quiet>>
    BY <1>13 DEF WatchdogReports, messageVars, errorVars
  <2>2. CASE on \/ clean \/ quiet
    <3>1. PICK armed : /\ StartDrain(clean, quiet, on, armed)
                       /\ armed = IF on THEN timers \ DrainTimers ELSE timers \ {"tail"}
      BY <1>13, <2>2 DEF WatchdogReports
    <3>2. armed \subseteq timers /\ ("abort" \in timers => "abort" \in armed)
      BY <3>1 DEF DrainTimers
    <3> QED
      BY <1>9, <2>1, <3>1, <3>2
  <2>3. CASE ~(on \/ clean \/ quiet)
    <3>1. timers' = timers \ {"tail"}
      BY <1>13, <2>3 DEF WatchdogReports
    <3> QED
      BY <2>1, <2>3, <3>1 DEF Timed
  <2> QED
    BY <2>2, <2>3
<1>14. CASE HookMoves
  BY <1>1, <1>14 DEF HookMoves, messageVars, errorVars, drainVars
<1>15. CASE DrainPasses
  <2>1. UNCHANGED <<settled, flags, clean, quiet>>
    BY <1>15 DEF DrainPasses, messageVars
  <2>2. CASE hookHeld \/ hold \/ inChild # {}
    BY <1>1, <1>15, <2>1, <2>2 DEF DrainPasses
  <2>3. CASE ~(hookHeld \/ hold \/ inChild # {})
    <3>1. "abort" \in timers' /\ "forced" \in timers'
      BY <1>15, <2>3 DEF DrainPasses
    <3> QED
      BY <3>1 DEF Timed
  <2> QED
    BY <2>2, <2>3
<1>16. CASE TailPasses
  <2>1. PICK armed : armed = timers \ {"tail"} /\ StartDrain(clean, quiet, FALSE, armed)
    BY <1>16 DEF TailPasses
  <2>2. armed \subseteq timers /\ ("abort" \in timers => "abort" \in armed)
    BY <2>1
  <2>3. UNCHANGED <<settled, flags, clean, quiet>>
    BY <1>16 DEF TailPasses, messageVars, errorVars
  <2> QED
    BY <1>9, <2>1, <2>2, <2>3
<1>17. ASSUME NEW q \in Steers, Steer(q) PROVE Timed'
  <2>1. UNCHANGED <<settled, flags, timers, clean, quiet>> /\ hold' \in {hold, hold \/ clean \/ quiet}
    BY <1>17 DEF Steer, errorVars
  <2> QED
    BY <1>1, <2>1
<1>18. ASSUME NEW q \in Steers, SteerReturns(q) \/ Consume(q) PROVE Timed'
  BY <1>1, <1>18 DEF SteerReturns, Consume, errorVars, drainVars
<1>19. CASE RunSettles \/ \E q \in Steers : LaterAttempt(q)
  BY <1>1, <1>19 DEF RunSettles, LaterAttempt, errorVars, drainVars
<1>20. CASE UNCHANGED childVars
  BY <1>1, <1>20 DEF childVars
<1> QED
  BY <1>4, <1>5, <1>7, <1>8, <1>10, <1>11, <1>12, <1>13, <1>14, <1>15, <1>16, <1>17, <1>18,
     <1>19, <1>20 DEF ChildNext

\* A child is never waited for without a limit: whenever it was asked to end, or has said
\* its last word with nothing queued for it, one of the timers that end the waiting is
\* armed, whatever the session reports, and however drains and reviews come and go
\* (run-child-session.ts:245).  This is what ChildEnds needs of the timers.
THEOREM ChildTimed ==
  ChildSpec => [](/\ ~settled /\ flags # {} => "abort" \in timers
                  /\ ~settled /\ (clean \/ quiet) /\ ~hold =>
                       timers \cap {"drain", "tail", "abort"} # {})
<1>1. ChildInit => Timed
  BY DEF ChildInit, Timed
<1>2. ChildInv /\ Timed /\ [ChildNext]_childVars => Timed'
  BY TimedStep DEF ChildInv
<1>3. Timed => (/\ ~settled /\ flags # {} => "abort" \in timers
                /\ ~settled /\ (clean \/ quiet) /\ ~hold =>
                     timers \cap {"drain", "tail", "abort"} # {})
  BY DEF Timed
<1> QED
  BY ChildInductive, <1>1, <1>2, <1>3, PTL DEF ChildSpec

-----------------------------------------------------------------------------
(* Foreground runs *)

\* Every variable of a foreground run stays within its domain.
LEMMA ForegroundTypeStep ==
  ASSUME ForegroundTypeOK, [ForegroundNext]_foregroundVars
  PROVE  ForegroundTypeOK'
<1> USE ForegroundAssumption
    DEF ForegroundTypeOK, attemptVars, callVars, controlVars, askVars
<1>1. ASSUME SessionCreated \/ PromptEnds \/ ForcedEnd \/ DetachByUser \/ Judge
      PROVE  ForegroundTypeOK'
  <2>1. fgAttempt' = fgAttempt \/ fgAttempt' = 2
    BY <1>1 DEF SessionCreated, PromptEnds, ForcedEnd, DetachByUser, Judge
  <2>2. fgAttempt' \in 1..2
    BY <2>1
  <2>3. /\ fgChild' \in {"starting", "open", "settled", "ended", "threw"}
        /\ receipt' \in {"none", "user", "intercom"}
    BY <1>1 DEF SessionCreated, PromptEnds, ForcedEnd, DetachByUser, Judge
  <2>4. UNCHANGED <<pressed, callVars, controlVars, askVars, here>>
    BY <1>1 DEF SessionCreated, PromptEnds, ForcedEnd, DetachByUser, Judge
  <2> QED
    BY <2>2, <2>3, <2>4
<1>2. ASSUME NEW kind \in {"origin", "interrupt", "timeout"}, Press(kind)
      PROVE  ForegroundTypeOK'
  BY <1>2 DEF Press
<1>3. ASSUME Return \/ Remember \/ Leave PROVE ForegroundTypeOK'
  BY <1>3 DEF Return, Remember, Leave, Let
<1>4. ASSUME StartCallback PROVE ForegroundTypeOK'
  BY <1>4 DEF StartCallback
<1>5. ASSUME NEW ok \in BOOLEAN, FinishCallback(ok) PROVE ForegroundTypeOK'
  BY <1>5 DEF FinishCallback, Let
<1>6. ASSUME Shutdown PROVE ForegroundTypeOK'
  BY <1>6 DEF Shutdown
<1>7. ASSUME AskSupervisor PROVE ForegroundTypeOK'
  <2>1. asked \in 0..MaxAsks /\ asked < MaxAsks /\ asked' = asked + 1
    BY <1>7 DEF AskSupervisor
  <2>2. asked + 1 \in Asks
    BY <2>1 DEF Asks
  <2>3. asked' \in 0..MaxAsks
    BY <2>1
  <2>4. asking' = asked + 1 /\ filed' = filed \cup {asked + 1}
        /\ UNCHANGED <<attemptVars, receipt, callVars, controlVars, replied, pendingAsks, seenAsks,
                       here>>
    BY <1>7 DEF AskSupervisor
  <2> QED
    BY <2>2, <2>3, <2>4
<1>8. ASSUME ReadReply \/ AskCancelled \/ AskTimesOut PROVE ForegroundTypeOK'
  BY <1>8, ZenonT(30) DEF ReadReply, AskCancelled, AskTimesOut, GiveUp
<1>9. ASSUME Poll PROVE ForegroundTypeOK'
  BY <1>9 DEF Poll, StillPending
<1>10. ASSUME NEW q \in Asks, Reply(q) PROVE ForegroundTypeOK'
  BY <1>10 DEF Reply, StillPending
<1>11. CASE UNCHANGED foregroundVars
  BY <1>11 DEF foregroundVars
<1> QED
  BY <1>1, <1>2, <1>3, <1>4, <1>5, <1>6, <1>7, <1>8, <1>9, <1>10, <1>11
     DEF ForegroundNext, CallProceeds, CallbackProceeds

\* A child that is over stays so, with the receipt it has; and it is over only when no
\* question waits.
LEMMA OverForGood ==
  ASSUME ForegroundTypeOK, [ForegroundNext]_foregroundVars
  PROVE  /\ Over => Over' /\ receipt' = receipt
         /\ receipt # "none" => receipt' = receipt
         /\ ~Over /\ Over' => asking = 0 /\ UNCHANGED <<asking, callVars, controlVars, receipt>>
<1> USE DEF Over, attemptVars, callVars, controlVars, askVars
<1>1. ASSUME SessionCreated \/ PromptEnds \/ ForcedEnd \/ Judge
      PROVE  /\ Over => Over' /\ receipt' = receipt
             /\ receipt # "none" => receipt' = receipt
             /\ ~Over /\ Over' => asking = 0 /\ UNCHANGED <<asking, callVars, controlVars, receipt>>
  BY <1>1 DEF SessionCreated, PromptEnds, ForcedEnd, Judge, Live
<1>2. ASSUME DetachByUser \/ Poll
      PROVE  UNCHANGED fgChild /\ (Over \/ receipt # "none" => receipt' = receipt)
  BY <1>2 DEF DetachByUser, Poll, Detachable, Live
<1>3. ASSUME NEW kind \in {"origin", "interrupt", "timeout"}, Press(kind)
      PROVE  UNCHANGED <<fgChild, receipt>>
  BY <1>3 DEF Press
<1>4. ASSUME Return \/ Remember \/ Leave \/ StartCallback \/ Shutdown \/ AskSupervisor
               \/ ReadReply \/ AskCancelled \/ AskTimesOut
      PROVE  UNCHANGED <<fgChild, receipt>>
  BY <1>4 DEF Return, Remember, Leave, StartCallback, Shutdown, AskSupervisor, ReadReply,
     AskCancelled, AskTimesOut, GiveUp
<1>5. ASSUME NEW ok \in BOOLEAN, FinishCallback(ok) PROVE UNCHANGED <<fgChild, receipt>>
  BY <1>5 DEF FinishCallback
<1>6. ASSUME NEW q \in Asks, Reply(q) PROVE UNCHANGED <<fgChild, receipt>>
  BY <1>6 DEF Reply
<1>7. CASE UNCHANGED foregroundVars
  BY <1>7 DEF foregroundVars
<1> QED
  BY <1>1, <1>2, <1>3, <1>4, <1>5, <1>6, <1>7 DEF ForegroundNext, CallProceeds, CallbackProceeds

\* The end of the child comes first, then that of call and callback.
LEMMA EndsInOrderStep ==
  ASSUME ForegroundInv, [ForegroundNext]_foregroundVars
  PROVE  EndsInOrder'
<1> USE DEF attemptVars, callVars, controlVars, askVars
<1>1. /\ Over => Over' /\ receipt' = receipt
      /\ receipt # "none" => receipt' = receipt
      /\ ~Over /\ Over' => asking = 0 /\ UNCHANGED <<asking, callVars, controlVars, receipt>>
  BY OverForGood DEF ForegroundInv
<1>2. /\ ~Over => "child" \in held
      /\ Over => asking = 0
      /\ callback # "idle" => Over /\ receipt # "none"
      /\ fgCall # "running" /\ receipt = "none" => Over
      /\ remembered = "ended" => Over
      /\ callback # "over" => announced = 0
  BY DEF ForegroundInv, EndsInOrder
\* A step that leaves call, callback and control alone.
<1>3. ASSUME UNCHANGED <<callVars, controlVars>>, Over /\ asking = 0 => asking' = 0
      PROVE  EndsInOrder'
  BY <1>1, <1>2, <1>3 DEF EndsInOrder
<1>4. ASSUME \/ SessionCreated \/ PromptEnds \/ ForcedEnd \/ DetachByUser \/ Judge \/ Shutdown
             \/ AskSupervisor \/ ReadReply \/ AskCancelled \/ AskTimesOut \/ Poll
             \/ (\E kind \in {"origin", "interrupt", "timeout"} : Press(kind))
             \/ (\E q \in Asks : Reply(q)) \/ UNCHANGED foregroundVars
      PROVE  EndsInOrder'
  <2>1. UNCHANGED <<callVars, controlVars>>
    BY <1>4 DEF SessionCreated, PromptEnds, ForcedEnd, DetachByUser, Judge, Shutdown,
       AskSupervisor, ReadReply, AskCancelled, AskTimesOut, GiveUp, Poll, Press, Reply,
       foregroundVars
  <2>2. Over /\ asking = 0 => asking' = 0
    BY <1>4 DEF SessionCreated, PromptEnds, ForcedEnd, DetachByUser, Judge, Shutdown,
       AskSupervisor, ReadReply, AskCancelled, AskTimesOut, GiveUp, Poll, Press, Reply,
       foregroundVars, Over
  <2> QED
    BY <1>3, <2>1, <2>2
<1>5. ASSUME Return \/ Remember \/ Leave PROVE EndsInOrder'
  <2>1. UNCHANGED <<fgChild, receipt, asking, callback, announced>>
    BY <1>5 DEF Return, Remember, Leave
  <2>2. ~Over => "child" \in held'
    BY <1>2, <1>5 DEF Return, Remember, Leave, Let
  <2>3. fgCall' # "running" /\ receipt = "none" => Over
    BY <1>2, <1>5 DEF Return, Remember, Leave
  <2>4. remembered' = "ended" => Over
    BY <1>2, <1>5 DEF Return, Remember, Leave
  <2> QED
    BY <1>2, <2>1, <2>2, <2>3, <2>4 DEF EndsInOrder, Over
<1>6. ASSUME StartCallback PROVE EndsInOrder'
  BY <1>2, <1>6 DEF StartCallback, EndsInOrder, Over
<1>7. ASSUME NEW ok \in BOOLEAN, FinishCallback(ok) PROVE EndsInOrder'
  BY <1>2, <1>7 DEF FinishCallback, Let, EndsInOrder, Over
<1> QED
  BY <1>4, <1>5, <1>6, <1>7 DEF ForegroundNext, CallProceeds, CallbackProceeds

\* A run is followed to its end.
LEMMA FollowedStep ==
  ASSUME ForegroundInv, [ForegroundNext]_foregroundVars
  PROVE  FollowedToItsEnd'
<1> USE DEF attemptVars, callVars, controlVars, askVars
<1>1. ForegroundTypeOK' /\ EndsInOrder'
  BY ForegroundTypeStep, EndsInOrderStep DEF ForegroundInv
<1>2. /\ Over => Over' /\ receipt' = receipt
      /\ receipt # "none" => receipt' = receipt
  BY OverForGood DEF ForegroundInv
<1>3. /\ ~Over => "child" \in held /\ shown
      /\ Over => asking = 0
      /\ callback # "idle" => Over /\ receipt # "none"
      /\ fgCall # "running" /\ receipt = "none" => Over
      /\ remembered = "ended" => Over
      /\ callback # "over" => announced = 0
      /\ callback = "over" /\ ~handoffLost => remembered = "ended"
      /\ announced <= 1 /\ (announced = 1 => receipt # "none" /\ callback = "over")
      /\ asking # 0 => asking \in filed \cup replied
  BY DEF ForegroundInv, EndsInOrder, FollowedToItsEnd
<1>4. receipt' # "none" /\ remembered' = "ended" => Over'
  BY <1>1 DEF EndsInOrder
\* It is in the list.
<1>5. ~Over' => shown'
  <2>1. ~Over' => ~Over /\ "child" \in held /\ shown /\ "child" \in held'
    BY <1>1, <1>2, <1>3 DEF EndsInOrder
  <2>2. shown' = shown \/ shown' = (shown /\ held' # {})
    <3>1. ASSUME CallProceeds \/ CallbackProceeds
          PROVE  shown' = shown \/ shown' = (shown /\ held' # {})
      BY <3>1 DEF CallProceeds, CallbackProceeds, Return, Remember, Leave, StartCallback,
         FinishCallback, Let
    <3>2. ASSUME ~(CallProceeds \/ CallbackProceeds) PROVE shown' = shown
      BY <3>2 DEF ForegroundNext, SessionCreated, PromptEnds, ForcedEnd, DetachByUser, Judge,
         Shutdown, AskSupervisor, ReadReply, AskCancelled, AskTimesOut, GiveUp, Poll, Press,
         Reply, foregroundVars
    <3> QED
      BY <3>1, <3>2
  <2> QED
    BY <2>1, <2>2
\* Its end is recorded and announced.
<1>6. /\ callback' = "over" /\ ~handoffLost' => remembered' = "ended"
      /\ announced' <= 1 /\ (announced' = 1 => receipt' # "none" /\ callback' = "over")
  <2>1. ASSUME NEW ok \in BOOLEAN, FinishCallback(ok)
        PROVE  /\ callback' = "over" /\ ~handoffLost' => remembered' = "ended"
               /\ announced' <= 1 /\ (announced' = 1 => receipt' # "none" /\ callback' = "over")
    <3>1. /\ callback = "handing" /\ callback' = "over" /\ announced = 0
          /\ remembered' = IF ok THEN "ended" ELSE remembered
          /\ announced' = IF ok /\ here THEN announced + 1 ELSE announced
          /\ handoffLost' = ~ok /\ receipt # "none" /\ receipt' = receipt
      BY <1>3, <2>1 DEF FinishCallback
    <3>2. announced' = 0 \/ announced' = 1
      BY <3>1
    <3>3. ~handoffLost' => remembered' = "ended"
      BY <3>1
    <3> QED
      BY <3>1, <3>2, <3>3
  <2>2. ASSUME Return \/ Remember \/ Leave \/ StartCallback
        PROVE  /\ UNCHANGED <<handoffLost, announced, receipt>>
               /\ remembered = "ended" => remembered' = "ended"
               /\ callback' = callback \/ (callback = "idle" /\ callback' = "handing")
    BY <2>2 DEF Return, Remember, Leave, StartCallback
  <2>3. ASSUME ~(CallProceeds \/ CallbackProceeds) PROVE UNCHANGED callVars
    BY <2>3 DEF ForegroundNext, SessionCreated, PromptEnds, ForcedEnd, DetachByUser, Judge,
       Shutdown, AskSupervisor, ReadReply, AskCancelled, AskTimesOut, GiveUp, Poll, Press,
       Reply, foregroundVars
  <2> QED
    BY <1>2, <1>3, <2>1, <2>2, <2>3 DEF CallProceeds, CallbackProceeds
\* No question loses its file before it has its reply.
<1>7. asking' # 0 => asking' \in filed' \cup replied'
  <2>1. CASE AskSupervisor
    BY <2>1 DEF AskSupervisor
  <2>2. CASE ReadReply \/ AskCancelled \/ AskTimesOut
    BY <2>2 DEF ReadReply, AskCancelled, AskTimesOut, GiveUp
  <2>3. CASE Poll
    <3>1. asking' = asking /\ replied' = replied
      BY <2>3 DEF Poll
    <3>2. CASE RunInactive
      BY <1>3, <3>1, <3>2 DEF RunInactive
    <3>3. CASE ~RunInactive
      BY <1>3, <2>3, <3>1, <3>3 DEF Poll, StillPending
    <3> QED
      BY <3>2, <3>3
  <2>4. ASSUME NEW q \in Asks, Reply(q) PROVE asking' # 0 => asking' \in filed' \cup replied'
    BY <1>3, <2>4 DEF Reply
  <2>5. ASSUME ~ \/ AskSupervisor \/ ReadReply \/ AskCancelled \/ AskTimesOut \/ Poll
                 \/ \E q \in Asks : Reply(q)
        PROVE  UNCHANGED <<asking, filed, replied>>
    BY <2>5 DEF ForegroundNext, SessionCreated, PromptEnds, ForcedEnd, DetachByUser, Judge,
       Shutdown, Press, foregroundVars, CallProceeds, CallbackProceeds, Return, Remember, Leave,
       StartCallback, FinishCallback
  <2> QED
    BY <1>3, <2>1, <2>2, <2>3, <2>4, <2>5
<1> QED
  BY <1>4, <1>5, <1>6, <1>7 DEF FollowedToItsEnd

\* The inductive invariant of a foreground run.
THEOREM ForegroundInductive == ForegroundSpec => []ForegroundInv
<1>1. ASSUME ForegroundInit PROVE ForegroundInv
  <2>1. 0 \in 0..MaxAsks /\ 1 \in 1..2 /\ 0 \in Nat
    BY ForegroundAssumption
  <2>2. ForegroundTypeOK
    BY <1>1, <2>1 DEF ForegroundInit, ForegroundTypeOK
  <2>3. EndsInOrder
    BY <1>1 DEF ForegroundInit, EndsInOrder, Over
  <2>4. FollowedToItsEnd
    BY <1>1 DEF ForegroundInit, FollowedToItsEnd, Over
  <2> QED
    BY <2>2, <2>3, <2>4 DEF ForegroundInv
<1>2. ForegroundInv /\ [ForegroundNext]_foregroundVars => ForegroundInv'
  BY ForegroundTypeStep, EndsInOrderStep, FollowedStep DEF ForegroundInv
<1> QED
  BY <1>1, <1>2, PTL DEF ForegroundSpec

\* A foreground run, its control and its questions stay within the states the source knows.
THEOREM ForegroundTypeCorrect == ForegroundSpec => []ForegroundTypeOK
  BY ForegroundInductive, PTL DEF ForegroundInv

\* A detached run is followed to its end, for any number of questions: listed while its
\* child lives, ended and announced once after it, and no question loses its file before
\* it has its reply (subagent-executor.ts:825, 4243).
THEOREM ForegroundFollowed == ForegroundSpec => []FollowedToItsEnd
<1>1. ForegroundInv => FollowedToItsEnd
  BY DEF ForegroundInv
<1> QED
  BY <1>1, ForegroundInductive, PTL

\* Questions are numbered as they are put, and a child that waits with one is not over.
AsksNumbered ==
  /\ \A q \in filed \cup seenAsks : q <= asked
  /\ asking <= asked
  /\ asking # 0 => fgChild \in {"open", "settled"}

\* A question that the parent has seen, and the child still waits with, is known to the
\* parent, and its run has detached unless it was aborted or its child has settled.
QuestionKnown ==
  here /\ asking # 0 /\ asking \notin replied /\ asking \in seenAsks =>
    asking \in pendingAsks /\ (receipt # "none" \/ "origin" \in pressed \/ ~Live)

\* A new question has a new number, so it has not been seen.
LEMMA NumberedStep ==
  ASSUME ForegroundInv, AsksNumbered, [ForegroundNext]_foregroundVars
  PROVE  AsksNumbered'
<1>1. asked \in Nat /\ asking \in Nat /\ filed \subseteq Nat /\ seenAsks \subseteq Nat
  BY ForegroundAssumption DEF ForegroundInv, ForegroundTypeOK, Asks
<1>2. ASSUME UNCHANGED <<asked, fgChild>>, filed' \subseteq filed, seenAsks' \subseteq filed \cup seenAsks,
             asking' \in {asking, 0}
      PROVE  AsksNumbered'
  BY <1>1, <1>2 DEF AsksNumbered
<1>3. ASSUME UNCHANGED askVars, asking = 0 \/ fgChild' \in {"open", "settled"} PROVE AsksNumbered'
  BY <1>3 DEF AsksNumbered, askVars
<1>4. CASE AskSupervisor
  <2>1. /\ asked' = asked + 1 /\ asking' = asked + 1 /\ filed' = filed \cup {asked + 1}
        /\ seenAsks' = seenAsks /\ fgChild' = "open"
    BY <1>4 DEF AskSupervisor, attemptVars
  <2> QED
    BY <1>1, <2>1 DEF AsksNumbered
<1>5. CASE ReadReply \/ AskCancelled \/ AskTimesOut
  BY <1>2, <1>5 DEF ReadReply, AskCancelled, AskTimesOut, GiveUp, attemptVars
<1>6. CASE Poll
  BY <1>2, <1>6 DEF Poll, attemptVars
<1>7. ASSUME NEW q \in Asks, Reply(q) PROVE AsksNumbered'
  BY <1>2, <1>7 DEF Reply, attemptVars
<1>8. CASE Shutdown
  BY <1>2, <1>8 DEF Shutdown
<1>9. CASE SessionCreated \/ PromptEnds \/ ForcedEnd \/ Judge
  BY <1>3, <1>9 DEF SessionCreated, PromptEnds, ForcedEnd, Judge
<1>10. ASSUME UNCHANGED <<askVars, fgChild>> PROVE AsksNumbered'
  BY <1>10 DEF AsksNumbered, askVars
<1>11. ASSUME NEW kind, Press(kind) PROVE AsksNumbered'
  BY <1>10, <1>11 DEF Press
<1>12. CASE DetachByUser \/ CallProceeds \/ CallbackProceeds
  BY <1>10, <1>12 DEF DetachByUser, CallProceeds, Return, Remember, Leave, CallbackProceeds,
     StartCallback, FinishCallback, attemptVars
<1>13. CASE UNCHANGED foregroundVars
  BY <1>10, <1>13 DEF foregroundVars, attemptVars
<1> QED
  BY <1>4, <1>5, <1>6, <1>7, <1>8, <1>9, <1>11, <1>12, <1>13 DEF ForegroundNext

\* The parent does not lose sight of a question, nor put off the detachment it asks for.
LEMMA KnownStep ==
  ASSUME ForegroundInv, AsksNumbered, QuestionKnown, [ForegroundNext]_foregroundVars
  PROVE  QuestionKnown'
<1> DEFINE Freed == receipt # "none" \/ "origin" \in pressed \/ ~Live
<1>1. /\ asked \in Nat /\ seenAsks \subseteq Nat
      /\ asking # 0 => asking \in filed \cup replied /\ fgChild \in {"open", "settled"} /\ shown
  BY ForegroundAssumption DEF ForegroundInv, ForegroundTypeOK, FollowedToItsEnd, AsksNumbered, Over, Asks
<1>2. ASSUME UNCHANGED <<asking, replied, seenAsks, pendingAsks, here>>, asking # 0 /\ Freed => Freed'
      PROVE  QuestionKnown'
  BY <1>2 DEF QuestionKnown
<1>3. ASSUME UNCHANGED <<asking, replied, seenAsks, pendingAsks, here, receipt>>, fgChild' = fgChild,
             pressed \subseteq pressed'
      PROVE  QuestionKnown'
  BY <1>2, <1>3 DEF Live
<1>4. CASE SessionCreated \/ PromptEnds \/ ForcedEnd \/ Judge
  <2>1. /\ UNCHANGED <<askVars, here>> /\ (receipt' = receipt /\ pressed' = pressed)
        /\ asking # 0 => fgChild' \in {fgChild, "settled"}
    BY <1>1, <1>4 DEF SessionCreated, PromptEnds, ForcedEnd, Judge
  <2> QED
    BY <1>2, <2>1 DEF askVars, Live
<1>5. ASSUME NEW kind, Press(kind) PROVE QuestionKnown'
  BY <1>3, <1>5 DEF Press, askVars
<1>6. CASE DetachByUser
  BY <1>2, <1>6 DEF DetachByUser, askVars
<1>7. CASE CallProceeds \/ CallbackProceeds
  BY <1>3, <1>7 DEF CallProceeds, Return, Remember, Leave, CallbackProceeds, StartCallback,
     FinishCallback, attemptVars, askVars
<1>8. CASE Shutdown
  BY <1>8 DEF Shutdown, QuestionKnown
<1>9. CASE AskSupervisor
  <2>1. asking' = asked + 1 /\ seenAsks' = seenAsks /\ asked + 1 \notin seenAsks
    BY <1>1, <1>9 DEF AskSupervisor, AsksNumbered
  <2> QED
    BY <2>1 DEF QuestionKnown
<1>10. CASE ReadReply \/ AskCancelled \/ AskTimesOut
  BY <1>10 DEF ReadReply, AskCancelled, AskTimesOut, GiveUp, QuestionKnown
<1>11. CASE Poll
  <2> SUFFICES ASSUME here', asking' # 0, asking' \notin replied', asking' \in seenAsks'
               PROVE  asking' \in pendingAsks' /\ Freed'
    BY DEF QuestionKnown
  <2>1. UNCHANGED <<asking, replied, fgChild, pressed, here>> /\ here /\ asking # 0
    BY <1>11 DEF Poll, attemptVars
  <2>2. asking \in filed /\ ~RunInactive
    BY <1>1, <2>1 DEF RunInactive
  <2>3. CASE asking \in seenAsks
    <3>1. asking \in pendingAsks /\ Freed
      BY <2>1, <2>3 DEF QuestionKnown
    <3>2. asking \in pendingAsks'
      BY <1>11, <2>1, <2>2, <3>1 DEF Poll, StillPending
    <3>3. receipt' = receipt \/ receipt' = "intercom"
      BY <1>11 DEF Poll
    <3> QED
      BY <2>1, <3>1, <3>2, <3>3 DEF Live
  <2>4. CASE asking \notin seenAsks
    <3>1. asking \in StillPending(filed \ seenAsks)
      BY <2>1, <2>2, <2>4 DEF StillPending
    <3>2. asking \in pendingAsks'
      BY <1>11, <2>1, <2>2, <2>4 DEF Poll, StillPending
    <3>3. Detachable => receipt' = "intercom"
      BY <1>11, <3>1 DEF Poll
    <3>4. ~Detachable => Freed'
      BY <1>11, <2>1 DEF Poll, Detachable, Live
    <3> QED
      BY <2>1, <3>2, <3>3, <3>4
  <2> QED
    BY <2>3, <2>4
<1>12. ASSUME NEW q \in Asks, Reply(q) PROVE QuestionKnown'
  <2> SUFFICES ASSUME asking # 0, asking \notin replied', asking \in seenAsks
               PROVE  asking \in pendingAsks' /\ Freed'
    BY <1>12 DEF QuestionKnown, Reply
  <2>1. UNCHANGED <<asking, receipt, fgChild, pressed>> /\ here /\ asking \notin replied /\ asking # q
    BY <1>12 DEF Reply, attemptVars
  <2>2. asking \in filed /\ ~RunInactive /\ asking \in pendingAsks /\ Freed
    BY <1>1, <2>1 DEF RunInactive, QuestionKnown
  <2> QED
    BY <1>12, <2>1, <2>2 DEF Reply, StillPending, Live
<1>13. CASE UNCHANGED foregroundVars
  BY <1>3, <1>13 DEF foregroundVars, attemptVars, askVars
<1> QED
  BY <1>4, <1>5, <1>6, <1>7, <1>8, <1>9, <1>10, <1>11, <1>12, <1>13 DEF ForegroundNext

\* Parent and child do not wait for each other: once a poll has seen a question that the
\* child waits with, the parent knows of it until it has answered, and the run has detached,
\* so that the turn which is to answer is free of the call; unless that call was aborted or
\* the child has settled (execution.ts:738).  This is the safety in ForegroundSettles.
THEOREM ForegroundKnows == ForegroundSpec => []QuestionKnown
<1>1. ForegroundInit => AsksNumbered /\ QuestionKnown
  BY ForegroundAssumption DEF ForegroundInit, AsksNumbered, QuestionKnown
<1>2. ForegroundInv /\ AsksNumbered /\ QuestionKnown /\ [ForegroundNext]_foregroundVars
        => AsksNumbered' /\ QuestionKnown'
  BY NumberedStep, KnownStep
<1> QED
  BY ForegroundInductive, <1>1, <1>2, PTL DEF ForegroundSpec
=============================================================================
