------------------------ MODULE RunnerStartupProofs ------------------------
(***************************************************************************)
(* Proofs about RunnerStartup, for any number of launches and revivals: a  *)
(* failed launch never executes, nothing executes unrecorded, and of the   *)
(* revivals of a session at most one is past its commit.                   *)
(***************************************************************************)
EXTENDS RunnerStartup, TLAPS

\* Whoever may run or has run a child was authorized by the last step of its launch.
Authorized ==
  \A l \in Launches :
    "proceed" \in controls[l] \/ Committed(l) \/ status[l] \in {"running", "ended"} =>
      parent[l] = "launched"

\* "Not started" is written by a parent that has failed or a runner that is leaving.
NotStarted ==
  \A l \in Launches : status[l] = "not-started" =>
    Failing(l) \/ runner[l] \in {"releasing", "exited", "killed"}

\* What the parent has recorded at each stage of the launch.
RecordedFirst ==
  \A l \in Launches :
    /\ parent[l] = "idle" => runner[l] = "none"
    /\ parent[l] \notin {"idle", "status", "failing", "killing", "failed"} => status[l] # "none"
    /\ parent[l] \notin {"idle", "status", "sidecar", "failing", "killing", "failed"} =>
         cand[l].writers # "missing" /\ proof[l] # "none"
    /\ parent[l] \notin {"idle", "status", "sidecar", "bind", "failing", "killing", "failed"} =>
         bound[l]

\* A revival holds the lease from its acquisition until it leaves or is dead.
Holding == {"ready", "acknowledged", "confirmed", "committed", "loading", "executing"}
HoldsLease == \A l \in revivals : runner[l] \in Holding => lease = l

\* The domains of the two records that a startup failure rewrites, as in TypeOK.
Statuses == {"none", "pending", "not-started", "failed", "running", "ended"}
Candidates == [writers: {"missing", "none", "zero"}, token: BOOLEAN, acked: BOOLEAN]

IInv == TypeOK /\ Authorized /\ NotStarted /\ RecordedFirst /\ HoldsLease
-----------------------------------------------------------------------------
\* The initial state: nothing is launched, recorded or leased.
LEMMA Initially == Init => IInv
  BY StartupAssumption DEF Init, IInv, TypeOK, ParentStages, RunnerStages, NoCandidate,
     Authorized,
     NotStarted, RecordedFirst, HoldsLease, Holding, Committed, Failing

\* A persisted startup failure leaves both files well formed.
LEMMA PersistTypes ==
  ASSUME TypeOK, NEW l \in Launches, NEW token \in BOOLEAN, PersistFailure(l, token)
  PROVE  status' \in [Launches -> Statuses] /\ cand' \in [Launches -> Candidates]
<1> USE DEF TypeOK, Statuses
<1> DEFINE c == [cand[l] EXCEPT !.writers = "zero", !.token = @ \/ token]
           v == IF proof[l] \in {"observed", "unknown"} THEN "failed" ELSE "not-started"
<1>1. c \in Candidates
  <2>1. cand[l] \in Candidates
    BY DEF Candidates
  <2>2. (cand[l].token \/ token) \in BOOLEAN
    OBVIOUS
  <2> QED
    BY <2>1, <2>2 DEF Candidates
<1>2. v \in Statuses
  OBVIOUS
<1>3. cand' = cand \/ cand' = [cand EXCEPT ![l] = c]
  BY DEF PersistFailure
<1>4. status' = status \/ status' = [status EXCEPT ![l] = v]
  BY DEF PersistFailure
<1> HIDE DEF c, v
<1>5. cand' \in [Launches -> Candidates]
  BY <1>1, <1>3 DEF Candidates
<1>6. status' \in [Launches -> Statuses]
  BY <1>2, <1>4
<1> QED
  BY <1>5, <1>6

\* The steps of spawnRunner, the handshake and the close handler.
LEMMA ParentSteps ==
  ASSUME IInv, UNCHANGED revivals, NEW l \in Launches,
         \/ Spawn(l)
         \/ RecordStatus(l)
         \/ InitializeProof(l)
         \/ BindCapacity(l)
         \/ \E state \in Waits : AwaitRunner(l, state)
         \/ WriteControl(l, "ack", "acknowledged")
         \/ WriteControl(l, "confirm", "confirmed")
         \/ CheckExit(l)
         \/ Proceed(l)
         \/ ReportFailure(l)
         \/ Terminate(l)
         \/ Finalize(l)
         \/ ParentDies(l)
  PROVE  IInv'
<1> USE StartupAssumption DEF IInv, At, ParentGoes, RunnerGoes, Waits, ParentStages,
        RunnerStages
<1>1. CASE Spawn(l)
  <2>1. TypeOK'
    BY <1>1 DEF Spawn, TypeOK
  <2>2. Authorized'
    BY <1>1 DEF Spawn, TypeOK, Authorized, Committed
  <2>3. NotStarted'
    BY <1>1 DEF Spawn, TypeOK, Authorized, NotStarted, RecordedFirst, Failing, Committed
  <2>4. RecordedFirst'
    BY <1>1 DEF Spawn, TypeOK, RecordedFirst
  <2>5. HoldsLease'
    BY <1>1 DEF Spawn, TypeOK, HoldsLease, Holding
  <2> QED
    BY <2>1, <2>2, <2>3, <2>4, <2>5
<1>2. CASE RecordStatus(l)
  <2>1. TypeOK'
    BY <1>2 DEF RecordStatus, TypeOK
  <2>2. Authorized'
    BY <1>2 DEF RecordStatus, TypeOK, Authorized, Committed
  <2>3. NotStarted'
    BY <1>2 DEF RecordStatus, TypeOK, Authorized, NotStarted, RecordedFirst, Failing, Committed
  <2>4. RecordedFirst'
    BY <1>2 DEF RecordStatus, TypeOK, RecordedFirst
  <2>5. HoldsLease'
    BY <1>2 DEF RecordStatus, TypeOK, HoldsLease, Holding
  <2> QED
    BY <2>1, <2>2, <2>3, <2>4, <2>5
<1>3. CASE InitializeProof(l)
  <2>1. TypeOK'
    <3> DEFINE fresh == [writers |-> "none", token |-> FALSE, acked |-> FALSE]
    <3>1. fresh \in Candidates
      BY DEF Candidates
    <3>2. cand' \in [Launches -> Candidates]
      <4>1. cand' \in {cand, [cand EXCEPT ![l] = fresh]}
        BY <1>3 DEF InitializeProof
      <4>2. cand \in [Launches -> Candidates]
        BY DEF TypeOK, Candidates
      <4> HIDE DEF fresh
      <4> QED
        BY <3>1, <4>1, <4>2
    <3> QED
      BY <1>3, <3>2 DEF InitializeProof, TypeOK, Candidates
  <2>2. Authorized'
    BY <1>3 DEF InitializeProof, NoCandidate, TypeOK, Authorized, Committed
  <2>3. NotStarted'
    BY <1>3 DEF InitializeProof, NoCandidate, TypeOK, Authorized, NotStarted, RecordedFirst,
       Failing, Committed
  <2>4. RecordedFirst'
    BY <1>3, SMTT(30) DEF InitializeProof, NoCandidate, TypeOK, RecordedFirst
  <2>5. HoldsLease'
    BY <1>3 DEF InitializeProof, NoCandidate, TypeOK, HoldsLease, Holding
  <2> QED
    BY <2>1, <2>2, <2>3, <2>4, <2>5
<1>4. CASE BindCapacity(l)
  <2>1. TypeOK'
    BY <1>4 DEF BindCapacity, TypeOK
  <2>2. Authorized'
    BY <1>4 DEF BindCapacity, TypeOK, Authorized, Committed
  <2>3. NotStarted'
    BY <1>4 DEF BindCapacity, TypeOK, Authorized, NotStarted, RecordedFirst, Failing, Committed
  <2>4. RecordedFirst'
    BY <1>4 DEF BindCapacity, TypeOK, RecordedFirst
  <2>5. HoldsLease'
    BY <1>4 DEF BindCapacity, TypeOK, HoldsLease, Holding
  <2> QED
    BY <2>1, <2>2, <2>3, <2>4, <2>5
<1>5. CASE \E state \in Waits : AwaitRunner(l, state)
  <2>1. TypeOK'
    BY <1>5 DEF AwaitRunner, After, TypeOK
  <2>2. Authorized'
    BY <1>5 DEF AwaitRunner, After, TypeOK, Authorized, Committed
  <2>3. NotStarted'
    BY <1>5, SMTT(30) DEF AwaitRunner, After, TypeOK, Authorized, NotStarted, RecordedFirst, Failing,
       Committed
  <2>4. RecordedFirst'
    BY <1>5 DEF AwaitRunner, After, TypeOK, RecordedFirst
  <2>5. HoldsLease'
    BY <1>5 DEF AwaitRunner, After, TypeOK, HoldsLease, Holding
  <2> QED
    BY <2>1, <2>2, <2>3, <2>4, <2>5
<1>6. CASE WriteControl(l, "ack", "acknowledged")
  <2>1. TypeOK'
    <3>1. controls' \in [Launches -> SUBSET {"ack", "confirm", "proceed"}]
      BY <1>6 DEF WriteControl, TypeOK
    <3>2. parent' \in [Launches -> ParentStages]
      BY <1>6 DEF WriteControl, TypeOK
    <3> QED
      BY <1>6, <3>1, <3>2 DEF WriteControl, TypeOK
  <2>2. Authorized'
    BY <1>6 DEF WriteControl, TypeOK, Authorized, Committed
  <2>3. NotStarted'
    BY <1>6 DEF WriteControl, TypeOK, Authorized, NotStarted, RecordedFirst, Failing, Committed
  <2>4. RecordedFirst'
    BY <1>6 DEF WriteControl, TypeOK, RecordedFirst
  <2>5. HoldsLease'
    BY <1>6 DEF WriteControl, TypeOK, HoldsLease, Holding
  <2> QED
    BY <2>1, <2>2, <2>3, <2>4, <2>5
<1>7. CASE WriteControl(l, "confirm", "confirmed")
  <2>1. TypeOK'
    <3>1. controls' \in [Launches -> SUBSET {"ack", "confirm", "proceed"}]
      BY <1>7 DEF WriteControl, TypeOK
    <3>2. parent' \in [Launches -> ParentStages]
      BY <1>7 DEF WriteControl, TypeOK
    <3> QED
      BY <1>7, <3>1, <3>2 DEF WriteControl, TypeOK
  <2>2. Authorized'
    BY <1>7 DEF WriteControl, TypeOK, Authorized, Committed
  <2>3. NotStarted'
    BY <1>7 DEF WriteControl, TypeOK, Authorized, NotStarted, RecordedFirst, Failing, Committed
  <2>4. RecordedFirst'
    BY <1>7 DEF WriteControl, TypeOK, RecordedFirst
  <2>5. HoldsLease'
    BY <1>7 DEF WriteControl, TypeOK, HoldsLease, Holding
  <2> QED
    BY <2>1, <2>2, <2>3, <2>4, <2>5
<1>8. CASE CheckExit(l)
  <2>1. TypeOK'
    BY <1>8 DEF CheckExit, Gone, TypeOK
  <2>2. Authorized'
    BY <1>8 DEF CheckExit, Gone, TypeOK, Authorized, Committed
  <2>3. NotStarted'
    BY <1>8 DEF CheckExit, Gone, TypeOK, Authorized, NotStarted, RecordedFirst, Failing,
       Committed
  <2>4. RecordedFirst'
    BY <1>8 DEF CheckExit, Gone, TypeOK, RecordedFirst
  <2>5. HoldsLease'
    BY <1>8 DEF CheckExit, Gone, TypeOK, HoldsLease, Holding
  <2> QED
    BY <2>1, <2>2, <2>3, <2>4, <2>5
<1>9. CASE Proceed(l)
  <2>1. TypeOK'
    <3>1. controls' \in [Launches -> SUBSET {"ack", "confirm", "proceed"}]
      BY <1>9 DEF Proceed, TypeOK
    <3>2. startup' \in [Launches -> {"none", "ready", "acknowledged", "confirmed", "error"}]
      <4>1. CASE l \in revivals
        BY <1>9, <4>1 DEF Proceed, TypeOK
      <4>2. CASE l \notin revivals
        BY <1>9, <4>2 DEF Proceed, TypeOK
      <4> QED
        BY <4>1, <4>2
    <3> QED
      BY <1>9, <3>1, <3>2, SMTT(30) DEF Proceed, TypeOK
  <2>2. Authorized'
    BY <1>9, SMTT(30) DEF Proceed, TypeOK, Authorized, Committed
  <2>3. NotStarted'
    BY <1>9 DEF Proceed, TypeOK, Authorized, NotStarted, RecordedFirst, Failing, Committed
  <2>4. RecordedFirst'
    BY <1>9 DEF Proceed, TypeOK, RecordedFirst
  <2>5. HoldsLease'
    BY <1>9 DEF Proceed, TypeOK, HoldsLease, Holding
  <2> QED
    BY <2>1, <2>2, <2>3, <2>4, <2>5
<1>10. CASE ReportFailure(l)
  <2>1. TypeOK'
    <3>1. status' \in [Launches -> Statuses] /\ cand' \in [Launches -> Candidates]
      BY <1>10, PersistTypes DEF ReportFailure
    <3> QED
      BY <1>10, <3>1 DEF ReportFailure, TypeOK, Statuses, Candidates
  <2>2. Authorized'
    BY <1>10 DEF ReportFailure, PersistFailure, TypeOK, Authorized, Committed
  <2>3. NotStarted'
    BY <1>10 DEF ReportFailure, PersistFailure, TypeOK, Authorized, NotStarted, RecordedFirst,
       Failing, Committed
  <2>4. RecordedFirst'
    BY <1>10 DEF ReportFailure, PersistFailure, TypeOK, RecordedFirst
  <2>5. HoldsLease'
    BY <1>10 DEF ReportFailure, PersistFailure, TypeOK, HoldsLease, Holding
  <2> QED
    BY <2>1, <2>2, <2>3, <2>4, <2>5
<1>11. CASE Terminate(l)
  <2>1. TypeOK'
    BY <1>11 DEF Terminate, Gone, TypeOK
  <2>2. Authorized'
    BY <1>11 DEF Terminate, Gone, TypeOK, Authorized, Committed
  <2>3. NotStarted'
    BY <1>11 DEF Terminate, Gone, TypeOK, Authorized, NotStarted, RecordedFirst, Failing,
       Committed
  <2>4. RecordedFirst'
    BY <1>11 DEF Terminate, Gone, TypeOK, RecordedFirst
  <2>5. HoldsLease'
    BY <1>11 DEF Terminate, Gone, TypeOK, HoldsLease, Holding, Free
  <2> QED
    BY <2>1, <2>2, <2>3, <2>4, <2>5
<1>12. CASE Finalize(l)
  <2>1. TypeOK'
    BY <1>12 DEF Finalize, Gone, Conclusion, TypeOK
  <2>2. Authorized'
    BY <1>12 DEF Finalize, Gone, Conclusion, TypeOK, Authorized, Committed
  <2>3. NotStarted'
    BY <1>12 DEF Finalize, Gone, Conclusion, TypeOK, Authorized, NotStarted, RecordedFirst,
       Failing, Committed
  <2>4. RecordedFirst'
    BY <1>12 DEF Finalize, Gone, Conclusion, TypeOK, RecordedFirst
  <2>5. HoldsLease'
    BY <1>12 DEF Finalize, Gone, Conclusion, TypeOK, HoldsLease, Holding
  <2> QED
    BY <2>1, <2>2, <2>3, <2>4, <2>5
<1>13. CASE ParentDies(l)
  <2>1. TypeOK'
    BY <1>13 DEF ParentDies, TypeOK
  <2>2. Authorized'
    BY <1>13 DEF ParentDies, TypeOK, Authorized, Committed
  <2>3. NotStarted'
    BY <1>13 DEF ParentDies, TypeOK, Authorized, NotStarted, RecordedFirst, Failing, Committed
  <2>4. RecordedFirst'
    BY <1>13 DEF ParentDies, TypeOK, RecordedFirst
  <2>5. HoldsLease'
    BY <1>13 DEF ParentDies, TypeOK, HoldsLease, Holding
  <2> QED
    BY <2>1, <2>2, <2>3, <2>4, <2>5
<1> QED
  BY <1>1, <1>2, <1>3, <1>4, <1>5, <1>6, <1>7, <1>8, <1>9, <1>10, <1>11, <1>12, <1>13

\* The steps of the runner's bootstrap.
LEMMA RunnerSteps ==
  ASSUME IInv, UNCHANGED revivals, NEW l \in Launches,
         \/ Acquire(l)
         \/ Answer(l, "ready", "ack", "acknowledged")
         \/ Answer(l, "acknowledged", "confirm", "confirmed")
         \/ Commit(l)
         \/ GiveUp(l)
         \/ ReportError(l)
         \/ RecordToken(l)
         \/ Load(l)
         \/ Finish(l)
         \/ Release(l)
         \/ RunnerDies(l)
  PROVE  IInv'
<1> USE StartupAssumption DEF IInv, At, ParentGoes, RunnerGoes, Waits, ParentStages,
        RunnerStages
<1>1. CASE Acquire(l)
  <2>1. TypeOK'
    <3>1. lease' \in revivals \cup {Free}
      BY <1>1 DEF Acquire, TypeOK
    <3>2. runner' \in [Launches -> RunnerStages]
      BY <1>1 DEF Acquire, TypeOK
    <3>3. startup' \in [Launches -> {"none", "ready", "acknowledged", "confirmed", "error"}]
      BY <1>1 DEF Acquire, TypeOK
    <3>4. UNCHANGED <<parent, down, controls, status, cand, proof, bound>>
      BY <1>1 DEF Acquire
    <3> QED
      BY <3>1, <3>2, <3>3, <3>4 DEF TypeOK
  <2>2. Authorized'
    BY <1>1 DEF Acquire, Gone, TypeOK, Authorized, Committed
  <2>3. NotStarted'
    BY <1>1 DEF Acquire, Gone, TypeOK, Authorized, NotStarted, RecordedFirst, Failing, Committed
  <2>4. RecordedFirst'
    BY <1>1 DEF Acquire, Gone, TypeOK, RecordedFirst
  <2>5. HoldsLease'
    BY <1>1 DEF Acquire, Gone, TypeOK, HoldsLease, Holding, Free
  <2> QED
    BY <2>1, <2>2, <2>3, <2>4, <2>5
<1>2. CASE Answer(l, "ready", "ack", "acknowledged")
  <2>1. TypeOK'
    BY <1>2 DEF Answer, TypeOK
  <2>2. Authorized'
    BY <1>2 DEF Answer, TypeOK, Authorized, Committed
  <2>3. NotStarted'
    BY <1>2 DEF Answer, TypeOK, Authorized, NotStarted, RecordedFirst, Failing, Committed
  <2>4. RecordedFirst'
    BY <1>2 DEF Answer, TypeOK, RecordedFirst
  <2>5. HoldsLease'
    BY <1>2 DEF Answer, TypeOK, HoldsLease, Holding
  <2> QED
    BY <2>1, <2>2, <2>3, <2>4, <2>5
<1>3. CASE Answer(l, "acknowledged", "confirm", "confirmed")
  <2>1. TypeOK'
    BY <1>3 DEF Answer, TypeOK
  <2>2. Authorized'
    BY <1>3 DEF Answer, TypeOK, Authorized, Committed
  <2>3. NotStarted'
    BY <1>3 DEF Answer, TypeOK, Authorized, NotStarted, RecordedFirst, Failing, Committed
  <2>4. RecordedFirst'
    BY <1>3 DEF Answer, TypeOK, RecordedFirst
  <2>5. HoldsLease'
    BY <1>3 DEF Answer, TypeOK, HoldsLease, Holding
  <2> QED
    BY <2>1, <2>2, <2>3, <2>4, <2>5
<1>4. CASE Commit(l)
  <2>1. TypeOK'
    BY <1>4 DEF Commit, TypeOK
  <2>2. Authorized'
    BY <1>4 DEF Commit, TypeOK, Authorized, Committed
  <2>3. NotStarted'
    BY <1>4 DEF Commit, TypeOK, Authorized, NotStarted, RecordedFirst, Failing, Committed
  <2>4. RecordedFirst'
    BY <1>4 DEF Commit, TypeOK, RecordedFirst
  <2>5. HoldsLease'
    BY <1>4 DEF Commit, TypeOK, HoldsLease, Holding
  <2> QED
    BY <2>1, <2>2, <2>3, <2>4, <2>5
<1>5. CASE GiveUp(l)
  <2>1. TypeOK'
    BY <1>5 DEF GiveUp, TypeOK
  <2>2. Authorized'
    BY <1>5 DEF GiveUp, TypeOK, Authorized, Committed
  <2>3. NotStarted'
    BY <1>5 DEF GiveUp, TypeOK, Authorized, NotStarted, RecordedFirst, Failing, Committed
  <2>4. RecordedFirst'
    BY <1>5 DEF GiveUp, TypeOK, RecordedFirst
  <2>5. HoldsLease'
    BY <1>5 DEF GiveUp, TypeOK, HoldsLease, Holding
  <2> QED
    BY <2>1, <2>2, <2>3, <2>4, <2>5
<1>6. CASE ReportError(l)
  <2>1. TypeOK'
    BY <1>6 DEF ReportError, TypeOK
  <2>2. Authorized'
    BY <1>6 DEF ReportError, TypeOK, Authorized, Committed
  <2>3. NotStarted'
    BY <1>6 DEF ReportError, TypeOK, Authorized, NotStarted, RecordedFirst, Failing, Committed
  <2>4. RecordedFirst'
    BY <1>6 DEF ReportError, TypeOK, RecordedFirst
  <2>5. HoldsLease'
    BY <1>6 DEF ReportError, TypeOK, HoldsLease, Holding
  <2> QED
    BY <2>1, <2>2, <2>3, <2>4, <2>5
<1>7. CASE RecordToken(l)
  <2>1. TypeOK'
    <3>1. CASE PersistFailure(l, TRUE)
      <4>1. status' \in [Launches -> Statuses] /\ cand' \in [Launches -> Candidates]
        BY <3>1, PersistTypes
      <4> QED
        BY <1>7, <4>1, ZenonT(30) DEF RecordToken, TypeOK, Statuses, Candidates
    <3>2. CASE ~PersistFailure(l, TRUE)
      <4> DEFINE t == cand[l].token \/ cand[l].writers /= "missing"
                 c == [cand[l] EXCEPT !.token = t]
      <4>1. c \in Candidates
        <5>1. cand[l] \in Candidates /\ t \in BOOLEAN
          BY DEF TypeOK, Candidates
        <5> HIDE DEF t
        <5> QED
          BY <5>1 DEF Candidates
      <4>2. cand' = [cand EXCEPT ![l] = c] /\ RunnerGoes(l, "loading")
            /\ UNCHANGED <<parent, down, startup, controls, status, proof, bound, lease>>
        BY <1>7, <3>2 DEF RecordToken
      <4> HIDE DEF c
      <4>3. cand' \in [Launches -> Candidates]
        BY <4>1, <4>2 DEF TypeOK, Candidates
      <4> QED
        BY <4>2, <4>3 DEF TypeOK, Candidates
    <3> QED
      BY <3>1, <3>2
  <2>2. Authorized'
    BY <1>7 DEF RecordToken, PersistFailure, TypeOK, Authorized, Committed
  <2>3. NotStarted'
    BY <1>7, SMTT(30) DEF RecordToken, PersistFailure, TypeOK, Authorized, NotStarted, RecordedFirst,
       Failing, Committed
  <2>4. RecordedFirst'
    BY <1>7 DEF RecordToken, PersistFailure, TypeOK, RecordedFirst
  <2>5. HoldsLease'
    BY <1>7 DEF RecordToken, PersistFailure, TypeOK, HoldsLease, Holding
  <2> QED
    BY <2>1, <2>2, <2>3, <2>4, <2>5
<1>8. CASE Load(l)
  <2>1. TypeOK'
    <3>1. CASE PersistFailure(l, l \in revivals)
      <4>1. (l \in revivals) \in BOOLEAN
        OBVIOUS
      <4>2. status' \in [Launches -> Statuses] /\ cand' \in [Launches -> Candidates]
        BY <3>1, <4>1, PersistTypes
      <4> QED
        BY <1>8, <4>2 DEF Load, TypeOK, Statuses, Candidates
    <3>2. CASE ~PersistFailure(l, l \in revivals)
      BY <1>8, <3>2 DEF Load, TypeOK
    <3> QED
      BY <3>1, <3>2
  <2>2. Authorized'
    BY <1>8 DEF Load, PersistFailure, TypeOK, Authorized, Committed
  <2>3. NotStarted'
    BY <1>8 DEF Load, PersistFailure, TypeOK, Authorized, NotStarted, RecordedFirst, Failing,
       Committed
  <2>4. RecordedFirst'
    BY <1>8, SMTT(30) DEF Load, PersistFailure, TypeOK, RecordedFirst
  <2>5. HoldsLease'
    BY <1>8 DEF Load, PersistFailure, TypeOK, HoldsLease, Holding
  <2> QED
    BY <2>1, <2>2, <2>3, <2>4, <2>5
<1>9. CASE Finish(l)
  <2>1. TypeOK'
    <3>1. (l \in revivals) \in BOOLEAN
      OBVIOUS
    <3>2. [writers |-> "zero", token |-> l \in revivals, acked |-> FALSE] \in Candidates
      BY <3>1 DEF Candidates
    <3>3. cand' \in [Launches -> Candidates]
      BY <1>9, <3>2, ZenonT(30) DEF Finish, TypeOK, Candidates
    <3> QED
      BY <1>9, <3>3 DEF Finish, TypeOK, Candidates
  <2>2. Authorized'
    BY <1>9 DEF Finish, TypeOK, Authorized, Committed
  <2>3. NotStarted'
    BY <1>9 DEF Finish, TypeOK, Authorized, NotStarted, RecordedFirst, Failing, Committed
  <2>4. RecordedFirst'
    BY <1>9 DEF Finish, TypeOK, RecordedFirst
  <2>5. HoldsLease'
    BY <1>9 DEF Finish, TypeOK, HoldsLease, Holding
  <2> QED
    BY <2>1, <2>2, <2>3, <2>4, <2>5
<1>10. CASE Release(l)
  <2>1. TypeOK'
    <3>1. cand[l] \in Candidates
      BY DEF Candidates, TypeOK
    <3>2. [cand[l] EXCEPT !.acked = cand[l].token] \in Candidates
      BY <3>1 DEF Candidates
    <3> DEFINE c == [cand[l] EXCEPT !.acked = cand[l].token]
    <3>3. cand' = cand \/ cand' = [cand EXCEPT ![l] = c]
      BY <1>10 DEF Release
    <3> HIDE DEF c
    <3>4. c \in Candidates
      BY <3>2 DEF c
    <3>5. cand' \in [Launches -> Candidates]
      BY <3>3, <3>4 DEF TypeOK, Candidates
    <3> QED
      BY <1>10, <3>5 DEF Release, TypeOK, Candidates, Free
  <2>2. Authorized'
    BY <1>10 DEF Release, TypeOK, Authorized, Committed
  <2>3. NotStarted'
    BY <1>10 DEF Release, TypeOK, Authorized, NotStarted, RecordedFirst, Failing, Committed
  <2>4. RecordedFirst'
    BY <1>10 DEF Release, TypeOK, RecordedFirst
  <2>5. HoldsLease'
    BY <1>10 DEF Release, TypeOK, HoldsLease, Holding, Free, Gone
  <2> QED
    BY <2>1, <2>2, <2>3, <2>4, <2>5
<1>11. CASE RunnerDies(l)
  <2>1. TypeOK'
    BY <1>11 DEF RunnerDies, Gone, TypeOK, Free, NoCandidate
  <2>2. Authorized'
    BY <1>11 DEF RunnerDies, Gone, TypeOK, Authorized, Committed
  <2>3. NotStarted'
    BY <1>11 DEF RunnerDies, Gone, TypeOK, Authorized, NotStarted, RecordedFirst, Failing,
       Committed
  <2>4. RecordedFirst'
    BY <1>11 DEF RunnerDies, Gone, TypeOK, RecordedFirst
  <2>5. HoldsLease'
    BY <1>11 DEF RunnerDies, Gone, TypeOK, HoldsLease, Holding, Free
  <2> QED
    BY <2>1, <2>2, <2>3, <2>4, <2>5
<1> QED
  BY <1>1, <1>2, <1>3, <1>4, <1>5, <1>6, <1>7, <1>8, <1>9, <1>10, <1>11

-----------------------------------------------------------------------------
\* The strengthening is invariant.
THEOREM Inductive == Spec => []IInv
<1>1. IInv /\ [Next]_vars => IInv'
  <2> SUFFICES ASSUME IInv, [Next]_vars PROVE IInv'
    OBVIOUS
  <2>1. ASSUME NEW l \in Launches, UNCHANGED revivals,
               Spawn(l) \/ ParentStep(l) \/ ParentDies(l) \/ RunnerStep(l) \/ Finish(l) \/ RunnerDies(l)
        PROVE  IInv'
    BY <2>1, ParentSteps, RunnerSteps DEF ParentStep, RunnerStep
  <2>2. CASE UNCHANGED vars
    BY <2>2 DEF vars, IInv, TypeOK, Authorized, NotStarted, RecordedFirst, HoldsLease,
       Committed, Failing
  <2> QED
    BY <2>1, <2>2 DEF Next
<1> QED
  BY Initially, <1>1, PTL DEF Spec

\* Parents, runners and their files stay within the states the source knows.
THEOREM TypeCorrect == Spec => []TypeOK
  BY Inductive, PTL DEF IInv

\* A launch reported as failed never executes, for any number of launches.
THEOREM FailedNeverExecutes == Spec => []FailureIsFinal
<1>1. IInv => FailureIsFinal
  BY DEF IInv, TypeOK, Authorized, NotStarted, FailureIsFinal, Failing, Committed
<1> QED
  BY Inductive, <1>1, PTL

\* Nothing executes that its parent has not recorded and charged.
THEOREM NothingUnrecorded == Spec => []ExecutesRecorded
<1>1. IInv => ExecutesRecorded
  BY DEF IInv, TypeOK, Authorized, RecordedFirst, ExecutesRecorded, Committed
<1> QED
  BY Inductive, <1>1, PTL

\* Of any number of concurrent revivals of a session one at most is committed.
THEOREM RevivalsExclude == Spec => []OneRevivalCommitted
<1>1. IInv => OneRevivalCommitted
  BY StartupAssumption DEF IInv, HoldsLease, Holding, OneRevivalCommitted, Committed
<1> QED
  BY Inductive, <1>1, PTL

-----------------------------------------------------------------------------
\* What a verdict rests on: it is given on a runner that is gone, to a parent that has
\* come to an end; only a runner that was authorized names its token, which a revival
\* has done before it executes.
VerdictLast ==
  \A l \in Launches : proof[l] \in {"observed", "unknown"} =>
    Gone(l) /\ parent[l] \in {"killing", "launched", "failed"}

TokenNamed ==
  \A l \in Launches :
    /\ cand[l].token => parent[l] = "launched"
    /\ l \in revivals /\ (runner[l] \in {"loading", "executing"} \/ status[l] = "ended") =>
         cand[l].token

FailureJudged ==
  \A l \in Launches : parent[l] \in {"killing", "failed"} /\ cand[l].writers = "zero" =>
    proof[l] # "unknown"

Judged == VerdictLast /\ TokenNamed /\ FailureJudged /\ ObservedReleased

\* What a persisted startup failure leaves: a token stays, and only its own is added.
LEMMA PersistKeeps ==
  ASSUME TypeOK, NEW l \in Launches, NEW token, PersistFailure(l, token)
  PROVE  /\ \A m \in Launches \ {l} : cand'[m] = cand[m] /\ status'[m] = status[m]
         /\ cand'[l].token => cand[l].token \/ token
         /\ cand[l].token => cand'[l].token
         /\ status'[l] = "ended" => status[l] = "ended"
<1>1. cand[l].token \in BOOLEAN
  BY DEF TypeOK
<1>2. \A m \in Launches \ {l} : cand'[m] = cand[m] /\ status'[m] = status[m]
  BY DEF TypeOK, PersistFailure
<1>3. cand'[l].token = cand[l].token \/ cand'[l].token = (cand[l].token \/ token)
  BY DEF TypeOK, PersistFailure
<1>4. status'[l] = "ended" => status[l] = "ended"
  BY DEF TypeOK, PersistFailure
<1> QED
  BY <1>1, <1>2, <1>3, <1>4

\* Every step keeps that.
LEMMA JudgedStep ==
  ASSUME IInv, Judged, UNCHANGED revivals,
         (\E l \in Launches : \/ Spawn(l) \/ ParentStep(l) \/ ParentDies(l)
                              \/ RunnerStep(l) \/ Finish(l) \/ RunnerDies(l))
  PROVE  Judged'
<1> USE DEF Judged, VerdictLast, TokenNamed, FailureJudged, ObservedReleased, At, ParentGoes,
        RunnerGoes, Gone, Statuses, Candidates
<1>a. /\ parent \in [Launches -> ParentStages] /\ runner \in [Launches -> RunnerStages]
      /\ status \in [Launches -> Statuses] /\ cand \in [Launches -> Candidates]
      /\ proof \in [Launches -> {"none", "pending", "observed", "unknown"}]
      /\ Free \notin Launches
  BY StartupAssumption DEF IInv, TypeOK, Free
<1>b. \A l \in Launches :
        /\ Committed(l) \/ status[l] \in {"running", "ended"} => parent[l] = "launched"
        /\ parent[l] = "launched" => cand[l].writers # "missing"
  BY DEF IInv, TypeOK, Authorized, RecordedFirst
<1>c. \A l \in Launches : lease = l => l \in revivals
  BY StartupAssumption DEF IInv, TypeOK, Free
<1>1. ASSUME NEW l \in Launches, Spawn(l) PROVE Judged'
  BY <1>1, <1>a, <1>b, <1>c DEF Spawn, Committed
<1>2. ASSUME NEW l \in Launches, RecordStatus(l) PROVE Judged'
  BY <1>2, <1>a, <1>b, <1>c DEF RecordStatus, Committed
<1>3. ASSUME NEW l \in Launches, InitializeProof(l) PROVE Judged'
  <2>1. \A m \in Launches \ {l} : /\ parent'[m] = parent[m] /\ cand'[m] = cand[m] /\ proof'[m] = proof[m]
    BY <1>3, <1>a DEF InitializeProof
  <2>2. /\ parent[l] = "sidecar" /\ parent'[l] \in {"bind", "failing"}
        /\ cand'[l].token => cand[l].token
        /\ proof'[l] \in {proof[l], "pending"}
    BY <1>3, <1>a DEF InitializeProof
  <2>3. runner[l] \notin {"loading", "executing"} /\ status[l] # "ended"
    BY <2>2, <1>b DEF Committed
  <2>4. UNCHANGED <<runner, status, lease>>
    BY <1>3 DEF InitializeProof
  <2> HIDE DEF Gone
  <2>5. VerdictLast'
    BY <2>1, <2>2, <2>4, <1>a DEF Gone
  <2>6. TokenNamed' /\ FailureJudged'
    BY <2>1, <2>2, <2>3, <2>4, <1>a
  <2>7. ObservedReleased'
    BY <2>1, <2>2, <2>3, <2>4, <1>a
  <2> QED
    BY <2>5, <2>6, <2>7
<1>4. ASSUME NEW l \in Launches, BindCapacity(l) PROVE Judged'
  BY <1>4, <1>a, <1>b, <1>c, SMTT(30) DEF BindCapacity, Committed
<1>5. ASSUME NEW l \in Launches, NEW state \in Waits, AwaitRunner(l, state) PROVE Judged'
  <2>1. parent[l] \in Waits /\ parent'[l] \in {"ack", "confirm", "commit", "failing"}
    BY <1>5, <1>a DEF AwaitRunner, Waits, After
  <2>2. parent' = [parent EXCEPT ![l] = parent'[l]] /\ UNCHANGED <<runner, status, cand, proof, lease>>
    BY <1>5, <1>a DEF AwaitRunner
  <2> QED
    BY <2>1, <2>2, <1>a DEF Waits
<1>6. ASSUME NEW l \in Launches, NEW c \in {"ack", "confirm"},
             NEW s \in {"acknowledged", "confirmed"}, WriteControl(l, c, s)
      PROVE  Judged'
  <2>1. parent[l] \in {"ack", "confirm"} /\ parent'[l] \in {"acknowledged", "confirmed", "failing"}
    BY <1>6, <1>a DEF WriteControl
  <2>2. parent' = [parent EXCEPT ![l] = parent'[l]] /\ UNCHANGED <<runner, status, cand, proof, lease>>
    BY <1>6, <1>a DEF WriteControl
  <2> QED
    BY <2>1, <2>2, <1>a
<1>7. ASSUME NEW l \in Launches, CheckExit(l) PROVE Judged'
  BY <1>7, <1>a, <1>b, <1>c DEF CheckExit, Committed
<1>8. ASSUME NEW l \in Launches, Proceed(l) PROVE Judged'
  BY <1>8, <1>a, <1>b, <1>c, SMTT(30) DEF Proceed, Committed
<1>9. ASSUME NEW l \in Launches, ReportFailure(l) PROVE Judged'
  <2>1. /\ parent[l] = "failing" /\ parent' = [parent EXCEPT ![l] = "killing"]
        /\ UNCHANGED <<runner, proof, lease>>
    BY <1>9 DEF ReportFailure
  <2>2. /\ \A m \in Launches \ {l} : cand'[m] = cand[m] /\ status'[m] = status[m]
        /\ cand'[l].token => cand[l].token
        /\ status'[l] = "ended" => status[l] = "ended"
    BY <1>9, PersistKeeps DEF ReportFailure, IInv
  <2>3. runner[l] \notin {"loading", "executing"} /\ status[l] # "ended"
    BY <2>1, <1>b DEF Committed
  <2> QED
    BY <2>1, <2>2, <2>3, <1>a
<1>10. ASSUME NEW l \in Launches, Terminate(l) PROVE Judged'
  BY <1>10, <1>a, <1>b, <1>c DEF Terminate, Committed
<1>11. ASSUME NEW l \in Launches, Finalize(l) PROVE Judged'
  <2>1. /\ Gone(l) /\ parent[l] \in {"killing", "launched", "failed"}
        /\ proof' = [proof EXCEPT ![l] = Conclusion(l)] /\ UNCHANGED <<parent, runner, cand, lease>>
        /\ \A m \in Launches : status'[m] = "ended" => status[m] = "ended"
    BY <1>11, <1>a DEF Finalize
  <2>2. Conclusion(l) = "observed" /\ cand[l].token => lease = Free
    BY DEF Conclusion
  <2>3. cand[l].writers = "zero" /\ ~cand[l].token => Conclusion(l) = "observed"
    BY DEF Conclusion
  <2> HIDE DEF Gone
  <2>4. VerdictLast' /\ TokenNamed' /\ FailureJudged'
    BY <2>1, <2>3, <1>a DEF Gone
  <2>5. ObservedReleased'
    BY <2>1, <2>2, <1>a, <1>c
  <2> QED
    BY <2>4, <2>5
<1>12. ASSUME NEW l \in Launches, ParentDies(l) PROVE Judged'
  BY <1>12, <1>a, <1>b, <1>c DEF ParentDies, Committed
<1>13. ASSUME NEW l \in Launches, Acquire(l) PROVE Judged'
  BY <1>13, <1>a, <1>b, <1>c DEF Acquire, Committed
<1>14. ASSUME NEW l \in Launches, NEW here \in {"ready", "acknowledged"},
              NEW c \in {"ack", "confirm"}, NEW s \in {"acknowledged", "confirmed"},
              Answer(l, here, c, s)
       PROVE  Judged'
  BY <1>14, <1>a, <1>b, <1>c DEF Answer, Committed
<1>15. ASSUME NEW l \in Launches, Commit(l) PROVE Judged'
  BY <1>15, <1>a, <1>b, <1>c DEF Commit, Committed
<1>16. ASSUME NEW l \in Launches, GiveUp(l) PROVE Judged'
  BY <1>16, <1>a, <1>b, <1>c DEF GiveUp, Committed
<1>17. ASSUME NEW l \in Launches, ReportError(l) PROVE Judged'
  BY <1>17, <1>a, <1>b, <1>c DEF ReportError, Committed
<1>18. ASSUME NEW l \in Launches, RecordToken(l) PROVE Judged'
  <2>1. /\ runner[l] = "committed" /\ l \in revivals /\ UNCHANGED <<parent, proof, lease>>
        /\ runner' = [runner EXCEPT ![l] = runner'[l]] /\ runner'[l] \in {"loading", "releasing"}
    BY <1>18, <1>a DEF RecordToken
  <2>2. parent[l] = "launched" /\ cand[l].writers # "missing" /\ proof[l] \notin {"observed", "unknown"}
    BY <2>1, <1>b DEF Committed
  <2>3. CASE PersistFailure(l, TRUE) /\ RunnerGoes(l, "releasing")
    <3>1. /\ \A m \in Launches \ {l} : cand'[m] = cand[m] /\ status'[m] = status[m]
          /\ cand[l].token => cand'[l].token
          /\ status'[l] = "ended" => status[l] = "ended"
      BY <2>3, PersistKeeps DEF IInv
    <3>2. runner'[l] = "releasing"
      BY <2>3, <1>a
    <3>3. VerdictLast' /\ FailureJudged'
      BY <2>1, <2>2, <3>1, <3>2, <1>a
    <3>4. TokenNamed'
      BY <2>1, <2>2, <3>1, <3>2, <1>a
    <3>5. ObservedReleased'
      BY <2>1, <2>2, <3>1, <3>2, <1>a
    <3> QED
      BY <3>3, <3>4, <3>5
  <2>4. CASE /\ UNCHANGED status
             /\ cand' = [cand EXCEPT ![l].token = @ \/ cand[l].writers # "missing"]
    <3>1. /\ \A m \in Launches \ {l} : cand'[m] = cand[m]
          /\ cand'[l].token = (cand[l].token \/ cand[l].writers # "missing")
      BY <2>4, <1>a
    <3>2. cand'[l].token
      BY <3>1, <2>2
    <3> QED
      BY <2>1, <2>2, <2>4, <3>1, <3>2, <1>a
  <2> QED
    BY <1>18, <2>3, <2>4 DEF RecordToken
<1>19. ASSUME NEW l \in Launches, Load(l) PROVE Judged'
  <2>1. /\ runner[l] = (IF l \in revivals THEN "loading" ELSE "committed")
        /\ UNCHANGED <<parent, proof, lease>>
        /\ runner' = [runner EXCEPT ![l] = runner'[l]] /\ runner'[l] \in {"executing", "releasing"}
    BY <1>19, <1>a DEF Load
  <2>2. parent[l] = "launched" /\ proof[l] \notin {"observed", "unknown"}
    BY <2>1, <1>b DEF Committed
  <2>3. CASE PersistFailure(l, l \in revivals)
    <3>1. /\ \A m \in Launches \ {l} : cand'[m] = cand[m] /\ status'[m] = status[m]
          /\ cand[l].token => cand'[l].token
          /\ status'[l] = "ended" => status[l] = "ended"
      BY <2>3, PersistKeeps DEF IInv
    <3> QED
      BY <2>1, <2>2, <3>1, <1>a
  <2>4. CASE UNCHANGED cand /\ status' = [status EXCEPT ![l] = "running"]
    BY <2>1, <2>2, <2>4, <1>a
  <2> QED
    BY <1>19, <2>3, <2>4 DEF Load
<1>20. ASSUME NEW l \in Launches, Finish(l) PROVE Judged'
  BY <1>20, <1>a, <1>b, <1>c DEF Finish, Committed
<1>21. ASSUME NEW l \in Launches, Release(l) PROVE Judged'
  BY <1>21, <1>a, <1>b, <1>c DEF Release, Committed
<1>22. ASSUME NEW l \in Launches, RunnerDies(l) PROVE Judged'
  BY <1>22, <1>a, <1>b, <1>c DEF RunnerDies, Committed
<1> QED
  BY <1>1, <1>2, <1>3, <1>4, <1>5, <1>6, <1>7, <1>8, <1>9, <1>10, <1>11, <1>12, <1>13, <1>14,
     <1>15, <1>16, <1>17, <1>18, <1>19, <1>20, <1>21, <1>22 DEF ParentStep, RunnerStep

\* So verdicts, tokens and leases stay in step in every state that can be reached.
THEOREM JudgedInv == Spec => []Judged
<1>1. Init => Judged
  BY StartupAssumption DEF Init, Judged, VerdictLast, TokenNamed, FailureJudged,
     ObservedReleased, NoCandidate, Free
<1>2. IInv /\ Judged /\ [Next]_vars => Judged'
  <2>1. ASSUME IInv, Judged, Next PROVE Judged'
    BY <2>1, JudgedStep DEF Next
  <2>2. ASSUME Judged, UNCHANGED vars PROVE Judged'
    BY <2>2 DEF vars, Judged, VerdictLast, TokenNamed, FailureJudged, ObservedReleased, Gone
  <2> QED
    BY <2>1, <2>2
<1> QED
  BY <1>1, <1>2, Inductive, PTL DEF Spec

\* A failed startup whose candidate was persisted is never left with an unknown proof:
\* the parent's failure writes no token, so that the proof can be concluded without a
\* lease, and a token is only ever written by a runner that was authorized.
THEOREM FailuresProved == Spec => []FailureProved
<1>1. Judged => FailureProved
  BY DEF Judged, FailureJudged, FailureProved
<1> QED
  BY <1>1, JudgedInv, PTL

\* An observed proof of a run that ended is one of a run that gave its lease up: the
\* candidate names the token before anything executes, and no later write takes it out.
THEOREM ObservedReleases == Spec => []ObservedReleased
<1>1. Judged => ObservedReleased
  BY DEF Judged
<1> QED
  BY <1>1, JudgedInv, PTL

-----------------------------------------------------------------------------
\* A lease names a runner that has acquired it, or one that is gone.
LeaseStarted == \A l \in Launches : lease = l => runner[l] \notin {"none", "begin"}

Sharing == IInv /\ LeaseStarted

\* The holder of the session is the launch that the lease names, while its runner lives.
LEMMA HolderNamed ==
  Sharing => \A l \in Launches : Holds(l) <=> lease = l /\ ~Gone(l)
<1> SUFFICES ASSUME Sharing, NEW l \in Launches
             PROVE  Holds(l) <=> lease = l /\ ~Gone(l)
  OBVIOUS
<1>1. runner[l] \in RunnerStages /\ (lease = l => l \in revivals /\ runner[l] \notin {"none", "begin"})
  BY StartupAssumption DEF Sharing, IInv, TypeOK, LeaseStarted, Free
<1>2. l \in revivals /\ runner[l] \in Holding => lease = l
  BY DEF Sharing, IInv, HoldsLease
<1> QED
  BY <1>1, <1>2 DEF Holds, Gone, RunnerStages, Holding

\* What a step of one launch may do to lease and runners: its own runner moves, never back
\* from its end; it takes a lease that nobody alive holds, and frees its own as it ends.
Moves(l) ==
  /\ \A m \in Launches \ {l} : runner'[m] = runner[m]
  /\ Gone(l) => Gone(l)'
  /\ runner'[l] \in {"none", "begin"} => runner[l] \in {"none", "begin"}
  /\ \/ lease' = lease
     \/ /\ lease' = l /\ runner'[l] \in {"ready", "failing"}
        /\ lease = Free \/ \E m \in Launches : lease = m /\ Gone(m)
     \/ lease = l /\ ~Gone(l) /\ lease' = Free /\ Gone(l)'

LEMMA StepMoves ==
  ASSUME IInv, NEW l \in Launches,
         Spawn(l) \/ ParentStep(l) \/ ParentDies(l) \/ RunnerStep(l) \/ Finish(l) \/ RunnerDies(l)
  PROVE  Moves(l)
<1> USE DEF Moves, Gone, RunnerGoes
<1>a. runner \in [Launches -> RunnerStages]
  BY DEF IInv, TypeOK
<1>1. ASSUME Spawn(l) PROVE Moves(l)
  BY <1>1, <1>a DEF Spawn, At, IInv, RecordedFirst
<1>2. ASSUME UNCHANGED <<runner, lease>> PROVE Moves(l)
  BY <1>2
<1>3. ASSUME Terminate(l) PROVE Moves(l)
  BY <1>3, <1>a DEF Terminate
<1>4. ASSUME Acquire(l) PROVE Moves(l)
  BY <1>4, <1>a DEF Acquire
<1>5. ASSUME Release(l) PROVE Moves(l)
  BY <1>5, <1>a DEF Release
<1>6. ASSUME RunnerDies(l) PROVE Moves(l)
  BY <1>6, <1>a DEF RunnerDies
<1>7. ASSUME \/ Commit(l) \/ GiveUp(l) \/ ReportError(l) \/ RecordToken(l) \/ Load(l) \/ Finish(l)
             \/ Answer(l, "ready", "ack", "acknowledged")
             \/ Answer(l, "acknowledged", "confirm", "confirmed")
      PROVE  Moves(l)
  <2>1. /\ lease' = lease /\ ~Gone(l) /\ runner' = [runner EXCEPT ![l] = runner'[l]]
        /\ runner'[l] \notin {"none", "begin"}
    BY <1>7, <1>a DEF Commit, GiveUp, ReportError, RecordToken, Load, Finish, Answer
  <2> QED
    BY <2>1, <1>a
<1>8. ASSUME ParentStep(l), ~Terminate(l) PROVE UNCHANGED <<runner, lease>>
  BY <1>8 DEF ParentStep, RecordStatus, InitializeProof, BindCapacity, AwaitRunner, WriteControl,
     CheckExit, Proceed, ReportFailure, Finalize
<1>9. ParentDies(l) => UNCHANGED <<runner, lease>>
  BY DEF ParentDies
<1> QED
  BY <1>1, <1>2, <1>3, <1>4, <1>5, <1>6, <1>7, <1>8, <1>9 DEF RunnerStep

\* Every step of a launch is one of the contract, or does not concern the session.
LEMMA ContractStep ==
  ASSUME Sharing, Sharing', [Next]_vars
  PROVE  [Contract!Next]_(<<LeaseRecord, LeaseHolders>>)
<1> DEFINE Keeps == UNCHANGED <<LeaseRecord, LeaseHolders>>
           Goal == Contract!Next \/ Keeps
<1> SUFFICES Goal
  OBVIOUS
<1>a. \A l \in Launches : Holds(l) <=> lease = l /\ ~Gone(l)
  BY HolderNamed
<1>b. \A l \in Launches : Holds(l)' <=> lease' = l /\ ~Gone(l)'
  <2>1. Sharing' => (\A l \in Launches : Holds(l) <=> lease = l /\ ~Gone(l))'
    BY HolderNamed, PTL
  <2> QED
    BY <2>1
<1>c. lease \in Launches \cup {Free} /\ Free \notin Launches
  BY StartupAssumption DEF Sharing, IInv, TypeOK, Free
<1>d. LeaseHolders = {l \in Launches : lease = l /\ ~Gone(l)}
  BY <1>a DEF LeaseHolders
<1>e. LeaseHolders' = {l \in Launches : lease' = l /\ ~Gone(l)'}
  BY <1>b DEF LeaseHolders
<1> HIDE DEF Keeps, Goal
<1>1. ASSUME NEW l \in Launches, Moves(l) PROVE Goal
  <2>1. CASE lease' = lease
    <3>1. LeaseRecord' = LeaseRecord
      BY <2>1 DEF LeaseRecord
    <3>2. CASE lease = l /\ ~Gone(l) /\ Gone(l)'
      <4>1. l \in LeaseHolders /\ LeaseHolders' = LeaseHolders \ {l}
        BY <1>d, <1>e, <2>1, <3>2
      <4>2. Contract!Lose(l)
        BY <3>1, <4>1 DEF Contract!Lose
      <4> QED
        BY <4>2 DEF Goal, Contract!Next
    <3>3. CASE ~(lease = l /\ ~Gone(l) /\ Gone(l)')
      <4>1. \A m \in Launches : lease = m => (Gone(m)' <=> Gone(m))
        BY <1>1, <3>3 DEF Moves, Gone
      <4>2. LeaseHolders' = LeaseHolders
        BY <1>d, <1>e, <2>1, <4>1
      <4> QED
        BY <3>1, <4>2 DEF Goal, Keeps
    <3> QED
      BY <3>2, <3>3
  <2>2. CASE /\ lease' = l /\ runner'[l] \in {"ready", "failing"}
             /\ lease = Free \/ \E m \in Launches : lease = m /\ Gone(m)
    <3>1. LeaseHolders = {}
      BY <1>c, <1>d, <2>2
    <3>2. LeaseHolders' = {l}
      BY <1>e, <2>2 DEF Gone
    <3>3. LeaseRecord' = {l}
      BY <1>c, <2>2 DEF LeaseRecord, Free
    <3>4. Contract!Take(l)
      BY <3>1, <3>2, <3>3 DEF Contract!Take
    <3> QED
      BY <3>4 DEF Goal, Contract!Next
  <2>3. CASE lease = l /\ ~Gone(l) /\ lease' = Free /\ Gone(l)'
    <3>1. LeaseHolders = {l} /\ LeaseHolders' = {}
      BY <1>c, <1>d, <1>e, <2>3
    <3>2. LeaseRecord = {l} /\ LeaseRecord' = {}
      BY <1>c, <2>3 DEF LeaseRecord, Free
    <3>3. Contract!GiveUp(l)
      BY <3>1, <3>2 DEF Contract!GiveUp
    <3> QED
      BY <3>3 DEF Goal, Contract!Next
  <2> QED
    BY <1>1, <2>1, <2>2, <2>3 DEF Moves
<1>2. ASSUME Next PROVE Goal
  BY <1>1, <1>2, StepMoves DEF Next, Sharing
<1>3. ASSUME UNCHANGED vars PROVE Goal
  BY <1>3 DEF vars, Goal, Keeps, LeaseRecord, LeaseHolders, Holds
<1> QED
  BY <1>2, <1>3

\* So the launches share a session as the contract has it: whatever is lost between a parent
\* and its runner, no revival begins while the runner of another lives, and none frees the
\* lease of another (subagent-runner-bootstrap.ts:139, 205).
THEOREM ImplementsContract == Spec => KeepsContract
<1>1. Init => Contract!Init /\ LeaseStarted
  BY StartupAssumption
     DEF Init, Contract!Init, LeaseRecord, LeaseHolders, Holds, LeaseStarted, Free
<1>2. IInv /\ LeaseStarted /\ [Next]_vars => LeaseStarted'
  <2>1. ASSUME IInv, LeaseStarted, NEW l \in Launches, Moves(l) PROVE LeaseStarted'
    BY <2>1, StartupAssumption DEF LeaseStarted, Moves, Free
  <2>2. ASSUME LeaseStarted, UNCHANGED vars PROVE LeaseStarted'
    BY <2>2 DEF LeaseStarted, vars
  <2> QED
    BY <2>1, <2>2, StepMoves DEF Next
<1>3. Sharing /\ Sharing' /\ [Next]_vars => [Contract!Next]_(<<LeaseRecord, LeaseHolders>>)
  BY ContractStep
<1> QED
  BY <1>1, <1>2, <1>3, Inductive, PTL
     DEF Spec, Sharing, KeepsContract, Contract!Spec, Contract!contract
=============================================================================
