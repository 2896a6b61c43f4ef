------------------------- MODULE RunLifecycleProofs -------------------------
(***************************************************************************)
(* Proofs about RunLifecycle, for any number of steps, appends, steers and *)
(* observers: a run never ends in silence, an accepted steer has its       *)
(* outcome when the runner ends, and an append adds its step once unless   *)
(* its request resists removal.                                            *)
(***************************************************************************)
EXTENDS RunLifecycle, FiniteSetTheorems, TLAPS

Mems == [state : Ends \cup {"running"}, stopped : BOOLEAN, timedOut : BOOLEAN,
         interrupted : BOOLEAN, appends : BOOLEAN]
Places == {"top", "step", "ending", "closed", "drained", "withheld", "published",
           "unpublished", "finished", "exited", "dead"}
HeldBack == [result : Ends \cup {None}, status : Status \cup {NoStatus}]
Calls == [at : {"idle", "read", "queued", "answered", "refused"}, saw : Status]
Looks == [at : {"idle", "read", "fix", "probe", "fail", "failStatus"}, saw : Status,
          found : Ends \cup {None}]

\* The parts of TypeOK: the result, what the requesters left, the runner but for its
\* steps, its writer, and the other processes.
ResultOK ==
  /\ status \in Status /\ result \in Ends \cup {None}
  /\ result # None => result \in published
  /\ published \subseteq Ends
SteerOK ==
  /\ closed \in BOOLEAN
  /\ steer \in [Steers -> {"idle", "checked", "written", "accepted", "refused"}]
  /\ inbox \subseteq {q \in Steers : steer[q] \in {"written", "accepted"}}
  /\ ledger \in [Steers -> {None, "open", "settled"}]
AppendOK ==
  /\ append \in [Appends -> Calls]
  /\ pending \subseteq {a \in Appends : append[a].at \in {"queued", "answered"}}
RunnerOK == at \in Places /\ mem \in Mems /\ allGood \in BOOLEAN
WriterOK ==
  /\ due \in BOOLEAN /\ owing \in BOOLEAN
  /\ held \in HeldBack /\ short \in 0..MaxShort
OthersOK ==
  /\ look \in [Observers -> Looks] /\ asked \subseteq Kinds
  /\ asks \in 0..MaxAsks /\ crashes \in 0..MaxCrashes

\* The runs that were taken up, once at least and twice.
Taken == {a \in Appends : ran[a] >= 1}
TakenTwice == {a \in Appends : ran[a] = 2}

\* Each time an append is taken up it adds a step.  Its request is there before, and for
\* a second time only if it resists.
StepsCounted ==
  /\ ran \in [Appends -> 0..2]
  /\ steps = FirstSteps + Cardinality(Taken) + Cardinality(TakenTwice)
  /\ done \in 0..steps /\ (at = "step" => done < steps)
  /\ \A a \in Appends :
       /\ ran[a] > 0 => append[a].at \in {"queued", "answered"}
       /\ a \in pending => ran[a] <= 1
       /\ ~Sticky /\ a \in pending => ran[a] = 0
       /\ ~Sticky => ran[a] <= 1

\* A result was given to the writer, and is written unless the writer still owes it.
Given == owing \/ published # {}

\* A status that may be on disk.
Backed(s) ==
  /\ s.state \in Ends => Given
  /\ s.state = "complete" => "complete" \in published

\* What others are about to write as status says running, or has its result published.
OthersAudible ==
  /\ \A o \in Observers :
       /\ look[o].saw.state = "running"
       /\ look[o].at = "fix" => look[o].found \in published
       /\ look[o].at = "failStatus" => "failed" \in published
  /\ \A a \in Appends : append[a].saw.state = "running"

\* The runner says complete only once it has its result written, and gives up none of
\* its results before its end.
RunnerAudible ==
  /\ at = "closed" \/ Drained => mem.state \in Ends
  /\ at \in {"top", "step", "ending", "unpublished"} \/ due => mem.state # "complete"
  /\ due => Given
  /\ at = "withheld" => held.result = mem.state
  /\ at \in {"published", "exited"} => mem.state \in published
  /\ at = "finished" => mem.state \in published \/ held.result = mem.state

NothingSilent ==
  OthersAudible /\ RunnerAudible /\ Backed(held.status) /\ Backed(status)

\* A steer that was written is in the inbox or has been received, until it is refused; once
\* the runner is drained the marker is there, so that none is accepted any more.
SteersKept ==
  /\ \A q \in Steers :
       steer[q] \in {"written", "accepted"} =>
         q \in inbox \/ ledger[q] # None \/ at = "dead"
  /\ at = "closed" \/ Drained => closed
  /\ AcceptedSteerSettled

LifecycleInv ==
  /\ ResultOK /\ SteerOK /\ AppendOK /\ RunnerOK /\ WriterOK /\ OthersOK
  /\ StepsCounted /\ NothingSilent /\ SteersKept

-----------------------------------------------------------------------------
\* What the runner knows of its run stays of its type.
LEMMA MemTypes ==
  ASSUME NEW m \in Mems
  PROVE  /\ Stopped(m) \in Mems /\ TimedOut(m) \in Mems /\ Interrupted(m) \in Mems
         /\ Outcome(m) \in Ends
         /\ \A busy \in BOOLEAN : Snapshot(m, busy) \in Status /\ Snapshot(m, busy).state = m.state
<1>1. Stopped(m) \in Mems /\ TimedOut(m) \in Mems /\ Interrupted(m) \in Mems
  BY DEF Stopped, TimedOut, Interrupted, Mems, Ends
<1>2. Outcome(m) \in Ends
  BY DEF Outcome, Ends
<1>3. ASSUME NEW busy \in BOOLEAN
      PROVE  Snapshot(m, busy) \in Status /\ Snapshot(m, busy).state = m.state
  BY DEF Snapshot, Status, Mems
<1> QED
  BY <1>1, <1>2, <1>3

LEMMA ScannedType ==
  ASSUME NEW m \in Mems
  PROVE  Scanned(m) \in Mems /\ (m.state # "complete" => Scanned(m).state # "complete")
<1>1. \A x \in Mems : /\ Stopped(x).state = x.state /\ TimedOut(x).state = x.state
                       /\ Interrupted(x).state \in {x.state, "paused"}
  BY DEF Stopped, TimedOut, Interrupted, Mems
<1>2. PICK s \in Mems : s = (IF "stop" \in asked THEN Stopped(m) ELSE m) /\ s.state = m.state
  BY <1>1, MemTypes
<1>3. PICK t \in Mems : t = (IF "timeout" \in asked THEN TimedOut(s) ELSE s) /\ t.state = s.state
  BY <1>1, MemTypes
<1>4. Scanned(m) = IF "interrupt" \in asked THEN Interrupted(t) ELSE t
  BY <1>2, <1>3 DEF Scanned
<1> QED
  BY <1>1, <1>2, <1>3, <1>4, MemTypes

\* The two files the runner writes, at once or when its writer tries again.
LEMMA PutResultKeeps ==
  ASSUME ResultOK, WriterOK, mem'.state \in Ends, PutResult
  PROVE  /\ result' \in Ends \cup {None} /\ (result' # None => result' \in published')
         /\ published' \subseteq Ends /\ published \subseteq published'
         /\ owing' \in BOOLEAN /\ held' \in HeldBack /\ short' \in 0..MaxShort
         /\ held'.status = held.status /\ Given'
         /\ mem'.state \in published' \/ held'.result = mem'.state
         /\ owing' => held'.result = mem'.state
         /\ ~owing' => mem'.state \in published'
<1>1. /\ result \in Ends \cup {None} /\ (result # None => result \in published)
      /\ published \subseteq Ends /\ held \in HeldBack
      /\ short \in 0..MaxShort /\ MaxShort \in Nat
  BY LifecycleAssumption DEF ResultOK, WriterOK
<1>2. CASE /\ result' = mem'.state /\ published' = published \cup {mem'.state}
           /\ held' = [held EXCEPT !.result = None] /\ owing' = FALSE /\ UNCHANGED short
  <2>1. held' \in HeldBack /\ held'.status = held.status
    BY <1>1, <1>2 DEF HeldBack
  <2> QED
    BY <1>1, <1>2, <2>1 DEF Given
<1>3. CASE /\ Lacks /\ held' = [held EXCEPT !.result = mem'.state] /\ owing' = TRUE
           /\ UNCHANGED <<result, published>>
  <2>1. held' \in HeldBack /\ held'.status = held.status /\ held'.result = mem'.state
    BY <1>1, <1>3 DEF HeldBack
  <2>2. short' \in 0..MaxShort
    BY <1>1, <1>3 DEF Lacks
  <2> QED
    BY <1>1, <1>3, <2>1, <2>2 DEF Given
<1> QED
  BY <1>2, <1>3 DEF PutResult

LEMMA PutStatusKeeps ==
  ASSUME ResultOK, WriterOK, mem' \in Mems, steps' \in Int, done' \in Int, PutStatus
  PROVE  /\ status' \in Status /\ held' \in HeldBack /\ short' \in 0..MaxShort
         /\ held'.result = held.result
         /\ status' = status \/ status'.state = mem'.state
         /\ held'.status \in {held.status, NoStatus} \/ held'.status.state = mem'.state
<1> DEFINE busy == done' < steps' /\ at' # "finished"
<1>1. PICK now \in Status : now = Snapshot(mem', busy) /\ now.state = mem'.state
  <2>1. busy \in BOOLEAN
    OBVIOUS
  <2>2. \A m \in Mems : Snapshot(m, busy) \in Status /\ Snapshot(m, busy).state = m.state
    BY <2>1, MemTypes
  <2> HIDE DEF busy
  <2> QED
    BY <2>2
<1>2. status \in Status /\ held \in HeldBack /\ short \in 0..MaxShort /\ MaxShort \in Nat
  BY LifecycleAssumption DEF ResultOK, WriterOK
<1>3. \/ status' = now /\ held' = [held EXCEPT !.status = NoStatus] /\ UNCHANGED short
      \/ Lacks /\ held' = [held EXCEPT !.status = now] /\ UNCHANGED status
  BY <1>1 DEF PutStatus
<1> HIDE DEF busy
<1>4. CASE status' = now /\ held' = [held EXCEPT !.status = NoStatus] /\ UNCHANGED short
  BY <1>1, <1>2, <1>4 DEF HeldBack
<1>5. CASE Lacks /\ held' = [held EXCEPT !.status = now] /\ UNCHANGED status
  BY <1>1, <1>2, <1>5 DEF HeldBack, Lacks
<1> QED
  BY <1>3, <1>4, <1>5

\* What a write leaves: its types, and what NothingSilent says of the files.
WriteLeaves ==
  /\ ResultOK' /\ WriterOK' /\ Backed(held.status)' /\ Backed(status)'
  /\ published \subseteq published' /\ (Given => Given')
  /\ due' => Given'

LEMMA WriteKeeps ==
  ASSUME ResultOK, WriterOK, Backed(held.status), Backed(status),
         mem' \in Mems, mem'.state # "complete", steps' \in Int, done' \in Int, Write
  PROVE  /\ WriteLeaves
         /\ mem'.state \in Ends => mem'.state \in published' \/ held'.result = mem'.state
<1>1. /\ result \in Ends \cup {None} /\ (result # None => result \in published)
      /\ published \subseteq Ends /\ status \in Status
      /\ mem'.state \in Ends \cup {"running"}
  BY DEF ResultOK, Mems
<1>2. CASE mem'.state \in Ends
  <2>1. due' = TRUE /\ PutResult /\ UNCHANGED status
    BY <1>2 DEF Write
  <2> QED
    BY <1>1, <1>2, <2>1, PutResultKeeps DEF WriteLeaves, ResultOK, WriterOK, Backed
<1>3. CASE mem'.state \notin Ends
  <2>1. due' = FALSE /\ PutStatus /\ UNCHANGED <<result, published, owing>>
    BY <1>3 DEF Write
  <2>2. Backed(held.status)' /\ Backed(status)' /\ (Given <=> Given')
    BY <1>3, <2>1, PutStatusKeeps DEF Backed, NoStatus, None, Ends, Given
  <2>3. ResultOK' /\ WriterOK'
    <3>1. ResultOK'
      BY <1>1, <2>1, PutStatusKeeps DEF ResultOK
    <3>2. owing' \in BOOLEAN
      BY <2>1, Zenon DEF WriterOK
    <3> QED
      BY <2>1, <3>1, <3>2, PutStatusKeeps DEF WriterOK
  <2> QED
    BY <1>3, <2>1, <2>2, <2>3 DEF WriteLeaves
<1> QED
  BY <1>2, <1>3

\* The runner's own state.
LEMMA RunnerStays == LifecycleInv /\ [Next]_vars => RunnerOK'
<1> SUFFICES ASSUME LifecycleInv, [Next]_vars PROVE RunnerOK'
  OBVIOUS
<1> USE DEF files, runner, others, history, RunnerOK, Places
<1>1. at \in Places /\ mem \in Mems /\ allGood \in BOOLEAN
  BY DEF LifecycleInv
<1>2. CASE UNCHANGED <<at, mem, allGood>>
  BY <1>1, <1>2, Zenon
<1>3. CASE BeginStep
  BY <1>1, <1>3 DEF BeginStep, Take, Mems
<1>4. CASE Exhaust \/ PublishFails
  BY <1>1, <1>4 DEF Exhaust, PublishFails, Mems, Ends
<1>5. CASE EndStep
  BY <1>1, <1>5 DEF EndStep
<1>6. CASE ScanInbox
  BY <1>1, <1>6, ScannedType DEF ScanInbox
<1>7. CASE CloseInbox
  <2>1. PICK m \in Mems : m = IF "stop" \in asked THEN Stopped(mem) ELSE mem
    BY <1>1, MemTypes
  <2>2. mem' = [m EXCEPT !.state = Outcome(m)] /\ at' = "closed" /\ UNCHANGED allGood
    BY <1>7, <2>1 DEF CloseInbox
  <2>3. Outcome(m) \in Ends
    BY MemTypes
  <2> QED
    BY <1>1, <2>2, <2>3 DEF Mems
<1>8. CASE LeaveLoop \/ DrainInbox \/ Publish \/ WriteLast \/ Exit \/ WriteStatus \/ Retry
  BY <1>1, <1>8 DEF LeaveLoop, DrainInbox, Publish, WriteLast, Exit, WriteStatus, Retry,
     RetryResult, RetryStatus
<1>11. CASE Kill
  BY <1>1, <1>11 DEF Kill, NoMemory, Mems
<1>9. CASE (\E q \in Steers : ChildAnswers(q)) \/ Request \/ Deliver \/ UNCHANGED vars
  BY <1>2, <1>9 DEF ChildAnswers, Request, Ask, CheckSteer, WriteSteer, ConfirmSteer,
     ReadForAppend, QueueAppend, AnswerAppend, Deliver, vars
<1>10. CASE \E o \in Observers : Observe(o) \/ CrashObserver(o)
  BY <1>2, <1>10 DEF Observe, CrashObserver, ReadStatus, FindResult, Fix, Probe, WriteFailed,
     MarkFailed
<1> QED
  BY <1>3, <1>4, <1>5, <1>6, <1>7, <1>8, <1>9, <1>10, <1>11 DEF Next, RunnerStep

\* The requests, the observers and their bounds.
LEMMA OthersStay == LifecycleInv /\ [Next]_vars => OthersOK'
<1> SUFFICES ASSUME LifecycleInv, [Next]_vars PROVE OthersOK'
  OBVIOUS
<1> USE DEF files, runner, others, history, OthersOK
<1>1. OthersOK /\ status \in Status /\ result \in Ends \cup {None}
      /\ MaxAsks \in Nat /\ MaxCrashes \in Nat
  BY LifecycleAssumption DEF LifecycleInv, ResultOK
<1>2. CASE UNCHANGED <<look, asked, asks, crashes>>
  BY <1>1, <1>2
<1>3. CASE RunnerStep \/ Kill \/ Deliver \/ UNCHANGED vars
  BY <1>1, <1>3 DEF RunnerStep, BeginStep, LeaveLoop, Exhaust, EndStep, ScanInbox, ChildAnswers,
     WriteStatus, Retry, RetryResult, RetryStatus, CloseInbox, DrainInbox, Publish, PublishFails,
     WriteLast, Exit, Kill, Deliver, vars
<1>4. ASSUME NEW k \in Kinds, Ask(k) PROVE OthersOK'
  BY <1>1, <1>4 DEF Ask
<1>5. CASE Request
  BY <1>2, <1>4, <1>5 DEF Request, CheckSteer, WriteSteer, ConfirmSteer, ReadForAppend,
     QueueAppend, AnswerAppend
<1>6. ASSUME NEW o \in Observers, Observe(o) \/ CrashObserver(o) PROVE OthersOK'
  <2>1. NoLook \in Looks /\ look[o] \in Looks
    BY <1>1 DEF NoLook, Running, Looks, Status
  <2>2. \E l \in Looks : look' = [look EXCEPT ![o] = l]
    <3>1. CASE ReadStatus(o)
      <4>1. [NoLook EXCEPT !.at = "read", !.saw = status] \in Looks
        BY <1>1, <2>1 DEF Looks
      <4> QED
        BY <3>1, <4>1 DEF ReadStatus
    <3>2. CASE FindResult(o)
      <4> DEFINE l == [look[o] EXCEPT !.found = result,
                                      !.at = IF result # None THEN "fix" ELSE "probe"]
      <4>1. l \in Looks
        BY <1>1, <2>1 DEF Looks
      <4>2. look' = [look EXCEPT ![o] = l]
        BY <3>2, <2>1 DEF FindResult, Looks
      <4> QED
        BY <4>1, <4>2
    <3>3. ASSUME NEW pc \in {"fail", "failStatus"}, To(o, pc)
          PROVE  \E l \in Looks : look' = [look EXCEPT ![o] = l]
      <4>1. [look[o] EXCEPT !.at = pc] \in Looks
        BY <2>1 DEF Looks
      <4> QED
        BY <3>3, <4>1 DEF To
    <3>4. CASE Fix(o) \/ Probe(o) \/ WriteFailed(o) \/ MarkFailed(o) \/ CrashObserver(o)
      BY <2>1, <3>3, <3>4 DEF Fix, Probe, WriteFailed, MarkFailed, CrashObserver, Back
    <3> QED
      BY <1>6, <3>1, <3>2, <3>4 DEF Observe
  <2>3. UNCHANGED <<asked, asks>> /\ crashes' \in 0..MaxCrashes
    BY <1>1, <1>6 DEF Observe, CrashObserver, ReadStatus, FindResult, Fix, Probe, WriteFailed,
       MarkFailed
  <2> QED
    BY <1>1, <2>2, <2>3
<1> QED
  BY <1>3, <1>5, <1>6 DEF Next

-----------------------------------------------------------------------------
\* Sums of the runs that were taken up, before and after a further set was.
LEMMA CountTaken ==
  ASSUME IsFiniteSet(Appends), NEW S \in SUBSET Appends, NEW T \in SUBSET Appends,
         S \cap T = {}
  PROVE  /\ Cardinality(S) \in Nat /\ Cardinality(T) \in Nat
         /\ Cardinality(S \cup T) = Cardinality(S) + Cardinality(T)
<1>1. IsFiniteSet(S) /\ IsFiniteSet(T)
  BY FS_Subset
<1>2. Cardinality(S \cap T) = 0
  BY FS_EmptySet
<1>3. Cardinality(S) \in Nat /\ Cardinality(T) \in Nat
  BY <1>1, FS_CardinalityType
<1>4. Cardinality(S \cup T) = Cardinality(S) + Cardinality(T) - Cardinality(S \cap T)
  BY <1>1, FS_Union
<1> QED
  BY <1>2, <1>3, <1>4

\* At the top of the loop a request adds its step, and again if it resisted.
LEMMA TakeCounts ==
  ASSUME LifecycleInv, Take
  PROVE  /\ ran' \in [Appends -> 0..2] /\ pending' \subseteq pending
         /\ steps' = FirstSteps + Cardinality(Taken') + Cardinality(TakenTwice')
         /\ steps' \in Nat /\ steps <= steps'
         /\ \A a \in Appends :
              /\ ran'[a] > 0 => a \in pending \/ ran[a] > 0
              /\ a \in pending' => Sticky /\ ran'[a] = 1
              /\ ~Sticky => ran'[a] <= 1
<1>1. /\ ran \in [Appends -> 0..2] /\ pending \subseteq Appends
      /\ steps = FirstSteps + Cardinality(Taken) + Cardinality(TakenTwice)
      /\ FirstSteps \in Nat /\ Sticky \in BOOLEAN /\ IsFiniteSet(Appends)
      /\ \A a \in Appends : /\ a \in pending => ran[a] <= 1
                            /\ ~Sticky /\ a \in pending => ran[a] = 0
                            /\ ~Sticky => ran[a] <= 1
  BY LifecycleAssumption DEF LifecycleInv, StepsCounted, AppendOK
<1>2. /\ pending' \subseteq {a \in pending : Sticky /\ ran[a] = 0}
      /\ ran' = [a \in Appends |-> IF a \in pending THEN ran[a] + 1 ELSE ran[a]]
      /\ steps' = steps + Cardinality(pending)
  BY DEF Take
<1>3. PICK new \in SUBSET Appends : new = {a \in pending : ran[a] = 0}
  BY <1>1
<1>4. PICK again \in SUBSET Appends : again = {a \in pending : ran[a] = 1}
  BY <1>1
<1>5. \A a \in Appends : ran'[a] = IF a \in pending THEN ran[a] + 1 ELSE ran[a]
  BY <1>2
<1>6. ran' \in [Appends -> 0..2]
  <2>1. \A a \in Appends : ran'[a] \in 0..2
    BY <1>1, <1>5
  <2> QED
    BY <1>2, <2>1
<1>7. pending = new \cup again /\ new \cap again = {}
  BY <1>1, <1>3, <1>4
<1>8. Taken' = Taken \cup new /\ Taken \cap new = {}
  BY <1>1, <1>3, <1>5 DEF Taken
<1>9. TakenTwice' = TakenTwice \cup again /\ TakenTwice \cap again = {}
  BY <1>1, <1>4, <1>5 DEF TakenTwice
<1>10. Taken \in SUBSET Appends /\ TakenTwice \in SUBSET Appends
  BY DEF Taken, TakenTwice
<1>11. /\ Cardinality(Taken') = Cardinality(Taken) + Cardinality(new)
       /\ Cardinality(TakenTwice') = Cardinality(TakenTwice) + Cardinality(again)
       /\ Cardinality(pending) = Cardinality(new) + Cardinality(again)
       /\ Cardinality(new) \in Nat /\ Cardinality(again) \in Nat
       /\ Cardinality(Taken) \in Nat /\ Cardinality(TakenTwice) \in Nat
  <2>1. /\ Cardinality(Taken \cup new) = Cardinality(Taken) + Cardinality(new)
        /\ Cardinality(new) \in Nat /\ Cardinality(Taken) \in Nat
    BY <1>1, <1>8, <1>10, CountTaken
  <2>2. /\ Cardinality(TakenTwice \cup again) = Cardinality(TakenTwice) + Cardinality(again)
        /\ Cardinality(again) \in Nat /\ Cardinality(TakenTwice) \in Nat
    BY <1>1, <1>9, <1>10, CountTaken
  <2>3. Cardinality(new \cup again) = Cardinality(new) + Cardinality(again)
    BY <1>1, <1>7, CountTaken
  <2> QED
    BY <1>7, <1>8, <1>9, <2>1, <2>2, <2>3
<1>12. /\ steps' = FirstSteps + Cardinality(Taken') + Cardinality(TakenTwice')
       /\ steps' \in Nat /\ steps <= steps'
  BY <1>1, <1>2, <1>11
<1>13. \A a \in Appends : /\ ran'[a] > 0 => a \in pending \/ ran[a] > 0
                          /\ a \in pending' => Sticky /\ ran'[a] = 1
                          /\ ~Sticky => ran'[a] <= 1
  BY <1>1, <1>2, <1>5
<1> QED
  BY <1>2, <1>6, <1>12, <1>13

-----------------------------------------------------------------------------
\* Whatever writes the status has the result published before, or writes it as running.
LEMMA StaysAudible == LifecycleInv /\ [Next]_vars => ResultOK' /\ WriterOK' /\ NothingSilent'
<1> SUFFICES ASSUME LifecycleInv, [Next]_vars PROVE ResultOK' /\ WriterOK' /\ NothingSilent'
  OBVIOUS
<1> USE DEF files, runner, others, history
<1>1. /\ ResultOK /\ WriterOK /\ OthersAudible /\ RunnerAudible
      /\ Backed(held.status) /\ Backed(status)
      /\ mem \in Mems /\ mem' \in Mems /\ steps \in Int /\ done \in Int
      /\ append \in [Appends -> Calls] /\ look \in [Observers -> Looks]
  <2>1. steps \in Int /\ done \in Int
    BY LifecycleAssumption, FS_CardinalityType, FS_Subset DEF LifecycleInv, StepsCounted,
       Taken, TakenTwice
  <2> QED
    BY <2>1, RunnerStays DEF LifecycleInv, NothingSilent, RunnerOK, AppendOK, OthersOK
<1>2. ASSUME WriteLeaves, RunnerAudible', UNCHANGED <<append, look>>
      PROVE  ResultOK' /\ WriterOK' /\ NothingSilent'
  BY <1>1, <1>2 DEF WriteLeaves, NothingSilent, OthersAudible
<1>3. ASSUME Write, mem'.state # "complete", at' \in {"top", "step", "ending"},
             steps' \in Int, done' \in Int, UNCHANGED <<append, look>>
      PROVE  ResultOK' /\ WriterOK' /\ NothingSilent'
  <2>1. WriteLeaves
    BY <1>1, <1>3, WriteKeeps
  <2> QED
    BY <1>2, <1>3, <2>1 DEF RunnerAudible, Drained, WriteLeaves
<1>4. CASE BeginStep
  <2>1. mem'.state = mem.state
    BY <1>1, <1>4 DEF BeginStep, Take, Mems
  <2>2. steps' \in Int
    BY <1>4, TakeCounts DEF BeginStep
  <2> QED
    BY <1>1, <1>3, <1>4, <2>1, <2>2 DEF BeginStep, RunnerAudible
<1>5. CASE Exhaust
  <2>1. mem'.state = "failed"
    BY <1>1, <1>5 DEF Exhaust, Mems
  <2> QED
    BY <1>1, <1>3, <1>5, <2>1 DEF Exhaust
<1>6. CASE EndStep \/ \E q \in Steers : ChildAnswers(q)
  <2>1. /\ Write /\ mem' = mem /\ at' \in {"top", "step", "ending"} /\ at = "step"
        /\ steps' = steps /\ done' \in {done, done + 1} /\ UNCHANGED <<append, look>>
    BY <1>6 DEF EndStep, ChildAnswers
  <2> QED
    BY <1>1, <1>3, <2>1 DEF RunnerAudible
<1>7. CASE ScanInbox
  <2>1. mem' = Scanned(mem) /\ mem.state # "complete"
    BY <1>1, <1>7 DEF ScanInbox, RunnerAudible
  <2>2. mem'.state # "complete"
    BY <1>1, <2>1, ScannedType
  <2> QED
    BY <1>1, <1>3, <1>7, <2>2 DEF ScanInbox
<1>8. CASE WriteStatus
  <2>1. /\ due /\ due' = FALSE /\ PutStatus
        /\ UNCHANGED <<at, mem, steps, done, result, published, owing, append, look>>
    BY <1>8 DEF WriteStatus
  <2>2. Given /\ mem.state # "complete"
    BY <1>1, <2>1 DEF RunnerAudible
  <2>3. /\ status' \in Status /\ held' \in HeldBack /\ short' \in 0..MaxShort
        /\ held'.result = held.result
        /\ status' = status \/ status'.state = mem'.state
        /\ held'.status \in {held.status, NoStatus} \/ held'.status.state = mem'.state
    BY <1>1, <2>1, PutStatusKeeps
  <2>4. Backed(held.status)' /\ Backed(status)' /\ Given'
    BY <1>1, <2>1, <2>2, <2>3 DEF Backed, NoStatus, None, Ends, Given
  <2>5. WriteLeaves
    <3>1. ResultOK'
      BY <1>1, <2>1, <2>3 DEF ResultOK
    <3>2. owing' \in BOOLEAN
      BY <1>1, <2>1, Zenon DEF WriterOK
    <3> QED
      BY <2>1, <2>3, <2>4, <3>1, <3>2 DEF WriteLeaves, WriterOK
  <2> QED
    BY <1>1, <1>2, <2>1, <2>3, <2>5 DEF RunnerAudible, Drained
<1>9. ASSUME UNCHANGED <<status, result, published, owing, held, short, due>>
      PROVE  WriteLeaves
  <2>1. owing' \in BOOLEAN /\ due' \in BOOLEAN
    BY <1>1, <1>9, Zenon DEF WriterOK
  <2>2. Given => Given'
    BY <1>9 DEF Given
  <2>3. ResultOK' /\ Backed(held.status)' /\ Backed(status)'
    BY <1>1, <1>9 DEF ResultOK, Backed, Given
  <2>4. due' => Given'
    BY <1>1, <1>9, <2>2 DEF RunnerAudible
  <2> QED
    BY <1>1, <1>9, <2>1, <2>2, <2>3, <2>4 DEF WriteLeaves, WriterOK
<1>10. CASE LeaveLoop \/ DrainInbox \/ Exit
  <2>1. WriteLeaves
    BY <1>9, <1>10 DEF LeaveLoop, DrainInbox, Exit
  <2>2. RunnerAudible'
    <3>1. CASE LeaveLoop
      BY <1>1, <3>1 DEF LeaveLoop, RunnerAudible, Drained, Given
    <3>2. CASE DrainInbox
      BY <1>1, <3>2 DEF DrainInbox, RunnerAudible, Drained, Given
    <3>3. CASE Exit
      <4>1. mem.state \in Ends /\ held.result = None
        BY <1>1, <3>3 DEF Exit, NothingHeld, RunnerAudible, Drained
      <4>2. mem.state \in published
        BY <1>1, <3>3, <4>1 DEF Exit, RunnerAudible, Ends, None
      <4> QED
        BY <1>1, <3>3, <4>1, <4>2 DEF Exit, RunnerAudible, Drained, Given
    <3> QED
      BY <1>10, <3>1, <3>2, <3>3
  <2> QED
    BY <1>2, <1>10, <2>1, <2>2 DEF LeaveLoop, DrainInbox, Exit
<1>11. CASE CloseInbox /\ ~due
  <2>1. PICK m \in Mems : m = IF "stop" \in asked THEN Stopped(mem) ELSE mem
    BY <1>1, MemTypes
  <2>2. mem' = [m EXCEPT !.state = Outcome(m)] /\ at' = "closed" /\ UNCHANGED due
    BY <1>11, <2>1 DEF CloseInbox
  <2>3. mem'.state \in Ends
    BY <2>2, MemTypes DEF Mems
  <2>4. WriteLeaves /\ UNCHANGED <<append, look>>
    BY <1>9, <1>11 DEF CloseInbox
  <2> QED
    BY <1>2, <1>11, <2>2, <2>3, <2>4 DEF RunnerAudible
<1>12. CASE Publish /\ ~due
  <2>1. /\ mem' = mem /\ mem.state \in Ends /\ PutResult /\ UNCHANGED <<status, due, append, look>>
        /\ at' = IF owing' THEN "withheld" ELSE "published"
    BY <1>1, <1>12 DEF Publish, RunnerAudible, Drained
  <2>2. /\ result' \in Ends \cup {None} /\ (result' # None => result' \in published')
        /\ published' \subseteq Ends /\ published \subseteq published'
        /\ owing' \in BOOLEAN /\ held' \in HeldBack /\ short' \in 0..MaxShort
        /\ held'.status = held.status /\ Given'
        /\ owing' => held'.result = mem'.state
        /\ ~owing' => mem'.state \in published'
    BY <1>1, <2>1, PutResultKeeps
  <2>3. ResultOK' /\ Backed(held.status)' /\ Backed(status)'
    BY <1>1, <2>1, <2>2 DEF ResultOK, Backed
  <2>4. due' \in BOOLEAN
    BY <1>1, <2>1, Zenon DEF WriterOK
  <2>5. WriteLeaves
    BY <2>2, <2>3, <2>4 DEF WriteLeaves, WriterOK
  <2>6. RunnerAudible'
    BY <1>12, <2>1, <2>2 DEF RunnerAudible
  <2> QED
    BY <1>2, <2>1, <2>5, <2>6
<1>13. CASE PublishFails /\ ~due
  <2>1. /\ mem'.state = "failed" /\ at' = "unpublished"
        /\ UNCHANGED <<status, result, published, owing, short, due, append, look>>
    BY <1>1, <1>13 DEF PublishFails, Mems
  <2>2. held' \in HeldBack /\ held'.status = held.status
    BY <1>1, <1>13 DEF PublishFails, WriterOK, HeldBack
  <2>3. owing' \in BOOLEAN /\ due' \in BOOLEAN
    BY <1>1, <2>1, Zenon DEF WriterOK
  <2>4. WriteLeaves
    BY <1>1, <1>13, <2>1, <2>2, <2>3 DEF WriteLeaves, ResultOK, WriterOK, Backed, Given
  <2> QED
    BY <1>2, <1>13, <2>1, <2>4 DEF RunnerAudible, Ends
<1>14. CASE WriteLast /\ ~due
  <2>1. /\ mem.state \in Ends /\ UNCHANGED <<mem, steps, done, append, look>>
        /\ at' = "finished"
    BY <1>1, <1>14 DEF WriteLast, RunnerAudible, Drained
  <2>2. CASE at = "unpublished"
    <3>1. Write /\ mem'.state # "complete"
      BY <1>1, <1>14, <2>1, <2>2 DEF WriteLast, RunnerAudible
    <3>2. /\ WriteLeaves
          /\ mem'.state \in Ends => mem'.state \in published' \/ held'.result = mem'.state
      BY <1>1, <2>1, <3>1, WriteKeeps
    <3> QED
      BY <1>2, <2>1, <3>1, <3>2 DEF RunnerAudible, WriteLeaves
  <2>3. CASE at = "published"
    <3>1. PutStatus /\ UNCHANGED <<result, published, owing, due>> /\ mem.state \in published
      BY <1>1, <1>14, <2>3 DEF WriteLast, RunnerAudible
    <3>2. /\ status' \in Status /\ held' \in HeldBack /\ short' \in 0..MaxShort
          /\ status' = status \/ status'.state = mem'.state
          /\ held'.status \in {held.status, NoStatus} \/ held'.status.state = mem'.state
      BY <1>1, <2>1, <3>1, PutStatusKeeps
    <3>3. ResultOK' /\ Backed(held.status)' /\ Backed(status)'
      BY <1>1, <2>1, <3>1, <3>2 DEF ResultOK, Backed, NoStatus, None, Ends, Given
    <3>4. owing' \in BOOLEAN /\ due' \in BOOLEAN
      BY <1>1, <3>1, Zenon DEF WriterOK
    <3>5. WriteLeaves
      BY <1>14, <3>1, <3>2, <3>3, <3>4 DEF WriteLeaves, WriterOK, Given
    <3> QED
      BY <1>2, <1>14, <2>1, <3>1, <3>5 DEF RunnerAudible
  <2> QED
    BY <1>14, <2>2, <2>3 DEF WriteLast
<1>15. CASE Kill
  <2>1. /\ due' = FALSE /\ held' = NothingHeld /\ at' = "dead"
        /\ UNCHANGED <<status, result, published, owing, short, append, look>>
    BY <1>15 DEF Kill
  <2>2. owing' \in BOOLEAN
    BY <1>1, <2>1, Zenon DEF WriterOK
  <2>3. held' \in HeldBack /\ Backed(held.status)'
    BY <2>1 DEF NothingHeld, HeldBack, Backed, NoStatus, None, Ends
  <2>4. ResultOK' /\ Backed(status)' /\ (Given => Given')
    BY <1>1, <2>1 DEF ResultOK, Backed, Given
  <2>5. WriteLeaves
    BY <1>1, <2>1, <2>2, <2>3, <2>4 DEF WriteLeaves, WriterOK
  <2> QED
    BY <1>2, <2>1, <2>5 DEF RunnerAudible, Drained
<1>16. CASE Retry /\ ~due
  <2>1. held \in HeldBack
    BY <1>1 DEF WriterOK
  <2>2. UNCHANGED <<due, short, mem, append, look>>
    BY <1>16 DEF Retry, RetryResult, RetryStatus
  <2>3. due' \in BOOLEAN
    BY <1>1, <2>2, Zenon DEF WriterOK
  <2>4. CASE RetryResult
    <3>1. /\ held.result \in Ends /\ held' = [held EXCEPT !.result = None]
          /\ result' = held.result /\ published' = published \cup {held.result}
          /\ owing' = FALSE /\ UNCHANGED status
          /\ at' = IF at = "withheld" THEN "published" ELSE at
      BY <2>1, <2>4 DEF RetryResult, HeldBack
    <3>2. held' \in HeldBack /\ held'.status = held.status
      BY <2>1, <3>1 DEF HeldBack
    <3>3. ResultOK' /\ Backed(held.status)' /\ Backed(status)' /\ Given'
      BY <1>1, <3>1, <3>2 DEF ResultOK, Backed, Given
    <3>4. WriteLeaves
      BY <1>1, <2>2, <2>3, <3>1, <3>2, <3>3 DEF WriteLeaves, WriterOK
    <3>5. RunnerAudible'
      BY <1>1, <1>16, <2>2, <3>1 DEF RunnerAudible, Drained, Retry
    <3> QED
      BY <1>2, <2>2, <3>4, <3>5
  <2>5. CASE RetryStatus
    <3>1. /\ held.status \in Status /\ held' = [held EXCEPT !.status = NoStatus]
          /\ status' = held.status /\ UNCHANGED <<result, published, owing, at>>
      BY <2>1, <2>5 DEF RetryStatus, HeldBack
    <3>2. held' \in HeldBack /\ held'.status = NoStatus /\ held'.result = held.result
      BY <2>1, <3>1 DEF HeldBack
    <3>3. ResultOK' /\ Backed(held.status)' /\ Backed(status)' /\ (Given => Given')
      BY <1>1, <3>1, <3>2 DEF ResultOK, Backed, Given, NoStatus, None, Ends
    <3>4. owing' \in BOOLEAN
      BY <1>1, <3>1, Zenon DEF WriterOK
    <3>5. WriteLeaves
      BY <1>1, <1>16, <2>2, <2>3, <3>1, <3>2, <3>3, <3>4 DEF WriteLeaves, WriterOK
    <3>6. RunnerAudible'
      BY <1>1, <1>16, <2>2, <3>1, <3>2 DEF RunnerAudible, Drained
    <3> QED
      BY <1>2, <2>2, <3>5, <3>6
  <2> QED
    BY <1>16, <2>4, <2>5 DEF Retry
<1>17. ASSUME UNCHANGED <<at, mem, due, owing, held, short>>, ResultOK', Backed(status)',
              published \subseteq published',
              \A o \in Observers :
                \/ look'[o] = look[o]
                \/ /\ look'[o].saw.state = "running"
                   /\ look'[o].at = "fix" => look'[o].found \in published'
                   /\ look'[o].at = "failStatus" => "failed" \in published',
              \A a \in Appends : append'[a] = append[a] \/ append'[a].saw.state = "running"
       PROVE  ResultOK' /\ WriterOK' /\ NothingSilent'
  <2>1. Given => Given'
    BY <1>17 DEF Given
  <2>2. owing' \in BOOLEAN /\ due' \in BOOLEAN
    BY <1>1, <1>17, Zenon DEF WriterOK
  <2>3. WriterOK' /\ Backed(held.status)'
    BY <1>1, <1>17, <2>1, <2>2 DEF WriterOK, Backed
  <2>4. OthersAudible'
    BY <1>1, <1>17 DEF OthersAudible
  <2>5. RunnerAudible'
    BY <1>1, <1>17, <2>1 DEF RunnerAudible, Drained
  <2> QED
    BY <1>17, <2>3, <2>4, <2>5 DEF NothingSilent
<1>18. ASSUME UNCHANGED <<status, result, published, owing>>
       PROVE  ResultOK' /\ Backed(status)' /\ published \subseteq published'
  BY <1>1, <1>18 DEF ResultOK, Backed, Given
<1>19. CASE (\E k \in Kinds : Ask(k)) \/ UNCHANGED vars
            \/ (\E q \in Steers : CheckSteer(q) \/ WriteSteer(q) \/ ConfirmSteer(q))
  <2>1. UNCHANGED <<status, result, published, owing, at, mem, due, held, short, append, look>>
    BY <1>19 DEF Ask, CheckSteer, WriteSteer, ConfirmSteer, vars
  <2> QED
    BY <1>17, <1>18, <2>1
<1>20. CASE Deliver
  BY <1>1, <1>17, <1>20 DEF Deliver, ResultOK, Backed, Given
<1>21. ASSUME NEW a \in Appends, ReadForAppend(a) \/ QueueAppend(a)
       PROVE  ResultOK' /\ WriterOK' /\ NothingSilent'
  <2>1. UNCHANGED <<status, result, published, owing, at, mem, due, held, short, look>>
    BY <1>21 DEF ReadForAppend, QueueAppend
  <2>2. append[a].saw.state = "running"
    BY <1>1 DEF OthersAudible
  <2>3. append'[a].saw.state = "running" /\ \A b \in Appends \ {a} : append'[b] = append[b]
    BY <1>1, <1>21, <2>2 DEF ReadForAppend, QueueAppend, NoCall, Running, Calls
  <2> QED
    BY <1>17, <1>18, <2>1, <2>3
<1>22. ASSUME NEW a \in Appends, AnswerAppend(a) PROVE ResultOK' /\ WriterOK' /\ NothingSilent'
  <2>1. append[a].saw \in Status /\ append[a].saw.state = "running"
    BY <1>1 DEF OthersAudible, Calls
  <2>2. status' \in Status /\ status'.state = "running"
    BY <1>22, <2>1 DEF AnswerAppend, Status
  <2>3. UNCHANGED <<result, published, owing, at, mem, due, held, short, look>>
    BY <1>22 DEF AnswerAppend
  <2>4. ResultOK' /\ Backed(status)'
    BY <1>1, <2>2, <2>3 DEF ResultOK, Backed, Ends
  <2>5. append'[a].saw.state = "running" /\ \A b \in Appends \ {a} : append'[b] = append[b]
    BY <1>1, <1>22 DEF AnswerAppend, NoCall, Running
  <2> QED
    BY <1>17, <2>3, <2>4, <2>5
<1>23. ASSUME NEW o \in Observers, Observe(o) \/ CrashObserver(o)
       PROVE  ResultOK' /\ WriterOK' /\ NothingSilent'
  <2>1. /\ look[o] \in Looks /\ look[o].saw.state = "running"
        /\ look[o].at = "fix" => look[o].found \in published
        /\ look[o].at = "failStatus" => "failed" \in published
    BY <1>1 DEF OthersAudible
  <2>2. UNCHANGED <<at, mem, due, owing, held, short, append>>
    BY <1>23 DEF Observe, CrashObserver, ReadStatus, FindResult, Fix, Probe, WriteFailed,
       MarkFailed
  <2>3. ASSUME Back(o)
        PROVE  /\ look'[o].saw.state = "running" /\ look'[o].at = "idle"
               /\ \A x \in Observers \ {o} : look'[x] = look[x]
    BY <1>1, <2>3 DEF Back, NoLook, Running
  <2>4. ASSUME NEW pc, To(o, pc)
        PROVE  /\ look'[o].saw.state = "running" /\ look'[o].at = pc
               /\ \A x \in Observers \ {o} : look'[x] = look[x]
    BY <1>1, <2>1, <2>4 DEF To, Looks
  <2>5. CASE ReadStatus(o)
    <3>1. look'[o].saw.state = "running" /\ look'[o].at = "read"
      BY <1>1, <2>5 DEF ReadStatus, NoLook
    <3>2. \A x \in Observers \ {o} : look'[x] = look[x]
      BY <1>1, <2>5 DEF ReadStatus
    <3>3. UNCHANGED <<status, result, published, owing>>
      BY <2>5 DEF ReadStatus
    <3> QED
      BY <1>17, <1>18, <2>2, <3>1, <3>2, <3>3
  <2>6. CASE FindResult(o)
    <3>1. /\ look'[o].saw.state = "running" /\ look'[o].at # "failStatus"
          /\ look'[o].at = "fix" => look'[o].found \in published
      BY <1>1, <2>1, <2>6 DEF FindResult, Looks, ResultOK
    <3>2. \A x \in Observers \ {o} : look'[x] = look[x]
      BY <1>1, <2>6 DEF FindResult
    <3>3. UNCHANGED <<status, result, published, owing>>
      BY <2>6 DEF FindResult
    <3> QED
      BY <1>17, <1>18, <2>2, <3>1, <3>2, <3>3
  <2>7. CASE Fix(o) \/ MarkFailed(o)
    <3>1. PICK s \in Ends : /\ s \in published /\ Back(o)
                            /\ status' = [look[o].saw EXCEPT !.state = s, !.left = FALSE]
      BY <1>1, <2>1, <2>7 DEF Fix, MarkFailed, Ends, ResultOK
    <3>2. status' \in Status /\ status'.state = s /\ UNCHANGED <<result, published>>
      BY <2>1, <2>7, <3>1 DEF Fix, MarkFailed, Looks, Status
    <3>3. ResultOK' /\ Backed(status)'
      BY <1>1, <3>1, <3>2 DEF ResultOK, Backed, Given
    <3> QED
      BY <1>17, <2>2, <2>3, <3>1, <3>2, <3>3
  <2>8. CASE Probe(o) \/ CrashObserver(o)
    <3>1. Back(o) \/ To(o, "fail")
      BY <2>8 DEF Probe, CrashObserver
    <3>2. UNCHANGED <<status, result, published, owing>>
      BY <2>8 DEF Probe, CrashObserver
    <3> QED
      BY <1>17, <1>18, <2>2, <2>3, <2>4, <3>1, <3>2
  <2>9. CASE WriteFailed(o)
    <3>1. /\ result' = "failed" /\ published' = published \cup {"failed"}
          /\ UNCHANGED <<status, owing>> /\ To(o, "failStatus")
      BY <2>9 DEF WriteFailed
    <3>2. ResultOK' /\ Backed(status)' /\ published \subseteq published' /\ "failed" \in published'
      BY <1>1, <3>1 DEF ResultOK, Backed, Given, Ends
    <3> QED
      BY <1>17, <2>2, <2>4, <3>1, <3>2
  <2> QED
    BY <1>23, <2>5, <2>6, <2>7, <2>8, <2>9 DEF Observe
<1> QED
  BY <1>4, <1>5, <1>6, <1>7, <1>8, <1>10, <1>11, <1>12, <1>13, <1>14, <1>15, <1>16, <1>19,
     <1>20, <1>21, <1>22, <1>23 DEF Next, RunnerStep, Request

-----------------------------------------------------------------------------
\* A step that leaves the appends and the counts alone.
LEMMA CountsStay ==
  ASSUME LifecycleInv, UNCHANGED <<append, pending, ran, steps>>,
         done' \in 0..steps, at' = "step" => done' < steps
  PROVE  AppendOK' /\ StepsCounted'
BY DEF LifecycleInv, AppendOK, StepsCounted, Taken, TakenTwice

LEMMA AppendStep == LifecycleInv /\ [Next]_vars => AppendOK' /\ StepsCounted'
<1> SUFFICES ASSUME LifecycleInv, [Next]_vars PROVE AppendOK' /\ StepsCounted'
  OBVIOUS
<1> USE DEF files, runner, others, history
<1>1. /\ append \in [Appends -> Calls] /\ status \in Status
      /\ pending \subseteq {a \in Appends : append[a].at \in {"queued", "answered"}}
      /\ StepsCounted
  BY DEF LifecycleInv, AppendOK, ResultOK
<1>2. steps \in Nat /\ done \in Nat /\ done <= steps /\ (at = "step" => done < steps)
  <2>1. Cardinality(Taken) \in Nat /\ Cardinality(TakenTwice) \in Nat
    BY LifecycleAssumption, FS_CardinalityType, FS_Subset DEF Taken, TakenTwice
  <2> QED
    BY <1>1, <2>1, LifecycleAssumption DEF StepsCounted
<1>3. CASE BeginStep
  <2>1. Take /\ done < steps' /\ UNCHANGED <<append, done>> /\ at' = "step"
    BY <1>3 DEF BeginStep
  <2>2. AppendOK'
    BY <1>1, <2>1, TakeCounts DEF AppendOK
  <2>3. \A a \in Appends : /\ ran[a] > 0 => append[a].at \in {"queued", "answered"}
                           /\ ran[a] \in 0..2
    BY <1>1 DEF StepsCounted
  <2>4. /\ ran' \in [Appends -> 0..2] /\ pending' \subseteq pending /\ steps' \in Nat
        /\ steps' = FirstSteps + Cardinality(Taken') + Cardinality(TakenTwice')
        /\ \A a \in Appends :
             /\ ran'[a] > 0 => a \in pending \/ ran[a] > 0
             /\ a \in pending' => Sticky /\ ran'[a] = 1
             /\ ~Sticky => ran'[a] <= 1
    BY <2>1, TakeCounts
  <2>5. done' \in 0..steps' /\ (at' = "step" => done' < steps')
    BY <1>2, <2>1, <2>4
  <2>6. \A a \in Appends :
          /\ ran'[a] > 0 => append'[a].at \in {"queued", "answered"}
          /\ a \in pending' => ran'[a] <= 1
          /\ ~Sticky /\ a \in pending' => ran'[a] = 0
          /\ ~Sticky => ran'[a] <= 1
    BY <1>1, <2>1, <2>3, <2>4
  <2> QED
    BY <2>2, <2>4, <2>5, <2>6 DEF StepsCounted
<1>4. CASE EndStep
  BY <1>2, <1>4, CountsStay DEF EndStep
<1>5. ASSUME UNCHANGED <<append, pending, ran, steps, done>>, at' = "step" => at = "step"
      PROVE  AppendOK' /\ StepsCounted'
  BY <1>2, <1>5, CountsStay
<1>6. CASE ScanInbox \/ LeaveLoop \/ Exhaust \/ CloseInbox \/ DrainInbox \/ Publish
  BY <1>5, <1>6 DEF ScanInbox, LeaveLoop, Exhaust, CloseInbox, DrainInbox, Publish
<1>7. CASE PublishFails \/ WriteLast \/ Exit \/ Deliver \/ WriteStatus \/ Retry
  BY <1>5, <1>7 DEF PublishFails, WriteLast, Exit, Deliver, WriteStatus, Retry, RetryResult,
     RetryStatus
<1>13. CASE Kill
  BY <1>2, <1>13, CountsStay DEF Kill
<1>8. CASE \E q \in Steers :
             ChildAnswers(q) \/ CheckSteer(q) \/ WriteSteer(q) \/ ConfirmSteer(q)
  BY <1>5, <1>8 DEF ChildAnswers, CheckSteer, WriteSteer, ConfirmSteer
<1>9. CASE UNCHANGED vars
  BY <1>5, <1>9 DEF vars
<1>10. CASE \E k \in Kinds : Ask(k)
  BY <1>5, <1>10 DEF Ask
<1>11. CASE \E o \in Observers : Observe(o) \/ CrashObserver(o)
  BY <1>5, <1>11 DEF Observe, CrashObserver, ReadStatus, FindResult, Fix, Probe,
     WriteFailed, MarkFailed
<1>12. ASSUME NEW a \in Appends, ReadForAppend(a) \/ QueueAppend(a) \/ AnswerAppend(a)
       PROVE  AppendOK' /\ StepsCounted'
  <2>1. UNCHANGED <<ran, steps, done, at>>
    BY <1>12 DEF ReadForAppend, QueueAppend, AnswerAppend
  <2>2. NoCall \in Calls /\ append[a] \in Calls
    BY <1>1 DEF NoCall, Running, Calls, Status
  <2>3. PICK c \in Calls : append' = [append EXCEPT ![a] = c]
    <3>1. CASE ReadForAppend(a)
      <4>1. [at |-> "read", saw |-> status] \in Calls /\ [NoCall EXCEPT !.at = "refused"] \in Calls
        BY <1>1, <2>2 DEF Calls
      <4> QED
        BY <3>1, <4>1 DEF ReadForAppend
    <3>2. CASE QueueAppend(a)
      <4>1. [append[a] EXCEPT !.at = "queued"] \in Calls
        BY <2>2 DEF Calls
      <4> QED
        BY <3>2, <4>1 DEF QueueAppend
    <3>3. CASE AnswerAppend(a)
      <4>1. [NoCall EXCEPT !.at = "answered"] \in Calls
        BY <2>2 DEF Calls
      <4> QED
        BY <3>3, <4>1 DEF AnswerAppend
    <3> QED
      BY <1>12, <3>1, <3>2, <3>3
  <2>4. append' \in [Appends -> Calls] /\ append'[a] = c
        /\ \A b \in Appends \ {a} : append'[b] = append[b]
    BY <1>1, <2>3
  <2>5. CASE ReadForAppend(a)
    <3>1. append[a].at = "idle" /\ UNCHANGED pending
      BY <2>5 DEF ReadForAppend
    <3>2. a \notin pending /\ ~(ran[a] > 0)
      BY <1>1, <3>1 DEF StepsCounted
    <3>3. AppendOK'
      BY <1>1, <2>4, <3>1, <3>2 DEF AppendOK
    <3>4. \A b \in Appends : ran[b] > 0 => append'[b].at \in {"queued", "answered"}
      BY <1>1, <2>4, <3>2 DEF StepsCounted
    <3> QED
      BY <1>1, <2>1, <3>1, <3>3, <3>4 DEF StepsCounted, Taken, TakenTwice
  <2>6. CASE QueueAppend(a)
    <3>1. append[a].at = "read" /\ pending' = pending \cup {a} /\ append'[a].at = "queued"
      BY <2>6, <2>2, <1>1 DEF QueueAppend, Calls
    <3>2. ~(ran[a] > 0) /\ ran[a] \in 0..2
      BY <1>1, <3>1 DEF StepsCounted
    <3>3. AppendOK'
      BY <1>1, <2>4, <3>1 DEF AppendOK
    <3>4. \A b \in Appends :
            /\ ran[b] > 0 => append'[b].at \in {"queued", "answered"}
            /\ b \in pending' => ran[b] <= 1
            /\ ~Sticky /\ b \in pending' => ran[b] = 0
            /\ ~Sticky => ran[b] <= 1
      BY <1>1, <2>4, <3>1, <3>2 DEF StepsCounted
    <3> QED
      BY <1>1, <2>1, <3>3, <3>4 DEF StepsCounted, Taken, TakenTwice
  <2>7. CASE AnswerAppend(a)
    <3>1. UNCHANGED pending /\ append'[a].at = "answered"
      BY <2>7, <1>1 DEF AnswerAppend, NoCall
    <3>2. AppendOK'
      BY <1>1, <2>4, <3>1 DEF AppendOK
    <3>3. \A b \in Appends : ran[b] > 0 => append'[b].at \in {"queued", "answered"}
      BY <1>1, <2>4, <3>1 DEF StepsCounted
    <3> QED
      BY <1>1, <2>1, <3>1, <3>2, <3>3 DEF StepsCounted, Taken, TakenTwice
  <2> QED
    BY <1>12, <2>5, <2>6, <2>7
<1> QED
  BY <1>3, <1>4, <1>5, <1>6, <1>7, <1>9, <1>10, <1>11, <1>12, <1>8, <1>13
  DEF Next, RunnerStep, Request

-----------------------------------------------------------------------------
\* A steer is received before it leaves the inbox, and the runner settles what it has
\* received before it is drained.
LEMMA SteerStep == LifecycleInv /\ [Next]_vars => SteerOK' /\ SteersKept'
<1> SUFFICES ASSUME LifecycleInv, [Next]_vars PROVE SteerOK' /\ SteersKept'
  OBVIOUS
<1> USE DEF files, runner, others, history
<1>1. /\ SteerOK /\ SteersKept /\ RunnerOK /\ RunnerOK'
  BY RunnerStays DEF LifecycleInv
<1>2. ASSUME UNCHANGED <<closed, steer, inbox, ledger>>, at # "dead",
             at' = "closed" \/ Drained' => at = "closed" \/ Drained,
             Drained' => Drained
      PROVE  SteerOK' /\ SteersKept'
  BY <1>1, <1>2 DEF SteerOK, SteersKept, AcceptedSteerSettled
<1>3. CASE BeginStep \/ LeaveLoop \/ Exhaust \/ EndStep
  BY <1>2, <1>3 DEF BeginStep, LeaveLoop, Exhaust, EndStep, Drained
<1>4. CASE Publish \/ PublishFails \/ WriteLast \/ Exit \/ Retry
  BY <1>2, <1>4 DEF Publish, PublishFails, WriteLast, Exit, Retry, RetryResult, RetryStatus,
     Drained
<1>14. CASE Kill
  <2>1. UNCHANGED <<closed, steer, inbox>> /\ at' = "dead" /\ ledger' = [q \in Steers |-> None]
    BY <1>14 DEF Kill
  <2>2. SteerOK'
    <3>1. closed' \in BOOLEAN
      BY <1>1, <2>1, Zenon DEF SteerOK
    <3> QED
      BY <1>1, <2>1, <3>1 DEF SteerOK
  <2> QED
    BY <2>1, <2>2 DEF SteersKept, AcceptedSteerSettled, Drained
<1>15. ASSUME UNCHANGED <<closed, steer, inbox, ledger, at>>
       PROVE  SteerOK' /\ SteersKept'
  BY <1>1, <1>15 DEF SteerOK, SteersKept, AcceptedSteerSettled, Drained
<1>5. CASE Deliver \/ UNCHANGED vars \/ WriteStatus \/ (\E k \in Kinds : Ask(k))
  BY <1>15, <1>5 DEF Deliver, vars, WriteStatus, Ask
<1>6. CASE \E a \in Appends : ReadForAppend(a) \/ QueueAppend(a) \/ AnswerAppend(a)
  BY <1>15, <1>6 DEF ReadForAppend, QueueAppend, AnswerAppend
<1>7. CASE \E o \in Observers : Observe(o) \/ CrashObserver(o)
  BY <1>15, <1>7 DEF Observe, CrashObserver, ReadStatus, FindResult, Fix, Probe, WriteFailed,
     MarkFailed, Drained
<1>8. ASSUME NEW m
      PROVE  /\ Received(inbox, m) \in [Steers -> {None, "open", "settled"}]
             /\ \A q \in Steers : /\ q \in inbox => Received(inbox, m)[q] # None
                                  /\ ledger[q] # None => Received(inbox, m)[q] # None
  <2>1. ledger \in [Steers -> {None, "open", "settled"}]
    BY <1>1 DEF SteerOK
  <2> QED
    BY <2>1 DEF Received, None
<1>9. CASE ScanInbox
  <2>1. /\ UNCHANGED <<closed, steer, at>> /\ inbox' = {} /\ ~Drained' /\ at' # "closed"
        /\ ledger' = Received(inbox, mem')
    BY <1>9 DEF ScanInbox, Drained
  <2>2. SteerOK'
    BY <1>1, <1>8, <2>1 DEF SteerOK
  <2> QED
    BY <1>1, <1>8, <2>1, <2>2 DEF SteersKept, AcceptedSteerSettled
<1>10. CASE \E q \in Steers : ChildAnswers(q)
  <2>1. PICK q \in Steers : ChildAnswers(q)
    BY <1>10
  <2>2. /\ UNCHANGED <<closed, steer, inbox, at>> /\ ~Drained' /\ at' # "closed"
        /\ ledger' = [ledger EXCEPT ![q] = "settled"]
    BY <2>1 DEF ChildAnswers, Drained
  <2>3. SteerOK' /\ \A x \in Steers : ledger[x] # None => ledger'[x] # None
    BY <1>1, <2>2 DEF SteerOK, None
  <2> QED
    BY <1>1, <2>2, <2>3 DEF SteersKept, AcceptedSteerSettled
<1>11. CASE CloseInbox
  <2>1. /\ UNCHANGED <<steer, inbox, ledger>> /\ closed' = TRUE
        /\ at = "ending" /\ at' = "closed"
    BY <1>11 DEF CloseInbox
  <2> QED
    BY <1>1, <2>1 DEF SteerOK, SteersKept, AcceptedSteerSettled, Drained
<1>12. CASE DrainInbox
  <2>1. /\ UNCHANGED <<steer, closed>> /\ inbox' = {} /\ closed /\ at = "closed"
        /\ ledger' = Settled(Received(inbox, mem))
    BY <1>1, <1>12 DEF DrainInbox, SteersKept
  <2>2. /\ ledger' \in [Steers -> {None, "settled"}]
        /\ \A q \in Steers : q \in inbox \/ ledger[q] # None => ledger'[q] = "settled"
    BY <1>8, <2>1 DEF Settled, None
  <2>3. SteerOK'
    BY <1>1, <2>1, <2>2 DEF SteerOK
  <2> QED
    BY <1>1, <2>1, <2>2, <2>3 DEF SteersKept, AcceptedSteerSettled, None
<1>13. ASSUME NEW q \in Steers, CheckSteer(q) \/ WriteSteer(q) \/ ConfirmSteer(q)
       PROVE  SteerOK' /\ SteersKept'
  <2>1. UNCHANGED <<closed, ledger, at>> /\ (Drained' <=> Drained)
    BY <1>13 DEF CheckSteer, WriteSteer, ConfirmSteer, Drained
  <2>2. /\ steer \in [Steers -> {"idle", "checked", "written", "accepted", "refused"}]
        /\ inbox \subseteq {x \in Steers : steer[x] \in {"written", "accepted"}}
    BY <1>1 DEF SteerOK
  <2>3. PICK p \in {"checked", "written", "accepted", "refused"} :
          steer' = [steer EXCEPT ![q] = p]
    BY <1>13 DEF CheckSteer, WriteSteer, ConfirmSteer
  <2>4. /\ steer' \in [Steers -> {"idle", "checked", "written", "accepted", "refused"}]
        /\ steer'[q] = p /\ \A x \in Steers \ {q} : steer'[x] = steer[x]
    BY <2>2, <2>3
  <2>5. inbox' \subseteq {x \in Steers : steer'[x] \in {"written", "accepted"}}
    BY <1>13, <2>2, <2>4 DEF CheckSteer, WriteSteer, ConfirmSteer
  <2>6. SteerOK'
    BY <1>1, <2>1, <2>4, <2>5 DEF SteerOK
  <2>7. \A x \in Steers : x # q => (x \in inbox <=> x \in inbox')
    BY <1>13 DEF CheckSteer, WriteSteer, ConfirmSteer
  <2>8. steer'[q] \in {"written", "accepted"} =>
          q \in inbox' \/ ledger[q] # None \/ at = "dead"
    <3>1. CASE CheckSteer(q)
      BY <2>2, <3>1 DEF CheckSteer
    <3>2. CASE WriteSteer(q)
      BY <3>2 DEF WriteSteer
    <3>3. CASE ConfirmSteer(q)
      BY <1>1, <2>2, <3>3 DEF ConfirmSteer, SteersKept
    <3> QED
      BY <1>13, <3>1, <3>2, <3>3
  <2>9. steer'[q] = "accepted" => ~Drained
    BY <1>1, <1>13, <2>2 DEF CheckSteer, WriteSteer, ConfirmSteer, SteersKept
  <2> QED
    BY <1>1, <2>1, <2>4, <2>6, <2>7, <2>8, <2>9 DEF SteersKept, AcceptedSteerSettled
<1> QED
  BY <1>3, <1>4, <1>5, <1>6, <1>7, <1>9, <1>10, <1>11, <1>12, <1>13, <1>14 DEF Next,
     RunnerStep, Request

-----------------------------------------------------------------------------
LEMMA LifecycleInit == Init => LifecycleInv
<1> SUFFICES ASSUME Init PROVE LifecycleInv
  OBVIOUS
<1> USE LifecycleAssumption DEF Init, Running, NoCall, NoLook, NoMemory
<1>1. Running(FALSE) \in Status /\ Running(TRUE) \in Status
  BY DEF Status
<1>2. NoCall \in Calls /\ NoLook \in Looks
  BY <1>1 DEF Calls, Looks
<1>3. ResultOK /\ SteerOK
  BY <1>1 DEF ResultOK, SteerOK, None
<1>4. AppendOK /\ OthersOK
  BY <1>2 DEF AppendOK, OthersOK
<1>5. RunnerOK
  BY DEF RunnerOK, Mems, Places
<1>6. Taken = {} /\ TakenTwice = {}
  BY DEF Taken, TakenTwice
<1>7. StepsCounted
  <2>1. Cardinality(Taken) = 0 /\ Cardinality(TakenTwice) = 0
    BY <1>6, FS_EmptySet
  <2> QED
    BY <2>1 DEF StepsCounted
<1>8. WriterOK
  <2>1. due \in BOOLEAN /\ owing \in BOOLEAN
    BY Zenon
  <2>2. held \in HeldBack /\ short \in 0..MaxShort
    BY DEF NothingHeld, HeldBack
  <2> QED
    BY <2>1, <2>2 DEF WriterOK
<1>9. NothingSilent
  BY DEF NothingSilent, OthersAudible, RunnerAudible, Backed, NothingHeld, NoStatus, Drained,
     Ends, None
<1>10. SteersKept
  BY DEF SteersKept, AcceptedSteerSettled, Drained
<1> QED
  BY <1>3, <1>4, <1>5, <1>7, <1>8, <1>9, <1>10 DEF LifecycleInv

\* The invariant is inductive.
THEOREM LifecycleInductive == Spec => []LifecycleInv
<1>1. LifecycleInv /\ [Next]_vars => LifecycleInv'
  BY RunnerStays, OthersStay, StaysAudible, AppendStep, SteerStep DEF LifecycleInv
<1> QED
  BY <1>1, LifecycleInit, PTL DEF Spec

\* Every state is of its type: a result on disk was published, a request that waits was
\* written, and an append adds two steps at the most.
THEOREM LifecycleTypeCorrect == Spec => []TypeOK
<1>1. LifecycleInv => TypeOK
  <2> SUFFICES ASSUME LifecycleInv PROVE TypeOK
    OBVIOUS
  <2>1. steps \in FirstSteps..(FirstSteps + 2 * Cardinality(Appends))
    <3>1. /\ Cardinality(Taken) \in Nat /\ Cardinality(TakenTwice) \in Nat
          /\ Cardinality(Appends) \in Nat
          /\ Cardinality(Taken) <= Cardinality(Appends)
          /\ Cardinality(TakenTwice) <= Cardinality(Appends)
      BY LifecycleAssumption, FS_CardinalityType, FS_Subset DEF Taken, TakenTwice
    <3>2. steps = FirstSteps + Cardinality(Taken) + Cardinality(TakenTwice) /\ FirstSteps \in Nat
      BY LifecycleAssumption DEF LifecycleInv, StepsCounted
    <3> QED
      BY <3>1, <3>2
  <2>2. ResultOK /\ SteerOK /\ AppendOK /\ RunnerOK /\ WriterOK /\ OthersOK
    BY DEF LifecycleInv
  <2>3. done \in 0..steps /\ ran \in [Appends -> 0..2]
    BY DEF LifecycleInv, StepsCounted
  <2> QED
    BY <2>1, <2>2, <2>3 DEF TypeOK, ResultOK, SteerOK, AppendOK, RunnerOK, WriterOK,
       OthersOK, HeldBack, Mems, Places, Calls, Looks
<1> QED
  BY <1>1, LifecycleInductive, PTL

\* NoSilentEnd: a status that says complete has its result written before, a runner that
\* exits has published its end, and any other end that is on disk has a result with it,
\* unless the runner's writer held it back and never wrote it, whoever of the runner and
\* its observers is killed in between (writeStatusPayload, the runner's end,
\* writeFailedRepair, enqueueChainAppendRequest).
THEOREM NeverSilent == Spec => []NoSilentEnd
<1>1. LifecycleInv => NoSilentEnd
  BY DEF LifecycleInv, NothingSilent, RunnerAudible, Backed, Given, NoSilentEnd
<1> QED
  BY <1>1, LifecycleInductive, PTL

\* AcceptedSteerSettled: a steer that was accepted has its outcome when the runner is past
\* its last scan (requestAsyncSteer, closeSteerInbox).
THEOREM SteerSettled == Spec => []AcceptedSteerSettled
<1>1. LifecycleInv => AcceptedSteerSettled
  BY DEF LifecycleInv, SteersKept
<1> QED
  BY <1>1, LifecycleInductive, PTL

\* AppendedOnce holds if no request resists its removal: the steps of a request are added
\* twice only by a file that could not be deleted (consumeChainAppendRequests).
THEOREM AppendsOnce == ASSUME ~Sticky PROVE Spec => []AppendedOnce
<1>1. LifecycleInv => AppendedOnce
  BY DEF LifecycleInv, StepsCounted, AppendedOnce
<1> QED
  BY <1>1, LifecycleInductive, PTL
=============================================================================
