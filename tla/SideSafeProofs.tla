---------------------------- MODULE SideSafeProofs ----------------------------
(***************************************************************************)
(* Proofs about components that MCSideSafe and MCScheduledRuns check, for  *)
(* every value of their constants: a committed fan-out batch has paid for  *)
(* each of its children, which are no more than the limit in all, an       *)
(* external job is handed to its provider once and never after a           *)
(* cancellation, and the runs of a schedule do not overlap while no lock  *)
(* of a run that goes on is removed, and it stays armed.  They share no    *)
(* state; every theorem is about one of them.                              *)
(***************************************************************************)
EXTENDS FanoutBudget, ExternalJob, ScheduledRuns, FiniteSetTheorems, FunctionTheorems,
        SequenceTheorems, TLAPS

(* Fan-out budgets *)

\* A slot file was made by one process at most, and is there as long as it is claimed.
MadeApart ==
  \A p, q \in Admitters : p # q => made[p] \cap made[q] = {}

\* Whoever is in the lock, or has made it and not named it yet, has it to itself.
LockHeld ==
  \A p \in Admitters : /\ gate[p] = "name" => lock = Unnamed
                       /\ InLock(p) => lock = p

OneNames ==
  \A p, q \in Admitters : gate[p] = "name" /\ gate[q] = "name" => p = q

\* What a process has made when it gets to each point of its batch.
Claiming ==
  \A p \in Admitters :
    /\ gate[p] \in {"lock", "name", "owner", "probe", "evict", "count"} =>
         placed[p] = 0 /\ made[p] = {}
    /\ gate[p] = "claim" =>
         /\ placed[p] = Cardinality(made[p]) /\ placed[p] < Batch[p]
         /\ Batch[p] - placed[p] <= FanoutLimit - Cardinality(slots)
    /\ gate[p] = "commit" => Cardinality(made[p]) = Batch[p]

\* A committed batch stays as it was.
Committed ==
  \A p \in started :
    /\ gate[p] \in {"release", "admitted", "exited", "killed"}
    /\ ~robbed => Cardinality(made[p]) = Batch[p]

FanoutInv ==
  /\ FanoutTypeOK /\ MadeApart
  /\ ~robbed => LockHeld /\ OneNames /\ Claiming
  /\ Committed

-----------------------------------------------------------------------------
\* Slots are finitely many, so sets of them can be counted.
LEMMA SlotsFinite ==
  /\ IsFiniteSet(Slots) /\ Cardinality(Slots) = FanoutLimit
  /\ \A S \in SUBSET Slots :
       IsFiniteSet(S) /\ Cardinality(S) \in Nat /\ Cardinality(S) <= FanoutLimit
<1>1. IsFiniteSet(Slots) /\ Cardinality(Slots) = FanoutLimit
  BY FS_Interval, FanoutAssumption DEF Slots
<1> QED
  BY <1>1, FS_Subset, FS_CardinalityType

\* Every step keeps the variables in their domains.
LEMMA FanoutTypeStep ==
  ASSUME FanoutTypeOK, MadeApart, [FanoutNext]_fanoutVars
  PROVE  FanoutTypeOK' /\ MadeApart'
<1> USE FanoutAssumption DEF FanoutTypeOK, MadeApart, Gates, Vacant, Unnamed, Goes
<1>1. ASSUME NEW p \in Admitters, TryLock(p) PROVE FanoutTypeOK' /\ MadeApart'
  BY <1>1 DEF TryLock
<1>2. ASSUME NEW p \in Admitters, NameLock(p) PROVE FanoutTypeOK' /\ MadeApart'
  BY <1>2 DEF NameLock
<1>3. ASSUME NEW p \in Admitters, ReadOwner(p) PROVE FanoutTypeOK' /\ MadeApart'
  BY <1>3 DEF ReadOwner
<1>4. ASSUME NEW p \in Admitters, ProbeOwner(p) PROVE FanoutTypeOK' /\ MadeApart'
  BY <1>4 DEF ProbeOwner
<1>5. ASSUME NEW p \in Admitters, Evict(p) PROVE FanoutTypeOK' /\ MadeApart'
  BY <1>5 DEF Evict
<1>6. ASSUME NEW p \in Admitters, CountSlots(p) PROVE FanoutTypeOK' /\ MadeApart'
  BY <1>6 DEF CountSlots
<1>7. ASSUME NEW p \in Admitters, ClaimSlot(p) PROVE FanoutTypeOK' /\ MadeApart'
  BY <1>7 DEF ClaimSlot
<1>8. ASSUME NEW p \in Admitters, CommitBatch(p) PROVE FanoutTypeOK' /\ MadeApart'
  BY <1>8 DEF CommitBatch
<1>9. ASSUME NEW p \in Admitters, UndoBatch(p) PROVE FanoutTypeOK' /\ MadeApart'
  BY <1>9 DEF UndoBatch
<1>10. ASSUME NEW p \in Admitters, ReleaseLock(p) PROVE FanoutTypeOK' /\ MadeApart'
  BY <1>10 DEF ReleaseLock
<1>11. ASSUME NEW p \in Admitters, Leave(p) PROVE FanoutTypeOK' /\ MadeApart'
  BY <1>11 DEF Leave
<1>12. ASSUME NEW p \in Admitters, KillAdmitter(p) PROVE FanoutTypeOK' /\ MadeApart'
  BY <1>12 DEF KillAdmitter
<1>13. CASE UNCHANGED fanoutVars
  BY <1>13 DEF fanoutVars
<1> QED
  BY <1>1, <1>2, <1>3, <1>4, <1>5, <1>6, <1>7, <1>8, <1>9, <1>10, <1>11, <1>12, <1>13
     DEF FanoutNext

\* The lock excludes as long as it is not taken from a live process.
LEMMA LockStep ==
  ASSUME FanoutTypeOK, ~robbed => LockHeld /\ OneNames, ~robbed',
         [FanoutNext]_fanoutVars
  PROVE  LockHeld' /\ OneNames'
<1> USE FanoutAssumption DEF FanoutTypeOK, LockHeld, OneNames, InLock, Dead, Vacant, Unnamed,
        Goes
<1>1. ASSUME NEW p \in Admitters, TryLock(p) PROVE LockHeld' /\ OneNames'
  BY <1>1 DEF TryLock
<1>2. ASSUME NEW p \in Admitters, NameLock(p) PROVE LockHeld' /\ OneNames'
  BY <1>2 DEF NameLock
<1>3. ASSUME NEW p \in Admitters, ReadOwner(p) PROVE LockHeld' /\ OneNames'
  BY <1>3 DEF ReadOwner
<1>4. ASSUME NEW p \in Admitters, ProbeOwner(p) PROVE LockHeld' /\ OneNames'
  BY <1>4 DEF ProbeOwner
<1>5. ASSUME NEW p \in Admitters, Evict(p) PROVE LockHeld' /\ OneNames'
  BY <1>5 DEF Evict
<1>6. ASSUME NEW p \in Admitters, CountSlots(p) PROVE LockHeld' /\ OneNames'
  BY <1>6 DEF CountSlots
<1>7. ASSUME NEW p \in Admitters, ClaimSlot(p) PROVE LockHeld' /\ OneNames'
  BY <1>7 DEF ClaimSlot
<1>8. ASSUME NEW p \in Admitters, CommitBatch(p) PROVE LockHeld' /\ OneNames'
  BY <1>8 DEF CommitBatch
<1>9. ASSUME NEW p \in Admitters, UndoBatch(p) PROVE LockHeld' /\ OneNames'
  BY <1>9 DEF UndoBatch
<1>10. ASSUME NEW p \in Admitters, ReleaseLock(p) PROVE LockHeld' /\ OneNames'
  BY <1>10 DEF ReleaseLock
<1>11. ASSUME NEW p \in Admitters, Leave(p) PROVE LockHeld' /\ OneNames'
  BY <1>11 DEF Leave
<1>12. ASSUME NEW p \in Admitters, KillAdmitter(p) PROVE LockHeld' /\ OneNames'
  BY <1>12 DEF KillAdmitter
<1>13. CASE UNCHANGED fanoutVars
  BY <1>13 DEF fanoutVars
<1> QED
  BY <1>1, <1>2, <1>3, <1>4, <1>5, <1>6, <1>7, <1>8, <1>9, <1>10, <1>11, <1>12, <1>13
     DEF FanoutNext

\* The lock keeps the slots for the batch that is in it.
LEMMA ClaimingStep ==
  ASSUME FanoutTypeOK, MadeApart, LockHeld, Claiming, [FanoutNext]_fanoutVars
  PROVE  Claiming'
<1> USE FanoutAssumption DEF FanoutTypeOK, MadeApart, LockHeld, Claiming, InLock, Goes
<1>1. ASSUME NEW p \in Admitters, TryLock(p) PROVE Claiming'
  BY <1>1 DEF TryLock
<1>2. ASSUME NEW p \in Admitters, NameLock(p) PROVE Claiming'
  BY <1>2 DEF NameLock
<1>3. ASSUME NEW p \in Admitters, ReadOwner(p) PROVE Claiming'
  BY <1>3 DEF ReadOwner
<1>4. ASSUME NEW p \in Admitters, ProbeOwner(p) PROVE Claiming'
  BY <1>4 DEF ProbeOwner
<1>5. ASSUME NEW p \in Admitters, Evict(p) PROVE Claiming'
  BY <1>5 DEF Evict
<1>6. ASSUME NEW p \in Admitters, CountSlots(p) PROVE Claiming'
  <2>1. Cardinality(slots) \in Nat /\ Cardinality({}) = 0
    BY SlotsFinite, FS_EmptySet
  <2>2. Batch[p] \in Nat /\ Batch[p] > 0 /\ FanoutLimit \in Nat
    OBVIOUS
  <2>3. /\ gate[p] = "count" /\ UNCHANGED <<slots, made, placed>>
        /\ \A q \in Admitters \ {p} : gate'[q] = gate[q]
        /\ gate'[p] = (IF Batch[p] > FanoutLimit - Cardinality(slots) THEN "refused" ELSE "claim")
    BY <1>6 DEF CountSlots
  <2>4. placed[p] = 0 /\ made[p] = {}
    BY <2>3
  <2>5. ASSUME NEW q \in Admitters \ {p}
        PROVE  gate'[q] = gate[q] /\ placed'[q] = placed[q] /\ made'[q] = made[q]
    BY <2>3
  <2>6. gate'[p] = "claim" => Batch[p] - placed'[p] <= FanoutLimit - Cardinality(slots')
    BY <2>1, <2>2, <2>3, <2>4
  <2> QED
    BY <2>1, <2>2, <2>3, <2>4, <2>5, <2>6
<1>7. ASSUME NEW p \in Admitters, ClaimSlot(p) PROVE Claiming'
  <2>1. CASE slots = Slots
    <3>1. /\ Batch[p] \in Nat /\ placed[p] \in Nat /\ FanoutLimit \in Nat
          /\ placed[p] < Batch[p]
          /\ Batch[p] - placed[p] <= FanoutLimit - Cardinality(slots)
      BY <1>7 DEF ClaimSlot
    <3> QED
      BY <2>1, <3>1, SlotsFinite
  <2>2. ASSUME NEW slot \in Slots \ slots, slots' = slots \cup {slot},
               made' = [made EXCEPT ![p] = made[p] \cup {slot}]
        PROVE  Claiming'
    <3>1. /\ Cardinality(slots) \in Nat /\ Cardinality(made[p]) \in Nat
          /\ Cardinality(slots') = Cardinality(slots) + 1
          /\ Cardinality(made'[p]) = Cardinality(made[p]) + 1
      BY <2>2, SlotsFinite, FS_AddElement
    <3>2. placed'[p] = placed[p] + 1 /\ gate'[p] \in {"claim", "commit", "undo"}
      BY <1>7 DEF ClaimSlot
    <3>3. \A q \in Admitters \ {p} :
            /\ gate'[q] = gate[q] /\ made'[q] = made[q] /\ placed'[q] = placed[q]
            /\ gate[q] # "claim"
      BY <1>7, <2>2 DEF ClaimSlot
    <3>4. /\ gate[p] = "claim"
          /\ gate'[p] = "claim" => placed'[p] # Batch[p]
          /\ gate'[p] = "commit" => placed'[p] = Batch[p]
      BY <1>7, <3>1 DEF ClaimSlot
    <3> QED
      BY <3>1, <3>2, <3>3, <3>4
  <2> QED
    BY <1>7, <2>1, <2>2 DEF ClaimSlot
<1>8. ASSUME NEW p \in Admitters, CommitBatch(p) PROVE Claiming'
  BY <1>8 DEF CommitBatch
<1>9. ASSUME NEW p \in Admitters, UndoBatch(p) PROVE Claiming'
  BY <1>9 DEF UndoBatch
<1>10. ASSUME NEW p \in Admitters, ReleaseLock(p) PROVE Claiming'
  BY <1>10 DEF ReleaseLock
<1>11. ASSUME NEW p \in Admitters, Leave(p) PROVE Claiming'
  BY <1>11 DEF Leave
<1>12. ASSUME NEW p \in Admitters, KillAdmitter(p) PROVE Claiming'
  BY <1>12 DEF KillAdmitter
<1>13. CASE UNCHANGED fanoutVars
  BY <1>13 DEF fanoutVars
<1> QED
  BY <1>1, <1>2, <1>3, <1>4, <1>5, <1>6, <1>7, <1>8, <1>9, <1>10, <1>11, <1>12, <1>13
     DEF FanoutNext

\* A theft is not forgotten.
LEMMA RobbedForGood ==
  ASSUME FanoutTypeOK, [FanoutNext]_fanoutVars, ~robbed'
  PROVE  ~robbed
BY DEF FanoutTypeOK, FanoutNext, fanoutVars, TryLock, NameLock, ReadOwner, ProbeOwner, Evict,
       CountSlots, ClaimSlot, CommitBatch, UndoBatch, ReleaseLock, Leave, KillAdmitter

\* A committed batch stays as it was.
LEMMA CommittedStep ==
  ASSUME FanoutTypeOK, MadeApart, ~robbed => LockHeld /\ Claiming, Committed,
         ~robbed' => ~robbed, [FanoutNext]_fanoutVars
  PROVE  Committed'
<1> USE FanoutAssumption DEF FanoutTypeOK, Claiming, Committed, Goes
<1>1. ASSUME NEW p \in Admitters, TryLock(p) PROVE Committed'
  BY <1>1 DEF TryLock
<1>2. ASSUME NEW p \in Admitters, NameLock(p) PROVE Committed'
  BY <1>2 DEF NameLock
<1>3. ASSUME NEW p \in Admitters, ReadOwner(p) PROVE Committed'
  BY <1>3 DEF ReadOwner
<1>4. ASSUME NEW p \in Admitters, ProbeOwner(p) PROVE Committed'
  BY <1>4 DEF ProbeOwner
<1>5. ASSUME NEW p \in Admitters, Evict(p) PROVE Committed'
  BY <1>5 DEF Evict
<1>6. ASSUME NEW p \in Admitters, CountSlots(p) PROVE Committed'
  BY <1>6 DEF CountSlots
<1>7. ASSUME NEW p \in Admitters, ClaimSlot(p) PROVE Committed'
  BY <1>7 DEF ClaimSlot
<1>8. ASSUME NEW p \in Admitters, CommitBatch(p) PROVE Committed'
  BY <1>8 DEF CommitBatch
<1>9. ASSUME NEW p \in Admitters, UndoBatch(p) PROVE Committed'
  BY <1>9 DEF UndoBatch
<1>10. ASSUME NEW p \in Admitters, ReleaseLock(p) PROVE Committed'
  BY <1>10 DEF ReleaseLock
<1>11. ASSUME NEW p \in Admitters, Leave(p) PROVE Committed'
  BY <1>11 DEF Leave
<1>12. ASSUME NEW p \in Admitters, KillAdmitter(p) PROVE Committed'
  BY <1>12 DEF KillAdmitter
<1>13. CASE UNCHANGED fanoutVars
  BY <1>13 DEF fanoutVars
<1> QED
  BY <1>1, <1>2, <1>3, <1>4, <1>5, <1>6, <1>7, <1>8, <1>9, <1>10, <1>11, <1>12, <1>13
     DEF FanoutNext

\* The inductive invariant holds in every reachable state.
THEOREM FanoutInductive == FanoutSpec => []FanoutInv
<1>1. FanoutInit => FanoutInv
  <2> SUFFICES ASSUME FanoutInit PROVE FanoutInv
    OBVIOUS
  <2>1. FanoutTypeOK
    <3>1. gate \in [Admitters -> Gates] /\ kills \in 0..MaxKills
      BY FanoutAssumption DEF FanoutInit, Gates
    <3>2. made \in [Admitters -> SUBSET slots] /\ placed \in [Admitters -> Nat]
      BY DEF FanoutInit
    <3> QED
      BY <3>1, <3>2, FanoutAssumption DEF FanoutInit, FanoutTypeOK, Gates, Slots, Vacant,
         Unnamed
  <2>2. MadeApart /\ LockHeld /\ OneNames /\ Committed
    BY DEF FanoutInit, MadeApart, LockHeld, OneNames, Committed, InLock
  <2>3. Claiming
    BY DEF FanoutInit, Claiming
  <2> QED
    BY <2>1, <2>2, <2>3 DEF FanoutInv
<1>2. FanoutInv /\ [FanoutNext]_fanoutVars => FanoutInv'
  <2> SUFFICES ASSUME FanoutInv, [FanoutNext]_fanoutVars PROVE FanoutInv'
    OBVIOUS
  <2> USE DEF FanoutInv
  <2>1. FanoutTypeOK' /\ MadeApart'
    BY FanoutTypeStep
  <2>2. ~robbed' => ~robbed
    BY RobbedForGood
  <2>3. ~robbed' => LockHeld' /\ OneNames'
    BY LockStep
  <2>4. ~robbed' => Claiming'
    BY <2>2, ClaimingStep
  <2>5. Committed'
    BY <2>2, CommittedStep
  <2> QED
    BY <2>1, <2>3, <2>4, <2>5
<1> QED
  BY <1>1, <1>2, PTL DEF FanoutSpec

\* The variables keep their types in every behaviour of the budget.
THEOREM FanoutTypeCorrect == FanoutSpec => []FanoutTypeOK
<1>1. FanoutInv => FanoutTypeOK
  BY DEF FanoutInv
<1> QED
  BY <1>1, FanoutInductive, PTL

\* Every child of a committed batch has a slot file that no other process has made,
\* whoever fails or dies, as long as the lock is not taken from a live process
\* (run-fanout-budget.ts:181).
THEOREM FanoutAdmittedPaid == FanoutSpec => []AdmittedPaid
<1>1. FanoutInv => AdmittedPaid
  BY DEF FanoutInv, FanoutTypeOK, MadeApart, Committed, AdmittedPaid
<1> QED
  BY <1>1, FanoutInductive, PTL

\* The children of the committed batches, each with its number in its batch.
Children == {c \in Admitters \X Nat : c[1] \in started /\ c[2] \in 1..Batch[c[1]]}

\* When each committed batch has as many slot files as children, and no two share one,
\* there are no more children than slots, however the batches divide them.
LEMMA ChildrenFit ==
  ASSUME FanoutTypeOK, MadeApart, \A p \in started : Cardinality(made[p]) = Batch[p]
  PROVE  IsFiniteSet(Children) /\ Cardinality(Children) <= FanoutLimit
<1> DEFINE slotOf(p) == CHOOSE b : b \in Bijection(1..Batch[p], made[p])
           paid == [c \in Children |-> slotOf(c[1])[c[2]]]
<1>1. ASSUME NEW p \in started PROVE slotOf(p) \in Bijection(1..Batch[p], made[p])
  <2>1. made[p] \subseteq Slots
    BY DEF FanoutTypeOK
  <2>2. IsFiniteSet(made[p])
    BY <2>1, SlotsFinite
  <2>3. ExistsBijection(1..Batch[p], made[p])
    BY <2>2, FS_CardinalityType
  <2> QED
    BY <2>3 DEF ExistsBijection
<1> HIDE DEF slotOf
<1>2. ASSUME NEW p \in started
      PROVE  /\ slotOf(p) \in [1..Batch[p] -> made[p]]
             /\ \A i, j \in 1..Batch[p] : slotOf(p)[i] = slotOf(p)[j] => i = j
  <2>1. PICK b : b = slotOf(p) /\ b \in Bijection(1..Batch[p], made[p])
    BY <1>1
  <2>2. ASSUME NEW S, NEW T, b \in Bijection(S, T)
        PROVE  b \in [S -> T] /\ \A i, j \in S : b[i] = b[j] => i = j
    BY <2>2, Fun_BijectionProperties
  <2> QED
    BY <2>1, <2>2
<1>3. \A c \in Children : c[1] \in started /\ c[1] \in Admitters /\ c[2] \in 1..Batch[c[1]]
                          /\ c = <<c[1], c[2]>>
  BY DEF Children
<1>4. \A c \in Children : paid[c] = slotOf(c[1])[c[2]] /\ paid[c] \in made[c[1]] /\ paid[c] \in Slots
  BY <1>2, <1>3 DEF FanoutTypeOK
<1>5. ASSUME NEW c \in Children, NEW d \in Children, paid[c] = paid[d] PROVE c = d
  <2>1. c[1] = d[1]
    BY <1>3, <1>4, <1>5 DEF MadeApart
  <2>2. c[2] = d[2]
    BY <1>2, <1>3, <1>4, <1>5, <2>1
  <2> QED
    BY <1>3, <2>1, <2>2
<1>6. paid \in [Children -> Slots]
  BY <1>4
<1> HIDE DEF paid
<1>7. paid \in Injection(Children, Slots)
  BY <1>5, <1>6, Fun_IsInj
<1> QED
  BY <1>7, SlotsFinite, FS_Injection

\* No more children are started by the whole tree of a run than its limit says, in
\* batches of any sizes, whatever batches fail and whoever dies, as long as the lock is
\* not taken from a live process (run-fanout-budget.ts:181).
THEOREM FanoutWithinLimit ==
  FanoutSpec => [](~robbed => IsFiniteSet(Children) /\ Cardinality(Children) <= FanoutLimit)
<1>1. FanoutInv => (~robbed => IsFiniteSet(Children) /\ Cardinality(Children) <= FanoutLimit)
  BY ChildrenFit DEF FanoutInv, Committed
<1> QED
  BY <1>1, FanoutInductive, PTL

-----------------------------------------------------------------------------
(* External jobs *)

\* As long as no claim was given up a claim stays, so whoever is about to hand over the
\* prompt is the owner of the only claim there ever was.
OnlyClaim ==
  ~abandoned =>
    /\ starts <= 1
    /\ claim = NoClaim => starts = 0
    /\ \A h \in Hosts :
         /\ host[h] # "dropping"
         /\ host[h] = "claimed" => claim.owner = h /\ starts = 0

\* A host that answers has an outcome.
HasOutcome == \A h \in Hosts : host[h] = "answering" => outcome[h] # "none"

\* The runner has not taken an answer.
Awaiting == jobRunner \in {"waiting", "cancelling", "cancelled"}

\* A claim is given up with an answer in place, which keeps the others from giving one
\* up again; and while it is, nobody is about to hand over the prompt.
OneDrop ==
  Awaiting =>
    \A h \in Hosts :
      /\ host[h] = "claimed" => claim.owner = h
      /\ host[h] = "dropping" =>
           /\ answer # "none" /\ claim # NoClaim
           /\ \A g \in Hosts : host[g] # "claimed" /\ (host[g] = "dropping" => g = h)

\* The runner's own claim is complete, and nobody is about to act on an earlier one.
ClosedByRunner ==
  jobRunner = "cancelled" =>
    claim.done /\ \A h \in Hosts : host[h] \notin {"claimed", "dropping"}

JobInv == JobTypeOK /\ OnlyClaim /\ HasOutcome /\ OneDrop /\ ClosedByRunner

-----------------------------------------------------------------------------
\* Every step keeps the variables in their domains.
LEMMA JobTypeStep ==
  ASSUME JobTypeOK, [JobNext]_jobVars
  PROVE  JobTypeOK'
<1> USE HostAssumption DEF JobTypeOK, NoClaim, WriteInClaim, HostGoes
<1>1. ASSUME NEW h \in Hosts, ReadRequest(h) PROVE JobTypeOK'
  BY <1>1 DEF ReadRequest
<1>2. ASSUME NEW h \in Hosts, ClaimRequest(h) PROVE JobTypeOK'
  BY <1>2 DEF ClaimRequest
<1>3. ASSUME NEW h \in Hosts, Dispatch(h) PROVE JobTypeOK'
  <2>1. starts' \in Nat /\ outcome' \in [Hosts -> {"none", "job", "error"}]
    BY <1>3 DEF Dispatch
  <2>2. host' \in [Hosts -> {"idle", "read", "claimed", "starting", "answering", "completing",
                            "recovering", "dropping", "clearing", "dead"}]
    BY <1>3 DEF Dispatch
  <2> QED
    BY <1>3, <2>1, <2>2 DEF Dispatch
<1>4. ASSUME NEW h \in Hosts, ProviderReturns(h) PROVE JobTypeOK'
  <2>1. claim' \in [owner : Hosts \cup {"none", "nobody", "runner"}, handle : BOOLEAN,
                    done : BOOLEAN]
    <3>1. PICK dir : dir = IF claim = NoClaim THEN [NoClaim EXCEPT !.owner = "nobody"] ELSE claim
      OBVIOUS
    <3>2. dir \in [owner : Hosts \cup {"none", "nobody", "runner"}, handle : BOOLEAN, done : BOOLEAN]
      BY <3>1
    <3>3. claim' = [dir EXCEPT !.handle = TRUE] \/ claim' = claim
      BY <1>4, <3>1 DEF ProviderReturns
    <3> QED
      BY <3>2, <3>3
  <2>2. outcome' \in [Hosts -> {"none", "job", "error"}]
    BY <1>4 DEF ProviderReturns
  <2> QED
    BY <1>4, <2>1, <2>2 DEF ProviderReturns
<1>5. ASSUME NEW h \in Hosts, Respond(h) PROVE JobTypeOK'
  BY <1>5 DEF Respond
<1>6. ASSUME NEW h \in Hosts, Complete(h) PROVE JobTypeOK'
  BY <1>6 DEF Complete
<1>7. ASSUME NEW h \in Hosts, SettleClaim(h) PROVE JobTypeOK'
  BY <1>7 DEF SettleClaim
<1>8. ASSUME NEW h \in Hosts, DropClaim(h) PROVE JobTypeOK'
  BY <1>8 DEF DropClaim
<1>9. ASSUME NEW h \in Hosts, RemoveRequest(h) PROVE JobTypeOK'
  BY <1>9 DEF RemoveRequest
<1>10. ASSUME NEW h \in Hosts, HostDies(h) PROVE JobTypeOK'
  BY <1>10 DEF HostDies
<1>11. ASSUME AskToEnd PROVE JobTypeOK'
  BY <1>11 DEF AskToEnd
<1>12. ASSUME Poll PROVE JobTypeOK'
  BY <1>12 DEF Poll
<1>13. ASSUME CancelRequest PROVE JobTypeOK'
  <2>1. [owner |-> "runner", handle |-> FALSE, done |-> TRUE]
          \in [owner : Hosts \cup {"none", "nobody", "runner"}, handle : BOOLEAN, done : BOOLEAN]
    OBVIOUS
  <2> QED
    BY <1>13, <2>1 DEF CancelRequest
<1>14. ASSUME RunnerRemovesRequest PROVE JobTypeOK'
  BY <1>14 DEF RunnerRemovesRequest
<1>15. CASE UNCHANGED jobVars
  BY <1>15 DEF jobVars
<1> QED
  BY <1>1, <1>2, <1>3, <1>4, <1>5, <1>6, <1>7, <1>8, <1>9, <1>10, <1>11, <1>12, <1>13, <1>14,
     <1>15 DEF JobNext

\* Without a claim that is given up there is only one.
LEMMA OnlyClaimStep ==
  ASSUME JobTypeOK, OnlyClaim, [JobNext]_jobVars
  PROVE  OnlyClaim'
<1> USE HostAssumption DEF JobTypeOK, OnlyClaim, NoClaim, WriteInClaim, HostGoes
<1>1. ASSUME NEW h \in Hosts, ReadRequest(h) PROVE OnlyClaim'
  BY <1>1 DEF ReadRequest
<1>2. ASSUME NEW h \in Hosts, ClaimRequest(h) PROVE OnlyClaim'
  BY <1>2 DEF ClaimRequest
<1>3. ASSUME NEW h \in Hosts, Dispatch(h) PROVE OnlyClaim'
  BY <1>3 DEF Dispatch
<1>4. ASSUME NEW h \in Hosts, ProviderReturns(h) PROVE OnlyClaim'
  BY <1>4 DEF ProviderReturns
<1>5. ASSUME NEW h \in Hosts, Respond(h) PROVE OnlyClaim'
  BY <1>5 DEF Respond
<1>6. ASSUME NEW h \in Hosts, Complete(h) PROVE OnlyClaim'
  BY <1>6 DEF Complete
<1>7. ASSUME NEW h \in Hosts, SettleClaim(h) PROVE OnlyClaim'
  BY <1>7 DEF SettleClaim
<1>8. ASSUME NEW h \in Hosts, DropClaim(h) PROVE OnlyClaim'
  BY <1>8 DEF DropClaim
<1>9. ASSUME NEW h \in Hosts, RemoveRequest(h) PROVE OnlyClaim'
  BY <1>9 DEF RemoveRequest
<1>10. ASSUME NEW h \in Hosts, HostDies(h) PROVE OnlyClaim'
  BY <1>10 DEF HostDies
<1>11. ASSUME AskToEnd PROVE OnlyClaim'
  BY <1>11 DEF AskToEnd
<1>12. ASSUME Poll PROVE OnlyClaim'
  BY <1>12 DEF Poll
<1>13. ASSUME CancelRequest PROVE OnlyClaim'
  BY <1>13 DEF CancelRequest
<1>14. ASSUME RunnerRemovesRequest PROVE OnlyClaim'
  BY <1>14 DEF RunnerRemovesRequest
<1>15. CASE UNCHANGED jobVars
  BY <1>15 DEF jobVars
<1> QED
  BY <1>1, <1>2, <1>3, <1>4, <1>5, <1>6, <1>7, <1>8, <1>9, <1>10, <1>11, <1>12, <1>13, <1>14,
     <1>15 DEF JobNext

\* A host answers with the provider's outcome.
LEMMA HasOutcomeStep ==
  ASSUME JobTypeOK, HasOutcome, [JobNext]_jobVars
  PROVE  HasOutcome'
<1> USE HostAssumption DEF JobTypeOK, HasOutcome, HostGoes
<1>1. ASSUME NEW h \in Hosts, ReadRequest(h) PROVE HasOutcome'
  BY <1>1 DEF ReadRequest
<1>2. ASSUME NEW h \in Hosts, ClaimRequest(h) PROVE HasOutcome'
  BY <1>2 DEF ClaimRequest
<1>3. ASSUME NEW h \in Hosts, Dispatch(h) PROVE HasOutcome'
  BY <1>3 DEF Dispatch
<1>4. ASSUME NEW h \in Hosts, ProviderReturns(h) PROVE HasOutcome'
  BY <1>4 DEF ProviderReturns
<1>5. ASSUME NEW h \in Hosts, Respond(h) PROVE HasOutcome'
  BY <1>5 DEF Respond
<1>6. ASSUME NEW h \in Hosts, Complete(h) PROVE HasOutcome'
  BY <1>6 DEF Complete
<1>7. ASSUME NEW h \in Hosts, SettleClaim(h) PROVE HasOutcome'
  BY <1>7 DEF SettleClaim
<1>8. ASSUME NEW h \in Hosts, DropClaim(h) PROVE HasOutcome'
  BY <1>8 DEF DropClaim
<1>9. ASSUME NEW h \in Hosts, RemoveRequest(h) PROVE HasOutcome'
  BY <1>9 DEF RemoveRequest
<1>10. ASSUME NEW h \in Hosts, HostDies(h) PROVE HasOutcome'
  BY <1>10 DEF HostDies
<1>11. ASSUME AskToEnd PROVE HasOutcome'
  BY <1>11 DEF AskToEnd
<1>12. ASSUME Poll PROVE HasOutcome'
  BY <1>12 DEF Poll
<1>13. ASSUME CancelRequest PROVE HasOutcome'
  BY <1>13 DEF CancelRequest
<1>14. ASSUME RunnerRemovesRequest PROVE HasOutcome'
  BY <1>14 DEF RunnerRemovesRequest
<1>15. CASE UNCHANGED jobVars
  BY <1>15 DEF jobVars
<1> QED
  BY <1>1, <1>2, <1>3, <1>4, <1>5, <1>6, <1>7, <1>8, <1>9, <1>10, <1>11, <1>12, <1>13, <1>14,
     <1>15 DEF JobNext

\* A claim is given up by one host at a time.
LEMMA OneDropStep ==
  ASSUME JobTypeOK, OneDrop, HasOutcome, [JobNext]_jobVars
  PROVE  OneDrop'
<1> USE HostAssumption DEF JobTypeOK, OneDrop, HasOutcome, Awaiting, NoClaim,
        WriteInClaim, HostGoes, HostDead
<1>1. ASSUME NEW h \in Hosts, ReadRequest(h) PROVE OneDrop'
  BY <1>1 DEF ReadRequest
<1>2. ASSUME NEW h \in Hosts, ClaimRequest(h) PROVE OneDrop'
  BY <1>2 DEF ClaimRequest
<1>3. ASSUME NEW h \in Hosts, Dispatch(h) PROVE OneDrop'
  BY <1>3 DEF Dispatch
<1>4. ASSUME NEW h \in Hosts, ProviderReturns(h) PROVE OneDrop'
  BY <1>4 DEF ProviderReturns
<1>5. ASSUME NEW h \in Hosts, Respond(h) PROVE OneDrop'
  BY <1>5 DEF Respond
<1>6. ASSUME NEW h \in Hosts, Complete(h) PROVE OneDrop'
  BY <1>6 DEF Complete
<1>7. ASSUME NEW h \in Hosts, SettleClaim(h) PROVE OneDrop'
  BY <1>7 DEF SettleClaim
<1>8. ASSUME NEW h \in Hosts, DropClaim(h) PROVE OneDrop'
  BY <1>8 DEF DropClaim
<1>9. ASSUME NEW h \in Hosts, RemoveRequest(h) PROVE OneDrop'
  BY <1>9 DEF RemoveRequest
<1>10. ASSUME NEW h \in Hosts, HostDies(h) PROVE OneDrop'
  BY <1>10 DEF HostDies
<1>11. ASSUME AskToEnd PROVE OneDrop'
  BY <1>11 DEF AskToEnd
<1>12. ASSUME Poll PROVE OneDrop'
  BY <1>12 DEF Poll
<1>13. ASSUME CancelRequest PROVE OneDrop'
  BY <1>13 DEF CancelRequest
<1>14. ASSUME RunnerRemovesRequest PROVE OneDrop'
  BY <1>14 DEF RunnerRemovesRequest
<1>15. CASE UNCHANGED jobVars
  BY <1>15 DEF jobVars
<1> QED
  BY <1>1, <1>2, <1>3, <1>4, <1>5, <1>6, <1>7, <1>8, <1>9, <1>10, <1>11, <1>12, <1>13, <1>14,
     <1>15 DEF JobNext

\* The runner's claim stays.
LEMMA ClosedStep ==
  ASSUME JobTypeOK, OneDrop, ClosedByRunner, [JobNext]_jobVars
  PROVE  ClosedByRunner'
<1> USE HostAssumption DEF JobTypeOK, OneDrop, ClosedByRunner, Awaiting, NoClaim,
        WriteInClaim, HostGoes, HostDead
<1>1. ASSUME NEW h \in Hosts, ReadRequest(h) PROVE ClosedByRunner'
  BY <1>1 DEF ReadRequest
<1>2. ASSUME NEW h \in Hosts, ClaimRequest(h) PROVE ClosedByRunner'
  BY <1>2 DEF ClaimRequest
<1>3. ASSUME NEW h \in Hosts, Dispatch(h) PROVE ClosedByRunner'
  BY <1>3 DEF Dispatch
<1>4. ASSUME NEW h \in Hosts, ProviderReturns(h) PROVE ClosedByRunner'
  BY <1>4 DEF ProviderReturns
<1>5. ASSUME NEW h \in Hosts, Respond(h) PROVE ClosedByRunner'
  BY <1>5 DEF Respond
<1>6. ASSUME NEW h \in Hosts, Complete(h) PROVE ClosedByRunner'
  BY <1>6 DEF Complete
<1>7. ASSUME NEW h \in Hosts, SettleClaim(h) PROVE ClosedByRunner'
  BY <1>7 DEF SettleClaim
<1>8. ASSUME NEW h \in Hosts, DropClaim(h) PROVE ClosedByRunner'
  BY <1>8 DEF DropClaim
<1>9. ASSUME NEW h \in Hosts, RemoveRequest(h) PROVE ClosedByRunner'
  BY <1>9 DEF RemoveRequest
<1>10. ASSUME NEW h \in Hosts, HostDies(h) PROVE ClosedByRunner'
  BY <1>10 DEF HostDies
<1>11. ASSUME AskToEnd PROVE ClosedByRunner'
  BY <1>11 DEF AskToEnd
<1>12. ASSUME Poll PROVE ClosedByRunner'
  BY <1>12 DEF Poll
<1>13. ASSUME CancelRequest PROVE ClosedByRunner'
  BY <1>13 DEF CancelRequest
<1>14. ASSUME RunnerRemovesRequest PROVE ClosedByRunner'
  BY <1>14 DEF RunnerRemovesRequest
<1>15. CASE UNCHANGED jobVars
  BY <1>15 DEF jobVars
<1> QED
  BY <1>1, <1>2, <1>3, <1>4, <1>5, <1>6, <1>7, <1>8, <1>9, <1>10, <1>11, <1>12, <1>13, <1>14,
     <1>15 DEF JobNext

\* The inductive invariant holds in every reachable state.
THEOREM JobInductive == JobSpec => []JobInv
<1>1. JobInit => JobInv
  <2> SUFFICES ASSUME JobInit PROVE JobInv
    OBVIOUS
  <2>1. JobTypeOK
    BY DEF JobInit, JobTypeOK, NoClaim
  <2>2. OnlyClaim /\ HasOutcome /\ OneDrop /\ ClosedByRunner
    BY DEF JobInit, OnlyClaim, HasOutcome, OneDrop, ClosedByRunner
  <2> QED
    BY <2>1, <2>2 DEF JobInv
<1>2. JobInv /\ [JobNext]_jobVars => JobInv'
  BY HostAssumption, JobTypeStep, OnlyClaimStep, HasOutcomeStep, OneDropStep, ClosedStep
     DEF JobInv
<1> QED
  BY <1>1, <1>2, PTL DEF JobSpec

\* The variables keep their types in every behaviour of the bridge.
THEOREM JobTypeCorrect == JobSpec => []JobTypeOK
<1>1. JobInv => JobTypeOK
  BY DEF JobInv
<1> QED
  BY <1>1, JobInductive, PTL

\* However many hosts look at the request, and however late each acts on what it saw, the
\* prompt reaches the provider once at most, unless a claim was given up for its owner's
\* death (external-job-bridge.ts:413).
THEOREM JobDispatchedOnce == JobSpec => []DispatchedOnce
<1>1. JobInv => DispatchedOnce
  BY DEF JobInv, JobTypeOK, OnlyClaim, DispatchedOnce
<1> QED
  BY <1>1, JobInductive, PTL

\* After the runner has reported the cancellation no host starts the provider
\* (external-job-bridge.ts:499).
THEOREM JobCancelledNotDispatched == JobSpec => CancelledNotDispatched
<1>1. JobInv /\ [JobNext]_jobVars => [jobRunner = "cancelled" => starts' = starts]_jobVars
  <2> SUFFICES ASSUME ClosedByRunner, JobNext, jobRunner = "cancelled" PROVE starts' = starts
    BY DEF JobInv
  <2>1. ASSUME NEW h \in Hosts, Dispatch(h) PROVE FALSE
    BY <2>1 DEF Dispatch, ClosedByRunner
  <2> QED
    BY <2>1 DEF JobNext, ReadRequest, ClaimRequest, ProviderReturns, Respond, Complete,
       SettleClaim, DropClaim, RemoveRequest, HostDies, AskToEnd, Poll, CancelRequest,
       RunnerRemovesRequest
<1> QED
  BY <1>1, JobInductive, PTL DEF JobSpec, CancelledNotDispatched

-----------------------------------------------------------------------------
(* Scheduled runs *)

AnyRun == RunIds \cup {0}

Receipts == {"none", "claimed", "attached", "over"}

Directory == [exists : BOOLEAN, next : Times, active : AnyRun, paused : BOOLEAN, lock : AnyRun,
              history : Seq(AnyRun), receipt : [RunIds -> Receipts]]

Reasons == {"none", "timer", "due", "manual", "other", "stop", "restore"}

Handlers == [why : Reasons, rec : Copies, ops : Seq(Operations), arm : {"no", "next", "later"},
             run : AnyRun]

Launches == [run : RunIds, by : Managers, why : Reasons, rec : Copies]

\* A handler claims for a run, and deletes only what was to be deleted.
Sound(t) == (t.run = 0 => "claimed" \notin Left(t)) /\ ("delete" \in Left(t) => t.why = "stop")

\* The domains.
CountsTyped ==
  /\ time \in 0..MaxTime
  /\ trigger \in [kind : {"once", "interval"}, catchUp : {"none", "latest"}]
  /\ owns \subseteq Managers /\ bound \subseteq Managers
  /\ work \in [RunIds -> {"none", "executing", "ended"}]
  /\ reported \subseteq RunIds
  /\ launches \in 0..MaxLaunches /\ commands \in 0..MaxCommands
  /\ errors \in 0..MaxFireErrors /\ deaths \in 0..MaxProcessDeaths

StoreTyped == store \in Directory /\ Len(store.history) <= MaxHistory

FilesTyped ==
  CountsTyped /\ StoreTyped /\ timer \in [Managers -> Times] /\ launching \subseteq Launches

HandlersTyped == todo \in [Managers -> Handlers] /\ \A p \in Managers : Sound(todo[p])

ScheduleTyped == FilesTyped /\ HandlersTyped /\ unguarded \in BOOLEAN /\ stopped \in BOOLEAN

\* The lock is that of the run that goes on, as long as no handler has removed such a lock.
LockInv == ~unguarded => \A r \in RunIds : Going(r) => store.lock = r

\* A record by which a timer is armed.
Recurs(c) == ~c.paused /\ c.next # NoTime

\* A process of the schedule's session has a timer, awaits a launch, or will arm a timer.
TimerKept(p) ==
  \/ timer[p] # NoTime
  \/ \E l \in launching : l.by = p
  \/ todo[p].ops # <<>> /\ todo[p].arm # "no"

AllRecur ==
  /\ store.exists /\ Recurs(store)
  /\ \A p \in Managers : todo[p].ops # <<>> => Recurs(todo[p].rec)
  /\ \A l \in launching : Recurs(l.rec)
  /\ \A p \in bound \cap owns : TimerKept(p)

\* An interval schedule that was never to be stopped is armed, or about to be.
ArmedInv ==
  trigger.kind = "interval" /\ ~stopped => AllRecur /\ \A p \in Managers : todo[p].why # "stop"

\* The next occurrence is a time, and there is one for an interval.
LEMMA NextTyped ==
  ASSUME ScheduleTyped
  PROVE  /\ NoTime \in Times /\ Every \in Times /\ time + Every \in Times
         /\ NoTime # time + Every /\ NoTime # Every
         /\ \A n \in Times : /\ NextAfter(n) \in Times
                             /\ trigger.kind = "interval" => NextAfter(n) # NoTime
         /\ \A d : d.next \in Times =>
              /\ DuePlannedAt(d) \in Times
              /\ d.next # NoTime <=> DuePlannedAt(d) # NoTime
<1>1. time \in 0..MaxTime /\ MaxTime \in Nat
  BY ScheduleAssumption DEF ScheduleTyped, FilesTyped, CountsTyped
<1>2. \A n \in Times : n \in Int
  BY <1>1 DEF Times, NoTime, Every
<1>3. \A t \in 0..(MaxTime + 1) : t \in Times /\ t # NoTime
  BY <1>1 DEF Times, NoTime, Every
<1>4. \A n \in Times : n + Every * ((time - n) \div Every + 1) = time + Every
  <2> SUFFICES ASSUME NEW n \in Times PROVE n + 1 * ((time - n) \div 1 + 1) = time + 1
    BY DEF Every
  <2>1. time - n \in Int
    BY <1>1, <1>2
  <2>2. (time - n) \div 1 = time - n
    BY <2>1
  <2> QED
    BY <1>1, <1>2, <2>2
<1>5. \A n \in Times : NextAfter(n) = IF trigger.kind = "once" THEN NoTime ELSE time + Every
  BY <1>4 DEF NextAfter
<1>6. /\ NoTime \in Times /\ Every \in Times /\ time + Every \in Times
      /\ NoTime # time + Every /\ NoTime # Every
  BY <1>1 DEF Times, NoTime, Every
<1>7. \A n \in Times : /\ NextAfter(n) \in Times
                       /\ trigger.kind = "interval" => NextAfter(n) # NoTime
  BY <1>5, <1>6
<1>8. ASSUME NEW d, d.next \in Times
      PROVE  DuePlannedAt(d) \in Times /\ (d.next # NoTime <=> DuePlannedAt(d) # NoTime)
  <2>1. CASE Due(d) /\ trigger = [kind |-> "interval", catchUp |-> "latest"]
    <3>1. (time - d.next) \div 1 = time - d.next
      BY <1>1, <1>2, <1>8
    <3>2. DuePlannedAt(d) = time
      BY <1>1, <1>2, <1>8, <2>1, <3>1 DEF DuePlannedAt, Every
    <3> QED
      BY <1>1, <1>3, <2>1, <3>2 DEF Due
  <2>2. CASE ~(Due(d) /\ trigger = [kind |-> "interval", catchUp |-> "latest"])
    BY <1>8, <2>2 DEF DuePlannedAt
  <2> QED
    BY <2>1, <2>2
<1> QED
  BY <1>6, <1>7, <1>8

\* The records but one are among the records.
LEMMA OthersAmong ==
  ASSUME NEW h \in Seq(AnyRun), NEW r
  PROVE  /\ Others(h, r) \in Seq(AnyRun)
         /\ \A i \in 1..Len(Others(h, r)) : \E j \in 1..Len(h) : Others(h, r)[i] = h[j]
<1>1. CASE \E i \in 1..Len(h) : h[i] = r /\ r # 0
  <2> DEFINE at == CHOOSE i \in 1..Len(h) : h[i] = r
             before == SubSeq(h, 1, at - 1)
             after == SubSeq(h, at + 1, Len(h))
  <2>1. at \in 1..Len(h) /\ Len(h) \in Nat
    BY <1>1, LenProperties
  <2>2. Others(h, r) = before \o after
    BY <1>1 DEF Others
  <2>3. \A i \in 1..Len(h) : h[i] \in AnyRun
    BY ElementOfSeq
  <2> HIDE DEF at
  <2>4. /\ before \in Seq(AnyRun) /\ Len(before) = at - 1
        /\ \A i \in 1..(at - 1) : before[i] = h[i]
    <3>1. \A i \in 1..(at - 1) : h[i] \in AnyRun
      BY <2>1, <2>3
    <3>2. 1 \in Int /\ at - 1 \in Int
      BY <2>1
    <3>3. /\ SubSeq(h, 1, at - 1) \in Seq(AnyRun)
          /\ Len(SubSeq(h, 1, at - 1)) = IF 1 <= at - 1 THEN (at - 1) - 1 + 1 ELSE 0
          /\ \A i \in 1..((at - 1) - 1 + 1) : SubSeq(h, 1, at - 1)[i] = h[1 + i - 1]
      BY <3>1, <3>2, SubSeqProperties
    <3> QED
      BY <2>1, <3>3
  <2>5. /\ after \in Seq(AnyRun) /\ Len(after) = Len(h) - at
        /\ \A i \in 1..(Len(h) - at) : after[i] = h[at + i]
    <3>1. \A i \in (at + 1)..Len(h) : h[i] \in AnyRun
      BY <2>1, <2>3
    <3>2. at + 1 \in Int /\ Len(h) \in Int
      BY <2>1
    <3>3. /\ SubSeq(h, at + 1, Len(h)) \in Seq(AnyRun)
          /\ Len(SubSeq(h, at + 1, Len(h))) = IF at + 1 <= Len(h) THEN Len(h) - (at + 1) + 1 ELSE 0
          /\ \A i \in 1..(Len(h) - (at + 1) + 1) : SubSeq(h, at + 1, Len(h))[i] = h[at + 1 + i - 1]
      BY <3>1, <3>2, SubSeqProperties
    <3> QED
      BY <2>1, <3>3
  <2> HIDE DEF before, after
  <2>6. /\ before \o after \in Seq(AnyRun)
        /\ Len(before \o after) = Len(before) + Len(after)
        /\ \A i \in 1..(Len(before) + Len(after)) :
             (before \o after)[i] = IF i <= Len(before) THEN before[i] ELSE after[i - Len(before)]
    BY <2>4, <2>5, ConcatProperties
  <2>7. ASSUME NEW i \in 1..Len(before \o after)
        PROVE  \E j \in 1..Len(h) : (before \o after)[i] = h[j]
    <3>1. i \in 1..((at - 1) + (Len(h) - at))
      BY <2>1, <2>4, <2>5, <2>6
    <3>2. CASE i <= at - 1
      <4>1. (before \o after)[i] = h[i] /\ i \in 1..Len(h)
        BY <2>1, <2>4, <2>5, <2>6, <3>1, <3>2
      <4> QED
        BY <4>1
    <3>3. CASE ~(i <= at - 1)
      <4>1. i - (at - 1) \in 1..(Len(h) - at) /\ at + (i - (at - 1)) = i + 1 /\ i + 1 \in 1..Len(h)
        BY <2>1, <3>1, <3>3
      <4>2. (before \o after)[i] = h[i + 1]
        BY <2>1, <2>4, <2>5, <2>6, <3>1, <3>3, <4>1
      <4> QED
        BY <4>1, <4>2
    <3> QED
      BY <3>2, <3>3
  <2> QED
    BY <2>2, <2>6, <2>7
<1>2. CASE ~(\E i \in 1..Len(h) : h[i] = r /\ r # 0)
  BY <1>2 DEF Others
<1> QED
  BY <1>1, <1>2

Listed(d) == {d.history[i] : i \in DOMAIN d.history}

\* What writeRun leaves: the record is there, nothing else is new, and the rest of the
\* directory as it was.
LEMMA RecordedWritten ==
  ASSUME NEW d \in Directory, NEW r \in AnyRun
  PROVE  LET e == Recorded(d, r) IN
           /\ e \in Directory /\ Len(e.history) <= MaxHistory
           /\ e.exists = d.exists /\ e.next = d.next /\ e.active = d.active
           /\ e.paused = d.paused /\ e.lock = d.lock /\ e.receipt = d.receipt
           /\ r \in Listed(e) /\ Listed(e) \subseteq Listed(d) \cup {r}
<1> DEFINE others == Others(d.history, r)
           runs == <<r>> \o others
           kept == IF Len(runs) < MaxHistory THEN Len(runs) ELSE MaxHistory
<1>1. d.history \in Seq(AnyRun)
  BY DEF Directory
<1>2. /\ others \in Seq(AnyRun) /\ Len(others) \in Nat
      /\ \A i \in 1..Len(others) : \E j \in 1..Len(d.history) : others[i] = d.history[j]
  BY <1>1, OthersAmong, LenProperties
<1>3. <<r>> \in Seq(AnyRun) /\ Len(<<r>>) = 1 /\ <<r>>[1] = r
  OBVIOUS
<1>4. Recorded(d, r) = [d EXCEPT !.history = SubSeq(runs, 1, kept)]
  BY DEF Recorded
<1> HIDE DEF others
<1>5. /\ runs \in Seq(AnyRun) /\ Len(runs) = 1 + Len(others)
      /\ \A i \in 1..(1 + Len(others)) : runs[i] = IF i <= 1 THEN <<r>>[i] ELSE others[i - 1]
  <2>1. /\ runs \in Seq(AnyRun) /\ Len(runs) = Len(<<r>>) + Len(others)
        /\ \A i \in 1..(Len(<<r>>) + Len(others)) :
             runs[i] = IF i <= Len(<<r>>) THEN <<r>>[i] ELSE others[i - Len(<<r>>)]
    BY <1>2, <1>3, ConcatProperties
  <2> QED
    BY <2>1, <1>3
<1> HIDE DEF runs
<1>6. MaxHistory \in Nat \ {0}
  BY ScheduleAssumption
<1>7. kept \in 1..Len(runs) /\ kept <= MaxHistory
  BY <1>2, <1>5, <1>6
<1> HIDE DEF kept
<1>8. \A i \in 1..kept : runs[i] \in AnyRun
  BY <1>2, <1>5, <1>7, ElementOfSeq
<1>9. /\ SubSeq(runs, 1, kept) \in Seq(AnyRun) /\ Len(SubSeq(runs, 1, kept)) = kept
      /\ \A i \in 1..kept : SubSeq(runs, 1, kept)[i] = runs[i]
  <2>1. 1 \in Int /\ kept \in Int /\ kept >= 1
    BY <1>2, <1>5, <1>7
  <2>2. /\ SubSeq(runs, 1, kept) \in Seq(AnyRun)
        /\ Len(SubSeq(runs, 1, kept)) = IF 1 <= kept THEN kept - 1 + 1 ELSE 0
        /\ \A i \in 1..(kept - 1 + 1) : SubSeq(runs, 1, kept)[i] = runs[1 + i - 1]
    BY <1>8, <2>1, SubSeqProperties
  <2> QED
    BY <2>1, <2>2
<1> DEFINE new == SubSeq(runs, 1, kept)
<1>10. DOMAIN new = 1..kept /\ DOMAIN d.history = 1..Len(d.history)
  BY <1>1, <1>9, LenProperties
<1>11. new[1] = r /\ 1 \in DOMAIN new
  BY <1>2, <1>3, <1>5, <1>7, <1>9, <1>10
<1>12. \A i \in 1..kept : new[i] = r \/ new[i] \in Listed(d)
  <2> TAKE i \in 1..kept
  <2>1. i \in 1..(1 + Len(others)) /\ i \in Int
    BY <1>2, <1>5, <1>7
  <2>2. CASE i <= 1
    BY <1>3, <1>5, <1>9, <2>1, <2>2
  <2>3. CASE ~(i <= 1)
    <3>1. i - 1 \in 1..Len(others) /\ new[i] = others[i - 1]
      BY <1>2, <1>5, <1>9, <2>1, <2>3
    <3>2. PICK j \in 1..Len(d.history) : others[i - 1] = d.history[j]
      BY <1>2, <3>1
    <3> QED
      BY <1>10, <3>1, <3>2 DEF Listed
  <2> QED
    BY <2>2, <2>3
<1> HIDE DEF new
<1>13. Recorded(d, r) = [d EXCEPT !.history = new] /\ new \in Seq(AnyRun) /\ Len(new) <= MaxHistory
  BY <1>4, <1>7, <1>9 DEF new
<1>14. /\ [d EXCEPT !.history = new] \in Directory
       /\ [d EXCEPT !.history = new].history = new
  BY <1>13 DEF Directory
<1>15. Listed([d EXCEPT !.history = new]) = {new[i] : i \in 1..kept}
  BY <1>10, <1>14 DEF Listed
<1>16. r \in {new[i] : i \in 1..kept} /\ {new[i] : i \in 1..kept} \subseteq Listed(d) \cup {r}
  BY <1>10, <1>11, <1>12
<1>17. LET e == [d EXCEPT !.history = new] IN
         /\ e.exists = d.exists /\ e.next = d.next /\ e.active = d.active
         /\ e.paused = d.paused /\ e.lock = d.lock /\ e.receipt = d.receipt
  BY DEF Directory
<1> QED
  BY <1>13, <1>14, <1>15, <1>16, <1>17

-----------------------------------------------------------------------------
\* What a handler becomes: it claims for no other run, and deletes nothing new.
Continues(t, u) ==
  /\ u \in Handlers /\ u.why = t.why
  /\ "claimed" \in Left(u) => "claimed" \in Left(t) /\ u.run = t.run
  /\ "delete" \in Left(u) => "delete" \in Left(t)

\* It claims for nothing and deletes nothing.
Harmless(u) == u \in Handlers /\ "claimed" \notin Left(u) /\ "delete" \notin Left(u)

LEMMA HarmlessContinues ==
  ASSUME NEW t, NEW u, Harmless(u)
  PROVE  Sound(u) /\ (u.why = t.why => Continues(t, u)) /\ \A r : ~Claims(u, r)
BY DEF Harmless, Sound, Continues, Claims

\* A handler without its first operation.
LEMMA RestContinues ==
  ASSUME NEW t \in Handlers, t.ops # <<>>
  PROVE  /\ Continues(t, Rest(t)) /\ Head(t.ops) \in Left(t)
         /\ Rest(t).rec = t.rec /\ Rest(t).arm = t.arm /\ Rest(t).run = t.run
<1>1. t.ops \in Seq(Operations)
  BY DEF Handlers
<1>2. /\ Tail(t.ops) \in Seq(Operations) /\ Len(t.ops) \in Nat /\ Len(t.ops) >= 1
      /\ Len(Tail(t.ops)) = Len(t.ops) - 1
      /\ \A i \in 1..Len(Tail(t.ops)) : Tail(t.ops)[i] = t.ops[i + 1]
  BY <1>1, HeadTailProperties, EmptySeq, LenProperties
<1>3. DOMAIN t.ops = 1..Len(t.ops) /\ DOMAIN Tail(t.ops) = 1..Len(Tail(t.ops))
  BY <1>1, <1>2, LenProperties
<1>4. Left(Rest(t)) \subseteq Left(t)
  <2>1. Rest(t).ops = Tail(t.ops)
    BY DEF Rest, Handlers
  <2>2. \A i \in DOMAIN Tail(t.ops) : i + 1 \in DOMAIN t.ops /\ Tail(t.ops)[i] = t.ops[i + 1]
    BY <1>2, <1>3
  <2> QED
    BY <2>1, <2>2 DEF Left
<1>5. Head(t.ops) \in Left(t)
  <2>1. Head(t.ops) = t.ops[1] /\ 1 \in DOMAIN t.ops
    BY <1>1, <1>2, <1>3
  <2> QED
    BY <2>1 DEF Left
<1>6. /\ Rest(t) \in Handlers /\ Rest(t).why = t.why /\ Rest(t).rec = t.rec
      /\ Rest(t).arm = t.arm /\ Rest(t).run = t.run
  BY <1>2 DEF Rest, Handlers
<1> QED
  BY <1>4, <1>5, <1>6 DEF Continues

\* The lists of operations, but for those that claim or delete.
Lists == {<<>>, <<"claim">>, <<"judge">>, <<"complete">>, <<"write">>, <<"skipped">>, <<"attached">>,
          <<"write", "skipped">>, <<"miss", "skipped">>, <<"write", "judge">>, <<"write", "unlock">>,
          <<"attached", "satisfy">>, <<"write", "over", "unlock">>, <<"over", "write", "unlock">>,
          <<"write", "unlock", "over">>, <<"skipped">> \o <<"write", "unlock", "over">>}

LEMMA ListsHarmless ==
  ASSUME NEW ops \in Lists
  PROVE  ops \in Seq(Operations) /\ \A i \in DOMAIN ops : ops[i] \notin {"claimed", "delete"}
<1>1. CASE ops = <<>>
  BY <1>1 DEF Operations
<1>2. CASE ops = <<"claim">>
  BY <1>2 DEF Operations
<1>3. CASE ops = <<"judge">>
  BY <1>3 DEF Operations
<1>4. CASE ops = <<"complete">>
  BY <1>4 DEF Operations
<1>5. CASE ops = <<"write">>
  BY <1>5 DEF Operations
<1>6. CASE ops = <<"skipped">>
  BY <1>6 DEF Operations
<1>7. CASE ops = <<"attached">>
  BY <1>7 DEF Operations
<1>8. CASE ops = <<"write", "skipped">>
  BY <1>8 DEF Operations
<1>9. CASE ops = <<"miss", "skipped">>
  BY <1>9 DEF Operations
<1>10. CASE ops = <<"write", "judge">>
  BY <1>10 DEF Operations
<1>11. CASE ops = <<"write", "unlock">>
  BY <1>11 DEF Operations
<1>12. CASE ops = <<"attached", "satisfy">>
  BY <1>12 DEF Operations
<1>13. CASE ops = <<"write", "over", "unlock">>
  BY <1>13 DEF Operations
<1>14. CASE ops = <<"over", "write", "unlock">>
  BY <1>14 DEF Operations
<1>15. CASE ops = <<"write", "unlock", "over">>
  BY <1>15 DEF Operations
<1>16. CASE ops = <<"skipped">> \o <<"write", "unlock", "over">>
  BY <1>16 DEF Operations
<1> QED
  BY <1>1, <1>2, <1>3, <1>4, <1>5, <1>6, <1>7, <1>8, <1>9, <1>10, <1>11, <1>12, <1>13, <1>14, <1>15, <1>16 DEF Lists

\* A handler with such a list.
LEMMA HandlerHarmless ==
  ASSUME NEW why \in Reasons, NEW c \in Copies, NEW ops \in Lists,
         NEW arm \in {"no", "next", "later"}, NEW r \in AnyRun
  PROVE  Harmless(Handling(why, c, ops, arm, r))
<1>1. Handling(why, c, ops, arm, r) \in Handlers
  BY ListsHarmless DEF Handling, Handlers
<1>2. Left(Handling(why, c, ops, arm, r)) = {ops[i] : i \in DOMAIN ops}
  BY DEF Handling, Left
<1> QED
  BY <1>1, <1>2, ListsHarmless DEF Harmless

LEMMA IdleHarmless == Harmless(AtRest) /\ AtRest.ops = <<>> /\ AtRest.why = "none"
<1>1. [next |-> NoTime, active |-> 0, paused |-> FALSE] \in Copies /\ 0 \in AnyRun
  BY DEF Copies, Times, NoTime, AnyRun
<1>2. <<>> \in Lists /\ "none" \in Reasons /\ "no" \in {"no", "next", "later"}
  BY DEF Lists, Reasons
<1> QED
  BY <1>1, <1>2, HandlerHarmless DEF AtRest, Handling

-----------------------------------------------------------------------------
LEMMA AsReadTyped ==
  ASSUME NEW d \in Directory PROVE AsRead(d) \in Copies
BY DEF Directory, AsRead, Copies, AnyRun

LEMMA AdvancedTyped ==
  ASSUME ScheduleTyped, NEW c \in Copies
  PROVE  /\ Advanced(c) \in Copies /\ Advanced(c).paused = c.paused
         /\ trigger.kind = "interval" => Advanced(c).next # NoTime
<1>1. c.next \in Times
  BY DEF Copies
<1>2. NextAfter(DuePlannedAt(c)) \in Times /\ (trigger.kind = "interval" => NextAfter(DuePlannedAt(c)) # NoTime)
  BY <1>1, NextTyped
<1> QED
  BY <1>2 DEF Advanced, Copies

LEMMA SkipContinues ==
  ASSUME ScheduleTyped, NEW t \in Handlers
  PROVE  /\ Harmless(Skipping(t)) /\ Skipping(t).why = t.why /\ Skipping(t).arm = t.arm /\ Skipping(t).ops # <<>>
         /\ trigger.kind = "interval" /\ Recurs(t.rec) => Recurs(Skipping(t).rec)
<1>1. /\ t.why \in Reasons /\ t.rec \in Copies /\ t.arm \in {"no", "next", "later"} /\ t.run \in AnyRun
  BY DEF Handlers
<1>2. <<"skipped">> \in Lists /\ <<"write", "skipped">> \in Lists
  BY DEF Lists
<1>3. CASE t.why = "manual"
  <2>1. Skipping(t) = Handling(t.why, t.rec, <<"skipped">>, t.arm, t.run)
    BY <1>3 DEF Skipping, Handling, Handlers
  <2> QED
    BY <1>1, <1>2, <2>1, HandlerHarmless DEF Handling
<1>4. CASE t.why # "manual"
  <2>1. Skipping(t) = Handling(t.why, Advanced(t.rec), <<"write", "skipped">>, t.arm, t.run)
    BY <1>4 DEF Skipping, Handling, Handlers
  <2>2. Advanced(t.rec) \in Copies
    BY <1>1, AdvancedTyped
  <2>3. Harmless(Skipping(t))
    BY <1>1, <1>2, <2>1, <2>2, HandlerHarmless
  <2> QED
    BY <1>1, <2>1, <2>3, AdvancedTyped DEF Handling, Recurs
<1> QED
  BY <1>3, <1>4

LEMMA AttemptTyped ==
  ASSUME ScheduleTyped, NEW why \in Reasons
  PROVE  LET u == Attempt(why, store) IN
           /\ Harmless(u) /\ u.why = why /\ u.arm = "next" /\ u.ops # <<>>
           /\ trigger.kind = "interval" /\ Recurs(store) => Recurs(u.rec)
<1> DEFINE t == Handling(why, AsRead(store), <<"claim">>, "next", 0)
<1>1. Harmless(t) /\ t.why = why /\ t.arm = "next" /\ t.ops # <<>> /\ t.rec = AsRead(store)
  <2>1. AsRead(store) \in Copies
    BY AsReadTyped DEF ScheduleTyped, FilesTyped, StoreTyped
  <2>2. <<"claim">> \in Lists /\ 0 \in AnyRun
    BY DEF Lists, AnyRun
  <2> QED
    BY <2>1, <2>2, HandlerHarmless DEF Handling
<1>2. Recurs(store) => Recurs(t.rec)
  BY <1>1 DEF Recurs, AsRead
<1> HIDE DEF t
<1>3. t \in Handlers
  BY <1>1 DEF Harmless
<1>4. PICK s : s = t
  OBVIOUS
<1>5. /\ Harmless(Skipping(s)) /\ Skipping(s).why = s.why /\ Skipping(s).arm = s.arm /\ Skipping(s).ops # <<>>
      /\ trigger.kind = "interval" /\ Recurs(s.rec) => Recurs(Skipping(s).rec)
  BY <1>3, <1>4, SkipContinues
<1>6. Attempt(why, store) = IF store.active # 0 THEN Skipping(t) ELSE t
  BY DEF Attempt, t
<1> QED
  BY <1>1, <1>2, <1>4, <1>5, <1>6

LEMMA FinishingTyped ==
  ASSUME ScheduleTyped, NEW t \in Handlers, NEW r \in AnyRun
  PROVE  LET u == Finishing(t, r) IN
           /\ Harmless(u) /\ u.why = t.why /\ u.arm # "no" /\ u.ops # <<>>
           /\ trigger.kind = "interval" /\ Recurs(t.rec) => Recurs(u.rec)
<1> DEFINE c == [(IF Due(t.rec) THEN Advanced(t.rec) ELSE t.rec) EXCEPT !.active = 0]
           arm == IF t.arm = "no" THEN "next" ELSE t.arm
           given == <<"write", "unlock", "over">>
           ops == IF Due(t.rec) THEN <<"skipped">> \o given ELSE given
<1>1. t.why \in Reasons /\ t.rec \in Copies /\ t.arm \in {"no", "next", "later"}
  BY DEF Handlers
<1>2. Finishing(t, r) = Handling(t.why, c, ops, arm, r)
  <2>1. Finishing(t, r) = [t EXCEPT !.rec = c, !.run = r, !.arm = arm, !.ops = ops]
    BY DEF Finishing
  <2> HIDE DEF c, arm, ops
  <2> QED
    BY <2>1 DEF Handling, Handlers
<1>3. /\ c \in Copies
      /\ trigger.kind = "interval" /\ Recurs(t.rec) => Recurs(c)
  <2>1. PICK b : b = IF Due(t.rec) THEN Advanced(t.rec) ELSE t.rec
    OBVIOUS
  <2>2. b \in Copies /\ (trigger.kind = "interval" /\ Recurs(t.rec) => Recurs(b))
    BY <1>1, <2>1, AdvancedTyped DEF Recurs
  <2>3. [b EXCEPT !.active = 0] \in Copies /\ (Recurs(b) => Recurs([b EXCEPT !.active = 0]))
    BY <2>2 DEF Copies, Recurs
  <2> QED
    BY <2>1, <2>2, <2>3
<1>4. ops \in Lists /\ ops # <<>>
  BY DEF Lists
<1>5. arm \in {"no", "next", "later"} /\ arm # "no"
  BY <1>1
<1> HIDE DEF c, arm, ops
<1>6. Harmless(Handling(t.why, c, ops, arm, r))
  BY <1>1, <1>3, <1>4, <1>5, HandlerHarmless
<1>7. /\ Handling(t.why, c, ops, arm, r).why = t.why /\ Handling(t.why, c, ops, arm, r).arm = arm
      /\ Handling(t.why, c, ops, arm, r).ops = ops /\ Handling(t.why, c, ops, arm, r).rec = c
  BY DEF Handling
<1> QED
  BY <1>2, <1>3, <1>4, <1>5, <1>6, <1>7

\* restoreOne's handler after the look at the claim.
LEMMA RestoringContinues ==
  ASSUME ScheduleTyped, NEW t \in Handlers, NEW s, Continues(s, t)
  PROVE  /\ Continues(s, Restoring(t)) /\ Restoring(t).rec = t.rec
         /\ Recurs(t.rec) => Restoring(t).arm = t.arm
<1> DEFINE longer == t.ops \o <<"miss", "skipped">>
<1>1. t.ops \in Seq(Operations) /\ <<"miss", "skipped">> \in Seq(Operations)
  BY DEF Handlers, Operations
<1>2. CASE t.arm = "no" \/ t.rec.paused \/ t.rec.next = NoTime
  <2>1. Restoring(t) = [t EXCEPT !.arm = "no"]
    BY <1>2 DEF Restoring
  <2>2. [t EXCEPT !.arm = "no"] \in Handlers
    BY DEF Handlers
  <2>3. /\ Left([t EXCEPT !.arm = "no"]) = Left(t) /\ [t EXCEPT !.arm = "no"].why = t.why
        /\ [t EXCEPT !.arm = "no"].run = t.run /\ [t EXCEPT !.arm = "no"].rec = t.rec
        /\ [t EXCEPT !.arm = "no"].arm = "no"
    BY DEF Left, Handlers
  <2> QED
    BY <1>2, <2>1, <2>2, <2>3 DEF Continues, Recurs
<1>3. CASE /\ ~(t.arm = "no" \/ t.rec.paused \/ t.rec.next = NoTime)
           /\ t.rec.active = 0 /\ t.rec.next < time /\ trigger.catchUp = "none"
  <2>1. Restoring(t) = [t EXCEPT !.ops = longer]
    BY <1>3 DEF Restoring
  <2>2. /\ longer \in Seq(Operations)
        /\ \A i \in DOMAIN longer : (\E j \in DOMAIN t.ops : longer[i] = t.ops[j]) \/ longer[i] \in {"miss", "skipped"}
    <3>1. /\ longer \in Seq(Operations) /\ Len(longer) = Len(t.ops) + 2
          /\ \A i \in 1..Len(longer) : longer[i] = IF i <= Len(t.ops) THEN t.ops[i] ELSE <<"miss", "skipped">>[i - Len(t.ops)]
      BY <1>1, ConcatProperties
    <3>2. DOMAIN longer = 1..Len(longer) /\ DOMAIN t.ops = 1..Len(t.ops) /\ Len(t.ops) \in Nat
      BY <1>1, <3>1, LenProperties
    <3> HIDE DEF longer
    <3>3. ASSUME NEW i \in DOMAIN longer, ~(i <= Len(t.ops)) PROVE longer[i] \in {"miss", "skipped"}
      <4>1. i - Len(t.ops) \in 1..2 /\ longer[i] = <<"miss", "skipped">>[i - Len(t.ops)]
        BY <3>1, <3>2, <3>3
      <4> QED
        BY <4>1
    <3>4. ASSUME NEW i \in DOMAIN longer, i <= Len(t.ops) PROVE i \in DOMAIN t.ops /\ longer[i] = t.ops[i]
      BY <3>1, <3>2, <3>4
    <3> QED
      BY <3>1, <3>3, <3>4
  <2> HIDE DEF longer
  <2>3. [t EXCEPT !.ops = longer] \in Handlers
    BY <2>2 DEF Handlers
  <2>4. /\ [t EXCEPT !.ops = longer].ops = longer /\ [t EXCEPT !.ops = longer].why = t.why
        /\ [t EXCEPT !.ops = longer].run = t.run /\ [t EXCEPT !.ops = longer].rec = t.rec
        /\ [t EXCEPT !.ops = longer].arm = t.arm
    BY DEF Handlers
  <2>5. \A x \in {"claimed", "delete"} : x \in Left([t EXCEPT !.ops = longer]) => x \in Left(t)
    BY <2>2, <2>4 DEF Left
  <2> QED
    BY <2>1, <2>3, <2>4, <2>5 DEF Continues
<1>4. CASE /\ ~(t.arm = "no" \/ t.rec.paused \/ t.rec.next = NoTime)
           /\ ~(t.rec.active = 0 /\ t.rec.next < time /\ trigger.catchUp = "none")
  BY <1>4 DEF Restoring
<1> QED
  BY <1>2, <1>3, <1>4

LEMMA JudgedContinues ==
  ASSUME ScheduleTyped, NEW t \in Handlers, t.ops # <<>>, NEW u \in Judged(t)
  PROVE  /\ Continues(t, u)
         /\ trigger.kind = "interval" /\ Recurs(t.rec) => Recurs(u.rec) /\ (t.arm # "no" => u.arm # "no")
<1> DEFINE Fine(v) == /\ Continues(t, v)
                      /\ trigger.kind = "interval" /\ Recurs(t.rec)
                           => Recurs(v.rec) /\ (t.arm # "no" => v.arm # "no")
<1>1. Fine(Restoring(Rest(t)))
  <2>1. Continues(t, Rest(t)) /\ Rest(t).rec = t.rec /\ Rest(t).arm = t.arm /\ Rest(t) \in Handlers
    BY RestContinues DEF Continues
  <2>2. PICK v : v = Rest(t)
    OBVIOUS
  <2>3. Continues(t, Restoring(v)) /\ Restoring(v).rec = v.rec /\ (Recurs(v.rec) => Restoring(v).arm = v.arm)
    BY <2>1, <2>2, RestoringContinues
  <2> QED
    BY <2>1, <2>2, <2>3
<1>2. ASSUME NEW ops \in {<<"write", "unlock">>, <<"over", "write", "unlock">>}
      PROVE  Fine(Restoring(GivingUp(t, ops)))
  <2>1. t.why \in Reasons /\ t.rec \in Copies /\ t.arm \in {"no", "next", "later"} /\ t.rec.active \in AnyRun
    BY DEF Handlers, Copies, AnyRun
  <2>2. PICK c : c = [t.rec EXCEPT !.active = 0]
    OBVIOUS
  <2>3. c \in Copies /\ (Recurs(t.rec) => Recurs(c))
    BY <2>1, <2>2 DEF Copies, Recurs
  <2>4. PICK v : v = GivingUp(t, ops)
    OBVIOUS
  <2>5. v = Handling(t.why, c, ops, t.arm, t.rec.active)
    <3>1. v = [t EXCEPT !.rec = [t.rec EXCEPT !.active = 0], !.run = t.rec.active, !.ops = ops]
      BY <2>4 DEF GivingUp, Handlers
    <3> QED
      BY <2>2, <3>1 DEF Handling, Handlers
  <2>6. ops \in Lists
    BY DEF Lists
  <2>7. Harmless(v)
    BY <2>1, <2>3, <2>5, <2>6, HandlerHarmless
  <2>8. v.why = t.why /\ v.rec = c /\ v.arm = t.arm /\ v \in Handlers
    BY <2>5, <2>7 DEF Handling, Harmless
  <2>9. Continues(t, v)
    BY <2>7, <2>8 DEF Harmless, Continues
  <2>10. Continues(t, Restoring(v)) /\ Restoring(v).rec = v.rec /\ (Recurs(v.rec) => Restoring(v).arm = v.arm)
    BY <2>8, <2>9, RestoringContinues
  <2> QED
    BY <2>3, <2>4, <2>8, <2>10
<1>3. Fine(Finishing(t, t.rec.active))
  <2>1. PICK r : r = t.rec.active
    OBVIOUS
  <2>2. r \in AnyRun
    BY <2>1 DEF Handlers, Copies, AnyRun
  <2>3. /\ Harmless(Finishing(t, r)) /\ Finishing(t, r).why = t.why /\ Finishing(t, r).arm # "no"
        /\ trigger.kind = "interval" /\ Recurs(t.rec) => Recurs(Finishing(t, r).rec)
    BY <2>2, FinishingTyped
  <2> QED
    BY <2>1, <2>3 DEF Harmless, Continues
<1>4. \/ u = Restoring(Rest(t)) \/ u = Finishing(t, t.rec.active)
      \/ \E ops \in {<<"write", "unlock">>, <<"over", "write", "unlock">>} : u = Restoring(GivingUp(t, ops))
  BY DEF Judged
<1> HIDE DEF Fine
<1>5. Fine(u)
  BY <1>1, <1>2, <1>3, <1>4
<1> QED
  BY <1>5 DEF Fine

-----------------------------------------------------------------------------
\* What a process's handler becomes.
Fresh(t) == t \in Handlers /\ Sound(t) /\ "claimed" \notin Left(t)
Follows(p, t) == /\ todo' = [todo EXCEPT ![p] = t]
                 /\ Continues(todo[p], t) \/ Harmless(t) \/ Fresh(t)

LEMMA ArmTyped ==
  ASSUME ScheduleTyped, NEW p \in Managers, NEW t \in Handlers, Arm(p, t)
  PROVE  /\ timer' \in [Managers -> Times] /\ \A q \in Managers \ {p} : timer'[q] = timer[q]
         /\ t.arm = "no" => timer'[p] = timer[p]
         /\ trigger.kind = "interval" /\ Recurs(t.rec) /\ t.arm # "no" => timer'[p] # NoTime
<1> DEFINE at == IF t.arm = "no" THEN timer[p]
                 ELSE IF t.rec.paused THEN NoTime
                 ELSE IF t.arm = "later" /\ Due(t.rec) THEN NextAfter(DuePlannedAt(t.rec))
                 ELSE t.rec.next
<1>1. timer \in [Managers -> Times]
  BY DEF ScheduleTyped, FilesTyped
<1>2. t.rec.next \in Times
  BY DEF Handlers, Copies
<1>3. /\ NextAfter(DuePlannedAt(t.rec)) \in Times /\ NoTime \in Times
      /\ trigger.kind = "interval" => NextAfter(DuePlannedAt(t.rec)) # NoTime
  <2>1. DuePlannedAt(t.rec) \in Times
    BY <1>2, NextTyped
  <2> QED
    BY <2>1, NextTyped
<1>4. at \in Times /\ (trigger.kind = "interval" /\ Recurs(t.rec) /\ t.arm # "no" => at # NoTime)
  BY <1>1, <1>2, <1>3 DEF Recurs
<1>5. timer' = [timer EXCEPT ![p] = at]
  BY <1>1 DEF Arm
<1> HIDE DEF at
<1>6. timer' \in [Managers -> Times] /\ timer'[p] = at /\ \A q \in Managers \ {p} : timer'[q] = timer[q]
  BY <1>1, <1>4, <1>5
<1> QED
  BY <1>4, <1>6 DEF at

LEMMA GoesOnFollows ==
  ASSUME ScheduleTyped, NEW p \in Managers, NEW t, Continues(todo[p], t) \/ Harmless(t), GoesOn(p, t)
  PROVE  timer' \in [Managers -> Times] /\ \E u : Follows(p, u)
<1>1. t \in Handlers
  BY DEF Continues, Harmless
<1>2. CASE t.ops = <<>>
  BY <1>1, <1>2, ArmTyped, IdleHarmless DEF GoesOn, Starts, Follows
<1>3. CASE t.ops # <<>>
  BY <1>3 DEF GoesOn, Starts, Follows, ScheduleTyped, FilesTyped
<1> QED
  BY <1>2, <1>3

-----------------------------------------------------------------------------
\* The clock, the counters and the processes.
LEMMA CountsStep ==
  ASSUME ScheduleTyped, ScheduleNext
  PROVE  CountsTyped'
<1>1. CountsTyped
  BY DEF ScheduleTyped, FilesTyped
<1>2. /\ MaxTime \in Nat /\ MaxLaunches \in Nat /\ MaxCommands \in Nat
      /\ MaxFireErrors \in Nat /\ MaxProcessDeaths \in Nat
  BY ScheduleAssumption
<1>3. ASSUME NEW p \in Managers, BindSession(p) \/ Fire(p) \/ RunManual(p) \/ RunDue(p)
                                   \/ Pause(p) \/ ResumeSchedule(p) \/ Delete(p)
      PROVE  CountsTyped'
  BY <1>1, <1>2, <1>3 DEF CountsTyped, BindSession, Fire, RunManual, RunDue, Pause, ResumeSchedule,
                          Delete, Commanded
<1>4. ASSUME NEW p \in Managers, WriteRecord(p) \/ RemoveLock(p) \/ NoteSkipped(p) \/ NoteOver(p)
                                   \/ Miss(p) \/ NoteClaimed(p) \/ NoteAttached(p) \/ Satisfy(p)
      PROVE  CountsTyped'
  BY <1>1, <1>4 DEF CountsTyped, WriteRecord, RemoveLock, NoteSkipped, NoteOver, Miss, NoteClaimed,
                    NoteAttached, Satisfy
<1>5. ASSUME NEW p \in Managers, Judge(p) \/ CompleteRun(p) \/ DeleteFiles(p) \/ FireFails(p)
                                   \/ Die(p) \/ \E r \in RunIds : CompleteScheduled(p, r)
      PROVE  CountsTyped'
  BY <1>1, <1>2, <1>5 DEF CountsTyped, Judge, CompleteRun, DeleteFiles, FireFails, Die, CompleteScheduled
<1>6. ASSUME NEW p \in Managers, Claim(p) PROVE CountsTyped'
  BY <1>1, <1>2, <1>6 DEF CountsTyped, Claim
<1>7. ASSUME NEW l \in launching, StartWork(l) \/ LaunchReturns(l) \/ LaunchFails(l) PROVE CountsTyped'
  <2>1. l.run \in RunIds
    BY DEF ScheduleTyped, FilesTyped, Launches
  <2> QED
    BY <1>1, <1>7, <2>1 DEF CountsTyped, StartWork, LaunchReturns, LaunchFails
<1>8. ASSUME NEW r \in RunIds, RunEnds(r) PROVE CountsTyped'
  BY <1>1, <1>8 DEF CountsTyped, RunEnds
<1>9. CASE Tick
  BY <1>1, <1>2, <1>9 DEF CountsTyped, Tick
<1> QED
  BY <1>3, <1>4, <1>5, <1>6, <1>7, <1>8, <1>9 DEF ScheduleNext

\* Writing the record.
LEMMA WrittenTyped ==
  ASSUME StoreTyped, NEW c \in Copies
  PROVE  LET e == Written(store, c) IN
           /\ e \in Directory /\ Len(e.history) <= MaxHistory /\ e.lock = store.lock
           /\ e.exists /\ e.next = c.next /\ e.paused = c.paused
BY DEF StoreTyped, Directory, Copies, Written, AnyRun

\* writeRun, with a receipt.
LEMMA NotedTyped ==
  ASSUME StoreTyped, NEW r \in AnyRun, NEW what \in Receipts, NEW d \in {store, [store EXCEPT !.receipt[r] = what]}
  PROVE  LET e == Recorded(d, r) IN
           /\ e \in Directory /\ Len(e.history) <= MaxHistory /\ e.lock = store.lock
           /\ e.exists = store.exists /\ e.next = store.next /\ e.paused = store.paused
<1>1. d \in Directory /\ d.lock = store.lock /\ d.exists = store.exists /\ d.next = store.next
      /\ d.paused = store.paused
  BY DEF StoreTyped, Directory
<1> QED
  BY <1>1, RecordedWritten

\* What an operation on the files leaves.
FilesLeft ==
  /\ StoreTyped' /\ store'.lock \in {store.lock, 0}
  /\ timer' \in [Managers -> Times] /\ launching' \subseteq launching /\ work' = work

\* The steps of a process other than a claim and the beginning and end of a launch.
Ordinary(p) ==
  \/ BindSession(p) \/ Fire(p) \/ RunManual(p) \/ RunDue(p)
  \/ Pause(p) \/ ResumeSchedule(p) \/ Delete(p)
  \/ WriteRecord(p) \/ RemoveLock(p) \/ NoteSkipped(p) \/ NoteOver(p) \/ Miss(p)
  \/ NoteAttached(p) \/ Satisfy(p) \/ Judge(p)
  \/ CompleteRun(p) \/ DeleteFiles(p) \/ FireFails(p) \/ Die(p)
  \/ \E r \in RunIds : CompleteScheduled(p, r)

LEMMA OrdinaryStep ==
  ASSUME ScheduleTyped, NEW p \in Managers, Ordinary(p)
  PROVE  FilesLeft /\ (todo' = todo \/ \E t : Follows(p, t))
<1>1. /\ StoreTyped /\ timer \in [Managers -> Times] /\ todo[p] \in Handlers /\ store \in Directory
      /\ todo[p].rec \in Copies /\ todo[p].run \in AnyRun /\ todo[p].why \in Reasons
  BY DEF ScheduleTyped, FilesTyped, HandlersTyped, StoreTyped, Handlers
<1>2. NoTime \in Times
  BY NextTyped
<1>3. AsRead(store) \in Copies /\ store.active \in AnyRun
  BY <1>1, AsReadTyped DEF Directory
<1>4. todo[p].ops # <<>> => /\ Continues(todo[p], Rest(todo[p])) /\ Rest(todo[p]).rec = todo[p].rec
                            /\ Head(todo[p].ops) \in Left(todo[p])
  BY <1>1, RestContinues
<1>5. /\ {<<"judge">>, <<"miss", "skipped">>, <<"write">>, <<"write", "judge">>, <<"complete">>} \subseteq Lists
      /\ {"other", "due", "stop", "manual", "restore", "timer"} \subseteq Reasons
      /\ 0 \in AnyRun /\ RunIds \subseteq AnyRun
  BY DEF Lists, Reasons, AnyRun
<1>6. ASSUME NEW e, e \in Directory, Len(e.history) <= MaxHistory, e.lock \in {store.lock, 0},
             store' = e, timer' \in [Managers -> Times], launching' = launching, work' = work
      PROVE  FilesLeft
  BY <1>6 DEF FilesLeft, StoreTyped
<1>7. ASSUME store' = store, timer' \in [Managers -> Times], launching' \subseteq launching, work' = work
      PROVE  FilesLeft
  BY <1>1, <1>7 DEF FilesLeft, StoreTyped
<1>8. CASE BindSession(p)
  <2>1. Harmless(Handling("other", AsRead(store), <<"judge">>, "next", 0))
    BY <1>3, <1>5, HandlerHarmless
  <2> QED
    BY <1>1, <1>7, <1>8, <2>1 DEF BindSession, Starts, Follows
<1>9. CASE Fire(p)
  <2>1. Harmless(Attempt("timer", store))
    BY <1>5, AttemptTyped
  <2>2. timer' \in [Managers -> Times]
    BY <1>1, <1>2, <1>9 DEF Fire, Arm, Directory
  <2> QED
    BY <1>1, <1>7, <1>9, <2>1, <2>2 DEF Fire, Starts, Follows
<1>10. CASE RunManual(p)
  <2>1. Harmless(Attempt("manual", store))
    BY <1>5, AttemptTyped
  <2> QED
    BY <1>1, <1>7, <1>10, <2>1 DEF RunManual, Starts, Follows
<1>11. CASE RunDue(p)
  <2>1. Harmless(Attempt("due", store))
    BY <1>5, AttemptTyped
  <2>2. Harmless(Handling("due", AsRead(store), <<"miss", "skipped">>, "no", 0))
    BY <1>3, <1>5, HandlerHarmless
  <2> QED
    BY <1>1, <1>7, <1>11, <2>1, <2>2 DEF RunDue, Starts, Follows
<1>12. CASE Pause(p)
  <2>1. [AsRead(store) EXCEPT !.paused = TRUE] \in Copies
    BY <1>3 DEF Copies
  <2>2. PICK c : c = [AsRead(store) EXCEPT !.paused = TRUE]
    OBVIOUS
  <2>3. Harmless(Handling("stop", c, <<"write">>, "next", 0))
    BY <1>5, <2>1, <2>2, HandlerHarmless
  <2> QED
    BY <1>1, <1>7, <1>12, <2>2, <2>3 DEF Pause, Starts, Follows
<1>13. CASE ResumeSchedule(p)
  <2>1. [AsRead(store) EXCEPT !.paused = FALSE] \in Copies
    BY <1>3 DEF Copies
  <2>2. PICK c : c = [AsRead(store) EXCEPT !.paused = FALSE]
    OBVIOUS
  <2>3. /\ Harmless(Handling("other", c, <<"write", "judge">>, "next", 0))
        /\ Harmless(Handling("other", c, <<"write">>, "no", 0))
    BY <1>5, <2>1, <2>2, HandlerHarmless
  <2> QED
    BY <1>1, <1>7, <1>13, <2>2, <2>3 DEF ResumeSchedule, Starts, Follows
<1>14. CASE Delete(p)
  <2>1. timer' \in [Managers -> Times]
    BY <1>1, <1>2, <1>14 DEF Delete
  <2>2. Fresh(Handling("stop", AsRead(store), <<"delete">>, "no", 0))
    BY <1>3, <1>5 DEF Fresh, Handlers, Handling, Sound, Left, Operations
  <2> QED
    BY <1>1, <1>7, <1>14, <2>1, <2>2 DEF Delete, Starts, Follows
<1>15. CASE WriteRecord(p)
  <2>1. todo[p].ops # <<>>
    BY <1>15 DEF WriteRecord, Does
  <2>2. timer' \in [Managers -> Times] /\ \E u : Follows(p, u)
    <3>1. PICK t : t = Rest(todo[p])
      OBVIOUS
    <3> QED
      BY <1>4, <1>15, <2>1, <3>1, GoesOnFollows DEF WriteRecord
  <2>3. store' = Written(store, todo[p].rec)
    BY <1>15 DEF WriteRecord
  <2>4. FilesLeft
    BY <1>1, <1>6, <1>15, <2>2, <2>3, WrittenTyped DEF WriteRecord
  <2> QED
    BY <2>2, <2>4
<1>16. CASE RemoveLock(p)
  <2>1. todo[p].ops # <<>>
    BY <1>16 DEF RemoveLock, Does
  <2>2. timer' \in [Managers -> Times] /\ \E u : Follows(p, u)
    <3>1. PICK t : t = Rest(todo[p])
      OBVIOUS
    <3> QED
      BY <1>4, <1>16, <2>1, <3>1, GoesOnFollows DEF RemoveLock
  <2>3. [store EXCEPT !.lock = 0] \in Directory /\ [store EXCEPT !.lock = 0].lock = 0
        /\ [store EXCEPT !.lock = 0].history = store.history
    BY <1>1, <1>5 DEF Directory
  <2>4. FilesLeft
    BY <1>1, <1>6, <1>16, <2>2, <2>3 DEF RemoveLock, StoreTyped
  <2> QED
    BY <2>2, <2>4
<1>17. CASE NoteSkipped(p)
  <2>1. todo[p].ops # <<>>
    BY <1>17 DEF NoteSkipped, Does
  <2>2. timer' \in [Managers -> Times] /\ \E u : Follows(p, u)
    <3>1. PICK t : t = Rest(todo[p])
      OBVIOUS
    <3> QED
      BY <1>4, <1>17, <2>1, <3>1, GoesOnFollows DEF NoteSkipped
  <2>3. PICK e : e = Recorded(store, 0)
    OBVIOUS
  <2>4. e \in Directory /\ Len(e.history) <= MaxHistory /\ e.lock = store.lock
    BY <1>1, <1>5, <2>3, RecordedWritten
  <2>5. FilesLeft
    BY <1>6, <1>17, <2>2, <2>3, <2>4 DEF NoteSkipped
  <2> QED
    BY <2>2, <2>5
<1>18. CASE NoteOver(p)
  <2>1. todo[p].ops # <<>>
    BY <1>18 DEF NoteOver, Does
  <2>2. timer' \in [Managers -> Times] /\ \E u : Follows(p, u)
    <3>1. PICK t : t = Rest(todo[p])
      OBVIOUS
    <3> QED
      BY <1>4, <1>18, <2>1, <3>1, GoesOnFollows DEF NoteOver
  <2>3. PICK r : r = todo[p].run
    OBVIOUS
  <2>4. PICK e : e = Recorded([store EXCEPT !.receipt[r] = "over"], r)
    OBVIOUS
  <2>5. e \in Directory /\ Len(e.history) <= MaxHistory /\ e.lock = store.lock
    BY <1>1, <2>3, <2>4, NotedTyped DEF Receipts
  <2>6. FilesLeft
    BY <1>6, <1>18, <2>2, <2>3, <2>4, <2>5 DEF NoteOver
  <2> QED
    BY <2>2, <2>6
<1>19. CASE Miss(p)
  <2>1. todo[p].ops # <<>>
    BY <1>19 DEF Miss, Does
  <2>2. PICK c : c = Advanced(todo[p].rec)
    OBVIOUS
  <2>3. c \in Copies
    BY <1>1, <2>2, AdvancedTyped
  <2>4. PICK t : t = Rest([todo[p] EXCEPT !.rec = c])
    OBVIOUS
  <2>5. Continues(todo[p], t)
    <3>1. t = [Rest(todo[p]) EXCEPT !.rec = c]
      BY <1>1, <2>4 DEF Rest, Handlers
    <3>2. Rest(todo[p]) \in Handlers /\ Continues(todo[p], Rest(todo[p]))
      BY <1>4, <2>1 DEF Continues
    <3>3. PICK v : v = Rest(todo[p])
      OBVIOUS
    <3>4. [v EXCEPT !.rec = c] \in Handlers /\ Left([v EXCEPT !.rec = c]) = Left(v)
          /\ [v EXCEPT !.rec = c].why = v.why /\ [v EXCEPT !.rec = c].run = v.run
      BY <2>3, <3>2, <3>3 DEF Handlers, Left
    <3> QED
      BY <3>1, <3>2, <3>3, <3>4 DEF Continues
  <2>6. GoesOn(p, t) /\ store' = Written(store, c)
    BY <1>19, <2>2, <2>4 DEF Miss
  <2>7. timer' \in [Managers -> Times] /\ \E u : Follows(p, u)
    BY <2>5, <2>6, GoesOnFollows
  <2>8. FilesLeft
    BY <1>1, <1>6, <1>19, <2>3, <2>6, <2>7, WrittenTyped DEF Miss
  <2> QED
    BY <2>7, <2>8
<1>20. CASE NoteAttached(p)
  <2>1. todo[p].ops # <<>>
    BY <1>20 DEF NoteAttached, Does
  <2>2. PICK v : v = Rest(todo[p])
    OBVIOUS
  <2>3. v \in Handlers /\ Continues(todo[p], v)
    BY <1>4, <2>1, <2>2 DEF Continues
  <2>4. Continues(todo[p], [v EXCEPT !.arm = "no"])
    <3>1. [v EXCEPT !.arm = "no"] \in Handlers /\ Left([v EXCEPT !.arm = "no"]) = Left(v)
          /\ [v EXCEPT !.arm = "no"].why = v.why /\ [v EXCEPT !.arm = "no"].run = v.run
      BY <2>3 DEF Handlers, Left
    <3> QED
      BY <2>3, <3>1 DEF Continues
  <2>5. \E u : Follows(p, u)
    BY <1>20, <2>2, <2>4, IdleHarmless DEF NoteAttached, Starts, Follows
  <2>6. timer' \in [Managers -> Times]
    BY <1>1, <1>20, ArmTyped DEF NoteAttached
  <2>7. PICK r : r = todo[p].run
    OBVIOUS
  <2>8. PICK e : e = Recorded([store EXCEPT !.receipt[r] = "attached"], r)
    OBVIOUS
  <2>9. e \in Directory /\ Len(e.history) <= MaxHistory /\ e.lock = store.lock
    BY <1>1, <2>7, <2>8, NotedTyped DEF Receipts
  <2>10. FilesLeft
    BY <1>6, <1>20, <2>6, <2>7, <2>8, <2>9 DEF NoteAttached
  <2> QED
    BY <2>5, <2>10
<1>21. CASE Satisfy(p)
  <2>1. PICK next : next = IF trigger.kind = "once" THEN NoTime ELSE time + Every
    OBVIOUS
  <2>2. next \in Times
    BY <2>1, NextTyped
  <2>3. PICK c : c = [AsRead(store) EXCEPT !.next = next]
    OBVIOUS
  <2>4. c \in Copies
    BY <1>3, <2>2, <2>3 DEF Copies
  <2>5. Harmless(Handling("manual", c, <<"write">>, "next", 0))
    BY <1>5, <2>4, HandlerHarmless
  <2>6. todo' = [todo EXCEPT ![p] = IF store.exists THEN Handling("manual", c, <<"write">>, "next", 0) ELSE AtRest]
    BY <1>21, <2>1, <2>3 DEF Satisfy, Starts
  <2>7. \E u : Follows(p, u)
    BY <2>5, <2>6, IdleHarmless DEF Follows
  <2> QED
    BY <1>1, <1>7, <1>21, <2>7 DEF Satisfy
<1>22. CASE Judge(p)
  <2>1. todo[p].ops # <<>>
    BY <1>22 DEF Judge, Does
  <2>2. PICK t \in Judged(todo[p]) : GoesOn(p, t)
    BY <1>22 DEF Judge
  <2>3. Continues(todo[p], t)
    <3>1. PICK v : v = todo[p]
      OBVIOUS
    <3>2. Continues(v, t)
      BY <1>1, <2>1, <2>2, <3>1, JudgedContinues
    <3> QED
      BY <3>1, <3>2
  <2>4. timer' \in [Managers -> Times] /\ \E u : Follows(p, u)
    BY <2>2, <2>3, GoesOnFollows
  <2> QED
    BY <1>7, <1>22, <2>4 DEF Judge
<1>23. CASE CompleteRun(p)
  <2>1. PICK v : v = todo[p]
    OBVIOUS
  <2>2. PICK r : r = todo[p].run
    OBVIOUS
  <2>3. Harmless(Finishing(v, r))
    BY <1>1, <2>1, <2>2, FinishingTyped
  <2>4. PICK t : t = IF OnRecord(store, r) /\ store.receipt[r] = "attached" THEN Finishing(v, r) ELSE Rest(v)
    OBVIOUS
  <2>5. GoesOn(p, t) /\ todo[p].ops # <<>>
    BY <1>23, <2>1, <2>2, <2>4 DEF CompleteRun, Does
  <2>6. Continues(todo[p], t) \/ Harmless(t)
    BY <1>4, <2>1, <2>3, <2>4, <2>5
  <2>7. timer' \in [Managers -> Times] /\ \E u : Follows(p, u)
    BY <2>5, <2>6, GoesOnFollows
  <2> QED
    BY <1>7, <1>23, <2>7 DEF CompleteRun
<1>24. CASE DeleteFiles(p)
  <2>1. todo[p].ops # <<>>
    BY <1>24 DEF DeleteFiles, Does
  <2>2. timer' \in [Managers -> Times] /\ \E u : Follows(p, u)
    <3>1. PICK t : t = Rest(todo[p])
      OBVIOUS
    <3> QED
      BY <1>4, <1>24, <2>1, <3>1, GoesOnFollows DEF DeleteFiles
  <2>3. Deleted \in Directory /\ Deleted.lock = 0 /\ Deleted.history = <<>>
    <3>1. [r \in RunIds |-> "none"] \in [RunIds -> Receipts] /\ <<>> \in Seq(AnyRun)
      BY EmptySeq DEF Receipts
    <3>2. NoTime \in Times /\ Every \in Times /\ 0 \in AnyRun
      BY NextTyped DEF AnyRun
    <3>3. Created \in Directory /\ Created.lock = 0 /\ Created.history = <<>>
      BY <3>1, <3>2 DEF Created, Directory
    <3> QED
      BY <3>2, <3>3 DEF Deleted, Directory
  <2>4. Len(Deleted.history) <= MaxHistory
    BY <2>3, EmptySeq, ScheduleAssumption
  <2>5. FilesLeft
    BY <1>6, <1>24, <2>2, <2>3, <2>4 DEF DeleteFiles
  <2> QED
    BY <2>2, <2>5
<1>25. CASE FireFails(p)
  <2>1. PICK arm : arm = IF trigger.kind = "interval" THEN "later" ELSE "no"
    OBVIOUS
  <2>2. Harmless(Handling("restore", AsRead(store), <<"judge">>, arm, 0))
    BY <1>3, <1>5, <2>1, HandlerHarmless
  <2>3. \E u : Follows(p, u)
    BY <1>25, <2>1, <2>2, IdleHarmless DEF FireFails, Starts, Follows
  <2> QED
    BY <1>1, <1>7, <1>25, <2>3 DEF FireFails
<1>26. CASE Die(p)
  <2>1. timer' \in [Managers -> Times]
    BY <1>1, <1>2, <1>26 DEF Die
  <2>2. \E u : Follows(p, u)
    BY <1>26, IdleHarmless DEF Die, Starts, Follows
  <2> QED
    BY <1>7, <1>26, <2>1, <2>2 DEF Die
<1>27. ASSUME NEW r \in RunIds, CompleteScheduled(p, r)
       PROVE  FilesLeft /\ (todo' = todo \/ \E t : Follows(p, t))
  <2>1. Harmless(Handling("other", AsRead(store), <<"complete">>, "no", r))
    BY <1>3, <1>5, HandlerHarmless
  <2> QED
    BY <1>1, <1>7, <1>27, <2>1 DEF CompleteScheduled, Starts, Follows
<1> QED
  BY <1>8, <1>9, <1>10, <1>11, <1>12, <1>13, <1>14, <1>15, <1>16, <1>17, <1>18, <1>19, <1>20, <1>21,
     <1>22, <1>23, <1>24, <1>25, <1>26, <1>27 DEF Ordinary

-----------------------------------------------------------------------------
LEMMA FollowsTyped ==
  ASSUME ScheduleTyped, NEW p \in Managers, NEW t, Follows(p, t)
  PROVE  HandlersTyped' /\ \A q \in Managers : \A r : Claims(todo'[q], r) => Claims(todo[q], r)
<1>1. todo \in [Managers -> Handlers] /\ \A q \in Managers : Sound(todo[q])
  BY DEF ScheduleTyped, HandlersTyped
<1>2. t \in Handlers /\ todo' = [todo EXCEPT ![p] = t]
  BY DEF Follows, Continues, Harmless, Fresh
<1>3. Sound(t)
  BY <1>1 DEF Follows, Continues, Harmless, Fresh, Sound
<1>4. \A r : Claims(t, r) => Claims(todo[p], r)
  BY DEF Follows, Continues, Harmless, Fresh, Claims
<1>5. todo' \in [Managers -> Handlers] /\ \A q \in Managers : todo'[q] = IF q = p THEN t ELSE todo[q]
  BY <1>1, <1>2
<1> QED
  BY <1>1, <1>3, <1>4, <1>5 DEF HandlersTyped

\* A step that lets nothing new go on, and leaves the lock or removes it.
Quiet == /\ FilesTyped' /\ HandlersTyped'
         /\ store'.lock \in {store.lock, 0} /\ \A r \in RunIds : Going(r)' => Going(r)

LEMMA OrdinaryQuiet ==
  ASSUME ScheduleTyped, ScheduleNext, NEW p \in Managers, Ordinary(p)
  PROVE  Quiet
<1>1. FilesLeft /\ (todo' = todo \/ \E t : Follows(p, t))
  BY OrdinaryStep
<1>2. HandlersTyped' /\ \A q \in Managers : \A r : Claims(todo'[q], r) => Claims(todo[q], r)
  BY <1>1, FollowsTyped DEF ScheduleTyped, HandlersTyped
<1>3. FilesTyped'
  BY <1>1, CountsStep DEF ScheduleTyped, FilesTyped, FilesLeft
<1>4. \A r \in RunIds : Going(r)' => Going(r)
  BY <1>1, <1>2 DEF Going, FilesLeft
<1> QED
  BY <1>1, <1>2, <1>3, <1>4 DEF Quiet, FilesLeft

\* The lock of the run that is claimed.
Claimed(r) == /\ FilesTyped' /\ HandlersTyped'
              /\ store.lock = 0 /\ store'.lock = r /\ \A q \in RunIds : Going(q)' => Going(q) \/ q = r

LEMMA ClaimStep ==
  ASSUME ScheduleTyped, ScheduleNext, NEW p \in Managers, Claim(p)
  PROVE  Quiet \/ \E r \in RunIds : Claimed(r)
<1> DEFINE t == todo[p]
           c == IF t.why = "manual" THEN t.rec ELSE Advanced(t.rec)
           r == launches + 1
           u == Handling(t.why, [c EXCEPT !.active = r], <<"write", "claimed">>, "next", r)
<1>1. t \in Handlers /\ t.rec \in Copies /\ t.why \in Reasons /\ StoreTyped /\ timer \in [Managers -> Times]
      /\ launching \subseteq Launches /\ todo \in [Managers -> Handlers]
  BY DEF ScheduleTyped, HandlersTyped, FilesTyped, Handlers
<1>2. CASE Taken(p) /\ Starts(p, Skipping(t)) /\ UNCHANGED <<store, launches>>
  <2>1. Harmless(Skipping(t))
    BY <1>1, SkipContinues
  <2>2. \E v : Follows(p, v)
    BY <1>2, <2>1 DEF Starts, Follows
  <2>3. HandlersTyped' /\ \A q \in Managers : \A x : Claims(todo'[q], x) => Claims(todo[q], x)
    BY <2>2, FollowsTyped
  <2>4. work' = work /\ launching' = launching /\ timer' = timer /\ store' = store
    BY <1>2 DEF Claim
  <2>5. FilesTyped'
    BY <1>1, <2>4, CountsStep DEF FilesTyped, StoreTyped
  <2>6. \A x \in RunIds : Going(x)' => Going(x)
    BY <2>3, <2>4 DEF Going
  <2> QED
    BY <2>3, <2>4, <2>5, <2>6 DEF Quiet
<1>3. CASE /\ ~Taken(p) /\ launches < MaxLaunches /\ launches' = launches + 1
           /\ store' = [store EXCEPT !.lock = launches'] /\ Starts(p, u)
  <2>1. r \in RunIds /\ r \in AnyRun /\ r # 0
    BY <1>3, ScheduleAssumption DEF ScheduleTyped, FilesTyped, CountsTyped, RunIds, AnyRun
  <2>2. [c EXCEPT !.active = r] \in Copies
    <3>1. PICK b : b = c
      OBVIOUS
    <3>2. b \in Copies
      BY <1>1, <3>1, AdvancedTyped
    <3> QED
      BY <2>1, <3>1, <3>2 DEF Copies, AnyRun
  <2> HIDE DEF c, r
  <2>3. u \in Handlers /\ Sound(u) /\ u.run = r
    BY <1>1, <2>1, <2>2 DEF Handling, Handlers, Sound, Left, Operations
  <2>4. todo' = [todo EXCEPT ![p] = u]
    BY <1>3 DEF Starts
  <2> HIDE DEF u
  <2>5. todo' \in [Managers -> Handlers] /\ \A q \in Managers : todo'[q] = IF q = p THEN u ELSE todo[q]
    BY <1>1, <2>3, <2>4
  <2>6. HandlersTyped'
    BY <2>3, <2>5 DEF ScheduleTyped, HandlersTyped
  <2>7. work' = work /\ launching' = launching /\ timer' = timer
    BY DEF Claim
  <2>8. StoreTyped' /\ store'.lock = r /\ store.lock = 0
    BY <1>1, <1>3, <2>1 DEF StoreTyped, Directory, Taken, r
  <2>9. FilesTyped'
    BY <1>1, <2>7, <2>8, CountsStep DEF FilesTyped
  <2>10. \A q \in RunIds : Going(q)' => Going(q) \/ q = r
    BY <2>3, <2>5, <2>7 DEF Going, Claims
  <2> QED
    BY <2>1, <2>6, <2>8, <2>9, <2>10 DEF Claimed
<1> QED
  BY <1>2, <1>3 DEF Claim

LEMMA LaunchesQuiet ==
  ASSUME ScheduleTyped, ScheduleNext,
         \/ \E p \in Managers : NoteClaimed(p)
         \/ \E l \in launching : StartWork(l) \/ LaunchReturns(l) \/ LaunchFails(l)
         \/ \E r \in RunIds : RunEnds(r)
         \/ Tick
  PROVE  Quiet
<1>1. /\ StoreTyped /\ timer \in [Managers -> Times] /\ launching \subseteq Launches
      /\ todo \in [Managers -> Handlers] /\ \A p \in Managers : Sound(todo[p])
      /\ work \in [RunIds -> {"none", "executing", "ended"}] /\ store \in Directory
  BY DEF ScheduleTyped, HandlersTyped, FilesTyped, CountsTyped, StoreTyped
<1>2. AsRead(store) \in Copies
  BY <1>1, AsReadTyped
<1>3. ASSUME NEW p \in Managers, NoteClaimed(p) PROVE Quiet
  <2>1. PICK t : t = todo[p]
    OBVIOUS
  <2>2. "claimed" \in Left(t)
    BY <1>1, <1>3, <2>1, RestContinues DEF NoteClaimed, Does
  <2>3. t \in Handlers /\ t.run \in RunIds /\ Claims(todo[p], t.run)
    BY <1>1, <2>1, <2>2 DEF Sound, Handlers, AnyRun, Claims
  <2>4. PICK new : new = [run |-> t.run, by |-> p, why |-> t.why, rec |-> t.rec]
    OBVIOUS
  <2>5. new \in Launches /\ new.run = t.run
    BY <2>3, <2>4 DEF Launches, Handlers
  <2>6. launching' = launching \cup {new} /\ work' = work /\ timer' = timer
    BY <1>3, <2>1, <2>4 DEF NoteClaimed
  <2>7. Follows(p, AtRest)
    BY <1>3, IdleHarmless DEF NoteClaimed, Starts, Follows
  <2>8. HandlersTyped' /\ \A q \in Managers : \A x : Claims(todo'[q], x) => Claims(todo[q], x)
    BY <2>7, FollowsTyped
  <2>9. PICK r : r = t.run
    OBVIOUS
  <2>10. PICK e : e = Recorded([store EXCEPT !.receipt[r] = "claimed"], r)
    OBVIOUS
  <2>11. e \in Directory /\ Len(e.history) <= MaxHistory /\ e.lock = store.lock
    BY <1>1, <2>3, <2>9, <2>10, NotedTyped DEF Receipts, AnyRun
  <2>12. store' = e
    BY <1>3, <2>1, <2>9, <2>10 DEF NoteClaimed
  <2>13. FilesTyped'
    BY <1>1, <2>5, <2>6, <2>11, <2>12, CountsStep DEF FilesTyped, StoreTyped
  <2>14. \A x \in RunIds : Going(x)' => Going(x)
    BY <2>3, <2>5, <2>6, <2>8 DEF Going
  <2> QED
    BY <2>8, <2>11, <2>12, <2>13, <2>14 DEF Quiet
<1>4. ASSUME NEW l \in launching, StartWork(l) PROVE Quiet
  <2>1. l.run \in RunIds /\ store' = store /\ timer' = timer /\ launching' = launching /\ todo' = todo
    BY <1>1, <1>4 DEF StartWork, Launches
  <2>2. FilesTyped' /\ HandlersTyped'
    BY <1>1, <2>1, CountsStep DEF FilesTyped, StoreTyped, HandlersTyped
  <2>3. \A x \in RunIds : work'[x] = IF x = l.run THEN "executing" ELSE work[x]
    BY <1>1, <1>4 DEF StartWork
  <2>4. \A x \in RunIds : Going(x)' => Going(x)
    BY <2>1, <2>3 DEF Going
  <2> QED
    BY <2>1, <2>2, <2>4 DEF Quiet
<1>5. ASSUME NEW l \in launching, LaunchReturns(l) \/ LaunchFails(l) PROVE Quiet
  <2>1. l \in Launches /\ l.by \in Managers /\ l.run \in AnyRun /\ l.rec \in Copies /\ l.why \in Reasons
    BY <1>1 DEF Launches, AnyRun
  <2>2. store' = store /\ timer' = timer /\ launching' \subseteq launching /\ work' = work
    BY <1>5 DEF LaunchReturns, LaunchFails
  <2>3. todo' = todo \/ \E t : Follows(l.by, t)
    <3>1. CASE LaunchReturns(l)
      <4>1. PICK ops : ops = IF l.why = "manual" THEN <<"attached", "satisfy">> ELSE <<"attached">>
        OBVIOUS
      <4>2. ops \in Lists
        BY <4>1 DEF Lists
      <4>3. Harmless(Handling(l.why, l.rec, ops, "next", l.run))
        BY <2>1, <4>2, HandlerHarmless
      <4> QED
        BY <3>1, <4>1, <4>3 DEF LaunchReturns, Starts, Follows
    <3>2. CASE LaunchFails(l)
      <4>1. PICK c : c = [AsRead(store) EXCEPT
                            !.active = 0,
                            !.next = IF l.why = "manual" /\ l.rec.next # NoTime THEN l.rec.next ELSE @]
        OBVIOUS
      <4>2. c \in Copies
        BY <1>2, <2>1, <4>1 DEF Copies
      <4>3. <<"write", "over", "unlock">> \in Lists
        BY DEF Lists
      <4>4. Harmless(Handling(l.why, c, <<"write", "over", "unlock">>, "next", l.run))
        BY <2>1, <4>2, <4>3, HandlerHarmless
      <4> QED
        BY <3>2, <4>1, <4>4 DEF LaunchFails, Starts, Follows
    <3> QED
      BY <1>5, <3>1, <3>2
  <2>4. HandlersTyped' /\ \A q \in Managers : \A x : Claims(todo'[q], x) => Claims(todo[q], x)
    BY <2>1, <2>3, FollowsTyped DEF ScheduleTyped, HandlersTyped
  <2>5. FilesTyped'
    BY <1>1, <2>2, CountsStep DEF FilesTyped, StoreTyped
  <2>6. \A x \in RunIds : Going(x)' => Going(x)
    BY <2>2, <2>4 DEF Going
  <2> QED
    BY <2>2, <2>4, <2>5, <2>6 DEF Quiet
<1>6. ASSUME Tick \/ \E r \in RunIds : RunEnds(r) PROVE Quiet
  <2>1. store' = store /\ timer' = timer /\ launching' = launching /\ todo' = todo
    BY <1>6 DEF Tick, RunEnds
  <2>2. \A x \in RunIds : work'[x] = "executing" => work[x] = "executing"
    BY <1>1, <1>6 DEF Tick, RunEnds
  <2>3. FilesTyped' /\ HandlersTyped'
    BY <1>1, <2>1, CountsStep DEF FilesTyped, StoreTyped, HandlersTyped
  <2>4. \A x \in RunIds : Going(x)' => Going(x)
    BY <2>1, <2>2 DEF Going
  <2> QED
    BY <2>1, <2>3, <2>4 DEF Quiet
<1> QED
  BY <1>3, <1>4, <1>5, <1>6

LEMMA NextQuiet ==
  ASSUME ScheduleTyped, ScheduleNext
  PROVE  Quiet \/ \E r \in RunIds : Claimed(r)
<1>1. \/ \E p \in Managers : Ordinary(p) \/ Claim(p) \/ NoteClaimed(p)
      \/ \E l \in launching : StartWork(l) \/ LaunchReturns(l) \/ LaunchFails(l)
      \/ \E r \in RunIds : RunEnds(r)
      \/ Tick
  BY DEF ScheduleNext, Ordinary
<1> QED
  BY <1>1, OrdinaryQuiet, ClaimStep, LaunchesQuiet

\* The domains and the lock, in a step.
LEMMA ScheduleLockStep ==
  ASSUME ScheduleTyped, LockInv, [ScheduleNext]_scheduleVars
  PROVE  ScheduleTyped' /\ LockInv'
<1>1. CASE UNCHANGED scheduleVars
  BY <1>1 DEF scheduleVars, ScheduleTyped, FilesTyped, CountsTyped, StoreTyped, HandlersTyped, LockInv, Going
<1>2. CASE ScheduleNext
  <2>1. FilesTyped' /\ HandlersTyped'
    BY <1>2, NextQuiet DEF Quiet, Claimed
  <2>2. unguarded' \in BOOLEAN /\ stopped' \in BOOLEAN
    BY <1>2, Zenon DEF ScheduleNext, ScheduleTyped
  <2>3. ~unguarded' => ~unguarded /\ ~Unguards
    BY <1>2, Zenon DEF ScheduleNext
  <2>4. ASSUME ~unguarded, ~Unguards, NEW r \in RunIds, Going(r)' PROVE store'.lock = r
    <3>1. \A q \in RunIds : Going(q) => store.lock = q
      BY <2>4 DEF LockInv
    <3>2. r # 0
      BY DEF RunIds
    <3>3. CASE Quiet
      BY <2>4, <3>1, <3>3 DEF Quiet, Unguards
    <3>4. ASSUME NEW q \in RunIds, Claimed(q) PROVE store'.lock = r
      BY <2>4, <3>1, <3>2, <3>4 DEF Claimed
    <3> QED
      BY <1>2, <3>3, <3>4, NextQuiet
  <2>5. LockInv'
    BY <2>3, <2>4 DEF LockInv
  <2> QED
    BY <2>1, <2>2, <2>5 DEF ScheduleTyped
<1> QED
  BY <1>1, <1>2

-----------------------------------------------------------------------------
\* The interval schedule goes on in a step of process p.
StaysArmed(p) ==
  /\ store'.exists /\ Recurs(store')
  /\ todo'[p].ops # <<>> => Recurs(todo'[p].rec)
  /\ p \in bound' \cap owns => TimerKept(p)'
  /\ \A l \in launching' : Recurs(l.rec)
  /\ \A l \in launching : l.by # p => l \in launching'
  /\ \A q \in Managers \ {p} : todo'[q] = todo[q] /\ timer'[q] = timer[q] /\ (q \in bound' => q \in bound)

LEMMA StaysArmedAll ==
  ASSUME AllRecur, NEW p \in Managers, StaysArmed(p), owns' = owns, owns \subseteq Managers
  PROVE  AllRecur'
<1>1. \A q \in Managers : todo'[q].ops # <<>> => Recurs(todo'[q].rec)
  BY DEF AllRecur, StaysArmed
<1>2. ASSUME NEW q \in bound' \cap owns', q \in Managers, q # p PROVE TimerKept(q)'
  <2>1. TimerKept(q) /\ todo'[q] = todo[q] /\ timer'[q] = timer[q]
    BY <1>2 DEF AllRecur, StaysArmed
  <2> QED
    BY <1>2, <2>1 DEF TimerKept, StaysArmed
<1>3. \A q \in bound' \cap owns' : TimerKept(q)'
  BY <1>2 DEF StaysArmed
<1> QED
  BY <1>1, <1>3 DEF AllRecur, StaysArmed

\* A handler that goes on, or arms the timer.
LEMMA GoesOnArms ==
  ASSUME ScheduleTyped, trigger.kind = "interval", NEW p \in Managers, NEW t \in Handlers,
         GoesOn(p, t), Recurs(t.rec), t.arm = "no" => todo[p].arm = "no",
         launching' = launching, p \in bound \cap owns => TimerKept(p)
  PROVE  /\ todo'[p].ops # <<>> => Recurs(todo'[p].rec)
         /\ p \in bound \cap owns => TimerKept(p)'
         /\ \A q \in Managers \ {p} : todo'[q] = todo[q] /\ timer'[q] = timer[q]
<1>1. todo \in [Managers -> Handlers]
  BY DEF ScheduleTyped, HandlersTyped
<1>2. CASE t.ops = <<>>
  <2>1. /\ timer' \in [Managers -> Times] /\ \A q \in Managers \ {p} : timer'[q] = timer[q]
        /\ t.arm = "no" => timer'[p] = timer[p]
        /\ t.arm # "no" => timer'[p] # NoTime
    BY <1>2, ArmTyped DEF GoesOn
  <2>2. todo'[p] = AtRest /\ \A q \in Managers \ {p} : todo'[q] = todo[q]
    BY <1>1, <1>2 DEF GoesOn, Starts
  <2> QED
    BY <2>1, <2>2, IdleHarmless DEF TimerKept
<1>3. CASE t.ops # <<>>
  BY <1>1, <1>3 DEF GoesOn, Starts, TimerKept
<1> QED
  BY <1>2, <1>3

\* A handler that begins with a timer to arm at its end.
LEMMA StartsArms ==
  ASSUME ScheduleTyped, NEW p \in Managers, NEW t, Starts(p, t),
         t.ops # <<>>, t.arm # "no", Recurs(t.rec)
  PROVE  /\ todo'[p].ops # <<>> => Recurs(todo'[p].rec)
         /\ TimerKept(p)'
         /\ \A q \in Managers \ {p} : todo'[q] = todo[q]
<1>1. todo \in [Managers -> Handlers]
  BY DEF ScheduleTyped, HandlersTyped
<1> QED
  BY <1>1 DEF Starts, TimerKept

\* The interval schedule that is not to be stopped goes on.
LEMMA OrdinaryArmed ==
  ASSUME ScheduleTyped, trigger.kind = "interval", AllRecur,
         \A q \in Managers : todo[q].why # "stop" /\ todo'[q].why # "stop",
         NEW p \in Managers, Ordinary(p)
  PROVE  StaysArmed(p)
<1>1. /\ StoreTyped /\ timer \in [Managers -> Times] /\ todo \in [Managers -> Handlers]
      /\ todo[p] \in Handlers /\ Sound(todo[p]) /\ bound \subseteq Managers
  BY DEF ScheduleTyped, FilesTyped, CountsTyped, HandlersTyped
<1>2. /\ store.exists /\ ~store.paused /\ store.next # NoTime
      /\ Recurs(store) /\ Recurs(AsRead(store))
      /\ todo[p].ops # <<>> => Recurs(todo[p].rec)
      /\ \A l \in launching : Recurs(l.rec)
      /\ p \in bound \cap owns => TimerKept(p)
  BY DEF AllRecur, Recurs, AsRead
<1>3. todo[p].ops # <<>> => /\ Rest(todo[p]) \in Handlers /\ Rest(todo[p]).rec = todo[p].rec
                            /\ Rest(todo[p]).arm = todo[p].arm
  BY <1>1, RestContinues DEF Continues
<1>4. ASSUME NEW t, Starts(p, t), t.ops # <<>>, t.arm # "no", Recurs(t.rec),
             store' = store, launching' \subseteq launching,
             \A l \in launching : l.by # p => l \in launching',
             \A q \in Managers \ {p} : timer'[q] = timer[q] /\ (q \in bound' => q \in bound)
      PROVE  StaysArmed(p)
  <2>1. /\ todo'[p].ops # <<>> => Recurs(todo'[p].rec)
        /\ TimerKept(p)'
        /\ \A q \in Managers \ {p} : todo'[q] = todo[q]
    BY <1>4, StartsArms
  <2> QED
    BY <1>2, <1>4, <2>1 DEF StaysArmed
<1>5. ASSUME NEW t \in Handlers, GoesOn(p, t), Recurs(t.rec), t.arm = "no" => todo[p].arm = "no",
             store'.exists, Recurs(store'), launching' = launching, bound' = bound
      PROVE  StaysArmed(p)
  <2>1. /\ todo'[p].ops # <<>> => Recurs(todo'[p].rec)
        /\ p \in bound \cap owns => TimerKept(p)'
        /\ \A q \in Managers \ {p} : todo'[q] = todo[q] /\ timer'[q] = timer[q]
    BY <1>2, <1>5, GoesOnArms
  <2> QED
    BY <1>2, <1>5, <2>1 DEF StaysArmed
<1>6. ASSUME Starts(p, AtRest), store' = store, launching' = launching, bound' = bound, timer' = timer,
             todo[p].arm = "no"
      PROVE  StaysArmed(p)
  <2>1. todo'[p] = AtRest /\ \A q \in Managers \ {p} : todo'[q] = todo[q]
    BY <1>1, <1>6 DEF Starts
  <2> QED
    BY <1>2, <1>6, <2>1, IdleHarmless DEF StaysArmed, TimerKept
<1>7. CASE BindSession(p)
  <2>1. CASE p \in owns
    <3>1. PICK t : t = Handling("other", AsRead(store), <<"judge">>, "next", 0)
      OBVIOUS
    <3>2. t.ops # <<>> /\ t.arm # "no" /\ Recurs(t.rec)
      BY <1>2, <3>1 DEF Handling
    <3> QED
      BY <1>2, <1>4, <1>7, <2>1, <3>1, <3>2 DEF BindSession
  <2>2. CASE p \notin owns
    BY <1>2, <1>7, <2>2 DEF BindSession, StaysArmed
  <2> QED
    BY <2>1, <2>2
<1>8. CASE Fire(p)
  <2>1. /\ DuePlannedAt(store) # NoTime
        /\ store' = store /\ launching' = launching /\ bound' = bound
    BY <1>1, <1>2, <1>8, NextTyped DEF Fire, StoreTyped, Directory
  <2>2. PICK t : t = Attempt("timer", store)
    OBVIOUS
  <2>3. t.ops # <<>> /\ t.arm # "no" /\ Recurs(t.rec)
    BY <1>2, <2>2, AttemptTyped DEF Reasons
  <2>4. CASE Starts(p, t) /\ timer' = [timer EXCEPT ![p] = NoTime]
    <3>1. \A q \in Managers \ {p} : timer'[q] = timer[q]
      BY <1>1, <2>4
    <3> QED
      BY <1>4, <2>1, <2>3, <2>4, <3>1
  <2>5. CASE timer' = [timer EXCEPT ![p] = store.next] /\ todo' = todo
    <3>1. timer'[p] # NoTime /\ \A q \in Managers \ {p} : timer'[q] = timer[q]
      BY <1>1, <1>2, <2>5
    <3> QED
      BY <1>2, <2>1, <2>5, <3>1 DEF StaysArmed, TimerKept
  <2>6. CASE p \notin owns /\ timer' = [timer EXCEPT ![p] = NoTime] /\ todo' = todo
    <3>1. \A q \in Managers \ {p} : timer'[q] = timer[q]
      BY <1>1, <2>6
    <3> QED
      BY <1>2, <2>1, <2>6, <3>1 DEF StaysArmed
  <2> QED
    BY <1>2, <1>8, <2>1, <2>2, <2>4, <2>5, <2>6 DEF Fire
<1>9. CASE RunManual(p)
  <2>1. PICK t : t = Attempt("manual", store)
    OBVIOUS
  <2>2. t.ops # <<>> /\ t.arm # "no" /\ Recurs(t.rec)
    BY <1>2, <2>1, AttemptTyped DEF Reasons
  <2> QED
    BY <1>4, <1>9, <2>1, <2>2 DEF RunManual
<1>10. CASE RunDue(p)
  <2>1. PICK t : t = Attempt("due", store)
    OBVIOUS
  <2>2. t.ops # <<>> /\ t.arm # "no" /\ Recurs(t.rec)
    BY <1>2, <2>1, AttemptTyped DEF Reasons
  <2>3. CASE Starts(p, t)
    BY <1>4, <1>10, <2>2, <2>3 DEF RunDue
  <2>4. CASE Starts(p, Handling("due", AsRead(store), <<"miss", "skipped">>, "no", 0))
    <3>1. todo[p].ops = <<>>
      BY <1>10, IdleHarmless DEF RunDue, Commanded, Ready
    <3>2. todo'[p].rec = AsRead(store) /\ \A q \in Managers \ {p} : todo'[q] = todo[q]
      BY <1>1, <2>4 DEF Starts, Handling
    <3> QED
      BY <1>2, <1>10, <3>1, <3>2 DEF RunDue, StaysArmed, TimerKept
  <2> QED
    BY <1>10, <2>1, <2>3, <2>4 DEF RunDue
<1>11. ~Pause(p) /\ ~Delete(p)
  <2>1. ASSUME Pause(p) \/ Delete(p) PROVE todo'[p].why = "stop"
    BY <1>1, <2>1 DEF Pause, Delete, Starts, Handling
  <2> QED
    BY <2>1
<1>12. ~ResumeSchedule(p)
  BY <1>2 DEF ResumeSchedule
<1>13. CASE WriteRecord(p)
  <2>1. PICK t : t = Rest(todo[p])
    OBVIOUS
  <2>2. t \in Handlers /\ Recurs(t.rec) /\ t.arm = todo[p].arm /\ Recurs(todo[p].rec) /\ todo[p].rec \in Copies
    BY <1>1, <1>2, <1>3, <1>13, <2>1 DEF WriteRecord, Does, Handlers
  <2>3. store'.exists /\ Recurs(store')
    BY <1>1, <1>13, <2>2, WrittenTyped DEF WriteRecord, Recurs
  <2> QED
    BY <1>5, <1>13, <2>1, <2>2, <2>3 DEF WriteRecord
<1>14. CASE RemoveLock(p) \/ NoteSkipped(p) \/ NoteOver(p)
  <2>1. PICK t : t = Rest(todo[p])
    OBVIOUS
  <2>2. t \in Handlers /\ Recurs(t.rec) /\ t.arm = todo[p].arm
    BY <1>1, <1>2, <1>3, <1>14, <2>1 DEF RemoveLock, NoteSkipped, NoteOver, Does
  <2>3. PICK r : r = todo[p].run
    OBVIOUS
  <2>4. r \in AnyRun /\ 0 \in AnyRun /\ "over" \in Receipts
    BY <1>1, <2>3 DEF Handlers, AnyRun, Receipts
  <2>5. \/ store' = [store EXCEPT !.lock = 0] \/ store' = Recorded(store, 0)
        \/ store' = Recorded([store EXCEPT !.receipt[r] = "over"], r)
    BY <1>14, <2>3 DEF RemoveLock, NoteSkipped, NoteOver
  <2>6. store'.exists = store.exists /\ store'.next = store.next /\ store'.paused = store.paused
    <3>1. CASE store' = [store EXCEPT !.lock = 0]
      BY <1>1, <3>1 DEF StoreTyped, Directory
    <3>2. PICK d : d = Recorded(store, 0)
      OBVIOUS
    <3>3. d.exists = store.exists /\ d.next = store.next /\ d.paused = store.paused
      BY <1>1, <2>4, <3>2, NotedTyped
    <3>4. PICK e : e = Recorded([store EXCEPT !.receipt[r] = "over"], r)
      OBVIOUS
    <3>5. e.exists = store.exists /\ e.next = store.next /\ e.paused = store.paused
      BY <1>1, <2>4, <3>4, NotedTyped
    <3> QED
      BY <2>5, <3>1, <3>2, <3>3, <3>4, <3>5
  <2> QED
    BY <1>2, <1>5, <1>14, <2>1, <2>2, <2>6 DEF RemoveLock, NoteSkipped, NoteOver, Recurs
<1>15. CASE Miss(p)
  <2>1. PICK c : c = Advanced(todo[p].rec)
    OBVIOUS
  <2>2. todo[p].ops # <<>> /\ todo[p].rec \in Copies /\ Recurs(todo[p].rec)
    BY <1>1, <1>2, <1>15 DEF Miss, Does, Handlers
  <2>3. c \in Copies /\ Recurs(c)
    BY <2>1, <2>2, AdvancedTyped DEF Recurs
  <2>4. PICK t : t = Rest([todo[p] EXCEPT !.rec = c])
    OBVIOUS
  <2>5. t = [Rest(todo[p]) EXCEPT !.rec = c]
    BY <1>1, <2>4 DEF Rest, Handlers
  <2>6. t \in Handlers /\ t.rec = c /\ t.arm = todo[p].arm
    BY <1>3, <2>2, <2>3, <2>5 DEF Handlers
  <2>7. GoesOn(p, t) /\ store' = Written(store, c)
    BY <1>15, <2>1, <2>4 DEF Miss
  <2>8. store'.exists /\ Recurs(store')
    BY <1>1, <2>3, <2>7, WrittenTyped DEF Recurs
  <2> QED
    BY <1>5, <1>15, <2>3, <2>6, <2>7, <2>8 DEF Miss
<1>16. CASE NoteAttached(p)
  <2>1. PICK v : v = Rest(todo[p])
    OBVIOUS
  <2>2. v \in Handlers /\ Recurs(v.rec) /\ Recurs(todo[p].rec) /\ todo[p].ops # <<>>
    BY <1>1, <1>2, <1>3, <1>16, <2>1 DEF NoteAttached, Does
  <2>3. PICK u : u = IF v.ops = <<>> THEN AtRest ELSE [v EXCEPT !.arm = "no"]
    OBVIOUS
  <2>4. u.ops # <<>> => Recurs(u.rec)
    BY <2>2, <2>3, IdleHarmless DEF Handlers
  <2>5. todo'[p] = u /\ \A q \in Managers \ {p} : todo'[q] = todo[q]
    BY <1>1, <1>16, <2>1, <2>3 DEF NoteAttached, Starts
  <2>6. /\ \A q \in Managers \ {p} : timer'[q] = timer[q]
        /\ todo[p].arm = "no" => timer'[p] = timer[p]
        /\ todo[p].arm # "no" => timer'[p] # NoTime
    BY <1>1, <1>16, <2>2, ArmTyped DEF NoteAttached
  <2>7. PICK r : r = todo[p].run
    OBVIOUS
  <2>8. PICK e : e = Recorded([store EXCEPT !.receipt[r] = "attached"], r)
    OBVIOUS
  <2>9. e.exists = store.exists /\ e.next = store.next /\ e.paused = store.paused
    BY <1>1, <2>7, <2>8, NotedTyped DEF Receipts, Handlers, AnyRun
  <2>10. store' = e
    BY <1>16, <2>7, <2>8 DEF NoteAttached
  <2> QED
    BY <1>2, <1>16, <2>4, <2>5, <2>6, <2>9, <2>10 DEF NoteAttached, StaysArmed, TimerKept, Recurs
<1>17. CASE Satisfy(p)
  <2>1. PICK c : c = [AsRead(store) EXCEPT !.next = time + Every]
    OBVIOUS
  <2>2. Recurs(c)
    BY <1>2, <2>1, NextTyped DEF Recurs, AsRead
  <2>3. PICK t : t = Handling("manual", c, <<"write">>, "next", 0)
    OBVIOUS
  <2>4. t.ops # <<>> /\ t.arm # "no" /\ Recurs(t.rec)
    BY <2>2, <2>3 DEF Handling
  <2>5. Starts(p, t)
    BY <1>2, <1>17, <2>1, <2>3 DEF Satisfy
  <2> QED
    BY <1>4, <1>17, <2>4, <2>5 DEF Satisfy
<1>18. CASE Judge(p)
  <2>1. todo[p].ops # <<>>
    BY <1>18 DEF Judge, Does
  <2>2. PICK t \in Judged(todo[p]) : GoesOn(p, t)
    BY <1>18 DEF Judge
  <2>3. PICK v : v = todo[p]
    OBVIOUS
  <2>4. t \in Handlers /\ Recurs(t.rec) /\ (v.arm # "no" => t.arm # "no")
    BY <1>1, <1>2, <2>1, <2>2, <2>3, JudgedContinues DEF Continues
  <2> QED
    BY <1>2, <1>5, <1>18, <2>2, <2>3, <2>4 DEF Judge
<1>19. CASE CompleteRun(p)
  <2>1. PICK v : v = todo[p]
    OBVIOUS
  <2>2. PICK r : r = todo[p].run
    OBVIOUS
  <2>3. v \in Handlers /\ r \in AnyRun /\ Recurs(v.rec)
    BY <1>1, <1>2, <1>19, <2>1, <2>2 DEF CompleteRun, Does, Handlers
  <2>4. PICK t : t = IF OnRecord(store, r) /\ store.receipt[r] = "attached" THEN Finishing(v, r) ELSE Rest(v)
    OBVIOUS
  <2>5. Harmless(Finishing(v, r)) /\ Recurs(Finishing(v, r).rec) /\ Finishing(v, r).arm # "no"
    BY <2>3, FinishingTyped
  <2>6. GoesOn(p, t) /\ todo[p].ops # <<>>
    BY <1>19, <2>1, <2>2, <2>4 DEF CompleteRun, Does
  <2>7. t \in Handlers /\ Recurs(t.rec) /\ (t.arm = "no" => todo[p].arm = "no")
    BY <1>3, <2>1, <2>3, <2>4, <2>5, <2>6 DEF Harmless
  <2> QED
    BY <1>2, <1>5, <1>19, <2>6, <2>7 DEF CompleteRun
<1>20. ~DeleteFiles(p)
  <2>1. ASSUME DeleteFiles(p) PROVE "delete" \in Left(todo[p])
    BY <1>1, <2>1, RestContinues DEF DeleteFiles, Does
  <2> QED
    BY <1>1, <2>1 DEF Sound
<1>21. CASE FireFails(p)
  <2>1. store' = store /\ launching' = launching /\ bound' = bound /\ timer' = timer
    BY <1>21 DEF FireFails
  <2>2. CASE p \in owns
    <3>1. PICK t : t = Handling("restore", AsRead(store), <<"judge">>, "later", 0)
      OBVIOUS
    <3>2. t.ops # <<>> /\ t.arm # "no" /\ Recurs(t.rec)
      BY <1>2, <3>1 DEF Handling
    <3>3. Starts(p, t)
      BY <1>2, <1>21, <2>2, <3>1 DEF FireFails
    <3> QED
      BY <1>4, <2>1, <3>2, <3>3
  <2>3. CASE p \notin owns
    <3>1. todo'[p] = AtRest /\ \A q \in Managers \ {p} : todo'[q] = todo[q]
      BY <1>1, <1>21, <2>3 DEF FireFails, Starts
    <3> QED
      BY <1>2, <2>1, <2>3, <3>1, IdleHarmless DEF StaysArmed
  <2> QED
    BY <2>2, <2>3
<1>22. CASE Die(p)
  <2>1. todo'[p] = AtRest /\ \A q \in Managers \ {p} : todo'[q] = todo[q]
    BY <1>1, <1>22 DEF Die, Starts
  <2>2. \A q \in Managers \ {p} : timer'[q] = timer[q]
    BY <1>1, <1>22 DEF Die
  <2> QED
    BY <1>2, <1>22, <2>1, <2>2, IdleHarmless DEF Die, StaysArmed
<1>23. ASSUME NEW r \in RunIds, CompleteScheduled(p, r) PROVE StaysArmed(p)
  <2>1. todo[p].ops = <<>>
    BY <1>23, IdleHarmless DEF CompleteScheduled, Ready
  <2>2. todo'[p].rec = AsRead(store) /\ \A q \in Managers \ {p} : todo'[q] = todo[q]
    BY <1>1, <1>2, <1>23 DEF CompleteScheduled, Starts, Handling
  <2> QED
    BY <1>2, <1>23, <2>1, <2>2 DEF CompleteScheduled, StaysArmed, TimerKept
<1> QED
  BY <1>7, <1>8, <1>9, <1>10, <1>11, <1>12, <1>13, <1>14, <1>15, <1>16, <1>17, <1>18, <1>19, <1>20,
     <1>21, <1>22, <1>23 DEF Ordinary

\* A claim is made or the occurrence skipped.
LEMMA ClaimArmed ==
  ASSUME ScheduleTyped, trigger.kind = "interval", AllRecur, NEW p \in Managers, Claim(p)
  PROVE  StaysArmed(p)
<1>1. /\ todo \in [Managers -> Handlers] /\ todo[p] \in Handlers /\ store \in Directory
      /\ todo[p].rec \in Copies /\ launches \in Nat
  BY DEF ScheduleTyped, FilesTyped, CountsTyped, StoreTyped, HandlersTyped, Handlers
<1>2. /\ store.exists /\ Recurs(store) /\ todo[p].ops # <<>> /\ Recurs(todo[p].rec)
      /\ \A l \in launching : Recurs(l.rec)
      /\ p \in bound \cap owns => TimerKept(p)
  BY DEF AllRecur, Claim, Does
<1>3. PICK v : v = todo[p]
  OBVIOUS
<1>4. CASE Taken(p) /\ Starts(p, Skipping(v)) /\ UNCHANGED <<store, launches>>
  <2>1. Skipping(v).ops # <<>> /\ Skipping(v).arm = v.arm /\ Recurs(Skipping(v).rec)
    BY <1>1, <1>2, <1>3, SkipContinues
  <2>2. todo'[p] = Skipping(v) /\ \A q \in Managers \ {p} : todo'[q] = todo[q]
    BY <1>1, <1>4 DEF Starts
  <2> QED
    BY <1>2, <1>3, <1>4, <2>1, <2>2 DEF Claim, StaysArmed, TimerKept
<1>5. CASE ~Taken(p)
  <2>1. PICK b : b = IF v.why = "manual" THEN v.rec ELSE Advanced(v.rec)
    OBVIOUS
  <2>2. b \in Copies /\ Recurs(b)
    BY <1>1, <1>2, <1>3, <2>1, AdvancedTyped DEF Recurs
  <2>3. PICK r : r = launches + 1
    OBVIOUS
  <2>4. Recurs([b EXCEPT !.active = r])
    BY <2>2 DEF Recurs, Copies
  <2>5. PICK u : u = Handling(v.why, [b EXCEPT !.active = r], <<"write", "claimed">>, "next", r)
    OBVIOUS
  <2>6. u.ops # <<>> /\ u.arm # "no" /\ Recurs(u.rec)
    BY <2>4, <2>5 DEF Handling
  <2>7. Starts(p, u) /\ store' = [store EXCEPT !.lock = r]
    BY <1>3, <1>5, <2>1, <2>3, <2>5 DEF Claim
  <2>8. /\ todo'[p].ops # <<>> => Recurs(todo'[p].rec)
        /\ TimerKept(p)'
        /\ \A q \in Managers \ {p} : todo'[q] = todo[q]
    BY <2>6, <2>7, StartsArms
  <2>9. store'.exists /\ Recurs(store')
    BY <1>1, <1>2, <2>7 DEF Directory, Recurs
  <2> QED
    BY <1>2, <2>8, <2>9 DEF Claim, StaysArmed
<1> QED
  BY <1>3, <1>4, <1>5 DEF Claim

\* A launch is awaited, or is over.
LEMMA LaunchArmed ==
  ASSUME ScheduleTyped, trigger.kind = "interval", AllRecur, NEW p \in Managers,
         NoteClaimed(p) \/ \E l \in launching : l.by = p /\ (LaunchReturns(l) \/ LaunchFails(l))
  PROVE  StaysArmed(p)
<1>1. /\ todo \in [Managers -> Handlers] /\ todo[p] \in Handlers /\ StoreTyped
      /\ launching \subseteq Launches
  BY DEF ScheduleTyped, FilesTyped, HandlersTyped
<1>2. /\ store.exists /\ Recurs(store) /\ (todo[p].ops # <<>> => Recurs(todo[p].rec))
      /\ \A l \in launching : Recurs(l.rec)
  BY DEF AllRecur
<1>3. CASE NoteClaimed(p)
  <2>1. PICK r : r = todo[p].run
    OBVIOUS
  <2>2. PICK new : new = [run |-> r, by |-> p, why |-> todo[p].why, rec |-> todo[p].rec]
    OBVIOUS
  <2>3. PICK e : e = Recorded([store EXCEPT !.receipt[r] = "claimed"], r)
    OBVIOUS
  <2>4. e.exists = store.exists /\ e.next = store.next /\ e.paused = store.paused
    BY <1>1, <2>1, <2>3, NotedTyped DEF Handlers, AnyRun, Receipts
  <2>5. store' = e /\ launching' = launching \cup {new} /\ timer' = timer /\ bound' = bound
    BY <1>3, <2>1, <2>2, <2>3 DEF NoteClaimed
  <2>6. Recurs(new.rec) /\ new.by = p
    BY <1>2, <1>3, <2>2 DEF NoteClaimed, Does
  <2>7. todo'[p] = AtRest /\ \A q \in Managers \ {p} : todo'[q] = todo[q]
    BY <1>1, <1>3 DEF NoteClaimed, Starts
  <2> QED
    BY <1>2, <2>4, <2>5, <2>6, <2>7, IdleHarmless DEF StaysArmed, TimerKept, Recurs
<1>4. ASSUME NEW l \in launching, l.by = p, LaunchReturns(l) \/ LaunchFails(l) PROVE StaysArmed(p)
  <2>1. /\ store' = store /\ timer' = timer /\ bound' = bound /\ launching' = launching \ {l}
        /\ l \in Launches /\ Recurs(l.rec)
    BY <1>1, <1>2, <1>4 DEF LaunchReturns, LaunchFails
  <2>2. \E t : Starts(p, t) /\ t.ops # <<>> /\ t.arm # "no" /\ Recurs(t.rec)
    <3>1. CASE LaunchReturns(l)
      <4>1. PICK ops : ops = IF l.why = "manual" THEN <<"attached", "satisfy">> ELSE <<"attached">>
        OBVIOUS
      <4>2. PICK t : t = Handling(l.why, l.rec, ops, "next", l.run)
        OBVIOUS
      <4>3. Starts(p, t) /\ t.ops # <<>> /\ t.arm # "no" /\ Recurs(t.rec)
        BY <1>4, <2>1, <3>1, <4>1, <4>2 DEF LaunchReturns, Handling
      <4> QED
        BY <4>3
    <3>2. CASE LaunchFails(l)
      <4>1. PICK c : c = [AsRead(store) EXCEPT
                            !.active = 0,
                            !.next = IF l.why = "manual" /\ l.rec.next # NoTime THEN l.rec.next ELSE @]
        OBVIOUS
      <4>2. Recurs(c)
        BY <1>2, <2>1, <4>1 DEF Recurs, AsRead
      <4>3. PICK t : t = Handling(l.why, c, <<"write", "over", "unlock">>, "next", l.run)
        OBVIOUS
      <4>4. Starts(p, t) /\ t.ops # <<>> /\ t.arm # "no" /\ Recurs(t.rec)
        BY <1>2, <1>4, <3>2, <4>1, <4>2, <4>3 DEF LaunchFails, Handling
      <4> QED
        BY <4>4
    <3> QED
      BY <1>4, <3>1, <3>2
  <2>3. PICK t : Starts(p, t) /\ t.ops # <<>> /\ t.arm # "no" /\ Recurs(t.rec)
    BY <2>2
  <2>4. /\ todo'[p].ops # <<>> => Recurs(todo'[p].rec)
        /\ TimerKept(p)'
        /\ \A q \in Managers \ {p} : todo'[q] = todo[q]
    BY <2>3, StartsArms
  <2> QED
    BY <1>2, <1>4, <2>1, <2>4 DEF StaysArmed
<1> QED
  BY <1>3, <1>4

\* The interval schedule stays armed.
LEMMA ArmedStep ==
  ASSUME ScheduleTyped, ArmedInv, [ScheduleNext]_scheduleVars
  PROVE  ArmedInv'
<1>1. CASE UNCHANGED scheduleVars
  BY <1>1 DEF scheduleVars, ArmedInv, AllRecur, Recurs, TimerKept
<1>2. CASE ScheduleNext
  <2> SUFFICES ASSUME trigger'.kind = "interval", ~stopped'
               PROVE  AllRecur' /\ \A p \in Managers : todo'[p].why # "stop"
    BY DEF ArmedInv
  <2>1. ~stopped /\ \A p \in Managers : todo'[p].why # "stop"
    BY <1>2, Zenon DEF ScheduleNext
  <2>2. /\ \A p \in Managers : Ordinary(p) => trigger' = trigger /\ owns' = owns
        /\ \A p \in Managers : Claim(p) \/ NoteClaimed(p) => trigger' = trigger /\ owns' = owns
        /\ \A l \in launching : StartWork(l) \/ LaunchReturns(l) \/ LaunchFails(l)
                                  => trigger' = trigger /\ owns' = owns
        /\ \A r \in RunIds : RunEnds(r) => trigger' = trigger /\ owns' = owns
        /\ Tick => trigger' = trigger /\ owns' = owns
    <3>1. ASSUME NEW p \in Managers,
                 BindSession(p) \/ Fire(p) \/ RunManual(p) \/ RunDue(p) \/ Pause(p)
                   \/ ResumeSchedule(p) \/ Delete(p) \/ WriteRecord(p) \/ RemoveLock(p)
                   \/ NoteSkipped(p) \/ NoteOver(p)
          PROVE  trigger' = trigger /\ owns' = owns
      BY <3>1 DEF BindSession, Fire, RunManual, RunDue, Pause, ResumeSchedule, Delete, WriteRecord,
                  RemoveLock, NoteSkipped, NoteOver
    <3>2. ASSUME NEW p \in Managers,
                 Miss(p) \/ NoteAttached(p) \/ Satisfy(p) \/ Judge(p) \/ CompleteRun(p)
                   \/ DeleteFiles(p) \/ FireFails(p) \/ Die(p) \/ Claim(p) \/ NoteClaimed(p)
                   \/ \E r \in RunIds : CompleteScheduled(p, r)
          PROVE  trigger' = trigger /\ owns' = owns
      BY <3>2 DEF Miss, NoteAttached, Satisfy, Judge, CompleteRun, DeleteFiles, FireFails, Die, Claim,
                  NoteClaimed, CompleteScheduled
    <3> QED
      BY <3>1, <3>2 DEF Ordinary, StartWork, LaunchReturns, LaunchFails, RunEnds, Tick
  <2>3. \/ \E p \in Managers : Ordinary(p) \/ Claim(p) \/ NoteClaimed(p)
        \/ \E l \in launching : StartWork(l) \/ LaunchReturns(l) \/ LaunchFails(l)
        \/ \E r \in RunIds : RunEnds(r)
        \/ Tick
    BY <1>2 DEF ScheduleNext, Ordinary
  <2>4. trigger' = trigger /\ owns' = owns /\ trigger.kind = "interval"
    BY <2>2, <2>3
  <2>5. AllRecur /\ \A p \in Managers : todo[p].why # "stop"
    BY <2>1, <2>4 DEF ArmedInv
  <2>6. owns \subseteq Managers /\ launching \subseteq Launches
    BY DEF ScheduleTyped, FilesTyped, CountsTyped
  <2>7. ASSUME NEW p \in Managers, Ordinary(p) \/ Claim(p) \/ NoteClaimed(p) PROVE AllRecur'
    <3>1. StaysArmed(p)
      BY <2>1, <2>4, <2>5, <2>7, OrdinaryArmed, ClaimArmed, LaunchArmed
    <3> QED
      BY <2>4, <2>5, <2>6, <3>1, StaysArmedAll
  <2>8. ASSUME NEW l \in launching, LaunchReturns(l) \/ LaunchFails(l) PROVE AllRecur'
    <3>1. PICK p \in Managers : p = l.by
      BY <2>6 DEF Launches
    <3>2. StaysArmed(p)
      BY <2>4, <2>5, <2>8, <3>1, LaunchArmed
    <3> QED
      BY <2>4, <2>5, <2>6, <3>2, StaysArmedAll
  <2>9. ASSUME (\E l \in launching : StartWork(l)) \/ (\E r \in RunIds : RunEnds(r)) \/ Tick
        PROVE  AllRecur'
    <3>1. store' = store /\ todo' = todo /\ launching' = launching /\ timer' = timer /\ bound' = bound
      BY <2>9 DEF StartWork, RunEnds, Tick
    <3> QED
      BY <2>4, <2>5, <3>1 DEF AllRecur, Recurs, TimerKept
  <2> QED
    BY <2>1, <2>3, <2>7, <2>8, <2>9
<1> QED
  BY <1>1, <1>2

LEMMA ScheduleInitially ==
  ASSUME ScheduleInit
  PROVE  ScheduleTyped /\ LockInv /\ ArmedInv
<1>1. /\ 0 \in 0..MaxTime /\ 0 \in 0..MaxLaunches /\ 0 \in 0..MaxCommands
      /\ 0 \in 0..MaxFireErrors /\ 0 \in 0..MaxProcessDeaths
      /\ NoTime \in Times /\ Every \in Times /\ Every # NoTime /\ 0 \in AnyRun
  BY ScheduleAssumption DEF Times, NoTime, Every, AnyRun
<1>2. Created \in Directory /\ Created.exists /\ Recurs(Created) /\ Created.lock = 0
      /\ Created.history = <<>>
  <2>1. [r \in RunIds |-> "none"] \in [RunIds -> Receipts] /\ <<>> \in Seq(AnyRun)
    BY EmptySeq DEF Receipts
  <2> QED
    BY <1>1, <2>1 DEF Created, Directory, Recurs
<1>3. CountsTyped
  BY <1>1 DEF ScheduleInit, CountsTyped
<1>4. StoreTyped
  BY <1>2, EmptySeq, ScheduleAssumption DEF ScheduleInit, StoreTyped
<1>5. timer \in [Managers -> Times] /\ launching = {}
  BY <1>1 DEF ScheduleInit
<1>6. todo \in [Managers -> Handlers] /\ \A p \in Managers : todo[p] = AtRest
  BY IdleHarmless DEF ScheduleInit, Harmless
<1>7. HandlersTyped
  BY <1>6, IdleHarmless DEF HandlersTyped, Harmless, Sound
<1>8. unguarded \in BOOLEAN /\ stopped \in BOOLEAN
  BY DEF ScheduleInit
<1>9. LockInv
  BY <1>5, <1>6, IdleHarmless DEF ScheduleInit, LockInv, Going, Claims, Harmless
<1>10. AllRecur
  <2>1. \A p \in bound : p \in Managers /\ timer[p] # NoTime
    BY <1>1 DEF ScheduleInit
  <2> QED
    BY <1>2, <1>5, <1>6, <2>1, IdleHarmless DEF ScheduleInit, AllRecur, TimerKept
<1>11. ArmedInv
  BY <1>6, <1>10, IdleHarmless DEF ArmedInv
<1> QED
  BY <1>3, <1>4, <1>5, <1>7, <1>8, <1>9, <1>11 DEF ScheduleTyped, FilesTyped

-----------------------------------------------------------------------------
\* The inductive invariant: the domains of the files and of the handlers; every run that
\* goes on has the lock, as long as no lock of such a run was removed; and an interval
\* schedule that was never to be stopped has a next occurrence in the record, in every
\* copy of it and in every launch, and a timer armed or to be armed in every process of
\* its session.
THEOREM ScheduleInductive == ScheduleSpec => [](ScheduleTyped /\ LockInv /\ ArmedInv)
<1>1. ScheduleInit => ScheduleTyped /\ LockInv /\ ArmedInv
  BY ScheduleInitially
<1>2. ScheduleTyped /\ LockInv /\ ArmedInv /\ [ScheduleNext]_scheduleVars
        => (ScheduleTyped /\ LockInv /\ ArmedInv)'
  BY ScheduleLockStep, ArmedStep
<1> QED
  BY <1>1, <1>2, PTL DEF ScheduleSpec

\* Every variable stays within its domain (scheduled-runs.ts:60).
THEOREM ScheduleTypeCorrect == ScheduleSpec => []ScheduleTypeOK
<1>1. ScheduleTyped => ScheduleTypeOK
  <2> SUFFICES ASSUME ScheduleTyped PROVE ScheduleTypeOK
    OBVIOUS
  <2>1. CountsTyped /\ StoreTyped /\ timer \in [Managers -> Times] /\ launching \subseteq Launches
        /\ todo \in [Managers -> Handlers]
    BY DEF ScheduleTyped, FilesTyped, HandlersTyped
  <2>2. /\ store.next \in Times /\ store.active \in RunIds \cup {0} /\ store.lock \in RunIds \cup {0}
        /\ store.exists \in BOOLEAN /\ store.paused \in BOOLEAN
        /\ store.history \in Seq(RunIds \cup {0}) /\ Len(store.history) <= MaxHistory
        /\ store.receipt \in [RunIds -> {"none", "claimed", "attached", "over"}]
    BY <2>1 DEF StoreTyped, Directory, AnyRun, Receipts
  <2>3. \A p \in Managers :
          /\ todo[p].rec \in Copies /\ todo[p].ops \in Seq(Operations)
          /\ todo[p].run \in RunIds \cup {0} /\ todo[p].arm \in {"no", "next", "later"}
    BY <2>1 DEF Handlers, AnyRun
  <2>4. \A l \in launching : l.run \in RunIds /\ l.by \in Managers /\ l.rec \in Copies
    BY <2>1 DEF Launches
  <2> QED
    BY <2>1, <2>2, <2>3, <2>4 DEF ScheduleTypeOK, CountsTyped
<1> QED
  BY <1>1, ScheduleInductive, PTL

\* Two runs of the schedule do not execute at once while no handler has removed the lock
\* of a run that goes on (scheduled-runs.ts:860, 870): an executing run goes on, so that it
\* is the one of the lock.
THEOREM ScheduleSkipsOverlap == ScheduleSpec => []SkipsOverlap
<1>1. LockInv => SkipsOverlap
  BY DEF LockInv, SkipsOverlap, OneExecutes, Going
<1> QED
  BY <1>1, ScheduleInductive, PTL

\* An interval schedule stays armed (scheduled-runs.ts:792, 803, 825).
THEOREM ScheduleKeepsArmed == ScheduleSpec => []KeepsArmed
<1>1. ScheduleTyped /\ ArmedInv => KeepsArmed
  <2> SUFFICES ASSUME ScheduleTyped, ArmedInv, trigger.kind = "interval", ~stopped,
                      NEW p \in bound \cap owns, todo[p] = AtRest, \A l \in launching : l.by # p
               PROVE  timer[p] # NoTime
    BY DEF KeepsArmed
  <2> QED
    BY IdleHarmless DEF ArmedInv, AllRecur, TimerKept
<1> QED
  BY <1>1, ScheduleInductive, PTL
=============================================================================
