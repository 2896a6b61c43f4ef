------------------------ MODULE ResultDeliveryProofs ------------------------
(***************************************************************************)
(* Proofs about ResultDelivery for any number of results, instances of the *)
(* extension, failures and session changes: its types, who may touch a     *)
(* file, that no completion is sent twice, and that marks are true; and,   *)
(* where no result is replaced between two steps of its handler, that the  *)
(* newest one is kept until it was told and that ResultOutbox is           *)
(* implemented.                                                            *)
(***************************************************************************)
EXTENDS ResultDelivery, TLAPS

Records ==
  [pc : Waiting \cup Running, v : 0..N, marked : BOOLEAN, fresh : BOOLEAN,
   kept : BOOLEAN, intercom : BOOLEAN, accepted : BOOLEAN]

\* The two halves of TypeOK: the handlers with the loop, and all the rest.
HandlersOK ==
  /\ h \in [Instances -> Records] /\ loop \in Instances \cup {0}
  /\ \A i \in Instances :
       (h[i].pc \in Running <=> loop = i) /\ (h[i].v = 0 => h[i].pc = "idle")

StateOK ==
  /\ pub \in Payload \cup {None} /\ pend \in Payload \cup {None}
  /\ written \in 0..N /\ renaming \in BOOLEAN
  /\ cur \in Instances /\ here \in BOOLEAN /\ claimed \in BOOLEAN
  /\ seen \in [Instances -> SUBSET Keys]
  /\ notified \in [Instances -> SUBSET Keys]
  /\ registry \subseteq Keys
  /\ sent \in [Keys -> Nat] /\ acked \subseteq Keys
  /\ replay \in 0..N
  /\ failures \in 0..MaxFailures /\ switches \in 0..MaxSwitches

LEMMA Halves == TypeOK <=> HandlersOK /\ StateOK
  BY DEF TypeOK, HandlersOK, StateOK, Records
LEMMA HalvesNext == HandlersOK' /\ StateOK' => TypeOK'
  BY DEF TypeOK, HandlersOK, StateOK, Records

LEMMA IdleTypes == Idle \in Records /\ Idle.pc = "idle"
  BY DeliveryAssumption DEF Idle, Records, Waiting

LEMMA Disjoint == "idle" \notin Running /\ \A pc \in Running : pc \notin Waiting
  BY DEF Running, Waiting

LEMMA InitType == Init => TypeOK
<1> SUFFICES ASSUME Init PROVE TypeOK
  OBVIOUS
<1>1. HandlersOK
  BY IdleTypes, Disjoint, DeliveryAssumption DEF Init, HandlersOK
<1>2. StateOK
  <2>1. /\ seen \in [Instances -> SUBSET Keys] /\ notified \in [Instances -> SUBSET Keys]
        /\ sent \in [Keys -> Nat]
    BY DEF Init
  <2>2. /\ here \in BOOLEAN /\ claimed \in BOOLEAN /\ renaming \in BOOLEAN
        /\ cur \in Instances
    BY DeliveryAssumption DEF Init
  <2>3. /\ written \in 0..N /\ replay \in 0..N
        /\ failures \in 0..MaxFailures /\ switches \in 0..MaxSwitches
    BY DeliveryAssumption DEF Init
  <2>4. pub = None /\ pend = None /\ registry = {} /\ acked = {}
    BY DEF Init
  <2> QED
    BY <2>1, <2>2, <2>3, <2>4 DEF StateOK
<1> QED
  BY <1>1, <1>2, Halves

\* A handler that has begun is about a result of the run.
LEMMA Begun ==
  ASSUME HandlersOK, NEW i \in Instances, h[i].pc # "idle"
  PROVE  h[i] \in Records /\ h[i].v \in Versions /\ Key[h[i].v] \in Keys
<1>1. h[i] \in Records /\ h[i].v \in Versions
  BY DeliveryAssumption DEF HandlersOK, Records, Versions
<1> QED
  BY <1>1 DEF Keys

\* A handler that moves takes the loop into a section or leaves it outside.
LEMMA Moves ==
  ASSUME HandlersOK, NEW i \in Instances, loop \in {0, i},
         NEW r \in Records, r.v = 0 => r.pc = "idle", h' = [h EXCEPT ![i] = r],
         loop' = IF r.pc \in Running THEN i ELSE 0
  PROVE  HandlersOK'
  BY DeliveryAssumption DEF HandlersOK

LEMMA ReturnMoves ==
  ASSUME HandlersOK, NEW i \in Instances, loop \in {0, i}, Return(i)
  PROVE  HandlersOK'
  BY Moves, IdleTypes, Disjoint DEF Return

LEMMA AtMoves ==
  ASSUME HandlersOK, NEW i \in Instances, loop \in {0, i}, h[i].pc # "idle",
         NEW pc \in Waiting \cup Running, At(i, pc),
         loop' = IF pc \in Running THEN i ELSE 0
  PROVE  HandlersOK'
<1> DEFINE r == [h[i] EXCEPT !.pc = pc]
<1>1. r \in Records /\ r.pc = pc /\ r.v # 0
  BY Begun, DeliveryAssumption DEF Records, Versions
<1>2. h' = [h EXCEPT ![i] = r]
  BY DEF At, HandlersOK
<1> HIDE DEF r
<1> QED
  BY <1>1, <1>2, Moves

LEMMA SettleMoves ==
  ASSUME HandlersOK, NEW i \in Instances, loop \in {0, i}, h[i].pc # "idle",
         NEW accepted \in BOOLEAN, Settle(i, accepted)
  PROVE  HandlersOK'
<1> DEFINE r == [h[i] EXCEPT !.pc = "resume", !.accepted = accepted]
<1>1. r \in Records /\ r.pc = "resume" /\ r.v # 0
  <2>1. h[i] \in Records /\ h[i].v # 0
    BY Begun, DeliveryAssumption DEF Versions
  <2>2. "resume" \in Waiting \cup Running
    BY DEF Waiting
  <2> QED
    BY <2>1, <2>2 DEF Records
<1>2. h' = [h EXCEPT ![i] = r] /\ loop' = 0
  BY DEF Settle, HandlersOK
<1>3. "resume" \notin Running
  BY DEF Running
<1> HIDE DEF r
<1> QED
  BY <1>1, <1>2, <1>3, Moves

\* A session change marks the handlers stale and moves none into the loop.
LEMMA StaleMoves ==
  ASSUME HandlersOK, loop = 0, loop' = 0, NEW old \in SUBSET Instances,
         \A i \in old : h[i].pc = "held",
         h' = [i \in Instances |-> IF i \in old
           THEN [Stale[i] EXCEPT !.pc = "resume", !.accepted = FALSE] ELSE Stale[i]]
  PROVE  HandlersOK'
<1>1. ASSUME NEW i \in Instances
      PROVE  /\ h'[i] \in Records /\ h'[i].pc \notin Running
             /\ h'[i].v = 0 => h'[i].pc = "idle"
  <2>1. h[i] \in Records /\ h[i].pc \notin Running /\ (h[i].v = 0 => h[i].pc = "idle")
    BY DeliveryAssumption DEF HandlersOK
  <2>2. /\ Stale[i] \in Records
        /\ Stale[i].pc = h[i].pc /\ Stale[i].v = h[i].v
    BY <2>1 DEF Stale, Records
  <2>3. CASE i \in old
    BY <2>1, <2>2, <2>3 DEF Records, Waiting, Running
  <2>4. CASE i \notin old
    BY <2>1, <2>2, <2>4
  <2> QED
    BY <2>3, <2>4
<1> QED
  BY <1>1, DeliveryAssumption DEF HandlersOK

LEMMA PromoteTypes ==
  ASSUME StateOK, NEW p \in Payload \cup {None}, Promote(p)
  PROVE  /\ pub' \in Payload \cup {None} /\ pend' \in Payload \cup {None}
         /\ failures' \in 0..MaxFailures
  BY DeliveryAssumption DEF StateOK, Promote, Fail

LEMMA FailTypes == ASSUME StateOK, Fail PROVE failures' \in 0..MaxFailures
  BY DeliveryAssumption DEF StateOK, Fail

LEMMA EmitTypes ==
  ASSUME HandlersOK, StateOK, NEW i \in Instances, loop \in {0, i},
         h[i].pc # "idle", Emit(i)
  PROVE  /\ HandlersOK'
         /\ notified' \in [Instances -> SUBSET Keys] /\ registry' \subseteq Keys
         /\ sent' \in [Keys -> Nat] /\ failures' \in 0..MaxFailures
<1>1. Key[h[i].v] \in Keys
  BY Begun
<1>2. Settle(i, TRUE) \/ Settle(i, FALSE)
  BY DEF Emit
<1>3. HandlersOK'
  BY <1>2, SettleMoves
<1>4. /\ notified' \in [Instances -> SUBSET Keys] /\ registry' \subseteq Keys
      /\ sent' \in [Keys -> Nat] /\ failures' \in 0..MaxFailures
  <2>1. /\ notified \in [Instances -> SUBSET Keys] /\ registry \subseteq Keys
        /\ sent \in [Keys -> Nat] /\ failures \in 0..MaxFailures
    BY DEF StateOK
  <2>2. /\ notified' = notified \/ notified' = [notified EXCEPT ![i] = @ \cup {Key[h[i].v]}]
        /\ registry' = registry \/ registry' = registry \cup {Key[h[i].v]}
        /\ sent' = sent \/ sent' = [sent EXCEPT ![Key[h[i].v]] = @ + 1]
        /\ failures' = failures \/ Fail
    BY DEF Emit
  <2>3. sent' \in [Keys -> Nat]
    BY <1>1, <2>1, <2>2
  <2>4. notified' \in [Instances -> SUBSET Keys] /\ registry' \subseteq Keys
    BY <1>1, <2>1, <2>2
  <2>5. failures' \in 0..MaxFailures
    BY <2>1, <2>2, FailTypes
  <2> QED
    BY <2>3, <2>4, <2>5
<1> QED
  BY <1>3, <1>4

LEMMA StepType == TypeOK /\ [Next]_vars => TypeOK'
<1> SUFFICES ASSUME HandlersOK, StateOK, [Next]_vars PROVE HandlersOK' /\ StateOK'
  BY Halves, HalvesNext
<1> USE DeliveryAssumption
<1> USE DEF files, session, memory, history
<1>1. CASE Writer /\ WriteResult
  <2>1. HandlersOK'
    BY <1>1 DEF Writer, WriteResult, HandlersOK
  <2>2. StateOK'
    <3>1. [v |-> written + 1, marked |-> FALSE] \in Payload /\ written + 1 \in 0..N
      BY <1>1 DEF Writer, WriteResult, StateOK, Payload, Versions
    <3>2. CASE Fine
      BY <1>1, <3>1, <3>2 DEF Writer, WriteResult, StateOK
    <3>3. CASE ~Fine
      BY <1>1, <3>1, <3>3, PromoteTypes DEF Writer, WriteResult, StateOK
    <3> QED
      BY <3>2, <3>3
  <2> QED
    BY <2>1, <2>2
<1>2. CASE Writer /\ RenameResult
  <2>1. HandlersOK'
    BY <1>2 DEF Writer, RenameResult, HandlersOK
  <2>2. StateOK'
    <3>1. CASE pend = None
      BY <1>2, <3>1 DEF Writer, RenameResult, StateOK
    <3>2. CASE pend # None
      <4>1. pend \in Payload \cup {None} /\ Promote(pend)
        BY <1>2, <3>2 DEF Writer, RenameResult, StateOK
      <4> QED
        BY <1>2, <4>1, PromoteTypes DEF Writer, RenameResult, StateOK
    <3> QED
      BY <3>1, <3>2
  <2> QED
    BY <2>1, <2>2
<1>3. CASE SwitchSession
  <2>1. HandlersOK'
    <3>1. Stale = [i \in Instances |-> IF i \in {}
             THEN [Stale[i] EXCEPT !.pc = "resume", !.accepted = FALSE] ELSE Stale[i]]
      BY DEF Stale
    <3>2. loop = 0 /\ loop' = 0 /\ h' = Stale
      BY <1>3 DEF SwitchSession, Free
    <3>3. h' = [i \in Instances |-> IF i \in {}
             THEN [Stale[i] EXCEPT !.pc = "resume", !.accepted = FALSE] ELSE Stale[i]]
      BY <3>1, <3>2
    <3>4. {} \in SUBSET Instances /\ \A i \in {} : h[i].pc = "held"
      OBVIOUS
    <3> QED
      BY <3>2, <3>3, <3>4, StaleMoves
  <2>2. StateOK'
    <3>1. here' \in BOOLEAN /\ claimed' \in {claimed, TRUE}
      BY <1>3 DEF SwitchSession
    <3>2. switches' \in 0..MaxSwitches
      BY <1>3 DEF SwitchSession, StateOK
    <3>3. claimed' \in BOOLEAN
      BY <3>1 DEF StateOK
    <3>4. UNCHANGED <<pub, pend, written, renaming, cur, seen, notified,
                      registry, sent, acked, replay, failures>>
      BY <1>3 DEF SwitchSession
    <3> QED
      BY <3>1, <3>2, <3>3, <3>4 DEF StateOK
  <2> QED
    BY <2>1, <2>2
<1>4. CASE Reload
  <2>1. HandlersOK'
    <3> DEFINE old == {i \in Instances : h[i].pc = "held"}
    <3>1. \A i \in old : h[i].pc = "held"
      OBVIOUS
    <3>2. h' = [i \in Instances |-> IF i \in old
             THEN [Stale[i] EXCEPT !.pc = "resume", !.accepted = FALSE] ELSE Stale[i]]
      BY <1>4 DEF Reload
    <3>3. old \in SUBSET Instances /\ loop = 0 /\ loop' = 0
      BY <1>4 DEF Reload, Free
    <3> HIDE DEF old
    <3> QED
      BY <3>1, <3>2, <3>3, StaleMoves
  <2>2. StateOK'
    BY <1>4 DEF Reload, StateOK
  <2> QED
    BY <2>1, <2>2
<1>5. ASSUME NEW i \in Instances, Read(i) PROVE HandlersOK' /\ StateOK'
  <2> DEFINE p == IF pend # None THEN pend ELSE pub
             r == [Idle EXCEPT !.pc = "judge", !.v = p.v, !.marked = p.marked,
                               !.fresh = TRUE]
  <2>1. p \in Payload
    BY <1>5 DEF Read, StateOK
  <2>2. r \in Records /\ r.pc \in Running /\ r.v # 0
    <3>1. p.v \in 0..N /\ p.v # 0 /\ p.marked \in BOOLEAN
      BY <2>1 DEF Payload, Versions
    <3>2. "judge" \in Running
      BY DEF Running
    <3> HIDE DEF p
    <3> QED
      BY <3>1, <3>2, IdleTypes DEF Records, Idle
  <2>3. h' = [h EXCEPT ![i] = r] /\ loop = 0 /\ loop' = i
    BY <1>5 DEF Read, Free
  <2>4. StateOK'
    <3>1. CASE pend = None
      BY <1>5, <3>1 DEF Read, StateOK
    <3>2. CASE pend # None
      <4>1. pend \in Payload \cup {None} /\ Promote(pend)
        BY <1>5, <3>2 DEF Read, StateOK
      <4> QED
        BY <1>5, <4>1, PromoteTypes DEF Read, StateOK
    <3> QED
      BY <3>1, <3>2
  <2> HIDE DEF r
  <2> QED
    BY <2>2, <2>3, <2>4, Moves
<1>6. ASSUME NEW i \in Instances, Skip(i) PROVE HandlersOK' /\ StateOK'
  <2>1. PICK kept \in BOOLEAN :
          Record(i, kept) /\ IF kept THEN At(i, "check") /\ UNCHANGED loop ELSE Return(i)
    BY <1>6 DEF Skip
  <2>2. loop = i /\ h[i].pc = "judge"
    BY <1>6 DEF Skip, In
  <2>3. h[i].v \in 0..N /\ Key[h[i].v] \in Keys
    <3>1. h[i].v \in Versions /\ Key[h[i].v] \in Keys
      BY <2>2, Begun
    <3> QED
      BY <3>1 DEF Versions
  <2>4. replay' \in 0..N /\ failures' \in 0..MaxFailures
    BY <2>1, <2>3, FailTypes DEF Record, StateOK
  <2>5. StateOK'
    BY <1>6, <2>3, <2>4 DEF Skip, StateOK
  <2>6. HandlersOK'
    BY <2>1, <2>2, AtMoves, ReturnMoves DEF Running
  <2> QED
    BY <2>5, <2>6
<1>7. ASSUME NEW i \in Instances, Announce(i) PROVE HandlersOK' /\ StateOK'
  <2>1. PICK kept \in BOOLEAN, awaits \in {FALSE, Intercom} :
          /\ Record(i, kept)
          /\ h' = [h EXCEPT ![i].kept = kept,
                            ![i].pc = IF awaits THEN "intercom" ELSE "deliver"]
          /\ loop' = IF awaits THEN 0 ELSE i
    BY <1>7 DEF Announce
  <2>2. loop = i /\ h[i].pc = "judge" /\ awaits \in BOOLEAN
    BY <1>7 DEF Announce, In
  <2>3. h[i] \in Records /\ h[i].v \in 0..N /\ h[i].v # 0
    BY <2>2, Begun DEF Versions
  <2>4. StateOK'
    BY <1>7, <2>1, <2>3, FailTypes DEF Announce, Record, StateOK
  <2> DEFINE r == [h[i] EXCEPT !.kept = kept,
                               !.pc = IF awaits THEN "intercom" ELSE "deliver"]
  <2>5. r \in Records /\ r.v # 0 /\ (r.pc \in Running <=> ~awaits)
    BY <2>2, <2>3 DEF Records, Running, Waiting
  <2>6. h' = [h EXCEPT ![i] = r]
    BY <2>1 DEF HandlersOK
  <2> HIDE DEF r
  <2>7. HandlersOK'
    BY <2>1, <2>2, <2>5, <2>6, Moves
  <2> QED
    BY <2>4, <2>7
<1>8. ASSUME NEW i \in Instances, EnrichFails(i) PROVE HandlersOK' /\ StateOK'
  <2>1. loop = i /\ h[i].v \in 0..N
    BY <1>8, Begun DEF EnrichFails, In, Versions
  <2>2. StateOK'
    BY <1>8, <2>1, FailTypes DEF EnrichFails, StateOK
  <2> QED
    BY <1>8, <2>1, <2>2, ReturnMoves DEF EnrichFails
<1>9. ASSUME NEW i \in Instances, IntercomAnswers(i) PROVE HandlersOK' /\ StateOK'
  <2>1. loop = 0 /\ h[i].pc = "intercom"
    BY <1>9 DEF IntercomAnswers, Free
  <2>2. h[i] \in Records /\ h[i].v # 0 /\ Key[h[i].v] \in Keys
    BY <2>1, Begun DEF Versions
  <2>3. StateOK'
    BY <1>9, <2>2 DEF IntercomAnswers, StateOK
  <2>4. PICK yes \in BOOLEAN :
          IF OwnsCompletion(i)
          THEN h' = [h EXCEPT ![i].pc = "deliver", ![i].intercom = yes] /\ loop' = i
          ELSE Return(i)
    BY <1>9 DEF IntercomAnswers
  <2> DEFINE r == [h[i] EXCEPT !.pc = "deliver", !.intercom = yes]
  <2>5. r \in Records /\ r.v # 0 /\ r.pc \in Running
    BY <2>2 DEF Records, Running
  <2>6. OwnsCompletion(i) => h' = [h EXCEPT ![i] = r] /\ loop' = i
    BY <2>4 DEF HandlersOK
  <2> HIDE DEF r
  <2>7. HandlersOK'
    BY <2>1, <2>4, <2>5, <2>6, Moves, ReturnMoves
  <2> QED
    BY <2>3, <2>7
<1>10. ASSUME NEW i \in Instances, Deliver(i) PROVE HandlersOK' /\ StateOK'
  <2>1. loop = i /\ h[i].pc = "deliver"
    BY <1>10 DEF Deliver, In
  <2>2. CASE Emit(i)
    BY <1>10, <2>1, <2>2, EmitTypes DEF Deliver, StateOK
  <2>3. CASE ~Emit(i)
    <3>1. StateOK'
      BY <1>10, <2>3 DEF Deliver, StateOK
    <3>2. Settle(i, TRUE) \/ (At(i, "held") /\ loop' = 0)
      BY <1>10, <2>3 DEF Deliver
    <3> QED
      BY <2>1, <3>1, <3>2, AtMoves, SettleMoves DEF Running, Waiting
  <2> QED
    BY <2>2, <2>3
<1>11. ASSUME NEW i \in Instances, EmitGroup(i) PROVE HandlersOK' /\ StateOK'
  <2>1. loop = 0 /\ h[i].pc = "held" /\ Emit(i)
    BY <1>11 DEF EmitGroup, Free
  <2> QED
    BY <1>11, <2>1, EmitTypes DEF EmitGroup, StateOK
<1>12. ASSUME NEW i \in Instances, Resume(i) PROVE HandlersOK' /\ StateOK'
  <2>1. loop = 0 /\ h[i].pc = "resume"
    BY <1>12 DEF Resume, Free
  <2>2. StateOK'
    BY <1>12 DEF Resume, StateOK
  <2>3. (At(i, "mark") /\ loop' = i) \/ Return(i)
    BY <1>12 DEF Resume
  <2> QED
    BY <2>1, <2>2, <2>3, AtMoves, ReturnMoves DEF Running
<1>13. ASSUME NEW i \in Instances, Mark(i) PROVE HandlersOK' /\ StateOK'
  <2>1. loop = i /\ h[i].pc = "mark"
    BY <1>13 DEF Mark, In
  <2>2. [v |-> h[i].v, marked |-> TRUE] \in Payload
    BY <2>1, Begun DEF Payload
  <2>3. StateOK'
    BY <1>13, <2>2, FailTypes DEF Mark, StateOK
  <2>4. (At(i, "promote") /\ loop' = i) \/ Return(i)
    BY <1>13, <2>1 DEF Mark
  <2> QED
    BY <2>1, <2>3, <2>4, AtMoves, ReturnMoves DEF Running
<1>14. ASSUME NEW i \in Instances, PromoteMark(i) PROVE HandlersOK' /\ StateOK'
  <2>1. loop = i /\ h[i].pc = "promote"
    BY <1>14 DEF PromoteMark, In
  <2>2. Key[h[i].v] \in Keys
    BY <2>1, Begun
  <2>3. /\ pub' \in Payload \cup {None} /\ pend' \in Payload \cup {None}
        /\ failures' \in 0..MaxFailures
    <3>1. CASE pend = None
      BY <1>14, <3>1 DEF PromoteMark, StateOK
    <3>2. CASE pend # None
      <4>1. pend \in Payload \cup {None} /\ Promote(pend)
        BY <1>14, <3>2 DEF PromoteMark, StateOK
      <4> QED
        BY <4>1, PromoteTypes
    <3> QED
      BY <3>1, <3>2
  <2>4. StateOK'
    BY <1>14, <2>2, <2>3 DEF PromoteMark, StateOK
  <2>5. (At(i, "unlink") /\ loop' = i) \/ Return(i)
    BY <1>14, <2>1 DEF PromoteMark
  <2> QED
    BY <2>1, <2>4, <2>5, AtMoves, ReturnMoves DEF Running
<1>15. ASSUME NEW i \in Instances, Check(i) PROVE HandlersOK' /\ StateOK'
  <2>1. loop = i /\ h[i].pc = "check"
    BY <1>15 DEF Check, In
  <2>2. StateOK'
    BY <1>15 DEF Check, StateOK
  <2>3. (At(i, "unlink") /\ loop' = i) \/ Return(i)
    BY <1>15, <2>1 DEF Check
  <2> QED
    BY <2>1, <2>2, <2>3, AtMoves, ReturnMoves DEF Running
<1>16. ASSUME NEW i \in Instances, Unlink(i) PROVE HandlersOK' /\ StateOK'
  <2>1. loop = i /\ h[i].pc = "unlink"
    BY <1>16 DEF Unlink, In
  <2>2. StateOK'
    BY <1>16, FailTypes DEF Unlink, StateOK
  <2>3. (At(i, "unindex") /\ loop' = i) \/ Return(i)
    BY <1>16, <2>1 DEF Unlink
  <2> QED
    BY <2>1, <2>2, <2>3, AtMoves, ReturnMoves DEF Running
<1>17. ASSUME NEW i \in Instances, Unindex(i) PROVE HandlersOK' /\ StateOK'
  <2>1. loop = i /\ Return(i)
    BY <1>17 DEF Unindex, In
  <2>2. StateOK'
    BY <1>17, FailTypes DEF Unindex, StateOK
  <2> QED
    BY <2>1, <2>2, ReturnMoves
<1>18. CASE UNCHANGED vars
  BY <1>18 DEF vars, HandlersOK, StateOK
<1> QED
  BY <1>1, <1>2, <1>3, <1>4, <1>5, <1>6, <1>7, <1>8, <1>9, <1>10, <1>11, <1>12, <1>13,
     <1>14, <1>15, <1>16, <1>17, <1>18 DEF Next, Writer, Handler

-----------------------------------------------------------------------------
\* A section of the loop runs under the present epoch of the session's owner.
Authority == \A i \in Instances : h[i].pc \in Running => OwnsCompletion(i)

\* The registry holds what was sent, and it was sent once.
SentOnce == \A k \in Keys : sent[k] = IF k \in registry THEN 1 ELSE 0

\* What the memory of an instance holds was told.
MemoryTold ==
  \A i \in Instances : seen[i] \subseteq ToldKeys /\ notified[i] \subseteq ToldKeys

\* What a handler takes for told was told.
Truthful(r) ==
  r.marked \/ r.intercom \/ r.accepted \/ r.pc \in {"mark", "promote"}
    => Key[r.v] \in ToldKeys

HandlersTold == \A i \in Instances : Truthful(h[i])

Told == SentOnce /\ MarkedWasTold /\ MemoryTold /\ HandlersTold

\* The inductive invariant: NotifiedOnce needs the registry to be exact, and
\* MarkedWasTold that no memory or flag a handler relies on claims too much.
IInv == TypeOK /\ Authority /\ Told

-----------------------------------------------------------------------------
\* The type invariant: every variable keeps its type, the loop is inside the
\* one handler that is in a section, and a begun handler is about a result.
THEOREM TypeCorrect == Spec => []TypeOK
<1>1. Init => TypeOK
  BY InitType
<1>2. TypeOK /\ [Next]_vars => TypeOK'
  BY StepType
<1> QED
  BY <1>1, <1>2, PTL DEF Spec

-----------------------------------------------------------------------------
\* No handler is in a section while the loop is free.
LEMMA NoneRuns ==
  ASSUME TypeOK, Free PROVE \A i \in Instances : h[i].pc \notin Running
  BY DeliveryAssumption DEF TypeOK, Free

\* How a step of a handler changes its record.
Kept(i) ==
  /\ \A j \in Instances : j # i => h'[j] = h[j]
  /\ h'[i].fresh = h[i].fresh /\ h'[i].v = h[i].v /\ h'[i].marked = h[i].marked

Ended(i) == h' = [h EXCEPT ![i] = Idle]

LEMMA AtKeeps ==
  ASSUME h \in [Instances -> Records], NEW i \in Instances, NEW pc, At(i, pc)
  PROVE  /\ Kept(i) /\ h'[i].pc = pc
         /\ h'[i].accepted = h[i].accepted /\ h'[i].intercom = h[i].intercom
  BY DEF At, Kept, Records

LEMMA SettleKeeps ==
  ASSUME h \in [Instances -> Records], NEW i \in Instances, NEW b, Settle(i, b)
  PROVE  /\ Kept(i) /\ h'[i].pc = "resume"
         /\ h'[i].accepted = b /\ h'[i].intercom = h[i].intercom
  BY DEF Settle, Kept, Records

\* A step of a handler is a return, or keeps what the handler is about.
LEMMA HandlerKeeps ==
  ASSUME h \in [Instances -> Records], NEW i \in Instances, Handler(i)
  PROVE  Ended(i) \/ Kept(i)
<1>1. Return(i) => Ended(i)
  BY DEF Return, Ended
<1>2. (\E pc : At(i, pc)) => Kept(i)
  BY AtKeeps
<1>3. (Settle(i, TRUE) \/ Settle(i, FALSE)) => Kept(i)
  BY SettleKeeps
<1>4. Announce(i) => Kept(i)
  BY DEF Announce, Kept, Records
<1>5. IntercomAnswers(i) => Return(i) \/ Kept(i)
  BY DEF IntercomAnswers, Kept, Records
<1>6. Skip(i) \/ EnrichFails(i) => Return(i) \/ At(i, "check")
  BY DEF Skip, EnrichFails
<1>7. Emit(i) => Settle(i, TRUE) \/ Settle(i, FALSE)
  BY DEF Emit
<1>8. Deliver(i) \/ EmitGroup(i) => Settle(i, TRUE) \/ Settle(i, FALSE) \/ At(i, "held")
  BY <1>7 DEF Deliver, EmitGroup
<1>9. Resume(i) \/ Mark(i) \/ PromoteMark(i)
        => Return(i) \/ At(i, "mark") \/ At(i, "promote") \/ At(i, "unlink")
  BY DEF Resume, Mark, PromoteMark
<1>10. Check(i) \/ Unlink(i) \/ Unindex(i)
        => Return(i) \/ At(i, "unlink") \/ At(i, "unindex")
  BY DEF Check, Unlink, Unindex
<1> QED
  BY <1>1, <1>2, <1>3, <1>4, <1>5, <1>6, <1>8, <1>9, <1>10 DEF Handler

\* A section that begins or goes on is under the epoch of the owner.
LEMMA AuthorityKept ==
  ASSUME TypeOK, Authority, NEW i \in Instances, Handler(i) PROVE Authority'
<1>1. h \in [Instances -> Records]
  BY DEF TypeOK, Records
<1>2. UNCHANGED session
  BY DEF Handler, Skip, Announce, EnrichFails, IntercomAnswers, Deliver, EmitGroup,
         Resume, Mark, PromoteMark, Check, Unlink, Unindex
<1>3. h'[i].pc \in Running => Ended(i) \/ OwnsCompletion(i)
  <2>1. loop = i => OwnsCompletion(i)
    BY DeliveryAssumption DEF Authority, TypeOK
  <2>2. CASE EmitGroup(i)
    <3>1. Settle(i, TRUE) \/ Settle(i, FALSE)
      BY <2>2 DEF EmitGroup, Emit
    <3> QED
      BY <1>1, <3>1, SettleKeeps DEF Running
  <2>3. CASE IntercomAnswers(i) \/ Resume(i)
    BY <2>3 DEF IntercomAnswers, Resume, Return, Ended
  <2>4. CASE ~(EmitGroup(i) \/ IntercomAnswers(i) \/ Resume(i))
    <3>1. loop = i
      BY <2>4 DEF Handler, Skip, Announce, EnrichFails, Deliver, Mark, PromoteMark,
                  Check, Unlink, Unindex, In
    <3> QED
      BY <2>1, <3>1
  <2> QED
    BY <2>2, <2>3, <2>4
<1>4. CASE Ended(i)
  BY <1>1, <1>2, <1>4, IdleTypes, Disjoint
     DEF Authority, OwnsCompletion, Owns, session, Ended
<1>5. CASE ~Ended(i)
  <2>1. Kept(i) /\ (h'[i].pc \in Running => OwnsCompletion(i))
    BY <1>1, <1>3, <1>5, HandlerKeeps
  <2> QED
    BY <1>2, <2>1 DEF Authority, OwnsCompletion, Owns, session, Kept
<1> QED
  BY <1>4, <1>5

LEMMA AuthorityStep == TypeOK /\ Authority /\ [Next]_vars => Authority'
<1> SUFFICES ASSUME TypeOK, Authority, [Next]_vars PROVE Authority'
  OBVIOUS
<1>1. h \in [Instances -> Records]
  BY DEF TypeOK, Records
<1>2. CASE Writer \/ UNCHANGED vars
  <2>1. UNCHANGED <<session, h>>
    BY <1>2 DEF Writer, vars
  <2> QED
    BY <2>1 DEF Authority, OwnsCompletion, Owns, session
<1>3. CASE SwitchSession \/ Reload
  <2>1. ASSUME NEW i \in Instances PROVE h'[i].pc \notin Running
    <3>1. h[i].pc \notin Running
      BY <1>3, NoneRuns DEF SwitchSession, Reload
    <3>2. h'[i].pc \in {h[i].pc, "resume"}
      <4>1. Stale[i] \in Records /\ Stale[i].pc = h[i].pc
        BY <1>1 DEF Stale, Records
      <4> QED
        BY <1>3, <4>1 DEF SwitchSession, Reload, Records
    <3> QED
      BY <3>1, <3>2 DEF Running
  <2> QED
    BY <2>1 DEF Authority
<1>4. ASSUME NEW i \in Instances, Read(i) PROVE Authority'
  <2>1. UNCHANGED session /\ Owns(i) /\ loop = 0
    BY <1>4 DEF Read, Free
  <2>2. /\ \A j \in Instances : j # i => h'[j] = h[j]
        /\ h'[i].fresh = TRUE
    BY <1>1, <1>4 DEF Read, Idle
  <2> QED
    BY <2>1, <2>2 DEF Authority, OwnsCompletion, Owns, session
<1> QED
  BY <1>2, <1>3, <1>4, AuthorityKept DEF Next

THEOREM AuthorityHeld == Spec => [](TypeOK /\ Authority)
<1>1. Init => TypeOK /\ Authority
  BY InitType, IdleTypes, Disjoint DEF Init, Authority
<1>2. TypeOK /\ Authority /\ [Next]_vars => (TypeOK /\ Authority)'
  BY StepType, AuthorityStep
<1> QED
  BY <1>1, <1>2, PTL DEF Spec

\* Promoting a payload never removes the public file, and puts no mark on disk.
LEMMA PromoteKeeps ==
  ASSUME NEW p, p # None, Promote(p) PROVE ~Removed /\ (Marked => pend' = p)
  BY DEF Promote, Removed, Marked, None

\* Only a section that marks or removes does what OwnerOnly is about.
LEMMA FilesInSections ==
  ASSUME TypeOK, [Next]_vars, Removed \/ Marked
  PROVE  \E i \in Instances : In(i, "mark") \/ In(i, "unlink")
<1> USE DEF files, Removed, Marked
<1>1. ~UNCHANGED <<pub, pend>>
  OBVIOUS
<1>2. ~WriteResult
  <2>1. ASSUME WriteResult PROVE FALSE
    <3> DEFINE p == [v |-> written + 1, marked |-> FALSE]
    <3>1. IF Fine THEN pend' = p /\ UNCHANGED pub ELSE Promote(p)
      BY <2>1 DEF WriteResult
    <3>2. p # None /\ p.marked = FALSE
      BY <2>1 DEF WriteResult, None, TypeOK
    <3> HIDE DEF p
    <3> QED
      BY <3>1, <3>2, PromoteKeeps
  <2> QED
    BY <2>1
<1>3. ~RenameResult
  BY PromoteKeeps DEF RenameResult
<1>4. ASSUME NEW i \in Instances, Read(i) \/ PromoteMark(i) PROVE FALSE
  BY <1>4, PromoteKeeps DEF Read, PromoteMark
<1>5. ASSUME NEW i \in Instances, Mark(i) \/ Unlink(i)
      PROVE  In(i, "mark") \/ In(i, "unlink")
  BY <1>5 DEF Mark, Unlink
<1>6. ASSUME NEW i \in Instances, Unindex(i) PROVE FALSE
  BY <1>6 DEF Unindex, None
<1>7. ~(SwitchSession \/ Reload \/ UNCHANGED vars)
  BY <1>1 DEF SwitchSession, Reload, vars
<1>8. ASSUME NEW i \in Instances, Handler(i) PROVE Mark(i) \/ Unlink(i)
  BY <1>1, <1>4, <1>6, <1>8 DEF Handler, Skip, Announce, EnrichFails,
     IntercomAnswers, Deliver, EmitGroup, Resume, Check
<1> QED
  BY <1>2, <1>3, <1>4, <1>5, <1>7, <1>8 DEF Next, Writer

\* In every behaviour a file is marked or removed only by a handler whose
\* instance owns the session, under the epoch in which its last await returned:
\* the checks of ownsCompletion after each await (result-watcher.ts:550, 575)
\* are enough, since no session change falls inside a section of the loop.
THEOREM OnlyOwners == Spec => OwnerOnly
<1>1. TypeOK /\ Authority /\ [Next]_vars
        => [(Removed \/ Marked) => loop # 0 /\ OwnsCompletion(loop)]_vars
  <2> SUFFICES ASSUME TypeOK, Authority, [Next]_vars, Removed \/ Marked
               PROVE  loop # 0 /\ OwnsCompletion(loop)
    OBVIOUS
  <2>1. PICK i \in Instances : In(i, "mark") \/ In(i, "unlink")
    BY FilesInSections
  <2> QED
    BY <2>1, DeliveryAssumption DEF In, Authority, Running
<1> QED
  BY <1>1, AuthorityHeld, PTL DEF Spec, OwnerOnly

-----------------------------------------------------------------------------
\* What the notifier or the intercom may do to the history and the memory.
LEMMA EmitTells ==
  ASSUME StateOK, SentOnce, MemoryTold,
         NEW i \in Instances, Key[h[i].v] \in Keys, Emit(i), UNCHANGED acked
  PROVE  /\ SentOnce' /\ ToldKeys \subseteq ToldKeys'
         /\ \/ Settle(i, FALSE) /\ UNCHANGED notified
            \/ /\ Settle(i, TRUE) /\ Key[h[i].v] \in ToldKeys'
               /\ notified' = [notified EXCEPT ![i] = @ \cup {Key[h[i].v]}]
<1> DEFINE k == Key[h[i].v]
<1>1. k \in Keys /\ sent \in [Keys -> Nat]
  BY DEF StateOK
<1>2. CASE UNCHANGED <<registry, sent>>
  <2>1. SentOnce' /\ ToldKeys' = ToldKeys
    BY <1>2 DEF SentOnce, ToldKeys
  <2>2. k \in registry => k \in ToldKeys
    BY <1>1 DEF SentOnce, ToldKeys
  <2> HIDE DEF k
  <2>3. \/ Settle(i, FALSE) /\ UNCHANGED notified
        \/ /\ Settle(i, TRUE) /\ (k \in registry \/ sent' = [sent EXCEPT ![k] = @ + 1])
           /\ notified' = [notified EXCEPT ![i] = @ \cup {k}]
    BY DEF Emit, k
  <2>4. sent' # [sent EXCEPT ![k] = @ + 1]
    BY <1>1, <1>2
  <2> QED
    BY <2>1, <2>2, <2>3, <2>4 DEF k
<1>3. CASE ~UNCHANGED <<registry, sent>>
  <2>1. /\ k \notin registry /\ registry' = registry \cup {k}
        /\ sent' = [sent EXCEPT ![k] = @ + 1]
        /\ Settle(i, TRUE) /\ notified' = [notified EXCEPT ![i] = @ \cup {k}]
    BY <1>3 DEF Emit
  <2> HIDE DEF k
  <2>2. SentOnce' /\ ToldKeys \subseteq ToldKeys' /\ k \in ToldKeys'
    BY <1>1, <2>1 DEF SentOnce, ToldKeys
  <2> QED
    BY <2>1, <2>2 DEF k
<1> QED
  BY <1>2, <1>3

\* A promotion moves a payload and changes none.
LEMMA PromoteMarks ==
  ASSUME NEW p, Promote(p) PROVE {pub', pend'} \subseteq {pub, pend, p, None}
  BY DEF Promote

\* The truth of the handlers is kept by a move of one to a truthful record.
LEMMA HandlersKept ==
  ASSUME HandlersTold, ToldKeys \subseteq ToldKeys', NEW i \in Instances,
         \A j \in Instances : j # i => h'[j] = h[j], Truthful(h[i])'
  PROVE  HandlersTold'
  BY DEF HandlersTold, Truthful

\* ... and so is the truth of the files.
LEMMA FilesKept ==
  ASSUME MarkedWasTold, ToldKeys \subseteq ToldKeys',
         \A p \in {pub', pend'} :
           p \in {pub, pend, None} \/ ~p.marked \/ Key[p.v] \in ToldKeys
  PROVE  MarkedWasTold'
  BY DEF MarkedWasTold, None

\* Steps that tell nothing and note nothing keep what was told.
LEMMA NothingTold ==
  ASSUME UNCHANGED <<memory, history>>, Told
  PROVE  SentOnce' /\ MemoryTold' /\ ToldKeys' = ToldKeys
  BY DEF Told, SentOnce, MemoryTold, ToldKeys, memory, history

\* No step of a handler makes a memory, a mark or a flag untrue.
LEMMA ToldHandler ==
  ASSUME TypeOK, Told, NEW i \in Instances, Handler(i) PROVE Told'
<1> USE DEF files, session, memory, history
<1>1. h \in [Instances -> Records] /\ StateOK /\ HandlersOK
  BY Halves DEF TypeOK, Records
<1>2. SentOnce /\ MarkedWasTold /\ MemoryTold /\ HandlersTold /\ Truthful(h[i])
  BY DEF Told, HandlersTold
<1> DEFINE k == Key[h[i].v]
<1>3. h[i].pc # "idle" => k \in Keys
  BY <1>1, Begun
<1>4. ASSUME Return(i), ToldKeys \subseteq ToldKeys' PROVE HandlersTold'
  <2>1. h' = [h EXCEPT ![i] = Idle] /\ Truthful(Idle)'
    BY <1>4 DEF Return, Truthful, Idle
  <2> QED
    BY <1>1, <1>2, <1>4, <2>1, HandlersKept
<1>5. ASSUME NEW pc, At(i, pc), ToldKeys \subseteq ToldKeys',
             pc \in {"mark", "promote"} => k \in ToldKeys
      PROVE  HandlersTold'
  BY <1>1, <1>2, <1>5, AtKeeps, HandlersKept DEF Kept, Truthful
<1>6. ASSUME NEW b \in BOOLEAN, Settle(i, b), ToldKeys \subseteq ToldKeys',
             b => k \in ToldKeys'
      PROVE  HandlersTold'
  BY <1>1, <1>2, <1>6, SettleKeeps, HandlersKept DEF Kept, Truthful
<1>7. ASSUME UNCHANGED history, seen' = [seen EXCEPT ![i] = @ \cup {k}], k \in ToldKeys,
             UNCHANGED <<notified, registry>>
      PROVE  SentOnce' /\ MemoryTold' /\ ToldKeys' = ToldKeys
  <2>1. SentOnce' /\ ToldKeys' = ToldKeys
    BY <1>2, <1>7 DEF SentOnce, ToldKeys
  <2>2. seen \in [Instances -> SUBSET Keys]
    BY <1>1 DEF StateOK
  <2> HIDE DEF k
  <2> QED
    BY <1>2, <1>7, <2>1, <2>2 DEF MemoryTold
<1>8. CASE Skip(i)
  <2>1. k \in ToldKeys
    BY <1>2, <1>8 DEF Skip, AlreadyDelivered, Truthful, MemoryTold
  <2>2. SentOnce' /\ MemoryTold' /\ ToldKeys' = ToldKeys
    BY <1>7, <1>8, <2>1 DEF Skip
  <2>3. MarkedWasTold'
    BY <1>2, <1>8, <2>2, FilesKept DEF Skip
  <2>4. At(i, "check") \/ Return(i)
    BY <1>8 DEF Skip
  <2> QED
    BY <1>4, <1>5, <2>2, <2>3, <2>4 DEF Told
<1>9. CASE Announce(i)
  <2>1. SentOnce' /\ MemoryTold' /\ ToldKeys' = ToldKeys
    BY <1>9, NothingTold DEF Announce
  <2>2. MarkedWasTold'
    BY <1>2, <1>9, <2>1, FilesKept DEF Announce
  <2>3. Truthful(h[i])' /\ \A j \in Instances : j # i => h'[j] = h[j]
    BY <1>1, <1>2, <1>9, <2>1 DEF Announce, Truthful, Records
  <2> QED
    BY <1>2, <2>1, <2>2, <2>3, HandlersKept DEF Told
<1>10. CASE EnrichFails(i) \/ Resume(i) \/ Check(i)
  <2>1. SentOnce' /\ MemoryTold' /\ ToldKeys' = ToldKeys
    BY <1>10, NothingTold DEF EnrichFails, Resume, Check
  <2>2. MarkedWasTold'
    BY <1>2, <1>10, <2>1, FilesKept DEF EnrichFails, Resume, Check
  <2>3. Return(i) \/ At(i, "unlink") \/ (At(i, "mark") /\ k \in ToldKeys)
    BY <1>2, <1>10 DEF EnrichFails, Resume, Check, Truthful
  <2> QED
    BY <1>4, <1>5, <2>1, <2>2, <2>3 DEF Told
<1>11. CASE IntercomAnswers(i)
  <2>1. PICK yes \in BOOLEAN :
          /\ acked' = IF yes THEN acked \cup {k} ELSE acked
          /\ IF OwnsCompletion(i)
             THEN h' = [h EXCEPT ![i].pc = "deliver", ![i].intercom = yes]
             ELSE Return(i)
    BY <1>11 DEF IntercomAnswers
  <2>2. UNCHANGED <<files, memory, sent>> /\ k \in Keys
    BY <1>3, <1>11 DEF IntercomAnswers
  <2>3. ToldKeys \subseteq ToldKeys' /\ (yes => k \in ToldKeys')
    BY <2>1, <2>2 DEF ToldKeys
  <2>4. SentOnce' /\ MemoryTold'
    BY <1>2, <2>2, <2>3 DEF SentOnce, MemoryTold
  <2>5. MarkedWasTold'
    BY <1>2, <2>2, <2>3, FilesKept
  <2>6. CASE OwnsCompletion(i)
    <3>1. Truthful(h[i])' /\ \A j \in Instances : j # i => h'[j] = h[j]
      BY <1>1, <1>2, <2>1, <2>3, <2>6 DEF Truthful, Records
    <3> QED
      BY <1>2, <2>3, <2>4, <2>5, <3>1, HandlersKept DEF Told
  <2>7. CASE ~OwnsCompletion(i)
    BY <1>4, <2>1, <2>3, <2>4, <2>5, <2>7 DEF Told
  <2> QED
    BY <2>6, <2>7
<1>12. CASE (Deliver(i) \/ EmitGroup(i)) /\ Emit(i)
  <2>1. k \in Keys /\ UNCHANGED <<pub, pend, seen, acked>>
    BY <1>3, <1>12 DEF Deliver, EmitGroup, In
  <2>2. /\ SentOnce' /\ ToldKeys \subseteq ToldKeys'
        /\ \/ Settle(i, FALSE) /\ UNCHANGED notified
           \/ /\ Settle(i, TRUE) /\ k \in ToldKeys'
              /\ notified' = [notified EXCEPT ![i] = @ \cup {k}]
    BY <1>1, <1>2, <1>12, <2>1, EmitTells
  <2>3. MarkedWasTold'
    BY <1>2, <2>1, <2>2, FilesKept
  <2>4. MemoryTold'
    <3>1. notified \in [Instances -> SUBSET Keys]
      BY <1>1 DEF StateOK
    <3> HIDE DEF k
    <3> QED
      BY <1>2, <2>1, <2>2, <3>1 DEF MemoryTold
  <2> QED
    BY <1>6, <2>2, <2>3, <2>4 DEF Told
<1>13. CASE Deliver(i) /\ ~Emit(i)
  <2>1. SentOnce' /\ MemoryTold' /\ ToldKeys' = ToldKeys
    BY <1>13, NothingTold DEF Deliver
  <2>2. MarkedWasTold'
    BY <1>2, <1>13, <2>1, FilesKept DEF Deliver
  <2>3. At(i, "held") \/ (Settle(i, TRUE) /\ Dispensable(i))
    BY <1>13 DEF Deliver
  <2>4. Dispensable(i) => k \in ToldKeys
    BY <1>2 DEF Dispensable, Truthful, MemoryTold
  <2> QED
    BY <1>5, <1>6, <2>1, <2>2, <2>3, <2>4 DEF Told
<1>14. CASE Mark(i)
  <2>1. SentOnce' /\ MemoryTold' /\ ToldKeys' = ToldKeys
    BY <1>14, NothingTold DEF Mark
  <2>2. k \in ToldKeys
    BY <1>2, <1>14 DEF Mark, In, Truthful
  <2>3. pub' = pub /\ pend' \in {pend, [v |-> h[i].v, marked |-> TRUE]}
    BY <1>14 DEF Mark
  <2>4. MarkedWasTold'
    BY <1>2, <2>1, <2>2, <2>3, FilesKept
  <2>5. Return(i) \/ At(i, "promote")
    BY <1>14 DEF Mark
  <2> QED
    BY <1>4, <1>5, <2>1, <2>2, <2>4, <2>5 DEF Told
<1>15. CASE PromoteMark(i)
  <2>1. k \in ToldKeys
    BY <1>2, <1>15 DEF PromoteMark, In, Truthful
  <2>2. SentOnce' /\ MemoryTold' /\ ToldKeys' = ToldKeys
    BY <1>7, <1>15, <2>1 DEF PromoteMark
  <2>3. {pub', pend'} \subseteq {pub, pend, None}
    BY <1>15, PromoteMarks DEF PromoteMark
  <2>4. MarkedWasTold'
    BY <1>2, <2>2, <2>3, FilesKept
  <2>5. Return(i) \/ At(i, "unlink")
    BY <1>15 DEF PromoteMark
  <2> QED
    BY <1>4, <1>5, <2>2, <2>4, <2>5 DEF Told
<1>16. CASE Unlink(i) \/ Unindex(i)
  <2>1. SentOnce' /\ MemoryTold' /\ ToldKeys' = ToldKeys
    BY <1>16, NothingTold DEF Unlink, Unindex
  <2>2. {pub', pend'} \subseteq {pub, pend, None}
    BY <1>16 DEF Unlink, Unindex
  <2>3. MarkedWasTold'
    BY <1>2, <2>1, <2>2, FilesKept
  <2>4. Return(i) \/ At(i, "unindex")
    BY <1>16 DEF Unlink, Unindex
  <2> QED
    BY <1>4, <1>5, <2>1, <2>3, <2>4 DEF Told
<1> QED
  BY <1>8, <1>9, <1>10, <1>11, <1>12, <1>13, <1>14, <1>15, <1>16 DEF Handler, EmitGroup

\* No step of the writer, a session or a reload does either.
LEMMA ToldStep == TypeOK /\ Told /\ [Next]_vars => Told'
<1> SUFFICES ASSUME TypeOK, Told, [Next]_vars PROVE Told'
  OBVIOUS
<1> USE DEF files, session
<1>1. h \in [Instances -> Records]
  BY DEF TypeOK, Records
<1>2. MarkedWasTold /\ HandlersTold
  BY DEF Told
<1>3. ASSUME NEW i \in Instances, Handler(i) PROVE Told'
  BY <1>3, ToldHandler
<1>4. CASE ~\E i \in Instances : Handler(i)
  <2>1. UNCHANGED <<memory, history>>
    BY <1>4 DEF Next, Writer, SwitchSession, Reload, Read, vars
  <2>2. SentOnce' /\ MemoryTold' /\ ToldKeys' = ToldKeys
    BY <2>1, NothingTold
  <2>3. CASE Writer /\ WriteResult
    <3> DEFINE p == [v |-> written + 1, marked |-> FALSE]
    <3>1. UNCHANGED h /\ ((UNCHANGED pub /\ pend' = p) \/ Promote(p))
      BY <2>3 DEF Writer, WriteResult
    <3>2. {pub', pend'} \subseteq {pub, pend, p, None} /\ ~p.marked
      BY <3>1, PromoteMarks
    <3> HIDE DEF p
    <3>3. MarkedWasTold'
      BY <1>2, <2>2, <3>2, FilesKept
    <3> QED
      BY <1>2, <2>2, <3>1, <3>3 DEF Told, HandlersTold, Truthful
  <2>4. CASE (Writer /\ RenameResult) \/ UNCHANGED vars
    <3>1. UNCHANGED h /\ {pub', pend'} \subseteq {pub, pend, None}
      BY <2>4, PromoteMarks DEF Writer, RenameResult, vars
    <3>2. MarkedWasTold'
      BY <1>2, <2>2, <3>1, FilesKept
    <3> QED
      BY <1>2, <2>2, <3>1, <3>2 DEF Told, HandlersTold, Truthful
  <2>5. ASSUME NEW i \in Instances, Read(i) PROVE Told'
    <3> DEFINE p == IF pend # None THEN pend ELSE pub
    <3>1. {pub', pend'} \subseteq {pub, pend, None}
      BY <2>5, PromoteMarks DEF Read
    <3>2. MarkedWasTold'
      BY <1>2, <2>2, <3>1, FilesKept
    <3>3. p.marked => Key[p.v] \in ToldKeys
      BY <1>2 DEF MarkedWasTold
    <3>4. /\ h'[i] = [Idle EXCEPT !.pc = "judge", !.v = p.v, !.marked = p.marked,
                                  !.fresh = TRUE]
          /\ \A j \in Instances : j # i => h'[j] = h[j]
      BY <1>1, <2>5 DEF Read
    <3> HIDE DEF p
    <3>5. Truthful(h[i])'
      BY <2>2, <3>3, <3>4 DEF Truthful, Idle
    <3> QED
      BY <1>2, <2>2, <3>2, <3>4, <3>5, HandlersKept DEF Told
  <2>6. CASE SwitchSession \/ Reload
    <3>1. UNCHANGED <<pub, pend>>
      BY <2>6 DEF SwitchSession, Reload
    <3>2. MarkedWasTold'
      BY <1>2, <2>2, <3>1, FilesKept
    <3>3. ASSUME NEW i \in Instances PROVE Truthful(h[i])'
      <4>1. /\ Stale[i] \in Records /\ Stale[i].pc = h[i].pc /\ Stale[i].v = h[i].v
            /\ Stale[i].marked = h[i].marked /\ Stale[i].intercom = h[i].intercom
            /\ Stale[i].accepted = h[i].accepted
        BY <1>1 DEF Stale, Records
      <4>2. \/ h'[i] = Stale[i]
            \/ h'[i] = [Stale[i] EXCEPT !.pc = "resume", !.accepted = FALSE]
        BY <2>6 DEF SwitchSession, Reload, Stale
      <4>3. Truthful(h[i])
        BY <1>2 DEF HandlersTold
      <4> QED
        BY <2>2, <4>1, <4>2, <4>3 DEF Truthful, Records
    <3> QED
      BY <2>2, <3>2, <3>3 DEF Told, HandlersTold
  <2> QED
    BY <1>4, <2>3, <2>4, <2>5, <2>6 DEF Next, Writer
<1> QED
  BY <1>3, <1>4

LEMMA ToldInit == Init => Told
<1> SUFFICES ASSUME Init PROVE Told
  OBVIOUS
<1>1. SentOnce /\ MemoryTold /\ MarkedWasTold
  BY DEF Init, SentOnce, MemoryTold, MarkedWasTold, None
<1>2. HandlersTold
  BY DEF Init, HandlersTold, Truthful, Idle
<1> QED
  BY <1>1, <1>2 DEF Told

\* The inductive invariant of the delivery holds in every behaviour.
THEOREM Inductive == Spec => []IInv
<1>1. Init => TypeOK /\ Told
  BY InitType, ToldInit
<1>2. TypeOK /\ Told /\ [Next]_vars => (TypeOK /\ Told)'
  BY StepType, ToldStep
<1>3. TypeOK /\ Authority /\ Told => IInv
  BY DEF IInv
<1> QED
  BY <1>1, <1>2, <1>3, AuthorityHeld, PTL DEF Spec

\* For any number of results, reloads, session changes and failing operations no
\* completion is sent twice to the session of one process: the process-global
\* registry (notify.ts:788-813) outlives the instance whose promise was lost.
THEOREM NotifiedAtMostOnce == Spec => []NotifiedOnce
<1>1. IInv => NotifiedOnce
  BY DEF IInv, Told, SentOnce, NotifiedOnce
<1> QED
  BY <1>1, Inductive, PTL

\* A file that carries the mark of a delivered notification (result-watcher.ts:
\* 191-195) tells the truth, whichever handler, retry or writer touched it last.
THEOREM MarksTellTheTruth == Spec => []MarkedWasTold
<1>1. IInv => MarkedWasTold
  BY DEF IInv, Told
<1> QED
  BY <1>1, Inductive, PTL

-----------------------------------------------------------------------------
(***************************************************************************)
(* The newest result is kept until it was told and recorded for waits, and *)
(* the delivery implements ResultOutbox, when the run has one result, or   *)
(* when writers come in between no section and are not refused.  With two  *)
(* results and a writer of another process, NothingLost is violated        *)
(* already, which a run shows.                                             *)
(***************************************************************************)
Undisturbed == N = 1 \/ (~Fine /\ ~CanBlock)

\* The newest result was told and has its durable replay.
Safe == replay = written /\ Key[written] \in ToldKeys

\* A successor has not begun; the owner's file is there until it removes it; a section is
\* about the newest result, except a delivery after an await; what a handler kept is the
\* replay of the newest result unless it is about an older one; and a file is removed
\* only when the newest result is safe.
HandlerSettles(i) ==
  /\ i > cur => h[i].pc = "idle"
  /\ h[i].v <= written
  /\ i = cur /\ h[i].pc \notin {"idle", "unindex"} => pub # None
  /\ h[i].pc \in Running \ {"deliver"} => h[i].v = written
  /\ h[i].kept /\ h[i].v = written => replay = written
  /\ h[i].pc \in {"check", "unlink", "unindex"} => Safe

\* Both files are of the newest result.
FilesSettle ==
  /\ pub # None => pub.v = written
  /\ pend # None => pend.v = written

Settling == (\A i \in Instances : HandlerSettles(i)) /\ FilesSettle /\ KeptUntilSettled

\* A step of a handler gives one notification at most, and touches no file when it does.
LEMMA TellsOne ==
  ASSUME TypeOK, NEW i \in Instances, Handler(i)
  PROVE  \/ ToldKeys' = ToldKeys
         \/ /\ ToldKeys' = ToldKeys \cup {Key[h[i].v]} /\ Key[h[i].v] \in Keys
            /\ h[i].v \in Versions /\ UNCHANGED files
<1>1. sent \in [Keys -> Nat] /\ HandlersOK
  BY Halves DEF TypeOK
<1>2. UNCHANGED history => ToldKeys' = ToldKeys
  BY DEF history, ToldKeys
<1>3. CASE IntercomAnswers(i)
  <2>1. Key[h[i].v] \in Keys /\ h[i].v \in Versions
    BY <1>1, <1>3, Begun DEF IntercomAnswers
  <2>2. UNCHANGED <<sent, files>> /\ (UNCHANGED acked \/ acked' = acked \cup {Key[h[i].v]})
    BY <1>3 DEF IntercomAnswers
  <2> QED
    BY <2>1, <2>2 DEF ToldKeys
<1>4. ASSUME h[i].pc # "idle", Emit(i), UNCHANGED <<acked, files>>
      PROVE  \/ ToldKeys' = ToldKeys
             \/ /\ ToldKeys' = ToldKeys \cup {Key[h[i].v]} /\ Key[h[i].v] \in Keys
                /\ h[i].v \in Versions /\ UNCHANGED files
  <2>1. Key[h[i].v] \in Keys /\ h[i].v \in Versions
    BY <1>1, <1>4, Begun
  <2>2. PICK k \in Keys : k = Key[h[i].v]
    BY <2>1
  <2>3. UNCHANGED sent \/ sent' = [sent EXCEPT ![k] = @ + 1]
    BY <1>4, <2>2 DEF Emit
  <2>4. ToldKeys' = ToldKeys \/ ToldKeys' = ToldKeys \cup {k}
    BY <1>1, <1>4, <2>3 DEF ToldKeys
  <2> QED
    BY <1>4, <2>1, <2>2, <2>4
<1>5. CASE Deliver(i)
  BY <1>2, <1>4, <1>5 DEF Deliver, In, history
<1>6. CASE EmitGroup(i)
  BY <1>4, <1>6 DEF EmitGroup
<1>7. CASE ~(IntercomAnswers(i) \/ Deliver(i) \/ EmitGroup(i))
  BY <1>2, <1>7 DEF Handler, Skip, Announce, EnrichFails, Resume, Mark, PromoteMark, Check,
     Unlink, Unindex
<1> QED
  BY <1>3, <1>5, <1>6, <1>7

\* Promoting the newest result keeps it on disk.
LEMMA PromoteSettles ==
  ASSUME FilesSettle, NEW p \in Payload, p.v = written', Promote(p), pub # None => pub.v = written'
  PROVE  FilesSettle' /\ pub' # None /\ written' \in {pub'.v, pend'.v}
<1>1. p # None
  BY DEF Payload, None, Versions
<1> QED
  BY <1>1 DEF Promote, FilesSettle

\* What is left to show of a step of one handler.
LEMMA SettlesFor ==
  ASSUME TypeOK, Settling, NEW i \in Instances, UNCHANGED <<written, cur>>,
         replay' \in {replay, written}, ToldKeys \subseteq ToldKeys',
         \A j \in Instances : j # i => h'[j] = h[j],
         HandlerSettles(i)', FilesSettle', pub # None /\ i # cur => pub' # None,
         Safe \/ (written \in OnDisk => written \in OnDisk')
  PROVE  Settling'
<1>1. Safe => Safe'
  BY DEF Safe
<1>2. ASSUME NEW j \in Instances, j # i PROVE HandlerSettles(j)'
  <2>1. HandlerSettles(j)
    BY DEF Settling
  <2>2. j = cur => i # cur
    BY <1>2
  <2> QED
    BY <1>1, <1>2, <2>1, <2>2 DEF HandlerSettles
<1>3. KeptUntilSettled'
  BY <1>1 DEF Settling, KeptUntilSettled, Safe
<1> QED
  BY <1>2, <1>3 DEF Settling

\* A handler that has ended owes nothing.
LEMMA EndedSettles ==
  ASSUME TypeOK, NEW i \in Instances, h' = [h EXCEPT ![i] = Idle], UNCHANGED written
  PROVE  HandlerSettles(i)'
<1>1. h'[i] = Idle /\ written \in Nat
  BY DeliveryAssumption DEF TypeOK
<1> QED
  BY <1>1 DEF HandlerSettles, Idle, Running

\* A handler on its way keeps the newest result.
LEMMA SettlingHandler ==
  ASSUME TypeOK, Authority, Told, Settling, NEW i \in Instances, Handler(i)
  PROVE  Settling'
<1> USE DEF files, session, memory, history
<1>1. /\ h \in [Instances -> Records] /\ written \in Nat /\ HandlersOK
      /\ pub \in Payload \cup {None} /\ pend \in Payload \cup {None}
  BY DeliveryAssumption, Halves DEF TypeOK, Records
<1>2. /\ UNCHANGED <<written, cur>> /\ \A j \in Instances : j # i => h'[j] = h[j]
  <2>1. UNCHANGED <<written, cur>>
    BY DEF Handler, Skip, Announce, EnrichFails, IntercomAnswers, Deliver, EmitGroup,
       Resume, Mark, PromoteMark, Check, Unlink, Unindex
  <2> QED
    BY <1>1, <2>1, HandlerKeeps DEF Ended, Kept
<1>3. ToldKeys \subseteq ToldKeys'
  BY TellsOne
<1>4. HandlerSettles(i) /\ FilesSettle /\ Truthful(h[i]) /\ h[i].pc # "idle"
  BY DEF Settling, Told, HandlersTold, Handler, Skip, Announce, EnrichFails, IntercomAnswers,
     Deliver, EmitGroup, Resume, Mark, PromoteMark, Check, Unlink, Unindex, In
<1>5. h[i].pc \in Running => i = cur /\ (h[i].pc # "unindex" => pub # None)
  BY <1>4 DEF Authority, OwnsCompletion, Owns, HandlerSettles
<1>6. Return(i) => HandlerSettles(i)'
  BY <1>2, EndedSettles DEF Return
<1>7. ~(i > cur)
  BY <1>4 DEF HandlerSettles
<1>8. ASSUME Kept(i), h'[i].pc # "idle", replay' \in {replay, written},
             i = cur /\ h'[i].pc # "unindex" => pub' # None,
             h'[i].pc \in Running \ {"deliver"} => h[i].v = written,
             h'[i].kept /\ h[i].v = written => replay' = written,
             h'[i].pc \in {"check", "unlink", "unindex"} => Safe'
      PROVE  HandlerSettles(i)'
  BY <1>2, <1>4, <1>7, <1>8 DEF HandlerSettles, Kept
<1>9. ASSUME HandlerSettles(i)', replay' \in {replay, written}, UNCHANGED <<pub, pend>>
      PROVE  Settling'
  <2>1. FilesSettle' /\ OnDisk' = OnDisk
    BY <1>2, <1>4, <1>9 DEF FilesSettle, OnDisk
  <2> QED
    BY <1>2, <1>3, <1>9, <2>1, SettlesFor
<1>10. CASE Skip(i)
  <2>1. h[i].v = written /\ Key[written] \in ToldKeys
    BY <1>4, <1>10 DEF Skip, In, AlreadyDelivered, HandlerSettles, Running, Truthful, Told,
       MemoryTold
  <2>2. replay' \in {replay, written} /\ UNCHANGED <<pub, pend>>
    BY <1>10, <2>1 DEF Skip, Record
  <2>3. Return(i) \/ (At(i, "check") /\ replay' = written)
    BY <1>10, <2>1 DEF Skip, Record
  <2>4. CASE At(i, "check") /\ replay' = written
    <3>1. Kept(i) /\ h'[i].pc = "check" /\ Safe'
      BY <1>1, <1>2, <1>3, <2>1, <2>4, AtKeeps DEF Safe
    <3>2. pub' # None
      BY <1>5, <1>10, <2>2 DEF Skip, In, Running
    <3> QED
      BY <1>8, <1>9, <2>1, <2>2, <2>4, <3>1, <3>2
  <2> QED
    BY <1>6, <1>9, <2>2, <2>3, <2>4
<1>11. CASE Announce(i)
  <2>1. PICK kept \in BOOLEAN, awaits \in {FALSE, Intercom} :
          /\ Record(i, kept)
          /\ h' = [h EXCEPT ![i].kept = kept,
                            ![i].pc = IF awaits THEN "intercom" ELSE "deliver"]
    BY <1>11 DEF Announce
  <2>2. /\ Kept(i) /\ h'[i].kept = kept /\ h'[i].pc \in {"intercom", "deliver"}
    BY <1>1, <2>1 DEF Kept, Records
  <2>3. h[i].v = written /\ pub # None
    BY <1>4, <1>5, <1>11 DEF Announce, In, HandlerSettles, Running
  <2>4. replay' \in {replay, written} /\ (kept => replay' = written) /\ UNCHANGED <<pub, pend>>
    BY <1>11, <2>1, <2>3 DEF Announce, Record
  <2> QED
    BY <1>8, <1>9, <2>2, <2>3, <2>4
<1>12. CASE EnrichFails(i)
  <2>1. h[i].v = written /\ Return(i) /\ replay' = h[i].v /\ UNCHANGED <<pub, pend>>
    BY <1>4, <1>12 DEF EnrichFails, In, HandlerSettles, Running
  <2> QED
    BY <1>6, <1>9, <2>1
<1>13. ASSUME Kept(i), h'[i].kept = h[i].kept, h'[i].pc \in {"deliver", "held", "resume"},
              h[i].pc # "unindex", UNCHANGED <<pub, pend, replay>>
       PROVE  Settling'
  <2>1. i = cur => pub' # None
    BY <1>4, <1>13 DEF HandlerSettles
  <2>2. h'[i].kept /\ h[i].v = written => replay' = written
    BY <1>4, <1>13 DEF HandlerSettles
  <2> QED
    BY <1>8, <1>9, <1>13, <2>1, <2>2 DEF Running
<1>14. CASE IntercomAnswers(i)
  <2>1. \/ Return(i)
        \/ Kept(i) /\ h'[i].kept = h[i].kept /\ h'[i].pc = "deliver"
    BY <1>1, <1>14 DEF IntercomAnswers, Kept, Records
  <2>2. h[i].pc # "unindex" /\ UNCHANGED <<pub, pend, replay>>
    BY <1>14 DEF IntercomAnswers
  <2> QED
    BY <1>6, <1>9, <1>13, <2>1, <2>2
<1>15. CASE Deliver(i) \/ EmitGroup(i)
  <2>1. Settle(i, TRUE) \/ Settle(i, FALSE) \/ At(i, "held")
    BY <1>15 DEF Deliver, EmitGroup, Emit
  <2>2. Kept(i) /\ h'[i].kept = h[i].kept /\ h'[i].pc \in {"deliver", "held", "resume"}
    BY <1>1, <2>1 DEF Settle, At, Kept, Records
  <2>3. h[i].pc # "unindex" /\ UNCHANGED <<pub, pend, replay>>
    BY <1>15 DEF Deliver, EmitGroup, In
  <2> QED
    BY <1>13, <2>2, <2>3
<1>16. ASSUME NEW pc \in Running \ {"deliver"}, At(i, pc), h[i].v = written, UNCHANGED replay,
              pc # "unindex" => pub' # None,
              pc \in {"check", "unlink", "unindex"} => Safe
       PROVE  HandlerSettles(i)'
  <2>1. Kept(i) /\ h'[i].pc = pc
    BY <1>1, <1>16, AtKeeps
  <2>4. h'[i].kept = h[i].kept
    BY <1>1, <1>16 DEF At, Records
  <2>2. pc # "idle"
    BY Disjoint
  <2>3. Safe => Safe'
    BY <1>2, <1>3, <1>16 DEF Safe
  <2> QED
    BY <1>4, <1>8, <1>16, <2>1, <2>2, <2>3, <2>4 DEF HandlerSettles
<1>17. CASE Resume(i)
  <2>1. UNCHANGED <<pub, pend, replay>>
    BY <1>17 DEF Resume
  <2>2. CASE OwnsCompletion(i) /\ ~Replaced(i) /\ At(i, "mark")
    <3>1. pub # None
      BY <1>4, <1>17, <2>2 DEF Resume, OwnsCompletion, Owns, HandlerSettles
    <3>2. h[i].v = written
      BY <1>4, <2>2, <3>1 DEF Replaced, FilesSettle
    <3> QED
      BY <1>9, <1>16, <2>1, <2>2, <3>1, <3>2 DEF Running
  <2> QED
    BY <1>6, <1>9, <1>17, <2>1, <2>2 DEF Resume
<1>18. CASE Mark(i)
  <2>1. h[i].v = written /\ pub # None /\ UNCHANGED <<pub, replay>>
    BY <1>4, <1>5, <1>18 DEF Mark, In, HandlerSettles, Running
  <2>2. CASE Return(i) /\ UNCHANGED pend
    BY <1>6, <1>9, <2>1, <2>2
  <2>3. CASE pend' = [v |-> h[i].v, marked |-> TRUE] /\ At(i, "promote")
    <3>1. HandlerSettles(i)'
      BY <1>16, <2>1, <2>3 DEF Running
    <3>2. FilesSettle' /\ (written \in OnDisk => written \in OnDisk')
      BY <1>2, <1>4, <2>1, <2>3 DEF FilesSettle, OnDisk
    <3> QED
      BY <1>2, <1>3, <2>1, <3>1, <3>2, SettlesFor
  <2> QED
    BY <1>18, <2>2, <2>3 DEF Mark
<1>19. CASE PromoteMark(i)
  <2>1. h[i].v = written /\ pub # None /\ UNCHANGED replay
    BY <1>4, <1>5, <1>19 DEF PromoteMark, In, HandlerSettles, Running
  <2>2. FilesSettle' /\ pub' # None /\ (written \in OnDisk => written \in OnDisk')
    <3>1. CASE pend = None
      BY <1>2, <1>4, <1>19, <2>1, <3>1 DEF PromoteMark, FilesSettle, OnDisk
    <3>2. CASE pend # None
      <4>1. FilesSettle' /\ pub' # None /\ written' \in {pub'.v, pend'.v}
        BY <1>1, <1>2, <1>4, <1>19, <3>2, PromoteSettles DEF PromoteMark, FilesSettle
      <4> QED
        BY <1>2, <4>1 DEF OnDisk
    <3> QED
      BY <3>1, <3>2
  <2>3. Return(i) \/ (At(i, "unlink") /\ h[i].kept)
    BY <1>19 DEF PromoteMark
  <2>4. h[i].kept => Safe
    BY <1>4, <1>19, <2>1 DEF PromoteMark, In, HandlerSettles, Truthful, Safe
  <2>5. HandlerSettles(i)'
    BY <1>6, <1>16, <2>1, <2>2, <2>3, <2>4 DEF Running
  <2> QED
    BY <1>2, <1>3, <2>1, <2>2, <2>5, SettlesFor
<1>20. CASE Check(i)
  <2>1. h[i].v = written /\ pub # None /\ Safe /\ UNCHANGED <<pub, pend, replay>>
    BY <1>4, <1>5, <1>20 DEF Check, In, HandlerSettles, Running
  <2>2. Return(i) \/ At(i, "unlink")
    BY <1>20 DEF Check
  <2> QED
    BY <1>6, <1>9, <1>16, <2>1, <2>2 DEF Running
<1>21. CASE Unlink(i)
  <2>1. h[i].v = written /\ Safe /\ i = cur /\ UNCHANGED <<pend, replay>>
    BY <1>4, <1>5, <1>21 DEF Unlink, In, HandlerSettles, Running
  <2>2. CASE Return(i) /\ UNCHANGED pub
    BY <1>6, <1>9, <2>1, <2>2
  <2>3. CASE pub' = None /\ At(i, "unindex")
    <3>1. HandlerSettles(i)'
      BY <1>16, <2>1, <2>3 DEF Running
    <3>2. FilesSettle'
      BY <1>2, <1>4, <2>1, <2>3 DEF FilesSettle
    <3> QED
      BY <1>2, <1>3, <2>1, <3>1, <3>2, SettlesFor
  <2> QED
    BY <1>21, <2>2, <2>3 DEF Unlink
<1>22. CASE Unindex(i)
  <2>1. Safe /\ Return(i) /\ UNCHANGED <<pub, replay>> /\ (pend' = None \/ UNCHANGED pend)
    BY <1>4, <1>22 DEF Unindex, In, HandlerSettles
  <2>2. FilesSettle'
    BY <1>2, <1>4, <2>1 DEF FilesSettle
  <2> QED
    BY <1>2, <1>3, <1>6, <2>1, <2>2, SettlesFor
<1> QED
  BY <1>10, <1>11, <1>12, <1>14, <1>15, <1>17, <1>18, <1>19, <1>20, <1>21, <1>22 DEF Handler

\* So does every other step, under the hypothesis.
LEMMA SettlingStep ==
  ASSUME Undisturbed, TypeOK, Authority, Told, Settling, [Next]_vars
  PROVE  Settling'
<1> USE DEF files, session, memory, history
<1>1. /\ h \in [Instances -> Records] /\ written \in 0..N /\ N \in Nat /\ cur \in Nat
      /\ pub \in Payload \cup {None} /\ pend \in Payload \cup {None} /\ Instances \subseteq Nat
      /\ \A i \in Instances : h[i].v \in Nat /\ (h[i].v = 0 => h[i].pc = "idle")
  BY DeliveryAssumption DEF TypeOK, Records
<1>2. \A p \in Payload : p.v \in Nat /\ p.v # 0 /\ p # None
  BY DEF Payload, Versions, None
<1>3. FilesSettle /\ \A i \in Instances : HandlerSettles(i)
  BY DEF Settling
<1>4. UNCHANGED history => ToldKeys' = ToldKeys
  BY DEF ToldKeys
<1>5. CASE Writer /\ WriteResult
  <2>1. PICK p : p = [v |-> written + 1, marked |-> FALSE]
    OBVIOUS
  <2>2. /\ p \in Payload /\ written' = written + 1 /\ written' = p.v
        /\ UNCHANGED <<h, cur, replay>>
    BY <1>1, <1>5, <2>1 DEF Writer, WriteResult, Payload, Versions
  <2>3. CASE N = 1
    <3>1. written = 0 /\ \A i \in Instances : h[i].pc = "idle" /\ h[i].v = 0
      BY <1>1, <1>3, <1>5, <2>3 DEF WriteResult, HandlerSettles
    <3>2. pub = None
      BY <1>1, <1>2, <1>3, <3>1 DEF FilesSettle
    <3>3. FilesSettle' /\ written' \in {pub'.v, pend'.v}
      <4>1. CASE Fine
        BY <1>5, <2>1, <2>2, <3>2, <4>1 DEF WriteResult, FilesSettle
      <4>2. CASE ~Fine
        <5>1. Promote(p)
          BY <1>5, <2>1, <4>2 DEF WriteResult
        <5> QED
          BY <1>3, <2>2, <3>2, <5>1, PromoteSettles
      <4> QED
        BY <4>1, <4>2
    <3>4. KeptUntilSettled'
      BY <1>1, <2>2, <3>3 DEF KeptUntilSettled, OnDisk
    <3>5. \A i \in Instances : HandlerSettles(i)'
      BY <2>2, <3>1 DEF HandlerSettles, Running
    <3> QED
      BY <3>3, <3>4, <3>5 DEF Settling
  <2>4. CASE ~Fine /\ ~CanBlock
    <3>1. Free /\ Promote(p)
      BY <1>5, <2>1, <2>4 DEF WriteResult
    <3>2. pub' = p /\ pend' = None
      BY <2>4, <3>1 DEF Promote
    <3>3. FilesSettle' /\ KeptUntilSettled'
      BY <1>1, <1>2, <2>2, <3>2 DEF FilesSettle, KeptUntilSettled, OnDisk
    <3>4. ASSUME NEW i \in Instances PROVE HandlerSettles(i)'
      <4>1. h[i].pc \notin Running
        BY <3>1, NoneRuns
      <4>2. h[i].v <= written' /\ h[i].v # written'
        BY <1>1, <1>3, <2>2 DEF HandlerSettles
      <4>3. pub' # None
        BY <1>2, <2>2, <3>2
      <4> QED
        BY <1>3, <2>2, <4>1, <4>2, <4>3 DEF HandlerSettles, Running
    <3> QED
      BY <3>3, <3>4 DEF Settling
  <2> QED
    BY <2>3, <2>4 DEF Undisturbed
<1>6. ASSUME UNCHANGED <<written, cur, replay, history>>, FilesSettle',
             pub # None => pub' # None, written \in OnDisk => written \in OnDisk',
             \A i \in Instances :
               \/ h'[i] = h[i]
               \/ i # cur /\ h'[i].v = h[i].v /\ h'[i].kept = h[i].kept
                  /\ h'[i].pc = h[i].pc
      PROVE  Settling'
  <2>1. Safe' <=> Safe
    BY <1>4, <1>6 DEF Safe
  <2>2. KeptUntilSettled'
    BY <1>4, <1>6 DEF Settling, KeptUntilSettled
  <2>3. \A i \in Instances : HandlerSettles(i)'
    BY <1>3, <1>6, <2>1 DEF HandlerSettles
  <2> QED
    BY <1>6, <2>2, <2>3 DEF Settling
<1>7. CASE (Writer /\ RenameResult) \/ UNCHANGED vars
  <2>1. UNCHANGED <<written, cur, replay, history, h>>
    BY <1>7 DEF Writer, RenameResult, vars
  <2>2. UNCHANGED <<pub, pend>> \/ (pend # None /\ Promote(pend))
    BY <1>7 DEF Writer, RenameResult, vars
  <2>3. CASE UNCHANGED <<pub, pend>>
    BY <1>3, <1>6, <2>1, <2>3 DEF FilesSettle, OnDisk
  <2>4. CASE pend # None /\ Promote(pend)
    <3>1. FilesSettle' /\ pub' # None /\ written' \in {pub'.v, pend'.v}
      BY <1>1, <1>3, <2>1, <2>4, PromoteSettles DEF FilesSettle
    <3> QED
      BY <1>6, <2>1, <3>1 DEF OnDisk
  <2> QED
    BY <2>2, <2>3, <2>4
<1>8. ASSUME NEW i \in Instances, Read(i) PROVE Settling'
  <2>1. PICK p : p = IF pend # None THEN pend ELSE pub
    OBVIOUS
  <2>2. p \in Payload /\ p.v = written
    BY <1>1, <1>3, <1>8, <2>1 DEF Read, FilesSettle
  <2>3. /\ h' = [h EXCEPT ![i] = [Idle EXCEPT !.pc = "judge", !.v = p.v,
                                              !.marked = p.marked, !.fresh = TRUE]]
        /\ UNCHANGED <<written, cur, replay, history>> /\ i = cur
    BY <1>8, <2>1 DEF Read, Owns
  <2>4. FilesSettle' /\ pub' # None /\ written' \in {pub'.v, pend'.v}
    <3>1. CASE pend # None
      BY <1>3, <1>8, <2>1, <2>2, <2>3, <3>1, PromoteSettles DEF Read, FilesSettle
    <3>2. CASE pend = None
      BY <1>3, <1>8, <2>1, <2>2, <2>3, <3>2 DEF Read, FilesSettle, None
    <3> QED
      BY <3>1, <3>2
  <2>5. /\ h'[i].pc = "judge" /\ h'[i].v = written /\ h'[i].kept = FALSE
        /\ \A j \in Instances : j # i => h'[j] = h[j]
    BY <1>1, <2>2, <2>3 DEF Idle
  <2>6. HandlerSettles(i)'
    BY <1>1, <2>3, <2>4, <2>5 DEF HandlerSettles
  <2> QED
    BY <1>4, <2>3, <2>4, <2>5, <2>6, SettlesFor DEF OnDisk
<1>9. CASE SwitchSession \/ Reload
  <2>1. \A i \in Instances : /\ Stale[i].v = h[i].v /\ Stale[i].kept = h[i].kept
                             /\ Stale[i].pc = h[i].pc /\ Stale[i] \in Records
    BY <1>1 DEF Stale, Records
  <2>2. UNCHANGED <<pub, pend, written, replay, history>> /\ Free
    BY <1>9 DEF SwitchSession, Reload
  <2>3. FilesSettle' /\ (Safe' <=> Safe) /\ KeptUntilSettled'
    BY <1>3, <1>4, <2>2 DEF Settling, FilesSettle, Safe, KeptUntilSettled, OnDisk
  <2>4. ASSUME NEW i \in Instances PROVE HandlerSettles(i)'
    <3>1. /\ h'[i].v = h[i].v /\ h'[i].kept = h[i].kept
          /\ h'[i].pc = h[i].pc \/ (h[i].pc = "held" /\ h'[i].pc = "resume")
      BY <1>9, <2>1, ZenonT(30) DEF SwitchSession, Reload, Records
    <3>2. h[i].pc \notin Running
      BY <2>2, NoneRuns
    <3>3. h'[i].pc \notin Running /\ (h'[i].pc = "idle" <=> h[i].pc = "idle")
      BY <3>1, <3>2 DEF Running
    <3>4. cur' = cur \/ cur' = cur + 1
      BY <1>9 DEF SwitchSession, Reload
    <3>5. i > cur' => i > cur
      BY <1>1, <3>4
    <3>6. i = cur' /\ h'[i].pc # "idle" => i = cur
      BY <1>1, <1>3, <3>3, <3>4 DEF HandlerSettles
    <3> QED
      BY <1>3, <2>2, <2>3, <3>1, <3>3, <3>5, <3>6 DEF HandlerSettles, Running
  <2> QED
    BY <2>3, <2>4 DEF Settling
<1>10. ASSUME NEW i \in Instances, Handler(i) PROVE Settling'
  BY <1>10, SettlingHandler
<1> QED
  BY <1>5, <1>7, <1>8, <1>9, <1>10 DEF Next, Writer

\* Before the first result there is nothing to keep.
LEMMA SettlingInit == Init => Settling
<1> SUFFICES ASSUME Init PROVE Settling
  OBVIOUS
<1>1. written = 0 /\ pub = None /\ pend = None /\ \A i \in Instances : h[i] = Idle
  BY DEF Init
<1> QED
  BY <1>1 DEF Settling, HandlerSettles, FilesSettle, KeptUntilSettled, Idle, Running

\* The invariant behind the two promises.
THEOREM SettlingHeld ==
  ASSUME Undisturbed PROVE Spec => [](IInv /\ Settling)
<1>1. Init => Settling
  BY SettlingInit
<1>2. IInv /\ Settling /\ [Next]_vars => Settling'
  BY SettlingStep DEF IInv
<1> QED
  BY <1>1, <1>2, Inductive, PTL DEF Spec

\* The newest result stays on disk until it was told and has its durable replay, whatever
\* fails: a replay that cannot be written keeps the file (result-watcher.ts:615).
THEOREM KeptToTheEnd ==
  ASSUME Undisturbed PROVE Spec => []KeptUntilSettled
<1>1. Settling => KeptUntilSettled
  BY DEF Settling
<1> QED
  BY <1>1, SettlingHeld, PTL

\* The delivery implements ResultOutbox: files, marks, retries, session changes and reloads
\* are stutters of its box, except that a result is posted, told or thrown away once told.
THEOREM ImplementsOutbox ==
  ASSUME Undisturbed PROVE Spec => DeliversOutbox
<1>1. Init => Outbox!Init
  BY DEF Init, Outbox!Init, Box, None, ToldKeys
<1>2. IInv /\ Settling /\ [Next]_vars => [Outbox!Next]_(<<written, Box, ToldKeys>>)
  <2> SUFFICES ASSUME IInv, Settling, [Next]_vars, ~UNCHANGED <<written, Box, ToldKeys>>
               PROVE  Outbox!Next
    OBVIOUS
  <2>1. TypeOK /\ Authority /\ FilesSettle /\ \A i \in Instances : HandlerSettles(i)
    BY DEF IInv, Settling
  <2>2. /\ pub \in Payload \cup {None} /\ pend \in Payload \cup {None} /\ None \notin Payload
        /\ written \in Nat
    BY <2>1, DeliveryAssumption DEF TypeOK, Payload, None, Versions
  <2>3. UNCHANGED history => ToldKeys' = ToldKeys
    BY DEF history, ToldKeys
  <2>4. ASSUME NEW p \in Payload, Promote(p) PROVE Box' = p.v
    BY <2>2, <2>4 DEF Promote, Box
  <2>5. CASE Writer /\ WriteResult
    <3>1. PICK p : p = [v |-> written + 1, marked |-> FALSE]
      OBVIOUS
    <3>2. written + 1 \in Versions /\ p \in Payload /\ written' = p.v /\ written' = written + 1
      BY <2>2, <2>5, <3>1, DeliveryAssumption DEF Writer, WriteResult, Versions, Payload
    <3>3. Box' = p.v
      BY <2>2, <2>4, <2>5, <3>1, <3>2 DEF WriteResult, Box
    <3>4. ToldKeys' = ToldKeys
      BY <2>3, <2>5 DEF Writer
    <3> QED
      BY <3>2, <3>3, <3>4 DEF Outbox!Next, Outbox!Post
  <2>6. CASE Writer /\ RenameResult
    <3>1. UNCHANGED <<written, ToldKeys>>
      BY <2>3, <2>6 DEF Writer, RenameResult
    <3>2. Box' = Box
      BY <2>2, <2>4, <2>6 DEF RenameResult, Box
    <3> QED
      BY <3>1, <3>2
  <2>7. ASSUME NEW i \in Instances, Read(i) PROVE FALSE
    <3>1. UNCHANGED <<written, ToldKeys>>
      BY <2>3, <2>7 DEF Read, history
    <3>2. Box' = Box
      BY <2>2, <2>4, <2>7 DEF Read, Box
    <3> QED
      BY <3>1, <3>2
  <2>8. ~(SwitchSession \/ Reload \/ UNCHANGED vars)
    BY <2>3 DEF SwitchSession, Reload, vars, files, Box
  <2>9. ASSUME NEW i \in Instances, Handler(i) PROVE Outbox!Next
    <3>1. UNCHANGED written /\ HandlerSettles(i)
      BY <2>1, <2>9 DEF Handler, Skip, Announce, EnrichFails, IntercomAnswers, Deliver,
         EmitGroup, Resume, Mark, PromoteMark, Check, Unlink, Unindex, files
    <3>2. CASE ToldKeys' # ToldKeys
      <4>1. /\ ToldKeys' = ToldKeys \cup {Key[h[i].v]} /\ h[i].v \in Versions
            /\ UNCHANGED <<written, pub, pend>>
        BY <2>1, <2>9, <3>2, TellsOne DEF files
      <4>2. h[i].v <= written /\ Key[h[i].v] \notin ToldKeys /\ Box' = Box
        BY <3>1, <3>2, <4>1 DEF HandlerSettles, Box
      <4> QED
        BY <4>1, <4>2 DEF Outbox!Next, Outbox!Tell
    <3>3. CASE ToldKeys' = ToldKeys
      <4>1. Box' # Box
        BY <3>1, <3>3
      <4>2. ~UNCHANGED <<pub, pend>>
        BY <4>1 DEF Box
      <4>3. Box \in {0, written}
        BY <2>1, <2>2 DEF FilesSettle, Box, None
      <4>4. ASSUME Safe, Box' = 0 PROVE Outbox!Next
        BY <3>1, <3>3, <4>1, <4>3, <4>4 DEF Safe, Outbox!Next, Outbox!Discard
      <4>5. ~Mark(i)
        <5>1. ASSUME Mark(i) PROVE FALSE
          <6>1. h[i].v = written /\ pub # None /\ pend' = [v |-> h[i].v, marked |-> TRUE]
            BY <2>1, <3>1, <4>2, <5>1 DEF Mark, In, HandlerSettles, Running, Authority,
               OwnsCompletion, Owns
          <6>2. Box' = written /\ Box = written
            BY <2>1, <2>2, <6>1 DEF Box, FilesSettle, None
          <6> QED
            BY <4>1, <6>2
        <5> QED
          BY <5>1
      <4>6. ~PromoteMark(i)
        BY <2>2, <2>4, <4>1, <4>2 DEF PromoteMark, Box
      <4>7. CASE Unlink(i)
        <5>1. Safe /\ pub' = None /\ UNCHANGED pend
          BY <3>1, <4>2, <4>7 DEF Unlink, In, HandlerSettles
        <5>2. Box' = 0
          BY <4>1, <5>1 DEF Box, None
        <5> QED
          BY <4>4, <5>1, <5>2
      <4>8. CASE Unindex(i)
        <5>1. Safe /\ pend' = None /\ UNCHANGED pub /\ pend # None
          BY <3>1, <4>2, <4>8 DEF Unindex, In, HandlerSettles
        <5>2. Box' = 0
          BY <2>1, <2>2, <4>1, <5>1 DEF Box, FilesSettle, None
        <5> QED
          BY <4>4, <5>1, <5>2
      <4> QED
        BY <2>9, <4>2, <4>5, <4>6, <4>7, <4>8 DEF Handler, Skip, Announce, EnrichFails,
           IntercomAnswers, Deliver, EmitGroup, Resume, Check, files
    <3> QED
      BY <3>2, <3>3
  <2> QED
    BY <2>5, <2>6, <2>7, <2>8, <2>9 DEF Next, Writer
<1> QED
  BY <1>1, <1>2, SettlingHeld, PTL DEF Spec, DeliversOutbox, Outbox!Spec
=============================================================================
