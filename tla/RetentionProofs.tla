--------------------------- MODULE RetentionProofs ---------------------------
(***************************************************************************)
(* Proofs about Retention for any number of passes and kills: a run that   *)
(* something came to refer to while it was in place loses nothing, and the *)
(* result of a run outlives its directory unless the lock is taken from a  *)
(* pass that is alive.                                                     *)
(***************************************************************************)
EXTENDS Retention, TLAPS

\* Before its own rename of the directory, under the lock, and with the directory at a
\* tombstone that the pass knows.
Early == {"start", "name", "judge", "evict", "discover", "commit", "run", "mark", "rename"}
Away == {"reread", "last look", "recheck waits", "recheck", "restore", "remove"}
Locked ==
  Away \cup {"discover", "commit", "run", "mark", "rename", "unmark", "result", "move result",
             "reread result", "reread moved result", "recheck result", "recheck moved result",
             "remove result", "restore result", "release", "unlock"}
Steps == Early \cup Locked \cup {"ended", "killed"}
Places == Passes \cup {InPlace, Gone}

\* RetentionTypeOK, one variable at a time, with the steps of the passes.
DomainsOK ==
  /\ sweep \in [Passes -> Steps]
  /\ latch \in Passes \cup {Nothing, Unowned}
  /\ latchSeen \in [Passes -> Passes \cup {Nothing, Unowned}]
  /\ latchTombs \subseteq Passes
  /\ runAt \in Places /\ resultAt \in Places
  /\ runFound \in [Passes -> Places] /\ resultFound \in [Passes -> Places]
  /\ waitSeen \in [Passes -> BOOLEAN]
  /\ torn \in BOOLEAN /\ seized \in BOOLEAN
  /\ marker \in Passes \cup {Nothing}
  /\ kept \subseteq refs /\ refs \subseteq References
  /\ sweepKills \in 0..MaxSweepKills

\* A tombstone has the name of the pass that made it, which makes one only.
TombsNamed ==
  \A p \in Passes :
    /\ sweep[p] \in Early => runAt # p /\ \A q \in Passes : runFound[q] # p
    /\ sweep[p] \in Away => runFound[p] \in Passes

\* The waits of the second look were read when the directory was at its tombstone, where
\* no reference is made that counts.
WaitsReread ==
  \A p \in Passes :
    sweep[p] \in {"last look", "recheck"} /\ "wait" \in kept =>
      /\ (sweep[p] = "last look" /\ runAt = runFound[p] => waitSeen[p])
      /\ (sweep[p] = "recheck" /\ runAt = p => waitSeen[p])

\* What is about to be removed is not referred to.
RemovedUnneeded ==
  \A p \in Passes : sweep[p] = "remove" /\ runAt = runFound[p] => kept = {}

\* As long as no live pass was robbed the lock is held by whoever goes by it.
OneLatch ==
  \A p \in Passes :
    /\ sweep[p] \in Locked => latch = p
    /\ sweep[p] = "name" => latch = Unowned /\ \A q \in Passes : sweep[q] = "name" => q = p

\* The run of a result that is removed, or is to be, stays away, with no marker.
RunStaysAway ==
  /\ resultAt = Gone \/ (\E p \in Passes : sweep[p] = "remove result") =>
       runAt # InPlace /\ marker = Nothing
  /\ resultAt = Gone =>
       \A p \in Passes : sweep[p] \notin {"mark", "rename", "recheck waits", "recheck", "restore"}

RetentionInv ==
  /\ DomainsOK /\ TombsNamed /\ WaitsReread /\ RemovedUnneeded /\ KeepsReferenced
  /\ ~seized => OneLatch /\ RunStaysAway

-----------------------------------------------------------------------------
LEMMA StepsApart ==
  /\ \A s \in Away : s \in Locked /\ s \notin Early
  /\ "ended" \notin Early \cup Locked /\ "killed" \notin Early \cup Locked
  /\ {"start", "name", "judge", "evict"} \cap Locked = {}
BY DEF Away, Locked, Early

LEMMA PlacesApart ==
  /\ InPlace \notin Passes /\ Gone \notin Passes /\ Nothing \notin Passes /\ Unowned \notin Passes
  /\ InPlace # Gone /\ Nothing # Unowned /\ InPlace # Nothing /\ Gone # Nothing
BY RetentionAssumption DEF InPlace, Gone, Nothing, Unowned

\* A pass moves from step to step; nothing else does.
LEMMA StepsKnown ==
  ASSUME DomainsOK, NEW p \in Passes, NEW s \in Steps, Turns(p, s)
  PROVE  sweep' \in [Passes -> Steps] /\ sweep'[p] = s
         /\ \A q \in Passes \ {p} : sweep'[q] = sweep[q]
BY DEF DomainsOK, Turns

\* Every variable stays within its domain.
LEMMA DomainsStep ==
  ASSUME DomainsOK, [RetentionNext]_retentionVars
  PROVE  DomainsOK'
<1> USE DEF Doing, latching, known, leavings, around
<1>1. ASSUME NEW p \in Passes, NEW s \in Steps, Turns(p, s),
             UNCHANGED <<latching, known, leavings, around>>
      PROVE  DomainsOK'
  BY <1>1, StepsKnown DEF DomainsOK
<1>2. {"start", "name", "judge", "evict", "discover", "commit", "run", "mark", "rename", "reread",
       "last look", "recheck waits", "recheck", "restore", "remove", "unmark", "result",
       "move result", "reread result", "reread moved result", "recheck result",
       "recheck moved result", "remove result", "restore result", "release", "unlock", "ended",
       "killed"} \subseteq Steps
  BY DEF Steps, Early, Locked, Away
<1>3. ASSUME NEW p \in Passes, TakeLatch(p) \/ NameLatch(p) \/ JudgeLatch(p) \/ Unlock(p)
      PROVE  DomainsOK'
  <2>1. \E s \in Steps : Turns(p, s)
    BY <1>2, <1>3 DEF TakeLatch, NameLatch, JudgeLatch, Unlock
  <2>2. sweep' \in [Passes -> Steps]
    BY <2>1, StepsKnown
  <2>3. latch' \in Passes \cup {Nothing, Unowned}
        /\ latchSeen' \in [Passes -> Passes \cup {Nothing, Unowned}]
    BY <1>3 DEF TakeLatch, NameLatch, JudgeLatch, Unlock, DomainsOK
  <2>4. UNCHANGED <<latchTombs, seized, known, leavings, around>>
    BY <1>3 DEF TakeLatch, NameLatch, JudgeLatch, Unlock
  <2> QED
    BY <2>2, <2>3, <2>4 DEF DomainsOK
<1>4. ASSUME NEW p \in Passes, EvictLatch(p) PROVE DomainsOK'
  <2>1. sweep' \in [Passes -> Steps]
    BY <1>2, <1>4, StepsKnown DEF EvictLatch
  <2>2. /\ latch' \in Passes \cup {Nothing, Unowned}
        /\ latchSeen' \in [Passes -> Passes \cup {Nothing, Unowned}]
        /\ latchTombs' \subseteq Passes
    BY <1>4 DEF EvictLatch, DomainsOK
  <2>3. seized' \in BOOLEAN
    BY <1>4, Zenon DEF EvictLatch, DomainsOK
  <2>4. UNCHANGED <<known, leavings, around>>
    BY <1>4 DEF EvictLatch
  <2> QED
    BY <2>1, <2>2, <2>3, <2>4 DEF DomainsOK
<1>5. ASSUME NEW p \in Passes, Discover(p) PROVE DomainsOK'
  <2>1. sweep' \in [Passes -> Steps]
    BY <1>2, <1>5, StepsKnown DEF Discover
  <2>2. runFound' \in [Passes -> Places] /\ resultFound' \in [Passes -> Places]
    BY <1>5 DEF Discover, DomainsOK, Places
  <2>3. UNCHANGED <<latching, waitSeen, leavings, around>>
    BY <1>5 DEF Discover
  <2> QED
    BY <2>1, <2>2, <2>3 DEF DomainsOK
<1>6. ASSUME NEW p \in Passes, BeginCommit(p) \/ RereadWaits(p) \/ RereadResultWaits(p)
      PROVE  DomainsOK'
  <2>1. \E s \in Steps : Turns(p, s)
    BY <1>2, <1>6 DEF BeginCommit, RereadWaits, RereadResultWaits
  <2>2. waitSeen' \in [Passes -> BOOLEAN]
    <3>1. ("wait" \in refs) \in BOOLEAN
      OBVIOUS
    <3>2. waitSeen' = [waitSeen EXCEPT ![p] = ("wait" \in refs)]
      BY <1>6 DEF BeginCommit, RereadWaits, RereadResultWaits
    <3> QED
      BY <3>1, <3>2 DEF DomainsOK
  <2>3. UNCHANGED <<latching, runFound, resultFound, leavings, around>>
    BY <1>6 DEF BeginCommit, RereadWaits, RereadResultWaits
  <2> QED
    BY <2>1, <2>2, <2>3, StepsKnown DEF DomainsOK
<1>7. ASSUME NEW p \in Passes, ReadLatch(p) PROVE DomainsOK'
  <2>1. sweep' \in [Passes -> Steps]
    BY <1>2, <1>7, StepsKnown DEF ReadLatch
  <2>2. UNCHANGED <<latching, leavings, around>>
    BY <1>7 DEF ReadLatch
  <2> QED
    BY <1>7, <2>1, <2>2 DEF ReadLatch, Forgets, DomainsOK, Places
<1>8. ASSUME NEW p \in Passes, ExamineRun(p) \/ LastLook(p) \/ RecheckRun(p) PROVE DomainsOK'
  <2>1. \E s \in Steps : Turns(p, s)
    BY <1>2, <1>8 DEF ExamineRun, LastLook, RecheckRun, OnToResult
  <2> QED
    BY <1>1, <1>8, <2>1 DEF ExamineRun, LastLook, RecheckRun
<1>9. ASSUME NEW p \in Passes, MarkAway(p) \/ RestoreRun(p) \/ RemoveRun(p) \/ Unmark(p)
      PROVE  DomainsOK'
  <2>1. \E s \in Steps : Turns(p, s)
    BY <1>2, <1>9 DEF MarkAway, RestoreRun, RemoveRun, Unmark, OnToResult
  <2>2. runAt' \in Places /\ torn' \in BOOLEAN /\ marker' \in Passes \cup {Nothing}
        /\ resultAt' = resultAt
    BY <1>9 DEF MarkAway, RestoreRun, RemoveRun, Unmark, DomainsOK, Places
  <2>3. UNCHANGED <<latching, known, around>>
    BY <1>9 DEF MarkAway, RestoreRun, RemoveRun, Unmark
  <2> QED
    BY <2>1, <2>2, <2>3, StepsKnown DEF DomainsOK
<1>10. ASSUME NEW p \in Passes, MoveRun(p) PROVE DomainsOK'
  <2>1. sweep' \in [Passes -> Steps]
    BY <1>2, <1>10, StepsKnown DEF MoveRun, OnToResult
  <2>2. runAt' \in Places /\ runFound' \in [Passes -> Places] /\ marker' \in Passes \cup {Nothing}
    BY <1>10 DEF MoveRun, DomainsOK, Places
  <2>3. UNCHANGED <<latching, resultFound, waitSeen, torn, resultAt, around>>
    BY <1>10 DEF MoveRun
  <2> QED
    BY <2>1, <2>2, <2>3 DEF DomainsOK
<1>11. ASSUME NEW p \in Passes, ExamineResult(p) \/ RecheckResult(p) PROVE DomainsOK'
  <2>1. \E s \in Steps : Turns(p, s)
    BY <1>2, <1>11 DEF ExamineResult, RecheckResult
  <2>2. marker' \in Passes \cup {Nothing}
    BY <1>11 DEF ExamineResult, RecheckResult, DomainsOK
  <2>3. UNCHANGED <<latching, known, runAt, torn, resultAt, around>>
    BY <1>11 DEF ExamineResult, RecheckResult
  <2> QED
    BY <2>1, <2>2, <2>3, StepsKnown DEF DomainsOK
<1>12. ASSUME NEW p \in Passes, MoveResult(p) \/ SettleResult(p) PROVE DomainsOK'
  <2>1. \E s \in Steps : Turns(p, s)
    BY <1>2, <1>12 DEF MoveResult, SettleResult
  <2>2. resultAt' \in Places /\ resultFound' \in [Passes -> Places]
    BY <1>12 DEF MoveResult, SettleResult, DomainsOK, Places
  <2>3. UNCHANGED <<latching, runFound, waitSeen, runAt, torn, marker, around>>
    BY <1>12 DEF MoveResult, SettleResult
  <2> QED
    BY <2>1, <2>2, <2>3, StepsKnown DEF DomainsOK
<1>13. ASSUME NEW p \in Passes, KillPass(p) PROVE DomainsOK'
  <2>1. sweep' \in [Passes -> Steps]
    BY <1>2, <1>13, StepsKnown DEF KillPass
  <2>2. /\ runFound' \in [Passes -> Places] /\ resultFound' \in [Passes -> Places]
        /\ waitSeen' \in [Passes -> BOOLEAN]
    BY <1>13 DEF KillPass, Forgets, DomainsOK, Places
  <2>3. torn' \in BOOLEAN
    BY <1>13 DEF KillPass, DomainsOK
  <2>4. sweepKills' \in 0..MaxSweepKills
    <3>1. sweepKills < MaxSweepKills /\ sweepKills' = sweepKills + 1
      BY <1>13 DEF KillPass
    <3>2. sweepKills \in 0..MaxSweepKills /\ MaxSweepKills \in Nat
      BY RetentionAssumption DEF DomainsOK
    <3> QED
      BY <3>1, <3>2
  <2>5. UNCHANGED <<latching, runAt, marker, resultAt, refs, kept>>
    BY <1>13 DEF KillPass
  <2> QED
    BY <2>1, <2>2, <2>3, <2>4, <2>5 DEF DomainsOK
<1>14. ASSUME NEW r \in References, Refer(r) \/ Dismiss(r) PROVE DomainsOK'
  <2>1. kept' \subseteq refs' /\ refs' \subseteq References
    BY <1>14 DEF Refer, Dismiss, DomainsOK
  <2>2. UNCHANGED <<sweep, latching, known, leavings, sweepKills>>
    BY <1>14 DEF Refer, Dismiss
  <2> QED
    BY <2>1, <2>2 DEF DomainsOK
<1>15. CASE UNCHANGED retentionVars
  BY <1>15 DEF retentionVars, DomainsOK
<1> QED
  BY <1>3, <1>4, <1>5, <1>6, <1>7, <1>8, <1>9, <1>10, <1>11, <1>12, <1>13, <1>14, <1>15
     DEF RetentionNext

-----------------------------------------------------------------------------
\* A pass knows its own tombstone from its rename on, and others only then.
LEMMA TombsStep ==
  ASSUME DomainsOK, TombsNamed, [RetentionNext]_retentionVars
  PROVE  TombsNamed'
<1> USE DEF Doing, Turns, latching, known, leavings, around
<1>1. /\ sweep \in [Passes -> Steps] /\ runFound \in [Passes -> Places] /\ runAt \in Places
      /\ \A p \in Passes : /\ sweep[p] \in Early => runAt # p /\ \A q \in Passes : runFound[q] # p
                           /\ sweep[p] \in Away => runFound[p] \in Passes
  BY DEF DomainsOK, TombsNamed
\* A step that moves no directory and forgets no name.
<1>2. ASSUME NEW p \in Passes, NEW s, sweep' = [sweep EXCEPT ![p] = s],
             UNCHANGED <<runAt, runFound>>,
             s \in Early => sweep[p] \in Early,
             s \in Away => sweep[p] \in Away \/ runFound[p] \in Passes
      PROVE  TombsNamed'
  <2>1. sweep'[p] = s /\ \A q \in Passes \ {p} : sweep'[q] = sweep[q]
    BY <1>1, <1>2
  <2> QED
    BY <1>1, <1>2, <2>1 DEF TombsNamed
<1>3. ASSUME NEW p \in Passes,
             TakeLatch(p) \/ NameLatch(p) \/ JudgeLatch(p) \/ EvictLatch(p) \/ Unlock(p)
      PROVE  TombsNamed'
  <2>1. UNCHANGED <<runAt, runFound>>
    BY <1>3 DEF TakeLatch, NameLatch, JudgeLatch, EvictLatch, Unlock
  <2>2. PICK s \in {"name", "judge", "discover", "ended", "evict", "start"} :
          sweep' = [sweep EXCEPT ![p] = s] /\ (s \in Early => sweep[p] \in Early)
    BY <1>3 DEF TakeLatch, NameLatch, JudgeLatch, EvictLatch, Unlock, Early
  <2> QED
    BY <1>2, <2>1, <2>2 DEF Away
<1>4. ASSUME NEW p \in Passes, Discover(p) PROVE TombsNamed'
  <2>1. PICK d \in {runAt, Gone}, s \in {"commit", "release"} :
          /\ runFound' = [runFound EXCEPT ![p] = d] /\ sweep' = [sweep EXCEPT ![p] = s]
          /\ UNCHANGED runAt /\ sweep[p] = "discover"
    BY <1>4 DEF Discover
  <2>2. \A q \in Passes : /\ sweep'[q] \in Early => sweep[q] \in Early
                          /\ runFound'[q] = runFound[q] \/ runFound'[q] \in {runAt, Gone}
                          /\ sweep'[q] \in Away => sweep[q] \in Away /\ q # p
    BY <1>1, <2>1 DEF Early, Away
  <2>3. \A q \in Passes \ {p} : runFound'[q] = runFound[q]
    BY <1>1, <2>1
  <2> QED
    BY <1>1, <2>1, <2>2, <2>3, PlacesApart DEF TombsNamed
<1>5. ASSUME NEW p \in Passes, ReadLatch(p) \/ KillPass(p) PROVE TombsNamed'
  <2>1. PICK s \in {"unlock", "ended", "killed"} :
          /\ sweep' = [sweep EXCEPT ![p] = s] /\ runFound' = [runFound EXCEPT ![p] = Gone]
          /\ UNCHANGED runAt
    BY <1>5 DEF ReadLatch, KillPass, Forgets
  <2>2. \A q \in Passes : /\ sweep'[q] \in Early => sweep[q] \in Early
                          /\ sweep'[q] \in Away => sweep[q] \in Away /\ q # p
                          /\ runFound'[q] = IF q = p THEN Gone ELSE runFound[q]
    BY <1>1, <2>1 DEF Early, Away
  <2> QED
    BY <1>1, <2>1, <2>2, PlacesApart DEF TombsNamed
<1>6. ASSUME NEW p \in Passes, ExamineRun(p) PROVE TombsNamed'
  <2>1. UNCHANGED <<runAt, runFound>> /\ sweep[p] = "run"
    BY <1>6 DEF ExamineRun
  <2>2. PICK s \in {"mark", "reread", "result", "release"} :
          /\ sweep' = [sweep EXCEPT ![p] = s]
          /\ s = "reread" => runAt = runFound[p] /\ runAt # Gone /\ runAt # InPlace
    BY <1>6 DEF ExamineRun, Removable, OnToResult
  <2>3. (s \in Early => sweep[p] \in Early) /\ (s \in Away => runFound[p] \in Passes)
    BY <1>1, <2>1, <2>2 DEF Early, Away, Places
  <2> QED
    BY <1>2, <2>1, <2>2, <2>3
<1>7. ASSUME NEW p \in Passes, MoveRun(p) PROVE TombsNamed'
  <2>1. sweep[p] = "rename"
    BY <1>7 DEF MoveRun
  <2>2. CASE runAt = InPlace
    <3>1. /\ runAt' = p /\ runFound' = [runFound EXCEPT ![p] = p]
          /\ sweep' = [sweep EXCEPT ![p] = "recheck waits"]
      BY <1>7, <2>2 DEF MoveRun
    <3>2. \A q \in Passes : /\ sweep'[q] \in Early => sweep[q] \in Early /\ q # p
                            /\ sweep'[q] \in Away => sweep[q] \in Away \/ q = p
                            /\ runFound'[q] = IF q = p THEN p ELSE runFound[q]
      BY <1>1, <3>1 DEF Early, Away
    <3>3. ASSUME NEW q \in Passes, sweep'[q] \in Early
          PROVE  runAt' # q /\ \A r \in Passes : runFound'[r] # q
      <4>1. sweep[q] \in Early /\ q # p
        BY <3>2, <3>3
      <4> QED
        BY <1>1, <3>1, <3>2, <4>1
    <3>4. ASSUME NEW q \in Passes, sweep'[q] \in Away PROVE runFound'[q] \in Passes
      BY <1>1, <3>2, <3>4
    <3> QED
      BY <3>3, <3>4 DEF TombsNamed
  <2>3. CASE runAt # InPlace
    <3>1. PICK s \in {"result", "release"} : sweep' = [sweep EXCEPT ![p] = s]
      BY <1>7, <2>3 DEF MoveRun, OnToResult
    <3> QED
      BY <1>2, <1>7, <2>3, <3>1 DEF MoveRun, Early, Away
  <2> QED
    BY <2>2, <2>3
<1>8. ASSUME NEW p \in Passes, RereadWaits(p) \/ LastLook(p) \/ RecheckRun(p) PROVE TombsNamed'
  <2>1. UNCHANGED <<runAt, runFound>> /\ sweep[p] \in Away
    BY <1>8 DEF RereadWaits, LastLook, RecheckRun, Away
  <2>2. PICK s \in {"last look", "recheck", "remove", "restore", "result", "release"} :
          sweep' = [sweep EXCEPT ![p] = s]
    BY <1>8 DEF RereadWaits, LastLook, RecheckRun, OnToResult
  <2> QED
    BY <1>2, <2>1, <2>2 DEF Early
<1>9. ASSUME NEW p \in Passes, RestoreRun(p) \/ RemoveRun(p) PROVE TombsNamed'
  <2>1. runAt' \in {runAt, InPlace, Gone} /\ UNCHANGED runFound
    BY <1>9 DEF RestoreRun, RemoveRun
  <2>2. PICK s \in {"unmark", "result", "release"} : sweep' = [sweep EXCEPT ![p] = s]
    BY <1>9 DEF RestoreRun, RemoveRun, OnToResult
  <2>3. \A q \in Passes : /\ sweep'[q] \in Early => sweep[q] \in Early
                          /\ sweep'[q] \in Away => sweep[q] \in Away
    BY <1>1, <2>2 DEF Early, Away
  <2> QED
    BY <1>1, <2>1, <2>3, PlacesApart DEF TombsNamed
<1>10. ASSUME NEW p \in Passes, BeginCommit(p) \/ MarkAway(p) PROVE TombsNamed'
  <2>1. UNCHANGED <<runAt, runFound>> /\ sweep[p] \in Early
    BY <1>10 DEF BeginCommit, MarkAway, Early
  <2>2. PICK s \in {"run", "rename", "result", "release"} : sweep' = [sweep EXCEPT ![p] = s]
    BY <1>10 DEF BeginCommit, MarkAway, OnToResult
  <2> QED
    BY <1>2, <2>1, <2>2 DEF Away
<1>11. ASSUME NEW p \in Passes,
              Unmark(p) \/ ExamineResult(p) \/ MoveResult(p) \/ RereadResultWaits(p)
                \/ RecheckResult(p) \/ SettleResult(p)
       PROVE  TombsNamed'
  <2>1. UNCHANGED <<runAt, runFound>>
    BY <1>11 DEF Unmark, ExamineResult, MoveResult, RereadResultWaits, RecheckResult, SettleResult
  <2>2. PICK s \in {"result", "release", "move result", "reread result", "reread moved result",
                   "recheck result", "recheck moved result", "remove result", "restore result"} :
          sweep' = [sweep EXCEPT ![p] = s]
    BY <1>11 DEF Unmark, ExamineResult, MoveResult, RereadResultWaits, RecheckResult, SettleResult,
       OnToResult
  <2> QED
    BY <1>2, <2>1, <2>2 DEF Early, Away
<1>12. CASE UNCHANGED retentionVars \/ \E r \in References : Refer(r) \/ Dismiss(r)
  BY <1>1, <1>12 DEF retentionVars, Refer, Dismiss, TombsNamed
<1> QED
  BY <1>3, <1>4, <1>5, <1>6, <1>7, <1>8, <1>9, <1>10, <1>11, <1>12 DEF RetentionNext

-----------------------------------------------------------------------------
\* References count only when they are made to a directory that is in place and whole.
LEMMA KeptGrows ==
  ASSUME DomainsOK, [RetentionNext]_retentionVars
  PROVE  \/ kept' \subseteq kept
         \/ /\ runAt = InPlace /\ ~torn
            /\ UNCHANGED <<sweep, latching, known, leavings, sweepKills>>
<1>1. ASSUME NEW r \in References, Refer(r)
      PROVE  \/ kept' \subseteq kept
             \/ /\ runAt = InPlace /\ ~torn
                /\ UNCHANGED <<sweep, latching, known, leavings, sweepKills>>
  BY <1>1 DEF Refer
<1>2. ASSUME NEW r \in References, Dismiss(r) PROVE kept' \subseteq kept
  BY <1>2 DEF Dismiss
<1>3. CASE UNCHANGED retentionVars
  BY <1>3 DEF retentionVars
<1>4. ASSUME NEW p \in Passes,
             \/ TakeLatch(p) \/ NameLatch(p) \/ JudgeLatch(p) \/ EvictLatch(p)
             \/ Discover(p) \/ BeginCommit(p) \/ ReadLatch(p) \/ Unlock(p)
             \/ ExamineRun(p) \/ MarkAway(p) \/ MoveRun(p) \/ RereadWaits(p) \/ LastLook(p)
             \/ RecheckRun(p) \/ RestoreRun(p) \/ RemoveRun(p) \/ Unmark(p)
             \/ ExamineResult(p) \/ MoveResult(p) \/ RereadResultWaits(p)
             \/ RecheckResult(p) \/ SettleResult(p) \/ KillPass(p)
      PROVE  UNCHANGED kept
  BY <1>4 DEF TakeLatch, NameLatch, JudgeLatch, EvictLatch, Discover, BeginCommit, ReadLatch,
     Unlock, ExamineRun, MarkAway, MoveRun, RereadWaits, LastLook, RecheckRun, RestoreRun,
     RemoveRun, Unmark, ExamineResult, MoveResult, RereadResultWaits, RecheckResult,
     SettleResult, KillPass, around
<1> QED
  BY <1>1, <1>2, <1>3, <1>4 DEF RetentionNext

\* The second look reads the waits, and what it lets go is not referred to any more.
LEMMA UnneededSeen ==
  ASSUME DomainsOK, NEW p \in Passes, Unneeded(p), "wait" \in kept => waitSeen[p]
  PROVE  kept = {}
BY DEF Unneeded, DomainsOK, References

\* Nothing that is referred to is removed.
LEMMA ReferencedStep ==
  ASSUME DomainsOK, TombsNamed, WaitsReread, RemovedUnneeded, KeepsReferenced,
         [RetentionNext]_retentionVars
  PROVE  WaitsReread' /\ RemovedUnneeded' /\ KeepsReferenced'
<1> USE DEF Doing, Turns, latching, known, leavings, around
<1>1. /\ sweep \in [Passes -> Steps] /\ runFound \in [Passes -> Places] /\ runAt \in Places
      /\ waitSeen \in [Passes -> BOOLEAN] /\ torn \in BOOLEAN /\ kept \subseteq refs
      /\ \A p \in Passes : /\ sweep[p] \in Early => runAt # p /\ \A q \in Passes : runFound[q] # p
                           /\ sweep[p] \in Away => runFound[p] \in Passes
  BY DEF DomainsOK, TombsNamed
<1>2. InPlace \notin Passes /\ Gone \notin Passes /\ InPlace # Gone
  BY PlacesApart
<1>3. /\ \A p \in Passes :
           /\ sweep[p] = "last look" /\ runAt = runFound[p] /\ "wait" \in kept => waitSeen[p]
           /\ sweep[p] = "recheck" /\ runAt = p /\ "wait" \in kept => waitSeen[p]
           /\ sweep[p] = "remove" /\ runAt = runFound[p] => kept = {}
      /\ kept # {} =>
           /\ ~torn
           /\ \/ runAt = InPlace
              \/ /\ runAt \in Passes
                 /\ sweep[runAt] \in {"recheck waits", "recheck", "restore", "killed"}
  BY DEF WaitsReread, RemovedUnneeded, KeepsReferenced
\* What is enough of a step that moves no directory.
<1>4. ASSUME NEW p \in Passes, NEW s, sweep' = [sweep EXCEPT ![p] = s],
             UNCHANGED <<runAt, torn, kept>>,
             \A q \in Passes \ {p} : runFound'[q] = runFound[q] /\ waitSeen'[q] = waitSeen[q],
             s = "last look" /\ runAt = runFound'[p] /\ "wait" \in kept => waitSeen'[p],
             s = "recheck" /\ runAt = p /\ "wait" \in kept => waitSeen'[p],
             s = "remove" /\ runAt = runFound'[p] => kept = {},
             kept # {} /\ runAt = p =>
               s \in {"recheck waits", "recheck", "restore", "killed"}
      PROVE  WaitsReread' /\ RemovedUnneeded' /\ KeepsReferenced'
  <2>1. sweep'[p] = s /\ \A q \in Passes \ {p} : sweep'[q] = sweep[q]
    BY <1>1, <1>4
  <2>2. WaitsReread'
    BY <1>3, <1>4, <2>1 DEF WaitsReread
  <2>3. RemovedUnneeded'
    BY <1>3, <1>4, <2>1 DEF RemovedUnneeded
  <2>4. KeepsReferenced'
    BY <1>3, <1>4, <2>1 DEF KeepsReferenced
  <2> QED
    BY <2>2, <2>3, <2>4
\* One that is not on the way of its own directory is easier.
<1>5. ASSUME NEW p \in Passes, NEW s, sweep' = [sweep EXCEPT ![p] = s],
             UNCHANGED <<runAt, torn, kept>>,
             \A q \in Passes \ {p} : runFound'[q] = runFound[q] /\ waitSeen'[q] = waitSeen[q],
             s \notin {"last look", "recheck", "remove"},
             \/ s = "killed"
             \/ sweep[p] \notin {"recheck waits", "recheck", "restore", "killed"}
      PROVE  WaitsReread' /\ RemovedUnneeded' /\ KeepsReferenced'
  <2>1. kept # {} /\ runAt = p => s \in {"recheck waits", "recheck", "restore", "killed"}
    BY <1>2, <1>3, <1>5
  <2>2. s # "last look" /\ s # "recheck" /\ s # "remove"
    BY <1>5
  <2> QED
    BY <1>4, <1>5, <2>1, <2>2
<1>6. ASSUME NEW p \in Passes,
             TakeLatch(p) \/ NameLatch(p) \/ JudgeLatch(p) \/ EvictLatch(p) \/ Unlock(p)
      PROVE  WaitsReread' /\ RemovedUnneeded' /\ KeepsReferenced'
  <2>1. UNCHANGED <<runAt, torn, kept, runFound, waitSeen>>
        /\ sweep[p] \in {"start", "name", "judge", "evict", "unlock"}
    BY <1>6 DEF TakeLatch, NameLatch, JudgeLatch, EvictLatch, Unlock
  <2>2. PICK s \in {"name", "judge", "discover", "ended", "evict", "start"} :
          sweep' = [sweep EXCEPT ![p] = s]
    BY <1>6 DEF TakeLatch, NameLatch, JudgeLatch, EvictLatch, Unlock
  <2> QED
    BY <1>5, <2>1, <2>2
<1>7. ASSUME NEW p \in Passes, Discover(p) \/ ReadLatch(p) \/ BeginCommit(p)
                                 \/ RereadResultWaits(p)
      PROVE  WaitsReread' /\ RemovedUnneeded' /\ KeepsReferenced'
  <2>1. UNCHANGED <<runAt, torn, kept>>
        /\ sweep[p] \in {"discover", "release", "commit", "reread result", "reread moved result"}
    BY <1>7 DEF Discover, ReadLatch, BeginCommit, RereadResultWaits
  <2>2. PICK s \in {"commit", "release", "unlock", "ended", "run", "recheck result",
                    "recheck moved result"} :
          sweep' = [sweep EXCEPT ![p] = s]
    BY <1>7 DEF Discover, ReadLatch, BeginCommit, RereadResultWaits
  <2>3. \A q \in Passes \ {p} : runFound'[q] = runFound[q] /\ waitSeen'[q] = waitSeen[q]
    <3>1. CASE Discover(p)
      <4>1. PICK d : runFound' = [runFound EXCEPT ![p] = d]
        BY <3>1 DEF Discover
      <4>2. UNCHANGED waitSeen
        BY <3>1 DEF Discover
      <4> QED
        BY <1>1, <4>1, <4>2
    <3>2. CASE ReadLatch(p)
      BY <1>1, <3>2 DEF ReadLatch, Forgets
    <3>3. CASE BeginCommit(p) \/ RereadResultWaits(p)
      <4>1. PICK b : waitSeen' = [waitSeen EXCEPT ![p] = b]
        BY <3>3 DEF BeginCommit, RereadResultWaits
      <4>2. UNCHANGED runFound
        BY <3>3 DEF BeginCommit, RereadResultWaits
      <4> QED
        BY <1>1, <4>1, <4>2
    <3> QED
      BY <1>7, <3>1, <3>2, <3>3
  <2> QED
    BY <1>5, <2>1, <2>2, <2>3
<1>8. ASSUME NEW p \in Passes, ExamineRun(p) \/ MarkAway(p) \/ Unmark(p)
      PROVE  WaitsReread' /\ RemovedUnneeded' /\ KeepsReferenced'
  <2>1. UNCHANGED <<runAt, torn, kept, runFound, waitSeen>>
        /\ sweep[p] \in {"run", "mark", "unmark"}
    BY <1>8 DEF ExamineRun, MarkAway, Unmark
  <2>2. PICK s \in {"mark", "reread", "rename", "result", "release"} :
          sweep' = [sweep EXCEPT ![p] = s]
    BY <1>8 DEF ExamineRun, MarkAway, Unmark, OnToResult
  <2> QED
    BY <1>5, <2>1, <2>2
<1>9. ASSUME NEW p \in Passes,
             ExamineResult(p) \/ MoveResult(p) \/ RecheckResult(p) \/ SettleResult(p)
      PROVE  WaitsReread' /\ RemovedUnneeded' /\ KeepsReferenced'
  <2>1. UNCHANGED <<runAt, torn, kept, runFound, waitSeen>>
        /\ sweep[p] \in {"result", "move result", "recheck result", "recheck moved result",
                         "remove result", "restore result"}
    BY <1>9 DEF ExamineResult, MoveResult, RecheckResult, SettleResult
  <2>2. PICK s \in {"release", "move result", "reread result", "reread moved result",
                    "remove result", "restore result"} :
          sweep' = [sweep EXCEPT ![p] = s]
    BY <1>9 DEF ExamineResult, MoveResult, RecheckResult, SettleResult
  <2> QED
    BY <1>5, <2>1, <2>2
<1>10. ASSUME NEW p \in Passes, MoveRun(p)
       PROVE  WaitsReread' /\ RemovedUnneeded' /\ KeepsReferenced'
  <2>1. sweep[p] = "rename" /\ UNCHANGED <<waitSeen, torn, kept>>
    BY <1>10 DEF MoveRun
  <2>2. CASE runAt # InPlace
    <3>1. PICK s \in {"result", "release"} : sweep' = [sweep EXCEPT ![p] = s]
      BY <1>10, <2>2 DEF MoveRun, OnToResult
    <3> QED
      BY <1>5, <1>10, <2>1, <2>2, <3>1 DEF MoveRun
  <2>3. CASE runAt = InPlace
    <3>1. /\ runAt' = p /\ runFound' = [runFound EXCEPT ![p] = p]
          /\ sweep' = [sweep EXCEPT ![p] = "recheck waits"]
      BY <1>10, <2>3 DEF MoveRun
    <3>2. /\ sweep'[p] = "recheck waits"
          /\ \A q \in Passes \ {p} : /\ sweep'[q] = sweep[q] /\ runFound'[q] = runFound[q]
                                     /\ runFound[q] # p
      BY <1>1, <2>1, <3>1 DEF Early
    <3>3. WaitsReread' /\ RemovedUnneeded'
      BY <3>1, <3>2 DEF WaitsReread, RemovedUnneeded
    <3>4. KeepsReferenced'
      BY <1>3, <2>1, <3>1, <3>2 DEF KeepsReferenced
    <3> QED
      BY <3>3, <3>4
  <2> QED
    BY <2>2, <2>3
<1>11. ASSUME NEW p \in Passes, RereadWaits(p)
       PROVE  WaitsReread' /\ RemovedUnneeded' /\ KeepsReferenced'
  <2>1. /\ UNCHANGED <<runAt, torn, kept, runFound>>
        /\ waitSeen' = [waitSeen EXCEPT ![p] = "wait" \in refs]
        /\ \/ sweep[p] = "reread" /\ sweep' = [sweep EXCEPT ![p] = "last look"]
           \/ sweep[p] = "recheck waits" /\ sweep' = [sweep EXCEPT ![p] = "recheck"]
    BY <1>11 DEF RereadWaits
  <2>2. "wait" \in kept => waitSeen'[p]
    BY <1>1, <2>1
  <2>3. \A q \in Passes \ {p} : runFound'[q] = runFound[q] /\ waitSeen'[q] = waitSeen[q]
    BY <1>1, <2>1
  <2>4. CASE sweep[p] = "reread" /\ sweep' = [sweep EXCEPT ![p] = "last look"]
    <3>1. ~(kept # {} /\ runAt = p)
      BY <1>2, <1>3, <2>4
    <3> QED
      BY <1>4, <2>1, <2>2, <2>3, <2>4, <3>1
  <2>5. CASE sweep[p] = "recheck waits" /\ sweep' = [sweep EXCEPT ![p] = "recheck"]
    BY <1>4, <2>1, <2>2, <2>3, <2>5
  <2> QED
    BY <2>1, <2>4, <2>5
<1>12. ASSUME NEW p \in Passes, LastLook(p)
       PROVE  WaitsReread' /\ RemovedUnneeded' /\ KeepsReferenced'
  <2>1. UNCHANGED <<runAt, torn, kept, runFound, waitSeen>> /\ sweep[p] = "last look"
    BY <1>12 DEF LastLook
  <2>2. PICK s \in {"remove", "result", "release"} :
          /\ sweep' = [sweep EXCEPT ![p] = s] /\ (s = "remove" => Unneeded(p))
    BY <1>12 DEF LastLook, OnToResult
  <2>3. s = "remove" /\ runAt = runFound[p] => kept = {}
    BY <1>3, <2>1, <2>2, UnneededSeen
  <2>4. ~(kept # {} /\ runAt = p)
    BY <1>2, <1>3, <2>1
  <2> QED
    BY <1>4, <2>1, <2>2, <2>3, <2>4
<1>13. ASSUME NEW p \in Passes, RecheckRun(p)
       PROVE  WaitsReread' /\ RemovedUnneeded' /\ KeepsReferenced'
  <2>1. UNCHANGED <<runAt, torn, kept, runFound, waitSeen>> /\ sweep[p] = "recheck"
    BY <1>13 DEF RecheckRun
  <2>2. CASE Unneeded(p) /\ runAt = p /\ sweep' = [sweep EXCEPT ![p] = "remove"]
    <3>1. kept = {}
      BY <1>3, <2>1, <2>2, UnneededSeen
    <3> QED
      BY <1>4, <2>1, <2>2, <3>1
  <2>3. CASE sweep' = [sweep EXCEPT ![p] = "restore"]
    BY <1>4, <2>1, <2>3
  <2> QED
    BY <1>13, <2>2, <2>3 DEF RecheckRun
\* A directory that comes back or goes, from a tombstone.
<1>14. ASSUME NEW p \in Passes, NEW s \in {"unmark", "result", "release"},
              sweep' = [sweep EXCEPT ![p] = s], UNCHANGED <<torn, kept, runFound, waitSeen>>,
              runAt' = InPlace \/ (runAt' = Gone /\ kept = {})
       PROVE  WaitsReread' /\ RemovedUnneeded' /\ KeepsReferenced'
  <2>1. \A q \in Passes : sweep'[q] \in Away => sweep[q] = sweep'[q]
    BY <1>1, <1>14 DEF Away
  <2>2. \A q \in Passes : sweep'[q] \in Away => runFound'[q] \in Passes
    BY <1>1, <1>14, <2>1
  <2> QED
    BY <1>2, <1>3, <1>14, <2>2 DEF WaitsReread, RemovedUnneeded, KeepsReferenced, Away
<1>15. ASSUME NEW p \in Passes, RestoreRun(p)
       PROVE  WaitsReread' /\ RemovedUnneeded' /\ KeepsReferenced'
  <2>1. UNCHANGED <<torn, kept, runFound, waitSeen>> /\ sweep[p] = "restore"
    BY <1>15 DEF RestoreRun
  <2>2. CASE runAt = p
    BY <1>14, <1>15, <2>1, <2>2 DEF RestoreRun
  <2>3. CASE runAt # p
    <3>1. PICK s \in {"result", "release"} : sweep' = [sweep EXCEPT ![p] = s]
      BY <1>15, <2>3 DEF RestoreRun, OnToResult
    <3> QED
      BY <1>4, <1>15, <2>1, <2>3, <3>1 DEF RestoreRun
  <2> QED
    BY <2>2, <2>3
<1>16. ASSUME NEW p \in Passes, RemoveRun(p)
       PROVE  WaitsReread' /\ RemovedUnneeded' /\ KeepsReferenced'
  <2>1. UNCHANGED <<kept, runFound, waitSeen>> /\ sweep[p] = "remove"
    BY <1>16 DEF RemoveRun
  <2>2. CASE runAt = runFound[p] /\ runAt' = Gone
    <3>1. kept = {}
      BY <1>3, <2>1, <2>2
    <3>2. runAt' # runAt
      BY <1>1, <1>2, <2>1, <2>2, ZenonT(30) DEF Away
    <3>3. UNCHANGED torn /\ sweep' = [sweep EXCEPT ![p] = "unmark"]
      BY <1>16, <3>2 DEF RemoveRun
    <3> QED
      BY <1>14, <2>1, <2>2, <3>1, <3>3
  <2>3. CASE UNCHANGED runAt /\ OnToResult(p)
    <3>1. PICK s \in {"result", "release"} : sweep' = [sweep EXCEPT ![p] = s]
      BY <2>3 DEF OnToResult
    <3>2. CASE UNCHANGED torn
      BY <1>5, <2>1, <2>3, <3>1, <3>2
    <3>3. CASE kept = {}
      BY <3>3, <2>1 DEF WaitsReread, RemovedUnneeded, KeepsReferenced
    <3> QED
      BY <1>3, <1>16, <2>1, <2>3, <3>2, <3>3 DEF RemoveRun
  <2> QED
    BY <1>16, <2>2, <2>3 DEF RemoveRun
<1>17. ASSUME NEW p \in Passes, KillPass(p)
       PROVE  WaitsReread' /\ RemovedUnneeded' /\ KeepsReferenced'
  <2>1. /\ UNCHANGED <<kept, runAt>> /\ sweep' = [sweep EXCEPT ![p] = "killed"]
        /\ \A q \in Passes \ {p} : runFound'[q] = runFound[q] /\ waitSeen'[q] = waitSeen[q]
        /\ UNCHANGED torn \/ (sweep[p] = "remove" /\ runAt = runFound[p])
    BY <1>1, <1>17 DEF KillPass, Forgets
  <2>2. CASE UNCHANGED torn
    BY <1>5, <2>1, <2>2
  <2>3. CASE kept = {}
    BY <2>1, <2>3 DEF WaitsReread, RemovedUnneeded, KeepsReferenced
  <2> QED
    BY <1>3, <2>1, <2>2, <2>3
<1>18. CASE UNCHANGED retentionVars \/ \E r \in References : Refer(r) \/ Dismiss(r)
  <2>1. UNCHANGED <<sweep, runAt, runFound, waitSeen, torn>>
    BY <1>18 DEF retentionVars, Refer, Dismiss
  <2>2. CASE kept' \subseteq kept
    BY <1>3, <2>1, <2>2 DEF WaitsReread, RemovedUnneeded, KeepsReferenced
  <2>3. CASE runAt = InPlace /\ ~torn
    <3>1. \A p \in Passes : sweep[p] \in Away => runAt # runFound[p] /\ runAt # p
      BY <1>1, <1>2, <2>3
    <3> QED
      BY <2>1, <2>3, <3>1 DEF WaitsReread, RemovedUnneeded, KeepsReferenced, Away
  <2> QED
    BY <2>2, <2>3, KeptGrows
<1> QED
  BY <1>6, <1>7, <1>8, <1>9, <1>10, <1>11, <1>12, <1>13, <1>15, <1>16, <1>17, <1>18
     DEF RetentionNext

-----------------------------------------------------------------------------
\* Unless a live pass is robbed, the lock has one holder.
LEMMA LatchStep ==
  ASSUME DomainsOK, ~seized => OneLatch, [RetentionNext]_retentionVars, ~seized'
  PROVE  ~seized /\ OneLatch /\ OneLatch'
<1> USE DEF Doing, Turns, latching, known, leavings, around
<1>1. ~seized
  <2>1. ASSUME NEW p \in Passes, EvictLatch(p) PROVE ~seized
    BY <2>1, Zenon DEF EvictLatch
  <2>2. ASSUME ~ \E p \in Passes : EvictLatch(p) PROVE UNCHANGED seized
    BY <2>2, Zenon DEF RetentionNext, retentionVars, TakeLatch, NameLatch, JudgeLatch, Discover,
       BeginCommit, ReadLatch, Unlock, ExamineRun, MarkAway, MoveRun, RereadWaits, LastLook,
       RecheckRun, RestoreRun, RemoveRun, Unmark, ExamineResult, MoveResult, RereadResultWaits,
       RecheckResult, SettleResult, KillPass, Refer, Dismiss
  <2> QED
    BY <2>1, <2>2
<1>2. /\ sweep \in [Passes -> Steps] /\ latch \in Passes \cup {Nothing, Unowned}
      /\ \A p \in Passes :
           /\ sweep[p] \in Locked => latch = p
           /\ sweep[p] = "name" => latch = Unowned /\ \A q \in Passes : sweep[q] = "name" => q = p
  BY <1>1 DEF DomainsOK, OneLatch
<1>3. Nothing \notin Passes /\ Unowned \notin Passes /\ Nothing # Unowned
  BY PlacesApart
\* A step that leaves the lock alone.
<1>4. ASSUME NEW p \in Passes, NEW s, sweep' = [sweep EXCEPT ![p] = s], UNCHANGED latch,
             s # "name", s \in Locked => sweep[p] \in Locked \/ latch = p
      PROVE  OneLatch'
  <2>1. sweep'[p] = s /\ \A q \in Passes \ {p} : sweep'[q] = sweep[q]
    BY <1>2, <1>4
  <2> QED
    BY <1>2, <1>4, <2>1 DEF OneLatch
<1>5. ASSUME NEW p \in Passes, TakeLatch(p) PROVE OneLatch'
  <2>1. CASE latch = Nothing
    <3>1. sweep' = [sweep EXCEPT ![p] = "name"] /\ latch' = Unowned
      BY <1>5, <2>1 DEF TakeLatch
    <3>2. \A q \in Passes : sweep[q] \notin Locked /\ sweep[q] # "name"
      BY <1>2, <1>3, <2>1
    <3>3. sweep'[p] = "name" /\ \A q \in Passes \ {p} : sweep'[q] = sweep[q]
      BY <1>2, <3>1
    <3>4. "name" \notin Locked
      BY StepsApart
    <3> QED
      BY <3>1, <3>2, <3>3, <3>4 DEF OneLatch
  <2>2. CASE latch # Nothing
    <3>1. sweep' = [sweep EXCEPT ![p] = "judge"] /\ UNCHANGED latch
      BY <1>5, <2>2 DEF TakeLatch
    <3> QED
      BY <1>4, <3>1, StepsApart
  <2> QED
    BY <2>1, <2>2
<1>6. ASSUME NEW p \in Passes, NameLatch(p) PROVE OneLatch'
  <2>1. PICK s \in {"discover", "ended"} :
          /\ sweep[p] = "name" /\ sweep' = [sweep EXCEPT ![p] = s]
          /\ s = "discover" => latch' = p
    BY <1>6 DEF NameLatch
  <2>2. \A q \in Passes \ {p} : sweep[q] \notin Locked /\ sweep[q] # "name"
    BY <1>2, <1>3, <2>1
  <2>3. sweep'[p] = s /\ \A q \in Passes \ {p} : sweep'[q] = sweep[q]
    BY <1>2, <2>1
  <2>4. "ended" \notin Locked
    BY StepsApart
  <2> QED
    BY <2>1, <2>2, <2>3, <2>4 DEF OneLatch
<1>7. ASSUME NEW p \in Passes, JudgeLatch(p) PROVE OneLatch'
  <2>1. PICK s \in {"evict", "ended"} : sweep' = [sweep EXCEPT ![p] = s]
    BY <1>7 DEF JudgeLatch
  <2>2. UNCHANGED latch
    BY <1>7 DEF JudgeLatch
  <2> QED
    BY <1>4, <2>1, <2>2, StepsApart
<1>8. ASSUME NEW p \in Passes, EvictLatch(p) PROVE OneLatch'
  <2>1. PICK s \in {"start", "ended"} : sweep' = [sweep EXCEPT ![p] = s]
    BY <1>8 DEF EvictLatch
  <2>2. CASE UNCHANGED latch
    BY <1>4, <2>1, <2>2, StepsApart
  <2>3. CASE latch' # latch
    <3>1. latch' = Nothing
          /\ ~ \E q \in Passes :
                 (latch = q /\ Passing(q)) \/ (latch = Unowned /\ sweep[q] = "name")
      BY <1>8, <2>3, Zenon DEF EvictLatch
    <3>2. \A q \in Passes : sweep[q] \notin Locked /\ sweep[q] # "name"
      BY <1>2, <3>1, StepsApart DEF Passing
    <3>3. sweep'[p] = s /\ \A q \in Passes \ {p} : sweep'[q] = sweep[q]
      BY <1>2, <2>1
    <3>4. s \notin Locked /\ s # "name"
      BY StepsApart
    <3> QED
      BY <3>2, <3>3, <3>4 DEF OneLatch
  <2> QED
    BY <2>2, <2>3
<1>9. ASSUME NEW p \in Passes, Unlock(p) PROVE OneLatch'
  <2>1. sweep[p] = "unlock" /\ sweep' = [sweep EXCEPT ![p] = "ended"]
    BY <1>9 DEF Unlock
  <2>2. latch = p
    BY <1>2, <2>1 DEF Locked
  <2>3. \A q \in Passes \ {p} : sweep[q] \notin Locked /\ sweep[q] # "name"
    BY <1>2, <1>3, <2>2
  <2>4. sweep'[p] = "ended" /\ \A q \in Passes \ {p} : sweep'[q] = sweep[q]
    BY <1>2, <2>1
  <2> QED
    BY <2>3, <2>4, StepsApart DEF OneLatch
<1>10. ASSUME NEW p \in Passes,
              \/ Discover(p) \/ BeginCommit(p) \/ ReadLatch(p) \/ ExamineRun(p) \/ MarkAway(p)
              \/ MoveRun(p) \/ RereadWaits(p) \/ LastLook(p) \/ RecheckRun(p)
       PROVE  OneLatch'
  <2>1. UNCHANGED latch
    BY <1>10 DEF Discover, BeginCommit, ReadLatch, ExamineRun, MarkAway, MoveRun, RereadWaits,
       LastLook, RecheckRun
  <2>2. sweep[p] \in Locked
    BY <1>10 DEF Discover, BeginCommit, ReadLatch, ExamineRun, MarkAway, MoveRun, RereadWaits,
       LastLook, RecheckRun, Locked, Away
  <2>3. PICK s : sweep' = [sweep EXCEPT ![p] = s] /\ s # "name"
    BY <1>10, ZenonT(30) DEF Discover, BeginCommit, ReadLatch, ExamineRun, MarkAway, MoveRun, RereadWaits,
       LastLook, RecheckRun, OnToResult
  <2> QED
    BY <1>4, <2>1, <2>2, <2>3
<1>11. ASSUME NEW p \in Passes,
              \/ RestoreRun(p) \/ RemoveRun(p) \/ Unmark(p) \/ ExamineResult(p) \/ MoveResult(p)
              \/ RereadResultWaits(p) \/ RecheckResult(p) \/ SettleResult(p)
       PROVE  OneLatch'
  <2>1. UNCHANGED latch
    BY <1>11 DEF RestoreRun, RemoveRun, Unmark, ExamineResult, MoveResult, RereadResultWaits,
       RecheckResult, SettleResult
  <2>2. sweep[p] \in Locked
    BY <1>11 DEF RestoreRun, RemoveRun, Unmark, ExamineResult, MoveResult, RereadResultWaits,
       RecheckResult, SettleResult, Locked, Away
  <2>3. PICK s : sweep' = [sweep EXCEPT ![p] = s] /\ s # "name"
    BY <1>11, ZenonT(30) DEF RestoreRun, RemoveRun, Unmark, ExamineResult, MoveResult, RereadResultWaits,
       RecheckResult, SettleResult, OnToResult
  <2> QED
    BY <1>4, <2>1, <2>2, <2>3
<1>12. ASSUME NEW p \in Passes, KillPass(p) PROVE OneLatch'
  BY <1>4, <1>12, StepsApart DEF KillPass
<1>13. CASE UNCHANGED retentionVars \/ \E r \in References : Refer(r) \/ Dismiss(r)
  BY <1>2, <1>13 DEF retentionVars, Refer, Dismiss, OneLatch
<1>14. OneLatch'
  BY <1>5, <1>6, <1>7, <1>8, <1>9, <1>10, <1>11, <1>12, <1>13 DEF RetentionNext
<1> QED
  BY <1>1, <1>14

-----------------------------------------------------------------------------
\* Once a result is given up, the run stays away.
LEMMA ResultStep ==
  ASSUME DomainsOK, OneLatch, RunStaysAway, [RetentionNext]_retentionVars
  PROVE  RunStaysAway'
<1> USE DEF Doing, Turns, latching, known, leavings, around
<1> DEFINE Back == {"mark", "rename", "recheck waits", "recheck", "restore"}
<1>1. /\ sweep \in [Passes -> Steps]
      /\ \A p \in Passes : sweep[p] \in Locked => latch = p
      /\ (resultAt = Gone \/ \E p \in Passes : sweep[p] = "remove result") =>
           runAt # InPlace /\ marker = Nothing
      /\ resultAt = Gone => \A p \in Passes : sweep[p] \notin Back
  BY DEF DomainsOK, OneLatch, RunStaysAway
<1>2. /\ \A s \in Back : s \in Locked /\ s # "remove result"
      /\ "remove result" \in Locked
  BY DEF Locked, Away
\* A step that brings nothing back.
<1>3. ASSUME NEW p \in Passes, NEW s, sweep' = [sweep EXCEPT ![p] = s], UNCHANGED resultAt,
             runAt' = runAt \/ runAt' # InPlace, marker' \in {marker, Nothing}, s \notin Back,
             s = "remove result" => runAt' # InPlace /\ marker' = Nothing
      PROVE  RunStaysAway'
  <2>1. sweep'[p] = s /\ \A q \in Passes \ {p} : sweep'[q] = sweep[q]
    BY <1>1, <1>3
  <2>2. resultAt' = Gone \/ (\E q \in Passes : sweep'[q] = "remove result") =>
          runAt' # InPlace /\ marker' = Nothing
    BY <1>1, <1>3, <2>1
  <2>3. resultAt' = Gone => \A q \in Passes : sweep'[q] \notin Back
    BY <1>1, <1>3, <2>1
  <2> QED
    BY <2>2, <2>3 DEF RunStaysAway
\* A step of the holder of the lock, at a result that is there.
<1>4. ASSUME NEW p \in Passes, NEW s, sweep[p] \in Locked, sweep' = [sweep EXCEPT ![p] = s],
             s # "remove result", resultAt' # Gone
      PROVE  RunStaysAway'
  <2>1. sweep'[p] = s /\ \A q \in Passes \ {p} : sweep'[q] = sweep[q]
    BY <1>1, <1>4
  <2>2. \A q \in Passes : sweep'[q] # "remove result"
    BY <1>1, <1>2, <1>4, <2>1
  <2> QED
    BY <1>4, <2>2 DEF RunStaysAway
<1>5. ASSUME NEW p \in Passes,
             \/ TakeLatch(p) \/ NameLatch(p) \/ JudgeLatch(p) \/ EvictLatch(p) \/ Unlock(p)
             \/ Discover(p) \/ BeginCommit(p) \/ ReadLatch(p) \/ LastLook(p) \/ KillPass(p)
      PROVE  RunStaysAway'
  <2>1. UNCHANGED <<runAt, marker, resultAt>>
    BY <1>5 DEF TakeLatch, NameLatch, JudgeLatch, EvictLatch, Unlock, Discover, BeginCommit,
       ReadLatch, LastLook, KillPass
  <2>2. PICK s \in {"name", "judge", "discover", "ended", "evict", "start", "commit", "release",
                   "run", "unlock", "remove", "result", "killed"} :
          sweep' = [sweep EXCEPT ![p] = s]
    BY <1>5 DEF TakeLatch, NameLatch, JudgeLatch, EvictLatch, Unlock, Discover, BeginCommit,
       ReadLatch, LastLook, KillPass, OnToResult
  <2> QED
    BY <1>3, <2>1, <2>2
<1>6. ASSUME NEW p \in Passes, ExamineRun(p) PROVE RunStaysAway'
  <2>1. UNCHANGED <<runAt, marker, resultAt>> /\ sweep[p] = "run"
    BY <1>6 DEF ExamineRun
  <2>2. PICK s \in {"mark", "reread", "result", "release"} :
          sweep' = [sweep EXCEPT ![p] = s] /\ (s = "mark" => runAt = InPlace)
    BY <1>6 DEF ExamineRun, OnToResult
  <2>3. CASE s = "mark"
    <3>1. resultAt' # Gone
      BY <1>1, <2>1, <2>2, <2>3
    <3>2. sweep[p] \in Locked
      BY <2>1 DEF Locked
    <3> QED
      BY <1>4, <2>2, <2>3, <3>1, <3>2
  <2>4. CASE s # "mark"
    BY <1>3, <2>1, <2>2, <2>4
  <2> QED
    BY <2>3, <2>4
<1>7. ASSUME NEW p \in Passes,
             \/ MarkAway(p) \/ MoveRun(p) \/ RecheckRun(p) \/ RestoreRun(p)
             \/ RereadWaits(p) /\ sweep[p] = "recheck waits"
      PROVE  RunStaysAway'
  <2>1. UNCHANGED resultAt /\ sweep[p] \in Back
    BY <1>7 DEF MarkAway, MoveRun, RecheckRun, RestoreRun, RereadWaits
  <2>2. PICK s \in {"rename", "result", "release", "recheck waits", "remove", "restore", "unmark",
                   "recheck"} :
          sweep' = [sweep EXCEPT ![p] = s]
    BY <1>7 DEF MarkAway, MoveRun, RecheckRun, RestoreRun, RereadWaits, OnToResult
  <2>3. resultAt' # Gone /\ sweep[p] \in Locked
    BY <1>1, <1>2, <2>1
  <2> QED
    BY <1>4, <2>2, <2>3
<1>8. ASSUME NEW p \in Passes, RereadWaits(p), sweep[p] # "recheck waits" PROVE RunStaysAway'
  <2>1. sweep' = [sweep EXCEPT ![p] = "last look"] /\ UNCHANGED <<runAt, marker, resultAt>>
    BY <1>8 DEF RereadWaits
  <2> QED
    BY <1>3, <2>1
<1>9. ASSUME NEW p \in Passes,
             RemoveRun(p) \/ Unmark(p) \/ ExamineResult(p) \/ RereadResultWaits(p)
      PROVE  RunStaysAway'
  <2>1. /\ UNCHANGED resultAt
        /\ runAt' = runAt \/ runAt' = Gone
        /\ marker' \in {marker, Nothing}
    BY <1>9 DEF RemoveRun, Unmark, ExamineResult, RereadResultWaits
  <2>2. PICK s \in {"unmark", "result", "release", "move result", "reread result",
                   "recheck result", "recheck moved result"} :
          sweep' = [sweep EXCEPT ![p] = s]
    BY <1>9 DEF RemoveRun, Unmark, ExamineResult, RereadResultWaits, OnToResult
  <2>3. runAt' = runAt \/ runAt' # InPlace
    BY <2>1, PlacesApart
  <2>4. s \notin Back /\ s # "remove result"
    OBVIOUS
  <2> QED
    BY <1>3, <2>1, <2>2, <2>3, <2>4
<1>10. ASSUME NEW p \in Passes, MoveResult(p) PROVE RunStaysAway'
  <2>1. PICK s \in {"reread moved result", "release"} :
          /\ sweep' = [sweep EXCEPT ![p] = s] /\ sweep[p] = "move result"
          /\ UNCHANGED <<runAt, marker>> /\ (resultAt' = resultAt \/ resultAt' = p)
    BY <1>10 DEF MoveResult
  <2>2. sweep[p] \in Locked
    BY <2>1 DEF Locked
  <2>3. CASE resultAt' = Gone
    <3>1. UNCHANGED resultAt
      BY <2>1, <2>3, PlacesApart
    <3> QED
      BY <1>3, <2>1, <3>1
  <2>4. CASE resultAt' # Gone
    BY <1>4, <2>1, <2>2, <2>4
  <2> QED
    BY <2>3, <2>4
<1>11. ASSUME NEW p \in Passes, RecheckResult(p) PROVE RunStaysAway'
  <2>1. PICK s \in {"remove result", "restore result", "release"} :
          /\ sweep' = [sweep EXCEPT ![p] = s] /\ UNCHANGED <<runAt, resultAt>>
          /\ marker' \in {marker, Nothing}
          /\ s = "remove result" => runAt # InPlace /\ marker' = Nothing
    BY <1>11 DEF RecheckResult, ResultFree
  <2> QED
    BY <1>3, <2>1
<1>12. ASSUME NEW p \in Passes, SettleResult(p) PROVE RunStaysAway'
  <2>1. /\ sweep[p] \in {"remove result", "restore result"}
        /\ sweep' = [sweep EXCEPT ![p] = "release"] /\ UNCHANGED <<runAt, marker>>
        /\ resultAt' = Gone => resultAt = Gone \/ sweep[p] = "remove result"
    BY <1>12, PlacesApart DEF SettleResult
  <2>2. sweep[p] \in Locked
    BY <2>1 DEF Locked
  <2>3. CASE resultAt' # Gone
    BY <1>4, <2>1, <2>2, <2>3
  <2>4. CASE resultAt' = Gone
    <3>1. runAt' # InPlace /\ marker' = Nothing
      BY <1>1, <2>1, <2>4
    <3>2. sweep'[p] = "release" /\ \A q \in Passes \ {p} : sweep'[q] = sweep[q]
      BY <1>1, <2>1
    <3>3. \A q \in Passes : sweep'[q] \notin Back
      BY <1>1, <1>2, <2>2, <3>2
    <3> QED
      BY <3>1, <3>3 DEF RunStaysAway
  <2> QED
    BY <2>3, <2>4
<1>13. CASE UNCHANGED retentionVars \/ \E r \in References : Refer(r) \/ Dismiss(r)
  BY <1>1, <1>13 DEF retentionVars, Refer, Dismiss, RunStaysAway
<1> QED
  BY <1>5, <1>6, <1>7, <1>8, <1>9, <1>10, <1>11, <1>12, <1>13 DEF RetentionNext

-----------------------------------------------------------------------------
\* At the start nothing is known, held or away.
LEMMA RetentionStart ==
  ASSUME RetentionInit
  PROVE  RetentionInv
<1>1. "start" \in Steps /\ "start" \in Early /\ "start" \notin Locked
  BY StepsApart DEF Steps, Early
<1>2. DomainsOK
  <2>1. sweepKills \in 0..MaxSweepKills
    <3>1. MaxSweepKills \in Nat /\ sweepKills = 0
      BY RetentionAssumption DEF RetentionInit
    <3> QED
      BY <3>1
  <2>2. /\ latch \in Passes \cup {Nothing, Unowned} /\ latchTombs \subseteq Passes
        /\ runAt \in Places /\ resultAt \in Places /\ marker \in Passes \cup {Nothing}
        /\ torn \in BOOLEAN /\ seized \in BOOLEAN
        /\ kept \subseteq refs /\ refs \subseteq References
    BY DEF RetentionInit, Places
  <2>3. /\ sweep \in [Passes -> Steps] /\ latchSeen \in [Passes -> Passes \cup {Nothing, Unowned}]
        /\ runFound \in [Passes -> Places] /\ resultFound \in [Passes -> Places]
        /\ waitSeen \in [Passes -> BOOLEAN]
    BY <1>1 DEF RetentionInit, Places
  <2> QED
    BY <2>1, <2>2, <2>3 DEF DomainsOK
<1>3. TombsNamed
  BY StepsApart, PlacesApart, <1>1 DEF RetentionInit, TombsNamed
<1>4. WaitsReread /\ RemovedUnneeded /\ KeepsReferenced
  BY DEF RetentionInit, WaitsReread, RemovedUnneeded, KeepsReferenced
<1>5. OneLatch
  BY <1>1 DEF RetentionInit, OneLatch
<1>6. RunStaysAway
  BY PlacesApart DEF RetentionInit, RunStaysAway
<1> QED
  BY <1>2, <1>3, <1>4, <1>5, <1>6 DEF RetentionInv

\* The inductive invariant of the clean-up: who made which tombstone, what the second look
\* has seen, and, unless a live pass is robbed of the lock, one holder and no way back for
\* a run whose result is gone (async-retention.ts:245-256, 496-500, 807-832).
THEOREM RetentionInductive == RetentionSpec => []RetentionInv
<1>1. RetentionInit => RetentionInv
  BY RetentionStart
<1>2. RetentionInv /\ [RetentionNext]_retentionVars => RetentionInv'
  <2> SUFFICES ASSUME RetentionInv, [RetentionNext]_retentionVars PROVE RetentionInv'
    OBVIOUS
  <2>1. /\ DomainsOK /\ TombsNamed /\ WaitsReread /\ RemovedUnneeded /\ KeepsReferenced
        /\ ~seized => OneLatch /\ RunStaysAway
    BY DEF RetentionInv
  <2>2. DomainsOK'
    BY <2>1, DomainsStep
  <2>3. TombsNamed'
    BY <2>1, TombsStep
  <2>4. WaitsReread' /\ RemovedUnneeded' /\ KeepsReferenced'
    BY <2>1, ReferencedStep
  <2>5. ASSUME ~seized' PROVE OneLatch' /\ RunStaysAway'
    <3>1. ~seized /\ OneLatch /\ OneLatch'
      BY <2>1, <2>5, LatchStep
    <3> QED
      BY <2>1, <3>1, ResultStep
  <2> QED
    BY <2>2, <2>3, <2>4, <2>5 DEF RetentionInv
<1> QED
  BY <1>1, <1>2, PTL DEF RetentionSpec

\* Every variable of the clean-up stays within its domain.
THEOREM RetentionTypeCorrect == RetentionSpec => []RetentionTypeOK
<1>1. RetentionInv => RetentionTypeOK
  BY DEF RetentionInv, DomainsOK, RetentionTypeOK, Places
<1> QED
  BY <1>1, RetentionInductive, PTL

\* A run that something came to refer to while it was in place loses nothing as long as
\* the reference stands, for any number of passes and kills and whoever is robbed of the
\* lock (async-retention.ts:807-832).
THEOREM ReferencedKept == RetentionSpec => []KeepsReferenced
<1>1. RetentionInv => KeepsReferenced
  BY DEF RetentionInv
<1> QED
  BY <1>1, RetentionInductive, PTL

\* The result of a run outlives the directory of the run, unless the lock is taken from a
\* live pass (async-retention.ts:245-256, 496-500).
THEOREM ResultOutlives == RetentionSpec => []ResultOutlivesRun
<1>1. RetentionInv => ResultOutlivesRun
  BY PlacesApart DEF RetentionInv, DomainsOK, RunStaysAway, ResultOutlivesRun, Places
<1> QED
  BY <1>1, RetentionInductive, PTL
=============================================================================
