-------------------------- MODULE WaitSubscriptions --------------------------
(***************************************************************************)
(* Non-blocking waits (src/src/runs/background/wait-subscriptions.ts): a   *)
(* session arms a subscription to one run; a file holds it, so that it     *)
(* survives the Pi process; and whichever process has the session open     *)
(* wakes it with one message when the run ends, needs attention, vanishes  *)
(* or the wait expires.  A record whose session does not come back is      *)
(* swept by other sessions a day after its expiry.                         *)
(*                                                                         *)
(* Every handler is synchronous code of one process; reconcileRecord,      *)
(* settle and remove are one step here, for one record at a time.          *)
(***************************************************************************)
EXTENDS Naturals, FiniteSets

CONSTANTS
  Hosts,          \* Pi processes
  Sessions,
  Subs,           \* subscriptions, each armed at most once
  MaxOpens,       \* bound on openings of a session
  MaxUnlinkFails  \* bound on records that cannot be removed

\* No session has the name that stands for none.
ASSUME WaitAssumption ==
  /\ "none" \notin Sessions
  /\ MaxOpens \in Nat /\ MaxUnlinkFails \in Nat

VARIABLES
  open,        \* the session each process has open, NoSession when none
  subFile,     \* the record's file: "none", "armed" or "gone"
  subOwner,    \* the session in the record
  subKind,     \* "async" or "foreground"
  age,         \* 0, 1 once expired, 2 a day after that
  target,      \* the run waited for
  loaded,      \* each process's map of subscriptions
  unresolved,  \* restored foreground waits whose run is not known yet
  known,       \* the foreground runs each process remembers
  opens, unlinkFails,
  told,        \* history: the messages each process sent for each subscription
  shared       \* history: one session was open in two processes at a time

waitVars == <<open, subFile, subOwner, subKind, age, target, loaded, unresolved, known,
              opens, unlinkFails, told, shared>>

NoSession == "none"

\* Whether reconcileRecord settles: the timeout comes first, and a foreground run
\* that is not remembered is gone unless its restoration is still awaited.
SettleDue(p, w) ==
  \/ age[w] > 0
  \/ subKind[w] = "async" /\ target[w] # "running"
  \/ /\ subKind[w] = "foreground"
     /\ IF w \in known[p] THEN target[w] \in {"attention", "ended"} ELSE w \notin unresolved[p]

\* A foreground run that is remembered is not awaited any longer.
Resolved(p, w) ==
  [unresolved EXCEPT ![p] = IF age[w] = 0 /\ w \in known[p] THEN @ \ {w} ELSE @]

\* The process has no session any more.
ForgetsWaits(p) ==
  /\ open' = [open EXCEPT ![p] = NoSession]
  /\ loaded' = [loaded EXCEPT ![p] = {}]
  /\ unresolved' = [unresolved EXCEPT ![p] = {}]
  /\ known' = [known EXCEPT ![p] = {}]

\* arm: the file, then the map, unless the process dies in between.
Arm(p, w, kind) ==
  /\ open[p] # NoSession /\ subFile[w] = "none"
  /\ subFile' = [subFile EXCEPT ![w] = "armed"]
  /\ subOwner' = [subOwner EXCEPT ![w] = open[p]]
  /\ subKind' = [subKind EXCEPT ![w] = kind]
  /\ \/ /\ loaded' = [loaded EXCEPT ![p] = @ \cup {w}]
        /\ known' = [known EXCEPT ![p] = IF kind = "foreground" THEN @ \cup {w} ELSE @]
        /\ UNCHANGED <<open, unresolved>>
     \/ ForgetsWaits(p)
  /\ UNCHANGED <<age, target, opens, unlinkFails, told, shared>>

\* Mutant of Swept: the open session's own records are taken for the foreign ones.
SweptOwn(p, s) == {w \in Subs : subFile[w] = "armed" /\ subOwner[w] = s /\ age[w] = 2}

\* The sweep removes what expired a day ago and is not the open session's.
Swept(p, s) == {w \in Subs : subFile[w] = "armed" /\ subOwner[w] # s /\ age[w] = 2}

\* session_start: the expired foreign records are swept, the session's own are loaded,
\* with whatever foreground runs its history has restored before.
OpenSession(p, s) ==
  /\ open[p] # s /\ opens < MaxOpens
  /\ opens' = opens + 1
  /\ open' = [open EXCEPT ![p] = s]
  /\ subFile' = [w \in Subs |-> IF w \in Swept(p, s) THEN "gone" ELSE subFile[w]]
  /\ LET mine == {w \in Subs : subFile[w] = "armed" /\ subOwner[w] = s}
         foreground == {w \in mine : subKind[w] = "foreground"} IN
       /\ loaded' = [loaded EXCEPT ![p] = mine]
       /\ \E restored \in SUBSET foreground :
            /\ known' = [known EXCEPT ![p] = restored]
            /\ unresolved' = [unresolved EXCEPT ![p] = foreground \ restored]
  /\ shared' = (shared \/ \E q \in Hosts \ {p} : open[q] = s)
  /\ UNCHANGED <<subOwner, subKind, age, target, unlinkFails, told>>

\* The session is closed, reloaded or its process dies: the files stay.
CloseSession(p) ==
  /\ open[p] # NoSession
  /\ ForgetsWaits(p)
  /\ UNCHANGED <<subFile, subOwner, subKind, age, target, opens, unlinkFails, told, shared>>

\* Mutant of SettleWait: the message is sent before the record is removed.
TellFirst(p, w) ==
  /\ told' = [told EXCEPT ![p][w] = @ + 1]
  /\ \/ /\ subFile' = [subFile EXCEPT ![w] = "gone"]
        /\ loaded' = [loaded EXCEPT ![p] = @ \ {w}]
        /\ unresolved' = [unresolved EXCEPT ![p] = @ \ {w}]
        /\ UNCHANGED unlinkFails
     \/ /\ unlinkFails < MaxUnlinkFails /\ unlinkFails' = unlinkFails + 1
        /\ unresolved' = Resolved(p, w)
        /\ UNCHANGED <<subFile, loaded>>

\* settle: the record is removed first, and stays armed when it cannot be; then the
\* message is sent, or the process dies or the send fails and nobody is told.
SettleWait(p, w) ==
  \/ /\ subFile' = [subFile EXCEPT ![w] = "gone"]
     /\ loaded' = [loaded EXCEPT ![p] = @ \ {w}]
     /\ unresolved' = [unresolved EXCEPT ![p] = @ \ {w}]
     /\ told' \in {told, [told EXCEPT ![p][w] = @ + 1]}
     /\ UNCHANGED unlinkFails
  \/ /\ unlinkFails < MaxUnlinkFails /\ unlinkFails' = unlinkFails + 1
     /\ unresolved' = Resolved(p, w)
     /\ UNCHANGED <<subFile, loaded, told>>

\* reconcileRecord, on a wake-up or every second.
ReconcileWait(p, w) ==
  /\ w \in loaded[p] /\ open[p] = subOwner[w]
  /\ \/ SettleDue(p, w) /\ SettleWait(p, w)
     \/ /\ ~SettleDue(p, w) /\ w \in known[p] \cap unresolved[p]
        /\ unresolved' = Resolved(p, w)
        /\ UNCHANGED <<subFile, loaded, told, unlinkFails>>
  /\ UNCHANGED <<open, subOwner, subKind, age, target, known, opens, shared>>

\* The sweep of the reconcile timer.
Sweep(p) ==
  /\ open[p] # NoSession /\ Swept(p, open[p]) # {}
  /\ subFile' = [w \in Subs |-> IF w \in Swept(p, open[p]) THEN "gone" ELSE subFile[w]]
  /\ UNCHANGED <<open, subOwner, subKind, age, target, loaded, unresolved, known, opens,
                 unlinkFails, told, shared>>

\* The foreground run appears in the process's memory, or is dropped from it.
RunRemembered(p, w) ==
  /\ w \in loaded[p] /\ subKind[w] = "foreground"
  /\ known' = [known EXCEPT ![p] = IF w \in @ THEN @ \ {w} ELSE @ \cup {w}]
  /\ UNCHANGED <<open, subFile, subOwner, subKind, age, target, loaded, unresolved, opens,
                 unlinkFails, told, shared>>

\* The run goes on, asks for attention, ends, or its directory is removed.
TargetMoves(w) ==
  /\ subFile[w] = "armed" /\ target[w] \in {"running", "attention"}
  /\ \E t \in {"running", "attention", "ended", "missing"} \ {target[w]} :
       target' = [target EXCEPT ![w] = t]
  /\ UNCHANGED <<open, subFile, subOwner, subKind, age, loaded, unresolved, known, opens,
                 unlinkFails, told, shared>>

TimePasses(w) ==
  /\ subFile[w] = "armed" /\ age[w] < 2
  /\ age' = [age EXCEPT ![w] = @ + 1]
  /\ UNCHANGED <<open, subFile, subOwner, subKind, target, loaded, unresolved, known, opens,
                 unlinkFails, told, shared>>

-----------------------------------------------------------------------------
WaitInit ==
  /\ open = [p \in Hosts |-> NoSession]
  /\ subFile = [w \in Subs |-> "none"]
  /\ subOwner = [w \in Subs |-> NoSession]
  /\ subKind = [w \in Subs |-> "async"]
  /\ age = [w \in Subs |-> 0]
  /\ target = [w \in Subs |-> "running"]
  /\ loaded = [p \in Hosts |-> {}]
  /\ unresolved = [p \in Hosts |-> {}]
  /\ known = [p \in Hosts |-> {}]
  /\ opens = 0 /\ unlinkFails = 0
  /\ told = [p \in Hosts |-> [w \in Subs |-> 0]]
  /\ shared = FALSE

WaitNext ==
  \/ \E p \in Hosts :
       \/ \E s \in Sessions : OpenSession(p, s)
       \/ CloseSession(p) \/ Sweep(p)
       \/ \E w \in Subs : \/ \E kind \in {"async", "foreground"} : Arm(p, w, kind)
                          \/ ReconcileWait(p, w) \/ RunRemembered(p, w)
  \/ \E w \in Subs : TargetMoves(w) \/ TimePasses(w)

WaitSpec == WaitInit /\ [][WaitNext]_waitVars

-----------------------------------------------------------------------------
\* Every variable stays within its domain.
WaitTypeOK ==
  /\ open \in [Hosts -> Sessions \cup {NoSession}]
  /\ subFile \in [Subs -> {"none", "armed", "gone"}]
  /\ subOwner \in [Subs -> Sessions \cup {NoSession}]
  /\ subKind \in [Subs -> {"async", "foreground"}]
  /\ age \in [Subs -> 0..2]
  /\ target \in [Subs -> {"running", "attention", "ended", "missing"}]
  /\ loaded \in [Hosts -> SUBSET Subs]
  /\ unresolved \in [Hosts -> SUBSET Subs]
  /\ known \in [Hosts -> SUBSET Subs]
  /\ opens \in 0..MaxOpens /\ unlinkFails \in 0..MaxUnlinkFails
  /\ told \in [Hosts -> [Subs -> Nat]]
  /\ shared \in BOOLEAN

\* A session is woken at most once for a wait: not again after a restart, a return to
\* the session, or a record that could not be removed at first; unless the session is
\* open in two processes, each of which may wake it once (wait-subscriptions.ts:154).
WokenOnce ==
  \A w \in Subs : \A p \in Hosts :
    /\ told[p][w] <= 1
    /\ ~shared /\ told[p][w] = 1 => \A q \in Hosts \ {p} : told[q][w] = 0

\* An armed wait does not stay for ever: it is settled by its session or swept by
\* another one, whatever its run does, as long as some process has a session open.
\* (Armed in one of two processes that share a session, it is not known to the other.)
WaitEnds ==
  \A w \in Subs :
    subFile[w] = "armed" ~> \/ subFile[w] = "gone"
                            \/ shared \/ \A p \in Hosts : open[p] = NoSession
=============================================================================
