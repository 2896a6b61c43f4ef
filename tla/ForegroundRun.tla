---------------------------- MODULE ForegroundRun ----------------------------
(***************************************************************************)
(* One foreground run of a single child that may detach from the call that *)
(* started it: runSync in src/src/runs/foreground/execution.ts, the single *)
(* path of subagent-executor.ts around it, the control that lists the run  *)
(* while it lives, and the questions the child puts to its parent through  *)
(* src/src/intercom/native-supervisor-channel.ts.                          *)
(*                                                                         *)
(* The parent's turn waits for the call, and the child may wait for the    *)
(* parent's answer: a question detaches the run, so that the turn ends and *)
(* the parent can answer.  A step is one uninterrupted stretch of the host *)
(* process's event loop; the child session itself may do anything.         *)
(***************************************************************************)
EXTENDS Naturals, FiniteSets

CONSTANT MaxAsks  \* bound on the questions of the child

ASSUME ForegroundAssumption == MaxAsks \in Nat

VARIABLES
  fgAttempt,     \* the attempt that runs, of two
  fgChild,     \* its session: "starting", "open" or "settled"; the pipeline: "ended" or "threw"
  pressed,     \* those of origin abort, interrupt, timeout and shutdown that reached the child
  receipt,     \* why the run detached: "none", "user" or "intercom"
  fgCall,      \* the tool call: "running", "result", "leaving" or "over"
  callback,    \* onDetachedExit: "idle", "handing" (awaits the worktree hand-off) or "over"
  remembered,  \* the child in foregroundRuns: "none", "detached" or "ended"
  shown,       \* the run is in foregroundControls
  held,        \* what keeps it there: its scheduling "owner", its active "child"
  asking,      \* the question the child waits with, 0 for none
  asked,       \* the number of its questions
  filed,       \* requests that have their file
  replied,     \* requests that have a reply file
  pendingAsks, \* pending: the requests the parent knows of
  seenAsks,    \* seenFiles
  here,        \* the session of the call is the current one
  announced,   \* history: completion events for the detached child
  handoffLost  \* history: the hand-off threw in onDetachedExit

callVars == <<fgCall, remembered, callback, announced, handoffLost>>
controlVars == <<shown, held>>
askVars == <<asking, asked, filed, replied, pendingAsks, seenAsks>>
attemptVars == <<fgAttempt, fgChild, pressed>>
foregroundVars == <<attemptVars, receipt, callVars, controlVars, askVars, here>>

Asks == 1..MaxAsks

Live == fgChild \in {"starting", "open"}
Over == fgChild \in {"ended", "threw"}

-----------------------------------------------------------------------------
\* The factory gives a session, or fails; a session is prompted, and its prompt ends.
SessionCreated ==
  /\ fgChild = "starting"
  /\ fgChild' \in {"open", "settled"}
  /\ UNCHANGED <<fgAttempt, pressed, receipt, callVars, controlVars, askVars, here>>

PromptEnds ==
  /\ fgChild = "open" /\ asking = 0
  /\ fgChild' = "settled"
  /\ UNCHANGED <<fgAttempt, pressed, receipt, callVars, controlVars, askVars, here>>

\* The child is not waited for any longer once it was asked to end.
ForcedEnd ==
  /\ Live /\ pressed \cap {"origin", "interrupt", "timeout"} # {}
  /\ fgChild' = "settled"
  /\ UNCHANGED <<fgAttempt, pressed, receipt, callVars, controlVars, askVars, here>>

\* The call's signal is forwarded until the run detaches; an interrupt comes through the
\* control; a timeout gives way to an interrupt, and an interrupt to a timeout.
Press(kind) ==
  /\ kind \notin pressed
  /\ \/ kind = "origin" /\ fgCall = "running" /\ receipt = "none" /\ ~Over
     \/ kind = "interrupt" /\ shown /\ "child" \in held /\ Live /\ "timeout" \notin pressed
     \/ kind = "timeout" /\ Live /\ "interrupt" \notin pressed
  /\ pressed' = pressed \cup {kind}
  /\ UNCHANGED <<fgAttempt, fgChild, receipt, callVars, controlVars, askVars, here>>

\* detachForeground: the first receipt stands; no receipt for a child that has settled or
\* whose call was aborted.
Detachable == receipt = "none" /\ Live /\ "origin" \notin pressed

DetachByUser ==
  /\ shown /\ "child" \in held /\ Detachable
  /\ receipt' = "user"
  /\ UNCHANGED <<attemptVars, callVars, controlVars, askVars, here>>

\* An attempt is judged: an abort by compaction is resumed once, unless the run detached or
\* asked to end (a shutdown is not looked at); else the pipeline ends, or throws.
Judge ==
  /\ fgChild = "settled" /\ asking = 0
  /\ \/ /\ fgAttempt = 1 /\ pressed \subseteq {"shutdown"} /\ receipt = "none"
        /\ fgAttempt' = 2 /\ fgChild' = "starting"
     \/ fgChild' \in {"ended", "threw"} /\ UNCHANGED fgAttempt
  /\ UNCHANGED <<pressed, receipt, callVars, controlVars, askVars, here>>

-----------------------------------------------------------------------------
\* removeForegroundControlIfIdle, with what still holds the control.
Let(rest) == held' = rest /\ shown' = (shown /\ rest # {})

\* The race of the receipt with the completion: an attached child is finished.
Return ==
  /\ fgCall = "running" /\ (Over \/ receipt # "none")
  /\ fgCall' = IF receipt = "none" /\ fgChild = "threw" THEN "leaving" ELSE "result"
  /\ held' = IF receipt = "none" THEN held \ {"child"} ELSE held
  /\ UNCHANGED <<attemptVars, receipt, remembered, callback, announced, handoffLost, shown, askVars, here>>

\* Mutant of Remember: the receipt is remembered as it was given.
RememberAsReceived ==
  /\ fgCall = "result" /\ fgCall' = "leaving"
  /\ \/ remembered' = IF receipt = "none" THEN "ended" ELSE "detached"
     \/ receipt = "none" /\ UNCHANGED remembered
  /\ UNCHANGED <<attemptVars, receipt, callback, announced, handoffLost, controlVars, askVars, here>>

\* rememberForegroundRun: a receipt does not replace an end that is already there.  The
\* hand-off of an attached child's worktree may throw before.
Remember ==
  /\ fgCall = "result" /\ fgCall' = "leaving"
  /\ \/ remembered' = IF receipt = "none" \/ remembered = "ended" THEN "ended" ELSE "detached"
     \/ receipt = "none" /\ UNCHANGED remembered
  /\ UNCHANGED <<attemptVars, receipt, callback, announced, handoffLost, controlVars, askVars, here>>

\* The call is over: the parent's turn goes on.
Leave ==
  /\ fgCall = "leaving" /\ fgCall' = "over"
  /\ Let(held \ {"owner"})
  /\ UNCHANGED <<attemptVars, receipt, remembered, callback, announced, handoffLost, askVars, here>>

\* onDetachedExit, up to the hand-off of the worktree.
StartCallback ==
  /\ Over /\ receipt # "none" /\ callback = "idle"
  /\ callback' = "handing"
  /\ UNCHANGED <<attemptVars, receipt, fgCall, remembered, announced, handoffLost, controlVars, askVars, here>>

\* The end is recorded and announced to the session of the call, unless the hand-off threw;
\* in both cases the child is finished.
FinishCallback(ok) ==
  /\ callback = "handing" /\ callback' = "over"
  /\ remembered' = IF ok THEN "ended" ELSE remembered
  /\ announced' = IF ok /\ here THEN announced + 1 ELSE announced
  /\ handoffLost' = ~ok
  /\ Let(held \ {"child"})
  /\ UNCHANGED <<attemptVars, receipt, fgCall, askVars, here>>

\* The parent's session shuts down: the channel is disposed of, and a live child is
\* aborted unless it has detached.
Shutdown ==
  /\ here /\ here' = FALSE
  /\ pendingAsks' = {} /\ seenAsks' = {}
  /\ pressed' = IF fgChild = "open" /\ receipt = "none" THEN pressed \cup {"shutdown"} ELSE pressed
  /\ UNCHANGED <<fgAttempt, fgChild, receipt, callVars, controlVars, asking, asked, filed, replied>>

-----------------------------------------------------------------------------
\* The child asks, and waits for the reply file.
AskSupervisor ==
  /\ fgChild = "open" /\ asking = 0 /\ asked < MaxAsks
  /\ asked' = asked + 1 /\ asking' = asked + 1
  /\ filed' = filed \cup {asked + 1}
  /\ UNCHANGED <<attemptVars, receipt, callVars, controlVars, replied, pendingAsks, seenAsks, here>>

\* The child reads its reply; or it gives up, aborted or out of time, and takes its file
\* away.  The time limit may pass between the reply and the child's next look.
ReadReply ==
  /\ asking \in replied /\ asking' = 0
  /\ UNCHANGED <<attemptVars, receipt, callVars, controlVars, asked, filed, replied, pendingAsks, seenAsks, here>>

GiveUp ==
  /\ asking # 0 /\ asking' = 0
  /\ filed' = filed \ {asking}
  /\ UNCHANGED <<attemptVars, receipt, callVars, controlVars, asked, replied, pendingAsks, seenAsks, here>>

AskCancelled == (pressed # {} \/ fgChild # "open") /\ GiveUp
AskTimesOut == GiveUp

\* requestRunInactive
RunInactive == ~shown /\ remembered = "ended"

\* requestLifecycle of the requests in asks: those still pending.  An expired one loses its
\* file as in GiveUp: its child has the same deadline.
StillPending(asks) == IF RunInactive THEN {} ELSE (asks \cap filed) \ replied

\* Mutant of Poll: a request is registered, and the run goes on attached.
PollAttached ==
  LET new == filed \ seenAsks IN
  /\ here
  /\ pendingAsks' = StillPending(pendingAsks \cup new)
  /\ seenAsks' = seenAsks \cup new
  /\ filed' = filed \ ((pendingAsks \cup new) \ StillPending(pendingAsks \cup new))
  /\ UNCHANGED <<receipt, attemptVars, callVars, controlVars, asking, asked, replied, here>>

\* poll: known requests are looked at again; a new one is registered, and asks the run to
\* detach; the files of requests that are no longer pending are removed.
Poll ==
  LET new == filed \ seenAsks IN
  /\ here
  /\ pendingAsks' = StillPending(pendingAsks \cup new)
  /\ seenAsks' = seenAsks \cup new
  /\ filed' = filed \ ((pendingAsks \cup new) \ StillPending(pendingAsks \cup new))
  /\ receipt' = IF StillPending(new) # {} /\ Detachable THEN "intercom" ELSE receipt
  /\ UNCHANGED <<attemptVars, callVars, controlVars, asking, asked, replied, here>>

\* The parent answers in a later turn; a poll comes first.
Reply(q) ==
  /\ here /\ fgCall = "over"
  /\ q \in StillPending(pendingAsks) /\ filed \subseteq seenAsks
  /\ replied' = replied \cup {q}
  /\ filed' = filed \ {q}
  /\ pendingAsks' = StillPending(pendingAsks) \ {q}
  /\ UNCHANGED <<attemptVars, receipt, callVars, controlVars, asking, asked, seenAsks, here>>

-----------------------------------------------------------------------------
ForegroundInit ==
  /\ fgAttempt = 1 /\ fgChild = "starting" /\ pressed = {} /\ receipt = "none"
  /\ fgCall = "running" /\ callback = "idle" /\ remembered = "none"
  /\ shown = TRUE /\ held = {"owner", "child"}
  /\ asking = 0 /\ asked = 0 /\ filed = {} /\ replied = {}
  /\ pendingAsks = {} /\ seenAsks = {}
  /\ here = TRUE /\ announced = 0 /\ handoffLost = FALSE

CallProceeds == Return \/ Remember \/ Leave
CallbackProceeds == StartCallback \/ \E ok \in BOOLEAN : FinishCallback(ok)

ForegroundNext ==
  \/ SessionCreated \/ PromptEnds \/ ForcedEnd \/ DetachByUser \/ Judge
  \/ \E kind \in {"origin", "interrupt", "timeout"} : Press(kind)
  \/ CallProceeds \/ CallbackProceeds \/ Shutdown
  \/ AskSupervisor \/ ReadReply \/ AskCancelled \/ AskTimesOut \/ Poll
  \/ \E q \in Asks : Reply(q)

ForegroundSpec == ForegroundInit /\ [][ForegroundNext]_foregroundVars

-----------------------------------------------------------------------------
\* Every variable stays within its domain.
ForegroundTypeOK ==
  /\ fgAttempt \in 1..2 /\ fgChild \in {"starting", "open", "settled", "ended", "threw"}
  /\ pressed \subseteq {"origin", "interrupt", "timeout", "shutdown"}
  /\ receipt \in {"none", "user", "intercom"}
  /\ fgCall \in {"running", "result", "leaving", "over"}
  /\ callback \in {"idle", "handing", "over"} /\ remembered \in {"none", "detached", "ended"}
  /\ held \subseteq {"owner", "child"}
  /\ asking \in {0} \cup Asks /\ asked \in 0..MaxAsks
  /\ \A s \in {filed, replied, pendingAsks, seenAsks} : s \subseteq Asks
  /\ \A v \in {shown, here, handoffLost} : v \in BOOLEAN
  /\ announced \in Nat

\* A detached run is followed to its end: it can be reached through its control while its
\* child lives; its recorded end is that of the child, and the receipt of the call, which
\* may be recorded later, does not hide it; the session hears of the end at most once, and
\* never of an attached child; and the file of a question that the child still waits with
\* goes only when the reply is there (subagent-executor.ts:825, 4243).
FollowedToItsEnd ==
  /\ ~Over => shown
  /\ receipt # "none" /\ remembered = "ended" => Over
  /\ callback = "over" /\ ~handoffLost => remembered = "ended"
  /\ announced <= 1 /\ (announced = 1 => receipt # "none" /\ callback = "over")
  /\ asking # 0 => asking \in filed \cup replied

\* The child waits with a question that the parent does not know of, or cannot answer
\* because its turn is held by the call.
Unanswerable ==
  here /\ asking # 0 /\ asking \notin replied /\ (asking \notin pendingAsks \/ fgCall # "over")

\* The child of a detached run is over, and the run is not.
Unfinished ==
  /\ receipt # "none" /\ Over
  /\ callback # "over" \/ shown \/ ~(remembered = "ended" \/ handoffLost)

\* Parent and child do not wait for each other: a question of a child whose call still
\* holds the parent's turn is known to the parent in the end, with the turn free to answer
\* it, without waiting for the time limit of the question (execution.ts:738); and a
\* detached run whose child is over is no longer listed as live, with its end recorded
\* unless the hand-off of its worktree failed.
ForegroundSettles ==
  (Unanswerable \/ Unfinished) ~> ~(Unanswerable \/ Unfinished)
=============================================================================
