---------------------------- MODULE ChildSession ----------------------------
(***************************************************************************)
(* One child session of a detached run: runChildSession in                 *)
(* src/src/runs/background/run-child-session.ts, with the projection of    *)
(* src/src/runs/shared/child-lifecycle.ts and the record that the runner   *)
(* keeps of steers (deliverSteerRequest, registerStepSteer and             *)
(* applySteerDelivery in subagent-runner.ts), up to the end of the run.    *)
(*                                                                         *)
(* The session is Pi's: it may report anything, answer an abort or not,    *)
(* and never come to an end.  A step is one callback of the runner's event *)
(* loop: an event, a timer, a request or the end of an awaited call.       *)
(***************************************************************************)
EXTENDS Naturals, FiniteSets

CONSTANTS
  Steers,     \* steers and follow-ups routed to the running step
  MaxReviews  \* bound on the reports of the child's watchdog

ASSUME ChildAssumption == MaxReviews \in Nat

VARIABLES
  child,      \* the session: "creating", "open", "closed" or "none"
  settled,    \* settle was called
  flags,      \* those of interrupted, timedOut and stopped that are set
  failed,     \* error is set
  assistantError,
  clean,      \* cleanTerminalAssistantStopReceived
  quiet,      \* agentSettledReceived
  hold,       \* queuedDrainHold
  retrying,   \* compactionRetryActive
  reviewing,  \* the child's watchdog is reviewing
  reviews,    \* the number of its reports
  hookHeld,   \* finalDrainHeld: a hook of the launch is not done yet
  timers,     \* the armed ones of drain, hard, tail and abort; "forced" once drain has fired
  forced,     \* forcedTermination
  inChild,    \* steers in the child's own queue
  accepted,   \* acceptedSteers
  call,       \* of each steer: "idle", "waiting" in queuedStepSteers, or its call of the session:
              \* "sent", "refused" or "returned"
  record,     \* the state of each steer in the run's status
  exit,       \* the exit code of the result, or NoExit
  ended,      \* history: how the prompt ended, "no" when it was not waited for
  runDone     \* the run has ended, and with it the record of its steers

childVars == <<child, settled, flags, failed, assistantError, clean, quiet, hold, retrying,
               reviewing, reviews, hookHeld, timers, forced, inChild, accepted, call, record,
               exit, ended, runDone>>

NoExit == 9

messageVars == <<child, settled, exit, ended, inChild, accepted, call, record, runDone>>
drainVars == <<clean, quiet, hold, retrying, timers>>
reviewVars == <<reviewing, reviews>>
errorVars == <<flags, failed, assistantError, forced>>

DrainTimers == {"drain", "forced", "hard"}

\* startFinalDrain, given what has been received and the state of the watchdog: its
\* review is waited for; then what the child has queued is; else the grace period runs.
StartDrain(c, q, active, armed) ==
  /\ timers' = IF active THEN IF c \/ q THEN armed \cup {"tail"} ELSE armed
               ELSE IF armed \cap {"drain", "forced"} # {} \/ hold \/ inChild # {} THEN armed
               ELSE armed \cup {"drain"}
  /\ hold' = (hold \/ (~active /\ armed \cap {"drain", "forced"} = {} /\ inChild # {}))

\* cancel-drain
CancelDrain ==
  /\ clean' = FALSE /\ quiet' = FALSE
  /\ timers' = timers \ (DrainTimers \cup {"tail"})

Listening == child = "open" /\ ~settled

\* settle, when the prompt has ended ("resolved" or "rejected") or is given up ("no"):
\* accepted steers that were not consumed have failed, and everything is let go.
Settle(prompt, byForce) ==
  LET error == failed \/ assistantError \/ prompt = "rejected"
      drained == (byForce \/ forced) /\ (clean \/ quiet) /\ ~error
      unsettled == byForce /\ ~drained /\ flags = {} IN
  /\ ~settled /\ settled' = TRUE
  /\ record' = [q \in Steers |-> IF q \in accepted /\ record[q] # "delivered" THEN "failed" ELSE record[q]]
  /\ accepted' = {} /\ timers' = {}
  /\ exit' = IF flags \cap {"timeout", "stop"} # {} THEN 1
             ELSE IF "interrupt" \in flags \/ drained THEN 0
             ELSE IF error \/ unsettled THEN 1 ELSE 0
  /\ ended' = prompt
  /\ child' = IF child = "open" THEN "closed" ELSE IF prompt = "rejected" THEN "none" ELSE child
  /\ UNCHANGED <<errorVars, clean, quiet, hold, retrying, reviewVars, hookHeld, inChild, call, runDone>>

-----------------------------------------------------------------------------
\* Steers are handed to the session, which queues or refuses each.
HandOver(Q) ==
  \E refused \in SUBSET Q :
    /\ accepted' = accepted \cup Q
    /\ inChild' = inChild \cup (Q \ refused)
    /\ call' = [q \in Steers |-> IF q \in refused THEN "refused" ELSE IF q \in Q THEN "sent" ELSE call[q]]

WaitingSteers == {q \in Steers : call[q] = "waiting"}

\* The factory gives the session, which is closed again if nobody waits for it; else it is
\* given the steers that waited for it, and aborted if the run was asked to end meanwhile.
CreateSession ==
  /\ child = "creating"
  /\ IF settled THEN child' = "closed" /\ UNCHANGED <<accepted, inChild, call>>
                ELSE child' = "open" /\ HandOver(WaitingSteers)
  /\ UNCHANGED <<settled, errorVars, drainVars, reviewVars, hookHeld, record, exit, ended, runDone>>

CreateFails ==
  /\ child = "creating"
  /\ \/ Settle("rejected", FALSE)
     \/ settled /\ child' = "none"
        /\ UNCHANGED <<settled, errorVars, drainVars, reviewVars, hookHeld, inChild, accepted, call,
                       record, exit, ended, runDone>>

\* The prompt's promise: resolved or rejected.
PromptSettles == child = "open" /\ \E prompt \in {"resolved", "rejected"} : Settle(prompt, FALSE)

\* Mutant of Ask: no limit for the child's end.
AskPatiently(kind) ==
  /\ ~settled /\ flags \cap {"timeout", "stop"} = {}
  /\ flags' = IF kind = "interrupt" THEN flags \cup {kind} ELSE (flags \ {"interrupt"}) \cup {kind}
  /\ failed' = TRUE
  /\ timers' = timers
  /\ UNCHANGED <<messageVars, assistantError, forced, clean, quiet, hold, retrying, reviewVars, hookHeld>>

\* Stop and timeout come first and exclude each other; each aborts the child and sets
\* the limit for its end.
Ask(kind) ==
  /\ ~settled /\ flags \cap {"timeout", "stop"} = {}
  /\ flags' = IF kind = "interrupt" THEN flags \cup {kind} ELSE (flags \ {"interrupt"}) \cup {kind}
  /\ failed' = TRUE
  /\ timers' = timers \cup {"abort"}
  /\ UNCHANGED <<messageVars, assistantError, forced, clean, quiet, hold, retrying, reviewVars, hookHeld>>

-----------------------------------------------------------------------------
\* turn_start, agent_start and auto_retry_start
Begins ==
  /\ Listening
  /\ hold' = FALSE /\ retrying' = FALSE /\ CancelDrain
  /\ UNCHANGED <<messageVars, errorVars, reviewVars, hookHeld>>

\* agent_end, and the end of a compaction
AgentEnds ==
  /\ Listening
  /\ CancelDrain /\ retrying' \in {retrying, FALSE}
  /\ UNCHANGED <<messageVars, errorVars, hold, reviewVars, hookHeld>>

CompactionEnds(retry) ==
  /\ Listening
  /\ retrying' = retry
  /\ IF retry THEN CancelDrain ELSE UNCHANGED <<clean, quiet, timers>>
  /\ UNCHANGED <<messageVars, errorVars, hold, reviewVars, hookHeld>>

AgentSettles ==
  /\ Listening /\ ~retrying
  /\ quiet' = TRUE /\ StartDrain(clean, TRUE, reviewing, timers)
  /\ UNCHANGED <<messageVars, errorVars, clean, retrying, reviewVars, hookHeld>>

\* An assistant message: an error, one that a tool call makes up for, or a final stop.
AssistantSays(error) ==
  /\ Listening
  /\ assistantError' = error
  /\ UNCHANGED <<messageVars, flags, failed, forced, drainVars, reviewVars, hookHeld>>

AssistantStops(kind) ==
  /\ Listening
  /\ assistantError' = (kind = "error" \/ (kind = "empty" /\ assistantError))
  /\ clean' = (clean \/ kind # "error")
  /\ StartDrain(clean', quiet, reviewing, timers)
  /\ UNCHANGED <<messageVars, flags, failed, forced, quiet, retrying, reviewVars, hookHeld>>

\* A report of the watchdog: the drain waits for a review, and goes on after it.
WatchdogReports(active) ==
  /\ Listening /\ reviews < MaxReviews
  /\ reviews' = reviews + 1 /\ reviewing' = active
  /\ IF active \/ clean \/ quiet
     THEN StartDrain(clean, quiet, active, IF active THEN timers \ DrainTimers ELSE timers \ {"tail"})
     ELSE timers' = timers \ {"tail"} /\ UNCHANGED hold
  /\ UNCHANGED <<messageVars, errorVars, clean, quiet, retrying, hookHeld>>

HookMoves ==
  /\ Listening
  /\ hookHeld' = ~hookHeld
  /\ UNCHANGED <<messageVars, errorVars, drainVars, reviewVars>>

-----------------------------------------------------------------------------
\* The grace period: it is extended for a hook or for what the child has queued; else
\* the child is aborted.
DrainPasses ==
  /\ "drain" \in timers /\ ~settled
  /\ IF hookHeld \/ hold \/ inChild # {}
     THEN hold' = (hold \/ (~hookHeld /\ inChild # {})) /\ UNCHANGED <<forced, failed, timers>>
     ELSE /\ forced' = TRUE
          /\ failed' = (failed \/ ~(clean \/ quiet \/ assistantError))
          /\ timers' = (timers \ {"drain"}) \cup {"forced", "hard", "abort"}
          /\ UNCHANGED hold
  /\ UNCHANGED <<messageVars, flags, assistantError, clean, quiet, retrying, reviewVars, hookHeld>>

\* The child is not waited for any longer.
HardPasses == timers \cap {"hard", "abort"} # {} /\ Settle("no", TRUE)

\* The review takes too long.
TailPasses ==
  /\ "tail" \in timers
  /\ reviewing' = FALSE
  /\ StartDrain(clean, quiet, FALSE, timers \ {"tail"})
  /\ UNCHANGED <<messageVars, errorVars, clean, quiet, retrying, reviews, hookHeld>>

-----------------------------------------------------------------------------
\* Mutant of RecordState: a later state replaces a final one.
RecordedLast(q, state) == record' = [record EXCEPT ![q] = state]

\* applySteerDelivery: the first final state stays.
RecordState(q, state) ==
  record' = [record EXCEPT ![q] = IF @ \in {"delivered", "failed"} THEN @ ELSE state]

\* A steer for the running step goes to its session.  While that is not open yet, and
\* after its end, it waits for a session.  After the end of the child's work the drain
\* waits for the steer.
Steer(q) ==
  /\ call[q] = "idle" /\ ~runDone
  /\ record' = [record EXCEPT ![q] = "routed"]
  /\ \/ Listening /\ HandOver({q}) /\ hold' = (hold \/ clean \/ quiet)
     \/ /\ ~Listening /\ call' = [call EXCEPT ![q] = "waiting"]
        /\ UNCHANGED <<accepted, inChild, hold>>
  /\ UNCHANGED <<child, settled, errorVars, clean, quiet, retrying, timers, reviewVars, hookHeld,
                 exit, ended, runDone>>

\* A later attempt of the step takes up what has waited for a session: one like this, which
\* ends with an outcome for it.
LaterAttempt(q) ==
  /\ settled /\ ~runDone /\ call[q] = "waiting"
  /\ \E state \in {"delivered", "failed"} : RecordState(q, state)
  /\ call' = [call EXCEPT ![q] = "returned"]
  /\ UNCHANGED <<child, settled, errorVars, drainVars, reviewVars, hookHeld, inChild, accepted,
                 exit, ended, runDone>>

\* The run ends after its children: what has no outcome by then has failed.
RunSettles ==
  /\ settled /\ ~runDone
  /\ runDone' = TRUE
  /\ record' = [q \in Steers |-> IF record[q] \in {"routed", "queued"} THEN "failed" ELSE record[q]]
  /\ UNCHANGED <<child, settled, errorVars, drainVars, reviewVars, hookHeld, inChild, accepted,
                 call, exit, ended>>

\* The call returns, even after the child has ended.
SteerReturns(q) ==
  /\ call[q] \in {"sent", "refused"}
  /\ RecordState(q, IF call[q] = "sent" THEN "queued" ELSE "failed")
  /\ accepted' = IF call[q] = "sent" THEN accepted ELSE accepted \ {q}
  /\ call' = [call EXCEPT ![q] = "returned"]
  /\ UNCHANGED <<child, settled, errorVars, drainVars, reviewVars, hookHeld, inChild, exit, ended,
                 runDone>>

\* The child reads it: the user message matches an accepted steer.
Consume(q) ==
  /\ Listening /\ q \in inChild
  /\ inChild' = inChild \ {q}
  /\ IF q \in accepted THEN RecordState(q, "delivered") /\ accepted' = accepted \ {q}
                       ELSE UNCHANGED <<record, accepted>>
  /\ UNCHANGED <<child, settled, errorVars, drainVars, reviewVars, hookHeld, call, exit, ended,
                 runDone>>

-----------------------------------------------------------------------------
ChildInit ==
  /\ child = "creating" /\ settled = FALSE
  /\ flags = {} /\ failed = FALSE /\ assistantError = FALSE
  /\ clean = FALSE /\ quiet = FALSE /\ hold = FALSE /\ retrying = FALSE
  /\ reviewing = FALSE /\ reviews = 0 /\ hookHeld = FALSE
  /\ timers = {} /\ forced = FALSE
  /\ inChild = {} /\ accepted = {}
  /\ call = [q \in Steers |-> "idle"]
  /\ record = [q \in Steers |-> "none"]
  /\ exit = NoExit /\ ended = "no" /\ runDone = FALSE

ChildNext ==
  \/ CreateSession \/ CreateFails \/ PromptSettles
  \/ \E kind \in {"interrupt", "timeout", "stop"} : Ask(kind)
  \/ Begins \/ AgentEnds \/ AgentSettles \/ HookMoves
  \/ \E on \in BOOLEAN : CompactionEnds(on) \/ AssistantSays(on) \/ WatchdogReports(on)
  \/ \E kind \in {"text", "empty", "error"} : AssistantStops(kind)
  \/ DrainPasses \/ HardPasses \/ TailPasses
  \/ \E q \in Steers : Steer(q) \/ SteerReturns(q) \/ Consume(q) \/ LaterAttempt(q)
  \/ RunSettles

ChildSpec == ChildInit /\ [][ChildNext]_childVars

-----------------------------------------------------------------------------
\* Every variable stays within its domain.
ChildTypeOK ==
  /\ child \in {"creating", "open", "closed", "none"}
  /\ flags \subseteq {"interrupt", "timeout", "stop"}
  /\ reviews \in 0..MaxReviews
  /\ timers \subseteq DrainTimers \cup {"tail", "abort"}
  /\ \A v \in {settled, failed, assistantError, clean, quiet, hold, retrying, reviewing, hookHeld, forced,
           runDone} : v \in BOOLEAN
  /\ inChild \subseteq Steers /\ accepted \subseteq Steers
  /\ call \in [Steers -> {"idle", "waiting", "sent", "refused", "returned"}]
  /\ record \in [Steers -> {"none", "routed", "queued", "delivered", "failed"}]
  /\ exit \in {0, 1, NoExit} /\ ended \in {"no", "resolved", "rejected"}

\* A child that has ended leaves nothing behind: no session, no timer, and no steer it was
\* given that still counts as queued, although its call may return after the end; and what
\* the child has read is not reported as failed (run-child-session.ts:560).
LeavesNothing ==
  /\ settled => /\ child # "open" /\ timers = {}
                /\ \A q \in Steers : record[q] \in {"routed", "queued"} => q \in WaitingSteers
  /\ \A q \in Steers : record[q] = "failed" /\ call[q] = "sent" => settled

\* No steer is left where nobody looks for it: an open session has been given all that
\* waited for it (subagent-runner.ts:2370), and the run does not end before each has its
\* outcome, whether it waited for a session that never opened or for another attempt
\* (subagent-runner.ts:4888).
NoneForgotten ==
  /\ child = "open" => WaitingSteers = {}
  /\ runDone => \A q \in Steers : record[q] \notin {"routed", "queued"}

\* The result says what was asked for last: a stop or a timeout is never taken for a
\* pause or a success; and a child that came to a clean end is not made a failure by
\* the end of the waiting for it (run-child-session.ts:586).
EndsAsAsked ==
  settled =>
    /\ Cardinality(flags) <= 1
    /\ flags \cap {"timeout", "stop"} # {} => exit = 1
    /\ flags = {} /\ ~failed /\ ~assistantError /\ ended # "rejected" /\ (clean \/ quiet) => exit = 0

\* The end of a child is clean: it leaves nothing behind and says what was asked for, and
\* no steer is forgotten (run-child-session.ts:560, 586).
EndsCleanly == LeavesNothing /\ NoneForgotten /\ EndsAsAsked

\* The child was asked to end, or has said its last word and nothing holds it.
Ending == ~settled /\ (flags # {} \/ ((clean \/ quiet) /\ ~hold /\ ~hookHeld))

\* A child that was asked to end is over in the end, and so is one that has said its
\* last word, unless something is still queued for it or a hook holds it, whatever the
\* session does: it may neither answer nor end (run-child-session.ts:245).
ChildEnds == Ending ~> ~Ending
=============================================================================
