----------------------------- MODULE ExternalJob -----------------------------
(***************************************************************************)
(* The dispatch of a prompt to an external job provider through the bridge *)
(* of src/src/runs/shared/external-job-bridge.ts.                          *)
(*                                                                         *)
(* The runner of a step writes a request file and waits for a response     *)
(* file, without a deadline.  Every host process that tracks the run       *)
(* sweeps its requests; the one that renames its claim directory into      *)
(* place starts the provider.  The claim of a dead host is settled by      *)
(* another.  The runner gives up, on a stop or a timeout, by claiming its  *)
(* own request.                                                            *)
(*                                                                         *)
(* A step is one access to the shared directory with the checks that the   *)
(* code makes on what it has just read: processes interleave between the   *)
(* look at a request, the claim, and the removal of each file.             *)
(***************************************************************************)
EXTENDS Naturals, FiniteSets

CONSTANTS
  Hosts,     \* processes that sweep the run's requests
  MaxDeaths  \* bound on the hosts that die

\* A host is none of the other owners that a claim may have.
ASSUME HostAssumption == {"none", "nobody", "runner"} \cap Hosts = {}

VARIABLES
  request,   \* the request file is there
  claim,     \* the claim directory
  answer,    \* the response file: "none", "job", "error" or "abandoned"
  host,      \* what each host is doing
  outcome,   \* what the provider answered the host
  jobRunner, \* the runner of the step
  asked,     \* it was asked to stop, or has timed out
  starts,    \* how often provider.start was called
  abandoned  \* history: a claim was given up

jobVars == <<request, claim, answer, host, outcome, jobRunner, asked, starts, abandoned>>

NoClaim == [owner |-> "none", handle |-> FALSE, done |-> FALSE]

HostDead(h) == host[h] = "dead"
HostGoes(h, next) == host' = [host EXCEPT ![h] = next]

\* writeAtomicJson makes the directory when another process has removed it: the claim
\* then has no owner.
WriteInClaim(file) ==
  LET dir == IF claim = NoClaim THEN [NoClaim EXCEPT !.owner = "nobody"] ELSE claim IN
  claim' = IF file = "handle" THEN [dir EXCEPT !.handle = TRUE] ELSE [dir EXCEPT !.done = TRUE]

-----------------------------------------------------------------------------
\* The look at a request: one that is done is removed; one that is answered is left.
ReadRequest(h) ==
  /\ host[h] = "idle" /\ request
  /\ IF claim.done THEN HostGoes(h, "clearing")
                   ELSE answer = "none" /\ HostGoes(h, "read")
  /\ UNCHANGED <<request, claim, answer, outcome, jobRunner, asked, starts, abandoned>>

\* Mutant of ClaimRequest: an earlier claim is replaced.
ClaimAnyway(h) ==
  /\ host[h] = "read"
  /\ claim' = [NoClaim EXCEPT !.owner = h] /\ HostGoes(h, "claimed")
  /\ UNCHANGED <<request, answer, outcome, jobRunner, asked, starts, abandoned>>

\* The claim directory, complete with its owner and its request, is renamed into place,
\* which fails when there is one.
ClaimRequest(h) ==
  /\ host[h] = "read"
  /\ IF claim = NoClaim
     THEN claim' = [NoClaim EXCEPT !.owner = h] /\ HostGoes(h, "claimed")
     ELSE HostGoes(h, "idle") /\ UNCHANGED claim
  /\ UNCHANGED <<request, answer, outcome, jobRunner, asked, starts, abandoned>>

\* The request file is removed and the prompt handed to the provider, if it is loaded.
Dispatch(h) ==
  /\ host[h] = "claimed"
  /\ request' = FALSE
  /\ \/ starts' = starts + 1 /\ HostGoes(h, "starting") /\ UNCHANGED outcome
     \/ outcome' = [outcome EXCEPT ![h] = "error"] /\ HostGoes(h, "answering") /\ UNCHANGED starts
  /\ UNCHANGED <<claim, answer, jobRunner, asked, abandoned>>

\* The provider gives a job, whose handle is written to the claim, or fails.
ProviderReturns(h) ==
  /\ host[h] = "starting"
  /\ \/ outcome' = [outcome EXCEPT ![h] = "job"] /\ WriteInClaim("handle")
     \/ outcome' = [outcome EXCEPT ![h] = "error"] /\ UNCHANGED claim
  /\ HostGoes(h, "answering")
  /\ UNCHANGED <<request, answer, jobRunner, asked, starts, abandoned>>

Respond(h) ==
  /\ host[h] = "answering"
  /\ answer' = outcome[h]
  /\ HostGoes(h, "completing")
  /\ UNCHANGED <<request, claim, outcome, jobRunner, asked, starts, abandoned>>

Complete(h) ==
  /\ host[h] \in {"completing", "recovering"}
  /\ WriteInClaim("done")
  /\ HostGoes(h, IF host[h] = "completing" THEN "idle" ELSE "clearing")
  /\ UNCHANGED <<request, answer, outcome, jobRunner, asked, starts, abandoned>>

-----------------------------------------------------------------------------
\* The claim of a dead owner is settled: the job that it had got is reported, or else that
\* it was abandoned.  (A claim without an owner is removed if its request is still there,
\* which no step of this module leads to.)
SettleClaim(h) ==
  /\ host[h] = "idle" /\ ~claim.done /\ answer = "none"
  /\ claim.owner \in Hosts /\ HostDead(claim.owner)
  /\ IF claim.handle
     THEN answer' = "job" /\ HostGoes(h, "recovering") /\ UNCHANGED abandoned
     ELSE answer' = "abandoned" /\ HostGoes(h, "dropping") /\ abandoned' = TRUE
  /\ UNCHANGED <<request, claim, outcome, jobRunner, asked, starts>>

\* The abandoned claim is removed, and then the request.
DropClaim(h) ==
  /\ host[h] = "dropping"
  /\ claim' = NoClaim
  /\ HostGoes(h, "clearing")
  /\ UNCHANGED <<request, answer, outcome, jobRunner, asked, starts, abandoned>>

RemoveRequest(h) ==
  /\ host[h] = "clearing"
  /\ request' = FALSE
  /\ HostGoes(h, "idle")
  /\ UNCHANGED <<claim, answer, outcome, jobRunner, asked, starts, abandoned>>

\* A host dies at any point.
HostDies(h) ==
  /\ ~HostDead(h)
  /\ Cardinality({g \in Hosts : HostDead(g)}) < MaxDeaths
  /\ HostGoes(h, "dead")
  /\ UNCHANGED <<request, claim, answer, outcome, jobRunner, asked, starts, abandoned>>

-----------------------------------------------------------------------------
\* The step is stopped, or its time is up.
AskToEnd ==
  /\ ~asked /\ asked' = TRUE
  /\ UNCHANGED <<request, claim, answer, host, outcome, jobRunner, starts, abandoned>>

\* One turn of the runner's loop: the response is taken, or, without one, an asked
\* cancellation is attempted.
Poll ==
  /\ jobRunner = "waiting"
  /\ IF answer # "none"
     THEN answer' = "none" /\ jobRunner' = answer
     ELSE asked /\ jobRunner' = "cancelling" /\ UNCHANGED answer
  /\ UNCHANGED <<request, claim, host, outcome, asked, starts, abandoned>>

\* Mutant of CancelRequest: the request is only removed.
CancelByRemoval ==
  /\ jobRunner = "cancelling"
  /\ IF claim = NoClaim THEN jobRunner' = "cancelled" ELSE jobRunner' = "waiting"
  /\ UNCHANGED <<request, claim, answer, host, outcome, asked, starts, abandoned>>

\* The runner renames a completed claim into place; a conflict makes it wait on.
CancelRequest ==
  /\ jobRunner = "cancelling"
  /\ IF claim = NoClaim
     THEN claim' = [owner |-> "runner", handle |-> FALSE, done |-> TRUE] /\ jobRunner' = "cancelled"
     ELSE jobRunner' = "waiting" /\ UNCHANGED claim
  /\ UNCHANGED <<request, answer, host, outcome, asked, starts, abandoned>>

RunnerRemovesRequest ==
  /\ jobRunner = "cancelled" /\ request
  /\ request' = FALSE
  /\ UNCHANGED <<claim, answer, host, outcome, jobRunner, asked, starts, abandoned>>

-----------------------------------------------------------------------------
JobInit ==
  /\ request = TRUE /\ claim = NoClaim /\ answer = "none"
  /\ host = [h \in Hosts |-> "idle"] /\ outcome = [h \in Hosts |-> "none"]
  /\ jobRunner = "waiting" /\ asked = FALSE
  /\ starts = 0 /\ abandoned = FALSE

JobNext ==
  \/ \E h \in Hosts :
       \/ ReadRequest(h) \/ ClaimRequest(h) \/ Dispatch(h) \/ ProviderReturns(h)
       \/ Respond(h) \/ Complete(h)
       \/ SettleClaim(h) \/ DropClaim(h) \/ RemoveRequest(h) \/ HostDies(h)
  \/ AskToEnd \/ Poll \/ CancelRequest \/ RunnerRemovesRequest

JobSpec == JobInit /\ [][JobNext]_jobVars

-----------------------------------------------------------------------------
\* Every variable stays within its domain.
JobTypeOK ==
  /\ request \in BOOLEAN /\ asked \in BOOLEAN /\ abandoned \in BOOLEAN
  /\ claim \in [owner : Hosts \cup {"none", "nobody", "runner"}, handle : BOOLEAN, done : BOOLEAN]
  /\ answer \in {"none", "job", "error", "abandoned"}
  /\ host \in [Hosts -> {"idle", "read", "claimed", "starting", "answering", "completing",
                         "recovering", "dropping", "clearing", "dead"}]
  /\ outcome \in [Hosts -> {"none", "job", "error"}]
  /\ jobRunner \in {"waiting", "cancelling", "cancelled", "job", "error", "abandoned"}
  /\ starts \in Nat

\* The prompt reaches the provider once at most, whoever looks at the request and
\* however late it acts on what it saw, as long as no claim was given up for its owner's
\* death (external-job-bridge.ts:413).
DispatchedOnce == starts > 1 => abandoned

\* Once the runner has reported that it gave up before the prompt went out, no host
\* starts the provider, even one that had read the request before
\* (external-job-bridge.ts:499).
CancelledNotDispatched == [][jobRunner = "cancelled" => starts' = starts]_jobVars
=============================================================================
