----------------------------- MODULE GraphDispatch -----------------------------
(***************************************************************************)
(* Dispatch of graph nodes as durable jobs: GraphDispatchCoordinator of     *)
(* graph/dispatch.py, the DurableJobExecutionCoordinator it runs the job    *)
(* with, the operator's requests (operator_dispatch.py) and the closeout    *)
(* transitions.  Several calls are under way at once, in one or in several  *)
(* processes.  Each call works on its copy of the row; every read and every *)
(* write of the store is a step of its own, and a call may end anywhere     *)
(* (an exception, a database error, the death of its process).              *)
(***************************************************************************)
EXTENDS DurableJobs, FiniteSets

CONSTANTS
  Callers,   \* the calls that can be under way at once
  Requests,  \* GraphDispatchRequest, with its metadata ref and its dispatch mode
  Failures   \* recovery classifications a backend reports

VARIABLES
  calls,     \* per caller, the call under way or the answer it got
  running,   \* <<job, attempt>> of the backend executions under way
  launched,  \* history: executions started for each job
  done       \* history: the attempt whose completion was last checkpointed

dispatchVars == <<jobs, metas, calls, running, launched, done>>
ghostVars == <<running, launched, done>>

Request ==
  [job: Jobs, worker: Workers, terms: Terms, max: Budgets, ref: Refs, pull: BOOLEAN]

ASSUME DispatchAssumption ==
  /\ Requests \subseteq Request
  /\ Failures \subseteq RecoveryClassification
  /\ None \notin Request

(* An operator's execute request has a job and a worker, but no dispatch record. *)
Steps ==
  {"load", "create", "events", "reread", "meta", "ready", "claim", "block", "gate",
   "precheck", "executing", "launch", "backend", "recover", "checkpoint", "verify"}

NoCall ==
  [at |-> "idle", req |-> None, job |-> None, worker |-> None, allowed |-> FALSE,
   row |-> None, recovery |-> None]

UnderWay(d) == calls[d].at \in Steps
IsDispatch(c) == c.req # None

-------------------------------------------------------------------------------
(* How a call goes on, or ends *)

Goto(d, step, row) ==
  calls' = [calls EXCEPT ![d].at = step, ![d].row = row]

(* The call raises: its caller learns nothing about the job. *)
Raise(d) == calls' = [calls EXCEPT ![d] = NoCall]

(* _dispatch_job_matches_task: the worker the lease is for. *)
JobMatchesTask(row, req) ==
  /\ row.terms = req.terms /\ row.max = req.max
  /\ row.worker = IF row.state \in WorkerBound THEN req.worker ELSE None

(* Mutant: an answer to reconcile ends the task like a failure. *)
ReleasesReconciled(action, row, req) ==
  /\ JobMatchesTask(row, req)
  /\ \/ action = "EXECUTED"
     \/ action = "EXISTING"
     \/ action = "BLOCKED"
     \/ action = "OFFERED"
     \/ action = "RECONCILE"

(* _typed_dispatch_policy: the answers after which the batch gives the      *)
(* provider admission of the task back.                                     *)
Releases(action, row, req) ==
  /\ JobMatchesTask(row, req)
  /\ \/ action = "EXECUTED" /\ row.state = "VERIFYING" /\ row.attempts >= 1
     \/ /\ action = "EXISTING"
        /\ \/ row.state \in {"VERIFYING", "REVIEW_PENDING", "COMPLETE"} /\ row.attempts >= 1
           \/ row.state \in {"FAILED", "CANCELLED"}
     \/ action = "BLOCKED" /\ row.state = "BLOCKED"
     \/ action = "OFFERED" /\ row.state = "CLAIMED"

(* Only the answer that gives the admission back is told from no call at all. *)
Answer(d, action, row) ==
  LET releases == IsDispatch(calls[d]) /\ Releases(action, row, calls[d].req)
  IN  calls' = [calls EXCEPT ![d] =
        IF releases THEN [NoCall EXCEPT !.at = "released", !.job = calls[d].job] ELSE NoCall]

(* _reconcile reads the job once more; an operator only gets the error. *)
Reconcile(d) == Answer(d, "RECONCILE", jobs[calls[d].job])

ExistingStates == {"VERIFYING", "REVIEW_PENDING"} \cup Terminal
ReconcileStates ==
  {"EXECUTING", "RECOVERY_NEEDED", "CHANGES_REQUIRED", "REPAIRING", "PLANNING"}

(* What dispatch() does next with a row it has just read or written. *)
Place(d, row) ==
  LET c == calls[d] IN
  IF row.state \in ExistingStates THEN Answer(d, "EXISTING", row)
  ELSE IF row.state \in ReconcileStates THEN Answer(d, "RECONCILE", row)
  ELSE IF row.state = "BLOCKED" /\ ~c.allowed THEN Answer(d, "BLOCKED", row)
  ELSE IF row.state \in {"NEW", "BLOCKED"} THEN Goto(d, "ready", row)
  ELSE IF row.state = "READY" THEN Goto(d, "claim", row)
  ELSE IF row.worker # c.worker THEN Raise(d)
  ELSE IF ~c.allowed THEN Goto(d, "block", row)
  ELSE IF c.req.pull THEN Answer(d, "OFFERED", row)
  ELSE IF row.state = "CLAIMED" THEN Goto(d, "gate", row)
  ELSE Goto(d, "precheck", row)

-------------------------------------------------------------------------------
(* GraphDispatchCoordinator.dispatch *)

Dispatch(d, req, allowed) ==
  /\ ~UnderWay(d)
  /\ calls' = [calls EXCEPT ![d] =
       [NoCall EXCEPT !.at = "load", !.req = req, !.job = req.job,
                      !.worker = req.worker, !.allowed = allowed]]
  /\ UNCHANGED <<jobs, metas, ghostVars>>

(* get_job of _load_or_create, again after JOB_ALREADY_EXISTS *)
Load(d) ==
  /\ calls[d].at = "load"
  /\ LET row == jobs[calls[d].job] IN
       IF row = None THEN Goto(d, "create", None)
       ELSE IF row.terms # calls[d].req.terms \/ row.max # calls[d].req.max THEN Raise(d)
       ELSE Goto(d, "events", row)
  /\ UNCHANGED <<jobs, metas, ghostVars>>

Create(d) ==
  LET c == calls[d] IN
  /\ c.at = "create"
  /\ \/ /\ CreateJob(c.job, c.req.terms, c.req.max)
        /\ Goto(d, "events", NewJob(c.req.terms, c.req.max))
     \/ /\ jobs[c.job] # None
        /\ Goto(d, "load", None)
        /\ UNCHANGED jobVars
  /\ UNCHANGED ghostVars

(* list_events of _ensure_metadata *)
ReadEvents(d) ==
  LET c == calls[d] IN
  /\ c.at = "events"
  /\ IF metas[c.job] = <<c.req.ref>> THEN Goto(d, "reread", None)
     ELSE IF metas[c.job] # <<>> \/ c.row.state # "NEW" THEN Raise(d)
     ELSE Goto(d, "meta", c.row)
  /\ UNCHANGED <<jobs, metas, ghostVars>>

Reread(d) ==
  /\ calls[d].at = "reread"
  /\ Place(d, jobs[calls[d].job])
  /\ UNCHANGED <<jobs, metas, ghostVars>>

RecordMetadata(d) ==
  LET c == calls[d] IN
  /\ c.at = "meta"
  /\ \/ Checkpoint(c.job, c.row.version, c.req.ref) /\ Place(d, jobs'[c.job])
     \/ ~VersionHolds(c.job, c.row.version) /\ Reconcile(d) /\ UNCHANGED jobVars
  /\ UNCHANGED ghostVars

(* One transition of the call's job; a version conflict and a refused       *)
(* transition both end a dispatch with RECONCILE.                           *)
Move(d, target, worker) ==
  LET c == calls[d] IN
  \/ /\ Transition(c.job, target, c.row.version, worker, None)
     /\ CASE target = "BLOCKED"   -> Answer(d, "BLOCKED", jobs'[c.job])
          [] target = "EXECUTING" -> Goto(d, "launch", jobs'[c.job])
          [] target = "VERIFYING" -> Answer(d, "EXECUTED", jobs'[c.job])
          [] OTHER                -> Place(d, jobs'[c.job])
  \/ /\ ~ /\ VersionHolds(c.job, c.row.version)
          /\ MayTransition(jobs[c.job], target, worker, None)
     /\ Reconcile(d)
     /\ UNCHANGED jobVars

MarkReady(d) == calls[d].at = "ready" /\ Move(d, "READY", None) /\ UNCHANGED ghostVars
Claim(d) == calls[d].at = "claim" /\ Move(d, "CLAIMED", calls[d].worker) /\ UNCHANGED ghostVars
Block(d) == calls[d].at = "block" /\ Move(d, "BLOCKED", calls[d].worker) /\ UNCHANGED ghostVars
Gate(d) == calls[d].at = "gate" /\ Move(d, "GATING", calls[d].worker) /\ UNCHANGED ghostVars

-------------------------------------------------------------------------------
(* DurableJobExecutionCoordinator.execute *)

(* get_job and _check_preconditions *)
Precheck(d) ==
  LET c == calls[d]  row == jobs[c.job] IN
  /\ c.at = "precheck"
  /\ IF row = None THEN Raise(d)
     ELSE IF row.version # c.row.version THEN Reconcile(d)
     ELSE IF row.state # "GATING" \/ row.worker # c.worker THEN Raise(d)
     ELSE Goto(d, "executing", row)
  /\ UNCHANGED <<jobs, metas, ghostVars>>

BeginExecuting(d) ==
  calls[d].at = "executing" /\ Move(d, "EXECUTING", calls[d].worker) /\ UNCHANGED ghostVars

(* The call of backend.execute *)
Launch(d) ==
  LET c == calls[d] IN
  /\ c.at = "launch"
  /\ Goto(d, "backend", c.row)
  /\ running' = running \cup {<<c.job, c.row.attempts>>}
  /\ launched' = [launched EXCEPT ![c.job] = @ + 1]
  /\ UNCHANGED <<jobs, metas, done>>

BackendSucceeds(d) ==
  LET c == calls[d] IN
  /\ c.at = "backend"
  /\ Goto(d, "checkpoint", c.row)
  /\ running' = running \ {<<c.job, c.row.attempts>>}
  /\ UNCHANGED <<jobs, metas, launched, done>>

(* A failure the backend reports and classifies *)
BackendReports(d, classification) ==
  LET c == calls[d] IN
  /\ c.at = "backend"
  /\ calls' = [calls EXCEPT ![d].at = "recover", ![d].recovery = classification]
  /\ running' = running \ {<<c.job, c.row.attempts>>}
  /\ UNCHANGED <<jobs, metas, launched, done>>

(* An exception, or no JobBackendResult: what was started may still run. *)
BackendLost(d) ==
  /\ calls[d].at = "backend"
  /\ calls' = [calls EXCEPT ![d].at = "recover", ![d].recovery = "UNKNOWN"]
  /\ UNCHANGED <<jobs, metas, ghostVars>>

(* _recover_after_backend *)
Recover(d) ==
  LET c == calls[d] IN
  /\ c.at = "recover"
  /\ \/ /\ Transition(c.job, "RECOVERY_NEEDED", c.row.version, c.row.worker, c.recovery)
        /\ Answer(d, "RECONCILE", jobs'[c.job])
     \/ /\ ~ /\ VersionHolds(c.job, c.row.version)
             /\ MayTransition(jobs[c.job], "RECOVERY_NEEDED", c.row.worker, c.recovery)
        /\ Reconcile(d)
        /\ UNCHANGED jobVars
  /\ UNCHANGED ghostVars

RecordCompletion(d) ==
  LET c == calls[d] IN
  /\ c.at = "checkpoint"
  /\ \/ /\ Checkpoint(c.job, c.row.version, OtherRef)
        /\ Goto(d, "verify", jobs'[c.job])
        /\ done' = [done EXCEPT ![c.job] = c.row.attempts]
     \/ /\ ~VersionHolds(c.job, c.row.version)
        /\ Reconcile(d)
        /\ UNCHANGED <<jobs, metas, done>>
  /\ UNCHANGED <<running, launched>>

BeginVerifying(d) ==
  calls[d].at = "verify" /\ Move(d, "VERIFYING", calls[d].worker) /\ UNCHANGED ghostVars

-------------------------------------------------------------------------------
(* The rest of the program, and failures *)

(* OperatorAction.JOB_EXECUTE, with the version of a row shown earlier *)
OperatorExecute(d, j, worker) ==
  /\ ~UnderWay(d)
  /\ jobs[j] # None
  /\ calls' = [calls EXCEPT ![d] =
       [NoCall EXCEPT !.at = "precheck", !.job = j, !.worker = worker, !.row = jobs[j]]]
  /\ UNCHANGED <<jobs, metas, ghostVars>>

(* An operator's other requests are one transaction each; a remembered      *)
(* version has an effect only when it is the row's version.                 *)
OperatorRequests(j) ==
  /\ \/ \E terms \in Terms, max \in Budgets : CreateJob(j, terms, max)
     \/ /\ jobs[j] # None
        /\ LET version == jobs[j].version IN
             \/ Transition(j, "READY", version, None, None)
             \/ \E worker \in Workers : Transition(j, "CLAIMED", version, worker, None)
             \/ \E worker \in Workers : Transition(j, "GATING", version, worker, None)
             \/ Checkpoint(j, version, OtherRef)
  /\ UNCHANGED <<calls, ghostVars>>

(* The job transitions of the closeout: _promotion_stage and execute_next. *)
Closeout(j) ==
  /\ jobs[j] # None
  /\ \/ /\ jobs[j].state = "VERIFYING"
        /\ Transition(j, "REVIEW_PENDING", jobs[j].version, None, None)
     \/ /\ jobs[j].state = "REVIEW_PENDING"
        /\ Transition(j, "COMPLETE", jobs[j].version, None, None)
  /\ UNCHANGED <<calls, ghostVars>>

(* A database error raised through the call, or the end of its process *)
Abort(d) ==
  /\ UnderWay(d)
  /\ Raise(d)
  /\ UNCHANGED <<jobs, metas, ghostVars>>

(* What a lost call had started ends by itself. *)
OrphanEnds(j, attempt) ==
  /\ <<j, attempt>> \in running
  /\ ~ \E d \in Callers : calls[d].at = "backend" /\ calls[d].job = j
  /\ running' = running \ {<<j, attempt>>}
  /\ UNCHANGED <<jobs, metas, calls, launched, done>>

DispatchInit ==
  /\ JobsInit
  /\ calls = [d \in Callers |-> NoCall]
  /\ running = {}
  /\ launched = [j \in Jobs |-> 0]
  /\ done = [j \in Jobs |-> 0]

DispatchNext ==
  \/ \E d \in Callers :
       \/ \E req \in Requests, allowed \in BOOLEAN : Dispatch(d, req, allowed)
       \/ Load(d) \/ Create(d) \/ ReadEvents(d) \/ Reread(d) \/ RecordMetadata(d)
       \/ MarkReady(d) \/ Claim(d) \/ Block(d) \/ Gate(d)
       \/ Precheck(d) \/ BeginExecuting(d) \/ Launch(d)
       \/ BackendSucceeds(d) \/ BackendLost(d)
       \/ \E classification \in Failures : BackendReports(d, classification)
       \/ Recover(d) \/ RecordCompletion(d) \/ BeginVerifying(d)
       \/ \E j \in Jobs, worker \in Workers : OperatorExecute(d, j, worker)
       \/ Abort(d)
  \/ \E j \in Jobs :
       \/ OperatorRequests(j)
       \/ Closeout(j)
       \/ \E attempt \in 0..MaxVersion : OrphanEnds(j, attempt)

DispatchSpec == DispatchInit /\ [][DispatchNext]_dispatchVars

-------------------------------------------------------------------------------
DispatchTypeOK ==
  /\ JobsTypeOK
  /\ \A d \in Callers :
       /\ calls[d].at \in Steps \cup {"idle", "released"}
       /\ UnderWay(d) => /\ calls[d].job \in Jobs
                         /\ calls[d].req \in Requests \cup {None}
                         /\ calls[d].row \in JobRow \cup {None}
  /\ running \subseteq Jobs \X (0..MaxVersion)

(***************************************************************************)
(* Two executions of one job are never under way together, whichever calls *)
(* raced for the job, died in the middle of it or lost sight of its         *)
(* backend: EXECUTING and an UNKNOWN recovery are left by nobody who        *)
(* could start the job again.                                               *)
(***************************************************************************)
OneBackendPerJob ==
  \A j \in Jobs : Cardinality({r \in running : r[1] = j}) <= 1

(***************************************************************************)
(* max_attempts bounds what was really started, over all calls, recoveries  *)
(* and operators: the budget is spent by the transition to EXECUTING that   *)
(* comes before the backend, not by what is recorded after it.              *)
(***************************************************************************)
BudgetRespected ==
  \A j \in Jobs : launched[j] <= IF jobs[j] = None THEN 0 ELSE jobs[j].max

(***************************************************************************)
(* While a call is in its backend, the stored job is EXECUTING for that     *)
(* worker and attempt: nobody takes the job away under a running backend.   *)
(***************************************************************************)
BackendOwnsJob ==
  \A d \in Callers : calls[d].at \in {"launch", "backend"} =>
    LET row == jobs[calls[d].job] IN
      /\ row.state = "EXECUTING"
      /\ row.worker = calls[d].worker
      /\ row.attempts = calls[d].row.attempts

(***************************************************************************)
(* A dispatch reaches its backend only for a job whose one recorded         *)
(* dispatch metadata is that of its own request: worker, operation, mode    *)
(* and terms are the recorded ones even when two different requests for the *)
(* same node raced to create the job.                                       *)
(***************************************************************************)
RecordedRequestOnly ==
  \A d \in Callers :
    calls[d].at \in {"launch", "backend"} /\ IsDispatch(calls[d]) =>
      metas[calls[d].job] = <<calls[d].req.ref>>

(***************************************************************************)
(* A job that is to be verified, reviewed or complete has the checkpoint of *)
(* a successful backend for its last attempt.                               *)
(***************************************************************************)
VerifiedByEvidence ==
  \A j \in Jobs :
    jobs[j] # None /\ jobs[j].state \in {"VERIFYING", "REVIEW_PENDING", "COMPLETE"} =>
      jobs[j].attempts >= 1 /\ done[j] = jobs[j].attempts

(***************************************************************************)
(* Between dispatchers, operators and backends that may get lost: one       *)
(* execution of a job at a time and within its attempts, by the caller the  *)
(* store names, for the recorded request, verified only on evidence.        *)
(***************************************************************************)
DispatchSafety ==
  /\ DispatchTypeOK
  /\ OneBackendPerJob
  /\ BudgetRespected
  /\ BackendOwnsJob
  /\ RecordedRequestOnly
  /\ VerifiedByEvidence

(***************************************************************************)
(* An answer that lets the batch give the provider admission back is given  *)
(* only when no execution of the job is under way, so that the provider's   *)
(* concurrency limit counts everything that runs.                           *)
(***************************************************************************)
SafeAnswers ==
  [][\A d \in Callers :
       UnderWay(d) /\ calls'[d].at = "released" =>
         ~ \E r \in running' : r[1] = calls[d].job]_dispatchVars

===============================================================================
