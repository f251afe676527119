------------------------------ MODULE DurableJobs ------------------------------
(***************************************************************************)
(* The durable job of job_state.py and job_store.py: one row per job with a *)
(* version, changed by transitions and checkpoints that must name the       *)
(* version they were decided on.  Every operation is one BEGIN IMMEDIATE    *)
(* transaction that also appends exactly one event, so the version of a job *)
(* is the length of its event list; of the events only the dispatch         *)
(* metadata, which graph/dispatch.py reads back, is kept here.              *)
(***************************************************************************)
EXTENDS Integers, Sequences

CONSTANTS
  Jobs,        \* job_id values
  Workers,     \* worker_id values
  Terms,       \* work_order_ref and project_id of a job
  Budgets,     \* max_attempts values
  Refs,        \* metadata refs of dispatch requests
  OtherRef,    \* any other checkpoint_ref
  MaxVersion,  \* bound on the versions, for model checking
  None         \* SQL NULL, or no row

VARIABLES
  jobs,   \* job_records
  metas   \* per job, the dispatch metadata refs among its events, in order

jobVars == <<jobs, metas>>

Terminal == {"COMPLETE", "FAILED", "CANCELLED"}
TaskState ==
  {"NEW", "PLANNING", "READY", "CLAIMED", "GATING", "EXECUTING", "VERIFYING",
   "REVIEW_PENDING", "CHANGES_REQUIRED", "REPAIRING", "BLOCKED",
   "RECOVERY_NEEDED"} \cup Terminal

RecoveryClassification ==
  {"NO_MUTATION", "PARTIAL_MUTATION", "MUTATION_COMPLETE_UNVERIFIED",
   "COMPLETE_VERIFIED", "UNEXPECTED_DRIFT", "UNKNOWN"}

JobRow ==
  [terms: Terms, max: Budgets, state: TaskState, worker: Workers \cup {None},
   attempts: Nat, recovery: RecoveryClassification \cup {None}, version: Nat]

ASSUME JobsAssumption ==
  /\ Budgets \subseteq Nat \ {0}
  /\ MaxVersion \in Nat \ {0}
  /\ None \notin Workers
  /\ None \notin RecoveryClassification
  /\ None \notin JobRow
  /\ OtherRef \notin Refs

-------------------------------------------------------------------------------
(* plan_job_transition *)

AllowedTransitions(state) ==
  CASE state = "NEW"              -> {"PLANNING", "READY", "BLOCKED", "CANCELLED"}
    [] state = "PLANNING"         -> {"READY", "BLOCKED", "FAILED", "CANCELLED"}
    [] state = "READY"            -> {"CLAIMED", "BLOCKED", "CANCELLED"}
    [] state = "CLAIMED"          -> {"GATING", "READY", "BLOCKED", "CANCELLED"}
    [] state = "GATING"           -> {"EXECUTING", "BLOCKED", "RECOVERY_NEEDED",
                                      "FAILED", "CANCELLED"}
    [] state = "EXECUTING"        -> {"VERIFYING", "RECOVERY_NEEDED", "FAILED", "CANCELLED"}
    [] state = "VERIFYING"        -> {"REVIEW_PENDING", "CHANGES_REQUIRED", "COMPLETE",
                                      "RECOVERY_NEEDED", "FAILED"}
    [] state = "REVIEW_PENDING"   -> {"COMPLETE", "CHANGES_REQUIRED", "BLOCKED", "FAILED"}
    [] state = "CHANGES_REQUIRED" -> {"REPAIRING", "CANCELLED"}
    [] state = "REPAIRING"        -> {"VERIFYING", "RECOVERY_NEEDED", "FAILED", "CANCELLED"}
    [] state = "BLOCKED"          -> {"READY", "FAILED", "CANCELLED"}
    [] OTHER                      -> {}

RecoveryTarget(classification) ==
  CASE classification = "NO_MUTATION"                  -> "READY"
    [] classification = "PARTIAL_MUTATION"             -> "GATING"
    [] classification = "MUTATION_COMPLETE_UNVERIFIED" -> "VERIFYING"
    [] classification = "COMPLETE_VERIFIED"            -> "REVIEW_PENDING"
    [] OTHER                                           -> "BLOCKED"

ReleaseClaim == {"READY", "BLOCKED"} \cup Terminal

(* Mutant: a claimed job can be claimed again. *)
MayTransitionReclaims(row, target, worker, recovery) ==
  /\ row.state \notin Terminal
  /\ IF row.state = "RECOVERY_NEEDED"
       THEN target = RecoveryTarget(row.recovery)
       ELSE /\ \/ target \in AllowedTransitions(row.state)
               \/ row.state = "CLAIMED" /\ target = "CLAIMED"
            /\ IF target = "CLAIMED" THEN worker # None
                                     ELSE worker # None => worker = row.worker
            /\ (target = "RECOVERY_NEEDED") = (recovery # None)
  /\ target = "EXECUTING" => row.attempts < row.max

(* The worker and the classification are those the caller passes, or None. *)
MayTransition(row, target, worker, recovery) ==
  /\ row.state \notin Terminal
  /\ IF row.state = "RECOVERY_NEEDED"
       THEN /\ target = RecoveryTarget(row.recovery)
            /\ (worker # None /\ row.worker # None) => worker = row.worker
       ELSE /\ target \in AllowedTransitions(row.state)
            /\ IF target = "CLAIMED" THEN worker # None
                                     ELSE worker # None => worker = row.worker
            /\ (target = "RECOVERY_NEEDED") = (recovery # None)
  /\ target = "EXECUTING" => row.attempts < row.max

(* Mutant: the claim outlives a return to READY. *)
PlanTransitionKeepsClaim(row, target, worker, recovery) ==
  [row EXCEPT !.state = target,
              !.worker = IF target = "CLAIMED" THEN worker ELSE @,
              !.attempts = IF target = "EXECUTING" THEN @ + 1 ELSE @,
              !.recovery = IF target = "RECOVERY_NEEDED" THEN recovery ELSE None,
              !.version = @ + 1]

PlanTransition(row, target, worker, recovery) ==
  [row EXCEPT !.state = target,
              !.worker = IF target \in ReleaseClaim THEN None
                         ELSE IF target = "CLAIMED" THEN worker ELSE @,
              !.attempts = IF target = "EXECUTING" THEN @ + 1 ELSE @,
              !.recovery = IF target = "RECOVERY_NEEDED" THEN recovery ELSE None,
              !.version = @ + 1]

-------------------------------------------------------------------------------
(* SQLiteJobStore *)

NewJob(terms, max) ==
  [terms |-> terms, max |-> max, state |-> "NEW", worker |-> None,
   attempts |-> 0, recovery |-> None, version |-> 1]

CreateJob(j, terms, max) ==
  /\ jobs[j] = None
  /\ jobs' = [jobs EXCEPT ![j] = NewJob(terms, max)]
  /\ UNCHANGED metas

(* Mutant: the version the caller decided on is not compared. *)
VersionHoldsAny(j, version) == jobs[j] # None /\ jobs[j].version < MaxVersion

VersionHolds(j, version) ==
  jobs[j] # None /\ jobs[j].version = version /\ version < MaxVersion

Transition(j, target, version, worker, recovery) ==
  /\ VersionHolds(j, version)
  /\ MayTransition(jobs[j], target, worker, recovery)
  /\ jobs' = [jobs EXCEPT ![j] = PlanTransition(jobs[j], target, worker, recovery)]
  /\ UNCHANGED metas

Checkpoint(j, version, ref) ==
  /\ VersionHolds(j, version)
  /\ jobs[j].state \notin Terminal
  /\ jobs' = [jobs EXCEPT ![j].version = @ + 1]
  /\ metas' = IF ref \in Refs THEN [metas EXCEPT ![j] = Append(@, ref)] ELSE metas

JobsInit ==
  /\ jobs = [j \in Jobs |-> None]
  /\ metas = [j \in Jobs |-> <<>>]

(* Any program that holds the store, with any version it may remember. *)
JobsNext ==
  \E j \in Jobs, version \in 1..MaxVersion :
    \/ \E terms \in Terms, max \in Budgets : CreateJob(j, terms, max)
    \/ \E target \in TaskState, worker \in Workers \cup {None},
          recovery \in RecoveryClassification \cup {None} :
         Transition(j, target, version, worker, recovery)
    \/ \E ref \in Refs \cup {OtherRef} : Checkpoint(j, version, ref)

JobsSpec == JobsInit /\ [][JobsNext]_jobVars

-------------------------------------------------------------------------------
(***************************************************************************)
(* Every row the store writes can be read back: JobRuntimeState accepts it, *)
(* so no sequence of legal calls ends in JOB_RECORD_INVALID, after which    *)
(* the job could neither be inspected nor moved again.                      *)
(***************************************************************************)
RowsReadable ==
  \A j \in Jobs : jobs[j] # None =>
    /\ jobs[j].attempts <= jobs[j].max
    /\ jobs[j].version >= 1
    /\ (jobs[j].state = "RECOVERY_NEEDED") = (jobs[j].recovery # None)

JobsTypeOK ==
  /\ jobs \in [Jobs -> JobRow \cup {None}]
  /\ metas \in [Jobs -> Seq(Refs)]

(***************************************************************************)
(* A job has a worker exactly in the states in which                        *)
(* _dispatch_job_matches_task of parallel_ready_execution.py expects the    *)
(* lease's worker on it; in every other state it has none.                  *)
(***************************************************************************)
WorkerBound ==
  {"CLAIMED", "GATING", "EXECUTING", "VERIFYING", "REVIEW_PENDING",
   "CHANGES_REQUIRED", "REPAIRING", "RECOVERY_NEEDED"}
ClaimMatchesState ==
  \A j \in Jobs :
    jobs[j] # None => (jobs[j].state \in WorkerBound) = (jobs[j].worker # None)

(***************************************************************************)
(* What every reader of the job store may rely on, whoever writes to it.    *)
(***************************************************************************)
JobsSafety == JobsTypeOK /\ RowsReadable /\ ClaimMatchesState

(***************************************************************************)
(* A claim is never handed from one worker to another: it ends before the   *)
(* next one begins, and what was attempted stays counted across it.         *)
(***************************************************************************)
ClaimNeverPassesOn ==
  [][\A j \in Jobs : jobs[j] # None =>
       /\ jobs'[j] # None
       /\ jobs'[j].attempts >= jobs[j].attempts
       /\ (jobs[j].worker # None /\ jobs'[j].worker # None) =>
            jobs'[j].worker = jobs[j].worker]_jobVars

===============================================================================
