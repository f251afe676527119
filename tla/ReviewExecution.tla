---------------------------- MODULE ReviewExecution ----------------------------
(***************************************************************************)
(* Execution of one direct review: execute_review_dispatch,                *)
(* ReviewerExecutionBackend and reconcile_review_execution of              *)
(* zero_relay_review_execution.py with the promotion of                    *)
(* zero_relay_review_verification.py.  Several dispatches (attempts) of    *)
(* one review contract share the fingerprint of the execution and the      *)
(* owner keys of the lease; each has its own durable job and admission.    *)
(* Every call of a store is a step of its own, and a call's process may    *)
(* die between any two of them.                                            *)
(***************************************************************************)
EXTENDS Naturals, Sequences, FiniteSets

CONSTANTS
  Callers,       \* processes that call execute_review_dispatch
  Dispatches,    \* dispatch_execution_ids of one review contract
  Target,        \* the dispatches that a caller may request
  Reviewer,      \* the reviewer's worker of a dispatch
  MaxLeases,     \* bound: leases taken under the review's owner keys
  MaxGeneration, \* bound: generations of the provider's configuration
  MaxRequests,   \* bound: calls made by all callers together
  Prompt,        \* whether every call ends before the lease it took expires
  Faults,        \* which faults happen
  None

VARIABLES
  jobs,       \* state of the durable job of each dispatch
  leases,     \* leases under the owner keys, oldest first
  admissions, \* the one admission of each dispatch, or None
  records,    \* durable execution records with the plan's fingerprint
  generation, \* the provider's current configuration generation
  calls,      \* per caller, the call under way or its answer
  requests    \* calls made so far

reviewVars == <<jobs, leases, admissions, records, generation, calls, requests>>

ReviewAssumption ==
  /\ Target \in [Callers -> SUBSET Dispatches]
  /\ DOMAIN Reviewer = Dispatches
  /\ MaxLeases \in Nat /\ MaxGeneration \in Nat /\ MaxRequests \in Nat
  /\ Prompt \in BOOLEAN
  /\ Faults \subseteq {"crash", "drift", "error", "lost", "runner", "stale"}

Live == {"RUNNING"}
Usable == {"SUCCEEDED", "VERIFICATION_REQUIRED"}
RecordStates == Live \cup Usable \cup {"FAILED", "UNKNOWN"}
JobStates == {"NEW", "GATING", "EXECUTING", "VERIFYING", "RECOVERY_NEEDED"}
Steps ==
  {"classify", "winner", "dispatch", "claim", "lease", "admit", "prelaunch", "run",
   "await", "post", "failed", "complete", "again", "unusable", "norecord", "reconcile",
   "identity", "resources", "verify", "admission", "unlease"}
Outcomes ==
  {"EXECUTED", "REUSE_COMPLETED", "ATTACH_RUNNING", "RECOVERY_REQUIRED", "REFUSED",
   "NOT_ATTEMPTED_CLEANED", "CRASHED"}

(* gen: the snapshot's generation; lease: backend.last_lease_id; job: the   *)
(* job of the dispatch result; seen: the chosen record; pin: the promotion  *)
(* identity; free and unlock: the resources to release, and then what.      *)
NoCall ==
  [at |-> "idle", d |-> None, gen |-> 0, lease |-> 0, failure |-> FALSE, job |-> None,
   seen |-> None, pin |-> None, free |-> FALSE, unlock |-> 0, then |-> None]

UnderWay(c) == calls[c].at \in Steps
Goto(c, step) == calls' = [calls EXCEPT ![c].at = step]
Answer(c, outcome) == calls' = [calls EXCEPT ![c].at = outcome]
Fault(kind) == kind \in Faults

-------------------------------------------------------------------------------
(* Equivalent executions *)

(* classify_equivalent_executions *)
Kind(d) ==
  IF records = <<>> THEN "CANDIDATE"
  ELSE IF \/ \E r \in DOMAIN records :
               \/ Reviewer[records[r].by] # Reviewer[d]
               \/ records[r].state = "UNKNOWN"
          \/ Len(records) > 1
  THEN "RECOVERY"
  ELSE IF records[1].state \in Live THEN "ATTACH"
  ELSE IF records[1].state \in Usable THEN "REUSE"
  ELSE "UNUSABLE"

(* The lease that find_active_owner_task returns, or 0 *)
HeldLease ==
  IF \E l \in DOMAIN leases : leases[l].open
  THEN CHOOSE l \in DOMAIN leases : leases[l].open ELSE 0

(* _find_held_admission_readonly: a row of another generation is an error. *)
AdmissionReadable(c) ==
  LET a == admissions[calls[c].d] IN a # None => a.gen = calls[c].gen
AdmissionOpen(d) == admissions[d] # None /\ admissions[d].open


(* _owner_key_lease_is_exact_bound *)
ExactBound(c, l) == l # 0 /\ l = calls[c].lease

-------------------------------------------------------------------------------
(* execute_review_dispatch *)

(* The provider snapshot that the call is given, and plan_reviewer_execution *)
Request(c, d) ==
  /\ ~UnderWay(c) /\ requests < MaxRequests
  /\ requests' = requests + 1
  /\ calls' = [calls EXCEPT ![c] =
       [NoCall EXCEPT !.at = "classify", !.d = d, !.gen = generation]]
  /\ UNCHANGED <<jobs, leases, admissions, records, generation>>

Classify(c) ==
  LET call == calls[c]  kind == Kind(call.d) IN
  /\ call.at = "classify"
  /\ IF kind # "REUSE" /\ generation # call.gen THEN Answer(c, "RECOVERY_REQUIRED")
     ELSE CASE kind = "UNUSABLE"  -> Goto(c, "unusable")
            [] kind = "RECOVERY"  -> Answer(c, "RECOVERY_REQUIRED")
            [] kind = "ATTACH"    -> Answer(c, "ATTACH_RUNNING")
            [] kind = "REUSE"     ->
                 Goto(c, IF records[1].state = "SUCCEEDED" THEN "reconcile" ELSE "winner")
            [] kind = "CANDIDATE" -> Goto(c, "dispatch")
  /\ UNCHANGED <<jobs, leases, admissions, records, generation, requests>>

(* _winner_may_be_active: an unreadable job counts as active. *)
Winner(c) ==
  /\ calls[c].at = "winner"
  /\ \/ jobs[calls[c].d] = "EXECUTING" /\ Answer(c, "RECOVERY_REQUIRED")
     \/ jobs[calls[c].d] # "EXECUTING" /\ Goto(c, "reconcile")
     \/ Fault("error") /\ Answer(c, "RECOVERY_REQUIRED")
  /\ UNCHANGED <<jobs, leases, admissions, records, generation, requests>>

Reconciled(c, job) ==
  calls' = [calls EXCEPT ![c].at = "again", ![c].job = job]

(* GraphDispatchCoordinator.dispatch up to the job's row; the gate may      *)
(* refuse, and leaves the job blocked but not started.                      *)
Dispatch(c) ==
  LET job == jobs[calls[c].d] IN
  /\ calls[c].at = "dispatch"
  /\ \/ job \in {"NEW", "GATING"} /\ calls' = [calls EXCEPT ![c].at = "claim", ![c].job = job]
     \/ job \in {"NEW", "GATING"} /\ Answer(c, "REFUSED")
     \/ job \in {"EXECUTING", "RECOVERY_NEEDED"} /\ Reconciled(c, job)
     \/ job = "VERIFYING" /\ Goto(c, "reconcile")
  /\ UNCHANGED <<jobs, leases, admissions, records, generation, requests>>

(* The versioned transitions up to GATING, and GATING -> EXECUTING; a       *)
(* conflict is answered with the row as it is then.                         *)
Claim(c) ==
  LET call == calls[c] IN
  /\ call.at = "claim"
  /\ IF jobs[call.d] # call.job THEN Reconciled(c, jobs[call.d]) /\ UNCHANGED jobs
     ELSE IF call.job = "NEW"
     THEN /\ jobs' = [jobs EXCEPT ![call.d] = "GATING"]
          /\ calls' = [calls EXCEPT ![c].job = "GATING"]
     ELSE /\ jobs' = [jobs EXCEPT ![call.d] = "EXECUTING"]
          /\ Goto(c, "lease")
  /\ UNCHANGED <<leases, admissions, records, generation, requests>>

-------------------------------------------------------------------------------
(* ReviewerExecutionBackend.execute *)

(* Release these, then go on as "then" says; 0 is no lease. *)
Free(c, adm, l, then) ==
  calls' = [calls EXCEPT ![c].at = "admission", ![c].free = adm, ![c].unlock = l,
                         ![c].then = then]

(* An error before the runner was invoked: _cleanup_best_effort *)
GiveUp(c, adm) == Free(c, adm, calls[c].lease, "failed")

(* _acquire_lease: EXISTING is refused, WAIT is an error, too. *)
AcquireLease(c) ==
  /\ calls[c].at = "lease"
  /\ \/ /\ HeldLease = 0 /\ Len(leases) < MaxLeases
        /\ leases' = Append(leases, [by |-> calls[c].d, open |-> TRUE, ender |-> None])
        /\ calls' = [calls EXCEPT ![c].at = "admit", ![c].lease = Len(leases')]
     \/ GiveUp(c, FALSE) /\ UNCHANGED leases
  /\ UNCHANGED <<jobs, admissions, records, generation, requests>>

(* _acquire_admission: one row per dispatch for ever, so that a released    *)
(* one is refused; there may be no capacity.                                *)
AcquireAdmission(c) ==
  LET d == calls[c].d IN
  /\ calls[c].at = "admit"
  /\ \/ /\ generation = calls[c].gen
        /\ IF admissions[d] = None
           THEN admissions' = [admissions EXCEPT ![d] = [open |-> TRUE, gen |-> generation]]
           ELSE /\ admissions[d] = [open |-> TRUE, gen |-> generation]
                /\ UNCHANGED admissions
        /\ Goto(c, "prelaunch")
     \/ GiveUp(c, FALSE) /\ UNCHANGED admissions
  /\ UNCHANGED <<jobs, leases, records, generation, requests>>

(* The runner is built; a drifted plan or an equivalent execution stops it. *)
PreLaunch(c) ==
  /\ calls[c].at = "prelaunch"
  /\ \/ Kind(calls[c].d) = "CANDIDATE" /\ Goto(c, "run")
     \/ GiveUp(c, TRUE)
  /\ UNCHANGED <<jobs, leases, admissions, records, generation, requests>>

(* runner.run creates the record and starts the agent, attaches to the one  *)
(* its own duplicate guard finds, or raises first.                          *)
Run(c) ==
  LET call == calls[c] IN
  /\ call.at = "run"
  /\ \/ /\ records = <<>>
        /\ records' = Append(records,
             [state |-> "RUNNING", pin |-> None, valid |-> FALSE, by |-> call.d,
              lease |-> call.lease])
        /\ Goto(c, "await")
     \/ records # <<>> /\ Goto(c, "await") /\ UNCHANGED records
     \/ Fault("runner") /\ Goto(c, "failed") /\ UNCHANGED records
  /\ UNCHANGED <<jobs, leases, admissions, generation, requests>>

(* The result of the run, or a timeout: then the child may still run. *)
Await(c) ==
  /\ calls[c].at = "await"
  /\ \/ /\ \A r \in DOMAIN records : records[r].state \notin Live
        /\ Goto(c, "post")
     \/ Fault("runner") /\ Goto(c, "failed")
  /\ UNCHANGED <<jobs, leases, admissions, records, generation, requests>>

(* Exactly one record, and it is this plan's *)
PostRun(c) ==
  LET call == calls[c]  kind == Kind(call.d) IN
  /\ call.at = "post"
  /\ IF kind = "REUSE"
     THEN calls' = [calls EXCEPT ![c].at = "verify", ![c].seen = records[1],
            ![c].pin = [d |-> call.d, lease |-> call.lease, gen |-> call.gen],
            ![c].then = "complete"]
     ELSE IF kind = "UNUSABLE" THEN Free(c, TRUE, call.lease, "failed")
     ELSE Goto(c, "failed")
  /\ UNCHANGED <<jobs, leases, admissions, records, generation, requests>>

-------------------------------------------------------------------------------
(* Verification, release of the resources, and the job's end *)

(* Mutant: a run that can not be verified leaves its resources to recovery. *)
UnprovenKeeps(c) ==
  IF calls[c].then = "complete" THEN Goto(c, "failed")
  ELSE Answer(c, "RECOVERY_REQUIRED")

(* Where a verification that fails leaves *)
Unproven(c) ==
  IF calls[c].then = "complete" THEN Free(c, TRUE, calls[c].lease, "failed")
  ELSE Answer(c, "RECOVERY_REQUIRED")

(* verify_review_execution_for_promotion: the record is as it was read, its *)
(* artifacts agree, and it is promoted by version with the resource         *)
(* identity (none: a reference that names the execution only).              *)
Verify(c) ==
  LET call == calls[c]
      proven == records[1] = call.seen /\ call.seen.valid
  IN
  /\ call.at = "verify"
  /\ \/ /\ proven
        /\ records' = IF call.seen.state = "SUCCEEDED" THEN records
                      ELSE [records EXCEPT ![1].state = "SUCCEEDED", ![1].pin = call.pin]
        /\ Free(c, TRUE, IF call.pin = None THEN call.unlock ELSE call.pin.lease, call.then)
     \/ ~proven /\ Unproven(c) /\ UNCHANGED records
     \/ Fault("error") /\ Unproven(c) /\ UNCHANGED records
  /\ UNCHANGED <<jobs, leases, admissions, generation, requests>>

(* Where a failed release leaves; the cleanup without a record goes on.     *)
Unreleased(c) ==
  CASE calls[c].then \in {"complete", "failed"} -> Goto(c, "failed")
    [] calls[c].then = "cleaned" /\ calls[c].at = "admission" ->
         calls' = [calls EXCEPT ![c].at = "unlease", ![c].then = "recovery"]
    [] OTHER -> Answer(c, "RECOVERY_REQUIRED")

(* _release_admission_terminal: NOT_ACTIVE is proven by the row that is     *)
(* read again.  An error may come before or after the effect.               *)
ReleaseAdmission(c) ==
  LET call == calls[c]
      released == [admissions EXCEPT ![call.d].open = FALSE]
  IN
  /\ call.at = "admission"
  /\ IF ~call.free \/ admissions[call.d] = None
     THEN Goto(c, "unlease") /\ UNCHANGED admissions
     ELSE \/ admissions' = released /\ Goto(c, "unlease")
          \/ Fault("error") /\ Unreleased(c) /\ UNCHANGED admissions
          \/ Fault("lost") /\ admissions' = released /\ Unreleased(c)
  /\ UNCHANGED <<jobs, leases, records, generation, requests>>

(* _release_lease_terminal: released now, or released already *)
ReleaseLease(c) ==
  LET call == calls[c]  l == call.unlock
      released == IF l = 0 THEN leases ELSE IF ~leases[l].open THEN leases
                  ELSE [leases EXCEPT ![l].open = FALSE, ![l].ender = call.d]
      next == CASE call.then = "complete" -> Goto(c, "complete")
                [] call.then = "failed"   -> Goto(c, "failed")
                [] call.then = "reuse"    -> Answer(c, "REUSE_COMPLETED")
                [] call.then = "cleaned"  -> Answer(c, "NOT_ATTEMPTED_CLEANED")
                [] OTHER                  -> Answer(c, "RECOVERY_REQUIRED")
  IN
  /\ call.at = "unlease"
  /\ \/ leases' = released /\ next
     \/ Fault("error") /\ l # 0 /\ Unreleased(c) /\ UNCHANGED leases
     \/ Fault("lost") /\ l # 0 /\ leases' = released /\ Unreleased(c)
  /\ UNCHANGED <<jobs, admissions, records, generation, requests>>

(* A JobBackendResult without success: RECOVERY_NEEDED with UNKNOWN *)
Failed(c) ==
  LET call == calls[c] IN
  /\ call.at = "failed"
  /\ jobs' = [jobs EXCEPT ![call.d] = "RECOVERY_NEEDED"]
  /\ calls' = [calls EXCEPT ![c].at = "again", ![c].failure = TRUE,
                            ![c].job = "RECOVERY_NEEDED"]
  /\ UNCHANGED <<leases, admissions, records, generation, requests>>

(* The completion's checkpoint and VERIFYING; an operator's checkpoint in   *)
(* between makes it a conflict.                                             *)
Complete(c) ==
  LET call == calls[c] IN
  /\ call.at = "complete"
  /\ \/ jobs' = [jobs EXCEPT ![call.d] = "VERIFYING"] /\ Answer(c, "EXECUTED")
     \/ Fault("error") /\ Reconciled(c, jobs[call.d]) /\ UNCHANGED jobs
  /\ UNCHANGED <<leases, admissions, records, generation, requests>>

(* After GraphDispatchAction.RECONCILE *)
Again(c) ==
  LET call == calls[c]  kind == Kind(call.d) IN
  /\ call.at = "again"
  /\ CASE kind = "REUSE"     -> IF call.failure THEN Answer(c, "RECOVERY_REQUIRED")
                                ELSE Goto(c, IF records[1].state = "SUCCEEDED"
                                             THEN "reconcile" ELSE "winner")
       [] kind = "UNUSABLE"  -> Goto(c, "unusable")
       [] kind = "CANDIDATE" -> IF call.job = "EXECUTING" THEN Answer(c, "RECOVERY_REQUIRED")
                                ELSE Goto(c, "norecord")
       [] OTHER              -> Answer(c, "RECOVERY_REQUIRED")
  /\ UNCHANGED <<jobs, leases, admissions, records, generation, requests>>

-------------------------------------------------------------------------------
(* reconcile_review_execution *)

(* _terminal_unusable_cleanup *)
CleanUnusable(c) ==
  /\ calls[c].at = "unusable"
  /\ \/ /\ AdmissionReadable(c)
        /\ Free(c, AdmissionOpen(calls[c].d),
                IF ExactBound(c, HeldLease) THEN HeldLease ELSE 0, "recovery")
     \/ ~AdmissionReadable(c) /\ Answer(c, "RECOVERY_REQUIRED")
     \/ Fault("error") /\ Answer(c, "RECOVERY_REQUIRED")
  /\ UNCHANGED <<jobs, leases, admissions, records, generation, requests>>

(* _cleanup_held_resources_without_record: a lease that is not exactly the  *)
(* call's own stays, and so does the need of recovery.                      *)
CleanWithoutRecord(c) ==
  LET l == HeldLease IN
  /\ calls[c].at = "norecord"
  /\ \/ /\ AdmissionReadable(c)
        /\ Free(c, AdmissionOpen(calls[c].d), IF ExactBound(c, l) THEN l ELSE 0,
                IF l = 0 \/ ExactBound(c, l) THEN "cleaned" ELSE "recovery")
     \/ ~AdmissionReadable(c) /\ Answer(c, "RECOVERY_REQUIRED")
     \/ Fault("error") /\ Answer(c, "RECOVERY_REQUIRED")
  /\ UNCHANGED <<jobs, leases, admissions, records, generation, requests>>

(* The records are classified again. *)
Reconcile(c) ==
  LET kind == Kind(calls[c].d) IN
  /\ calls[c].at = "reconcile"
  /\ CASE kind = "ATTACH"   -> Answer(c, "ATTACH_RUNNING")
       [] kind = "UNUSABLE" -> Goto(c, "unusable")
       [] kind = "REUSE"    ->
            calls' = [calls EXCEPT ![c].at = "identity", ![c].seen = records[1],
                                   ![c].then = "reuse"]
       [] OTHER             -> Answer(c, "RECOVERY_REQUIRED")
  /\ UNCHANGED <<jobs, leases, admissions, records, generation, requests>>

(* resolve_promotion_resource_identity, _cross_bind_promotion_identity *)
ResolveIdentity(c) ==
  LET call == calls[c]  pin == records[1].pin IN
  /\ call.at = "identity"
  /\ \/ IF pin # None /\ ~(pin.d = call.d /\ pin.gen = call.gen)
        THEN Answer(c, "RECOVERY_REQUIRED")
        ELSE calls' = [calls EXCEPT ![c].at = "resources", ![c].pin = pin]
     \/ Fault("error") /\ Answer(c, "RECOVERY_REQUIRED")
  /\ UNCHANGED <<jobs, leases, admissions, records, generation, requests>>

(* The admission and the lease, by identity or by the keys: a lease found   *)
(* by its keys only stays, and the dispatch's own admission is released.    *)
ResolveResources(c) ==
  LET call == calls[c]  a == admissions[call.d]  l == HeldLease IN
  /\ call.at = "resources"
  /\ \/ IF call.pin # None
        THEN IF a # None /\ (l = 0 \/ l = call.pin.lease)
             THEN Goto(c, "verify") ELSE Answer(c, "RECOVERY_REQUIRED")
        ELSE IF a = None \/ ~AdmissionReadable(c) THEN Answer(c, "RECOVERY_REQUIRED")
        ELSE IF ExactBound(c, l)
             THEN calls' = [calls EXCEPT ![c].at = "verify", ![c].unlock = l]
             ELSE Free(c, a.open, 0, "recovery")
     \/ Fault("error") /\ Answer(c, "RECOVERY_REQUIRED")
  /\ UNCHANGED <<jobs, leases, admissions, records, generation, requests>>

-------------------------------------------------------------------------------
(* The rest of the world *)

(* The agent's process ends, whether its caller still waits or not. *)
RunEnds(r) ==
  /\ records[r].state = "RUNNING"
  /\ \E state \in {"VERIFICATION_REQUIRED", "FAILED", "UNKNOWN"}, valid \in BOOLEAN :
       /\ state = "UNKNOWN" => Fault("runner")
       /\ valid => state = "VERIFICATION_REQUIRED"
       /\ records' = [records EXCEPT ![r].state = state, ![r].valid = valid]
  /\ UNCHANGED <<jobs, leases, admissions, generation, calls, requests>>

(* The provider's configuration is edited. *)
Drift ==
  /\ Fault("drift") /\ generation < MaxGeneration
  /\ generation' = generation + 1
  /\ UNCHANGED <<jobs, leases, admissions, records, calls, requests>>

(* WorkerLeaseStore's reconcile_stale: the lease is expired and its runtime *)
(* is observed not to run.  It does not ask whether the call that took the  *)
(* lease is over; a prompt call is, because the lease has not expired       *)
(* before.                                                                  *)
StaleLease ==
  LET l == HeldLease IN
  /\ Fault("stale") /\ l # 0
  /\ Prompt => \A c \in Callers : UnderWay(c) => calls[c].lease # l
  /\ \A r \in DOMAIN records : records[r].state \notin Live
  /\ leases' = [leases EXCEPT ![l].open = FALSE, ![l].ender = "stale"]
  /\ UNCHANGED <<jobs, admissions, records, generation, calls, requests>>

Crash(c) ==
  /\ Fault("crash") /\ UnderWay(c)
  /\ Answer(c, "CRASHED")
  /\ UNCHANGED <<jobs, leases, admissions, records, generation, requests>>

-------------------------------------------------------------------------------
ReviewInit ==
  /\ jobs = [d \in Dispatches |-> "NEW"]
  /\ leases = <<>> /\ records = <<>>
  /\ admissions = [d \in Dispatches |-> None]
  /\ generation = 1 /\ requests = 0
  /\ calls = [c \in Callers |-> NoCall]

CallStep(c) ==
  \/ Classify(c) \/ Winner(c) \/ Dispatch(c) \/ Claim(c)
  \/ AcquireLease(c) \/ AcquireAdmission(c) \/ PreLaunch(c) \/ Run(c) \/ Await(c)
  \/ PostRun(c) \/ Verify(c) \/ ReleaseAdmission(c) \/ ReleaseLease(c)
  \/ Failed(c) \/ Complete(c) \/ Again(c) \/ CleanUnusable(c) \/ CleanWithoutRecord(c)
  \/ Reconcile(c) \/ ResolveIdentity(c) \/ ResolveResources(c)

ReviewNext ==
  \/ \E c \in Callers : CallStep(c)
  \/ \E c \in Callers : \E d \in Target[c] : Request(c, d)
  \/ \E c \in Callers : Crash(c)
  \/ \E r \in DOMAIN records : RunEnds(r)
  \/ Drift
  \/ StaleLease

ReviewSpec == ReviewInit /\ [][ReviewNext]_reviewVars

-------------------------------------------------------------------------------
(* Properties *)

(* The jobs, leases, admissions, records and calls are well formed, and at  *)
(* most one lease is open under the owner keys.                             *)
ReviewTypeOK ==
  /\ jobs \in [Dispatches -> JobStates]
  /\ generation \in 1..MaxGeneration /\ requests \in 0..MaxRequests
  /\ \A d \in Dispatches :
       admissions[d] # None => admissions[d] \in [open: BOOLEAN, gen: 1..MaxGeneration]
  /\ \A r \in DOMAIN records :
       /\ records[r].state \in RecordStates
       /\ records[r].lease \in DOMAIN leases
  /\ \A c \in Callers : calls[c].at \in {"idle"} \cup Steps \cup Outcomes
  /\ Cardinality({l \in DOMAIN leases : leases[l].open}) <= 1

(* ONE durable launch winner: however many attempts of the review are       *)
(* requested, retried, crash or lose their lease, the agent is launched at  *)
(* most once.                                                               *)
LaunchedOnce == Len(records) <= 1

(* A usable handoff (EXECUTED or REUSE_COMPLETED) is given only for a       *)
(* promoted record of the very dispatch, whose admission and whose lease,   *)
(* the one the run was started under, are released.  (A call that outlives  *)
(* its lease may attach to the run of the attempt that took it over.)       *)
HandoffSettled ==
  \A c \in Callers : calls[c].at \in {"EXECUTED", "REUSE_COMPLETED"} =>
    /\ records[1].state = "SUCCEEDED" /\ records[1].by = calls[c].d
    /\ ~leases[records[1].lease].open
    /\ ~AdmissionOpen(calls[c].d)

(* A lease is released by the dispatch that took it or by the stale-lease   *)
(* authority: a recovery never releases a successor's lease that it finds   *)
(* under the shared owner keys.                                             *)
NoForeignRelease ==
  \A l \in DOMAIN leases : leases[l].ender \in {None, "stale", leases[l].by}

(* What runs is admitted and leased: no other attempt releases the          *)
(* admission or the lease of a run while its agent works.                   *)
RunKeepsAdmission ==
  \A r \in DOMAIN records : records[r].state \in Live => AdmissionOpen(records[r].by)
RunKeepsLease ==
  \A r \in DOMAIN records : records[r].state \in Live => leases[records[r].lease].open

(* NOT_ATTEMPTED_CLEANED is said only when nothing of the dispatch is held: *)
(* the attempt left neither an admission nor a lease nor a run.             *)
CleanedIsFree ==
  \A c \in Callers : calls[c].at = "NOT_ATTEMPTED_CLEANED" =>
    /\ ~AdmissionOpen(calls[c].d)
    /\ \A l \in DOMAIN leases : leases[l].open => leases[l].by # calls[c].d
    /\ \A r \in DOMAIN records : records[r].by # calls[c].d
===============================================================================
