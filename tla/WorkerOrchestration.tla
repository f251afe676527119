-------------------------- MODULE WorkerOrchestration --------------------------
(***************************************************************************)
(* A signal of the orchestration plane that asks for a review by a worker:  *)
(* the contract of orchestration.py, the guards of orchestration_guards.py, *)
(* Dispatcher of orchestration_dispatcher.py and the executor that          *)
(* activate_worker_batch_runtime puts behind it.  Several calls of handle   *)
(* are under way for one job, whose row and versions are those of           *)
(* DurableJobs; the authority's documents, the provider, the lease and the  *)
(* worktree may change between any two steps.  The executor is the one of   *)
(* ParallelReady and GraphDispatch, here with the two gates around it.      *)
(***************************************************************************)
EXTENDS Integers, FiniteSets

CONSTANTS
  Calls,         \* the calls of handle that can be under way at once
  Signals,       \* OrchestrationSignal values, malformed ones included
  Documents,     \* what the authority can say: intent and batch
  Facts,         \* provider, lease and worktree checks of the use gate
  TrustedSource, \* source_ref the root was built with
  MaxVersion,    \* bound on the job's version, for model checking
  None

VARIABLES
  job,      \* the row of the review job
  doc,      \* what the authority says now
  holds,    \* the facts that hold now
  lease,    \* the call that holds the worker's lease, or None
  slot,     \* the call that holds the provider's one admission, or None
  calls,    \* per call, how far it is and what it answered
  started,  \* history: the starts, each with its attempt and who made it
  late,     \* history: calls past their last look at what has changed since
  wrote     \* history: calls that changed the job or took a resource

orchVars == <<job, doc, holds, lease, slot, calls, started, late, wrote>>
ghosts == <<started, late, wrote>>

Operator == "operator"

(* What a worker signal and its documents are told apart by.  `wire` says    *)
(* whether the bytes keep the size, depth and field limits.                 *)
Signal ==
  [wire: BOOLEAN, kind: {"ENQUEUE", "REPLAY", "UTILIZATION", "LIFECYCLE"},
   source: {TrustedSource, None}, task: {"task", None}, admitted: {"task", None},
   target: {"PARENT_QUEUE", "WORKER_BATCH", None}, trigger: {"EXPLICIT", "REFILL", None},
   recovery: BOOLEAN]

(* WorkerIntent and WorkerBatch, with the UtilizationFacts of the batch. *)
Document ==
  [task: {"task", "other"}, cls: {"review", "mutable"}, gen: Nat, readOnly: BOOLEAN,
   concurrency: Nat, authorized: BOOLEAN, occupied: Nat, budget: Nat, ready: Nat,
   quota: BOOLEAN]

OrchAssumption ==
  /\ Signals \subseteq Signal /\ Documents \subseteq Document
  /\ MaxVersion \in Nat /\ None \notin Calls /\ Operator \notin Calls

(* create_job *)
NewRow == [state |-> "NEW", attempts |-> 0, version |-> 1]

(* plan_job_transition, between the states that are told apart here: FAILED  *)
(* and COMPLETE are as CANCELLED, PLANNING is as BLOCKED, and the states of  *)
(* a review and its repairs are as VERIFYING.                                *)
Transitions(state) ==
  CASE state = "NEW" -> {"READY", "BLOCKED", "CANCELLED"}
    [] state = "READY" -> {"CLAIMED", "BLOCKED", "CANCELLED"}
    [] state = "CLAIMED" -> {"GATING", "READY", "BLOCKED", "CANCELLED"}
    [] state = "GATING" -> {"EXECUTING", "RECOVERY_NEEDED", "BLOCKED", "CANCELLED"}
    [] state = "EXECUTING" -> {"VERIFYING", "RECOVERY_NEEDED", "CANCELLED"}
    [] state = "VERIFYING" -> {"RECOVERY_NEEDED", "BLOCKED", "CANCELLED"}
    [] state = "RECOVERY_NEEDED" -> {"READY", "GATING", "VERIFYING", "BLOCKED"}
    [] state = "BLOCKED" -> {"READY", "CANCELLED"}
Terminal == {"CANCELLED"}

Bump(row, state) ==
  [row EXCEPT !.state = state, !.version = @ + 1,
              !.attempts = IF state = "EXECUTING" THEN @ + 1 ELSE @]
Checkpoint(row) == [row EXCEPT !.version = @ + 1]

NoCall == [at |-> "idle", sig |-> None, doc |-> None, row |-> None, observed |-> FALSE,
           decision |-> None]

UnderWay(d) == calls[d].at \notin {"idle", "done"}
Go(d, step) == calls' = [calls EXCEPT ![d].at = step]

(* finish: the publisher only adds to the answer and can not change it. *)
Finish(d, decision) ==
  calls' = [calls EXCEPT ![d] = [NoCall EXCEPT !.at = "done", !.decision = decision,
                                               !.observed = calls[d].observed]]

-------------------------------------------------------------------------------
(* orchestration.py: what a signal must be *)

EffectKinds == {"ENQUEUE", "REPLAY"}

(* _payload_contract: exactly the keys of its kind and target *)
PayloadContract(s) ==
  IF s.kind \in EffectKinds
    THEN s.target # None /\ s.trigger # None /\ (s.recovery <=> s.kind = "REPLAY")
    ELSE s.target = None /\ s.trigger = None /\ ~s.recovery

(* _validate *)
Valid(s, source) ==
  /\ s.source = source
  /\ s.kind \in EffectKinds => s.task # None
  /\ PayloadContract(s)

(* decode_signal(encode_signal(signal), expected_source): both ways are     *)
(* bounded before they are parsed.                                          *)
Decodes(s) == s.wire /\ Valid(s, TrustedSource)

(* SignalReceiver._admitted *)
ContextMatches(s) ==
  IF s.kind \in EffectKinds THEN s.admitted # None /\ s.task = s.admitted
                            ELSE s.admitted # None => s.task = s.admitted

-------------------------------------------------------------------------------
(* orchestration_guards.py *)

Smaller(a, b) == IF a < b THEN a ELSE b

(* UtilizationFacts refuses these. *)
FactsValid(u) == u.budget >= 1 /\ u.occupied <= u.budget /\ u.budget <= 1

(* classify_utilization: what may be started in the review lane *)
FanoutReview(u) == IF u.quota THEN Smaller(u.budget - u.occupied, u.ready) ELSE 0

(* UtilizationGuard for the review lane; an explicit request passes it by. *)
UtilizationPasses(s, u) ==
  s.trigger = "REFILL" => FactsValid(u) /\ u.occupied < u.budget /\ FanoutReview(u) > 0

(* GuardPipeline: the duplicate guard leaves worker signals to the executor; *)
(* the authority guard never is inapplicable to them.                       *)
Admitted(s, u) == UtilizationPasses(s, u) /\ u.authorized

-------------------------------------------------------------------------------
(* Dispatcher.handle *)

Receive(d, s) ==
  /\ ~UnderWay(d)
  /\ IF ~Decodes(s) \/ ~ContextMatches(s) \/ s.target = "PARENT_QUEUE"
       THEN calls' = [calls EXCEPT ![d] = [NoCall EXCEPT !.at = "done", !.decision = "DENIED"]]
     ELSE IF s.kind \notin EffectKinds
       THEN calls' = [calls EXCEPT ![d] = [NoCall EXCEPT !.at = "done",
                                                         !.decision = "OBSERVED_ONLY"]]
     ELSE IF s.kind # "ENQUEUE"
       THEN calls' = [calls EXCEPT ![d] = [NoCall EXCEPT !.at = "done", !.decision = "DENIED"]]
     ELSE calls' = [calls EXCEPT ![d] = [NoCall EXCEPT !.at = "intent", !.sig = s]]
  /\ wrote' = wrote \ {d} /\ late' = {l \in late : l[1] # d}
  /\ UNCHANGED <<job, doc, holds, lease, slot, started>>

ReadIntent(d) ==
  /\ calls[d].at = "intent"
  /\ IF doc.task # calls[d].sig.task THEN Finish(d, "RECONCILIATION_REQUIRED")
     ELSE IF doc.cls # "review" THEN Finish(d, "DENIED")
     ELSE calls' = [calls EXCEPT ![d].at = "batch", ![d].doc = doc]
  /\ UNCHANGED <<job, doc, holds, lease, slot, ghosts>>

(* The batch is read after the intent: the call works on the two together. *)
ReadBatch(d) ==
  LET b == [doc EXCEPT !.task = calls[d].doc.task, !.cls = calls[d].doc.cls,
                       !.authorized = calls[d].doc.authorized] IN
  /\ calls[d].at = "batch"
  /\ IF ~b.readOnly \/ b.concurrency # 1 THEN Finish(d, "DENIED")
     ELSE calls' = [calls EXCEPT ![d].at = "job", ![d].doc = b]
  /\ UNCHANGED <<job, doc, holds, lease, slot, ghosts>>

Settled == {"VERIFYING"} \cup Terminal

(* The job, the utilization it was planned under, and the guards. *)
ReadJob(d) ==
  LET u == calls[d].doc IN
  /\ calls[d].at = "job"
  /\ IF job.state \notin {"NEW", "READY"} \/ job.attempts # 0
       THEN Finish(d, IF job.state \in Settled THEN "NO_ACTION" ELSE "RECONCILIATION_REQUIRED")
     ELSE IF u.budget > 1 THEN Finish(d, "RECONCILIATION_REQUIRED")
     ELSE IF u.occupied >= u.budget \/ ~Admitted(calls[d].sig, u) THEN Finish(d, "DENIED")
     ELSE calls' = [calls EXCEPT ![d].at = "pre", ![d].row = job]
  /\ UNCHANGED <<job, doc, holds, lease, slot, ghosts>>

(* Calls that have looked for the last time at the job, at the facts and the *)
(* lease, or at the authority.                                              *)
PastJob == {d \in Calls : calls[d].at = "launch"}
PastFacts == {d \in Calls : calls[d].at \in {"jobBackend", "launch"}}
PastGate == {d \in Calls : calls[d].at \in {"factsBackend", "jobBackend", "launch"}}

CanWrite == job.version < MaxVersion
Write(row) == job' = row /\ late' = late \cup (PastJob \X {"job"})

(* checkpoint "orch-worker-pre": the row it leaves is what the gates expect. *)
CheckpointBefore(d) ==
  /\ calls[d].at = "pre"
  /\ \/ /\ job.version = calls[d].row.version /\ CanWrite
        /\ Write(Checkpoint(job))
        /\ calls' = [calls EXCEPT ![d].at = "acquire", ![d].row = job']
        /\ wrote' = wrote \cup {d}
     \/ /\ job.version # calls[d].row.version
        /\ Finish(d, "RECONCILIATION_REQUIRED")
        /\ UNCHANGED <<job, late, wrote>>
  /\ UNCHANGED <<doc, holds, lease, slot, started>>

-------------------------------------------------------------------------------
(* ParallelReadyExecutor.execute around _UseGateRunner.run *)

(* The provider's admission; a taken one is waited for or reconciled. *)
AcquireAdmission(d) ==
  /\ calls[d].at = "acquire"
  /\ IF slot = None THEN slot' = d /\ Go(d, "lease")
                    ELSE Go(d, "post") /\ UNCHANGED slot
  /\ UNCHANGED <<job, doc, holds, lease, ghosts>>

(* The worker's lease; without it the admission is given back. *)
AcquireLease(d) ==
  /\ calls[d].at = "lease"
  /\ IF lease = None
       THEN lease' = d /\ Go(d, "gate") /\ UNCHANGED slot
       ELSE /\ slot' = (IF slot = d THEN None ELSE slot)
            /\ Go(d, "post") /\ UNCHANGED lease
  /\ UNCHANGED <<job, doc, holds, ghosts>>

(* check: the authority's documents and, at the first gate, the job *)
Gate(d) ==
  /\ calls[d].at = "gate"
  /\ Go(d, IF doc = calls[d].doc /\ job = calls[d].row THEN "facts" ELSE "post")
  /\ UNCHANGED <<job, doc, holds, lease, slot, ghosts>>

(* check: provider, lease and worktree.  A refusal ends the run with an      *)
(* exception, which leaves the admission and the lease to a recovery.       *)
CheckFacts(d) ==
  LET passes == holds = Facts /\ lease = d IN
  /\ calls[d].at \in {"facts", "factsBackend"}
  /\ Go(d, IF calls[d].at = "facts"
             THEN (IF passes THEN "load" ELSE "post")
             ELSE (IF passes THEN "jobBackend" ELSE "recover"))
  /\ UNCHANGED <<job, doc, holds, lease, slot, ghosts>>

(* GraphDispatchCoordinator.dispatch reads the job once more. *)
Load(d) ==
  /\ calls[d].at = "load"
  /\ IF job.state \in {"NEW", "READY", "CLAIMED", "GATING"}
       THEN calls' = [calls EXCEPT ![d].at = "advance", ![d].row = job]
       ELSE Go(d, IF job.state \in Settled THEN "release" ELSE "post")
  /\ UNCHANGED <<job, doc, holds, lease, slot, ghosts>>

Following(state) ==
  CASE state = "NEW" -> "READY" [] state = "READY" -> "CLAIMED"
    [] state = "CLAIMED" -> "GATING" [] state = "GATING" -> "EXECUTING"

(* Mutant: the transitions are written without their version. *)
AdvanceUnversioned(d) ==
  LET row == calls[d].row IN
  /\ calls[d].at = "advance" /\ CanWrite
  /\ Write(Bump(row, Following(row.state)))
  /\ calls' = [calls EXCEPT ![d].row = job',
                            ![d].at = IF job'.state = "EXECUTING" THEN "gateBackend" ELSE @]
  /\ UNCHANGED <<doc, holds, lease, slot, started, wrote>>

(* One transition at a time to EXECUTING, each on the version of the last. *)
Advance(d) ==
  LET row == calls[d].row IN
  /\ calls[d].at = "advance"
  /\ \/ /\ job.version = row.version /\ CanWrite
        /\ Write(Bump(row, Following(row.state)))
        /\ calls' = [calls EXCEPT ![d].row = job',
                                  ![d].at = IF job'.state = "EXECUTING" THEN "gateBackend" ELSE @]
     \/ job.version # row.version /\ Go(d, "post") /\ UNCHANGED <<job, late>>
  /\ UNCHANGED <<doc, holds, lease, slot, started, wrote>>

-------------------------------------------------------------------------------
(* GuardedBackend.execute *)

(* check_backend: the documents once more *)
GateBackend(d) ==
  /\ calls[d].at = "gateBackend"
  /\ Go(d, IF doc = calls[d].doc THEN "factsBackend" ELSE "recover")
  /\ UNCHANGED <<job, doc, holds, lease, slot, ghosts>>

(* check_backend: the row that this call's transition made, first attempt *)
JobBackend(d) ==
  /\ calls[d].at = "jobBackend"
  /\ Go(d, IF job = calls[d].row /\ job.attempts = 1 THEN "launch" ELSE "recover")
  /\ UNCHANGED <<job, doc, holds, lease, slot, ghosts>>

Launch(d) ==
  /\ calls[d].at = "launch"
  /\ Go(d, "backend")
  /\ started' = started \cup {<<calls[d].row.attempts, d, Cardinality(started)>>}
  /\ UNCHANGED <<job, doc, holds, lease, slot, late, wrote>>

BackendEnds(d) ==
  /\ calls[d].at = "backend"
  /\ \/ Go(d, "verify") \/ Go(d, "recover")
  /\ UNCHANGED <<job, doc, holds, lease, slot, ghosts>>

(* The completion is recorded, or the recovery, if the version still holds. *)
Conclude(d) ==
  LET row == calls[d].row
      target == IF calls[d].at = "verify" THEN "VERIFYING" ELSE "RECOVERY_NEEDED" IN
  /\ calls[d].at \in {"verify", "recover"}
  /\ \/ /\ job.version = row.version /\ CanWrite
        /\ Write(Bump(row, target))
        /\ calls' = [calls EXCEPT ![d].at = IF target = "VERIFYING" THEN "release" ELSE "post",
                                  ![d].observed = target = "VERIFYING"]
     \/ job.version # row.version /\ Go(d, "post") /\ UNCHANGED <<job, late>>
  /\ UNCHANGED <<doc, holds, lease, slot, started, wrote>>

(* _typed_dispatch_policy: the admission of a run that is over is given     *)
(* back; the lease stays with the job until its closeout.                   *)
Release(d) ==
  /\ calls[d].at = "release"
  /\ slot' = (IF slot = d THEN None ELSE slot)
  /\ Go(d, "post")
  /\ UNCHANGED <<job, doc, holds, lease, ghosts>>

-------------------------------------------------------------------------------
(* The rest of _handle *)

ReadLatest(d) ==
  /\ calls[d].at = "post"
  /\ calls' = [calls EXCEPT ![d].at = "audit", ![d].row = job]
  /\ UNCHANGED <<job, doc, holds, lease, slot, ghosts>>

(* checkpoint "orch-worker-post": a job that is over takes none. *)
CheckpointAfter(d) ==
  LET fits == job.version = calls[d].row.version /\ job.state \notin Terminal IN
  /\ calls[d].at = "audit"
  /\ \/ /\ fits /\ CanWrite
        /\ Write(Checkpoint(job))
        /\ Finish(d, IF calls[d].observed THEN "DISPATCH_OBSERVED" ELSE "RECONCILIATION_REQUIRED")
     \/ /\ ~fits
        /\ Finish(d, "RECONCILIATION_REQUIRED")
        /\ UNCHANGED <<job, late>>
  /\ UNCHANGED <<doc, holds, lease, slot, started, wrote>>

(* The process dies, with its admission and lease in the store. *)
Crash(d) ==
  /\ UnderWay(d)
  /\ calls' = [calls EXCEPT ![d] = NoCall]
  /\ UNCHANGED <<job, doc, holds, lease, slot, ghosts>>

(* They expire and are reclaimed, also under a call that takes too long. *)
Reclaim ==
  /\ \/ lease # None /\ lease' = None /\ UNCHANGED slot
        /\ late' = late \cup (PastFacts \X {"facts"})
     \/ slot # None /\ slot' = None /\ UNCHANGED <<lease, late>>
  /\ UNCHANGED <<job, doc, holds, calls, started, wrote>>

-------------------------------------------------------------------------------
(* What else happens to the job and to what was agreed *)

(* transition and checkpoint of anyone else on the job: operators, who also  *)
(* run it without these gates, and recoveries.                              *)
OperatorMoves ==
  /\ CanWrite /\ job.state \notin Terminal
  /\ \E state \in Transitions(job.state) \cup {job.state} :
       /\ Write(IF state = job.state THEN Checkpoint(job) ELSE Bump(job, state))
       /\ started' = IF state = "EXECUTING" /\ job.state # "EXECUTING"
                       THEN started \cup {<<job'.attempts, Operator, Cardinality(started)>>}
                       ELSE started
  /\ UNCHANGED <<doc, holds, lease, slot, calls, wrote>>

Drift ==
  /\ \/ /\ \E e \in Documents : e # doc /\ doc' = e
        /\ late' = late \cup (PastGate \X {"doc"})
        /\ UNCHANGED holds
     \/ /\ \E f \in Facts : holds' = (IF f \in holds THEN holds \ {f} ELSE holds \cup {f})
        /\ late' = late \cup (PastFacts \X {"facts"})
        /\ UNCHANGED doc
  /\ UNCHANGED <<job, lease, slot, calls, started, wrote>>

OrchInit ==
  /\ job = NewRow /\ doc \in Documents /\ holds = Facts
  /\ lease = None /\ slot = None
  /\ calls = [d \in Calls |-> NoCall]
  /\ started = {} /\ late = {} /\ wrote = {}

OrchNext ==
  \/ \E d \in Calls :
       \/ \E s \in Signals : Receive(d, s)
       \/ ReadIntent(d) \/ ReadBatch(d) \/ ReadJob(d) \/ CheckpointBefore(d)
       \/ AcquireAdmission(d) \/ AcquireLease(d) \/ Gate(d) \/ CheckFacts(d) \/ Load(d) \/ Advance(d)
       \/ GateBackend(d) \/ JobBackend(d) \/ Launch(d) \/ BackendEnds(d) \/ Conclude(d)
       \/ Release(d) \/ ReadLatest(d) \/ CheckpointAfter(d) \/ Crash(d)
  \/ Reclaim \/ OperatorMoves \/ Drift

OrchSpec == OrchInit /\ [][OrchNext]_orchVars

-------------------------------------------------------------------------------
(* Type invariant of the orchestrated dispatch: the versions stay within    *)
(* their bound, and the admission and the lease belong to calls.            *)
OrchTypeOK ==
  /\ job.version \in 1..MaxVersion /\ job.attempts \in 0..MaxVersion
  /\ doc \in Documents /\ holds \subseteq Facts
  /\ {lease, slot} \subseteq Calls \cup {None}
  /\ \A d \in Calls : calls[d].at = "done" => calls[d].decision # None

(* No attempt of the job is started twice, and what the dispatcher starts    *)
(* is the first attempt: whatever calls, operators and recoveries do in     *)
(* between (Dispatcher._handle, check_backend).                             *)
AttemptStartedOnce ==
  /\ \A s, t \in started : s[1] = t[1] => s = t
  /\ \A s \in started : s[2] \in Calls => s[1] = 1

(* A call that is about to call the backend has the job and the authority's *)
(* documents as it had agreed to them, the worker's lease, and the provider *)
(* and the worktree as they must be, unless they moved after its last look  *)
(* (_UseGateRunner.check_backend).                                          *)
RunsWhatWasGated ==
  \A d \in Calls : calls[d].at = "launch" =>
    /\ job = calls[d].row \/ <<d, "job">> \in late
    /\ doc = calls[d].doc \/ <<d, "doc">> \in late
    /\ (lease = d /\ holds = Facts) \/ <<d, "facts">> \in late

(* A refusal has changed nothing, and DISPATCH_OBSERVED is only said of a    *)
(* run that this call has started and whose admission it has given back.    *)
AnswersTruly ==
  \A d \in Calls : calls[d].at = "done" =>
    /\ calls[d].decision \in {"DENIED", "NO_ACTION", "OBSERVED_ONLY"} => d \notin wrote
    /\ calls[d].decision = "DISPATCH_OBSERVED" =>
         /\ \E s \in started : s[2] = d
         /\ slot # d

(* A refill that starts a review has found a free lane and quota for it     *)
(* (UtilizationGuard, classify_utilization).                                *)
RefillFits ==
  \A d \in Calls : calls[d].at = "launch" /\ calls[d].sig.trigger = "REFILL" =>
    /\ calls[d].doc.occupied + 1 <= calls[d].doc.budget
    /\ calls[d].doc.quota /\ calls[d].doc.ready >= 1
===============================================================================
