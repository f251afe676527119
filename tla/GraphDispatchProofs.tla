-------------------------- MODULE GraphDispatchProofs --------------------------
(***************************************************************************)
(* What the durable job store guarantees to all its callers, and what the   *)
(* dispatchers, operators and closeouts over it guarantee together: for     *)
(* every set of callers, jobs, workers, budgets, references and requests,   *)
(* and for versions of any bound.                                           *)
(***************************************************************************)
EXTENDS GraphDispatch, FiniteSetTheorems, TLAPS

-------------------------------------------------------------------------------
(* The job store, whoever calls it *)

JobsInv == JobsTypeOK /\ RowsReadable /\ ClaimMatchesState

(* One row as JobsInv describes it: plan_job_transition works on one row. *)
GoodRow(row) ==
  /\ row \in JobRow
  /\ row.attempts <= row.max
  /\ row.version >= 1
  /\ (row.state = "RECOVERY_NEEDED") = (row.recovery # None)
  /\ (row.state \in WorkerBound) = (row.worker # None)

(***************************************************************************)
(* plan_job_transition leads from a row JobRuntimeState accepts to another  *)
(* one: the attempts stay within the budget, the classification is there    *)
(* exactly in RECOVERY_NEEDED, the worker exactly in the bound states.      *)
(***************************************************************************)
LEMMA PlanKeepsRowGood ==
  ASSUME NEW row, GoodRow(row),
         NEW target \in TaskState, NEW worker \in Workers \cup {None},
         NEW recovery \in RecoveryClassification \cup {None},
         MayTransition(row, target, worker, recovery)
  PROVE  /\ GoodRow(PlanTransition(row, target, worker, recovery))
         /\ PlanTransition(row, target, worker, recovery).attempts >= row.attempts
         /\ (row.worker # None /\ PlanTransition(row, target, worker, recovery).worker # None)
              => PlanTransition(row, target, worker, recovery).worker = row.worker
<1> DEFINE next == PlanTransition(row, target, worker, recovery)
<1>1. row \in JobRow /\ row.attempts \in Nat /\ row.max \in Nat /\ row.version \in Nat
  BY JobsAssumption DEF GoodRow, JobRow
<1>2. /\ next.terms = row.terms /\ next.max = row.max /\ next.state = target
      /\ next.version = row.version + 1
      /\ next.attempts = IF target = "EXECUTING" THEN row.attempts + 1 ELSE row.attempts
      /\ next.recovery = IF target = "RECOVERY_NEEDED" THEN recovery ELSE None
      /\ next.worker = IF target \in ReleaseClaim THEN None
                       ELSE IF target = "CLAIMED" THEN worker ELSE row.worker
  BY <1>1 DEF PlanTransition, JobRow
<1>3. target = "RECOVERY_NEEDED" => recovery # None
  <2>1. CASE row.state = "RECOVERY_NEEDED"
    <3>1. target = RecoveryTarget(row.recovery)
      BY <2>1 DEF MayTransition
    <3> QED  BY <3>1 DEF RecoveryTarget
  <2>2. CASE row.state # "RECOVERY_NEEDED"
    BY <2>2 DEF MayTransition
  <2> QED  BY <2>1, <2>2
<1>4. next.attempts <= next.max /\ next.attempts >= row.attempts /\ next.attempts \in Nat
  BY <1>1, <1>2 DEF MayTransition, GoodRow
<1>5. target = "CLAIMED" => worker # None /\ row.state = "READY"
  <2>1. CASE row.state = "RECOVERY_NEEDED"
    <3>1. target = RecoveryTarget(row.recovery)
      BY <2>1 DEF MayTransition
    <3> QED  BY <3>1 DEF RecoveryTarget
  <2>2. CASE row.state # "RECOVERY_NEEDED"
    <3>1. target \in AllowedTransitions(row.state) /\ row.state \in TaskState
      BY <2>2, <1>1 DEF MayTransition, JobRow
    <3>2. target = "CLAIMED" => row.state = "READY"
      BY <3>1 DEF AllowedTransitions, TaskState, Terminal
    <3> QED  BY <2>2, <3>2 DEF MayTransition
  <2> QED  BY <2>1, <2>2
<1>6. target \notin ReleaseClaim /\ target # "CLAIMED" =>
        (target \in WorkerBound) = (row.state \in WorkerBound)
  <2>1. CASE row.state = "RECOVERY_NEEDED"
    <3>1. target = RecoveryTarget(row.recovery)
      BY <2>1 DEF MayTransition
    <3> QED  BY <2>1, <3>1 DEF RecoveryTarget, ReleaseClaim, WorkerBound, Terminal
  <2>2. CASE row.state # "RECOVERY_NEEDED"
    <3>1. target \in AllowedTransitions(row.state) /\ row.state \in TaskState
      BY <2>2, <1>1 DEF MayTransition, JobRow
    <3> QED
      BY <3>1 DEF AllowedTransitions, ReleaseClaim, WorkerBound, TaskState, Terminal
  <2> QED  BY <2>1, <2>2
<1>7. (next.state \in WorkerBound) = (next.worker # None)
  <2>1. CASE target \in ReleaseClaim
    BY <2>1, <1>2 DEF ReleaseClaim, WorkerBound, Terminal
  <2>2. CASE target = "CLAIMED"
    BY <2>2, <1>2, <1>5 DEF ReleaseClaim, WorkerBound, Terminal
  <2>3. CASE target \notin ReleaseClaim /\ target # "CLAIMED"
    BY <2>3, <1>2, <1>6 DEF GoodRow
  <2> QED  BY <2>1, <2>2, <2>3
<1>8. next \in JobRow
  <2> DEFINE w == IF target \in ReleaseClaim THEN None
                  ELSE IF target = "CLAIMED" THEN worker ELSE row.worker
             a == IF target = "EXECUTING" THEN row.attempts + 1 ELSE row.attempts
             r == IF target = "RECOVERY_NEEDED" THEN recovery ELSE None
  <2>1. w \in Workers \cup {None} /\ a \in Nat /\ r \in RecoveryClassification \cup {None}
    BY <1>1 DEF JobRow
  <2>2. row.terms \in Terms /\ row.max \in Budgets /\ row.version + 1 \in Nat
    BY <1>1 DEF JobRow
  <2>3. next = [[[[[row EXCEPT !.state = target] EXCEPT !.worker = w] EXCEPT !.attempts = a]
                  EXCEPT !.recovery = r] EXCEPT !.version = row.version + 1]
    BY <1>1 DEF PlanTransition, JobRow
  <2>4. [row EXCEPT !.state = target] \in JobRow
    BY <1>1 DEF JobRow
  <2>5. \A x \in JobRow : [x EXCEPT !.worker = w] \in JobRow
    BY <2>1 DEF JobRow
  <2>6. \A x \in JobRow : [x EXCEPT !.attempts = a] \in JobRow
    BY <2>1 DEF JobRow
  <2>7. \A x \in JobRow : [x EXCEPT !.recovery = r] \in JobRow
    BY <2>1 DEF JobRow
  <2>8. \A x \in JobRow : [x EXCEPT !.version = row.version + 1] \in JobRow
    BY <2>2 DEF JobRow
  <2> HIDE DEF next, w, a, r
  <2> QED  BY <2>3, <2>4, <2>5, <2>6, <2>7, <2>8
<1>9. (row.worker # None /\ next.worker # None) => next.worker = row.worker
  BY <1>2, <1>5 DEF GoodRow, WorkerBound
<1>10. (next.state = "RECOVERY_NEEDED") = (next.recovery # None)
  BY <1>2, <1>3
<1> QED
  BY <1>1, <1>2, <1>4, <1>7, <1>8, <1>9, <1>10 DEF GoodRow

(***************************************************************************)
(* JobsInv says of the stored rows, one by one, that they are good.         *)
(***************************************************************************)
LEMMA InvariantByRow ==
  JobsInv <=> /\ jobs \in [Jobs -> JobRow \cup {None}]
              /\ metas \in [Jobs -> Seq(Refs)]
              /\ \A j \in Jobs : jobs[j] # None => GoodRow(jobs[j])
<1>1. ASSUME jobs \in [Jobs -> JobRow \cup {None}], NEW j \in Jobs, jobs[j] # None
      PROVE  jobs[j] \in JobRow
  BY <1>1
<1> QED  BY <1>1 DEF JobsInv, JobsTypeOK, RowsReadable, ClaimMatchesState, GoodRow

(***************************************************************************)
(* What one operation of the store does to the rows, whoever calls it: each *)
(* row stays, keeps its worker or loses it, and no attempt is forgotten.    *)
(***************************************************************************)
LEMMA StepKeepsRows ==
  ASSUME JobsInv, [JobsNext]_jobVars
  PROVE  /\ JobsInv'
         /\ \A j \in Jobs : jobs[j] # None =>
              /\ jobs'[j] # None
              /\ jobs'[j].attempts >= jobs[j].attempts
              /\ (jobs[j].worker # None /\ jobs'[j].worker # None) =>
                   jobs'[j].worker = jobs[j].worker
<1> DEFINE Kept(j) == jobs[j] # None =>
             /\ jobs'[j] # None
             /\ jobs'[j].attempts >= jobs[j].attempts
             /\ (jobs[j].worker # None /\ jobs'[j].worker # None) =>
                  jobs'[j].worker = jobs[j].worker
<1> DEFINE Rows == /\ jobs \in [Jobs -> JobRow \cup {None}]
                   /\ metas \in [Jobs -> Seq(Refs)]
                   /\ \A j \in Jobs : jobs[j] # None => GoodRow(jobs[j])
<1>1. Rows
  BY InvariantByRow
<1>2. Rows' => JobsInv'
  <2>1. ASSUME Rows', NEW j \in Jobs, jobs'[j] # None
        PROVE  GoodRow(jobs[j])'
    BY <2>1
  <2> QED  BY <2>1 DEF JobsInv, JobsTypeOK, RowsReadable, ClaimMatchesState, GoodRow
<1>3. \A j \in Jobs : jobs[j] # None => jobs[j].attempts \in Nat
  BY <1>1 DEF GoodRow, JobRow
<1>4. CASE UNCHANGED jobVars
  <2>1. Rows'
    BY <1>1, <1>4 DEF jobVars, GoodRow
  <2>2. \A j \in Jobs : Kept(j)
    BY <1>3, <1>4 DEF jobVars
  <2> QED  BY <1>2, <2>1, <2>2
<1>5. ASSUME NEW j \in Jobs, NEW terms \in Terms, NEW max \in Budgets,
             CreateJob(j, terms, max)
      PROVE  Rows' /\ \A k \in Jobs : Kept(k)
  <2> DEFINE row == NewJob(terms, max)
  <2>1. jobs' = [jobs EXCEPT ![j] = row] /\ metas' = metas /\ jobs[j] = None
    BY <1>5 DEF CreateJob
  <2>2. row \in JobRow
    BY JobsAssumption DEF NewJob, JobRow, TaskState
  <2>3. GoodRow(row)
    BY <2>2, JobsAssumption DEF GoodRow, NewJob, WorkerBound
  <2>4. \A k \in Jobs : jobs'[k] = IF k = j THEN row ELSE jobs[k]
    BY <1>1, <2>1
  <2>5. jobs' \in [Jobs -> JobRow \cup {None}]
    BY <1>1, <2>1, <2>2
  <2>6. \A k \in Jobs : jobs'[k] # None => GoodRow(jobs'[k])
    BY <1>1, <2>3, <2>4
  <2>7. \A k \in Jobs : Kept(k)
    BY <1>3, <2>1, <2>4
  <2>8. Rows'
    BY <1>1, <2>1, <2>5, <2>6 DEF GoodRow
  <2> QED  BY <2>7, <2>8
<1>6. ASSUME NEW j \in Jobs, NEW version \in 1..MaxVersion, NEW target \in TaskState,
             NEW worker \in Workers \cup {None},
             NEW recovery \in RecoveryClassification \cup {None},
             Transition(j, target, version, worker, recovery)
      PROVE  Rows' /\ \A k \in Jobs : Kept(k)
  <2> DEFINE row == PlanTransition(jobs[j], target, worker, recovery)
  <2>1. /\ jobs' = [jobs EXCEPT ![j] = row] /\ metas' = metas /\ jobs[j] # None
        /\ MayTransition(jobs[j], target, worker, recovery)
    BY <1>6 DEF Transition, VersionHolds
  <2>2. GoodRow(jobs[j])
    BY <1>1, <2>1
  <2>3. /\ GoodRow(row)
        /\ row.attempts >= jobs[j].attempts
        /\ (jobs[j].worker # None /\ row.worker # None) => row.worker = jobs[j].worker
    BY <2>1, <2>2, PlanKeepsRowGood
  <2> HIDE DEF row
  <2>4. \A k \in Jobs : jobs'[k] = IF k = j THEN row ELSE jobs[k]
    BY <1>1, <2>1
  <2>5. row \in JobRow /\ row # None
    BY <2>3, JobsAssumption DEF GoodRow
  <2>6. jobs' \in [Jobs -> JobRow \cup {None}]
    BY <1>1, <2>1, <2>5
  <2>7. \A k \in Jobs : jobs'[k] # None => GoodRow(jobs'[k])
    BY <1>1, <2>3, <2>4
  <2>8. \A k \in Jobs : Kept(k)
    BY <1>3, <2>3, <2>4, <2>5
  <2>9. Rows'
    BY <1>1, <2>1, <2>6, <2>7 DEF GoodRow
  <2> QED  BY <2>8, <2>9
<1>7. ASSUME NEW j \in Jobs, NEW version \in 1..MaxVersion, NEW ref \in Refs \cup {OtherRef},
             Checkpoint(j, version, ref)
      PROVE  Rows' /\ \A k \in Jobs : Kept(k)
  <2> DEFINE row == [jobs[j] EXCEPT !.version = @ + 1]
  <2>1. /\ jobs' = [jobs EXCEPT ![j] = row] /\ jobs[j] # None
        /\ metas' = IF ref \in Refs THEN [metas EXCEPT ![j] = Append(@, ref)] ELSE metas
    BY <1>7 DEF Checkpoint, VersionHolds
  <2>2. GoodRow(jobs[j]) /\ jobs[j] \in JobRow
    BY <1>1, <2>1 DEF GoodRow
  <2>3. /\ row \in JobRow
        /\ row.attempts = jobs[j].attempts /\ row.max = jobs[j].max
        /\ row.state = jobs[j].state /\ row.worker = jobs[j].worker
        /\ row.recovery = jobs[j].recovery /\ row.version = jobs[j].version + 1
        /\ jobs[j].version \in Nat
    BY <2>2 DEF JobRow
  <2> HIDE DEF row
  <2>4. GoodRow(row)
    BY <2>2, <2>3 DEF GoodRow
  <2>5. \A k \in Jobs : jobs'[k] = IF k = j THEN row ELSE jobs[k]
    BY <1>1, <2>1
  <2>6. row # None
    BY <2>3, JobsAssumption
  <2>7. jobs' \in [Jobs -> JobRow \cup {None}]
    BY <1>1, <2>1, <2>3
  <2>8. metas' \in [Jobs -> Seq(Refs)]
    BY <1>1, <2>1
  <2>9. \A k \in Jobs : jobs'[k] # None => GoodRow(jobs'[k])
    BY <1>1, <2>4, <2>5
  <2>10. \A k \in Jobs : Kept(k)
    BY <1>3, <2>3, <2>5, <2>6
  <2>11. Rows'
    BY <2>7, <2>8, <2>9 DEF GoodRow
  <2> QED  BY <2>10, <2>11
<1> QED
  BY <1>2, <1>4, <1>5, <1>6, <1>7 DEF JobsNext

(***************************************************************************)
(* The rows of the store are good from the start and stay so: JobsInv is    *)
(* inductive as it stands.                                                  *)
(***************************************************************************)
THEOREM JobsInvariant == JobsSpec => []JobsInv
<1>1. JobsInit => JobsInv
  BY DEF JobsInit, JobsInv, JobsTypeOK, RowsReadable, ClaimMatchesState
<1>2. JobsInv /\ [JobsNext]_jobVars => JobsInv'
  BY StepKeepsRows
<1> QED  BY <1>1, <1>2, PTL DEF JobsSpec

(***************************************************************************)
(* Type correctness: job_records and the metadata refs read from job_events *)
(* have their types.                                                        *)
(***************************************************************************)
THEOREM JobsTypeCorrect == JobsSpec => []JobsTypeOK
<1>1. JobsInv => JobsTypeOK
  BY DEF JobsInv
<1> QED  BY <1>1, JobsInvariant, PTL

(***************************************************************************)
(* No sequence of transitions and checkpoints ends in a row that            *)
(* JobRuntimeState refuses, so a job can always be read and moved.          *)
(***************************************************************************)
THEOREM RowsStayReadable == JobsSpec => []RowsReadable
<1>1. JobsInv => RowsReadable
  BY DEF JobsInv
<1> QED  BY <1>1, JobsInvariant, PTL

(***************************************************************************)
(* A job has a worker in exactly the states in which the batch executor     *)
(* (_dispatch_job_matches_task) expects the worker of its lease.            *)
(***************************************************************************)
THEOREM ClaimsMatchStates == JobsSpec => []ClaimMatchesState
<1>1. JobsInv => ClaimMatchesState
  BY DEF JobsInv
<1> QED  BY <1>1, JobsInvariant, PTL

(***************************************************************************)
(* No operation of the store hands a claim from one worker to another, and  *)
(* no attempt is ever given back to the budget.                             *)
(***************************************************************************)
THEOREM ClaimsNeverPassOn == JobsSpec => ClaimNeverPassesOn
<1>1. JobsInv /\ [JobsNext]_jobVars =>
        [\A j \in Jobs : jobs[j] # None =>
           /\ jobs'[j] # None
           /\ jobs'[j].attempts >= jobs[j].attempts
           /\ (jobs[j].worker # None /\ jobs'[j].worker # None) =>
                jobs'[j].worker = jobs[j].worker]_jobVars
  BY StepKeepsRows
<1> QED  BY <1>1, JobsInvariant, PTL DEF JobsSpec, ClaimNeverPassesOn

(***************************************************************************)
(* What every reader of job_records relies on, at every moment: rows have   *)
(* their types, can be loaded, and have a worker exactly when they are      *)
(* bound to one.                                                            *)
(***************************************************************************)
THEOREM JobsAreSafe == JobsSpec => []JobsSafety
<1>1. JobsInv => JobsSafety
  BY DEF JobsInv, JobsSafety
<1> QED  BY <1>1, JobsInvariant, PTL

-------------------------------------------------------------------------------
(* The invariant of the calls under way and of their jobs *)

(***************************************************************************)
(* The steps of a call by what it knows there: its dispatch request, a copy *)
(* of the row, that the row's metadata is its own, that the attempt is its. *)
(***************************************************************************)
RequestSteps ==
  {"load", "create", "events", "reread", "meta", "ready", "claim", "block", "gate"}
CopySteps == Steps \ {"load", "create", "reread"}
RecordedSteps == Steps \ {"load", "create", "events", "meta"}
OwnerSteps == {"launch", "backend", "recover", "checkpoint", "verify"}

(* The copy is an earlier row, or this one: a version names one row. *)
CopyOf(copy, row) ==
  /\ row # None /\ copy \in JobRow
  /\ copy.version <= row.version /\ copy.attempts <= row.attempts
  /\ copy.version = row.version => copy = row

(* The state of the copy a step was chosen for. *)
ChosenFor(at, state) ==
  /\ at = "meta" => state = "NEW"
  /\ at = "ready" => state \in {"NEW", "BLOCKED"}
  /\ at = "claim" => state = "READY"
  /\ at = "block" => state \in {"CLAIMED", "GATING"}
  /\ at = "gate" => state = "CLAIMED"
  /\ at = "executing" => state = "GATING"
  /\ at \in OwnerSteps => state = "EXECUTING"

(***************************************************************************)
(* What is true of a call c under way, where row, meta, run, la and dn are  *)
(* the row of its job, its metadata, its running attempts and the histories *)
(* launched and done of it.                                                 *)
(***************************************************************************)
CallKnows(c, row, meta) ==
  /\ c.job \in Jobs /\ c.worker \in Workers
  /\ c.at \in RequestSteps => c.req # None
  /\ c.at = "reread" => row # None
  /\ c.at \in CopySteps => CopyOf(c.row, row) /\ ChosenFor(c.at, c.row.state)
  /\ c.at = "meta" /\ c.row.version = row.version => meta = <<>>
  /\ c.at \in RecordedSteps /\ c.req # None => meta = <<c.req.ref>>

CallOwns(c, row, run, la, dn) ==
  /\ c.at \in OwnerSteps => c.row.attempts >= 1
  /\ c.at \in {"launch", "backend"} =>
       row.state = "EXECUTING" /\ row.worker = c.worker /\ row.attempts = c.row.attempts
  /\ c.at = "launch" => la < row.attempts
  /\ c.at \in {"checkpoint", "verify"} \/ (c.at = "recover" /\ c.recovery # "UNKNOWN") =>
       c.row.attempts \notin run
  /\ c.at = "verify" /\ c.row.attempts = row.attempts => dn = row.attempts

(***************************************************************************)
(* What is true of a job: an execution under way is of the last attempt and *)
(* of a job that nobody can start again.                                    *)
(***************************************************************************)
Evidenced == {"VERIFYING", "REVIEW_PENDING", "COMPLETE"}
JobOK(row, run, la, dn) ==
  /\ row = None => run = {} /\ la = 0
  /\ row # None =>
       /\ GoodRow(row)
       /\ row.attempts < row.version /\ row.version <= MaxVersion
       /\ la <= row.attempts
       /\ \A n \in run :
            /\ n = row.attempts
            /\ \/ row.state = "EXECUTING"
               \/ row.state = "RECOVERY_NEEDED" /\ row.recovery = "UNKNOWN"
       /\ row.state \in Evidenced => row.attempts >= 1 /\ dn = row.attempts

Call ==
  [at: Steps \cup {"idle", "released"}, req: Requests \cup {None}, job: Jobs \cup {None},
   worker: Workers \cup {None}, allowed: BOOLEAN, row: JobRow \cup {None},
   recovery: RecoveryClassification \cup {None}]

RunningOf(j) == {n \in Nat : <<j, n>> \in running}

Typed ==
  /\ jobs \in [Jobs -> JobRow \cup {None}]
  /\ metas \in [Jobs -> Seq(Refs)]
  /\ calls \in [Callers -> Call]
  /\ running \in SUBSET (Jobs \X Nat)
  /\ launched \in [Jobs -> Nat]
  /\ done \in [Jobs -> Nat]

JobsFine == \A j \in Jobs : JobOK(jobs[j], RunningOf(j), launched[j], done[j])

CallFine(d) ==
  LET c == calls[d]
  IN  UnderWay(d) =>
        /\ CallKnows(c, jobs[c.job], metas[c.job])
        /\ CallOwns(c, jobs[c.job], RunningOf(c.job), launched[c.job], done[c.job])

(* An attempt is at most one call's. *)
OwnersDiffer ==
  \A d, e \in Callers :
    /\ d # e /\ calls[d].at \in OwnerSteps /\ calls[e].at \in OwnerSteps
    /\ calls[d].job = calls[e].job
    => calls[d].row.attempts # calls[e].row.attempts

DispatchInv ==
  /\ Typed
  /\ JobsFine
  /\ \A d \in Callers : CallFine(d)
  /\ OwnersDiffer

-------------------------------------------------------------------------------
(* One row, one call *)

(* What plan_job_transition changes. *)
LEMMA PlanFields ==
  ASSUME NEW row \in JobRow, NEW target, NEW worker, NEW recovery
  PROVE  LET next == PlanTransition(row, target, worker, recovery)
         IN  /\ next.terms = row.terms /\ next.max = row.max /\ next.state = target
             /\ next.version = row.version + 1
             /\ next.attempts = IF target = "EXECUTING" THEN row.attempts + 1 ELSE row.attempts
             /\ next.recovery = IF target = "RECOVERY_NEEDED" THEN recovery ELSE None
             /\ next.worker = IF target \in ReleaseClaim THEN None
                              ELSE IF target = "CLAIMED" THEN worker ELSE row.worker
  BY DEF PlanTransition, JobRow

(* Where a job is started, claimed, blocked or finished from, nothing runs. *)
LEMMA NothingRuns ==
  ASSUME NEW row \in JobRow, NEW run, NEW la, NEW dn, JobOK(row, run, la, dn),
         NEW target \in {"READY", "CLAIMED", "GATING", "EXECUTING", "REVIEW_PENDING", "COMPLETE"},
         NEW worker, NEW recovery, MayTransition(row, target, worker, recovery)
  PROVE  run = {}
<1>1. row # None /\ row.state \in TaskState
  BY JobsAssumption DEF JobRow
<1>2. row.state # "EXECUTING"
  BY DEF MayTransition, AllowedTransitions
<1>3. ~(row.state = "RECOVERY_NEEDED" /\ row.recovery = "UNKNOWN")
  BY DEF MayTransition, RecoveryTarget
<1> QED  BY <1>1, <1>2, <1>3 DEF JobOK

(* A transition of a job that nothing runs for, or to an UNKNOWN recovery. *)
LEMMA TransitionKeepsJob ==
  ASSUME NEW row \in JobRow, NEW run, NEW la \in Nat, NEW dn, JobOK(row, run, la, dn),
         row.version < MaxVersion,
         NEW target \in TaskState, NEW worker \in Workers \cup {None},
         NEW recovery \in RecoveryClassification \cup {None},
         MayTransition(row, target, worker, recovery),
         run = {} \/ (target = "RECOVERY_NEEDED" /\ recovery = "UNKNOWN"),
         target \in Evidenced => row.attempts >= 1 /\ dn = row.attempts
  PROVE  LET next == PlanTransition(row, target, worker, recovery)
         IN  /\ next \in JobRow /\ next # None
             /\ JobOK(next, run, la, dn)
             /\ next.version > row.version /\ next.attempts >= row.attempts
<1> DEFINE next == PlanTransition(row, target, worker, recovery)
<1>1. row # None /\ row.attempts \in Nat /\ row.version \in Nat /\ MaxVersion \in Nat
  BY JobsAssumption DEF JobRow
<1>2. GoodRow(row)
  BY <1>1 DEF JobOK
<1>3. GoodRow(next) /\ next.attempts >= row.attempts
  BY <1>2, PlanKeepsRowGood
<1>4. next \in JobRow /\ next # None
  BY <1>3, JobsAssumption DEF GoodRow
<1>5. /\ next.state = target /\ next.version = row.version + 1
      /\ next.attempts = IF target = "EXECUTING" THEN row.attempts + 1 ELSE row.attempts
      /\ next.recovery = IF target = "RECOVERY_NEEDED" THEN recovery ELSE None
  BY PlanFields
<1>6. target # "EXECUTING" => \A n \in run : n = next.attempts
  BY <1>1, <1>5 DEF JobOK
<1>7. la <= next.attempts /\ next.attempts < next.version /\ next.version <= MaxVersion
  BY <1>1, <1>5 DEF JobOK
<1> HIDE DEF next
<1>8. JobOK(next, run, la, dn)
  BY <1>3, <1>4, <1>5, <1>6, <1>7 DEF JobOK, Evidenced
<1> QED  BY <1>3, <1>4, <1>5, <1>8, <1>1 DEF next

(* A checkpoint only moves the version. *)
LEMMA CheckpointKeepsJob ==
  ASSUME NEW row \in JobRow, NEW run, NEW la, NEW dn, NEW dn2, JobOK(row, run, la, dn),
         row.version < MaxVersion, dn2 = dn \/ (row.state = "EXECUTING" /\ dn2 = row.attempts)
  PROVE  LET next == [row EXCEPT !.version = @ + 1]
         IN  /\ next \in JobRow /\ next # None
             /\ JobOK(next, run, la, dn2)
             /\ next.version = row.version + 1 /\ next.attempts = row.attempts
             /\ next.state = row.state /\ next.worker = row.worker
<1> DEFINE next == [row EXCEPT !.version = @ + 1]
<1>1. /\ row # None /\ row.attempts \in Nat /\ row.version \in Nat /\ MaxVersion \in Nat
      /\ row.max \in Nat
  BY JobsAssumption DEF JobRow
<1>2. /\ next \in JobRow
      /\ next.attempts = row.attempts /\ next.max = row.max
      /\ next.state = row.state /\ next.worker = row.worker
      /\ next.recovery = row.recovery /\ next.version = row.version + 1
  BY DEF JobRow
<1>3. next # None
  BY <1>2, JobsAssumption
<1> HIDE DEF next
<1>4. GoodRow(next)
  BY <1>1, <1>2 DEF JobOK, GoodRow
<1>5. JobOK(next, run, la, dn2)
  BY <1>1, <1>2, <1>3, <1>4 DEF JobOK, Evidenced
<1> QED  BY <1>2, <1>3, <1>5 DEF next

(***************************************************************************)
(* What a call knows stays true while others move its job, as long as they  *)
(* leave a running attempt to it.                                           *)
(***************************************************************************)
LEMMA Bystander ==
  ASSUME NEW c \in Call, c.at \in Steps,
         NEW row \in JobRow \cup {None}, NEW row2 \in JobRow \cup {None},
         NEW meta, NEW meta2, NEW run, NEW run2, NEW la, NEW la2, NEW dn, NEW dn2,
         CallKnows(c, row, meta), CallOwns(c, row, run, la, dn),
         \/ row2 = row
         \/ row # None => /\ row2 # None /\ row2.version > row.version
                          /\ row2.attempts >= row.attempts,
         meta2 = meta \/ (meta = <<>> /\ row # None /\ row2.version > row.version),
         dn2 = dn \/ dn2 = row2.attempts,
         c.at \in {"launch", "backend"} =>
           row2.state = row.state /\ row2.worker = row.worker /\ row2.attempts = row.attempts,
         c.at = "launch" => la2 = la,
         c.at \in OwnerSteps /\ c.row.attempts \in run2 => c.row.attempts \in run
  PROVE  CallKnows(c, row2, meta2) /\ CallOwns(c, row2, run2, la2, dn2)
<1>1. /\ row # None => row.version \in Nat /\ row.attempts \in Nat
      /\ row2 # None => row2.version \in Nat /\ row2.attempts \in Nat
      /\ c.at \in CopySteps => c.row \in JobRow /\ c.row.version \in Nat /\ c.row.attempts \in Nat
  BY DEF JobRow, CallKnows, CopyOf
<1>2. c.at \in CopySteps => row # None /\ row2 # None /\ CopyOf(c.row, row2)
  BY <1>1 DEF CallKnows, CopyOf
<1>3. c.at = "meta" /\ c.row.version = row2.version => meta2 = <<>>
  BY <1>1, <1>2 DEF CallKnows, CopyOf, CopySteps, Steps
<1>4. c.at \in RecordedSteps /\ c.req # None => meta2 = <<c.req.ref>>
  <2>1. <<c.req.ref>> # <<>>
    OBVIOUS
  <2> QED  BY <2>1 DEF CallKnows
<1>5. c.at \in OwnerSteps => c.at \in CopySteps
  BY DEF OwnerSteps, CopySteps, Steps
<1>6. c.at = "verify" /\ c.row.attempts = row2.attempts => dn2 = row2.attempts
  BY <1>1, <1>2, <1>5 DEF CallOwns, CopyOf, OwnerSteps, CallKnows
<1>7. CallKnows(c, row2, meta2)
  BY <1>2, <1>3, <1>4 DEF CallKnows
<1>8. CallOwns(c, row2, run2, la2, dn2)
  BY <1>6 DEF CallOwns, OwnerSteps
<1> QED  BY <1>7, <1>8

-------------------------------------------------------------------------------
(* One step of the whole: one job, and at most one call *)

(* Outside job j nothing of the store changes. *)
OnlyJob(j) ==
  \A i \in Jobs \ {j} :
    /\ jobs'[i] = jobs[i] /\ metas'[i] = metas[i] /\ RunningOf(i)' = RunningOf(i)
    /\ launched'[i] = launched[i] /\ done'[i] = done[i]

(* The row of job j stays or moves on, its metadata is written once. *)
Onward(j) ==
  /\ \/ jobs'[j] = jobs[j]
     \/ jobs[j] # None => /\ jobs'[j] # None /\ jobs'[j].version > jobs[j].version
                          /\ jobs'[j].attempts >= jobs[j].attempts
  /\ \/ metas'[j] = metas[j]
     \/ metas[j] = <<>> /\ jobs[j] # None /\ jobs'[j].version > jobs[j].version
  /\ done'[j] = done[j] \/ done'[j] = jobs'[j].attempts

(* The step on job j leaves call d what it owns. *)
Spares(d, j) ==
  LET c == calls[d] IN
  c.job = j =>
    /\ c.at \in {"launch", "backend"} =>
         /\ jobs'[j].state = jobs[j].state /\ jobs'[j].worker = jobs[j].worker
         /\ jobs'[j].attempts = jobs[j].attempts
    /\ c.at = "launch" => launched'[j] = launched[j]
    /\ c.at \in OwnerSteps /\ c.row.attempts \in RunningOf(j)' =>
         c.row.attempts \in RunningOf(j)

(* A call whose job another one moves still knows what it knew of it. *)
LEMMA BystanderFine ==
  ASSUME Typed, Typed', NEW j \in Jobs, OnlyJob(j), Onward(j),
         NEW d \in Callers, CallFine(d), calls'[d] = calls[d], Spares(d, j)
  PROVE  CallFine(d)'
<1> SUFFICES ASSUME calls[d].at \in Steps  PROVE CallFine(d)'
  BY DEF CallFine, UnderWay
<1> DEFINE c == calls[d]
<1>1. /\ c \in Call /\ c.job \in Jobs
      /\ CallKnows(c, jobs[c.job], metas[c.job])
      /\ CallOwns(c, jobs[c.job], RunningOf(c.job), launched[c.job], done[c.job])
  BY DEF Typed, CallFine, UnderWay, CallKnows
<1>2. PICK i \in Jobs : i = c.job
  BY <1>1
<1> SUFFICES /\ CallKnows(c, jobs'[i], metas'[i])
             /\ CallOwns(c, jobs'[i], RunningOf(i)', launched'[i], done'[i])
  BY <1>2 DEF CallFine, RunningOf
<1>3. jobs[i] \in JobRow \cup {None} /\ jobs'[i] \in JobRow \cup {None}
  BY <1>2 DEF Typed
<1>4. CASE i # j
  <2>1. /\ jobs'[i] = jobs[i] /\ metas'[i] = metas[i] /\ RunningOf(i)' = RunningOf(i)
        /\ launched'[i] = launched[i] /\ done'[i] = done[i]
    BY <1>2, <1>4 DEF OnlyJob
  <2> QED  BY <1>1, <1>2, <2>1
<1>5. CASE i = j
  <2>1. /\ c.at \in {"launch", "backend"} =>
             /\ jobs'[i].state = jobs[i].state /\ jobs'[i].worker = jobs[i].worker
             /\ jobs'[i].attempts = jobs[i].attempts
        /\ c.at = "launch" => launched'[i] = launched[i]
        /\ c.at \in OwnerSteps /\ c.row.attempts \in RunningOf(i)' =>
             c.row.attempts \in RunningOf(i)
    BY <1>2, <1>5 DEF Spares
  <2>2. /\ \/ jobs'[i] = jobs[i]
           \/ jobs[i] # None => /\ jobs'[i] # None /\ jobs'[i].version > jobs[i].version
                                /\ jobs'[i].attempts >= jobs[i].attempts
        /\ \/ metas'[i] = metas[i]
           \/ metas[i] = <<>> /\ jobs[i] # None /\ jobs'[i].version > jobs[i].version
        /\ done'[i] = done[i] \/ done'[i] = jobs'[i].attempts
    BY <1>5 DEF Onward
  <2> DEFINE row == jobs[i]  row2 == jobs'[i]  meta == metas[i]  meta2 == metas'[i]
             run == RunningOf(i)  run2 == RunningOf(i)'  la == launched[i]
             la2 == launched'[i]  dn == done[i]  dn2 == done'[i]
  <2>3. /\ c \in Call /\ c.at \in Steps /\ row \in JobRow \cup {None} /\ row2 \in JobRow \cup {None}
        /\ CallKnows(c, row, meta) /\ CallOwns(c, row, run, la, dn)
    BY <1>1, <1>2, <1>3
  <2> SUFFICES CallKnows(c, row2, meta2) /\ CallOwns(c, row2, run2, la2, dn2)
    OBVIOUS
  <2> HIDE DEF c, row, row2, meta, meta2, run, run2, la, la2, dn, dn2
  <2>4. /\ \/ row2 = row
           \/ row # None => /\ row2 # None /\ row2.version > row.version
                            /\ row2.attempts >= row.attempts
        /\ meta2 = meta \/ (meta = <<>> /\ row # None /\ row2.version > row.version)
        /\ dn2 = dn \/ dn2 = row2.attempts
    BY <2>2 DEF row, row2, meta, meta2, dn, dn2
  <2>5. /\ c.at \in {"launch", "backend"} =>
             row2.state = row.state /\ row2.worker = row.worker /\ row2.attempts = row.attempts
        /\ c.at = "launch" => la2 = la
        /\ c.at \in OwnerSteps /\ c.row.attempts \in run2 => c.row.attempts \in run
    BY <2>1 DEF row, row2, la, la2, run, run2
  <2> QED  BY <2>3, <2>4, <2>5, Bystander
<1> QED  BY <1>4, <1>5

(***************************************************************************)
(* A step keeps the invariant when it changes one job, leaves the job in    *)
(* order, and spares every call but the actors, who are right about it.     *)
(***************************************************************************)
LEMMA Assemble ==
  ASSUME DispatchInv, Typed', NEW j \in Jobs, OnlyJob(j), Onward(j),
         JobOK(jobs'[j], RunningOf(j)', launched'[j], done'[j]),
         NEW A \in SUBSET Callers,
         \A e \in Callers \ A : calls'[e] = calls[e] /\ Spares(e, j),
         \A d \in A : CallFine(d)',
         \A d \in A, e \in Callers :
           /\ d # e /\ calls'[d].at \in OwnerSteps /\ calls'[e].at \in OwnerSteps
           /\ calls'[d].job = calls'[e].job
           => calls'[d].row.attempts # calls'[e].row.attempts
  PROVE  DispatchInv'
<1>1. JobsFine'
  <2> SUFFICES ASSUME NEW i \in Jobs
               PROVE  JobOK(jobs'[i], RunningOf(i)', launched'[i], done'[i])
    BY DEF JobsFine
  <2>1. JobOK(jobs[i], RunningOf(i), launched[i], done[i])
    BY DEF DispatchInv, JobsFine
  <2>2. CASE i # j
    <3>1. /\ jobs'[i] = jobs[i] /\ RunningOf(i)' = RunningOf(i)
          /\ launched'[i] = launched[i] /\ done'[i] = done[i]
      BY <2>2 DEF OnlyJob
    <3> QED  BY <2>1, <3>1
  <2> QED  BY <2>2
<1>2. \A d \in Callers : CallFine(d)'
  <2> SUFFICES ASSUME NEW d \in Callers, d \notin A  PROVE CallFine(d)'
    OBVIOUS
  <2>1. Typed /\ CallFine(d) /\ calls'[d] = calls[d] /\ Spares(d, j)
    BY DEF DispatchInv
  <2> QED  BY <2>1, BystanderFine
<1>3. OwnersDiffer'
  <2> SUFFICES ASSUME NEW d \in Callers, NEW e \in Callers, d # e,
                      calls'[d].at \in OwnerSteps, calls'[e].at \in OwnerSteps,
                      calls'[d].job = calls'[e].job
               PROVE  calls'[d].row.attempts # calls'[e].row.attempts
    BY DEF OwnersDiffer
  <2>1. CASE d \in A \/ e \in A
    BY <2>1
  <2>2. CASE d \notin A /\ e \notin A
    BY <2>2 DEF DispatchInv, OwnersDiffer
  <2> QED  BY <2>1, <2>2
<1> QED  BY <1>1, <1>2, <1>3 DEF DispatchInv

(* What is left of a call that ends, or goes on with the row it has got. *)
PlacedSteps == {"ready", "claim", "block", "gate", "precheck"}
Ends(d, row, new) ==
  /\ new \in Call /\ new.at \notin Steps /\ calls' = [calls EXCEPT ![d] = new]
  /\ new.at = "released" => row # None /\ row.state \notin {"EXECUTING", "RECOVERY_NEEDED"}
GoesOn(d, step, row, new) ==
  /\ new \in Call /\ calls' = [calls EXCEPT ![d] = new]
  /\ new.at = step /\ new.row = row /\ new.job = calls[d].job /\ new.worker = calls[d].worker
  /\ new.req = calls[d].req

(* A call that raises ends without an answer. *)
LEMMA RaiseEnds ==
  ASSUME NEW d \in Callers, Raise(d), NEW row
  PROVE  \E new : Ends(d, row, new)
<1>1. NoCall \in Call /\ NoCall.at \notin Steps /\ NoCall.at # "released"
  BY DEF NoCall, Call, Steps
<1> QED  BY <1>1 DEF Raise, Ends

(* _typed_dispatch_policy never releases for EXECUTING, RECOVERY_NEEDED or RECONCILE. *)
LEMMA AnswerEnds ==
  ASSUME Typed, NEW d \in Callers, NEW row \in JobRow \cup {None}, NEW action,
         row = None => action = "RECONCILE", Answer(d, action, row)
  PROVE  \E new : Ends(d, row, new)
<1> DEFINE releases == IsDispatch(calls[d]) /\ Releases(action, row, calls[d].req)
           released == [NoCall EXCEPT !.at = "released", !.job = calls[d].job]
           new == IF releases THEN released ELSE NoCall
<1>1. calls' = [calls EXCEPT ![d] = new]
  BY DEF Answer
<1>2. calls[d].job \in Jobs \cup {None}
  BY DEF Typed, Call
<1>3. NoCall \in Call /\ NoCall.at \notin Steps /\ NoCall.at # "released"
  BY DEF NoCall, Call, Steps
<1>4. released \in Call /\ released.at \notin Steps
  BY <1>2 DEF NoCall, Call, Steps
<1>5. releases => row # None /\ row.state \notin {"EXECUTING", "RECOVERY_NEEDED"}
  BY DEF Releases
<1> HIDE DEF releases, released
<1>6. Ends(d, row, new)
  BY <1>1, <1>3, <1>4, <1>5 DEF Ends
<1> QED  BY <1>6

(* A call that goes on keeps its request, its job and its worker. *)
LEMMA GotoGoesOn ==
  ASSUME Typed, NEW d \in Callers, NEW row \in JobRow \cup {None}, NEW step \in Steps,
         Goto(d, step, row)
  PROVE  \E new : GoesOn(d, step, row, new)
<1> DEFINE new == [calls[d] EXCEPT !.at = step, !.row = row]
<1>1. calls[d] \in Call
  BY DEF Typed
<1>2. /\ new \in Call /\ new.at = step /\ new.row = row /\ new.job = calls[d].job
      /\ new.worker = calls[d].worker /\ new.req = calls[d].req
  BY <1>1 DEF Call
<1>3. calls' = [calls EXCEPT ![d] = new]
  BY DEF Goto, Typed
<1> HIDE DEF new
<1>4. GoesOn(d, step, row, new)
  BY <1>2, <1>3 DEF GoesOn
<1> QED  BY <1>4

(* dispatch() answers, raises, or goes on to the step that fits the row's state. *)
LEMMA PlaceGives ==
  ASSUME Typed, NEW d \in Callers, NEW row \in JobRow, Place(d, row)
  PROVE  \E new : \/ Ends(d, row, new)
                  \/ \E step \in PlacedSteps :
                       GoesOn(d, step, row, new) /\ ChosenFor(step, row.state)
<1>1. row # None /\ row.state \in TaskState
  BY JobsAssumption DEF JobRow
<1>2. \/ \E action : Answer(d, action, row)
      \/ Raise(d)
      \/ \E step \in PlacedSteps : Goto(d, step, row) /\ ChosenFor(step, row.state)
  BY <1>1 DEF Place, ExistingStates, ReconcileStates, Terminal, TaskState, PlacedSteps,
    ChosenFor, OwnerSteps
<1>3. PlacedSteps \subseteq Steps
  BY DEF PlacedSteps, Steps
<1>4. CASE \E action : Answer(d, action, row)
  BY <1>1, <1>4, AnswerEnds
<1>5. CASE Raise(d)
  BY <1>5, RaiseEnds
<1>6. ASSUME NEW step \in PlacedSteps, Goto(d, step, row), ChosenFor(step, row.state)
      PROVE  \E new : GoesOn(d, step, row, new) /\ ChosenFor(step, row.state)
  <2>1. \E new : GoesOn(d, step, row, new)
    BY <1>3, <1>6, GotoGoesOn
  <2> QED  BY <1>6, <2>1
<1> QED  BY <1>2, <1>4, <1>5, <1>6

-------------------------------------------------------------------------------
(* The shapes of a step: a call alone, a call and its job, a job alone *)

(* The call new is right about its job. *)
RightAbout(new, row, meta, run, la, dn) ==
  new.at \in Steps => CallKnows(new, row, meta) /\ CallOwns(new, row, run, la, dn)

(* Call d became new, an owner only of the attempt it had, or of a new one. *)
OwnsLike(d, new) ==
  new.at \in OwnerSteps =>
    /\ new.job = calls[d].job
    /\ \/ calls[d].at \in OwnerSteps /\ new.row.attempts = calls[d].row.attempts
       \/ new.row.attempts > jobs[new.job].attempts

(* Another owner of an attempt of the job has another attempt. *)
LEMMA OthersDiffer ==
  ASSUME DispatchInv, NEW d \in Callers, UnderWay(d), NEW new \in Call, OwnsLike(d, new),
         new.at \in OwnerSteps, NEW e \in Callers \ {d}, calls[e].at \in OwnerSteps,
         calls[e].job = new.job, new.row \in JobRow
  PROVE  new.row.attempts # calls[e].row.attempts
<1>1. CASE calls[d].at \in OwnerSteps /\ new.row.attempts = calls[d].row.attempts
  BY <1>1 DEF DispatchInv, OwnersDiffer, OwnsLike
<1>2. CASE new.row.attempts > jobs[new.job].attempts
  <2>1. UnderWay(e) /\ calls[e].at \in CopySteps
    BY DEF UnderWay, OwnerSteps, CopySteps, Steps
  <2>2. CopyOf(calls[e].row, jobs[new.job])
    BY <2>1 DEF DispatchInv, CallFine, CallKnows
  <2>3. calls[e].job \in Jobs /\ jobs[new.job] \in JobRow
    BY <2>1, <2>2 DEF DispatchInv, CallFine, CallKnows, Typed, CopyOf
  <2>4. /\ calls[e].row.attempts \in Nat /\ jobs[new.job].attempts \in Nat
        /\ new.row.attempts \in Nat
        /\ calls[e].row.attempts <= jobs[new.job].attempts
    BY <2>2, <2>3 DEF CopyOf, JobRow
  <2> QED  BY <1>2, <2>4
<1> QED  BY <1>1, <1>2 DEF OwnsLike

(* A step that only reads the store keeps the invariant. *)
LEMMA CallAlone ==
  ASSUME DispatchInv, NEW d \in Callers, NEW new \in Call,
         calls' = [calls EXCEPT ![d] = new], UNCHANGED <<jobs, metas, ghostVars>>,
         RightAbout(new, jobs[new.job], metas[new.job], RunningOf(new.job),
                    launched[new.job], done[new.job]),
         new.at \in OwnerSteps => UnderWay(d) /\ OwnsLike(d, new)
  PROVE  DispatchInv'
<1>0. jobs' = jobs /\ metas' = metas /\ running' = running /\ launched' = launched /\ done' = done
  BY DEF ghostVars
<1>1. Typed'
  BY <1>0 DEF DispatchInv, Typed
<1>2. \A j : RunningOf(j)' = RunningOf(j)
  BY <1>0 DEF RunningOf
<1>3. JobsFine'
  BY <1>0, <1>2 DEF DispatchInv, JobsFine
<1>4. calls'[d] = new /\ \A e \in Callers \ {d} : calls'[e] = calls[e]
  BY DEF DispatchInv, Typed
<1>5. ASSUME NEW e \in Callers  PROVE CallFine(e)'
  <2>1. PICK c, i : c = calls'[e] /\ i = c.job
    OBVIOUS
  <2>2. RightAbout(c, jobs[i], metas[i], RunningOf(i), launched[i], done[i])
    <3>1. CASE e = d
      BY <1>4, <2>1, <3>1
    <3>2. CASE e # d
      <4>1. CallFine(e) /\ calls'[e] = calls[e]
        BY <1>4, <3>2 DEF DispatchInv
      <4> QED  BY <2>1, <4>1 DEF CallFine, UnderWay, RightAbout
    <3> QED  BY <3>1, <3>2
  <2>3. RightAbout(c, jobs'[i], metas'[i], RunningOf(i)', launched'[i], done'[i])
    BY <1>0, <1>2, <2>2
  <2> QED  BY <2>1, <2>3 DEF CallFine, UnderWay, RightAbout, RunningOf
<1>6. ASSUME NEW e \in Callers \ {d}, new.at \in OwnerSteps, calls[e].at \in OwnerSteps,
             calls[e].job = new.job
      PROVE  new.row.attempts # calls[e].row.attempts
  <2>1. new.row \in JobRow
    BY <1>6 DEF RightAbout, CallKnows, CopyOf, OwnerSteps, CopySteps, Steps
  <2> QED  BY <1>6, <2>1, OthersDiffer
<1>7. OwnersDiffer'
  BY <1>4, <1>6 DEF OwnersDiffer, DispatchInv
<1> QED  BY <1>1, <1>3, <1>5, <1>7 DEF DispatchInv

(* A move of job j to the row next, with its metadata and its evidence. *)
Moves(j, next, dn) ==
  /\ jobs' = [jobs EXCEPT ![j] = next] /\ next \in JobRow /\ next # None
  /\ jobs[j] # None => next.version > jobs[j].version /\ next.attempts >= jobs[j].attempts
  /\ metas' \in [Jobs -> Seq(Refs)] /\ \A i \in Jobs \ {j} : metas'[i] = metas[i]
  /\ metas'[j] = metas[j] \/ (metas[j] = <<>> /\ jobs[j] # None)
  /\ done' = [done EXCEPT ![j] = dn] /\ (dn = done[j] \/ dn = next.attempts)
  /\ JobOK(next, RunningOf(j), launched[j], dn)
  /\ UNCHANGED <<running, launched>>

(* What moves about a row when the row moves under an execution. *)
KeepsExecution(row, next) ==
  next.state = row.state /\ next.worker = row.worker /\ next.attempts = row.attempts

(* What a move of one job leaves true of the state as a whole. *)
LEMMA MovesFacts ==
  ASSUME DispatchInv, NEW j \in Jobs, NEW next, NEW dn, Moves(j, next, dn),
         calls' \in [Callers -> Call]
  PROVE  /\ Typed' /\ OnlyJob(j) /\ Onward(j)
         /\ jobs'[j] = next /\ done'[j] = dn /\ RunningOf(j)' = RunningOf(j)
         /\ JobOK(jobs'[j], RunningOf(j)', launched'[j], done'[j])
<1>1. jobs'[j] = next /\ done'[j] = dn
  BY DEF Moves, DispatchInv, Typed
<1>2. \A i : RunningOf(i)' = RunningOf(i)
  BY DEF RunningOf, Moves
<1>3. dn \in Nat
  BY DEF Moves, DispatchInv, Typed, JobRow
<1>4. Typed'
  BY <1>3 DEF Moves, DispatchInv, Typed
<1>5. OnlyJob(j)
  BY <1>2 DEF OnlyJob, Moves, DispatchInv, Typed
<1>6. Onward(j)
  BY <1>1 DEF Onward, Moves
<1> QED  BY <1>1, <1>2, <1>4, <1>5, <1>6 DEF Moves

(* A call that writes its own job keeps the invariant. *)
LEMMA CallAndJob ==
  ASSUME DispatchInv, NEW d \in Callers, UnderWay(d), NEW j \in Jobs, calls[d].job = j,
         NEW next, NEW dn, Moves(j, next, dn),
         \A e \in Callers \ {d} :
           calls[e].at \in {"launch", "backend"} /\ calls[e].job = j =>
             KeepsExecution(jobs[j], next),
         NEW new \in Call, calls' = [calls EXCEPT ![d] = new],
         new.at \in Steps => new.job = j,
         RightAbout(new, next, metas'[j], RunningOf(j), launched[j], dn),
         OwnsLike(d, new)
  PROVE  DispatchInv'
<1>1. calls' \in [Callers -> Call]
  BY DEF DispatchInv, Typed
<1>2. /\ Typed' /\ OnlyJob(j) /\ Onward(j)
      /\ jobs'[j] = next /\ done'[j] = dn /\ RunningOf(j)' = RunningOf(j)
      /\ JobOK(jobs'[j], RunningOf(j)', launched'[j], done'[j])
  BY <1>1, MovesFacts
<1>3. calls'[d] = new /\ \A e \in Callers \ {d} : calls'[e] = calls[e]
  BY DEF DispatchInv, Typed
<1>4. \A e \in Callers \ {d} : Spares(e, j)
  BY <1>2 DEF Spares, KeepsExecution, Moves
<1>5. CallFine(d)'
  <2>1. CASE new.at \in Steps
    <3>1. running' = running /\ launched' = launched
      BY DEF Moves
    <3> QED  BY <1>2, <1>3, <2>1, <3>1 DEF CallFine, UnderWay, RightAbout, RunningOf
  <2>2. CASE new.at \notin Steps
    BY <1>3, <2>2 DEF CallFine, UnderWay
  <2> QED  BY <2>1, <2>2
<1>6. ASSUME NEW e \in Callers \ {d}, new.at \in OwnerSteps, calls[e].at \in OwnerSteps,
             calls[e].job = new.job
      PROVE  new.row.attempts # calls[e].row.attempts
  <2>1. new.row \in JobRow
    BY <1>6 DEF RightAbout, CallKnows, CopyOf, OwnerSteps, CopySteps, Steps
  <2> QED  BY <1>6, <2>1, OthersDiffer
<1>7. \A e \in Callers :
        /\ d # e /\ calls'[d].at \in OwnerSteps /\ calls'[e].at \in OwnerSteps
        /\ calls'[d].job = calls'[e].job
        => calls'[d].row.attempts # calls'[e].row.attempts
  BY <1>3, <1>6
<1> DEFINE A == {d}
<1>8. /\ A \in SUBSET Callers
      /\ \A e \in Callers \ A : calls'[e] = calls[e] /\ Spares(e, j)
      /\ \A e \in A : CallFine(e)'
      /\ \A a \in A, e \in Callers :
           /\ a # e /\ calls'[a].at \in OwnerSteps /\ calls'[e].at \in OwnerSteps
           /\ calls'[a].job = calls'[e].job
           => calls'[a].row.attempts # calls'[e].row.attempts
  BY <1>3, <1>4, <1>5, <1>7, Zenon
<1> HIDE DEF A
<1> QED  BY <1>2, <1>8, Assemble

(* A write by an operator or a closeout keeps the invariant. *)
LEMMA JobAlone ==
  ASSUME DispatchInv, NEW j \in Jobs, NEW next, Moves(j, next, done[j]), UNCHANGED calls,
         \A e \in Callers :
           calls[e].at \in {"launch", "backend"} /\ calls[e].job = j =>
             KeepsExecution(jobs[j], next)
  PROVE  DispatchInv'
<1>1. calls' \in [Callers -> Call]
  BY DEF DispatchInv, Typed
<1>2. /\ Typed' /\ OnlyJob(j) /\ Onward(j)
      /\ jobs'[j] = next /\ RunningOf(j)' = RunningOf(j)
      /\ JobOK(jobs'[j], RunningOf(j)', launched'[j], done'[j])
  BY <1>1, MovesFacts
<1>3. \A e \in Callers : calls'[e] = calls[e] /\ Spares(e, j)
  BY <1>2 DEF Spares, KeepsExecution, Moves
<1> DEFINE A == {}
<1>4. /\ A \in SUBSET Callers
      /\ \A e \in Callers \ A : calls'[e] = calls[e] /\ Spares(e, j)
      /\ \A e \in A : CallFine(e)'
      /\ \A a \in A, e \in Callers :
           /\ a # e /\ calls'[a].at \in OwnerSteps /\ calls'[e].at \in OwnerSteps
           /\ calls'[a].job = calls'[e].job
           => calls'[a].row.attempts # calls'[e].row.attempts
  BY <1>3, Zenon
<1> HIDE DEF A
<1> QED  BY <1>2, <1>4, Assemble

-------------------------------------------------------------------------------
(* The steps that only read the store *)

(* The step keeps the invariant; an answer it gives is about its job's row. *)
Fine(d) ==
  /\ DispatchInv'
  /\ \E new : /\ calls' = [calls EXCEPT ![d] = new]
              /\ UnderWay(d) /\ new.at = "released" =>
                   LET row == jobs'[calls[d].job]
                   IN  row # None /\ row.state \notin {"EXECUTING", "RECOVERY_NEEDED"}

(* The invariant, for one call under way. *)
LEMMA CallFacts ==
  ASSUME DispatchInv, NEW d \in Callers, UnderWay(d)
  PROVE  LET c == calls[d]  j == calls[d].job IN
         /\ c \in Call /\ j \in Jobs /\ c.worker \in Workers
         /\ jobs[j] \in JobRow \cup {None}
         /\ metas[j] \in Seq(Refs) /\ launched[j] \in Nat /\ done[j] \in Nat
         /\ CallKnows(c, jobs[j], metas[j])
         /\ CallOwns(c, jobs[j], RunningOf(j), launched[j], done[j])
         /\ JobOK(jobs[j], RunningOf(j), launched[j], done[j])
<1> DEFINE c == calls[d]  j == calls[d].job
<1>1. /\ c \in Call
      /\ CallKnows(c, jobs[j], metas[j])
      /\ CallOwns(c, jobs[j], RunningOf(j), launched[j], done[j])
  BY DEF DispatchInv, Typed, CallFine
<1>2. j \in Jobs /\ c.worker \in Workers
  BY <1>1 DEF CallKnows
<1>3. /\ jobs[j] \in JobRow \cup {None}
      /\ metas[j] \in Seq(Refs) /\ launched[j] \in Nat /\ done[j] \in Nat
  BY <1>2 DEF DispatchInv, Typed
<1>4. JobOK(jobs[j], RunningOf(j), launched[j], done[j])
  BY <1>2 DEF DispatchInv, JobsFine
<1> QED  BY <1>1, <1>2, <1>3, <1>4

(* A call may end anywhere between two steps. *)
LEMMA EndsFine ==
  ASSUME DispatchInv, NEW d \in Callers, UNCHANGED <<jobs, metas, ghostVars>>,
         NEW new, Ends(d, jobs[calls[d].job], new)
  PROVE  Fine(d)
<1>1. new \in Call /\ new.at \notin Steps /\ calls' = [calls EXCEPT ![d] = new]
  BY DEF Ends
<1>2. new.at \notin OwnerSteps
  BY <1>1 DEF OwnerSteps, Steps
<1>3. DispatchInv'
  BY <1>1, <1>2, CallAlone DEF RightAbout
<1> QED  BY <1>1, <1>3 DEF Fine, Ends

(* An exception leaves the others in order. *)
LEMMA RaiseFine ==
  ASSUME DispatchInv, NEW d \in Callers, Raise(d), UNCHANGED <<jobs, metas, ghostVars>>
  PROVE  Fine(d)
<1>1. PICK new : Ends(d, jobs[calls[d].job], new)
  BY RaiseEnds
<1> QED  BY <1>1, EndsFine

(* So does _reconcile, after a version conflict or a refused transition. *)
LEMMA ReconcileFine ==
  ASSUME DispatchInv, NEW d \in Callers, UnderWay(d), Reconcile(d),
         UNCHANGED <<jobs, metas, ghostVars>>
  PROVE  Fine(d)
<1>1. jobs[calls[d].job] \in JobRow \cup {None} /\ Typed
  BY CallFacts DEF DispatchInv
<1>2. PICK new : Ends(d, jobs[calls[d].job], new)
  BY <1>1, AnswerEnds DEF Reconcile
<1> QED  BY <1>2, EndsFine

(* A call that goes on to a step that owns nothing, with the row unchanged *)
LEMMA GoesOnFine ==
  ASSUME DispatchInv, NEW d \in Callers, UNCHANGED <<jobs, metas, ghostVars>>,
         NEW step \in Steps \ OwnerSteps, NEW row, NEW new, GoesOn(d, step, row, new),
         CallKnows(new, jobs[calls[d].job], metas[calls[d].job])
  PROVE  Fine(d)
<1>1. /\ new \in Call /\ new.at = step /\ new.job = calls[d].job
      /\ calls' = [calls EXCEPT ![d] = new]
  BY DEF GoesOn
<1>2. new.at \notin OwnerSteps /\ new.at # "released" /\ new.at \in Steps
  BY <1>1 DEF Steps
<1>3. CallOwns(new, jobs[new.job], RunningOf(new.job), launched[new.job], done[new.job])
  BY <1>2 DEF CallOwns, OwnerSteps
<1>4. DispatchInv'
  BY <1>1, <1>2, <1>3, CallAlone DEF RightAbout
<1> QED  BY <1>1, <1>2, <1>4 DEF Fine

(* After Place, the call has the row it was placed with. *)
LEMMA PlacedKnows ==
  ASSUME NEW d, NEW row \in JobRow, NEW step \in PlacedSteps, NEW new, NEW meta,
         GoesOn(d, step, row, new), ChosenFor(step, row.state),
         calls[d].job \in Jobs, calls[d].worker \in Workers,
         calls[d].req # None, meta = <<calls[d].req.ref>>
  PROVE  /\ CallKnows(new, row, meta) /\ new.at \in Steps \ OwnerSteps
         /\ \A run, la, dn : CallOwns(new, row, run, la, dn)
<1>1. row # None /\ row.version \in Nat /\ row.attempts \in Nat
  BY JobsAssumption DEF JobRow
<1>2. /\ new.at = step /\ new.row = row /\ new.job = calls[d].job
      /\ new.worker = calls[d].worker /\ new.req = calls[d].req
  BY DEF GoesOn
<1>3. CopyOf(row, row)
  BY <1>1 DEF CopyOf
<1>4. new.at \in Steps \ OwnerSteps /\ new.at # "meta" /\ new.at # "reread"
  BY <1>2 DEF PlacedSteps, Steps, OwnerSteps
<1>5. CallKnows(new, row, meta)
  BY <1>1, <1>2, <1>3, <1>4 DEF CallKnows
<1>6. \A run, la, dn : CallOwns(new, row, run, la, dn)
  BY <1>4 DEF CallOwns, OwnerSteps
<1> QED  BY <1>4, <1>5, <1>6

(* A new dispatch. *)
LEMMA DispatchFine ==
  ASSUME DispatchInv, NEW d \in Callers, NEW req \in Requests, NEW allowed \in BOOLEAN,
         Dispatch(d, req, allowed)
  PROVE  Fine(d)
<1> DEFINE new == [NoCall EXCEPT !.at = "load", !.req = req, !.job = req.job,
                                 !.worker = req.worker, !.allowed = allowed]
<1>1. req \in Request /\ req # None
  BY DispatchAssumption
<1>2. req.job \in Jobs /\ req.worker \in Workers
  BY <1>1 DEF Request
<1>3. /\ new \in Call /\ new.at = "load" /\ new.job \in Jobs /\ new.worker \in Workers
      /\ new.req # None
  BY <1>1, <1>2 DEF NoCall, Call, Steps
<1>4. calls' = [calls EXCEPT ![d] = new] /\ ~UnderWay(d) /\ UNCHANGED <<jobs, metas, ghostVars>>
  BY DEF Dispatch
<1> HIDE DEF new
<1>5. RightAbout(new, jobs[new.job], metas[new.job], RunningOf(new.job),
                 launched[new.job], done[new.job])
  BY <1>3 DEF RightAbout, CallKnows, CallOwns, OwnerSteps, CopySteps, RecordedSteps
<1>6. new.at \notin OwnerSteps
  BY <1>3 DEF OwnerSteps
<1>7. DispatchInv'
  BY <1>3, <1>4, <1>5, <1>6, CallAlone
<1> QED  BY <1>4, <1>7 DEF Fine

(* get_job of _load_or_create. *)
LEMMA LoadFine ==
  ASSUME DispatchInv, NEW d \in Callers, Load(d)
  PROVE  Fine(d)
<1> DEFINE c == calls[d]  row == jobs[calls[d].job]
<1>1. c.at = "load" /\ UnderWay(d) /\ UNCHANGED <<jobs, metas, ghostVars>>
  BY DEF Load, UnderWay, Steps
<1>2. /\ c.job \in Jobs /\ c.worker \in Workers /\ row \in JobRow \cup {None} /\ Typed
      /\ c.req # None
  BY <1>1, CallFacts DEF DispatchInv, CallKnows, RequestSteps
<1>3. \/ row = None /\ Goto(d, "create", None)
      \/ Raise(d)
      \/ row # None /\ Goto(d, "events", row)
  BY DEF Load
<1>4. CASE row = None /\ Goto(d, "create", None)
  <2>1. "create" \in Steps \ OwnerSteps
    BY DEF Steps, OwnerSteps
  <2>2. PICK new : GoesOn(d, "create", None, new)
    BY <1>2, <1>4, <2>1, GotoGoesOn
  <2>3. CallKnows(new, row, metas[c.job])
    BY <1>2, <2>2 DEF CallKnows, GoesOn, CopySteps, RecordedSteps
  <2> QED  BY <1>1, <2>1, <2>2, <2>3, GoesOnFine
<1>5. CASE row # None /\ Goto(d, "events", row)
  <2>1. "events" \in Steps \ OwnerSteps
    BY DEF Steps, OwnerSteps
  <2>2. PICK new : GoesOn(d, "events", row, new)
    BY <1>2, <1>5, <2>1, GotoGoesOn
  <2>3. CopyOf(row, row)
    BY <1>2, <1>5 DEF CopyOf, JobRow
  <2>4. CallKnows(new, row, metas[c.job])
    BY <1>2, <2>2, <2>3 DEF CallKnows, GoesOn, RecordedSteps, ChosenFor, OwnerSteps
  <2> QED  BY <1>1, <2>1, <2>2, <2>4, GoesOnFine
<1> QED  BY <1>1, <1>3, <1>4, <1>5, RaiseFine

(* list_events of _ensure_metadata: its own metadata, none yet, or an error. *)
LEMMA ReadEventsFine ==
  ASSUME DispatchInv, NEW d \in Callers, ReadEvents(d)
  PROVE  Fine(d)
<1> DEFINE c == calls[d]  row == jobs[calls[d].job]
<1>1. c.at = "events" /\ UnderWay(d) /\ UNCHANGED <<jobs, metas, ghostVars>>
  BY DEF ReadEvents, UnderWay, Steps
<1>2. /\ c.job \in Jobs /\ c.worker \in Workers /\ c.req # None /\ CopyOf(c.row, row) /\ Typed
  BY <1>1, CallFacts DEF DispatchInv, CallKnows, RequestSteps, CopySteps, Steps
<1>3. c.row \in JobRow /\ row # None
  BY <1>2 DEF CopyOf
<1>4. \/ metas[c.job] = <<c.req.ref>> /\ Goto(d, "reread", None)
      \/ Raise(d)
      \/ metas[c.job] = <<>> /\ c.row.state = "NEW" /\ Goto(d, "meta", c.row)
  BY DEF ReadEvents
<1>5. CASE metas[c.job] = <<c.req.ref>> /\ Goto(d, "reread", None)
  <2>1. "reread" \in Steps \ OwnerSteps
    BY DEF Steps, OwnerSteps
  <2>2. PICK new : GoesOn(d, "reread", None, new)
    BY <1>2, <1>5, <2>1, GotoGoesOn
  <2>3. CallKnows(new, row, metas[c.job])
    BY <1>2, <1>3, <1>5, <2>2 DEF CallKnows, GoesOn, CopySteps
  <2> QED  BY <1>1, <2>1, <2>2, <2>3, GoesOnFine
<1>6. CASE metas[c.job] = <<>> /\ c.row.state = "NEW" /\ Goto(d, "meta", c.row)
  <2>1. "meta" \in Steps \ OwnerSteps
    BY DEF Steps, OwnerSteps
  <2>2. PICK new : GoesOn(d, "meta", c.row, new)
    BY <1>2, <1>3, <1>6, <2>1, GotoGoesOn
  <2>3. CallKnows(new, row, metas[c.job])
    BY <1>2, <1>6, <2>2 DEF CallKnows, GoesOn, RecordedSteps, ChosenFor, OwnerSteps
  <2> QED  BY <1>1, <2>1, <2>2, <2>3, GoesOnFine
<1> QED  BY <1>1, <1>4, <1>5, <1>6, RaiseFine

(* The row read again once the metadata is known to be the call's. *)
LEMMA RereadFine ==
  ASSUME DispatchInv, NEW d \in Callers, Reread(d)
  PROVE  Fine(d)
<1> DEFINE c == calls[d]  row == jobs[calls[d].job]
<1>1. c.at = "reread" /\ UnderWay(d) /\ Place(d, row) /\ UNCHANGED <<jobs, metas, ghostVars>>
  BY DEF Reread, UnderWay, Steps
<1>2. /\ c.job \in Jobs /\ c.worker \in Workers /\ c.req # None /\ Typed
      /\ metas[c.job] = <<c.req.ref>> /\ row # None /\ row \in JobRow
  BY <1>1, CallFacts DEF DispatchInv, CallKnows, RequestSteps, RecordedSteps, Steps
<1>3. PICK new : \/ Ends(d, row, new)
                 \/ \E step \in PlacedSteps :
                      GoesOn(d, step, row, new) /\ ChosenFor(step, row.state)
  BY <1>1, <1>2, PlaceGives
<1>4. CASE Ends(d, row, new)
  BY <1>1, <1>4, EndsFine
<1>5. ASSUME NEW step \in PlacedSteps, GoesOn(d, step, row, new), ChosenFor(step, row.state)
      PROVE  Fine(d)
  <2>1. CallKnows(new, row, metas[c.job]) /\ step \in Steps \ OwnerSteps
    BY <1>2, <1>5, PlacedKnows DEF PlacedSteps, Steps, OwnerSteps
  <2> QED  BY <1>1, <1>5, <2>1, GoesOnFine
<1> QED  BY <1>3, <1>4, <1>5

(* _check_preconditions of the execution coordinator. *)
LEMMA PrecheckFine ==
  ASSUME DispatchInv, NEW d \in Callers, Precheck(d)
  PROVE  Fine(d)
<1> DEFINE c == calls[d]  row == jobs[calls[d].job]
<1>1. c.at = "precheck" /\ UnderWay(d) /\ UNCHANGED <<jobs, metas, ghostVars>>
  BY DEF Precheck, UnderWay, Steps
<1>2. /\ c.job \in Jobs /\ c.worker \in Workers /\ row \in JobRow \cup {None} /\ Typed
      /\ c.req # None => metas[c.job] = <<c.req.ref>>
  BY <1>1, CallFacts DEF DispatchInv, CallKnows, RecordedSteps, Steps
<1>3. \/ Raise(d)
      \/ Reconcile(d)
      \/ row # None /\ row.state = "GATING" /\ Goto(d, "executing", row)
  BY DEF Precheck
<1>4. CASE row # None /\ row.state = "GATING" /\ Goto(d, "executing", row)
  <2>1. "executing" \in Steps \ OwnerSteps
    BY DEF Steps, OwnerSteps
  <2>2. PICK new : GoesOn(d, "executing", row, new)
    BY <1>2, <1>4, <2>1, GotoGoesOn
  <2>3. CopyOf(row, row)
    BY <1>2, <1>4 DEF CopyOf, JobRow
  <2>4. CallKnows(new, row, metas[c.job])
    BY <1>2, <1>4, <2>2, <2>3 DEF CallKnows, GoesOn, RequestSteps, ChosenFor, OwnerSteps
  <2> QED  BY <1>1, <2>1, <2>2, <2>4, GoesOnFine
<1> QED  BY <1>1, <1>3, <1>4, RaiseFine, ReconcileFine

(* JOB_EXECUTE of an operator, with a row shown earlier. *)
LEMMA OperatorExecuteFine ==
  ASSUME DispatchInv, NEW d \in Callers, NEW j \in Jobs, NEW worker \in Workers,
         OperatorExecute(d, j, worker)
  PROVE  Fine(d)
<1> DEFINE new == [NoCall EXCEPT !.at = "precheck", !.job = j, !.worker = worker,
                                 !.row = jobs[j]]
<1>1. jobs[j] \in JobRow \cup {None} /\ jobs[j] # None
  BY DEF OperatorExecute, DispatchInv, Typed
<1>2. /\ new \in Call /\ new.at = "precheck" /\ new.job = j /\ new.worker = worker
      /\ new.req = None /\ new.row = jobs[j]
  BY <1>1 DEF NoCall, Call, Steps
<1>3. calls' = [calls EXCEPT ![d] = new] /\ ~UnderWay(d) /\ UNCHANGED <<jobs, metas, ghostVars>>
  BY DEF OperatorExecute
<1> HIDE DEF new
<1>4. CopyOf(new.row, jobs[j])
  BY <1>1, <1>2 DEF CopyOf, JobRow
<1>5. CallKnows(new, jobs[j], metas[j])
  BY <1>2, <1>4 DEF CallKnows, RequestSteps, ChosenFor, OwnerSteps
<1>6. RightAbout(new, jobs[new.job], metas[new.job], RunningOf(new.job),
                 launched[new.job], done[new.job])
  BY <1>2, <1>5 DEF RightAbout, CallOwns, OwnerSteps
<1>7. new.at \notin OwnerSteps
  BY <1>2 DEF OwnerSteps
<1>8. DispatchInv'
  BY <1>2, <1>3, <1>6, <1>7, CallAlone
<1> QED  BY <1>3, <1>8 DEF Fine

(* A lost backend: the call goes on to record UNKNOWN, its execution may go on. *)
LEMMA BackendLostFine ==
  ASSUME DispatchInv, NEW d \in Callers, BackendLost(d)
  PROVE  Fine(d)
<1> DEFINE c == calls[d]  row == jobs[calls[d].job]
           new == [calls[d] EXCEPT !.at = "recover", !.recovery = "UNKNOWN"]
<1>1. c.at = "backend" /\ UnderWay(d) /\ UNCHANGED <<jobs, metas, ghostVars>>
  BY DEF BackendLost, UnderWay, Steps
<1>2. /\ c \in Call /\ CallKnows(c, row, metas[c.job])
      /\ CallOwns(c, row, RunningOf(c.job), launched[c.job], done[c.job])
  BY <1>1, CallFacts
<1>3. calls' = [calls EXCEPT ![d] = new]
  BY DEF BackendLost, DispatchInv, Typed
<1>4. /\ new \in Call /\ new.at = "recover" /\ new.job = c.job /\ new.worker = c.worker
      /\ new.req = c.req /\ new.row = c.row /\ new.recovery = "UNKNOWN"
  BY <1>2 DEF Call, Steps, RecoveryClassification
<1> HIDE DEF new
<1>5. CallKnows(new, row, metas[c.job])
  BY <1>1, <1>2, <1>4 DEF CallKnows, RequestSteps, CopySteps, RecordedSteps, Steps, ChosenFor,
    OwnerSteps
<1>6. CallOwns(new, row, RunningOf(c.job), launched[c.job], done[c.job])
  BY <1>1, <1>2, <1>4 DEF CallOwns, OwnerSteps
<1>7. OwnsLike(d, new)
  BY <1>1, <1>4 DEF OwnsLike, OwnerSteps
<1>8. RightAbout(new, jobs[new.job], metas[new.job], RunningOf(new.job),
                 launched[new.job], done[new.job])
  BY <1>4, <1>5, <1>6 DEF RightAbout
<1>9. DispatchInv'
  BY <1>1, <1>3, <1>4, <1>7, <1>8, CallAlone
<1> QED  BY <1>3, <1>4, <1>9 DEF Fine

(* A database error, or the death of the process. *)
LEMMA AbortFine ==
  ASSUME DispatchInv, NEW d \in Callers, Abort(d)
  PROVE  Fine(d)
BY RaiseFine DEF Abort

-------------------------------------------------------------------------------
(* The steps that write the store *)

(* The steps of a call that write the row it has a copy of. *)
WritingSteps == CopySteps \ {"events", "precheck"}

(* Who writes with the current version has the row, and nobody else runs it. *)
LEMMA AloneOnRow ==
  ASSUME DispatchInv, NEW d \in Callers, calls[d].at \in WritingSteps,
         VersionHolds(calls[d].job, calls[d].row.version)
  PROVE  /\ jobs[calls[d].job] = calls[d].row
         /\ calls[d].row \in JobRow /\ ChosenFor(calls[d].at, calls[d].row.state)
         /\ \A e \in Callers \ {d} :
              calls[e].at \in {"launch", "backend"} => calls[e].job # calls[d].job
<1> DEFINE c == calls[d]  row == jobs[calls[d].job]
<1>1. UnderWay(d) /\ c.at \in CopySteps
  BY DEF UnderWay, WritingSteps, CopySteps
<1>2. CopyOf(c.row, row) /\ ChosenFor(c.at, c.row.state) /\ row.version = c.row.version
  BY <1>1, CallFacts DEF CallKnows, VersionHolds
<1>3. row = c.row /\ c.row \in JobRow
  BY <1>2 DEF CopyOf
<1>4. ASSUME NEW e \in Callers \ {d}, calls[e].at \in {"launch", "backend"},
             calls[e].job = c.job
      PROVE  FALSE
  <2>1. UnderWay(e)
    BY <1>4 DEF UnderWay, Steps
  <2>2. row.state = "EXECUTING" /\ row.attempts = calls[e].row.attempts
    BY <1>4, <2>1, CallFacts DEF CallOwns
  <2>3. c.at \in OwnerSteps
    BY <1>2, <1>3, <2>2 DEF ChosenFor, WritingSteps, CopySteps, Steps, OwnerSteps
  <2>4. calls[e].at \in OwnerSteps
    BY <1>4 DEF OwnerSteps
  <2> QED  BY <1>3, <1>4, <2>2, <2>3, <2>4 DEF DispatchInv, OwnersDiffer
<1> QED  BY <1>2, <1>3, <1>4

(* transition_job moves a job that nothing runs for, or to an UNKNOWN recovery. *)
LEMMA TransitionMoves ==
  ASSUME DispatchInv, NEW j \in Jobs, NEW target \in TaskState, NEW version,
         NEW worker \in Workers \cup {None}, NEW recovery \in RecoveryClassification \cup {None},
         Transition(j, target, version, worker, recovery), UNCHANGED ghostVars,
         RunningOf(j) = {} \/ (target = "RECOVERY_NEEDED" /\ recovery = "UNKNOWN"),
         target \in Evidenced => jobs[j].attempts >= 1 /\ done[j] = jobs[j].attempts
  PROVE  /\ jobs[j] \in JobRow
         /\ Moves(j, PlanTransition(jobs[j], target, worker, recovery), done[j])
         /\ jobs'[j] = PlanTransition(jobs[j], target, worker, recovery)
         /\ metas'[j] = metas[j]
<1> DEFINE next == PlanTransition(jobs[j], target, worker, recovery)
<1>1. /\ jobs[j] # None /\ jobs[j].version < MaxVersion
      /\ MayTransition(jobs[j], target, worker, recovery)
      /\ jobs' = [jobs EXCEPT ![j] = next] /\ metas' = metas
  BY DEF Transition, VersionHolds
<1>2. running' = running /\ launched' = launched /\ done' = done
  BY DEF ghostVars
<1>3. /\ jobs[j] \in JobRow /\ launched[j] \in Nat
      /\ JobOK(jobs[j], RunningOf(j), launched[j], done[j])
  BY <1>1 DEF DispatchInv, Typed, JobsFine
<1>4. /\ next \in JobRow /\ next # None
      /\ JobOK(next, RunningOf(j), launched[j], done[j])
      /\ next.version > jobs[j].version /\ next.attempts >= jobs[j].attempts
  BY <1>1, <1>3, TransitionKeepsJob
<1> HIDE DEF next
<1>5. metas' \in [Jobs -> Seq(Refs)] /\ done' = [done EXCEPT ![j] = done[j]]
  BY <1>1, <1>2 DEF DispatchInv, Typed
<1>6. Moves(j, next, done[j])
  BY <1>1, <1>2, <1>4, <1>5 DEF Moves
<1>7. jobs'[j] = next
  BY <1>1 DEF DispatchInv, Typed
<1> QED  BY <1>1, <1>3, <1>6, <1>7 DEF next

(* A checkpoint moves the version, and may add the first metadata ref. *)
LEMMA CheckpointMoves ==
  ASSUME DispatchInv, NEW j \in Jobs, NEW version, NEW ref, Checkpoint(j, version, ref),
         ref \in Refs => metas[j] = <<>>,
         NEW dn, done' = [done EXCEPT ![j] = dn],
         dn = done[j] \/ (jobs[j].state = "EXECUTING" /\ dn = jobs[j].attempts),
         UNCHANGED <<running, launched>>
  PROVE  /\ jobs[j] \in JobRow
         /\ Moves(j, [jobs[j] EXCEPT !.version = @ + 1], dn)
         /\ jobs'[j] = [jobs[j] EXCEPT !.version = @ + 1]
         /\ KeepsExecution(jobs[j], jobs'[j])
         /\ metas'[j] = IF ref \in Refs THEN <<ref>> ELSE metas[j]
<1> DEFINE next == [jobs[j] EXCEPT !.version = @ + 1]
<1>1. /\ jobs[j] # None /\ jobs[j].version < MaxVersion
      /\ jobs' = [jobs EXCEPT ![j] = next]
      /\ metas' = IF ref \in Refs THEN [metas EXCEPT ![j] = Append(@, ref)] ELSE metas
  BY DEF Checkpoint, VersionHolds
<1>2. jobs[j] \in JobRow /\ JobOK(jobs[j], RunningOf(j), launched[j], done[j])
  BY <1>1 DEF DispatchInv, Typed, JobsFine
<1>3. /\ next \in JobRow /\ next # None /\ JobOK(next, RunningOf(j), launched[j], dn)
      /\ next.version = jobs[j].version + 1 /\ next.attempts = jobs[j].attempts
      /\ next.state = jobs[j].state /\ next.worker = jobs[j].worker
  BY <1>1, <1>2, CheckpointKeepsJob
<1> HIDE DEF next
<1>4. jobs[j].version \in Nat /\ jobs[j].attempts \in Nat
  BY <1>2 DEF JobRow
<1>5. metas \in [Jobs -> Seq(Refs)]
  BY DEF DispatchInv, Typed
<1>6. /\ metas' \in [Jobs -> Seq(Refs)] /\ \A i \in Jobs \ {j} : metas'[i] = metas[i]
      /\ metas'[j] = IF ref \in Refs THEN <<ref>> ELSE metas[j]
  <2>1. CASE ref \in Refs
    <3>1. metas' = [metas EXCEPT ![j] = <<ref>>]
      BY <1>1, <1>5, <2>1
    <3>2. <<ref>> \in Seq(Refs)
      BY <2>1
    <3> QED  BY <1>5, <2>1, <3>1, <3>2
  <2>2. CASE ref \notin Refs
    BY <1>1, <1>5, <2>2
  <2> QED  BY <2>1, <2>2
<1>7. next.version > jobs[j].version /\ next.attempts >= jobs[j].attempts
  BY <1>3, <1>4
<1>8. Moves(j, next, dn)
  BY <1>1, <1>3, <1>6, <1>7 DEF Moves
<1>9. jobs'[j] = next
  BY <1>1 DEF DispatchInv, Typed
<1> QED  BY <1>2, <1>3, <1>6, <1>8, <1>9 DEF next, KeepsExecution

(* The actor wrote its job's row and ended, or was placed with the new row. *)
LEMMA WriteEnds ==
  ASSUME DispatchInv, NEW d \in Callers, calls[d].at \in WritingSteps,
         VersionHolds(calls[d].job, calls[d].row.version),
         NEW next, NEW dn, Moves(calls[d].job, next, dn), NEW new, Ends(d, next, new)
  PROVE  Fine(d)
<1>1. UnderWay(d)
  BY DEF UnderWay, WritingSteps, CopySteps
<1>2. PICK j \in Jobs : j = calls[d].job
  BY <1>1, CallFacts
<1>3. new \in Call /\ new.at \notin Steps /\ calls' = [calls EXCEPT ![d] = new]
  BY DEF Ends
<1>4. new.at \notin OwnerSteps
  BY <1>3 DEF OwnerSteps, Steps
<1>5. DispatchInv'
  BY <1>1, <1>2, <1>3, <1>4, AloneOnRow, CallAndJob DEF RightAbout, OwnsLike
<1>6. jobs'[calls[d].job] = next
  BY <1>2 DEF Moves, DispatchInv, Typed
<1> QED  BY <1>3, <1>5, <1>6 DEF Fine, Ends

(* The actor wrote its job's row and goes on with the new row. *)
LEMMA WritePlaces ==
  ASSUME DispatchInv, NEW d \in Callers, calls[d].at \in WritingSteps,
         VersionHolds(calls[d].job, calls[d].row.version),
         NEW next, NEW dn, Moves(calls[d].job, next, dn), Place(d, next),
         calls[d].req # None, metas'[calls[d].job] = <<calls[d].req.ref>>
  PROVE  Fine(d)
<1>1. UnderWay(d)
  BY DEF UnderWay, WritingSteps, CopySteps
<1>2. calls[d].job \in Jobs /\ calls[d].worker \in Workers /\ Typed
  BY <1>1, CallFacts DEF DispatchInv
<1>3. next \in JobRow
  BY DEF Moves
<1>4. PICK new : \/ Ends(d, next, new)
                 \/ \E step \in PlacedSteps :
                      GoesOn(d, step, next, new) /\ ChosenFor(step, next.state)
  BY <1>2, <1>3, PlaceGives
<1>5. CASE Ends(d, next, new)
  BY <1>5, WriteEnds
<1>6. ASSUME NEW step \in PlacedSteps, GoesOn(d, step, next, new), ChosenFor(step, next.state)
      PROVE  Fine(d)
  <2>1. /\ CallKnows(new, next, metas'[calls[d].job]) /\ new.at \in Steps \ OwnerSteps
        /\ \A run, la, dn2 : CallOwns(new, next, run, la, dn2)
    BY <1>2, <1>3, <1>6, PlacedKnows
  <2>2. new \in Call /\ calls' = [calls EXCEPT ![d] = new] /\ new.job = calls[d].job
    BY <1>6 DEF GoesOn
  <2>3. PICK j \in Jobs : j = calls[d].job
    BY <1>2
  <2>4. DispatchInv'
    BY <1>1, <2>1, <2>2, <2>3, AloneOnRow, CallAndJob DEF RightAbout, OwnsLike
  <2>5. new.at # "released"
    BY <2>1 DEF Steps
  <2> QED  BY <2>2, <2>4, <2>5 DEF Fine
<1> QED  BY <1>4, <1>5, <1>6

(* create_job begins a job of which nobody has a copy. *)
LEMMA CreateMoves ==
  ASSUME DispatchInv, NEW j \in Jobs, NEW terms \in Terms, NEW max \in Budgets,
         CreateJob(j, terms, max), UNCHANGED ghostVars
  PROVE  /\ Moves(j, NewJob(terms, max), done[j]) /\ NewJob(terms, max) \in JobRow
         /\ metas' = metas
         /\ \A e \in Callers : calls[e].at \in {"launch", "backend"} => calls[e].job # j
<1> DEFINE new == NewJob(terms, max)
<1>1. jobs[j] = None /\ jobs' = [jobs EXCEPT ![j] = new] /\ metas' = metas
  BY DEF CreateJob
<1>2. running' = running /\ launched' = launched /\ done' = done
  BY DEF ghostVars
<1>3. /\ new \in JobRow /\ new.attempts = 0 /\ new.version = 1 /\ new.state = "NEW"
      /\ new.recovery = None /\ new.worker = None /\ new.max \in Nat
  BY JobsAssumption DEF NewJob, JobRow, TaskState
<1>4. new # None
  BY <1>3, JobsAssumption
<1>5. launched[j] = 0 /\ RunningOf(j) = {}
  BY <1>1 DEF DispatchInv, JobsFine, JobOK
<1> HIDE DEF new
<1>6. GoodRow(new)
  BY <1>3 DEF GoodRow, WorkerBound
<1>7. JobOK(new, RunningOf(j), launched[j], done[j])
  BY <1>3, <1>4, <1>5, <1>6, JobsAssumption DEF JobOK, Evidenced
<1>8. metas' \in [Jobs -> Seq(Refs)] /\ done' = [done EXCEPT ![j] = done[j]]
  BY <1>1, <1>2 DEF DispatchInv, Typed
<1>9. Moves(j, new, done[j])
  BY <1>1, <1>2, <1>3, <1>4, <1>7, <1>8 DEF Moves
<1>10. ASSUME NEW e \in Callers, calls[e].at \in {"launch", "backend"}, calls[e].job = j
       PROVE  FALSE
  <2>1. UnderWay(e) /\ calls[e].at \in CopySteps
    BY <1>10 DEF UnderWay, Steps, CopySteps
  <2> QED  BY <1>1, <1>10, <2>1, CallFacts DEF CallKnows, CopyOf
<1> QED  BY <1>1, <1>3, <1>9, <1>10 DEF new

(* create_job of _load_or_create, and JOB_ALREADY_EXISTS. *)
LEMMA CreateFine ==
  ASSUME DispatchInv, NEW d \in Callers, Create(d)
  PROVE  Fine(d)
<1> DEFINE c == calls[d]
<1>1. c.at = "create" /\ UnderWay(d) /\ UNCHANGED ghostVars
  BY DEF Create, UnderWay, Steps
<1>2. PICK j \in Jobs : j = c.job
  BY <1>1, CallFacts
<1>3. c \in Call /\ c.worker \in Workers /\ c.req # None /\ Typed
  BY <1>1, CallFacts DEF DispatchInv, CallKnows, RequestSteps
<1>4. c.req.terms \in Terms /\ c.req.max \in Budgets
  BY <1>3, DispatchAssumption DEF Call, Request
<1>5. CASE CreateJob(c.job, c.req.terms, c.req.max)
           /\ Goto(d, "events", NewJob(c.req.terms, c.req.max))
  <2> DEFINE row == NewJob(c.req.terms, c.req.max)
  <2>1. /\ Moves(j, row, done[j]) /\ row \in JobRow /\ metas' = metas
        /\ \A e \in Callers : calls[e].at \in {"launch", "backend"} => calls[e].job # j
    BY <1>1, <1>2, <1>4, <1>5, CreateMoves
  <2> HIDE DEF row
  <2>2. "events" \in Steps /\ "events" \notin OwnerSteps
    BY DEF Steps, OwnerSteps
  <2>3. PICK new : GoesOn(d, "events", row, new)
    BY <1>3, <1>5, <2>1, <2>2, GotoGoesOn DEF row
  <2>4. /\ new \in Call /\ new.at = "events" /\ new.row = row /\ new.job = j
        /\ new.worker = c.worker /\ new.req = c.req /\ calls' = [calls EXCEPT ![d] = new]
    BY <1>2, <2>3 DEF GoesOn
  <2>5. CopyOf(row, row)
    BY <2>1, JobsAssumption DEF CopyOf, JobRow
  <2>6. CallKnows(new, row, metas'[j])
    BY <1>3, <2>4, <2>5 DEF CallKnows, RecordedSteps, ChosenFor, OwnerSteps
  <2>7. CallOwns(new, row, RunningOf(j), launched[j], done[j])
    BY <2>4 DEF CallOwns, OwnerSteps
  <2>8. DispatchInv'
    BY <1>1, <1>2, <2>1, <2>2, <2>4, <2>6, <2>7, CallAndJob DEF RightAbout, OwnsLike
  <2> QED  BY <2>4, <2>8 DEF Fine
<1>6. CASE jobs[c.job] # None /\ Goto(d, "load", None) /\ UNCHANGED jobVars
  <2>1. "load" \in Steps \ OwnerSteps
    BY DEF Steps, OwnerSteps
  <2>2. PICK new : GoesOn(d, "load", None, new)
    BY <1>3, <1>6, <2>1, GotoGoesOn
  <2>3. CallKnows(new, jobs[c.job], metas[c.job])
    BY <1>2, <1>3, <2>2 DEF CallKnows, GoesOn, CopySteps, RecordedSteps
  <2>4. UNCHANGED <<jobs, metas, ghostVars>>
    BY <1>1, <1>6 DEF jobVars
  <2> QED  BY <2>1, <2>2, <2>3, <2>4, GoesOnFine
<1> QED  BY <1>5, <1>6 DEF Create

(* The metadata checkpoint of _ensure_metadata, at the version of a row without any. *)
LEMMA RecordMetadataFine ==
  ASSUME DispatchInv, NEW d \in Callers, RecordMetadata(d)
  PROVE  Fine(d)
<1> DEFINE c == calls[d]
<1>1. c.at = "meta" /\ c.at \in WritingSteps /\ UnderWay(d) /\ UNCHANGED ghostVars
  BY DEF RecordMetadata, UnderWay, Steps, WritingSteps, CopySteps
<1>2. c \in Call /\ c.job \in Jobs /\ c.req # None /\ CallKnows(c, jobs[c.job], metas[c.job])
  BY <1>1, CallFacts DEF CallKnows, RequestSteps
<1>3. c.req.ref \in Refs
  BY <1>2, DispatchAssumption DEF Call, Request
<1>4. CASE Checkpoint(c.job, c.row.version, c.req.ref) /\ Place(d, jobs'[c.job])
  <2>1. VersionHolds(c.job, c.row.version)
    BY <1>4 DEF Checkpoint
  <2>2. metas[c.job] = <<>>
    BY <1>1, <1>2, <2>1 DEF CallKnows, VersionHolds
  <2>3. done' = [done EXCEPT ![c.job] = done[c.job]] /\ UNCHANGED <<running, launched>>
    BY <1>1, <1>2 DEF ghostVars, DispatchInv, Typed
  <2>4. /\ Moves(c.job, jobs'[c.job], done[c.job])
        /\ metas'[c.job] = <<c.req.ref>>
    <3>1. PICK j, ref, version, dn :
            j = c.job /\ ref = c.req.ref /\ version = c.row.version /\ dn = done[j]
      OBVIOUS
    <3>2. /\ j \in Jobs /\ Checkpoint(j, version, ref) /\ metas[j] = <<>>
          /\ done' = [done EXCEPT ![j] = dn]
      BY <1>2, <1>4, <2>2, <2>3, <3>1
    <3>3. /\ Moves(j, [jobs[j] EXCEPT !.version = @ + 1], dn)
          /\ jobs'[j] = [jobs[j] EXCEPT !.version = @ + 1]
          /\ metas'[j] = IF ref \in Refs THEN <<ref>> ELSE metas[j]
      BY <2>3, <3>1, <3>2, CheckpointMoves
    <3> QED  BY <1>3, <3>1, <3>3
  <2> QED  BY <1>1, <1>2, <1>4, <2>1, <2>4, WritePlaces
<1>5. CASE Reconcile(d) /\ UNCHANGED jobVars
  <2>1. UNCHANGED <<jobs, metas, ghostVars>>
    BY <1>1, <1>5 DEF jobVars
  <2> QED  BY <1>1, <1>5, <2>1, ReconcileFine
<1> QED  BY <1>4, <1>5 DEF RecordMetadata

(* The transitions of a call that do not start its backend *)
LEMMA MoveFine ==
  ASSUME DispatchInv, NEW d \in Callers, calls[d].at \in WritingSteps,
         NEW target \in TaskState \ {"EXECUTING"}, NEW worker \in Workers \cup {None},
         Move(d, target, worker), UNCHANGED ghostVars,
         /\ VersionHolds(calls[d].job, calls[d].row.version)
         /\ MayTransition(jobs[calls[d].job], target, worker, None)
         => /\ RunningOf(calls[d].job) = {}
            /\ target \in Evidenced => /\ jobs[calls[d].job].attempts >= 1
                                       /\ done[calls[d].job] = jobs[calls[d].job].attempts,
         target \notin {"BLOCKED", "VERIFYING"} =>
           calls[d].req # None /\ metas[calls[d].job] = <<calls[d].req.ref>>
  PROVE  Fine(d)
<1> DEFINE c == calls[d]
<1>1. UnderWay(d) /\ c.job \in Jobs /\ Typed
  BY CallFacts DEF UnderWay, WritingSteps, CopySteps, DispatchInv
<1>2. CASE Reconcile(d) /\ UNCHANGED jobVars
  <2>1. UNCHANGED <<jobs, metas, ghostVars>>
    BY <1>2 DEF jobVars
  <2> QED  BY <1>1, <1>2, <2>1, ReconcileFine
<1>3. CASE /\ Transition(c.job, target, c.row.version, worker, None)
           /\ \/ target \in {"BLOCKED", "VERIFYING"} /\ \E action : Answer(d, action, jobs'[c.job])
              \/ target \notin {"BLOCKED", "VERIFYING"} /\ Place(d, jobs'[c.job])
  <2>1. /\ VersionHolds(c.job, c.row.version)
        /\ MayTransition(jobs[c.job], target, worker, None)
    BY <1>3 DEF Transition
  <2>2. Moves(c.job, jobs'[c.job], done[c.job]) /\ metas'[c.job] = metas[c.job]
    BY <1>1, <1>3, <2>1, TransitionMoves
  <2>3. CASE \E action : Answer(d, action, jobs'[c.job])
    <3>1. jobs'[c.job] \in JobRow /\ jobs'[c.job] # None
      BY <2>2 DEF Moves
    <3>2. PICK new : Ends(d, jobs'[c.job], new)
      BY <1>1, <2>3, <3>1, AnswerEnds
    <3> QED  BY <2>1, <2>2, <3>2, WriteEnds
  <2>4. CASE target \notin {"BLOCKED", "VERIFYING"} /\ Place(d, jobs'[c.job])
    BY <2>1, <2>2, <2>4, WritePlaces
  <2> QED  BY <1>3, <2>3, <2>4
<1> QED  BY <1>2, <1>3 DEF Move

(* The transitions to READY, CLAIMED and GATING. *)
LEMMA ClaimStepsFine ==
  ASSUME DispatchInv, NEW d \in Callers, MarkReady(d) \/ Claim(d) \/ Gate(d)
  PROVE  Fine(d)
<1> DEFINE c == calls[d]
<1>1. /\ c.at \in {"ready", "claim", "gate"} /\ UNCHANGED ghostVars
      /\ \E target \in {"READY", "CLAIMED", "GATING"}, worker \in {None, c.worker} :
           Move(d, target, worker)
  BY DEF MarkReady, Claim, Gate
<1>2. UnderWay(d) /\ c.at \in WritingSteps /\ c.at \in RequestSteps /\ c.at \in RecordedSteps
  BY <1>1 DEF UnderWay, Steps, WritingSteps, CopySteps, RequestSteps, RecordedSteps
<1>3. PICK target \in {"READY", "CLAIMED", "GATING"}, worker \in {None, c.worker} :
        Move(d, target, worker)
  BY <1>1
<1>4. /\ c.worker \in Workers /\ c.req # None /\ metas[c.job] = <<c.req.ref>>
      /\ JobOK(jobs[c.job], RunningOf(c.job), launched[c.job], done[c.job])
      /\ jobs[c.job] \in JobRow \cup {None}
  BY <1>2, CallFacts DEF CallKnows
<1>5. target \in TaskState \ {"EXECUTING"} /\ target \notin Evidenced
  BY <1>3 DEF TaskState, Evidenced
<1>6. /\ VersionHolds(c.job, c.row.version)
      /\ MayTransition(jobs[c.job], target, worker, None)
      => RunningOf(c.job) = {}
  BY <1>3, <1>4, NothingRuns DEF VersionHolds
<1> QED  BY <1>1, <1>2, <1>3, <1>4, <1>5, <1>6, MoveFine

(* A claim that is not allowed any more goes to BLOCKED. *)
LEMMA BlockFine ==
  ASSUME DispatchInv, NEW d \in Callers, Block(d)
  PROVE  Fine(d)
<1> DEFINE c == calls[d]
<1>1. c.at = "block" /\ UNCHANGED ghostVars /\ Move(d, "BLOCKED", c.worker)
  BY DEF Block
<1>2. UnderWay(d) /\ c.at \in WritingSteps
  BY <1>1 DEF UnderWay, Steps, WritingSteps, CopySteps
<1>3. /\ c.worker \in Workers
      /\ JobOK(jobs[c.job], RunningOf(c.job), launched[c.job], done[c.job])
  BY <1>2, CallFacts
<1>4. "BLOCKED" \in TaskState \ {"EXECUTING"} /\ "BLOCKED" \notin Evidenced
  BY DEF TaskState, Evidenced
<1>5. ASSUME VersionHolds(c.job, c.row.version)
      PROVE  RunningOf(c.job) = {}
  <2>1. jobs[c.job] # None /\ jobs[c.job].state \in {"CLAIMED", "GATING"}
    BY <1>1, <1>2, <1>5, AloneOnRow DEF ChosenFor, VersionHolds
  <2> QED  BY <1>3, <2>1 DEF JobOK
<1> QED  BY <1>1, <1>2, <1>3, <1>4, <1>5, MoveFine

(* The transition to VERIFYING, after the checkpoint of the same attempt. *)
LEMMA BeginVerifyingFine ==
  ASSUME DispatchInv, NEW d \in Callers, BeginVerifying(d)
  PROVE  Fine(d)
<1> DEFINE c == calls[d]
<1>1. c.at = "verify" /\ UNCHANGED ghostVars /\ Move(d, "VERIFYING", c.worker)
  BY DEF BeginVerifying
<1>2. UnderWay(d) /\ c.at \in WritingSteps
  BY <1>1 DEF UnderWay, Steps, WritingSteps, CopySteps
<1>3. /\ c.worker \in Workers
      /\ JobOK(jobs[c.job], RunningOf(c.job), launched[c.job], done[c.job])
      /\ CallOwns(c, jobs[c.job], RunningOf(c.job), launched[c.job], done[c.job])
  BY <1>2, CallFacts
<1>4. "VERIFYING" \in TaskState \ {"EXECUTING"}
  BY DEF TaskState
<1>5. ASSUME VersionHolds(c.job, c.row.version)
      PROVE  /\ RunningOf(c.job) = {}
             /\ jobs[c.job].attempts >= 1 /\ done[c.job] = jobs[c.job].attempts
  <2>1. jobs[c.job] # None /\ jobs[c.job] = c.row
    BY <1>2, <1>5, AloneOnRow DEF VersionHolds
  <2>2. /\ c.row.attempts >= 1 /\ c.row.attempts \notin RunningOf(c.job)
        /\ c.row.attempts = jobs[c.job].attempts => done[c.job] = jobs[c.job].attempts
    BY <1>1, <1>3 DEF CallOwns, OwnerSteps
  <2>3. \A n \in RunningOf(c.job) : n = jobs[c.job].attempts
    BY <1>3, <2>1 DEF JobOK
  <2> QED  BY <2>1, <2>2, <2>3
<1> QED  BY <1>1, <1>2, <1>3, <1>4, <1>5, MoveFine

(* The transition to EXECUTING takes an attempt that was never anybody's. *)
LEMMA BeginExecutingFine ==
  ASSUME DispatchInv, NEW d \in Callers, BeginExecuting(d)
  PROVE  Fine(d)
<1> DEFINE c == calls[d]
<1>1. c.at = "executing" /\ UNCHANGED ghostVars /\ Move(d, "EXECUTING", c.worker)
  BY DEF BeginExecuting
<1>2. UnderWay(d) /\ c.at \in WritingSteps /\ c.at \in RecordedSteps
  BY <1>1 DEF UnderWay, Steps, WritingSteps, CopySteps, RecordedSteps
<1>3. /\ c \in Call /\ c.job \in Jobs /\ c.worker \in Workers /\ Typed
      /\ JobOK(jobs[c.job], RunningOf(c.job), launched[c.job], done[c.job])
      /\ c.req # None => metas[c.job] = <<c.req.ref>>
      /\ launched[c.job] \in Nat
  BY <1>2, CallFacts DEF DispatchInv, CallKnows
<1>4. CASE Reconcile(d) /\ UNCHANGED jobVars
  <2>1. UNCHANGED <<jobs, metas, ghostVars>>
    BY <1>1, <1>4 DEF jobVars
  <2> QED  BY <1>2, <1>4, <2>1, ReconcileFine
<1>5. CASE /\ Transition(c.job, "EXECUTING", c.row.version, c.worker, None)
           /\ Goto(d, "launch", jobs'[c.job])
  <2>1. PICK j \in Jobs : j = c.job
    BY <1>3
  <2>2. /\ VersionHolds(j, c.row.version) /\ jobs[j] # None
        /\ MayTransition(jobs[j], "EXECUTING", c.worker, None)
    BY <1>5, <2>1 DEF Transition, VersionHolds
  <2>3. jobs[j] = c.row /\ c.row.state = "GATING" /\ c.row \in JobRow
    BY <1>1, <1>2, <2>1, <2>2, AloneOnRow DEF ChosenFor
  <2>4. RunningOf(j) = {}
    BY <1>3, <2>1, <2>2, <2>3 DEF JobOK
  <2> DEFINE next == PlanTransition(jobs[j], "EXECUTING", c.worker, None)
  <2>5. Moves(j, next, done[j]) /\ jobs'[j] = next /\ metas'[j] = metas[j]
    <3>1. "EXECUTING" \in TaskState /\ "EXECUTING" \notin Evidenced
      BY DEF TaskState, Evidenced
    <3> QED  BY <1>1, <1>3, <1>5, <2>1, <2>4, <3>1, TransitionMoves
  <2>6. /\ next.state = "EXECUTING" /\ next.worker = jobs[j].worker
        /\ next.attempts = jobs[j].attempts + 1
    BY <2>3, PlanFields DEF ReleaseClaim, Terminal
  <2>7. jobs[j].worker = c.worker
    BY <1>3, <2>2, <2>3, JobsAssumption DEF MayTransition
  <2> HIDE DEF next
  <2>8. PICK new : GoesOn(d, "launch", next, new)
    <3>1. "launch" \in Steps /\ next \in JobRow
      BY <2>5 DEF Steps, Moves
    <3> QED  BY <1>3, <1>5, <2>1, <2>5, <3>1, GotoGoesOn
  <2>9. /\ new \in Call /\ new.at = "launch" /\ new.row = next /\ new.job = j
        /\ new.worker = c.worker /\ new.req = c.req /\ calls' = [calls EXCEPT ![d] = new]
    BY <2>1, <2>8 DEF GoesOn
  <2>10. /\ next \in JobRow /\ next # None /\ next.version \in Nat /\ next.attempts \in Nat
         /\ jobs[j].attempts \in Nat
    BY <2>3, <2>5 DEF Moves, JobRow
  <2>11. CopyOf(next, next)
    BY <2>10 DEF CopyOf
  <2>12. CallKnows(new, next, metas'[j])
    BY <1>3, <2>1, <2>5, <2>6, <2>9, <2>11 DEF CallKnows, RequestSteps, ChosenFor, OwnerSteps
  <2>13. launched[j] <= jobs[j].attempts
    BY <1>3, <2>1, <2>2 DEF JobOK
  <2>14. CallOwns(new, next, RunningOf(j), launched[j], done[j])
    BY <1>3, <2>1, <2>6, <2>7, <2>9, <2>10, <2>13 DEF CallOwns, OwnerSteps
  <2>15. OwnsLike(d, new)
    BY <2>1, <2>6, <2>9, <2>10 DEF OwnsLike
  <2>16. \A e \in Callers \ {d} : calls[e].at \in {"launch", "backend"} => calls[e].job # j
    BY <1>2, <2>1, <2>2, AloneOnRow
  <2>17. DispatchInv'
    BY <1>2, <2>1, <2>5, <2>9, <2>12, <2>14, <2>15, <2>16, CallAndJob DEF RightAbout
  <2> QED  BY <2>9, <2>17 DEF Fine
<1> QED  BY <1>1, <1>4, <1>5 DEF Move

(* _recover_after_backend: what may still run is recorded as UNKNOWN. *)
LEMMA RecoverFine ==
  ASSUME DispatchInv, NEW d \in Callers, Recover(d)
  PROVE  Fine(d)
<1> DEFINE c == calls[d]
<1>1. c.at = "recover" /\ UNCHANGED ghostVars
  BY DEF Recover
<1>2. UnderWay(d) /\ c.at \in WritingSteps
  BY <1>1 DEF UnderWay, Steps, WritingSteps, CopySteps
<1>3. /\ c \in Call /\ c.job \in Jobs /\ Typed
      /\ JobOK(jobs[c.job], RunningOf(c.job), launched[c.job], done[c.job])
      /\ CallOwns(c, jobs[c.job], RunningOf(c.job), launched[c.job], done[c.job])
  BY <1>2, CallFacts DEF DispatchInv
<1>4. CASE Reconcile(d) /\ UNCHANGED jobVars
  <2>1. UNCHANGED <<jobs, metas, ghostVars>>
    BY <1>1, <1>4 DEF jobVars
  <2> QED  BY <1>2, <1>4, <2>1, ReconcileFine
<1>5. CASE /\ Transition(c.job, "RECOVERY_NEEDED", c.row.version, c.row.worker, c.recovery)
           /\ Answer(d, "RECONCILE", jobs'[c.job])
  <2>1. VersionHolds(c.job, c.row.version) /\ jobs[c.job] # None
    BY <1>5 DEF Transition, VersionHolds
  <2>2. jobs[c.job] = c.row /\ c.row \in JobRow
    BY <1>2, <2>1, AloneOnRow
  <2>3. c.row.worker \in Workers \cup {None} /\ c.recovery \in RecoveryClassification \cup {None}
    BY <1>3, <2>2 DEF Call, JobRow
  <2>4. RunningOf(c.job) = {} \/ c.recovery = "UNKNOWN"
    <3>1. c.recovery # "UNKNOWN" => c.row.attempts \notin RunningOf(c.job)
      BY <1>1, <1>3 DEF CallOwns
    <3>2. \A n \in RunningOf(c.job) : n = c.row.attempts
      BY <1>3, <2>1, <2>2 DEF JobOK
    <3> QED  BY <3>1, <3>2
  <2>5. "RECOVERY_NEEDED" \in TaskState /\ "RECOVERY_NEEDED" \notin Evidenced
    BY DEF TaskState, Evidenced
  <2>6. Moves(c.job, jobs'[c.job], done[c.job])
    BY <1>1, <1>3, <1>5, <2>3, <2>4, <2>5, TransitionMoves
  <2>7. jobs'[c.job] \in JobRow /\ jobs'[c.job] # None
    BY <2>6 DEF Moves
  <2>8. PICK new : Ends(d, jobs'[c.job], new)
    BY <1>3, <1>5, <2>7, AnswerEnds
  <2> QED  BY <1>2, <2>1, <2>6, <2>8, WriteEnds
<1> QED  BY <1>4, <1>5 DEF Recover

(* The completion checkpoint of the attempt the call owns. *)
LEMMA RecordCompletionFine ==
  ASSUME DispatchInv, NEW d \in Callers, RecordCompletion(d)
  PROVE  Fine(d)
<1> DEFINE c == calls[d]
<1>1. c.at = "checkpoint" /\ UNCHANGED <<running, launched>>
  BY DEF RecordCompletion
<1>2. UnderWay(d) /\ c.at \in WritingSteps /\ c.at \in RecordedSteps /\ c.at \in OwnerSteps
  BY <1>1 DEF UnderWay, Steps, WritingSteps, CopySteps, RecordedSteps, OwnerSteps
<1>3. /\ c \in Call /\ c.job \in Jobs /\ c.worker \in Workers /\ Typed
      /\ c.req # None => metas[c.job] = <<c.req.ref>>
      /\ CallOwns(c, jobs[c.job], RunningOf(c.job), launched[c.job], done[c.job])
  BY <1>2, CallFacts DEF DispatchInv, CallKnows
<1>4. CASE Reconcile(d) /\ UNCHANGED <<jobs, metas, done>>
  <2>1. UNCHANGED <<jobs, metas, ghostVars>>
    BY <1>1, <1>4 DEF ghostVars
  <2> QED  BY <1>2, <1>4, <2>1, ReconcileFine
<1>5. CASE /\ Checkpoint(c.job, c.row.version, OtherRef)
           /\ Goto(d, "verify", jobs'[c.job])
           /\ done' = [done EXCEPT ![c.job] = c.row.attempts]
  <2>1. PICK j \in Jobs : j = c.job
    BY <1>3
  <2>2. VersionHolds(j, c.row.version)
    BY <1>5, <2>1 DEF Checkpoint
  <2>3. jobs[j] = c.row /\ c.row.state = "EXECUTING" /\ c.row \in JobRow
    BY <1>2, <2>1, <2>2, AloneOnRow DEF ChosenFor
  <2> DEFINE next == jobs'[j]
  <2>4. /\ Moves(j, next, c.row.attempts) /\ KeepsExecution(jobs[j], next)
        /\ metas'[j] = metas[j]
    <3>1. PICK version, dn : version = c.row.version /\ dn = c.row.attempts
      OBVIOUS
    <3>2. Checkpoint(j, version, OtherRef) /\ done' = [done EXCEPT ![j] = dn]
      BY <1>5, <2>1, <3>1
    <3>3. OtherRef \notin Refs
      BY JobsAssumption
    <3>4. /\ Moves(j, [jobs[j] EXCEPT !.version = @ + 1], dn)
          /\ jobs'[j] = [jobs[j] EXCEPT !.version = @ + 1]
          /\ KeepsExecution(jobs[j], jobs'[j])
          /\ metas'[j] = IF OtherRef \in Refs THEN <<OtherRef>> ELSE metas[j]
      BY <1>1, <2>3, <3>1, <3>2, <3>3, CheckpointMoves
    <3> QED  BY <3>1, <3>3, <3>4
  <2> HIDE DEF next
  <2>5. /\ next \in JobRow /\ next # None /\ next.version \in Nat /\ next.attempts \in Nat
        /\ next.state = "EXECUTING" /\ next.attempts = c.row.attempts
    BY <2>3, <2>4 DEF Moves, KeepsExecution, JobRow
  <2>6. PICK new : GoesOn(d, "verify", next, new)
    <3>1. "verify" \in Steps
      BY DEF Steps
    <3> QED  BY <1>3, <1>5, <2>1, <2>5, <3>1, GotoGoesOn DEF next
  <2>7. /\ new \in Call /\ new.at = "verify" /\ new.row = next /\ new.job = j
        /\ new.worker = c.worker /\ new.req = c.req /\ calls' = [calls EXCEPT ![d] = new]
    BY <2>1, <2>6 DEF GoesOn
  <2>8. CopyOf(next, next)
    BY <2>5 DEF CopyOf
  <2>9. CallKnows(new, next, metas'[j])
    BY <1>3, <2>1, <2>4, <2>5, <2>7, <2>8 DEF CallKnows, RequestSteps, ChosenFor
  <2>10. c.row.attempts >= 1 /\ c.row.attempts \notin RunningOf(j)
    BY <1>1, <1>3, <2>1 DEF CallOwns, OwnerSteps
  <2>11. CallOwns(new, next, RunningOf(j), launched[j], c.row.attempts)
    BY <2>5, <2>7, <2>10 DEF CallOwns
  <2>12. OwnsLike(d, new)
    BY <1>2, <2>1, <2>5, <2>7 DEF OwnsLike
  <2>13. DispatchInv'
    BY <1>2, <2>1, <2>4, <2>7, <2>9, <2>11, <2>12, CallAndJob DEF RightAbout
  <2> QED  BY <2>7, <2>13 DEF Fine
<1> QED  BY <1>4, <1>5 DEF RecordCompletion

(* A transition that the operator or the closeout asks for *)
LEMMA OperatorMoves ==
  ASSUME DispatchInv, NEW j \in Jobs, NEW version, NEW worker \in Workers \cup {None},
         NEW target \in {"READY", "CLAIMED", "GATING", "REVIEW_PENDING", "COMPLETE"},
         target \in Evidenced => jobs[j].state \in Evidenced,
         Transition(j, target, version, worker, None), UNCHANGED <<calls, ghostVars>>
  PROVE  DispatchInv'
<1>1. jobs[j] # None /\ MayTransition(jobs[j], target, worker, None)
  BY DEF Transition, VersionHolds
<1>2. /\ jobs[j] \in JobRow
      /\ JobOK(jobs[j], RunningOf(j), launched[j], done[j])
  BY <1>1 DEF DispatchInv, Typed, JobsFine
<1>3. RunningOf(j) = {}
  BY <1>1, <1>2, NothingRuns
<1>4. jobs[j].state # "EXECUTING"
  BY <1>1 DEF MayTransition, AllowedTransitions
<1>5. target \in Evidenced => jobs[j].attempts >= 1 /\ done[j] = jobs[j].attempts
  BY <1>1, <1>2 DEF JobOK
<1>6. target \in TaskState
  BY DEF TaskState, Terminal
<1>7. UNCHANGED ghostVars /\ UNCHANGED calls
  OBVIOUS
<1>8. Moves(j, jobs'[j], done[j])
  BY <1>3, <1>5, <1>6, <1>7, TransitionMoves
<1>9. ASSUME NEW e \in Callers, calls[e].at \in {"launch", "backend"}, calls[e].job = j
      PROVE  FALSE
  <2>1. UnderWay(e)
    BY <1>9 DEF UnderWay, Steps
  <2> QED  BY <1>4, <1>9, <2>1, CallFacts DEF CallOwns
<1> QED  BY <1>7, <1>8, <1>9, JobAlone

(* The requests of an operator take no running job away from its call. *)
LEMMA OperatorRequestsFine ==
  ASSUME DispatchInv, NEW j \in Jobs, OperatorRequests(j)
  PROVE  DispatchInv'
<1>1. UNCHANGED <<calls, ghostVars>>
  BY DEF OperatorRequests
<1>2. ASSUME NEW terms \in Terms, NEW max \in Budgets, CreateJob(j, terms, max)
      PROVE  DispatchInv'
  <2>1. UNCHANGED ghostVars /\ UNCHANGED calls
    BY <1>1
  <2> QED  BY <1>2, <2>1, CreateMoves, JobAlone
<1>3. ASSUME NEW target \in {"READY", "CLAIMED", "GATING"}, NEW worker \in Workers \cup {None},
             Transition(j, target, jobs[j].version, worker, None)
      PROVE  DispatchInv'
  <2>1. target \notin Evidenced
    BY DEF Evidenced
  <2> QED  BY <1>1, <1>3, <2>1, OperatorMoves
<1>4. CASE Checkpoint(j, jobs[j].version, OtherRef)
  <2>1. done' = [done EXCEPT ![j] = done[j]] /\ UNCHANGED <<running, launched>> /\ UNCHANGED calls
    BY <1>1 DEF ghostVars, DispatchInv, Typed
  <2>2. PICK version, dn : version = jobs[j].version /\ dn = done[j]
    OBVIOUS
  <2>3. OtherRef \notin Refs
    BY JobsAssumption
  <2>4. /\ Moves(j, [jobs[j] EXCEPT !.version = @ + 1], dn)
        /\ jobs'[j] = [jobs[j] EXCEPT !.version = @ + 1]
        /\ KeepsExecution(jobs[j], jobs'[j])
    BY <1>4, <2>1, <2>2, <2>3, CheckpointMoves
  <2>5. PICK next : next = jobs'[j]
    OBVIOUS
  <2>6. Moves(j, next, done[j]) /\ KeepsExecution(jobs[j], next)
    BY <2>2, <2>4, <2>5
  <2> QED  BY <2>1, <2>6, JobAlone
<1> QED  BY <1>2, <1>3, <1>4 DEF OperatorRequests

(* Nor do the transitions of a closeout. *)
LEMMA CloseoutFine ==
  ASSUME DispatchInv, NEW j \in Jobs, Closeout(j)
  PROVE  DispatchInv'
<1>1. /\ UNCHANGED <<calls, ghostVars>> /\ jobs[j].state \in Evidenced
      /\ \E target \in {"REVIEW_PENDING", "COMPLETE"} :
           Transition(j, target, jobs[j].version, None, None)
  BY DEF Closeout, Evidenced
<1> QED  BY <1>1, OperatorMoves

-------------------------------------------------------------------------------
(* The steps that start or end an execution *)

(* The executions of job j change, its row does not. *)
LEMMA ExecutionStep ==
  ASSUME DispatchInv, NEW j \in Jobs, jobs' = jobs, metas' = metas, done' = done,
         calls' \in [Callers -> Call], NEW run \in SUBSET Nat, NEW la \in Nat,
         running' \in SUBSET (Jobs \X Nat), RunningOf(j)' = run,
         \A i \in Jobs \ {j} : RunningOf(i)' = RunningOf(i),
         launched' = [launched EXCEPT ![j] = la]
  PROVE  Typed' /\ OnlyJob(j) /\ Onward(j) /\ launched'[j] = la
<1>1. Typed'
  BY DEF DispatchInv, Typed
<1>2. OnlyJob(j)
  BY DEF DispatchInv, Typed, OnlyJob
<1> QED  BY <1>1, <1>2 DEF Onward, DispatchInv, Typed

(* backend.execute begins: the attempt is the call's alone and was not started before. *)
LEMMA LaunchFine ==
  ASSUME DispatchInv, NEW d \in Callers, Launch(d)
  PROVE  Fine(d)
<1> DEFINE c == calls[d]
<1>1. /\ c.at = "launch" /\ UnderWay(d) /\ jobs' = jobs /\ metas' = metas /\ done' = done
      /\ Goto(d, "backend", c.row) /\ running' = running \cup {<<c.job, c.row.attempts>>}
      /\ launched' = [launched EXCEPT ![c.job] = @ + 1]
  BY DEF Launch, UnderWay, Steps
<1>2. c.at \in OwnerSteps /\ c.at \in CopySteps /\ c.at \in RecordedSteps
  BY <1>1 DEF OwnerSteps, CopySteps, RecordedSteps, Steps
<1>3. PICK j \in Jobs : j = c.job
  BY <1>1, CallFacts
<1>4. /\ c \in Call /\ c.worker \in Workers /\ Typed
      /\ CallKnows(c, jobs[j], metas[j])
      /\ CallOwns(c, jobs[j], RunningOf(j), launched[j], done[j])
      /\ JobOK(jobs[j], RunningOf(j), launched[j], done[j])
      /\ launched[j] \in Nat /\ jobs[j] \in JobRow \cup {None}
  BY <1>1, <1>3, CallFacts DEF DispatchInv
<1>5. PICK a : a = c.row.attempts
  OBVIOUS
<1>6. /\ c.row \in JobRow /\ jobs[j] # None /\ jobs[j] \in JobRow /\ a \in Nat /\ a >= 1
      /\ jobs[j].state = "EXECUTING" /\ jobs[j].worker = c.worker /\ jobs[j].attempts = a
      /\ launched[j] < a
  BY <1>1, <1>2, <1>4, <1>5 DEF CallKnows, CallOwns, CopyOf, JobRow
<1>7. PICK new : GoesOn(d, "backend", c.row, new)
  <2>1. "backend" \in Steps
    BY DEF Steps
  <2> QED  BY <1>1, <1>4, <1>6, <2>1, GotoGoesOn
<1>8. /\ new \in Call /\ new.at = "backend" /\ new.row = c.row /\ new.job = j
      /\ new.worker = c.worker /\ new.req = c.req /\ calls' = [calls EXCEPT ![d] = new]
  BY <1>3, <1>7 DEF GoesOn
<1>9. /\ calls'[d] = new /\ \A e \in Callers \ {d} : calls'[e] = calls[e]
      /\ calls' \in [Callers -> Call]
  BY <1>4, <1>8 DEF Typed
<1>10. /\ RunningOf(j)' = RunningOf(j) \cup {a} /\ RunningOf(j) \cup {a} \in SUBSET Nat
       /\ \A i \in Jobs \ {j} : RunningOf(i)' = RunningOf(i)
       /\ running' \in SUBSET (Jobs \X Nat)
  BY <1>1, <1>3, <1>4, <1>5, <1>6 DEF RunningOf, Typed
<1>11. Typed' /\ OnlyJob(j) /\ Onward(j) /\ launched'[j] = launched[j] + 1
  <2>1. PICK la \in Nat : la = launched[j] + 1
    BY <1>4
  <2>2. launched' = [launched EXCEPT ![j] = la]
    BY <1>1, <1>3, <2>1
  <2>3. PICK run \in SUBSET Nat : run = RunningOf(j) \cup {a}
    BY <1>10
  <2>4. RunningOf(j)' = run
    BY <1>10, <2>3
  <2>5. Typed' /\ OnlyJob(j) /\ Onward(j) /\ launched'[j] = la
    BY <1>1, <1>9, <1>10, <2>2, <2>4, ExecutionStep
  <2> QED  BY <2>1, <2>5
<1>12. JobOK(jobs'[j], RunningOf(j)', launched'[j], done'[j])
  BY <1>1, <1>4, <1>6, <1>10, <1>11 DEF JobOK, Evidenced
<1>13. ASSUME NEW e \in Callers \ {d}, calls[e].at \in OwnerSteps, calls[e].job = j
       PROVE  calls[e].row.attempts # a
  BY <1>2, <1>3, <1>5, <1>13 DEF DispatchInv, OwnersDiffer
<1>14. ASSUME NEW e \in Callers \ {d}, calls[e].job = j
       PROVE  calls[e].at \notin {"launch", "backend"}
  <2>1. SUFFICES ASSUME calls[e].at \in {"launch", "backend"}  PROVE FALSE
    OBVIOUS
  <2>2. UnderWay(e) /\ calls[e].at \in OwnerSteps
    BY <2>1 DEF UnderWay, Steps, OwnerSteps
  <2>3. jobs[j].attempts = calls[e].row.attempts
    BY <1>14, <2>1, <2>2, CallFacts DEF CallOwns
  <2> QED  BY <1>6, <1>13, <1>14, <2>2, <2>3
<1>15. \A e \in Callers \ {d} : Spares(e, j)
  BY <1>10, <1>13, <1>14 DEF Spares
<1>16. CallFine(d)'
  <2>1. CallKnows(new, jobs[j], metas[j])
    BY <1>1, <1>2, <1>4, <1>8 DEF CallKnows, ChosenFor, RequestSteps, CopySteps, Steps, OwnerSteps
  <2>2. \A run, la, dn : CallOwns(new, jobs[j], run, la, dn)
    BY <1>5, <1>6, <1>8 DEF CallOwns
  <2> QED  BY <1>1, <1>8, <1>9, <2>1, <2>2 DEF CallFine
<1> DEFINE A == {d}
<1>17. /\ A \in SUBSET Callers
       /\ \A e \in Callers \ A : calls'[e] = calls[e] /\ Spares(e, j)
       /\ \A e \in A : CallFine(e)'
       /\ \A b \in A, e \in Callers :
            /\ b # e /\ calls'[b].at \in OwnerSteps /\ calls'[e].at \in OwnerSteps
            /\ calls'[b].job = calls'[e].job
            => calls'[b].row.attempts # calls'[e].row.attempts
  BY <1>5, <1>8, <1>9, <1>13, <1>15, <1>16, Zenon
<1> HIDE DEF A
<1>18. DispatchInv'
  BY <1>11, <1>12, <1>17, Assemble
<1> QED  BY <1>8, <1>18 DEF Fine

(* A backend that answers has ended: call d goes on without it. *)
LEMMA BackendEnds ==
  ASSUME DispatchInv, NEW d \in Callers, calls[d].at = "backend",
         NEW new \in Call, calls' = [calls EXCEPT ![d] = new],
         new.at \in {"checkpoint", "recover"},
         new.row = calls[d].row, new.job = calls[d].job, new.worker = calls[d].worker,
         new.req = calls[d].req,
         running' = running \ {<<calls[d].job, calls[d].row.attempts>>},
         UNCHANGED <<jobs, metas, launched, done>>
  PROVE  Fine(d)
<1> DEFINE c == calls[d]
<1>1. /\ c.at \in OwnerSteps /\ UnderWay(d)
      /\ jobs' = jobs /\ metas' = metas /\ done' = done /\ launched' = launched
  BY DEF OwnerSteps, UnderWay, Steps
<1>2. PICK j \in Jobs : j = c.job
  BY <1>1, CallFacts
<1>3. /\ Typed
      /\ CallKnows(c, jobs[j], metas[j])
      /\ CallOwns(c, jobs[j], RunningOf(j), launched[j], done[j])
      /\ JobOK(jobs[j], RunningOf(j), launched[j], done[j])
      /\ launched[j] \in Nat
  BY <1>1, <1>2, CallFacts DEF DispatchInv
<1>4. PICK a : a = c.row.attempts
  OBVIOUS
<1>5. /\ calls'[d] = new /\ \A e \in Callers \ {d} : calls'[e] = calls[e]
      /\ calls' \in [Callers -> Call]
  BY <1>3 DEF Typed
<1>6. /\ RunningOf(j)' = RunningOf(j) \ {a} /\ RunningOf(j) \ {a} \in SUBSET Nat
      /\ \A i \in Jobs \ {j} : RunningOf(i)' = RunningOf(i)
      /\ running' \in SUBSET (Jobs \X Nat)
  BY <1>2, <1>3, <1>4 DEF RunningOf, Typed
<1>7. Typed' /\ OnlyJob(j) /\ Onward(j) /\ launched'[j] = launched[j]
  <2>1. launched' = [launched EXCEPT ![j] = launched[j]]
    BY <1>1, <1>3 DEF Typed
  <2>2. PICK la \in Nat : la = launched[j]
    BY <1>3
  <2>3. PICK run \in SUBSET Nat : run = RunningOf(j) \ {a}
    BY <1>6
  <2> QED  BY <1>1, <1>5, <1>6, <2>1, <2>2, <2>3, ExecutionStep
<1>8. JobOK(jobs'[j], RunningOf(j)', launched'[j], done'[j])
  BY <1>1, <1>3, <1>6, <1>7 DEF JobOK
<1>9. \A e \in Callers \ {d} : Spares(e, j)
  BY <1>1, <1>6, <1>7 DEF Spares
<1>10. CallFine(d)'
  <2>1. CallKnows(new, jobs[j], metas[j])
    BY <1>3 DEF CallKnows, ChosenFor, RequestSteps, CopySteps, RecordedSteps, Steps, OwnerSteps
  <2>2. a >= 1
    BY <1>1, <1>3, <1>4 DEF CallOwns
  <2>3. CallOwns(new, jobs[j], RunningOf(j)', launched[j], done[j])
    BY <1>4, <1>6, <2>2 DEF CallOwns
  <2>4. j = new.job
    BY <1>2
  <2> QED  BY <1>1, <1>5, <2>1, <2>3, <2>4 DEF CallFine, RunningOf
<1>11. ASSUME NEW e \in Callers \ {d}, calls[e].at \in OwnerSteps, calls[e].job = j
       PROVE  calls[e].row.attempts # a
  BY <1>1, <1>2, <1>4, <1>11 DEF DispatchInv, OwnersDiffer
<1> DEFINE A == {d}
<1>12. /\ A \in SUBSET Callers
       /\ \A e \in Callers \ A : calls'[e] = calls[e] /\ Spares(e, j)
       /\ \A e \in A : CallFine(e)'
       /\ \A b \in A, e \in Callers :
            /\ b # e /\ calls'[b].at \in OwnerSteps /\ calls'[e].at \in OwnerSteps
            /\ calls'[b].job = calls'[e].job
            => calls'[b].row.attempts # calls'[e].row.attempts
  BY <1>2, <1>4, <1>5, <1>9, <1>10, <1>11, Zenon
<1> HIDE DEF A
<1>13. DispatchInv'
  BY <1>7, <1>8, <1>12, Assemble
<1> QED  BY <1>13 DEF Fine

(* A backend that succeeded. *)
LEMMA BackendSucceedsFine ==
  ASSUME DispatchInv, NEW d \in Callers, BackendSucceeds(d)
  PROVE  Fine(d)
<1>1. /\ calls[d].at = "backend" /\ UNCHANGED <<jobs, metas, launched, done>>
      /\ running' = running \ {<<calls[d].job, calls[d].row.attempts>>}
      /\ Goto(d, "checkpoint", calls[d].row) /\ Typed
  BY DEF BackendSucceeds, DispatchInv
<1>2. calls[d].row \in JobRow \cup {None} /\ "checkpoint" \in Steps
  BY <1>1 DEF Typed, Call, Steps
<1>3. PICK new : GoesOn(d, "checkpoint", calls[d].row, new)
  BY <1>1, <1>2, GotoGoesOn
<1> QED  BY <1>1, <1>3, BackendEnds DEF GoesOn

(* A backend that failed and says how. *)
LEMMA BackendReportsFine ==
  ASSUME DispatchInv, NEW d \in Callers, NEW classification \in Failures,
         BackendReports(d, classification)
  PROVE  Fine(d)
<1> DEFINE new == [calls[d] EXCEPT !.at = "recover", !.recovery = classification]
<1>1. /\ calls[d].at = "backend" /\ UNCHANGED <<jobs, metas, launched, done>>
      /\ running' = running \ {<<calls[d].job, calls[d].row.attempts>>}
      /\ calls[d] \in Call
  BY DEF BackendReports, DispatchInv, Typed
<1>2. calls' = [calls EXCEPT ![d] = new]
  BY DEF BackendReports, DispatchInv, Typed
<1>3. /\ new \in Call /\ new.at = "recover" /\ new.row = calls[d].row
      /\ new.job = calls[d].job /\ new.worker = calls[d].worker /\ new.req = calls[d].req
  BY <1>1, DispatchAssumption DEF Call, Steps
<1> HIDE DEF new
<1> QED  BY <1>1, <1>2, <1>3, BackendEnds

(* What a lost call had started ends. *)
LEMMA OrphanEndsFine ==
  ASSUME DispatchInv, NEW j \in Jobs, NEW attempt, OrphanEnds(j, attempt)
  PROVE  DispatchInv'
<1>1. /\ jobs' = jobs /\ metas' = metas /\ calls' = calls /\ done' = done /\ launched' = launched
      /\ running' = running \ {<<j, attempt>>}
  BY DEF OrphanEnds
<1>2. Typed /\ launched[j] \in Nat /\ JobOK(jobs[j], RunningOf(j), launched[j], done[j])
  BY DEF DispatchInv, Typed, JobsFine
<1>3. /\ RunningOf(j)' = RunningOf(j) \ {attempt} /\ RunningOf(j) \ {attempt} \in SUBSET Nat
      /\ \A i \in Jobs \ {j} : RunningOf(i)' = RunningOf(i)
      /\ running' \in SUBSET (Jobs \X Nat)
  BY <1>1, <1>2 DEF RunningOf, Typed
<1>4. Typed' /\ OnlyJob(j) /\ Onward(j)
  <2>1. launched' = [launched EXCEPT ![j] = launched[j]] /\ calls' \in [Callers -> Call]
    BY <1>1, <1>2 DEF Typed
  <2>2. PICK la \in Nat : la = launched[j]
    BY <1>2
  <2>3. PICK run \in SUBSET Nat : run = RunningOf(j) \ {attempt}
    BY <1>3
  <2> QED  BY <1>1, <1>3, <2>1, <2>2, <2>3, ExecutionStep
<1>5. JobOK(jobs'[j], RunningOf(j)', launched'[j], done'[j])
  BY <1>1, <1>2, <1>3 DEF JobOK
<1> DEFINE A == {}
<1>6. \A e \in Callers : calls'[e] = calls[e] /\ Spares(e, j)
  BY <1>1, <1>3 DEF Spares
<1>7. /\ A \in SUBSET Callers
      /\ \A e \in Callers \ A : calls'[e] = calls[e] /\ Spares(e, j)
      /\ \A e \in A : CallFine(e)'
      /\ \A b \in A, e \in Callers :
           /\ b # e /\ calls'[b].at \in OwnerSteps /\ calls'[e].at \in OwnerSteps
           /\ calls'[b].job = calls'[e].job
           => calls'[b].row.attempts # calls'[e].row.attempts
  BY <1>6, Zenon
<1> HIDE DEF A
<1> QED  BY <1>4, <1>5, <1>7, Assemble

-------------------------------------------------------------------------------
(* The theorems *)

(* The empty store and no calls. *)
LEMMA InitFine ==
  ASSUME DispatchInit
  PROVE  DispatchInv
<1> USE DEF DispatchInit, JobsInit
<1>1. NoCall \in Call /\ NoCall.at = "idle"
  BY DEF NoCall, Call
<1>2. Typed
  BY <1>1 DEF Typed
<1>3. \A j \in Jobs : RunningOf(j) = {}
  BY DEF RunningOf
<1>4. JobsFine
  BY <1>3 DEF JobsFine, JobOK
<1>5. \A d \in Callers : calls[d].at = "idle"
  BY <1>1
<1>6. OwnersDiffer /\ \A d \in Callers : CallFine(d)
  BY <1>5 DEF OwnersDiffer, CallFine, UnderWay, OwnerSteps, Steps
<1> QED  BY <1>2, <1>4, <1>6 DEF DispatchInv

(* Every step is a call's, which is fine, or leaves the calls alone. *)
LEMMA NextFine ==
  ASSUME DispatchInv, DispatchNext
  PROVE  \/ \E d \in Callers : Fine(d)
         \/ DispatchInv' /\ UNCHANGED calls
<1>1. ASSUME NEW d \in Callers,
             \/ \E req \in Requests, allowed \in BOOLEAN : Dispatch(d, req, allowed)
             \/ Load(d) \/ ReadEvents(d) \/ Reread(d) \/ Precheck(d) \/ Abort(d) \/ BackendLost(d)
             \/ \E j \in Jobs, worker \in Workers : OperatorExecute(d, j, worker)
      PROVE  Fine(d)
  BY <1>1, DispatchFine, LoadFine, ReadEventsFine, RereadFine, PrecheckFine, AbortFine,
    BackendLostFine, OperatorExecuteFine
<1>2. ASSUME NEW d \in Callers,
             \/ Create(d) \/ RecordMetadata(d) \/ MarkReady(d) \/ Claim(d) \/ Block(d) \/ Gate(d)
             \/ BeginExecuting(d) \/ Recover(d) \/ RecordCompletion(d) \/ BeginVerifying(d)
      PROVE  Fine(d)
  BY <1>2, CreateFine, RecordMetadataFine, ClaimStepsFine, BlockFine, BeginExecutingFine,
    RecoverFine, RecordCompletionFine, BeginVerifyingFine
<1>3. ASSUME NEW d \in Callers,
             \/ Launch(d) \/ BackendSucceeds(d)
             \/ \E classification \in Failures : BackendReports(d, classification)
      PROVE  Fine(d)
  BY <1>3, LaunchFine, BackendSucceedsFine, BackendReportsFine
<1>4. ASSUME NEW j \in Jobs,
             \/ OperatorRequests(j) \/ Closeout(j)
             \/ \E attempt \in 0..MaxVersion : OrphanEnds(j, attempt)
      PROVE  DispatchInv' /\ UNCHANGED calls
  <2>1. UNCHANGED calls
    BY <1>4 DEF OperatorRequests, Closeout, OrphanEnds
  <2> QED  BY <1>4, <2>1, OperatorRequestsFine, CloseoutFine, OrphanEndsFine
<1> QED  BY <1>1, <1>2, <1>3, <1>4 DEF DispatchNext

(* A step of something else. *)
LEMMA StutterFine ==
  ASSUME DispatchInv, UNCHANGED dispatchVars
  PROVE  DispatchInv'
<1>1. /\ jobs' = jobs /\ metas' = metas /\ calls' = calls /\ running' = running
      /\ launched' = launched /\ done' = done
  BY DEF dispatchVars
<1> QED  BY <1>1 DEF DispatchInv, Typed, JobsFine, CallFine, OwnersDiffer, UnderWay, RunningOf

(***************************************************************************)
(* The invariant the other theorems rest on: what every call under way      *)
(* knows of its job, which attempt is whose, and that an execution under    *)
(* way is of the last attempt of a job nobody can start again.              *)
(***************************************************************************)
THEOREM DispatchInvariant == DispatchSpec => []DispatchInv
<1>1. DispatchInv /\ [DispatchNext]_dispatchVars => DispatchInv'
  BY NextFine, StutterFine DEF Fine
<1> QED  BY <1>1, InitFine, PTL DEF DispatchSpec

(* What runs of a job is its last attempt. *)
LEMMA LastAttemptRuns ==
  ASSUME DispatchInv, NEW r \in running
  PROVE  /\ r[1] \in Jobs /\ jobs[r[1]] # None /\ jobs[r[1]] \in JobRow
         /\ r = <<r[1], jobs[r[1]].attempts>>
         /\ jobs[r[1]].attempts \in 0..MaxVersion
         /\ jobs[r[1]].state \in {"EXECUTING", "RECOVERY_NEEDED"}
<1>1. PICK j \in Jobs, n \in Nat : r = <<j, n>>
  BY DEF DispatchInv, Typed
<1>2. n \in RunningOf(j)
  BY <1>1 DEF RunningOf
<1>3. JobOK(jobs[j], RunningOf(j), launched[j], done[j]) /\ jobs[j] \in JobRow \cup {None}
  BY DEF DispatchInv, JobsFine, Typed
<1>4. jobs[j] # None /\ jobs[j] \in JobRow
  BY <1>2, <1>3 DEF JobOK
<1>5. /\ n = jobs[j].attempts /\ jobs[j].attempts < jobs[j].version
      /\ jobs[j].version <= MaxVersion
      /\ jobs[j].state \in {"EXECUTING", "RECOVERY_NEEDED"}
  BY <1>2, <1>3, <1>4 DEF JobOK
<1>6. jobs[j].version \in Nat /\ MaxVersion \in Nat
  BY <1>4, JobsAssumption DEF JobRow
<1> QED  BY <1>1, <1>4, <1>5, <1>6

(***************************************************************************)
(* However many calls, operators and lost backends there are: one execution *)
(* of a job at a time, never more than max_attempts of them, each by the    *)
(* call the EXECUTING row names and for the recorded request, and nothing   *)
(* is verified, reviewed or complete without its checkpoint.                *)
(***************************************************************************)
THEOREM DispatchIsSafe == DispatchSpec => []DispatchSafety
<1>1. ASSUME DispatchInv  PROVE DispatchSafety
  <2> USE <1>1
  <2>1. DispatchTypeOK
    <3>1. \A d \in Callers :
            /\ calls[d].at \in Steps \cup {"idle", "released"}
            /\ UnderWay(d) => /\ calls[d].job \in Jobs
                              /\ calls[d].req \in Requests \cup {None}
                              /\ calls[d].row \in JobRow \cup {None}
      BY CallFacts DEF DispatchInv, Typed, Call
    <3>2. running \subseteq Jobs \X (0..MaxVersion)
      BY LastAttemptRuns
    <3> QED  BY <3>1, <3>2 DEF DispatchTypeOK, JobsTypeOK, DispatchInv, Typed
  <2>2. OneBackendPerJob
    <3> SUFFICES ASSUME NEW j \in Jobs
                 PROVE  Cardinality({r \in running : r[1] = j}) <= 1
      BY DEF OneBackendPerJob
    <3> DEFINE S == {r \in running : r[1] = j}  T == {<<j, jobs[j].attempts>>}
    <3>1. S \subseteq T
      BY LastAttemptRuns
    <3>2. IsFiniteSet(T) /\ Cardinality(T) = 1
      BY FS_Singleton
    <3> HIDE DEF S, T
    <3>3. Cardinality(S) <= Cardinality(T)
      BY <3>1, <3>2, FS_Subset
    <3> QED  BY <3>2, <3>3 DEF S
  <2>3. BudgetRespected
    <3> SUFFICES ASSUME NEW j \in Jobs
                 PROVE  launched[j] <= IF jobs[j] = None THEN 0 ELSE jobs[j].max
      BY DEF BudgetRespected
    <3>1. /\ JobOK(jobs[j], RunningOf(j), launched[j], done[j]) /\ launched[j] \in Nat
      BY DEF DispatchInv, JobsFine, Typed
    <3>2. CASE jobs[j] # None
      <4>1. /\ launched[j] <= jobs[j].attempts /\ jobs[j].attempts <= jobs[j].max
            /\ jobs[j].attempts \in Nat /\ jobs[j].max \in Nat
        BY <3>1, <3>2, JobsAssumption DEF JobOK, GoodRow, JobRow
      <4> QED  BY <3>1, <3>2, <4>1
    <3> QED  BY <3>1, <3>2 DEF JobOK
  <2>4. BackendOwnsJob
    BY CallFacts DEF BackendOwnsJob, UnderWay, Steps, CallOwns
  <2>5. RecordedRequestOnly
    BY CallFacts DEF RecordedRequestOnly, IsDispatch, UnderWay, Steps, RecordedSteps, CallKnows
  <2>6. VerifiedByEvidence
    BY DEF VerifiedByEvidence, DispatchInv, JobsFine, JobOK, Evidenced
  <2> QED  BY <2>1, <2>2, <2>3, <2>4, <2>5, <2>6 DEF DispatchSafety
<1> QED  BY <1>1, DispatchInvariant, PTL

(***************************************************************************)
(* No answer of _typed_dispatch_policy that gives the provider admission    *)
(* back is given while an execution of the job is under way: it is given    *)
(* for a row that is neither EXECUTING nor RECOVERY_NEEDED, and what runs   *)
(* of a job runs in one of these.                                           *)
(***************************************************************************)
THEOREM AnswersAreSafe == DispatchSpec => SafeAnswers
<1>1. ASSUME DispatchInv, [DispatchNext]_dispatchVars
      PROVE  [\A d \in Callers :
                UnderWay(d) /\ calls'[d].at = "released" =>
                  ~ \E r \in running' : r[1] = calls[d].job]_dispatchVars
  <2> SUFFICES ASSUME DispatchNext, NEW d \in Callers, UnderWay(d), calls'[d].at = "released",
                      NEW r \in running', r[1] = calls[d].job
               PROVE  FALSE
    BY <1>1
  <2>1. calls[d].at # "released" /\ calls \in [Callers -> Call]
    BY <1>1 DEF UnderWay, Steps, DispatchInv, Typed
  <2>2. Fine(d)
    BY <1>1, <2>1, NextFine DEF Fine
  <2>3. /\ jobs'[calls[d].job] # None
        /\ jobs'[calls[d].job].state \notin {"EXECUTING", "RECOVERY_NEEDED"}
    BY <2>1, <2>2 DEF Fine
  <2>4. jobs'[r[1]].state \in {"EXECUTING", "RECOVERY_NEEDED"}
    <3>1. ASSUME NEW s \in running', DispatchInv'
          PROVE  jobs'[s[1]].state \in {"EXECUTING", "RECOVERY_NEEDED"}
      <4>1. PICK j \in Jobs, n \in Nat : s = <<j, n>>
        BY <3>1 DEF DispatchInv, Typed
      <4>2. n \in RunningOf(j)'
        BY <4>1, <3>1 DEF RunningOf
      <4>3. JobOK(jobs'[j], RunningOf(j)', launched'[j], done'[j])
        BY <3>1 DEF DispatchInv, JobsFine
      <4>4. jobs'[j].state \in {"EXECUTING", "RECOVERY_NEEDED"}
        BY <4>2, <4>3 DEF JobOK
      <4> QED  BY <4>1, <4>4
    <3> QED  BY <2>2, <3>1 DEF Fine
  <2> QED  BY <2>3, <2>4
<1> QED  BY <1>1, DispatchInvariant, PTL DEF DispatchSpec, SafeAnswers

-------------------------------------------------------------------------------
(* The store under the dispatchers *)

(* A write of the store is one of its operations, with a version it has had. *)
LEMMA StoreStep ==
  ASSUME DispatchInv, NEW j \in Jobs,
         \/ \E terms \in Terms, max \in Budgets : CreateJob(j, terms, max)
         \/ \E target \in TaskState, worker \in Workers \cup {None},
               recovery \in RecoveryClassification \cup {None}, version \in Nat :
              Transition(j, target, version, worker, recovery)
         \/ \E ref \in Refs \cup {OtherRef}, version \in Nat : Checkpoint(j, version, ref)
  PROVE  JobsNext
<1>1. MaxVersion \in Nat /\ 1 \in 1..MaxVersion
  BY JobsAssumption
<1>2. ASSUME NEW version \in Nat, VersionHolds(j, version)
      PROVE  version \in 1..MaxVersion
  <2>1. jobs[j] # None /\ jobs[j].version = version /\ version < MaxVersion
    BY <1>2 DEF VersionHolds
  <2>2. GoodRow(jobs[j])
    BY <2>1 DEF DispatchInv, JobsFine, JobOK
  <2> QED  BY <1>1, <2>1, <2>2 DEF GoodRow
<1>3. CASE \E terms \in Terms, max \in Budgets : CreateJob(j, terms, max)
  BY <1>1, <1>3 DEF JobsNext
<1>4. ASSUME NEW target \in TaskState, NEW worker \in Workers \cup {None},
             NEW recovery \in RecoveryClassification \cup {None}, NEW version \in Nat,
             Transition(j, target, version, worker, recovery)
      PROVE  JobsNext
  <2>1. version \in 1..MaxVersion
    BY <1>2, <1>4 DEF Transition
  <2> QED  BY <1>4, <2>1 DEF JobsNext
<1>5. ASSUME NEW ref \in Refs \cup {OtherRef}, NEW version \in Nat, Checkpoint(j, version, ref)
      PROVE  JobsNext
  <2>1. version \in 1..MaxVersion
    BY <1>2, <1>5 DEF Checkpoint
  <2> QED  BY <1>5, <2>1 DEF JobsNext
<1> QED  BY <1>3, <1>4, <1>5

(* What a call passes to the store: the version and the worker of its copy. *)
LEMMA WriterPasses ==
  ASSUME DispatchInv, NEW d \in Callers, calls[d].at \in WritingSteps
  PROVE  /\ calls[d].job \in Jobs /\ calls[d].worker \in Workers
         /\ calls[d].row.version \in Nat /\ calls[d].row.worker \in Workers \cup {None}
         /\ calls[d].recovery \in RecoveryClassification \cup {None}
<1>1. UnderWay(d) /\ calls[d].at \in CopySteps
  BY DEF UnderWay, WritingSteps, CopySteps
<1>2. /\ calls[d] \in Call /\ calls[d].job \in Jobs /\ calls[d].worker \in Workers
      /\ calls[d].row \in JobRow
  BY <1>1, CallFacts DEF CallKnows, CopyOf
<1> QED  BY <1>2 DEF Call, JobRow

(* A transition of a call is a transition of the store, or nothing. *)
LEMMA MoveUsesStore ==
  ASSUME DispatchInv, NEW d \in Callers, calls[d].at \in WritingSteps,
         NEW target \in TaskState, NEW worker \in Workers \cup {None}, Move(d, target, worker)
  PROVE  JobsNext \/ UNCHANGED jobVars
<1>1. CASE Transition(calls[d].job, target, calls[d].row.version, worker, None)
  BY <1>1, WriterPasses, StoreStep
<1> QED  BY <1>1 DEF Move

(* So is every write of a call. *)
LEMMA CallsUseStore ==
  ASSUME DispatchInv, NEW d \in Callers,
         \/ Create(d) \/ RecordMetadata(d) \/ MarkReady(d) \/ Claim(d) \/ Block(d) \/ Gate(d)
         \/ BeginExecuting(d) \/ Recover(d) \/ RecordCompletion(d) \/ BeginVerifying(d)
  PROVE  JobsNext \/ UNCHANGED jobVars
<1> DEFINE c == calls[d]
<1>1. {"meta", "ready", "claim", "block", "gate", "executing", "recover", "checkpoint", "verify"}
        \subseteq WritingSteps
  BY DEF WritingSteps, CopySteps, Steps
<1>2. CASE Create(d)
  <2>1. UnderWay(d) /\ c.at \in RequestSteps
    BY <1>2 DEF Create, UnderWay, Steps, RequestSteps
  <2>2. c \in Call /\ c.job \in Jobs /\ c.req # None
    BY <2>1, CallFacts DEF CallKnows
  <2>3. c.req.terms \in Terms /\ c.req.max \in Budgets
    BY <2>2, DispatchAssumption DEF Call, Request
  <2> QED  BY <1>2, <2>2, <2>3, StoreStep DEF Create
<1>3. CASE RecordMetadata(d)
  <2>1. c.at = "meta" /\ UnderWay(d) /\ c.at \in RequestSteps
    BY <1>3 DEF RecordMetadata, UnderWay, Steps, RequestSteps
  <2>2. c \in Call /\ c.req # None
    BY <2>1, CallFacts DEF CallKnows
  <2>3. c.req.ref \in Refs
    BY <2>2, DispatchAssumption DEF Call, Request
  <2>4. c.job \in Jobs /\ c.row.version \in Nat
    BY <1>1, <2>1, WriterPasses
  <2> QED  BY <1>3, <2>3, <2>4, StoreStep DEF RecordMetadata
<1>4. CASE \/ MarkReady(d) \/ Claim(d) \/ Block(d) \/ Gate(d) \/ BeginExecuting(d)
           \/ BeginVerifying(d)
  <2>1. /\ c.at \in WritingSteps
        /\ \E target \in TaskState, worker \in {None, c.worker} : Move(d, target, worker)
    BY <1>1, <1>4 DEF MarkReady, Claim, Block, Gate, BeginExecuting, BeginVerifying, TaskState
  <2>2. c.worker \in Workers
    BY <2>1, WriterPasses
  <2> QED  BY <2>1, <2>2, MoveUsesStore
<1>5. CASE Recover(d)
  <2>1. c.at \in WritingSteps
    BY <1>1, <1>5 DEF Recover
  <2>2. "RECOVERY_NEEDED" \in TaskState
    BY DEF TaskState
  <2> QED  BY <1>5, <2>1, <2>2, WriterPasses, StoreStep DEF Recover
<1>6. CASE RecordCompletion(d)
  <2>1. c.at \in WritingSteps
    BY <1>1, <1>6 DEF RecordCompletion
  <2> QED  BY <1>6, <2>1, WriterPasses, StoreStep DEF RecordCompletion, jobVars
<1> QED  BY <1>2, <1>3, <1>4, <1>5, <1>6

(* And every write of an operator or a closeout. *)
LEMMA OthersUseStore ==
  ASSUME DispatchInv, NEW j \in Jobs, OperatorRequests(j) \/ Closeout(j)
  PROVE  JobsNext
<1>1. \/ \E terms \in Terms, max \in Budgets : CreateJob(j, terms, max)
      \/ /\ jobs[j] # None
         /\ \E target \in TaskState, worker \in Workers \cup {None} :
              Transition(j, target, jobs[j].version, worker, None)
      \/ jobs[j] # None /\ Checkpoint(j, jobs[j].version, OtherRef)
  BY DEF OperatorRequests, Closeout, TaskState, Terminal
<1>2. jobs[j] # None => jobs[j].version \in Nat
  BY DEF DispatchInv, Typed, JobRow
<1> QED  BY <1>1, <1>2, StoreStep

(***************************************************************************)
(* Dispatchers, operators and closeouts change the jobs only as DurableJobs *)
(* says any program that holds the store may: what JobsSpec promises every  *)
(* reader of the store holds under them.                                    *)
(***************************************************************************)
THEOREM DispatchUsesStore == DispatchSpec => JobsSpec
<1>1. DispatchInit => JobsInit
  BY DEF DispatchInit
<1>2. ASSUME DispatchInv, [DispatchNext]_dispatchVars
      PROVE  [JobsNext]_jobVars
  <2>1. CASE UNCHANGED dispatchVars
    BY <2>1 DEF dispatchVars, jobVars
  <2>2. ASSUME NEW d \in Callers,
               \/ \E req \in Requests, allowed \in BOOLEAN : Dispatch(d, req, allowed)
               \/ Load(d) \/ ReadEvents(d) \/ Reread(d) \/ Precheck(d) \/ Abort(d)
               \/ BackendLost(d) \/ Launch(d) \/ BackendSucceeds(d)
               \/ \E classification \in Failures : BackendReports(d, classification)
               \/ \E j \in Jobs, worker \in Workers : OperatorExecute(d, j, worker)
        PROVE  UNCHANGED jobVars
    BY <2>2 DEF Dispatch, Load, ReadEvents, Reread, Precheck, Abort, BackendLost, Launch,
      BackendSucceeds, BackendReports, OperatorExecute, jobVars
  <2>3. ASSUME NEW j \in Jobs, NEW attempt, OrphanEnds(j, attempt)
        PROVE  UNCHANGED jobVars
    BY <2>3 DEF OrphanEnds, jobVars
  <2>4. CASE DispatchNext
    BY <1>2, <2>2, <2>3, <2>4, CallsUseStore, OthersUseStore DEF DispatchNext
  <2> QED  BY <1>2, <2>1, <2>4
<1> QED  BY <1>1, <1>2, DispatchInvariant, PTL DEF DispatchSpec, JobsSpec

(***************************************************************************)
(* So every job that dispatchers, operators and closeouts leave behind can  *)
(* be read back, and has a worker in exactly the states the batch expects.  *)
(***************************************************************************)
THEOREM DispatchKeepsJobs == DispatchSpec => []JobsSafety
BY DispatchUsesStore, JobsAreSafe, PTL

(***************************************************************************)
(* And no race of dispatchers, operators and recoveries hands a claim from  *)
(* one worker to another or gives an attempt back.                          *)
(***************************************************************************)
THEOREM DispatchKeepsClaims == DispatchSpec => ClaimNeverPassesOn
BY DispatchUsesStore, ClaimsNeverPassOn, PTL

===============================================================================
