----------------------------- MODULE SupervisedRun -----------------------------
(***************************************************************************)
(* A command run under a supervisor process that outlives its caller:       *)
(* run_with_outcome (supervised_run_coordinator.py) with its duplicate      *)
(* guard (execution_deduplication.py), launch, inspect and collect          *)
(* (supervised_execution.py), the supervisor (supervised_child.py) started  *)
(* by the process controller (owned_process.py), the reconciliation of      *)
(* recovery_reconciliation.py, the transport marks of transport_recovery.py *)
(* and the promotion of zero_relay_review_verification.py, all over one     *)
(* ExecutionStore.  Callers may die at any step; the supervisor does not    *)
(* die with them.                                                           *)
(***************************************************************************)
EXTENDS ExecutionStore

CONSTANTS
  Runners,      \* callers of run_with_outcome
  Reconcilers,  \* callers of reconcile
  MaxCalls,     \* bound on the calls that are begun
  MaxPolls,     \* inspections until timeout_seconds has passed
  MaxUnknown,   \* _MAX_TRANSIENT_UNKNOWN_OBSERVATIONS
  MaxMarks      \* bound on the transport marks

VARIABLES
  procs,   \* per execution: supervisor, supervisor.pid, child.pid and the result file
  calls,   \* the call each caller is in
  begun,   \* calls begun
  marks,   \* transport marks made
  lost     \* executions a reconciler recorded as ended without a result

runVars == <<records, log, receipts, decisions, fences, procs, calls, begun, marks, lost>>
otherStore == <<log, receipts, decisions, fences>>

Actors == Runners \cup Reconcilers

(* _LIVE_STATES and _COMPLETED_EVIDENCE_STATES of the duplicate guard. *)
LiveStates == {"QUEUED", "STARTING", "RUNNING", "PROCESS_STILL_RUNNING"}
CompletedStates == {"VERIFICATION_REQUIRED", "SUCCEEDED", "FAILED"}

Process ==
  [sup: {"none", "alive", "dead"}, pidfile: BOOLEAN, child: Pids \cup {None}, result: {0, 1, None}]
NoProcess == [sup |-> "none", pidfile |-> FALSE, child |-> None, result |-> None]

Steps == {"assess", "fresh", "create", "starting", "start", "pidfile", "recover", "childpid",
          "setpid", "running", "check", "observe", "recheck", "get", "collect",
          "collectpid", "collectresult", "collectstate", "unreadable", "mismatch", "connect", "compare",
          "stillrunning", "marklost"}
Successes == {"FRESH", "ATTACH_RUNNING", "REUSE_COMPLETED"}
Outcomes == Successes \cup {"FAILED", "BLOCKED", "RECOVERY_REQUIRED", "TIMED_OUT", "RAISED",
                            "MONITOR_ORIGINAL", "VERIFY_RESULT", "REVIEW_FAILURE"}

(* What a call knows: its execution, its kind (of a run) or the state it    *)
(* read first (of a reconciliation), the version it goes by, the polls and  *)
(* the unknown observations in a row, and what it saw last.                 *)
Call ==
  [at: {"idle"} \cup Steps \cup Outcomes, exec: Execs \cup {None}, fp: Fingerprints \cup {None},
   kind: Successes \cup {None}, state: ExecutionProcessState \cup {None}, ver: 0..MaxVersion,
   polls: Nat, unknown: Nat,
   seen: ExecutionProcessState \cup {"LOST", "UNKNOWN", "INVALID", None}]
Idle ==
  [at |-> "idle", exec |-> None, fp |-> None, kind |-> None, state |-> None, ver |-> 0,
   polls |-> 0, unknown |-> 0, seen |-> None]

(* No caller is of both kinds, and None is no row, name, pid or exit code. *)
ASSUME RunAssumption ==
  /\ Runners \cap Reconcilers = {}
  /\ MaxVersion \in Nat \ {0}
  /\ None \notin ExecutionRecord
  /\ None \notin Execs /\ None \notin Fingerprints /\ None \notin Pids /\ None \notin {0, 1}
  /\ None \notin Successes /\ None \notin ExecutionProcessState

Exec(a) == calls[a].exec
Goto(a, step) == calls' = [calls EXCEPT ![a].at = step]
End(a, outcome) == calls' = [calls EXCEPT ![a] = [Idle EXCEPT !.at = outcome, !.exec = Exec(a)]]

(* A write with the version the call knows: the next step when the store    *)
(* takes it, the end of the call with the given outcome on a conflict.      *)
Write(a, row, step, failure) ==
  IF records[Exec(a)].version = calls[a].ver
  THEN /\ Update(Exec(a), calls[a].ver, row)
       /\ calls' = [calls EXCEPT ![a].at = step, ![a].ver = @ + 1]
  ELSE End(a, failure) /\ UNCHANGED records

(* A last write: the call ends with the outcome. *)
WriteAndEnd(a, row, outcome, failure) ==
  IF records[Exec(a)].version = calls[a].ver
  THEN Update(Exec(a), calls[a].ver, row) /\ End(a, outcome)
  ELSE End(a, failure) /\ UNCHANGED records

-------------------------------------------------------------------------------
(* run_with_outcome: assessment and fresh launch *)

BeginRun(r) ==
  /\ calls[r] = Idle
  /\ begun < MaxCalls
  /\ begun' = begun + 1
  /\ \E fp \in Fingerprints : calls' = [calls EXCEPT ![r] =
       [Idle EXCEPT !.at = "assess", !.fp = fp]]
  /\ UNCHANGED <<storeVars, procs, marks, lost>>

(* Equivalence leaves the worker out: project, job, work order, backend,    *)
(* repository, branch, head, operation, profile and command count.          *)
Equivalent(r) == FindByFingerprint(calls[r].fp)

(* DuplicateExecutionGuard.assess: matches[0] is the newest, which is any of *)
(* those that were created within one tick of the clock.                     *)
Assess(r) ==
  LET known == Equivalent(r) IN
  /\ calls[r].at = "assess"
  /\ IF known = {} THEN Goto(r, "fresh")
     ELSE \E e \in known :
       CASE records[e].state \in LiveStates ->
              calls' = [calls EXCEPT ![r].at = "check", ![r].exec = e, ![r].kind = "ATTACH_RUNNING"]
         [] records[e].state \in CompletedStates ->
              calls' = [calls EXCEPT ![r].at = "check", ![r].exec = e, ![r].kind = "REUSE_COMPLETED"]
         [] OTHER -> End(r, "BLOCKED")
  /\ UNCHANGED <<storeVars, procs, begun, marks, lost>>

(* The lease guard, the live worktree check and its repetition at the effect *)
(* boundary: each may refuse.                                                *)
Fresh(r) ==
  /\ calls[r].at = "fresh"
  /\ Goto(r, "create") \/ End(r, "FAILED")
  /\ UNCHANGED <<storeVars, procs, begun, marks, lost>>

(* launch: the record, the launch intent, the process, its child's pid. *)
CreateRecord(r) ==
  /\ calls[r].at = "create"
  /\ \E e \in Execs :
       /\ Create(e, NewRecord(calls[r].fp))
       /\ calls' = [calls EXCEPT ![r].at = "starting", ![r].exec = e,
                                 ![r].kind = "FRESH", ![r].ver = 1]
  /\ UNCHANGED <<otherStore, procs, begun, marks, lost>>

SetStarting(r) ==
  /\ calls[r].at = "starting"
  /\ Write(r, [records[Exec(r)] EXCEPT !.state = "STARTING"], "start", "RAISED")
  /\ UNCHANGED <<otherStore, procs, begun, marks, lost>>

(* controller.start for a new run directory: nothing is spawned, or the *)
(* supervisor runs before its pid file is written.                      *)
Start(r) ==
  /\ calls[r].at = "start"
  /\ \/ Goto(r, "recover") /\ UNCHANGED procs
     \/ Goto(r, "pidfile") /\ procs' = [procs EXCEPT ![Exec(r)].sup = "alive"]
  /\ UNCHANGED <<storeVars, begun, marks, lost>>

(* When the pid cannot be written the new process is ended, if that works. *)
WritePidFile(r) ==
  /\ calls[r].at = "pidfile"
  /\ \/ Goto(r, "childpid") /\ procs' = [procs EXCEPT ![Exec(r)].pidfile = TRUE]
     \/ Goto(r, "recover") /\ procs' = [procs EXCEPT ![Exec(r)].sup = "dead"]
     \/ Goto(r, "recover") /\ UNCHANGED procs
  /\ UNCHANGED <<storeVars, begun, marks, lost>>

ReadChildPid(r) ==
  /\ calls[r].at = "childpid"
  /\ \/ procs[Exec(r)].child # None /\ Goto(r, "setpid")
     \/ procs[Exec(r)].child = None /\ Goto(r, "check")
     \/ Goto(r, "recover")
  /\ UNCHANGED <<storeVars, procs, begun, marks, lost>>

SetPid(r) ==
  /\ calls[r].at = "setpid"
  /\ Write(r, SetProcessMetadata(Exec(r), procs[Exec(r)].child), "running", "RAISED")
  /\ UNCHANGED <<otherStore, procs, begun, marks, lost>>

SetRunning(r) ==
  /\ calls[r].at = "running"
  /\ Write(r, [records[Exec(r)] EXCEPT !.state = "RUNNING"], "check", "RAISED")
  /\ UNCHANGED <<otherStore, procs, begun, marks, lost>>

(* _mark_recovery, of launch: a conflict of versions is not caught. *)
MarkRecovery(a) ==
  /\ calls[a].at = "recover"
  /\ WriteAndEnd(a, [records[Exec(a)] EXCEPT !.state = "RECOVERY_REQUIRED"],
                 "RECOVERY_REQUIRED", "RAISED")
  /\ UNCHANGED <<otherStore, procs, begun, marks, lost>>

-------------------------------------------------------------------------------
(* inspect, and what its callers make of the verdict *)

(* _poll_until_resolved: a result first, then the deadline, then recovery. *)
RunnerResolves(r, verdict) ==
  LET polls == calls[r].polls + 1
      unknown == IF verdict = "UNKNOWN" THEN calls[r].unknown + 1 ELSE 0 IN
  CASE verdict = "RESULT"                               -> Goto(r, "get")
    [] verdict # "RESULT" /\ polls >= MaxPolls          -> End(r, "TIMED_OUT")
    [] verdict \in {"LOST", "INVALID"} /\ polls < MaxPolls -> End(r, "RECOVERY_REQUIRED")
    [] unknown >= MaxUnknown /\ polls < MaxPolls        -> End(r, "RECOVERY_REQUIRED")
    [] OTHER -> calls' = [calls EXCEPT ![r].at = "check", ![r].polls = polls,
                                       ![r].unknown = unknown]

ReconcilerResolves(r, verdict) ==
  CASE verdict = "RESULT"   -> Goto(r, "collect")
    [] verdict = "STARTING" -> End(r, "MONITOR_ORIGINAL")
    [] verdict = "RUNNING"  -> Goto(r, "stillrunning")
    [] OTHER -> calls' = [calls EXCEPT ![r].at = "marklost", ![r].seen = verdict]

Resolve(a, verdict) ==
  IF a \in Runners THEN RunnerResolves(a, verdict) ELSE ReconcilerResolves(a, verdict)

(* The record is read, then the result file is looked for. *)
Check(a) ==
  /\ calls[a].at = "check"
  /\ \/ procs[Exec(a)].result # None /\ Resolve(a, "RESULT")
     \/ /\ procs[Exec(a)].result = None
        /\ calls' = [calls EXCEPT ![a].at = "observe", ![a].seen = records[Exec(a)].state]
     \/ a \in Runners /\ End(a, "RECOVERY_REQUIRED")
     \/ a \in Reconcilers /\ End(a, "RAISED")
  /\ UNCHANGED <<storeVars, procs, begun, marks, lost>>

(* supervisor.pid, then the process it names; either may be unreadable. *)
Observe(a) ==
  LET p == procs[Exec(a)]
      Recheck(verdict) == calls' = [calls EXCEPT ![a].at = "recheck", ![a].seen = verdict] IN
  /\ calls[a].at = "observe"
  /\ \/ /\ ~ p.pidfile
        /\ IF calls[a].seen = "STARTING" THEN Resolve(a, "STARTING") ELSE Recheck("LOST")
     \/ p.pidfile /\ p.sup = "alive" /\ Resolve(a, "RUNNING")
     \/ p.pidfile /\ p.sup = "dead" /\ Recheck("LOST")
     \/ p.pidfile /\ Recheck("UNKNOWN")
     \/ p.pidfile /\ Recheck("INVALID")
  /\ UNCHANGED <<storeVars, procs, begun, marks, lost>>

(* Mutant: the stale-pid conclusion is not checked against the result file. *)
RecheckIgnoresResult(a) ==
  /\ calls[a].at = "recheck"
  /\ Resolve(a, calls[a].seen)
  /\ UNCHANGED <<storeVars, procs, begun, marks, lost>>

(* result_appeared: a result written meanwhile wins over a stale pid. *)
Recheck(a) ==
  /\ calls[a].at = "recheck"
  /\ Resolve(a, IF procs[Exec(a)].result # None THEN "RESULT" ELSE calls[a].seen)
  /\ UNCHANGED <<storeVars, procs, begun, marks, lost>>

-------------------------------------------------------------------------------
(* collect *)

GetVersion(r) ==
  /\ calls[r].at = "get"
  /\ calls' = [calls EXCEPT ![r].at = "collect", ![r].ver = records[Exec(r)].version]
  /\ UNCHANGED <<storeVars, procs, begun, marks, lost>>

(* The fields of the result file that collect uses. *)
ChildResult(e) == [pid |-> procs[e].child, exit |-> procs[e].result]

(* What a version conflict in collect becomes for its caller. *)
Conflict(a) == IF a \in Runners THEN "RECOVERY_REQUIRED" ELSE "RAISED"

(* The version is checked, the result file read if it can be, and its pid   *)
(* compared with the one the launch recorded (RESULT_PID_MISMATCH).         *)
Collect(a) ==
  LET row == records[Exec(a)] IN
  /\ calls[a].at = "collect"
  /\ IF row.version # calls[a].ver THEN End(a, Conflict(a))
     ELSE \/ Goto(a, "unreadable")
          \/ row.pid \in {None, ChildResult(Exec(a)).pid} /\ Goto(a, "collectpid")
          \/ row.pid \notin {None, ChildResult(Exec(a)).pid} /\ Goto(a, "mismatch")
  /\ UNCHANGED <<storeVars, procs, begun, marks, lost>>

(* What the caller is told of a result that was not taken over: a runner    *)
(* has the result of a mismatch in hand and reports it as a success.        *)
Uncollected(a) ==
  IF a \in Runners /\ calls[a].at = "mismatch" THEN calls[a].kind ELSE "RECOVERY_REQUIRED"

(* _mark_recovery, of collect. *)
MarkUncollected(a) ==
  /\ calls[a].at \in {"unreadable", "mismatch"}
  /\ WriteAndEnd(a, [records[Exec(a)] EXCEPT !.state = "RECOVERY_REQUIRED"],
                 Uncollected(a), Conflict(a))
  /\ UNCHANGED <<otherStore, procs, begun, marks, lost>>

CollectPid(a) ==
  /\ calls[a].at = "collectpid"
  /\ Write(a, SetProcessMetadata(Exec(a), ChildResult(Exec(a)).pid), "collectresult", Conflict(a))
  /\ UNCHANGED <<otherStore, procs, begun, marks, lost>>

CollectResult(a) ==
  /\ calls[a].at = "collectresult"
  /\ Write(a, SetResultMetadata(Exec(a), ChildResult(Exec(a)).exit), "collectstate", Conflict(a))
  /\ UNCHANGED <<otherStore, procs, begun, marks, lost>>

CollectedState(exit) == IF exit = 0 THEN "VERIFICATION_REQUIRED" ELSE "FAILED"

(* The reconciler reports the failure and, of a clean worktree, the success. *)
CollectState(a) ==
  LET exit == ChildResult(Exec(a)).exit IN
  /\ calls[a].at = "collectstate"
  /\ \E outcome \in IF a \in Runners THEN {calls[a].kind}
                    ELSE {"BLOCKED", IF exit = 0 THEN "VERIFY_RESULT" ELSE "REVIEW_FAILURE"} :
       WriteAndEnd(a, [records[Exec(a)] EXCEPT !.state = CollectedState(exit)],
                   outcome, Conflict(a))
  /\ UNCHANGED <<otherStore, procs, begun, marks, lost>>

-------------------------------------------------------------------------------
(* reconcile, transport marks, promotion *)

BeginReconcile(r) ==
  /\ calls[r] = Idle
  /\ begun < MaxCalls
  /\ begun' = begun + 1
  /\ \E e \in Execs :
       /\ records[e] # None
       /\ calls' = [calls EXCEPT ![r] =
            [Idle EXCEPT !.at = "connect", !.exec = e, !.ver = records[e].version,
                         !.state = records[e].state]]
  /\ UNCHANGED <<storeVars, procs, marks, lost>>

(* mark_connected: the job must still be bound to the worker of the record. *)
Connect(r) ==
  LET row == records[Exec(r)] IN
  /\ calls[r].at = "connect"
  /\ \/ End(r, "BLOCKED") /\ UNCHANGED records
     \/ /\ row.version = calls[r].ver
        /\ row.transport = "CONNECTED"
        /\ Goto(r, "compare")
        /\ UNCHANGED records
     \/ /\ row.transport # "CONNECTED"
        /\ Write(r, [row EXCEPT !.transport = "CONNECTED"], "compare", "BLOCKED")
  /\ UNCHANGED <<otherStore, procs, begun, marks, lost>>

(* The repository must be readable, at the branch and the head of the record. *)
CompareRepository(r) ==
  /\ calls[r].at = "compare"
  /\ Goto(r, "check") \/ End(r, "BLOCKED")
  /\ UNCHANGED <<storeVars, procs, begun, marks, lost>>

(* Mutant: the state is written without the version that was inspected. *)
MarkStillRunningUnversioned(r) ==
  /\ calls[r].at = "stillrunning"
  /\ Update(Exec(r), records[Exec(r)].version,
            [records[Exec(r)] EXCEPT !.state = "PROCESS_STILL_RUNNING"])
  /\ End(r, "MONITOR_ORIGINAL")
  /\ UNCHANGED <<otherStore, procs, begun, marks, lost>>

MarkStillRunning(r) ==
  LET row == records[Exec(r)] IN
  /\ calls[r].at = "stillrunning"
  /\ IF calls[r].state = "PROCESS_STILL_RUNNING"
     THEN End(r, "MONITOR_ORIGINAL") /\ UNCHANGED records
     ELSE WriteAndEnd(r, [row EXCEPT !.state = "PROCESS_STILL_RUNNING"],
                      "MONITOR_ORIGINAL", "BLOCKED")
  /\ UNCHANGED <<otherStore, procs, begun, marks, lost>>

(* _mark_recovery_required *)
MarkLost(r) ==
  LET row == records[Exec(r)] IN
  /\ calls[r].at = "marklost"
  /\ IF calls[r].state = "RECOVERY_REQUIRED"
     THEN End(r, "RECOVERY_REQUIRED") /\ UNCHANGED <<records, lost>>
     ELSE /\ WriteAndEnd(r, [row EXCEPT !.state = "RECOVERY_REQUIRED"],
                         "RECOVERY_REQUIRED", "BLOCKED")
          /\ lost' = IF row.version = calls[r].ver /\ calls[r].seen = "LOST"
                     THEN lost \cup {Exec(r)} ELSE lost
  /\ UNCHANGED <<otherStore, procs, begun, marks>>

(* mark_degraded, mark_lost, mark_unavailable with the version just read. *)
MarkTransport(e, target) ==
  /\ marks < MaxMarks
  /\ records[e] # None
  /\ records[e].transport # target
  /\ SetTransportState(e, records[e].version, target)
  /\ marks' = marks + 1
  /\ UNCHANGED <<otherStore, procs, calls, begun, lost>>

(* verify_review_execution_for_promotion, whose write fails if the record   *)
(* has changed since it was pinned.                                         *)
Promotable(row) == row.state = "VERIFICATION_REQUIRED" /\ row.exit = 0

Promote(e) ==
  /\ records[e] # None
  /\ Promotable(records[e])
  /\ SetExecutionState(e, records[e].version, "SUCCEEDED")
  /\ UNCHANGED <<otherStore, procs, calls, begun, marks, lost>>

-------------------------------------------------------------------------------
(* The supervisor, and of its child what it writes down: child.pid and the  *)
(* result file.  The child is not watched by anybody else and may run on    *)
(* when the supervisor is gone.                                             *)

SpawnChild(e) ==
  /\ procs[e].sup = "alive" /\ procs[e].child = None
  /\ \E p \in Pids : procs' = [procs EXCEPT ![e].child = p]
  /\ UNCHANGED <<storeVars, calls, begun, marks, lost>>

WriteResult(e) ==
  /\ procs[e].sup = "alive" /\ procs[e].child # None /\ procs[e].result = None
  /\ \E exit \in {0, 1} : procs' = [procs EXCEPT ![e].result = exit]
  /\ UNCHANGED <<storeVars, calls, begun, marks, lost>>

(* With its result written, or without it: code 125 (the child's pid could  *)
(* not be written, its output not drained), or ended from outside.          *)
SupervisorExits(e) ==
  /\ procs[e].sup = "alive"
  /\ procs' = [procs EXCEPT ![e].sup = "dead"]
  /\ UNCHANGED <<storeVars, calls, begun, marks, lost>>

-------------------------------------------------------------------------------
Return(a) ==
  /\ calls[a].at \in Outcomes
  /\ calls' = [calls EXCEPT ![a] = Idle]
  /\ UNCHANGED <<storeVars, procs, begun, marks, lost>>

(* The process of a caller dies in the middle of a call. *)
Crash(a) ==
  /\ calls[a].at \in Steps
  /\ calls' = [calls EXCEPT ![a] = Idle]
  /\ UNCHANGED <<storeVars, procs, begun, marks, lost>>

RunnerStep(r) ==
  \/ Assess(r)
  \/ Fresh(r)
  \/ CreateRecord(r)
  \/ SetStarting(r)
  \/ Start(r)
  \/ WritePidFile(r)
  \/ ReadChildPid(r)
  \/ SetPid(r)
  \/ SetRunning(r)
  \/ GetVersion(r)

ReconcilerStep(r) ==
  \/ Connect(r)
  \/ CompareRepository(r)
  \/ MarkStillRunning(r)
  \/ MarkLost(r)

SharedStep(a) ==
  \/ MarkRecovery(a)
  \/ Check(a)
  \/ Observe(a)
  \/ Recheck(a)
  \/ Collect(a)
  \/ MarkUncollected(a)
  \/ CollectPid(a)
  \/ CollectResult(a)
  \/ CollectState(a)

Step(a) == (a \in Runners /\ RunnerStep(a)) \/ (a \in Reconcilers /\ ReconcilerStep(a)) \/ SharedStep(a)

RunInit ==
  /\ StoreInit
  /\ procs = [e \in Execs |-> NoProcess]
  /\ calls = [a \in Actors |-> Idle]
  /\ begun = 0
  /\ marks = 0
  /\ lost = {}

RunNext ==
  \/ \E r \in Runners : BeginRun(r)
  \/ \E r \in Reconcilers : BeginReconcile(r)
  \/ \E a \in Actors : Step(a) \/ Return(a) \/ Crash(a)
  \/ \E e \in Execs : \E target \in TransportState \ {"CONNECTED"} : MarkTransport(e, target)
  \/ \E e \in Execs : Promote(e) \/ SpawnChild(e) \/ WriteResult(e) \/ SupervisorExits(e)

RunSpec == RunInit /\ [][RunNext]_runVars

-------------------------------------------------------------------------------
(* Properties *)

(* Shape of the records, the processes and the calls. *)
RunTypeOK ==
  /\ records \in [Execs -> ExecutionRecord \cup {None}]
  /\ procs \in [Execs -> Process]
  /\ calls \in [Actors -> Call]
  /\ lost \subseteq Execs

(***************************************************************************)
(* Equivalent requests, made one after the other, start one supervisor:     *)
(* after crashes, lost processes, recovery marks and completed results a    *)
(* later request attaches, reuses or is blocked ("duplicate requests routed *)
(* to different workers cannot silently run the same durable operation      *)
(* twice").  Two requests at once may both find no record: the assessment   *)
(* and the creation are two transactions.                                   *)
(***************************************************************************)
OneAfterTheOther == \A r, s \in Runners : r = s

LaunchedOnce ==
  OneAfterTheOther =>
    \A e, f \in Execs :
      e # f /\ procs[e].sup # "none" /\ procs[f].sup # "none" => records[e].fp # records[f].fp

(***************************************************************************)
(* Once the exit code is recorded it stays, and no delayed launcher or      *)
(* reconciler, which saw the process alive, makes the record live again.    *)
(***************************************************************************)
KeepsCollected ==
  \A e \in Execs :
    records[e] # None /\ records[e].exit # None =>
      /\ records'[e].exit = records[e].exit
      /\ records'[e].state # records[e].state => records'[e].state \notin LiveStates

CollectedIsFinal == [][KeepsCollected]_runVars

(***************************************************************************)
(* A record that reconciliation marked because its supervisor ended without *)
(* a result belongs to an execution that has no supervisor and no result:   *)
(* none is started or written later, and no result was overlooked.  (Of the *)
(* child it says nothing: a supervisor that gives up leaves it running.)    *)
(***************************************************************************)
LostIsLost == \A e \in lost : procs[e].sup # "alive" /\ procs[e].result = None

(***************************************************************************)
(* A record that claims an end has the exit code and the pid of the child   *)
(* that ran, and its state agrees with the code.                            *)
(***************************************************************************)
EndStateMatchesResult ==
  \A e \in Execs : records[e] # None =>
    /\ records[e].exit # None => records[e].exit = procs[e].result /\ records[e].pid = procs[e].child
    /\ records[e].state \in {"VERIFICATION_REQUIRED", "SUCCEEDED"} => procs[e].result = 0
    /\ records[e].state = "FAILED" => procs[e].result = 1

(***************************************************************************)
(* A call that reports a result leaves it in the record.  For a runner this *)
(* rests on the pids: it reports a result whose pid is not the recorded one *)
(* as a success although the record is then marked for recovery, so no such *)
(* result may ever be there.                                                *)
(***************************************************************************)
SuccessIsDurable ==
  \A a \in Actors :
    calls[a].at \in Successes \cup {"VERIFY_RESULT", "REVIEW_FAILURE"} =>
      records[calls[a].exec].exit # None

(***************************************************************************)
(* A command is launched once, a record's end is what the result file says, *)
(* a success that was answered is durable, and what a reconciler called     *)
(* lost has neither a supervisor nor a result.                              *)
(***************************************************************************)
SupervisedSafety ==
  /\ RunTypeOK
  /\ LaunchedOnce
  /\ LostIsLost
  /\ EndStateMatchesResult
  /\ SuccessIsDurable

===============================================================================
