---------------------------- MODULE WorkerLifecycle ----------------------------
(***************************************************************************)
(* Starting, stopping, restarting and releasing workers: the planner         *)
(* (lifecycle.py), the coordinator and executor with the journal             *)
(* (lifecycle_coordinator.py, lifecycle_executor.py, lifecycle_journal.py),  *)
(* the observation it plans from (lifecycle_assembly.py), the steps          *)
(* (serena_operations.py) and the owned process with its pid file            *)
(* (owned_process.py), on a host where processes exit and pids are reused.   *)
(* A transaction is one call; worker states go through the registry.         *)
(***************************************************************************)
EXTENDS WorkerRegistry, Sequences

CONSTANTS
  Callers,  \* threads that run lifecycle actions, on the one service
  MaxPid,   \* pids 1..MaxPid
  Actions,  \* of "START", "STOP", "RESTART", "RELEASE"
  Tunnels,  \* workers whose tunnel reference another worker has as well
  Faults    \* "exit" of a process; "reuse" of its pid; "crash" of a call; "step": a step or an
            \* observation fails; "cleanup": a child that could not be recorded stays

LifecycleAssumption ==
  /\ MaxPid \in Nat \ {0}
  /\ Faults \subseteq {"exit", "reuse", "crash", "step", "cleanup"}
  /\ Cardinality(Centers) = 1

VARIABLES
  proc,     \* what runs under each pid: [who, port], who: its worker, Other or Nobody
  pidfile,  \* the pid in each worker's metadata; 0: no file
  calls,    \* the transaction of each caller
  orphans   \* pids of children that were lost before their pid was written (history)

host == <<proc, pidfile, orphans>>
lifecycleVars == <<disk, memory, proc, pidfile, calls, orphans>>

Center == CHOOSE c \in Centers : TRUE
Pids == 1..MaxPid
Nobody == 0
Other == MaxWorker + 1
Gone == [who |-> Nobody, port |-> FALSE]
Idle == [at |-> "idle"]
Row(w) == memory[Center].workers[w]

LifecycleInit ==
  /\ disk \in [projects : {Projects},
               workers : [1..Defaults -> {Worker("STOPPED", Unassigned)}
                             \cup {Worker("STOPPED", [project |-> p, mutation |-> TRUE]) : p \in Projects}]]
  /\ \A v, w \in 1..Defaults : v # w => disk.workers[v].assigned # disk.workers[w].assigned
  /\ memory = [c \in Centers |-> disk]
  /\ proc = [p \in Pids |-> Gone]
  /\ pidfile = [w \in 1..Defaults |-> 0]
  /\ calls = [x \in Callers |-> Idle]
  /\ orphans = {}

-------------------------------------------------------------------------------
(* Observation *)

(* read_pid_metadata, observe_process and classify_process_ownership *)
OwnershipOf(w, pid) ==
  CASE pid = 0 -> "ABSENT"
    [] pid > 0 /\ proc[pid].who = Nobody -> "STALE"
    [] pid > 0 /\ proc[pid].who = w -> "OWNED"
    [] OTHER -> "MISMATCH"
Ownership(w) == OwnershipOf(w, pidfile[w])

(* What an observation says: metadata that cannot be read is UNKNOWN, metadata *)
(* that cannot be decoded is a MISMATCH.  (The port is always observed.)     *)
Sighted(w, pid) ==
  {OwnershipOf(w, pid)} \cup (IF "step" \in Faults THEN {"UNKNOWN", "MISMATCH"} ELSE {})

(* observe_port_binding and classify_port_binding of the worker's own port *)
PortBinding(w, expected) ==
  LET listening == {p \in Pids : proc[p].who = w /\ proc[p].port}
  IN  IF listening = {} THEN "FREE" ELSE IF listening = {expected} THEN "OWNED" ELSE "COLLISION"
OwnPort(w) == PortBinding(w, IF Ownership(w) = "OWNED" THEN pidfile[w] ELSE 0)

-------------------------------------------------------------------------------
(* plan_lifecycle *)

StartSteps == <<"VERIFY_ASSIGNMENT", "VERIFY_RESOURCES", "RENDER_PROFILE", "PREFLIGHT",
                "START_OWNED_PROCESS", "WAIT_READY", "VERIFY_PROJECT_IDENTITY", "EMIT_EVIDENCE">>
StopSteps == <<"TARGETED_STOP", "WAIT_EXIT", "VERIFY_RELEASED", "EMIT_EVIDENCE">>
RestartSteps == <<"TARGETED_STOP", "WAIT_EXIT", "VERIFY_RELEASED", "VERIFY_RESOURCES", "RENDER_PROFILE",
                  "PREFLIGHT", "START_OWNED_PROCESS", "WAIT_READY", "VERIFY_PROJECT_IDENTITY",
                  "EMIT_EVIDENCE">>

Refuse == [decision |-> "REFUSE", steps |-> <<>>]
Noop == [decision |-> "NOOP", steps |-> <<>>]
Recover == [decision |-> "RECOVERY_REQUIRED", steps |-> <<>>]
Proceed(steps) == [decision |-> "PROCEED", steps |-> steps]

Assigned(w) == Row(w).assigned # Unassigned /\ ~Taken(Center, w, Row(w).assigned.project)
Uncertain(seen) == seen \in {"MISMATCH", "UNKNOWN", "STALE"}
Doubt(seen) == IF seen = "STALE" THEN Recover ELSE Refuse
Collision(w) == w \in Tunnels \/ OwnPort(w) = "COLLISION"

PlanStart(w, seen) ==
  CASE ~Assigned(w) -> Refuse
    [] Assigned(w) /\ Uncertain(seen) -> Doubt(seen)
    [] Assigned(w) /\ ~Uncertain(seen) /\ Collision(w) -> Refuse
    [] OTHER -> IF seen = "ABSENT" THEN Proceed(StartSteps)
                ELSE IF OwnPort(w) = "OWNED" THEN Noop ELSE Recover

PlanStop(w, seen) ==
  CASE Row(w).assigned = Unassigned \/ seen = "ABSENT" -> Noop
    [] Row(w).assigned # Unassigned /\ Uncertain(seen) -> Doubt(seen)
    [] OTHER -> Proceed(StopSteps)

PlanRestart(w, seen) ==
  CASE ~Assigned(w) -> Refuse
    [] Assigned(w) /\ Uncertain(seen) -> Doubt(seen)
    [] Assigned(w) /\ ~Uncertain(seen) /\ Collision(w) -> Refuse
    [] OTHER -> Proceed(IF seen = "ABSENT" THEN StartSteps ELSE RestartSteps)

(* The context of an unassigned worker has no process and a free port. *)
PlanRelease(w, seen) ==
  CASE Row(w).assigned = Unassigned -> IF Row(w).state = "STOPPED" THEN Noop ELSE Refuse
    [] Row(w).assigned # Unassigned /\ Uncertain(seen) -> Doubt(seen)
    [] seen = "OWNED" \/ Row(w).state # "STOPPED" -> Refuse
    [] OTHER -> IF OwnPort(w) = "FREE" THEN Proceed(<<"CLEAR_ASSIGNMENT", "EMIT_EVIDENCE">>) ELSE Recover

Plan(w, action, seen) ==
  CASE action = "START" -> PlanStart(w, seen)
    [] action = "STOP" -> PlanStop(w, seen)
    [] action = "RESTART" -> PlanRestart(w, seen)
    [] action = "RELEASE" -> PlanRelease(w, seen)

-------------------------------------------------------------------------------
(* LifecycleCoordinator.execute *)

Succeeded(action) == IF action \in {"START", "RESTART"} THEN "READY" ELSE "STOPPED"
Goto(x, at) == calls' = [calls EXCEPT ![x].at = at]
Finish(x, state) == calls' = [calls EXCEPT ![x].at = "persist", ![x].state = state]
Quit(x) == calls' = [calls EXCEPT ![x] = Idle]

(* The observation and the plan; a decision other than PROCEED only leaves a *)
(* worker state, a refusal not even that.                                    *)
Execute(x, w, action, seen) ==
  /\ calls[x] = Idle /\ seen \in Sighted(w, pidfile[w])
  /\ LET plan == Plan(w, action, seen)
         call == [at |-> "step", w |-> w, action |-> action, steps |-> plan.steps, state |-> "", pid |-> 0]
     IN  CASE plan.decision = "REFUSE" -> UNCHANGED calls
           [] plan.decision = "NOOP" ->
                calls' = [calls EXCEPT ![x] = [call EXCEPT !.at = "persist", !.state = Succeeded(action)]]
           [] plan.decision = "RECOVERY_REQUIRED" ->
                calls' = [calls EXCEPT ![x] = [call EXCEPT !.at = "persist", !.state = "ERROR"]]
           [] plan.decision = "PROCEED" ->
                calls' = [calls EXCEPT ![x] = [call EXCEPT !.at = IF action = "RELEASE" THEN "step" ELSE "begin"]]
  /\ UNCHANGED registryVars /\ UNCHANGED host

(* STARTING or STOPPING is persisted before the first step, or the call ends *)
Begin(x) ==
  /\ calls[x].at = "begin"
  /\ SetWorkerState(Center, calls[x].w, IF calls[x].action = "STOP" THEN "STOPPING" ELSE "STARTING")
  /\ IF disk' = disk /\ Row(calls[x].w).state # (IF calls[x].action = "STOP" THEN "STOPPING" ELSE "STARTING")
     THEN Quit(x) ELSE Goto(x, "step")
  /\ UNCHANGED host

Persist(x) ==
  /\ calls[x].at = "persist"
  /\ SetWorkerState(Center, calls[x].w, calls[x].state)
  /\ Quit(x)
  /\ UNCHANGED host

(* The next step of the plan; its checkpoint is recorded with it, or not:    *)
(* then, as when it fails, the transaction ends and the worker is in ERROR.  *)
OnStep(x, step) == calls[x].at = "step" /\ Head(calls[x].steps) = step
Step(x) ==
  calls' = [calls EXCEPT ![x] = IF Len(@.steps) = 1
                                THEN [@ EXCEPT !.at = "persist", !.state = Succeeded(calls[x].action), !.steps = <<>>]
                                ELSE [@ EXCEPT !.at = "step", !.steps = Tail(@)]]
Recorded(x) == Step(x) \/ ("step" \in Faults /\ Finish(x, "ERROR"))
Failed(x) == Finish(x, "ERROR")
Outcome(x, ok) == IF ok THEN Recorded(x) ELSE Failed(x)

(* VERIFY_ASSIGNMENT, RENDER_PROFILE, PREFLIGHT, VERIFY_PROJECT_IDENTITY and *)
(* EMIT_EVIDENCE                                                             *)
Verify(x, step) ==
  /\ OnStep(x, step)
  /\ step \in {"VERIFY_ASSIGNMENT", "RENDER_PROFILE", "PREFLIGHT", "VERIFY_PROJECT_IDENTITY", "EMIT_EVIDENCE"}
  /\ Recorded(x)
  /\ UNCHANGED registryVars /\ UNCHANGED host

VerifyResources(x) ==
  /\ OnStep(x, "VERIFY_RESOURCES")
  /\ Outcome(x, /\ Ownership(calls[x].w) = "ABSENT" /\ PortBinding(calls[x].w, 0) = "FREE"
                /\ calls[x].w \notin Tunnels)
  /\ UNCHANGED registryVars /\ UNCHANGED host

(* WindowsOwnedProcessController.start: the metadata is read, *)
StartRead(x) ==
  /\ OnStep(x, "START_OWNED_PROCESS")
  /\ \E seen \in Sighted(calls[x].w, pidfile[calls[x].w]) :
       CASE seen = "ABSENT" -> Goto(x, "spawn")
         [] seen = "OWNED" -> Recorded(x)
         [] OTHER -> Failed(x)
  /\ UNCHANGED registryVars /\ UNCHANGED host

(* the child is spawned, or PROCESS_START_FAILED, *)
Spawn(x, pid) ==
  /\ calls[x].at = "spawn"
  /\ proc[pid] = Gone
  /\ proc' = [proc EXCEPT ![pid] = [who |-> calls[x].w, port |-> FALSE]]
  /\ calls' = [calls EXCEPT ![x].at = "record", ![x].pid = pid]
  /\ orphans' = orphans \ {pid}
  /\ UNCHANGED registryVars /\ UNCHANGED pidfile
SpawnFails(x) ==
  /\ "step" \in Faults /\ calls[x].at = "spawn"
  /\ Failed(x)
  /\ UNCHANGED registryVars /\ UNCHANGED host

(* and its pid is written; when that fails the child is terminated again. *)
WritePid(x) ==
  /\ calls[x].at = "record"
  /\ \/ /\ pidfile' = [pidfile EXCEPT ![calls[x].w] = calls[x].pid]
        /\ Recorded(x)
        /\ UNCHANGED <<proc, orphans>>
     \/ /\ "step" \in Faults
        /\ Failed(x)
        /\ proc' = IF proc[calls[x].pid].who # calls[x].w THEN proc
                   ELSE [proc EXCEPT ![calls[x].pid] = Gone]
        /\ UNCHANGED <<pidfile, orphans>>
     \/ /\ "cleanup" \in Faults
        /\ Failed(x)
        /\ orphans' = orphans \cup {calls[x].pid}
        /\ UNCHANGED <<proc, pidfile>>
  /\ UNCHANGED registryVars

(* wait_ready polls until the process listens, or it is gone or not ours, or *)
(* the deadline is past.                                                     *)
WaitReady(x) ==
  /\ OnStep(x, "WAIT_READY")
  /\ LET w == calls[x].w
     IN  CASE Ownership(w) = "OWNED" /\ PortBinding(w, pidfile[w]) = "OWNED" -> Recorded(x)
           [] Ownership(w) = "OWNED" /\ PortBinding(w, pidfile[w]) = "FREE" -> "step" \in Faults /\ Failed(x)
           [] OTHER -> Failed(x)
  /\ UNCHANGED registryVars /\ UNCHANGED host

(* WindowsOwnedProcessController.stop: the process of the pid is proven, *)
StopRead(x) ==
  /\ OnStep(x, "TARGETED_STOP")
  /\ \E seen \in Sighted(calls[x].w, pidfile[calls[x].w]) :
       CASE seen = "ABSENT" -> Recorded(x)
         [] seen = "OWNED" -> calls' = [calls EXCEPT ![x].at = "terminate", ![x].pid = pidfile[calls[x].w]]
         [] OTHER -> Failed(x)
  /\ UNCHANGED registryVars /\ UNCHANGED host

(* whatever has the pid by now is terminated, *)
Terminate(x) ==
  /\ calls[x].at = "terminate"
  /\ LET pid == calls[x].pid
     IN  proc' = [proc EXCEPT ![pid] = Gone] \/ ("step" \in Faults /\ UNCHANGED proc)
  /\ Goto(x, "exited")
  /\ UNCHANGED registryVars /\ UNCHANGED <<pidfile, orphans>>

(* Mutant: a stop that could not be confirmed removes the pid file. *)
ConfirmAnyway(x) ==
  /\ calls[x].at = "exited"
  /\ IF pidfile[calls[x].w] = calls[x].pid
     THEN pidfile' = [pidfile EXCEPT ![calls[x].w] = 0] /\ Recorded(x)
     ELSE Failed(x) /\ UNCHANGED pidfile
  /\ UNCHANGED registryVars /\ UNCHANGED <<proc, orphans>>

(* and the pid file is removed when the process is seen to be gone and the   *)
(* file is still the one that was read.                                      *)
ConfirmExit(x) ==
  /\ calls[x].at = "exited"
  /\ \E seen \in Sighted(calls[x].w, calls[x].pid) :
       IF seen = "STALE" /\ pidfile[calls[x].w] = calls[x].pid
       THEN pidfile' = [pidfile EXCEPT ![calls[x].w] = 0] /\ Recorded(x)
       ELSE Failed(x) /\ UNCHANGED pidfile
  /\ UNCHANGED registryVars /\ UNCHANGED <<proc, orphans>>

(* wait_exit, which verify_released repeats *)
WaitExit(x, step) ==
  /\ OnStep(x, step) /\ step \in {"WAIT_EXIT", "VERIFY_RELEASED"}
  /\ Outcome(x, pidfile[calls[x].w] = 0 /\ PortBinding(calls[x].w, 0) = "FREE")
  /\ UNCHANGED registryVars /\ UNCHANGED host

(* ControlCenterAssignmentService.clear *)
ClearAssignment(x) ==
  /\ OnStep(x, "CLEAR_ASSIGNMENT")
  /\ IF Row(calls[x].w).state = "STOPPED"
     THEN /\ ReleaseWorker(Center, calls[x].w)
          /\ IF memory'[Center].workers[calls[x].w].assigned = Unassigned THEN Recorded(x) ELSE Failed(x)
     ELSE Failed(x) /\ UNCHANGED registryVars
  /\ UNCHANGED host

-------------------------------------------------------------------------------
(* The host and the operator *)

Listens(pid) ==
  /\ proc[pid].who \in 1..MaxWorker /\ ~proc[pid].port
  /\ PortBinding(proc[pid].who, 0) = "FREE"
  /\ proc' = [proc EXCEPT ![pid].port = TRUE]
  /\ UNCHANGED <<disk, memory, pidfile, calls, orphans>>
Exits(pid) ==
  /\ "exit" \in Faults /\ proc[pid] # Gone
  /\ proc' = [proc EXCEPT ![pid] = Gone]
  /\ UNCHANGED <<disk, memory, pidfile, calls, orphans>>
Reused(pid) ==
  /\ "reuse" \in Faults /\ proc[pid] = Gone
  /\ proc' = [proc EXCEPT ![pid] = [who |-> Other, port |-> FALSE]]
  /\ UNCHANGED <<disk, memory, pidfile, calls, orphans>>
Crash(x) ==
  /\ "crash" \in Faults /\ calls[x] # Idle
  /\ Quit(x)
  /\ orphans' = IF calls[x].at = "record" THEN orphans \cup {calls[x].pid} ELSE orphans
  /\ UNCHANGED registryVars /\ UNCHANGED <<proc, pidfile>>

(* The assignment of a worker, by the operator *)
Reassign(w, p) ==
  /\ Assign(Center, w, p, TRUE) \/ ReplaceAssignment(Center, w, p, TRUE)
  /\ UNCHANGED calls /\ UNCHANGED host

CallStep(x) ==
  \/ Begin(x) \/ Persist(x) \/ VerifyResources(x) \/ StartRead(x) \/ (\E pid \in Pids : Spawn(x, pid)) \/ SpawnFails(x)
  \/ WritePid(x) \/ WaitReady(x) \/ StopRead(x) \/ Terminate(x) \/ ConfirmExit(x) \/ ClearAssignment(x)
  \/ \E step \in {"WAIT_EXIT", "VERIFY_RELEASED"} : WaitExit(x, step)
  \/ \E step \in {"VERIFY_ASSIGNMENT", "RENDER_PROFILE", "PREFLIGHT", "VERIFY_PROJECT_IDENTITY", "EMIT_EVIDENCE"} :
       Verify(x, step)

LifecycleNext ==
  \/ \E x \in Callers : \/ \E w \in Known(Center), a \in Actions : \E seen \in Sighted(w, pidfile[w]) : Execute(x, w, a, seen)
                        \/ CallStep(x) \/ Crash(x)
  \/ \E pid \in Pids : Listens(pid) \/ Exits(pid) \/ Reused(pid)
  \/ \E w \in Known(Center), p \in Projects : Reassign(w, p)

LifecycleSpec == LifecycleInit /\ [][LifecycleNext]_lifecycleVars

-------------------------------------------------------------------------------
(* Properties *)

LifecycleTypeOK ==
  /\ RegistryOK(disk)
  /\ proc \in [Pids -> [who : 0..Other, port : BOOLEAN]]
  /\ pidfile \in [1..Defaults -> 0..MaxPid]
  /\ \A x \in Callers : calls[x] = Idle \/ calls[x].w \in 1..Defaults

(* The processes of a worker, without the orphans: the children of a caller  *)
(* that died between the spawn and the write of the pid, or whose pid could  *)
(* not be written and which could not be terminated again.  Nothing names an *)
(* orphan: the next STOP is a NOOP, and the next START makes a second        *)
(* process unless the orphan listens already.                                *)
Live(w) == {p \in Pids \ orphans : proc[p].who = w}

(* A worker that is STOPPED has no process left but orphans, whatever steps  *)
(* failed, processes exited and callers died on the way.                     *)
StoppedIsGone == \A w \in 1..Defaults : disk.workers[w].state = "STOPPED" => Live(w) = {}

(* One caller at a time never has two processes of a worker besides orphans. *)
OneProcess == \A w \in 1..Defaults : Cardinality(Live(w)) <= 1

(* As long as no process exits by itself, a worker that is READY has its     *)
(* process running and listening.                                            *)
ReadyIsRunning ==
  \A w \in 1..Defaults : disk.workers[w].state = "READY" =>
    \E p \in Live(w) : pidfile[w] = p /\ proc[p].port

===============================================================================
