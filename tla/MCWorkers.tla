------------------------------ MODULE MCWorkers ------------------------------
(***************************************************************************)
(* Instances for TLC of the modules about workers and connectors: the       *)
(* registry and the transactions on it, the recovery of a connector, the    *)
(* start script and the files of a new instance, and the observation of a   *)
(* worktree before its cleanup.                                             *)
(*                                                                          *)
(* They share no state, so each is checked apart from the others: a         *)
(* behaviour is one of a single part.  The variables of WorkerRegistry are  *)
(* those of the part "registry"; v1 to v12 hold the variables of any other, *)
(* in the order of their declaration.                                       *)
(***************************************************************************)
EXTENDS WorkerRegistry, Sequences, TLC

CONSTANTS
  Parts,  \* the parts a run is about
  None, Unknown, c1, c2, p1, p2, x1

VARIABLES part, v1, v2, v3, v4, v5, v6, v7, v8, v9, v10, v11, v12

others == <<part, v1, v2, v3, v4, v5, v6, v7, v8, v9, v10, v11, v12>>
vars == <<registryVars, others>>
From8 == <<v8, v9, v10, v11, v12>>
From7 == <<v7, From8>>
From6 == <<v6, From7>>
From5 == <<v5, From6>>
From3 == <<v3, v4, From5>>

No8 == v8 = None /\ v9 = None /\ v10 = None /\ v11 = None /\ v12 = None
No7 == v7 = None /\ No8
No6 == v6 = None /\ No7
No5 == v5 = None /\ No6
No3 == v3 = None /\ v4 = None /\ No5
No1 == v1 = None /\ v2 = None /\ No3

-------------------------------------------------------------------------------
(* Two services that overwrite each other's snapshot. *)
Shared == INSTANCE WorkerRegistry WITH
  Centers <- {c1, c2}, Projects <- {p1}, MaxWorker <- 2, Defaults <- 2, Trouble <- {"restart"},
  disk <- v1, memory <- v2

(* One service whose saves fail, and the reload after them, too. *)
Reload == INSTANCE WorkerRegistry WITH
  Centers <- {c1}, Projects <- {p1}, MaxWorker <- 2, Defaults <- 2, Trouble <- {"save", "reload", "restart"},
  disk <- v1, memory <- v2

(* Transactions on two workers: processes that exit and pids that are used  *)
(* again; saves that fail and a tunnel that two workers share.              *)
Lifecycle == INSTANCE WorkerLifecycle WITH
  Centers <- {c1}, Projects <- {p1}, MaxWorker <- 2, Defaults <- 2, Trouble <- {},
  Callers <- {x1}, MaxPid <- 2, Actions <- {"START", "STOP", "RESTART", "RELEASE"},
  Tunnels <- {}, Faults <- {"exit", "reuse", "crash", "step", "cleanup"},
  disk <- v1, memory <- v2, proc <- v3, pidfile <- v4, calls <- v5, orphans <- v6
Ready == INSTANCE WorkerLifecycle WITH
  Centers <- {c1}, Projects <- {p1}, MaxWorker <- 2, Defaults <- 2, Trouble <- {"save"},
  Callers <- {x1}, MaxPid <- 3, Actions <- {"START", "STOP", "RESTART", "RELEASE"},
  Tunnels <- {2}, Faults <- {"crash", "step", "cleanup"},
  disk <- v1, memory <- v2, proc <- v3, pidfile <- v4, calls <- v5, orphans <- v6

(* Recoveries over time; and background jobs beside a window in use. *)
Recovery == INSTANCE ConnectorRecovery WITH
  Jobs <- {"refresh", "start", "stop"}, UiActions <- {"autostart", "close", "reopen"},
  Autostart <- TRUE, FailureLimit <- 2, Window <- 2, Backoff <- <<1, 2>>, MaxTime <- 3,
  MaxQueued <- 1, MaxRestarts <- 1, Faults <- {"launch", "dies"},
  proc <- v1, exists <- v2, autostart <- v3, rec <- v4, pending <- v5, cancel <- v6,
  intent <- v7, bg <- v8, queue <- v9, ui <- v10, now <- v11, failures <- v12
Stopping == INSTANCE ConnectorRecovery WITH
  Jobs <- {"refresh", "start", "stop", "startall"}, UiActions <- {"close", "delete", "autostart"},
  Autostart <- TRUE, FailureLimit <- 2, Window <- 3, Backoff <- <<1, 2>>, MaxTime <- 1,
  MaxQueued <- 1, MaxRestarts <- 0, Faults <- {"launch", "stop", "dies", "hangs"},
  proc <- v1, exists <- v2, autostart <- v3, rec <- v4, pending <- v5, cancel <- v6,
  intent <- v7, bg <- v8, queue <- v9, ui <- v10, now <- v11, failures <- v12

-------------------------------------------------------------------------------
(* Start scripts: one that waits by method, a legacy one that was hardened, *)
(* and what edits make of them.                                             *)
S == INSTANCE InstanceCreate WITH
  Names <- {}, Creators <- {}, BasePort <- 0, Overlap <- FALSE, Extras <- FALSE,
  Scripts <- {}, Insertable <- {}, MaxEdits <- 0,
  made <- v1, file <- v2, extra <- v3, call <- v4, script <- v5, edits <- v6
Preflight == <<"failfn", "exit1", "close", "guard", "fail", "close">>
Logs == <<"stdout", "stderr", "starting">>
Reference(wait) ==
  S!Plain(Preflight \o Logs \o <<"try", "launch">> \o wait \o <<"close", "finally", "other", "close">>)
Legacy == Reference(<<"waitproc">>)

Script == INSTANCE InstanceCreate WITH
  Names <- {}, Creators <- {}, BasePort <- 0, Overlap <- FALSE, Extras <- FALSE,
  Scripts <- {Reference(S!MethodWait), S!Harden(Legacy)},
  Insertable <- {"try", "exit", "tick"}, MaxEdits <- 2,
  made <- v3, file <- v4, extra <- v5, call <- v6, script <- v1, edits <- v2

(* Creators of two processes at once; and one after the other. *)
Create == INSTANCE InstanceCreate WITH
  Names <- 1..2, Creators <- {c1, c2}, BasePort <- 18011, Overlap <- TRUE, Extras <- TRUE,
  Scripts <- {}, Insertable <- {}, MaxEdits <- 0,
  made <- v1, file <- v2, extra <- v3, call <- v4, script <- v5, edits <- v6
Serial == INSTANCE InstanceCreate WITH
  Names <- 1..3, Creators <- {c1, c2, x1}, BasePort <- 18011, Overlap <- FALSE, Extras <- TRUE,
  Scripts <- {}, Insertable <- {}, MaxEdits <- 0,
  made <- v1, file <- v2, extra <- v3, call <- v4, script <- v5, edits <- v6

-------------------------------------------------------------------------------
Lease(i, s, b) == [id |-> i, state |-> s, bound |-> b]
LeaseSets ==
  {{}, {Lease(1, "RELEASED", TRUE)}, {Lease(1, "ACTIVE", TRUE)}, {Lease(1, "STALE", TRUE)},
   {Lease(1, "UNKNOWN", TRUE), Lease(2, "ACTIVE", TRUE)}, {Lease(1, "ACTIVE", FALSE)}}
W == INSTANCE WorktreeLifecycle WITH
  Worlds <- {}, Moves <- FALSE, MaxMoves <- 0, MayFail <- {}, MaxMissing <- 0,
  world <- v1, facts <- v2, asked <- v3, moved <- v4

(* A still world in which at most three things speak against a release, in  *)
(* every combination, and two authorities fail; a world that moves.         *)
Base == [head |-> 1, protected |-> FALSE, dirty |-> "clean", leases |-> {Lease(1, "RELEASED", TRUE)},
         executions |-> {"done"}, processes |-> {}, reviews |-> {}, merge |-> W!Merge(TRUE, TRUE),
         merged |-> {1}, published |-> "no"]
Deviations(w) == {x \in DOMAIN Base : w[x] # Base[x]}
Still ==
  {w \in [head: {1}, protected: {TRUE, FALSE, Unknown}, dirty: {"clean", "tracked", "untracked"},
          leases: LeaseSets, executions: {{}, {"done"}, {"live"}, {"unresolved"}},
          processes: {{}, {"OWNED"}, {"STALE"}},
          reviews: {{}, {[head |-> 1, bound |-> TRUE]}, {[head |-> 2, bound |-> TRUE]}},
          merge: {W!NoMerge, W!Merge(FALSE, FALSE), W!Merge(TRUE, TRUE)}, merged: {{}, {1}},
          published: {"no", "branch", "pr"}] : Cardinality(Deviations(w)) <= 3}
Quiet ==
  [head: {1}, protected: {FALSE}, dirty: {"clean"},
   leases: {{Lease(1, "RELEASED", TRUE)}, {Lease(1, "ACTIVE", TRUE)}},
   executions: {{}}, processes: {{}}, reviews: {{}},
   merge: {W!Merge(TRUE, TRUE)}, merged: {{}, {1}}, published: {"no"}]
All == {W!Authorities[i] : i \in DOMAIN W!Authorities}

Classes == INSTANCE WorktreeLifecycle WITH
  Worlds <- Still, Moves <- FALSE, MaxMoves <- 0, MayFail <- All, MaxMissing <- 2,
  world <- v1, facts <- v2, asked <- v3, moved <- v4
Moving == INSTANCE WorktreeLifecycle WITH
  Worlds <- Quiet, Moves <- TRUE, MaxMoves <- 5, MayFail <- All, MaxMissing <- 1,
  world <- v1, facts <- v2, asked <- v3, moved <- v4

ASSUME WorkerInstances ==
  /\ Shared!RegistryAssumption /\ Reload!RegistryAssumption
  /\ Lifecycle!LifecycleAssumption /\ Ready!LifecycleAssumption
  /\ Recovery!RecoveryAssumption /\ Stopping!RecoveryAssumption
  /\ Script!ScriptAssumption
  /\ Create!InstanceAssumption /\ Serial!InstanceAssumption
  /\ Classes!LifecycleAssumption /\ Moving!LifecycleAssumption

-------------------------------------------------------------------------------
Init ==
  /\ part \in Parts
  /\ RegistryInit
  /\ \/ part = "registry" /\ No1
     \/ part = "shared" /\ Shared!RegistryInit /\ No3
     \/ part = "reload" /\ Reload!RegistryInit /\ No3
     \/ part = "lifecycle" /\ Lifecycle!LifecycleInit /\ No7
     \/ part = "ready" /\ Ready!LifecycleInit /\ No7
     \/ part = "recovery" /\ Recovery!RecoveryInit
     \/ part = "stopping" /\ Stopping!RecoveryInit
     \/ part = "script" /\ Script!ScriptInit /\ No3
     \/ part = "create" /\ Create!InstanceInit /\ No5
     \/ part = "serial" /\ Serial!InstanceInit /\ No5
     \/ part = "classes" /\ Classes!LifecycleInit /\ No5
     \/ part = "moving" /\ Moving!LifecycleInit /\ No5

RegistryStep == part = "registry" /\ RegistryNext /\ UNCHANGED others
SharedStep == part = "shared" /\ Shared!RegistryNext /\ UNCHANGED <<part, From3, registryVars>>
ReloadStep == part = "reload" /\ Reload!RegistryNext /\ UNCHANGED <<part, From3, registryVars>>
LifecycleStep == part = "lifecycle" /\ Lifecycle!LifecycleNext /\ UNCHANGED <<part, From7, registryVars>>
ReadyStep == part = "ready" /\ Ready!LifecycleNext /\ UNCHANGED <<part, From7, registryVars>>
RecoveryStep == part = "recovery" /\ Recovery!RecoveryNext /\ UNCHANGED <<part, registryVars>>
StoppingStep == part = "stopping" /\ Stopping!RecoveryNext /\ UNCHANGED <<part, registryVars>>
ScriptStep == part = "script" /\ Script!ScriptNext /\ UNCHANGED <<part, From3, registryVars>>
CreateStep == part = "create" /\ Create!InstanceNext /\ UNCHANGED <<part, From5, registryVars>>
SerialStep == part = "serial" /\ Serial!InstanceNext /\ UNCHANGED <<part, From5, registryVars>>
ClassesStep == part = "classes" /\ Classes!LifecycleNext /\ UNCHANGED <<part, From5, registryVars>>
MovingStep == part = "moving" /\ Moving!LifecycleNext /\ UNCHANGED <<part, From5, registryVars>>

Next ==
  \/ RegistryStep \/ SharedStep \/ ReloadStep \/ LifecycleStep \/ ReadyStep \/ RecoveryStep \/ StoppingStep
  \/ ScriptStep \/ CreateStep \/ SerialStep \/ ClassesStep \/ MovingStep

Spec == Init /\ [][Next]_vars

(* Services, creators and projects are alike. *)
WorkerSymmetry == Permutations({c1, c2}) \cup Permutations({p1, p2})

-------------------------------------------------------------------------------
(***************************************************************************)
(* Whatever steps fail, processes exit, pids are used again and callers die *)
(* on the way: a stopped worker has no process left and no worker has two,  *)
(* but for children that were lost before their pid was written, which the  *)
(* pid file cannot name; and a READY worker runs and listens, lost children *)
(* or not, until its process exits by itself.  Two services that overwrite  *)
(* each other's registry, and one that cannot reload what is stored after a *)
(* failed save, keep one mutator per project, too.                          *)
(***************************************************************************)
LifecycleSafety ==
  /\ part = "shared" => Shared!OneMutator
  /\ part = "reload" => Reload!OneMutator
  /\ part = "lifecycle" =>
       Lifecycle!LifecycleTypeOK /\ Lifecycle!StoppedIsGone /\ Lifecycle!OneProcess
  /\ part = "ready" => Ready!ReadyIsRunning

(***************************************************************************)
(* Failed recoveries of a connector are at least the first delay apart and  *)
(* end at the limit, through starts, stops, closing and reopening.          *)
(***************************************************************************)
RecoverySafety == part = "recovery" => Recovery!RecoveryTypeOK /\ Recovery!BacksOff

(***************************************************************************)
(* A new instance: a start script that is taken for hardened archives the   *)
(* logs and reports the exit code on every path, hardening keeps the other  *)
(* lines; what is reported as created is complete, also when two creators   *)
(* work at once, and what is refused leaves nothing, unless the reference   *)
(* has two Start-*.cmd.  Of creators that run one after the other, each     *)
(* instance is one's work, and copies listen on different ports.            *)
(***************************************************************************)
CreationSafety ==
  /\ part = "script" =>
       Script!ScriptTypeOK /\ Script!HardenedIsForensic /\ Script!HardeningKeepsTheRest
  /\ part = "create" =>
       Create!InstanceTypeOK /\ Create!ReturnedIsComplete /\ Create!RefusedLeavesNothing
  /\ part = "serial" =>
       Serial!OneAuthor /\ Serial!CopiesListenApart /\ Serial!RefusedLeavesNothing

(***************************************************************************)
(* A worktree is called safe to archive only when every authority answered  *)
(* in full, none of them spoke against it and its head is merged; evidence  *)
(* of use wins over evidence that is missing.                               *)
(***************************************************************************)
WorktreeSafety ==
  /\ part = "classes" =>
       Classes!LifecycleTypeOK /\ Classes!EligibleIsProven /\ Classes!ProtectiveEvidenceWins
  /\ part = "moving" => Moving!ReleasedHeadIsMerged

(***************************************************************************)
(* No step takes the project from a worker that is starting, ready or       *)
(* stopping, and no step launches a connector that the operator has         *)
(* stopped, however jobs, health samples and windows interleave.            *)
(***************************************************************************)
WorkerSteps ==
  [][/\ part = "registry" => BusyKeepsProject
     /\ part = "stopping" => Stopping!StopIsRespected]_vars
===============================================================================
