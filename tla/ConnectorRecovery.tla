--------------------------- MODULE ConnectorRecovery ---------------------------
(***************************************************************************)
(* One connector of the desktop: its process, the durable recovery record    *)
(* (connector_recovery.py, serena_config_store.py), the start and the stop   *)
(* (local_instances.py), the service that serialises them with an intent     *)
(* lock (desktop_control.py), and the two threads that use it: the single    *)
(* background worker, which refreshes, starts and stops, and the user        *)
(* interface, which deletes the connector or closes the window               *)
(* (desktop_ui.py).  Launching and running the stop script are atomic: both  *)
(* happen under the orchestrator's action lock.                              *)
(***************************************************************************)
EXTENDS Naturals, Sequences, FiniteSets

CONSTANTS
  Jobs,         \* background jobs: "refresh", "start", "stop", "startall"
  UiActions,    \* "delete", "close", "reopen", "autostart"
  Autostart,    \* the autostart flag at first
  FailureLimit, \* failure_limit
  Window,       \* failure_window_seconds
  Backoff,      \* backoff_seconds, a sequence
  MaxTime,      \* bound on the clock
  MaxQueued,    \* bound on the jobs that wait
  MaxRestarts,  \* bound on the restarts that are counted
  Faults        \* "launch" fails; "stop" script fails; "dies": the process; "hangs"

RecoveryAssumption ==
  /\ FailureLimit \in Nat \ {0} /\ Window \in Nat \ {0} /\ MaxTime \in Nat /\ MaxRestarts \in Nat /\ MaxQueued \in Nat \ {0}
  /\ Len(Backoff) > 0 /\ \A i \in 1..Len(Backoff) : Backoff[i] \in Nat \ {0}

VARIABLES
  proc,      \* "down", "starting" (launched, not answering), "up" or "hung"
  exists,    \* the instance directory is there
  autostart, \* instance_flags
  rec,       \* the row of instance_recovery, or NoRecord
  pending,   \* the name is in _pending_instance_starts
  cancel,    \* _background_cancel_event
  intent,    \* holder of the connector's intent lock: "bg", "ui" or "free"
  bg,        \* the job of the background worker
  queue,     \* jobs the executor has not begun
  ui,        \* what the user interface is doing
  now,       \* the clock
  failures   \* times of the failed recovery attempts since the last good one (history)

recoveryVars == <<proc, exists, autostart, rec, pending, cancel, intent, bg, queue, ui, now, failures>>
disk == <<exists, autostart>>

Never == MaxTime + Window + 1
NoRecord == [state |-> "NONE", suppressed |-> FALSE, count |-> 0, since |-> Never, restarts |-> 0, retry |-> Never]
Fresh == [NoRecord EXCEPT !.state = "STOPPED"]
States == {"STOPPED", "READY", "RECOVERING", "DEGRADED"}
NoJob == [job |-> "none", at |-> "idle", health |-> "", mine |-> NoRecord, time |-> 0, launched |-> FALSE]
NoUi == [at |-> "idle", swept |-> FALSE]

RecoveryInit ==
  /\ proc = "down" /\ exists = TRUE /\ autostart = Autostart /\ rec = NoRecord
  /\ pending = FALSE /\ cancel = FALSE /\ intent = "free" /\ now = 0 /\ failures = {}
  /\ bg = NoJob /\ queue = <<>> /\ ui = NoUi

(* instance_health_state: no answer at all is STOPPED *)
Health == CASE proc = "up" -> "READY" [] proc = "hung" -> "UNKNOWN" [] OTHER -> "STOPPED"
Current == IF rec = NoRecord THEN Fresh ELSE rec

-------------------------------------------------------------------------------
(* ConnectorRecoveryCoordinator *)

Suppressed(r) == [r EXCEPT !.state = "STOPPED", !.suppressed = TRUE, !.retry = Never]
ManualStart(r) == [r EXCEPT !.state = "STOPPED", !.suppressed = FALSE, !.count = 0, !.since = Never, !.retry = Never]
Ready(r) == [r EXCEPT !.state = "READY", !.count = 0, !.since = Never, !.retry = Never]

(* Mutant: every failure opens a window of its own. *)
FailedAttemptAlone(r, time) ==
  [r EXCEPT !.state = IF 1 >= FailureLimit THEN "DEGRADED" ELSE "RECOVERING", !.count = 1, !.since = time,
            !.retry = IF 1 >= FailureLimit THEN Never ELSE time + Backoff[1]]

(* the count is only compared with the limit and stays at it *)
FailedAttempt(r, time) ==
  LET again == r.since # Never /\ time - r.since <= Window
      n == IF again THEN r.count + 1 ELSE 1
      over == n >= FailureLimit
  IN  [r EXCEPT !.state = IF over THEN "DEGRADED" ELSE "RECOVERING",
                !.count = IF over THEN FailureLimit ELSE n,
                !.since = IF again THEN @ ELSE time,
                !.retry = IF over THEN Never
                          ELSE time + Backoff[IF n <= Len(Backoff) THEN n ELSE Len(Backoff)]]

(* observe: whether a sample of the health leads to a start *)
RecoveryDue(health) ==
  /\ health = "STOPPED" /\ ~Current.suppressed /\ autostart
  /\ Current.state # "DEGRADED" /\ (Current.retry # Never => now >= Current.retry)

(* and the record that it leaves otherwise *)
Observed(health) ==
  CASE health = "READY" -> Ready(Current)
    [] health = "STOPPED" /\ (Current.suppressed \/ ~autostart) ->
         [Current EXCEPT !.state = "STOPPED", !.retry = Never]
    [] OTHER -> Current

-------------------------------------------------------------------------------
(* The background worker: one job at a time *)

(* The user interface hands jobs to the executor as long as it is not busy. *)
Submit(job) ==
  /\ ui.at = "idle" /\ ~cancel /\ job \in Jobs /\ Len(queue) < MaxQueued
  /\ queue' = Append(queue, job)
  /\ UNCHANGED <<proc, disk, rec, pending, cancel, intent, bg, ui, now, failures>>
Take ==
  /\ bg.at = "idle" /\ queue # <<>>
  /\ queue' = Tail(queue)
  /\ bg' = IF ~exists THEN NoJob
           ELSE [NoJob EXCEPT !.job = Head(queue),
                              !.at = IF Head(queue) \in {"refresh", "startall"} THEN "probe" ELSE "lock"]
  /\ UNCHANGED <<proc, disk, rec, pending, cancel, intent, ui, now, failures>>

Done == bg' = NoJob
(* After the refresh a start-all goes on, unless the connector is READY. *)
AfterRefresh(health) ==
  IF bg.job = "startall" /\ health # "READY" /\ ~cancel THEN bg' = [NoJob EXCEPT !.job = bg.job, !.at = "lock"] ELSE Done

(* instance_states_cancellable: the sample is taken before the lock *)
Probe ==
  /\ bg.at = "probe"
  /\ IF cancel THEN Done ELSE bg' = [bg EXCEPT !.at = "reconcile", !.health = Health]
  /\ UNCHANGED <<proc, disk, rec, pending, cancel, intent, ui, now, failures, queue>>

(* Mutant: the record is not guarded by the intent lock. *)
ReconcileUnlocked ==
  /\ bg.at = "reconcile" /\ ~cancel
  /\ IF RecoveryDue(bg.health)
     THEN /\ rec' = [Current EXCEPT !.state = "RECOVERING", !.retry = Never]
          /\ bg' = [bg EXCEPT !.at = "check", !.mine = rec', !.time = now]
     ELSE rec' = Observed(bg.health) /\ AfterRefresh(bg.health)
  /\ failures' = IF rec'.count = 0 THEN {} ELSE failures
  /\ UNCHANGED <<proc, disk, pending, cancel, intent, ui, now, queue>>

(* reconcile_instance_recovery: a recovery keeps the lock until it is saved *)
Reconcile ==
  /\ bg.at = "reconcile" /\ (cancel \/ intent = "free")
  /\ CASE cancel -> Done /\ UNCHANGED <<rec, intent>>
       [] ~cancel /\ RecoveryDue(bg.health) ->
            /\ rec' = [Current EXCEPT !.state = "RECOVERING", !.retry = Never]
            /\ bg' = [bg EXCEPT !.at = "check", !.mine = rec', !.time = now]
            /\ intent' = "bg"
       [] OTHER -> rec' = Observed(bg.health) /\ AfterRefresh(bg.health) /\ UNCHANGED intent
  /\ failures' = IF rec'.count = 0 THEN {} ELSE failures
  /\ UNCHANGED <<proc, disk, pending, cancel, ui, now, queue>>

(* instance_action_cancellable and instance_action: the operator's intent is *)
(* recorded before anything is done                                          *)
Intend ==
  /\ bg.at = "lock" /\ intent = "free"
  /\ intent' = "bg"
  /\ IF bg.job = "stop"
     THEN rec' = Suppressed(Current) /\ bg' = [bg EXCEPT !.at = "stop"] /\ UNCHANGED pending
     ELSE /\ rec' = ManualStart(Current)
          /\ bg' = [bg EXCEPT !.at = "check", !.mine = NoRecord]
          /\ pending' = TRUE
  /\ failures' = IF rec'.count = 0 THEN {} ELSE failures
  /\ UNCHANGED <<proc, disk, cancel, ui, now, queue>>

(* LocalInstanceOrchestrator.start, up to the launch *)
Check ==
  /\ bg.at = "check"
  /\ bg' = [bg EXCEPT !.at = "save",
                      !.health = CASE cancel -> "CANCELLED" [] ~cancel /\ proc = "up" -> "RUNNING"
                                   [] OTHER -> IF exists THEN @ ELSE "FAILED",
                      !.at = IF ~cancel /\ proc # "up" /\ exists THEN "launch" ELSE "save"]
  /\ UNCHANGED <<proc, disk, rec, pending, cancel, intent, ui, now, failures, queue>>

(* The last look at the cancellation and the launch are under the action lock *)
Launch ==
  /\ bg.at = "launch"
  /\ \/ /\ cancel
        /\ bg' = [bg EXCEPT !.at = "save", !.health = "CANCELLED"]
        /\ UNCHANGED proc
     \/ /\ ~cancel
        /\ proc' = IF proc = "down" THEN "starting" ELSE proc
        /\ bg' = [bg EXCEPT !.at = "await", !.launched = TRUE]
     \/ /\ ~cancel /\ "launch" \in Faults
        /\ bg' = [bg EXCEPT !.at = "save", !.health = "FAILED"]
        /\ UNCHANGED proc
  /\ UNCHANGED <<disk, rec, pending, cancel, intent, ui, now, failures, queue>>

(* until it is READY, the start is cancelled, or startup_timeout is past *)
Await ==
  /\ bg.at = "await"
  /\ \E code \in {"CANCELLED", "RUNNING", "NOT_READY"} :
       /\ (code = "CANCELLED") = cancel
       /\ code = "RUNNING" => proc = "up"
       /\ bg' = [bg EXCEPT !.at = "save", !.health = code]
  /\ UNCHANGED <<proc, disk, rec, pending, cancel, intent, ui, now, failures, queue>>

(* The outcome of a recovery is saved over the record it started from. *)
SaveRecovery ==
  /\ bg.at = "save" /\ bg.mine # NoRecord
  /\ CASE bg.health = "CANCELLED" ->
            rec' = [bg.mine EXCEPT !.state = "STOPPED", !.retry = Never] /\ UNCHANGED failures
       [] bg.health = "RUNNING" ->
            /\ rec' = [Ready(bg.mine) EXCEPT !.restarts = IF @ < MaxRestarts THEN @ + 1 ELSE @]
            /\ failures' = {}
       [] OTHER -> rec' = FailedAttempt(bg.mine, bg.time) /\ failures' = failures \cup {bg.time}
  /\ intent' = "free"
  /\ AfterRefresh(IF bg.health = "RUNNING" THEN "READY" ELSE "STOPPED")
  /\ UNCHANGED <<proc, disk, pending, cancel, ui, now, queue>>

(* A start whose process is launched but not READY stays pending. *)
SaveStart ==
  /\ bg.at = "save" /\ bg.mine = NoRecord
  /\ pending' = (bg.health \in {"CANCELLED", "NOT_READY"} /\ bg.launched)
  /\ intent' = "free" /\ Done
  /\ UNCHANGED <<proc, disk, rec, cancel, ui, now, failures, queue>>

(* LocalInstanceOrchestrator.stop *)
RunStop == proc' = "down" \/ ("stop" \in Faults /\ UNCHANGED proc)
BgStop ==
  /\ bg.at = "stop"
  /\ IF Health = "STOPPED" THEN UNCHANGED proc ELSE RunStop
  /\ intent' = "free" /\ Done
  /\ UNCHANGED <<disk, rec, pending, cancel, ui, now, failures, queue>>

BgStep ==
  Take \/ Probe \/ Reconcile \/ Intend \/ Check \/ Launch \/ Await \/ SaveRecovery \/ SaveStart \/ BgStop

-------------------------------------------------------------------------------
(* The user interface *)

ToggleAutostart ==
  /\ "autostart" \in UiActions /\ ui.at = "idle" /\ exists
  /\ autostart' = ~autostart /\ failures' = {}
  /\ UNCHANGED <<proc, exists, rec, pending, cancel, intent, bg, ui, now, queue>>

(* delete_instance: a connector that is not STOPPED is stopped first, *)
DeleteBegin ==
  /\ "delete" \in UiActions /\ ui.at = "idle" /\ exists
  /\ ui' = [ui EXCEPT !.at = IF Health = "STOPPED" THEN "remove" ELSE "delete-lock"]
  /\ UNCHANGED <<proc, disk, rec, pending, cancel, intent, bg, now, failures, queue>>

(* then its directory is removed, and its flags and record are. *)
DeleteRemove ==
  /\ ui.at = "remove"
  /\ exists' = FALSE
  /\ ui' = [ui EXCEPT !.at = "clear"]
  /\ UNCHANGED <<proc, autostart, rec, pending, cancel, intent, bg, now, failures, queue>>
DeleteClear ==
  /\ ui.at = "clear"
  /\ autostart' = FALSE /\ rec' = NoRecord /\ failures' = {}
  /\ ui' = NoUi
  /\ UNCHANGED <<proc, exists, pending, cancel, intent, bg, now, queue>>

(* _on_close_request: jobs are cancelled, and starts waited for 4 seconds; *)
CloseBegin ==
  /\ "close" \in UiActions /\ ui.at = "idle"
  /\ cancel' = TRUE /\ queue' = <<>>
  /\ ui' = [NoUi EXCEPT !.at = "sweep"]
  /\ UNCHANGED <<proc, disk, rec, pending, intent, bg, now, failures>>

(* then the operator may decline, or stop_all_instances looks at what is     *)
(* pending and at the health.                                                *)
Decline ==
  /\ ui.at = "sweep"
  /\ ui' = [at |-> "closed", swept |-> FALSE]
  /\ UNCHANGED <<proc, disk, rec, pending, cancel, intent, bg, now, failures, queue>>
Sweep ==
  /\ ui.at = "sweep"
  /\ ui' = CASE pending /\ exists -> [ui EXCEPT !.at = "force"]
             [] exists /\ ~pending /\ Health # "STOPPED" -> [ui EXCEPT !.at = "close-lock"]
             [] OTHER -> [at |-> "closed", swept |-> TRUE]
  /\ UNCHANGED <<proc, disk, rec, pending, cancel, intent, bg, now, failures, queue>>

(* A pending start is stopped by force, without the intent lock. *)
ForceStop ==
  /\ ui.at = "force"
  /\ RunStop
  /\ pending' = FALSE
  /\ ui' = [at |-> "closed", swept |-> TRUE]
  /\ UNCHANGED <<disk, rec, cancel, intent, bg, now, failures, queue>>

UiLock ==
  /\ ui.at \in {"delete-lock", "close-lock"} /\ intent = "free"
  /\ intent' = "ui"
  /\ rec' = Suppressed(Current)
  /\ ui' = [ui EXCEPT !.at = IF @ = "delete-lock" THEN "delete-stop" ELSE "close-stop"]
  /\ UNCHANGED <<proc, disk, pending, cancel, bg, now, failures, queue>>
UiStop ==
  /\ ui.at \in {"delete-stop", "close-stop"}
  /\ IF Health = "STOPPED" THEN UNCHANGED proc ELSE RunStop
  /\ intent' = "free"
  /\ ui' = CASE ui.at = "close-stop" -> [at |-> "closed", swept |-> TRUE]
             [] ui.at = "delete-stop" -> IF proc' \in {"down", "starting"} THEN [ui EXCEPT !.at = "remove"] ELSE NoUi
  /\ UNCHANGED <<disk, rec, pending, cancel, bg, now, failures, queue>>

(* The application is opened again. *)
Reopen ==
  /\ "reopen" \in UiActions /\ ui.at = "closed" /\ bg.at = "idle"
  /\ cancel' = FALSE /\ pending' = FALSE
  /\ ui' = NoUi
  /\ UNCHANGED <<proc, disk, rec, intent, bg, now, failures, queue>>

UiStep ==
  DeleteRemove \/ DeleteClear \/ Decline \/ Sweep \/ ForceStop \/ UiLock \/ UiStop

-------------------------------------------------------------------------------
ProcessMoves ==
  /\ \/ proc = "starting" /\ proc' = "up"
     \/ proc # "down" /\ "dies" \in Faults /\ proc' = "down"
     \/ proc = "up" /\ "hangs" \in Faults /\ proc' = "hung"
     \/ proc = "hung" /\ proc' = "up"
  /\ UNCHANGED <<disk, rec, pending, cancel, intent, bg, ui, now, failures, queue>>
Tick ==
  /\ now < MaxTime
  /\ now' = now + 1
  /\ UNCHANGED <<proc, disk, rec, pending, cancel, intent, bg, ui, failures, queue>>

RecoveryNext ==
  \/ \E job \in Jobs : Submit(job)
  \/ BgStep \/ UiStep \/ ToggleAutostart \/ DeleteBegin \/ CloseBegin \/ Reopen \/ ProcessMoves \/ Tick

RecoverySpec == RecoveryInit /\ [][RecoveryNext]_recoveryVars

-------------------------------------------------------------------------------
(* Properties *)

RecoveryTypeOK ==
  /\ proc \in {"down", "starting", "up", "hung"}
  /\ rec = NoRecord \/ (rec.state \in States /\ rec.count \in 0..FailureLimit /\ rec.restarts <= MaxRestarts)
  /\ intent \in {"free", "bg", "ui"} /\ now \in 0..MaxTime

(* "explicit Stop remains suppressed": nothing is launched while the record  *)
(* that is stored says that the operator stopped the connector, however the  *)
(* health samples, recoveries and stops of the two threads interleave.       *)
StopIsRespected ==
  proc = "down" /\ proc' = "starting" => ~rec.suppressed

(* Recoveries back off: two failed attempts are at least the first delay     *)
(* apart, and there are no more than FailureLimit of them in the window that *)
(* begins with the first (or with a change of the autostart flag).           *)
BacksOff ==
  \A s \in failures :
    /\ \A t \in failures : s < t => t - s >= Backoff[1]
    /\ (\A t \in failures : s <= t) => Cardinality({t \in failures : t - s <= Window}) <= FailureLimit

================================================================================
