------------------------------ MODULE ZCodeAdapter ------------------------------
(***************************************************************************)
(* ZCodeBackendAdapter (zcode_runner.py): a ZCode turn in the caller's own  *)
(* process, with the durable record, the files of the run and the outcomes  *)
(* the process remembers.  The process may die at any step; another process *)
(* inspects and collects from the record and the files, and a reconciler    *)
(* moves the record.                                                        *)
(***************************************************************************)
EXTENDS Naturals

CONSTANTS
  None,
  MaxVersion   \* bound on the versions of the record

AdapterAssumption == MaxVersion \in Nat \ {0}

VARIABLES
  record,   \* the execution record: state and version
  child,    \* the app server, its turn and the exit the launch has seen
  files,    \* report.json and result.json
  step,     \* the step launch is at, in the first process
  known,    \* the version launch knows
  cache,    \* _outcomes of the first process
  collected \* what collect returned last, to either process

adapterVars == <<record, child, files, step, known, cache, collected>>

Processes == {"first", "other"}
Running == {"create", "authorize", "open", "turn", "report", "exit", "result", "remember", "succeed"}
Ended == {"launched", "recovery", "raised", "dead"}
Outcome == [result : BOOLEAN, error : {None, "FAILED", "TRANSITION"}]

AdapterInit ==
  /\ record = None /\ child = [alive |-> FALSE, turn |-> None, exit |-> FALSE]
  /\ files = [report |-> None, result |-> FALSE]
  /\ step = "create" /\ known = 0 /\ cache = None /\ collected = None

Go(s) == step' = s

Create ==
  /\ step = "create"
  /\ record' = [state |-> "QUEUED", version |-> 1] /\ known' = 1 /\ Go("authorize")
  /\ UNCHANGED <<child, files, cache, collected>>

(* The argument grammar, the selection at the seam and the secret: any of   *)
(* them raises, and the record stays.                                       *)
Authorize ==
  /\ step = "authorize" /\ (Go("open") \/ Go("raised"))
  /\ UNCHANGED <<record, child, files, known, cache, collected>>

(* open_transport, the child's metadata, the identity document and the      *)
(* packet: what raises here leaves the child without a turn.                *)
Open ==
  /\ step = "open"
  /\ child' = [child EXCEPT !.alive = TRUE] /\ (Go("turn") \/ Go("raised"))
  /\ UNCHANGED <<record, files, known, cache, collected>>

(* run_turn, see ZCodeTurn. *)
RunTurn ==
  /\ step = "turn"
  /\ \E turn \in {"completed", "failed"} : child' = [child EXCEPT !.turn = turn]
  /\ Go("report")
  /\ UNCHANGED <<record, files, known, cache, collected>>

(* stderr.log; stdout.log and the report of a completed turn. *)
WriteReport ==
  /\ step = "report"
  /\ files' = IF child.turn = "completed" THEN [files EXCEPT !.report = "complete"] ELSE files
  /\ Go("exit")
  /\ UNCHANGED <<record, child, known, cache, collected>>

(* The bounded wait for the exit: a child that stays makes the report       *)
(* pending.                                                                 *)
AwaitExit ==
  /\ step = "exit"
  /\ \/ child' = [child EXCEPT !.alive = FALSE, !.exit = TRUE] /\ UNCHANGED files
     \/ /\ child.alive /\ UNCHANGED child
        /\ files' = [files EXCEPT !.report = IF @ = None THEN None ELSE "pending"]
  /\ Go("result")
  /\ UNCHANGED <<record, known, cache, collected>>

(* Mutant: a completed turn is a result, whether or not the exit was seen. *)
WriteResultEarly ==
  /\ step = "result"
  /\ files' = [files EXCEPT !.result = child.turn = "completed",
                            !.report = IF @ = None THEN "unknown" ELSE @]
  /\ Go("remember")
  /\ UNCHANGED <<record, child, known, cache, collected>>

(* result.json after a completed turn and an exit code of the wait (a child *)
(* that exits after it stays pending); a report UNKNOWN when there is       *)
(* neither a result nor a report.                                           *)
WriteResult ==
  /\ step = "result"
  /\ files' = [files EXCEPT !.result = child.turn = "completed" /\ child.exit,
                            !.report = IF @ = None THEN "unknown" ELSE @]
  /\ Go("remember")
  /\ UNCHANGED <<record, child, known, cache, collected>>

Remember ==
  /\ step = "remember"
  /\ cache' = [result |-> files.result, error |-> IF files.result THEN None ELSE "FAILED"]
  /\ Go(IF files.result THEN "succeed" ELSE "launched")
  /\ UNCHANGED <<record, child, files, known, collected>>

(* The transition to SUCCEEDED with the version of the creation: a conflict *)
(* replaces the remembered outcome.                                         *)
Succeed ==
  /\ step = "succeed"
  /\ IF record.version = known
     THEN /\ record' = [state |-> "SUCCEEDED", version |-> known + 1]
          /\ Go("launched") /\ UNCHANGED cache
     ELSE /\ cache' = [result |-> FALSE, error |-> "TRANSITION"]
          /\ Go("recovery") /\ UNCHANGED record
  /\ UNCHANGED <<child, files, known, collected>>

-----------------------------------------------------------------------------
Cached(p) == IF p = "first" /\ step # "dead" THEN cache ELSE None

(* _load_durable_outcome: result.json, whatever the state of the record. *)
DurableOutcome ==
  IF record # None /\ files.result THEN [result |-> TRUE, error |-> None] ELSE None

(* A remembered result, else the durable one, else whatever is remembered. *)
OutcomeFor(p) ==
  IF Cached(p) # None /\ Cached(p).result THEN Cached(p)
  ELSE IF DurableOutcome # None THEN DurableOutcome
  ELSE Cached(p)

(* inspect: an outcome, whichever, is RESULT_AVAILABLE. *)
Inspect(p) ==
  CASE OutcomeFor(p) # None -> "RESULT_AVAILABLE"
    [] record = None -> "UNKNOWN"
    [] OTHER -> "RESULT_MISSING"

(* collect: the outcome, if the record still has the version the caller     *)
(* expects.                                                                 *)
Collect(p, version) ==
  /\ record # None /\ OutcomeFor(p) # None /\ record.version = version
  /\ collected' = OutcomeFor(p)
  /\ UNCHANGED <<record, child, files, step, known, cache>>

-----------------------------------------------------------------------------
(* set_execution_state of a reconciler, with the version the record has.    *)
RecordMoves ==
  /\ record # None /\ record.version < MaxVersion
  /\ record' = [state |-> "PROCESS_STILL_RUNNING", version |-> record.version + 1]
  /\ UNCHANGED <<child, files, step, known, cache, collected>>

(* The child exits, the process dies. *)
ChildExits ==
  /\ child.alive /\ child' = [child EXCEPT !.alive = FALSE]
  /\ UNCHANGED <<record, files, step, known, cache, collected>>

Crash ==
  /\ step \in Running \cup {"launched", "recovery"} /\ Go("dead")
  /\ UNCHANGED <<record, child, files, known, cache, collected>>

AdapterNext ==
  \/ Create \/ Authorize \/ Open \/ RunTurn \/ WriteReport \/ AwaitExit \/ WriteResult
  \/ Remember \/ Succeed
  \/ \E p \in Processes, version \in 1..MaxVersion : Collect(p, version)
  \/ RecordMoves \/ ChildExits \/ Crash

AdapterSpec == AdapterInit /\ [][AdapterNext]_adapterVars

-----------------------------------------------------------------------------
AdapterTypeOK ==
  /\ record # None => record.version \in 1..(MaxVersion + 1)
  /\ files.report \in {None, "complete", "pending", "unknown"} /\ files.result \in BOOLEAN
  /\ step \in Running \cup Ended
  /\ cache # None => cache \in Outcome
  /\ collected # None => collected \in Outcome

(* Whoever collects a result, the process of the run or one that has only   *)
(* its files, after any crash: the child completed its turn and had exited. *)
CollectedIsReal ==
  collected # None /\ collected.result => child.turn = "completed" /\ ~child.alive

(* What has been collected as a result never turns into something else for  *)
(* the next one who asks.                                                   *)
ResultStays ==
  collected # None /\ collected.result =>
    \A p \in Processes : Inspect(p) = "RESULT_AVAILABLE"

=============================================================================
