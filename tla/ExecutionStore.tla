---------------------------- MODULE ExecutionStore ----------------------------
(***************************************************************************)
(* SQLiteExecutionStore (execution_store.py): execution records changed by  *)
(* version compare-and-set, append-only receipts, the journal of admission  *)
(* decisions and the dispatch fences.  Every operator below is one BEGIN    *)
(* IMMEDIATE transaction and is used as a conjunct of an action of the      *)
(* components that share the store.  Each update appends one event, so the  *)
(* version of a record is the number of its update events; of the events    *)
(* only the receipts, which dex_wire.py reads back, are kept in log.        *)
(***************************************************************************)
EXTENDS Integers, Sequences, FiniteSets

CONSTANTS
  Execs,         \* execution_id values
  Attempts,      \* attempt_id values
  Fingerprints,  \* command_fingerprint values
  Pids,          \* process ids
  MaxVersion,    \* bound on the versions, for model checking
  None           \* SQL NULL, or no row

VARIABLES
  records,    \* execution_records
  log,        \* per execution, the receipts its RECEIPT_RECORDED events name
  receipts,   \* execution_receipts
  decisions,  \* admission_decisions, by identity
  fences      \* dispatch_fences, by identity

storeVars == <<records, log, receipts, decisions, fences>>

TransportState == {"CONNECTED", "DEGRADED", "LOST", "UNAVAILABLE"}
ExecutionProcessState ==
  {"QUEUED", "STARTING", "RUNNING", "PROCESS_STILL_RUNNING",
   "PROCESS_EXITED_UNKNOWN_RESULT", "SUCCEEDED", "FAILED", "PARTIAL",
   "CANCELLED", "RECOVERY_REQUIRED", "VERIFICATION_REQUIRED"}

(* The columns of a record that an operation reads or writes. *)
ExecutionRecord ==
  [fp: Fingerprints, transport: TransportState, state: ExecutionProcessState,
   pid: Pids \cup {None}, exit: {0, 1, None}, version: 1..MaxVersion]

(* (execution_id, attempt_id): the key of decisions and fences. *)
Identities == Execs \X Attempts

StoreInit ==
  /\ records = [e \in Execs |-> None]
  /\ log = [e \in Execs |-> <<>>]
  /\ receipts = {}
  /\ decisions = [i \in Identities |-> None]
  /\ fences = [i \in Identities |-> None]

-------------------------------------------------------------------------------
(* Records *)

NewRecord(fp) ==
  [fp |-> fp, transport |-> "CONNECTED", state |-> "QUEUED", pid |-> None,
   exit |-> None, version |-> 1]

Create(e, row) ==
  /\ records[e] = None
  /\ records' = [records EXCEPT ![e] = row]

(* _update: refused unless the caller names the stored version. *)
CanUpdate(e, version) ==
  /\ records[e] # None
  /\ records[e].version = version
  /\ version < MaxVersion

Update(e, version, row) ==
  /\ CanUpdate(e, version)
  /\ records' = [records EXCEPT ![e] = [row EXCEPT !.version = version + 1]]

SetTransportState(e, version, transport) ==
  Update(e, version, [records[e] EXCEPT !.transport = transport])

SetExecutionState(e, version, state) ==
  Update(e, version, [records[e] EXCEPT !.state = state])

(* The rows that set_process_metadata and set_result_metadata write. *)
SetProcessMetadata(e, pid) == [records[e] EXCEPT !.pid = pid]
SetResultMetadata(e, exit) == [records[e] EXCEPT !.exit = exit]

FindByFingerprint(fp) == {e \in Execs : records[e] # None /\ records[e].fp = fp}

-------------------------------------------------------------------------------
(* Receipts.  A receipt is [binding, result, gen, disposition]; the binding *)
(* holds the execution and the attempt, and the receipt_id is a digest of   *)
(* (execution, attempt, result, binding).                                   *)

IdentityOf(binding) == <<binding.exec, binding.attempt>>

SameReceiptId(r, s) == r.binding = s.binding /\ r.result = s.result

(* _verify_receipt_agreement: an equal id with other facts is a conflict. *)
ReceiptConflicts(r) ==
  \/ records[r.binding.exec] = None
  \/ \E s \in receipts : SameReceiptId(r, s) /\ s # r

RecordReceipt(r) ==
  /\ ~ ReceiptConflicts(r)
  /\ receipts' = receipts \cup {r}
  /\ log' = IF r \in receipts THEN log
            ELSE [log EXCEPT ![r.binding.exec] = Append(@, r)]

-------------------------------------------------------------------------------
(* Admission decisions and dispatch fences *)

RecordDecision(i, row) ==
  /\ decisions[i] \in {None, row}
  /\ decisions' = [decisions EXCEPT ![i] = row]

FenceStates == {"RESERVED", "DISPATCHED", "FENCED", "RETIRED"}

FenceTransitions(state) ==
  CASE state = "RESERVED"   -> {"DISPATCHED", "FENCED", "RETIRED"}
    [] state = "DISPATCHED" -> {"FENCED", "RETIRED"}
    [] OTHER                -> {}

(* Mutant: a RESERVED fence is taken over. *)
ReserveFenceTakesOver(i, binding) ==
  /\ fences[i] # None => fences[i].state = "RESERVED"
  /\ fences' = [fences EXCEPT ![i] = [binding |-> binding, state |-> "RESERVED"]]

ReserveFence(i, binding) ==
  /\ fences[i] = None
  /\ fences' = [fences EXCEPT ![i] = [binding |-> binding, state |-> "RESERVED"]]

CanMark(i, state) ==
  /\ fences[i] # None
  /\ state \in FenceTransitions(fences[i].state)

TransitionFence(i, state) ==
  /\ CanMark(i, state)
  /\ fences' = [fences EXCEPT ![i].state = state]

===============================================================================
