------------------------------ MODULE DexDispatch ------------------------------
(***************************************************************************)
(* The cross-repository dispatch of dex_wire.py over one execution store:   *)
(* admit (dex_admission.py), reserve the durable fence, dispatch once,      *)
(* collect, decode the evidence (dex_evidence.py), record the receipt,      *)
(* retire the fence.  Several processes, each with one wire and several     *)
(* threads, run attempts for the same identities; a process may die at any  *)
(* point, the store may fail any transaction and the transport any call.    *)
(***************************************************************************)
EXTENDS ExecutionStore

CONSTANTS
  Wires,      \* processes, each with one AdmissionReceiptWire
  Threads,    \* threads that call run_attempt
  WireOf,     \* the wire each thread belongs to
  Bindings,   \* DexBindingIdentity values: exec, attempt, ref, gen, other
  Views,      \* ClaimView values: ref, gen, live
  Results     \* result digests the substrate may report

VARIABLES
  cache,       \* AdmissionIssuer._records of each wire
  fenced,      \* AdmissionReceiptWire._fenced of each wire
  calls,       \* run_attempt of each thread
  effects      \* how often the substrate started each identity

dexVars == <<records, log, receipts, decisions, fences, cache, fenced, calls, effects>>

-------------------------------------------------------------------------------
(* AdmissionIssuer *)

Decision ==
  [binding: Bindings, gen: {v.gen : v \in Views}, admitted: BOOLEAN]

DispatchFenceRow == [binding: Bindings, state: FenceStates]

(* A binding names a row of the store, and None is no row of it. *)
DexAssumption ==
  /\ WireOf \in [Threads -> Wires]
  /\ \A b \in Bindings : b.exec \in Execs /\ b.attempt \in Attempts /\ b.gen \in Nat
  /\ \A v \in Views : v.gen \in Nat /\ v.live \in BOOLEAN
  /\ MaxVersion \in Nat \ {0}
  /\ None \notin Decision /\ None \notin DispatchFenceRow

(* _decide_fresh: a decision of one claim view, admission or denial. *)
DecideFresh(b, v) ==
  [binding |-> b, gen |-> v.gen,
   admitted |-> v.live /\ v.ref = b.ref /\ v.gen = b.gen]

(* The replay of a frozen decision must present the same binding and claim. *)
Replays(row, b, v) == row.binding = b /\ row.gen = v.gen /\ row.admitted

(* What decode_collected_evidence lets through for a binding: its identity, *)
(* digest and revisions must be the expected ones, and the wire compares    *)
(* the generation.                                                          *)
CollectedEvidence(b) == [gen: {b.gen}, result: Results, drift: BOOLEAN]

DurableExecutionReceipt ==
  [binding: Bindings, result: Results, gen: Nat \ {0}, disposition: {"ACCEPTED", "QUARANTINED"}]

Steps == {"decide", "journal", "lock", "probe", "reserve", "dispatch", "dispatched",
          "collect", "receipt", "identical", "fence", "retire"}
Locked == Steps \ {"decide", "journal", "lock"}
Outcomes == {"COMPLETED", "DUPLICATE_ALREADY_COMPLETED", "AMBIGUOUS", "DENIED",
             "EVIDENCE_REJECTED", "RAISED"}

(* What run_attempt knows: its arguments, whether it had the substrate start *)
(* the attempt, the receipt it is to store and how it is to end.             *)
Call ==
  [at: {"idle"} \cup Steps \cup Outcomes, binding: Bindings \cup {None},
   view: Views \cup {None}, sent: BOOLEAN, receipt: DurableExecutionReceipt \cup {None},
   then: Outcomes \cup {None}]

Idle == [at |-> "idle", binding |-> None, view |-> None, sent |-> FALSE, receipt |-> None,
         then |-> None]
Id(t) == IdentityOf(calls[t].binding)
Wire(t) == WireOf[t]
Running(t) == calls[t].at \in Steps

Goto(t, step) == calls' = [calls EXCEPT ![t].at = step]

(* The call is left with its step, its binding and what it sent. *)
Settle(t, step, sent, then) == calls' = [calls EXCEPT ![t] =
  [at |-> step, binding |-> @.binding, view |-> None, sent |-> sent, receipt |-> None,
   then |-> then]]

End(t, outcome) == Settle(t, outcome, calls[t].sent, None)

(* The in-process fence of the wire. *)
FenceIdentity(t) == fenced' = [fenced EXCEPT ![Wire(t)] = @ \cup {Id(t)}]

(* _fence_mark("FENCED"), after which the call ends with the outcome. *)
Fence(t, outcome) == Settle(t, "fence", calls[t].sent, outcome) /\ FenceIdentity(t)

-------------------------------------------------------------------------------
(* run_attempt.  A write of the store that fails may have been committed. *)

Begin(t, b, v) ==
  /\ calls[t].at = "idle"
  /\ calls' = [calls EXCEPT ![t] =
       [at |-> "decide", binding |-> b, view |-> v, sent |-> FALSE, receipt |-> None,
        then |-> None]]
  /\ UNCHANGED <<storeVars, cache, fenced, effects>>

(* decide: the issuer's memory, then the journal, then a fresh decision. *)
Decide(t) ==
  LET w == Wire(t)
      known == IF cache[w][Id(t)] # None THEN cache[w][Id(t)] ELSE decisions[Id(t)] IN
  /\ calls[t].at = "decide"
  /\ IF known = None
     THEN Goto(t, "journal") /\ UNCHANGED cache
     ELSE /\ cache' = [cache EXCEPT ![w][Id(t)] = known]
          /\ IF Replays(known, calls[t].binding, calls[t].view)
             THEN Goto(t, "lock") ELSE End(t, "DENIED")
  /\ UNCHANGED <<storeVars, fenced, effects>>

(* The fresh decision is journaled before it is cached or returned. *)
Journal(t) ==
  LET row == DecideFresh(calls[t].binding, calls[t].view) IN
  /\ calls[t].at = "journal"
  /\ \/ /\ RecordDecision(Id(t), row)
        /\ cache' = [cache EXCEPT ![Wire(t)][Id(t)] = row]
        /\ IF row.admitted THEN Goto(t, "lock") ELSE End(t, "DENIED")
     \/ /\ RecordDecision(Id(t), row) \/ UNCHANGED decisions
        /\ End(t, "RAISED")
        /\ UNCHANGED cache
  /\ UNCHANGED <<records, log, receipts, fences, fenced, effects>>

(* The per-identity lock of the wire, then its in-process fence. *)
Lock(t) ==
  /\ calls[t].at = "lock"
  /\ \A u \in Threads :
       Wire(u) = Wire(t) /\ calls[u].at \in Locked => Id(u) # Id(t)
  /\ IF Id(t) \in fenced[Wire(t)] THEN End(t, "AMBIGUOUS") ELSE Goto(t, "probe")
  /\ UNCHANGED <<storeVars, cache, fenced, effects>>

(* _probe_execution_record and _find_receipt_contained *)
Probe(t) ==
  /\ calls[t].at = "probe"
  /\ CASE records[calls[t].binding.exec] = None -> End(t, "RAISED")
       [] log[calls[t].binding.exec] # <<>>     -> End(t, "DUPLICATE_ALREADY_COMPLETED")
       [] OTHER                                 -> Goto(t, "reserve")
  /\ UNCHANGED <<storeVars, cache, fenced, effects>>

(* _reserve_durable_fence: any fence that exists is never taken over. *)
Reserve(t) ==
  /\ calls[t].at = "reserve"
  /\ \/ /\ ReserveFence(Id(t), calls[t].binding)
        /\ Goto(t, "dispatch") \/ End(t, "RAISED")
        /\ UNCHANGED fenced
     \/ /\ fences[Id(t)] # None /\ fences[Id(t)].binding = calls[t].binding
        /\ FenceIdentity(t)
        /\ End(t, "AMBIGUOUS")
        /\ UNCHANGED fences
     \/ End(t, "RAISED") /\ UNCHANGED <<fences, fenced>>
  /\ UNCHANGED <<records, log, receipts, decisions, cache, effects>>

(* Mutant: a dispatch that threw is tried again. *)
DispatchRetries(t) ==
  /\ calls[t].at = "dispatch"
  /\ \E effect \in {0, 1} :
       /\ effects' = [effects EXCEPT ![Id(t)] = @ + effect]
       /\ \/ effect = 1 /\ Settle(t, "dispatched", TRUE, None)
          \/ UNCHANGED calls
  /\ UNCHANGED <<storeVars, cache, fenced>>

(* transport.dispatch: a throw or another status says nothing of the effect. *)
Dispatch(t) ==
  /\ calls[t].at = "dispatch"
  /\ \E effect \in {0, 1} :
       /\ effects' = [effects EXCEPT ![Id(t)] = @ + effect]
       /\ \/ effect = 1 /\ Settle(t, "dispatched", TRUE, None) /\ UNCHANGED fenced
          \/ Settle(t, "fence", effect = 1, "AMBIGUOUS") /\ FenceIdentity(t)
  /\ UNCHANGED <<storeVars, cache>>

(* _fence_mark("DISPATCHED"): when it fails the call raises, fenced. *)
MarkDispatched(t) ==
  /\ calls[t].at = "dispatched"
  /\ \/ TransitionFence(Id(t), "DISPATCHED") /\ Goto(t, "collect") /\ UNCHANGED fenced
     \/ /\ TransitionFence(Id(t), "DISPATCHED") \/ UNCHANGED fences
        /\ FenceIdentity(t)
        /\ End(t, "RAISED")
  /\ UNCHANGED <<records, log, receipts, decisions, cache, effects>>

(* transport.collect and decode_collected_evidence: no answer, evidence that *)
(* is refused, evidence of another claim generation, or evidence of this one *)
(* with a result and its drift.  The receipt of generation 0 is refused by   *)
(* its constructor, outside of any handler.                                  *)
Collect(t) ==
  /\ calls[t].at = "collect"
  /\ \/ Fence(t, "RAISED")
     \/ Fence(t, "EVIDENCE_REJECTED")
     \/ calls[t].binding.gen = 0 /\ End(t, "RAISED") /\ UNCHANGED fenced
     \/ /\ calls[t].binding.gen >= 1
        /\ \E evidence \in CollectedEvidence(calls[t].binding) :
             calls' = [calls EXCEPT ![t].at = "receipt", ![t].receipt =
               [binding |-> calls[t].binding, result |-> evidence.result, gen |-> evidence.gen,
                disposition |-> IF evidence.drift THEN "QUARANTINED" ELSE "ACCEPTED"]]
        /\ UNCHANGED fenced
  /\ UNCHANGED <<storeVars, cache, effects>>

(* record_receipt; when the store refuses or fails, an identical stored      *)
(* receipt is looked for before the identity is fenced.                      *)
StoreReceipt(t) ==
  /\ calls[t].at = "receipt"
  /\ \/ /\ RecordReceipt(calls[t].receipt)
        /\ Settle(t, "retire", calls[t].sent, "COMPLETED") \/ Goto(t, "identical")
     \/ Goto(t, "identical") /\ UNCHANGED <<receipts, log>>
  /\ UNCHANGED <<records, decisions, fences, cache, fenced, effects>>

FindIdentical(t) ==
  /\ calls[t].at = "identical"
  /\ \/ /\ calls[t].receipt \in receipts
        /\ Settle(t, "retire", calls[t].sent, "DUPLICATE_ALREADY_COMPLETED")
        /\ UNCHANGED fenced
     \/ Fence(t, "RAISED")
  /\ UNCHANGED <<storeVars, cache, effects>>

(* The durable mark may be lost with the store, and the call then raises. *)
MarkFenced(t) ==
  /\ calls[t].at = "fence"
  /\ \/ /\ TransitionFence(Id(t), "FENCED")
        /\ End(t, calls[t].then) \/ End(t, "RAISED")
     \/ End(t, "RAISED") /\ UNCHANGED fences
  /\ UNCHANGED <<records, log, receipts, decisions, cache, fenced, effects>>

(* _fence_retire_best_effort *)
Retire(t) ==
  /\ calls[t].at = "retire"
  /\ TransitionFence(Id(t), "RETIRED") \/ UNCHANGED fences
  /\ End(t, calls[t].then)
  /\ UNCHANGED <<records, log, receipts, decisions, cache, fenced, effects>>

(* A read of the store that fails. *)
StoreUnavailable(t) ==
  /\ calls[t].at \in {"decide", "probe"}
  /\ calls[t].at = "decide" => cache[Wire(t)][Id(t)] = None
  /\ End(t, "RAISED")
  /\ UNCHANGED <<storeVars, cache, fenced, effects>>

Return(t) ==
  /\ calls[t].at \in Outcomes
  /\ calls' = [calls EXCEPT ![t] = Idle]
  /\ UNCHANGED <<storeVars, cache, fenced, effects>>

(* The process dies: its calls, its issuer's memory and its fences are gone. *)
Crash(w) ==
  /\ \E t \in Threads : Wire(t) = w /\ Running(t)
  /\ calls' = [t \in Threads |-> IF Wire(t) = w THEN Idle ELSE calls[t]]
  /\ cache' = [cache EXCEPT ![w] = [i \in Identities |-> None]]
  /\ fenced' = [fenced EXCEPT ![w] = {}]
  /\ UNCHANGED <<storeVars, effects>>

(* The authority path creates the execution record. *)
CreateExecution(e) ==
  /\ \E fp \in Fingerprints : Create(e, NewRecord(fp))
  /\ UNCHANGED <<log, receipts, decisions, fences, cache, fenced, calls, effects>>

Step(t) ==
  \/ Decide(t)
  \/ Journal(t)
  \/ Lock(t)
  \/ Probe(t)
  \/ Reserve(t)
  \/ Dispatch(t)
  \/ MarkDispatched(t)
  \/ Collect(t)
  \/ StoreReceipt(t)
  \/ FindIdentical(t)
  \/ MarkFenced(t)
  \/ Retire(t)
  \/ StoreUnavailable(t)

DexInit ==
  /\ StoreInit
  /\ cache = [w \in Wires |-> [i \in Identities |-> None]]
  /\ fenced = [w \in Wires |-> {}]
  /\ calls = [t \in Threads |-> Idle]
  /\ effects = [i \in Identities |-> 0]

DexNext ==
  \/ \E t \in Threads : \E b \in Bindings, v \in Views : Begin(t, b, v)
  \/ \E t \in Threads : Step(t) \/ Return(t)
  \/ \E w \in Wires : Crash(w)
  \/ \E e \in Execs : CreateExecution(e)

DexSpec == DexInit /\ [][DexNext]_dexVars

-------------------------------------------------------------------------------
(* Properties *)

(* Shape of the stored rows and of the calls. *)
DexTypeOK ==
  /\ records \in [Execs -> ExecutionRecord \cup {None}]
  /\ log \in [Execs -> Seq(DurableExecutionReceipt)]
  /\ receipts \subseteq DurableExecutionReceipt
  /\ decisions \in [Identities -> Decision \cup {None}]
  /\ fences \in [Identities -> DispatchFenceRow \cup {None}]
  /\ cache \in [Wires -> [Identities -> Decision \cup {None}]]
  /\ fenced \in [Wires -> SUBSET Identities]
  /\ calls \in [Threads -> Call]
  /\ \A t \in Threads : calls[t].at # "idle" => calls[t].binding \in Bindings
  /\ effects \in [Identities -> Nat]

(***************************************************************************)
(* The substrate starts an attempt at most once, whatever threads,          *)
(* processes and restarts ask for it: the write-ahead fence decides, in     *)
(* every crash window between its reservation and the receipt.              *)
(***************************************************************************)
StartedOnce == \A i \in Identities : effects[i] <= 1

(***************************************************************************)
(* Nothing is started without a journaled admission of exactly the binding  *)
(* that holds the fence, also when processes decide the identity at the     *)
(* same time on different claim views, or die between deciding and          *)
(* dispatching.                                                             *)
(***************************************************************************)
OnlyAdmittedStarted ==
  \A i \in Identities : effects[i] > 0 =>
    /\ decisions[i] # None /\ decisions[i].admitted
    /\ fences[i] # None /\ fences[i].binding = decisions[i].binding

(***************************************************************************)
(* A receipt is about an attempt that was started, under the binding and    *)
(* the generation that were admitted, and an attempt has only one: no two   *)
(* results of one attempt can both be recorded.                             *)
(***************************************************************************)
ReceiptOfTheEffect ==
  \A r \in receipts :
    /\ effects[IdentityOf(r.binding)] = 1
    /\ decisions[IdentityOf(r.binding)].binding = r.binding
    /\ decisions[IdentityOf(r.binding)].gen = r.gen
    /\ \A s \in receipts : IdentityOf(s.binding) = IdentityOf(r.binding) => s = r

(***************************************************************************)
(* COMPLETED and DUPLICATE_ALREADY_COMPLETED are only answered when the     *)
(* execution has a durable receipt.                                         *)
(***************************************************************************)
CompletionIsDurable ==
  \A t \in Threads :
    calls[t].at \in {"COMPLETED", "DUPLICATE_ALREADY_COMPLETED"} =>
      log[calls[t].binding.exec] # <<>>

(***************************************************************************)
(* A call that had the attempt started and ends without a receipt leaves    *)
(* the identity fenced in its wire, so that the wire answers AMBIGUOUS      *)
(* from then on ("a collect failure, evidence rejection, or receipt-        *)
(* persistence failure AFTER a dispatched attempt also fences the           *)
(* identity", dex_wire.py).  The exception is a claim of generation 0,      *)
(* whose receipt is refused by its constructor.                             *)
(***************************************************************************)
FencedAfterEffect ==
  \A t \in Threads :
    /\ calls[t].at \in Outcomes \ {"COMPLETED", "DUPLICATE_ALREADY_COMPLETED"}
    /\ calls[t].sent
    /\ calls[t].binding.gen >= 1
    => Id(t) \in fenced[Wire(t)]

(***************************************************************************)
(* An attempt is started at most once and only as it was admitted, its one  *)
(* receipt is about that effect, COMPLETED is answered only once that is    *)
(* durable, and any other answer after a start leaves the process fenced.   *)
(***************************************************************************)
DexSafety ==
  /\ DexTypeOK
  /\ StartedOnce
  /\ OnlyAdmittedStarted
  /\ ReceiptOfTheEffect
  /\ CompletionIsDurable
  /\ FencedAfterEffect

(***************************************************************************)
(* The threads, the processes and the store together do what DispatchOnce   *)
(* promises: one start per attempt, one receipt after it, and nothing else. *)
(***************************************************************************)
AttemptOf(r) == IdentityOf(r.binding)
Once == INSTANCE DispatchOnce WITH Attempt <- Identities, started <- effects
RefinesDispatchOnce == Once!Spec

===============================================================================
