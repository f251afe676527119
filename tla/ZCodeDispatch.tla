----------------------------- MODULE ZCodeDispatch -----------------------------
(***************************************************************************)
(* What stands between an authorized task and the prompt of a ZCode turn:   *)
(* the assembly from accepted evidence (zcode_production_assembly.py), the  *)
(* identity of the packet and the authorization of the selection            *)
(* (zcode_runner.py), the guards that look again before a fresh launch      *)
(* (pre_dispatch_guard.py, called by supervised_run_coordinator.py), the    *)
(* author provenance (zero_relay_author_provenance.py) and the last check   *)
(* of the packet in the helper.  Leases, admissions, the provider           *)
(* configuration, the worktree and the packet file move between the steps.  *)
(***************************************************************************)
EXTENDS Naturals, FiniteSets

CONSTANTS
  Guarded,   \* whether a lease_health_reader and a worktree observer were injected
  Modes,     \* kinds of runs: "mutate" and "review"
  MaxMoves   \* bound on the moves of the world

DispatchAssumption ==
  /\ Guarded \in BOOLEAN /\ MaxMoves \in Nat
  /\ Modes \subseteq {"mutate", "review"} /\ Modes # {}

VARIABLES
  provider,   \* the stored configuration: generation and endpoint
  lease,      \* the run's own lease row
  admission,  \* the run's own admission row
  tree,       \* the worktree: branch and head (0 is what was leased), uncommitted changes
  packet,     \* the bytes of the packet file; 0 is what was authorized
  call,       \* the run that is being dispatched
  lost,       \* the step of the call at which lease, head and packet ceased to be the authorized ones
  moves       \* moves of the world so far

dispatchVars == <<provider, lease, admission, tree, packet, call, lost, moves>>
world == <<provider, lease, admission, tree, packet, lost, moves>>

LeaseStates == {"ACTIVE", "STALE", "RELEASED", "QUARANTINED"}
Contexts == {"own", "other"}   \* worker, task, project, scope or batch: the run's or another's
Steps == {"evidence", "assemble", "prep", "guard", "tree", "record", "treeAgain", "launch", "helper"}
Outcomes == {"prompted", "refused"}

DispatchInit ==
  /\ provider = [gen |-> 1, endpoint |-> 1]
  /\ lease = "ACTIVE"
  /\ admission = [status |-> "ACTIVE", gen |-> 1]
  /\ tree = [head |-> 0, dirty |-> FALSE] /\ packet = 0 /\ moves = 0
  /\ lost = [lease |-> "never", head |-> "never", packet |-> "never"]
  /\ \E mode \in Modes : call = [at |-> "evidence", mode |-> mode]

At(step) == call.at = step
Go(step) == call' = [call EXCEPT !.at = step]
Refuse == call' = [at |-> "refused", mode |-> call.mode]
Check(ok, step) == IF ok THEN Go(step) ELSE Refuse

(* ZCodeExecutionAuthorities: records of the stores, as they were when the  *)
(* dispatcher took them, with the context they are bound to.                *)
TakeEvidence ==
  /\ At("evidence")
  /\ \E leaseCtx, admissionCtx, contract \in Contexts, intent \in {"MUTATION", "READ_ONLY"},
        expected \in 1..provider.gen :
       call' = [at |-> "assemble", mode |-> call.mode, gen |-> provider.gen,
                endpoint |-> provider.endpoint, head |-> tree.head, dirty |-> tree.dirty,
                lease |-> lease, intent |-> intent, leaseCtx |-> leaseCtx,
                admission |-> admission, admissionCtx |-> admissionCtx,
                contract |-> contract, expected |-> expected]
  /\ UNCHANGED world

-----------------------------------------------------------------------------
(* Assembly.                                                                *)

(* verify_execution_context, and the lease's worker, worktree, task,        *)
(* project and scope.  The expiry is compared with the clock.               *)
LeaseAuthorizes ==
  /\ ~call.dirty /\ call.head = 0 /\ call.leaseCtx = "own"
  /\ call.intent = (IF call.mode = "mutate" THEN "MUTATION" ELSE "READ_ONLY")
  /\ call.lease \notin {"RELEASED", "QUARANTINED"}
  /\ lease # "STALE" /\ call.lease # "STALE"

(* The admission's provider, status, generation, batch and execution. *)
AdmissionAuthorizes ==
  /\ call.admissionCtx = "own" /\ call.admission.status = "ACTIVE"
  /\ call.admission.gen = call.expected

(* from_task_packet_file: confined, bounded, and with the digest of the     *)
(* contract.                                                                *)
PacketIdentity == packet = 0

(* classify_author_provenance: a repair contract has no lineage to bind. *)
ProvenanceBinds == call.mode = "review" \/ call.contract = "own"

(* _assemble_zcode_execution_impl: every gate passes or there is no runner. *)
Assemble ==
  /\ At("assemble")
  /\ Check(/\ call.gen = call.expected /\ PacketIdentity
           /\ LeaseAuthorizes /\ AdmissionAuthorizes /\ ProvenanceBinds, "prep")
  /\ UNCHANGED world

-----------------------------------------------------------------------------
(* The run.                                                                 *)

(* authorize_zcode_selection: the selection source of the assembly answers  *)
(* from the snapshot it was made with, and is compared with the binding and *)
(* the endpoint that the assembly accepted from that snapshot.              *)
SelectionAuthorized == call.endpoint = call.gen

(* run_with_outcome: the first check of the selection.  Runs that are       *)
(* attached to or reused pass no guard: SupervisedRun.                      *)
Prepare ==
  /\ At("prep") /\ Check(SelectionAuthorized, "guard")
  /\ UNCHANGED world

(* Mutant: the guard goes by the row it was built with. *)
LeaseWasHealthy == call.lease = "ACTIVE"

(* WorkerLeasePreDispatchGuard.check: the health of the row with the        *)
(* baseline's id, now.                                                      *)
LeaseHealthy == lease = "ACTIVE"

(* _assess_pre_dispatch_guard: a review has no guard. *)
GuardChecks ==
  /\ At("guard")
  /\ Check(Guarded /\ call.mode = "mutate" => LeaseHealthy, "tree")
  /\ UNCHANGED world

(* live_worktree_drift_reason *)
TreeIsLeased == tree.head = 0

(* _assess_live_worktree_identity, before the record is made ... *)
ObserveTree ==
  /\ At("tree")
  /\ Check(Guarded /\ call.mode = "mutate" => TreeIsLeased, "record")
  /\ UNCHANGED world

(* ... with its author attempt and the launch plan ... *)
MakeRecord == At("record") /\ Go("treeAgain") /\ UNCHANGED world

(* ... and once more before the launch. *)
ObserveTreeAgain ==
  /\ At("treeAgain")
  /\ Check(Guarded /\ call.mode = "mutate" => TreeIsLeased, "launch")
  /\ UNCHANGED world

(* ZCodeServiceLifecycleLauncher.launch: the argument grammar, the second   *)
(* check of the selection, and the secret, which may not resolve.           *)
Launch ==
  /\ At("launch")
  /\ \/ Check(SelectionAuthorized, "helper")
     \/ Refuse
  /\ UNCHANGED world

(* verify_unchanged, _verify_packet_bytes *)
VerifyUnchanged == packet = 0

HelperPrompts ==
  /\ At("helper") /\ Check(VerifyUnchanged, "prompted")
  /\ UNCHANGED world

-----------------------------------------------------------------------------
(* The world.                                                               *)

Move == moves < MaxMoves /\ moves' = moves + 1

(* The lease is released, or expires and is released or quarantined by      *)
(* reconcile_stale: what was lost does not come back.                       *)
LeaseMoves ==
  /\ Move
  /\ \/ lease = "ACTIVE" /\ lease' \in {"STALE", "RELEASED"}
     \/ lease = "STALE" /\ lease' \in {"RELEASED", "QUARANTINED"}
  /\ lost' = [lost EXCEPT !.lease = IF lease = "ACTIVE" THEN call.at ELSE @]
  /\ UNCHANGED <<provider, admission, tree, packet, call>>

(* save_provider, save_endpoint: refused while the provider is in use. *)
ProviderMoves ==
  /\ Move /\ admission.status # "ACTIVE"
  /\ provider' = [gen |-> provider.gen + 1, endpoint |-> provider.gen + 1]
  /\ UNCHANGED <<lease, admission, tree, packet, call, lost>>

(* release_admission *)
AdmissionMoves ==
  /\ Move /\ admission.status = "ACTIVE"
  /\ admission' = [admission EXCEPT !.status = "RELEASED"]
  /\ UNCHANGED <<provider, lease, tree, packet, call, lost>>

TreeMoves ==
  /\ Move
  /\ \/ /\ tree' = [tree EXCEPT !.head = 1 - @]
        /\ lost' = [lost EXCEPT !.head = IF tree.head = 0 THEN call.at ELSE "never"]
     \/ tree' = [tree EXCEPT !.dirty = ~@] /\ UNCHANGED lost
  /\ UNCHANGED <<provider, lease, admission, packet, call>>

PacketMoves ==
  /\ Move /\ packet' = 1 - packet
  /\ lost' = [lost EXCEPT !.packet = IF packet = 0 THEN call.at ELSE "never"]
  /\ UNCHANGED <<provider, lease, admission, tree, call>>

DispatchNext ==
  \/ TakeEvidence \/ Assemble \/ Prepare \/ GuardChecks \/ ObserveTree \/ MakeRecord
  \/ ObserveTreeAgain \/ Launch \/ HelperPrompts
  \/ LeaseMoves \/ ProviderMoves \/ AdmissionMoves \/ TreeMoves \/ PacketMoves

DispatchSpec == DispatchInit /\ [][DispatchNext]_dispatchVars

-----------------------------------------------------------------------------
DispatchTypeOK ==
  /\ provider.gen \in 1..(MaxMoves + 1) /\ lease \in LeaseStates
  /\ admission.status \in {"ACTIVE", "RELEASED"}
  /\ tree \in [head : {0, 1}, dirty : BOOLEAN] /\ packet \in {0, 1}
  /\ call.at \in Steps \cup Outcomes /\ call.mode \in Modes /\ moves \in 0..MaxMoves
  /\ \A of \in {"lease", "head", "packet"} : lost[of] \in Steps \cup Outcomes \cup {"never"}

Prompted == call.at = "prompted"

(* A prompt is not sent over an authority that was lost before the last     *)
(* look at it.  With its guards a mutation that is prompted lost its lease, *)
(* if at all, after the lease guard, and its head after the second look at  *)
(* the worktree; a review, which has no guards, lost its lease after its    *)
(* evidence was taken; and of either the packet was changed, if at all,     *)
(* when it had been sent.                                                   *)
AuthorityLostLate ==
  Prompted =>
    /\ lost.packet \in {"never", "prompted"}
    /\ lost.lease # "evidence"
    /\ Guarded /\ call.mode = "mutate" =>
         /\ lost.lease \notin {"assemble", "prep", "guard"}
         /\ lost.head \in {"never", "launch", "helper", "prompted"}

=============================================================================
