---------------------------- MODULE ElasticCapacity ----------------------------
(***************************************************************************)
(* One extra worker for a task that found none.                             *)
(*                                                                         *)
(* ProductionElasticWorkerExecutor.execute_once and                         *)
(* ElasticWorkerCapacityCoordinator.expand of elastic_worker_capacity.py,   *)
(* called by several sessions on one WorkerLeaseStore, with the supply as   *)
(* WorkerCandidateAssembler of worker_candidate_assembly.py observes it.    *)
(* Every transaction on the store, the provisioner and every read of the    *)
(* assembler is a step of its own.  The provider admission that execute_once *)
(* takes beside the worker is the subject of ParallelReady.                 *)
(***************************************************************************)
EXTENDS WorkerLeaseStore

CONSTANTS
  Calls,      \* the calls of execute_once and expand
  OwnerOf,    \* per call, the session and task of its lease request
  RequestOf,  \* per call, its WorkerLeaseRequest
  ViaExpand,  \* the calls of expand; the others are calls of execute_once
  Policies,   \* the elastic policies callers use
  Pool,       \* the workers the Control Center knows at the start
  Facts,      \* what the ports of the assembler can answer about one worker
  Faults      \* the calls whose use of the reservations may fail for no reason of its own

VARIABLES
  calls,   \* per call: None, or where it is and what it remembers
  exists,  \* the workers that really exist
  made     \* per reservation, the worker the provisioner made for it, or None

elasticVars == <<calls, exists, made>>
allVars == <<vars, elasticVars>>

ElasticCapacityPolicy ==
  [enabled: BOOLEAN, max: {0, MaxExtraWorkers}, kind: BOOLEAN, remote: BOOLEAN,
   authorized: BOOLEAN]

(***************************************************************************)
(* The answers about one worker: the Control Center's row, the project      *)
(* binding, the capability map, the lifecycle observation and git.          *)
(* "matches" says that it has the node's capabilities, "identity" that      *)
(* worktree, branch and HEAD are the requested ones.                        *)
(***************************************************************************)
WorkerFacts ==
  [assigned: BOOLEAN, binding: {"MISSING", "DRIFT", "OK"}, capable: BOOLEAN,
   runtime: {"FAILED", "UNKNOWN", "STOPPED", "READY"}, task: BOOLEAN,
   git: {"FAILED", "DIRTY", "CLEAN"}, mutable: BOOLEAN,
   matches: BOOLEAN, identity: BOOLEAN]

ASSUME ElasticAssumption ==
  /\ Pool \subseteq Workers
  /\ ViaExpand \subseteq Calls
  /\ Faults \subseteq Calls
  /\ Facts \subseteq WorkerFacts
  /\ Policies \subseteq ElasticCapacityPolicy
  /\ \A c \in Calls :
       /\ OwnerOf[c] \in Owners /\ RequestOf[c] \in Requests
       /\ \A w \in Workers : [RequestOf[c] EXCEPT !.workers = {w}] \in Requests
       /\ [worktree |-> RequestOf[c].worktree, scope |-> RequestOf[c].scope] \in ProvisionTerms
  /\ \A terms \in ProvisionTerms : terms.scope \subseteq Paths

Places ==
  {"leases", "supply", "policy", "reserve", "start", "provision", "publish",
   "observe", "acquire", "run", "finalize", "abandon", "end", "dead"}
CallOutcomes == {"PENDING", "WAIT", "RECOVERY", "EXECUTED"}

WorkerLeaseCandidate ==
  [worker: Workers, state: {"READY", "UNKNOWN"}, reserved: BOOLEAN,
   authorized: BOOLEAN, dirty: {"FAILED", "DIRTY", "CLEAN"}, matches: BOOLEAN,
   identity: BOOLEAN, occupied: SUBSET SUBSET Paths]

CallState ==
  [pc: Places, policy: Policies, eligible: {"YES", "NO", "MISSING"},
   capacity: BOOLEAN, active: SUBSET LeaseIds, res: ReservationIds \cup {None},
   worker: Workers \cup {None}, bind: Workers \cup {None},
   cand: WorkerLeaseCandidate \cup {None}, out: CallOutcomes]

ASSUME NoCallAssumption ==
  /\ None \notin CallState
  /\ None \notin WorkerLeaseCandidate
  /\ None \notin ReservationIds

At(c, pc) == calls[c] # None /\ calls[c].pc = pc
Live(c) == calls[c] # None /\ calls[c].pc \notin {"end", "dead"}
Goto(c, pc) == calls' = [calls EXCEPT ![c].pc = pc]
Finish(c, out) == calls' = [calls EXCEPT ![c].pc = "end", ![c].out = out]

(* What the reservation says of the request. *)
Terms(c) == [worktree |-> RequestOf[c].worktree, scope |-> RequestOf[c].scope]
-------------------------------------------------------------------------------
(* What the assembler makes of its evidence *)

OwnerMatch(row, owner) == row.state = "PROVISIONED" /\ row.owner = owner

(***************************************************************************)
(* The published or uncertain hand-offs that count against this observer;   *)
(* owner is None for the generic assembly.                                  *)
(***************************************************************************)
Handoffs(owner) ==
  {r \in Consuming :
     /\ reservations[r].state \in {"PROVISIONED", "RECOVERY_REQUIRED"}
     /\ ~OwnerMatch(reservations[r], owner)}

(* _capacity_evidence, from the leases read before the reservations. *)
Reserved(w, active, owner) ==
  \/ \E l \in active : leases[l].worker = w
  \/ \E r \in Handoffs(owner) : reservations[r].worker = w

OccupiedScopes(wt, active, owner) ==
  {leases[l].scope : l \in {l \in active : leases[l].worktree = wt}}
    \cup {reservations[r].terms.scope :
            r \in {r \in Handoffs(owner) : reservations[r].terms.worktree = wt}}

(* _assemble_row: any answer missing or unknown closes the row. *)
RowState(f) ==
  IF /\ f.assigned /\ f.binding = "OK" /\ f.capable
     /\ f.runtime = "READY" /\ f.git # "FAILED"
    THEN "READY" ELSE "UNKNOWN"

Candidate(w, f, active, owner, wt) ==
  LET reserved == Reserved(w, active, owner) \/ f.task
  IN  [worker |-> w, state |-> RowState(f), reserved |-> reserved,
       authorized |-> /\ f.mutable /\ f.git = "CLEAN"
                      /\ RowState(f) = "READY" /\ ~reserved,
       dirty |-> f.git, matches |-> f.matches, identity |-> f.identity,
       occupied |-> OccupiedScopes(wt, active, owner)]

(* schedule_once for the one node of the call. *)
Available(supply) ==
  {w \in DOMAIN supply : supply[w].state = "READY" /\ ~supply[w].reserved}
Assignable(req, supply) ==
  {w \in Available(supply) :
     /\ supply[w].matches
     /\ req.intent = "MUTATION" => supply[w].authorized}

(* _preflight of the broker. *)
Preflight(req, cand) ==
  /\ cand.state = "READY"
  /\ ~cand.reserved
  /\ cand.matches
  /\ cand.identity
  /\ req.intent = "MUTATION" =>
       /\ cand.dirty = "CLEAN"
       /\ cand.authorized
       /\ \A s \in cand.occupied : ~WriteSetsOverlap(req.scope, s)
-------------------------------------------------------------------------------
(* The plan *)

(***************************************************************************)
(* execute_once with the eligibility evidence and the provider's authority  *)
(* of its node; expand with a plan and an eligibility the caller made.      *)
(***************************************************************************)
BeginCall(c, policy) ==
  /\ calls[c] = None
  /\ \E eligible \in {"YES", "NO", "MISSING"}, capacity \in BOOLEAN :
       LET entry == [pc |-> IF c \in ViaExpand THEN "policy" ELSE "leases",
                     policy |-> policy, eligible |-> eligible,
                     capacity |-> capacity, active |-> {}, res |-> None,
                     worker |-> None, bind |-> None, cand |-> None,
                     out |-> "PENDING"]
       IN  \/ /\ c \in ViaExpand \/ (eligible # "MISSING" /\ capacity)
              /\ calls' = [calls EXCEPT ![c] = entry]
           \/ /\ c \notin ViaExpand /\ eligible = "MISSING" /\ capacity
              /\ calls' = [calls EXCEPT ![c] =
                             [entry EXCEPT !.pc = "end", !.out = "RECOVERY"]]
  /\ UNCHANGED <<vars, exists, made>>

(* list_active, the first half of _evidence_snapshot. *)
ReadLeases(c) ==
  /\ At(c, "leases")
  /\ calls' = [calls EXCEPT ![c].pc = "supply", ![c].active = Active]
  /\ UNCHANGED <<vars, exists, made>>

Supply(c, facts, owner) ==
  [w \in exists |-> Candidate(w, facts[w], calls[c].active, owner,
                              RequestOf[c].worktree)]

(* The worker goes to the batch; its identity is compared once more there. *)
Assign(c, cand) ==
  IF cand.identity
    THEN calls' = [calls EXCEPT ![c].pc = "acquire", ![c].cand = cand]
  ELSE IF calls[c].res = None
    THEN Finish(c, "RECOVERY")
    ELSE calls' = [calls EXCEPT ![c].pc = "abandon", ![c].out = "RECOVERY"]

(***************************************************************************)
(* The second half of the snapshot, the rows and the first plan.  A row     *)
(* that cannot be observed is no worker: without one the node is blocked    *)
(* for CAPACITY.                                                            *)
(***************************************************************************)
FirstPlan(c) ==
  /\ At(c, "supply")
  /\ calls[c].res = None
  /\ \E facts \in [exists -> Facts] :
       LET supply == Supply(c, facts, None)
           fit == Assignable(RequestOf[c], supply)
       IN  \/ calls[c].eligible = "NO" /\ Finish(c, "WAIT")
           \/ /\ calls[c].eligible = "YES"
              /\ \/ \E w \in fit : Assign(c, supply[w])
                 \/ fit = {} /\ Available(supply) # {} /\ Finish(c, "WAIT")
                 \/ Available(supply) = {} /\ Goto(c, "policy")
  /\ UNCHANGED <<vars, exists, made>>

(* The supply cannot be read at all. *)
SupplyFails(c) ==
  /\ At(c, "supply")
  /\ \/ calls[c].res = None /\ Finish(c, "RECOVERY")
     \/ /\ calls[c].res # None
        /\ calls' = [calls EXCEPT ![c].pc = "abandon", ![c].out = "RECOVERY"]
  /\ UNCHANGED <<vars, exists, made>>

(***************************************************************************)
(* The second plan has to give the node the new worker and nothing else.    *)
(***************************************************************************)
SecondPlan(c) ==
  /\ At(c, "supply")
  /\ calls[c].res # None
  /\ \E facts \in [exists -> Facts] :
       LET supply == Supply(c, facts, OwnerOf[c])
           fit == Assignable(RequestOf[c], supply)
       IN  \/ calls[c].worker \in fit /\ Assign(c, supply[calls[c].worker])
           \/ /\ fit # {calls[c].worker}
              /\ calls' = [calls EXCEPT ![c].pc = "abandon", ![c].out = "RECOVERY"]
  /\ UNCHANGED <<vars, exists, made>>
-------------------------------------------------------------------------------
(* provision_ready *)

PolicyAllows(p) ==
  p.enabled /\ p.max > 0 /\ p.kind /\ (p.remote => p.authorized)

Gate(c) ==
  /\ At(c, "policy")
  /\ IF ~PolicyAllows(calls[c].policy) THEN Finish(c, "WAIT")
     ELSE IF calls[c].eligible = "MISSING" THEN Finish(c, "RECOVERY")
     ELSE IF calls[c].eligible = "NO" \/ ~calls[c].capacity THEN Finish(c, "WAIT")
     ELSE Goto(c, "reserve")
  /\ UNCHANGED <<vars, exists, made>>

Reserve(c) ==
  /\ At(c, "reserve")
  /\ LET mine == {r \in Consuming : reservations[r].owner = OwnerOf[c]}
     IN  \/ \E r \in ReservationIds :
              /\ AcquireReservation(OwnerOf[c], Terms(c), r, clock)
              /\ calls' = [calls EXCEPT ![c].pc = "start", ![c].res = r]
         \/ /\ mine = {} /\ Cardinality(Consuming) >= calls[c].policy.max
            /\ Finish(c, "WAIT") /\ UNCHANGED vars
         \/ /\ mine # {} \/ c \in Faults
            /\ Finish(c, "RECOVERY") /\ UNCHANGED vars
  /\ UNCHANGED <<exists, made>>

(* A mark on the reservation is refused, or fails. *)
MarkFails(c, target, w) ==
  /\ c \in Faults \/ ~MayTransition(calls[c].res, target, w, clock)
  /\ UNCHANGED vars

(* Mutant: the start is not made durable before the provisioner is called. *)
StartUnmarked(c) ==
  /\ At(c, "start")
  /\ Goto(c, "provision")
  /\ UNCHANGED <<vars, exists, made>>

Start(c) ==
  /\ At(c, "start")
  /\ \/ /\ TransitionReservation(calls[c].res, "PROVISIONING", None, clock)
        /\ Goto(c, "provision")
     \/ MarkFails(c, "PROVISIONING", None) /\ Finish(c, "RECOVERY")
  /\ UNCHANGED <<exists, made>>

(***************************************************************************)
(* The provisioner makes a new worker, and answers; answers with another    *)
(* runtime kind or an unauthorized connector; or raises, before the worker  *)
(* exists or after.                                                         *)
(***************************************************************************)
Provision(c) ==
  /\ At(c, "provision")
  /\ \/ \E w \in Workers \ exists :
          /\ exists' = exists \cup {w}
          /\ made' = [made EXCEPT ![calls[c].res] = w]
          /\ \/ calls' = [calls EXCEPT ![c].pc = "publish", ![c].worker = w,
                                       ![c].bind = w]
             \/ calls' = [calls EXCEPT ![c].pc = "abandon", ![c].bind = w,
                                       ![c].out = "RECOVERY"]
             \/ calls' = [calls EXCEPT ![c].pc = "abandon", ![c].out = "RECOVERY"]
     \/ /\ calls' = [calls EXCEPT ![c].pc = "abandon", ![c].out = "RECOVERY"]
        /\ UNCHANGED <<exists, made>>
  /\ UNCHANGED vars

(* mark_provisioned: from here on the store keeps others off the worker. *)
Publish(c) ==
  /\ At(c, "publish")
  /\ \/ /\ TransitionReservation(calls[c].res, "PROVISIONED", calls[c].worker, clock)
        /\ Goto(c, IF c \in ViaExpand THEN "observe" ELSE "leases")
     \/ /\ MarkFails(c, "PROVISIONED", calls[c].worker)
        /\ calls' = [calls EXCEPT ![c].pc = "abandon", ![c].out = "RECOVERY"]
  /\ UNCHANGED <<exists, made>>

(* assemble_for_owner, for expand, which leases what it saw. *)
Observe(c) ==
  /\ At(c, "observe")
  /\ \/ \E f \in Facts :
          calls' = [calls EXCEPT ![c].pc = "acquire",
             ![c].cand = Candidate(calls[c].worker, f, Active, OwnerOf[c],
                                   RequestOf[c].worktree)]
     \/ calls' = [calls EXCEPT ![c].pc = "abandon", ![c].out = "RECOVERY"]
  /\ UNCHANGED <<vars, exists, made>>
-------------------------------------------------------------------------------
(* The lease, the run, and the end of the reservation *)

(* The batch, or expand, ends with out; a reservation is abandoned first. *)
Settle(c, out) ==
  calls' = [calls EXCEPT ![c].out = out,
                         ![c].pc = IF calls[c].res = None THEN "end" ELSE "abandon"]

(* What a lease that was not given means to execute_once, and to expand. *)
NotLeased(c, wait) ==
  Settle(c, IF c \in ViaExpand \/ ~wait THEN "RECOVERY" ELSE "WAIT")

(***************************************************************************)
(* WorkerLeaseBroker.acquire for the one worker of the plan.  The provider  *)
(* may also turn the task away before it is asked.                          *)
(***************************************************************************)
Acquire(c) ==
  /\ At(c, "acquire")
  /\ LET o == OwnerOf[c]
         w == calls[c].cand.worker
         req == [RequestOf[c] EXCEPT !.workers = {w}]
         verdict(id) == AcquireVerdict(o, req, w, id)
     IN  \/ /\ LeasesOf(o) = {} /\ Preflight(req, calls[c].cand)
            /\ \E id \in LeaseIds : TryAcquire(o, req, w, id, clock)
            /\ Goto(c, IF c \in ViaExpand THEN "finalize" ELSE "run")
         \/ /\ LeasesOf(o) = {}
            /\ \/ ~Preflight(req, calls[c].cand)
               \/ \E id \in LeaseIds : verdict(id) \in {"BUSY", "MUTABLE_SCOPE_OVERLAP"}
            /\ NotLeased(c, TRUE) /\ UNCHANGED vars
         \/ /\ \/ LeasesOf(o) # {}
               \/ \E id \in LeaseIds : verdict(id) \in
                    {"HOTSPOT_IDENTITY_FAILED", "HOTSPOT_RECONCILIATION_REQUIRED"}
            /\ NotLeased(c, FALSE) /\ UNCHANGED vars
         \/ /\ c \notin ViaExpand
            /\ \E out \in {"WAIT", "RECOVERY"} : Settle(c, out)
            /\ UNCHANGED vars
  /\ UNCHANGED <<exists, made>>

(* The runner of the batch completes the task, refuses it, or is unsure. *)
Run(c) ==
  /\ At(c, "run")
  /\ \/ /\ calls[c].res = None
        /\ Finish(c, "EXECUTED")
     \/ calls[c].res # None /\ Goto(c, "finalize")
     \/ Settle(c, "RECOVERY")
  /\ UNCHANGED <<vars, exists, made>>

Finalize(c) ==
  /\ At(c, "finalize")
  /\ \/ /\ TransitionReservation(calls[c].res, "CAPACITY", calls[c].worker, clock)
        /\ Finish(c, "EXECUTED")
     \/ /\ MarkFails(c, "CAPACITY", calls[c].worker)
        /\ Settle(c, "RECOVERY")
  /\ UNCHANGED <<exists, made>>

(* _mark_recovery and abandon_provisioned_handoff: an error is swallowed. *)
Abandon(c) ==
  /\ At(c, "abandon")
  /\ \/ TransitionReservation(calls[c].res, "RECOVERY_REQUIRED", calls[c].bind, clock)
     \/ MarkFails(c, "RECOVERY_REQUIRED", calls[c].bind)
  /\ Goto(c, "end")
  /\ UNCHANGED <<exists, made>>

CrashCall(c) ==
  /\ Live(c)
  /\ Goto(c, "dead")
  /\ UNCHANGED <<vars, exists, made>>

(* release_unstarted: a session takes back what it has only reserved. *)
ReleaseUnstarted(r) ==
  /\ TransitionReservation(r, "RELEASED", None, clock)
  /\ UNCHANGED elasticVars

ReleaseLease(l) == Release(l, clock) /\ UNCHANGED elasticVars
-------------------------------------------------------------------------------
ElasticInit ==
  /\ Init
  /\ calls = [c \in Calls |-> None]
  /\ exists = Pool
  /\ made = [r \in ReservationIds |-> None]

CallStep(c) ==
  \/ ReadLeases(c) \/ FirstPlan(c) \/ SupplyFails(c) \/ SecondPlan(c)
  \/ Gate(c) \/ Reserve(c) \/ Start(c) \/ Provision(c) \/ Publish(c)
  \/ Observe(c) \/ Acquire(c) \/ Run(c) \/ Finalize(c) \/ Abandon(c)

ElasticNext ==
  \/ \E c \in Calls :
       \/ \E policy \in Policies : BeginCall(c, policy)
       \/ CallStep(c)
       \/ CrashCall(c)
  \/ \E r \in ReservationIds : ReleaseUnstarted(r)
  \/ \E l \in LeaseIds : ReleaseLease(l)

ElasticSpec == ElasticInit /\ [][ElasticNext]_allVars
-------------------------------------------------------------------------------
ElasticTypeOK ==
  /\ TypeOK
  /\ exists \subseteq Workers
  /\ made \in [ReservationIds -> Workers \cup {None}]
  /\ calls = [c \in Calls |-> calls[c]]
  /\ \A c \in Calls : calls[c] # None => calls[c] \in CallState

Made == {r \in ReservationIds : made[r] # None}

(***************************************************************************)
(* The workers the provisioner has made, the orphans of crashed and of      *)
(* uncertain calls included, stay within max_extra_workers, and no task has *)
(* one made twice, whatever calls race, die or are repeated.                *)
(***************************************************************************)
NeverOverProvisioned ==
  /\ Cardinality(Made) <= MaxExtraWorkers
  /\ \A q, r \in Made : q # r => reservations[q].owner # reservations[r].owner

(***************************************************************************)
(* A reservation is confirmed as CAPACITY only when its owner got a lease   *)
(* on the very worker that was made for it.                                 *)
(***************************************************************************)
ConfirmedWasLeased ==
  \A r \in ReservationIds :
    (reservations[r] # None /\ reservations[r].state = "CAPACITY") =>
      \E l \in LeaseIds :
        /\ leases[l] # None
        /\ leases[l].worker = made[r]
        /\ leases[l].owner = reservations[r].owner

(***************************************************************************)
(* A call that returns without a confirmed run has marked its reservation   *)
(* RECOVERY_REQUIRED when a worker was made for it, unless it died or the   *)
(* store failed: what is in the world is explained in the store.            *)
(***************************************************************************)
UncertainIsDurable ==
  \A c \in Calls \ Faults :
    ( /\ At(c, "end") /\ calls[c].out # "EXECUTED"
      /\ calls[c].res \in Made ) =>
        reservations[calls[c].res].state = "RECOVERY_REQUIRED"

(***************************************************************************)
(* What the store and the calls of execute_once and expand guarantee about  *)
(* extra workers: never more than the limit, one for a task, handed to its  *)
(* own task only, confirmed only when leased, and recorded for recovery     *)
(* when the call ends without a confirmed run and the store did not fail.   *)
(***************************************************************************)
ElasticSafety ==
  /\ ElasticTypeOK
  /\ CapacityBound
  /\ HandoffExclusion
  /\ NeverOverProvisioned
  /\ ConfirmedWasLeased
  /\ UncertainIsDurable

(***************************************************************************)
(* No session leases a worker that was made for another one whose hand-off  *)
(* is published or uncertain.                                               *)
(***************************************************************************)
UncertainNeverLeased ==
  [][\A l \in LeaseIds :
       (leases[l] = None /\ leases'[l] # None) =>
         \A r \in Made :
           ( /\ reservations[r].state \in {"PROVISIONED", "RECOVERY_REQUIRED"}
             /\ leases'[l].worker = made[r] ) =>
               leases'[l].owner = reservations[r].owner]_allVars

===============================================================================
