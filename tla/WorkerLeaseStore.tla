--------------------------- MODULE WorkerLeaseStore ---------------------------
(***************************************************************************)
(* The worker-capacity authority of worker_lease.py: one SQLite database   *)
(* with a table of worker leases and a table of provisioning reservations. *)
(* Every operation runs in one BEGIN IMMEDIATE transaction, so every       *)
(* operation is one action here.  A refused operation rolls back and       *)
(* raises; it changes nothing and is left to the callers' modules.         *)
(*                                                                         *)
(* Timestamps are supplied by the caller and may be old when they reach    *)
(* the store (a delayed heartbeat, an observation taken a while ago), but  *)
(* they come from the one machine's clock: they never exceed it.           *)
(***************************************************************************)
EXTENDS Integers, FiniteSets

CONSTANTS
  Owners,          \* (session_id, task_id) pairs; the code always compares both
  Workers,         \* worker_id values
  LeaseIds,        \* values the lease_id factory can return
  ReservationIds,  \* values the reservation_id factory can return
  Worktrees,       \* windows_worktree_key values
  Paths,           \* concrete paths a mutable scope can cover
  Requests,        \* the WorkerLeaseRequest values callers use
  ProvisionTerms,  \* runtime kind, project, worktree and scope of a reservation
  Observations,    \* the WorkerLeaseRecoveryObservation values reconcilers bring
  LegacyWorkers,   \* workers that pre-fence binaries may have left leased
  LegacyOwners,    \* owners that may have an ACTIVE reservation of an old binary
  HotspotOf,       \* what the hotspot resolver answers per worktree, or None
  MaxExtraWorkers, \* max_extra_workers of the elastic policy
  MaxTime,         \* bound on the clock, for model checking
  None             \* SQL NULL

VARIABLES
  clock,        \* the machine's clock
  leases,       \* worker_leases: lease_id -> row, None where there is no row
  held,         \* expires_at of the WorkerLease object its holder was handed
  reservations  \* worker_provisioning_reservations, None where there is no row

vars == <<clock, leases, held, reservations>>

Intents == {"READ_ONLY", "MUTATION"}

(***************************************************************************)
(* Branch, HEAD, capabilities, allowed and forbidden scope and project are *)
(* only ever compared for equality with the stored ones: "terms" stands    *)
(* for all of them.                                                        *)
(***************************************************************************)
RequestFields(r) ==
  /\ DOMAIN r = {"workers", "intent", "worktree", "scope", "terms", "ttl"}
  /\ r.workers \in SUBSET Workers
  /\ r.intent \in Intents
  /\ r.worktree \in Worktrees
  /\ r.scope \in SUBSET Paths
  /\ r.ttl \in Nat \ {0}

WorkerLeaseRequest(r) ==
  /\ RequestFields(r)
  /\ r.workers # {}
  /\ r.intent = "READ_ONLY" <=> r.scope = {}

ASSUME RequestsAssumption == \A r \in Requests : WorkerLeaseRequest(r)

(***************************************************************************)
(* One observation of a worker after its lease went stale.  "identity" says *)
(* that worker, ownership, worktree and branch all agree with the lease,    *)
(* "head" that HEAD is still the expected one.                              *)
(***************************************************************************)
RecoveryClassification ==
  {"NO_MUTATION", "PARTIAL_MUTATION", "MUTATION_COMPLETE_UNVERIFIED",
   "COMPLETE_VERIFIED", "UNEXPECTED_DRIFT", "UNKNOWN"}

WorkerLeaseRecoveryObservation ==
  [identity: BOOLEAN, running: {"YES", "NO", "UNKNOWN"},
   dirty: {"CLEAN", "DIRTY", "UNKNOWN"}, head: BOOLEAN,
   classification: RecoveryClassification]

ASSUME ObservationsAssumption ==
  Observations \subseteq WorkerLeaseRecoveryObservation

ASSUME ConstantsAssumption ==
  /\ MaxExtraWorkers \in Nat \ {0}
  /\ MaxTime \in Nat
  /\ None \notin Nat
  /\ None \notin Workers
  /\ LegacyWorkers \subseteq Workers
  /\ LegacyOwners \subseteq Owners
  /\ DOMAIN HotspotOf = Worktrees

Hotspots == {HotspotOf[wt] : wt \in Worktrees}

-------------------------------------------------------------------------------
(* Rows *)

WorkerLease ==
  [worker: Workers, owner: Owners, intent: Intents, worktree: Worktrees,
   scope: SUBSET Paths, terms: {r.terms : r \in Requests}, ttl: Nat \ {0},
   hotspot: Hotspots \cup {None}, heartbeat: Nat, expires: Nat \cup {None},
   released: Nat \cup {None}, quarantined: Nat \cup {None},
   reconciled: Nat \cup {None}]

ReservationStates ==
  {"PRE_PROVISION", "ACTIVE", "PROVISIONING", "PROVISIONED", "CAPACITY",
   "RECOVERY_REQUIRED", "RELEASED"}

Reservation ==
  [owner: Owners, terms: ProvisionTerms, state: ReservationStates,
   worker: Workers \cup {None}, updated: Nat]

(* NULL is not a time, nor a row, nor the pair of an owner and what it was  *)
(* granted.                                                                 *)
ASSUME NullAssumption ==
  /\ None \notin Nat
  /\ None \notin WorkerLease
  /\ None \notin Reservation
  /\ None \notin [owner: Owners, area: SUBSET (Hotspots \X Paths)]

IsActive(l) == leases[l] # None /\ leases[l].released = None
Active == {l \in LeaseIds : IsActive(l)}
IsConsuming(r) == reservations[r] # None /\ reservations[r].state # "RELEASED"
Consuming == {r \in ReservationIds : IsConsuming(r)}

ActiveMutation == {l \in Active : leases[l].intent = "MUTATION"}

(* write_sets_overlap: some concrete path is covered by both scopes. *)
WriteSetsOverlap(a, b) == a \cap b # {}

LatestEvidence(row) ==
  LET stamps == {row.heartbeat, row.quarantined, row.reconciled} \ {None}
  IN  CHOOSE t \in stamps : \A u \in stamps : u <= t

(***************************************************************************)
(* _lease_health_kind, as what the operations ask of it: a released row is  *)
(* refused before it is consulted.                                          *)
(***************************************************************************)
HealthKind(row, now) ==
  CASE row.quarantined # None                         -> "QUARANTINED"
    [] row.quarantined = None /\ row.expires = None   -> "EXPIRY_UNKNOWN"
    [] row.quarantined = None /\ row.expires # None   ->
         IF now >= row.expires THEN "STALE" ELSE "ACTIVE"

(* _reconciliation_quarantine_reason returns None: nothing speaks against release. *)
SafeToRelease(obs) ==
  /\ obs.identity
  /\ obs.running = "NO"
  /\ obs.dirty = "CLEAN"
  /\ \/ obs.classification = "COMPLETE_VERIFIED"
     \/ obs.classification = "NO_MUTATION" /\ obs.head

RequestMatchesLease(req, row, hotspot) ==
  /\ row.worker \in req.workers
  /\ row.worktree = req.worktree
  /\ row.intent = req.intent
  /\ row.scope = req.scope
  /\ row.terms = req.terms
  /\ row.ttl = req.ttl
  /\ hotspot = None \/ row.hotspot = None \/ row.hotspot = hotspot

RequestHotspot(req) ==
  IF req.intent = "MUTATION" THEN HotspotOf[req.worktree] ELSE None

-------------------------------------------------------------------------------
(* Leases *)

LeasesOf(owner) == {l \in Active : leases[l].owner = owner}

WorkerFree(w) == \A l \in Active : leases[l].worker # w

(***************************************************************************)
(* A PROVISIONED or RECOVERY_REQUIRED reservation fences its worker: only   *)
(* the owner of a PROVISIONED one may lease it.                             *)
(***************************************************************************)
FencedFrom(w, owner) ==
  \E r \in ReservationIds :
    /\ reservations[r] # None
    /\ reservations[r].worker = w
    /\ \/ reservations[r].state = "RECOVERY_REQUIRED"
       \/ reservations[r].state = "PROVISIONED" /\ reservations[r].owner # owner

LegacyMutationActive == \E l \in ActiveMutation : leases[l].hotspot = None

ScopeTaken(req) ==
  \E l \in ActiveMutation :
    /\ leases[l].hotspot = RequestHotspot(req)
    /\ WriteSetsOverlap(req.scope, leases[l].scope)

(***************************************************************************)
(* What try_acquire_result answers, its early returns in the code's order. *)
(***************************************************************************)
AcquireVerdict(owner, req, w, id) ==
  IF req.intent = "MUTATION" /\ RequestHotspot(req) = None
    THEN "HOTSPOT_IDENTITY_FAILED"
  ELSE IF LeasesOf(owner) # {}
    THEN IF \A l \in LeasesOf(owner) :
              RequestMatchesLease(req, leases[l], RequestHotspot(req))
           THEN "EXISTING" ELSE "LEASE_REQUEST_CONFLICT"
  ELSE IF ~WorkerFree(w) \/ FencedFrom(w, owner)
    THEN "BUSY"
  ELSE IF req.intent = "MUTATION" /\ LegacyMutationActive
    THEN "HOTSPOT_RECONCILIATION_REQUIRED"
  ELSE IF req.intent = "MUTATION" /\ ScopeTaken(req)
    THEN "MUTABLE_SCOPE_OVERLAP"
  ELSE IF leases[id] # None
    THEN "LEASE_ID_CONFLICT"
  ELSE "CREATED"

NewLease(owner, req, w, t) ==
  [worker |-> w, owner |-> owner, intent |-> req.intent,
   worktree |-> req.worktree, scope |-> req.scope, terms |-> req.terms,
   ttl |-> req.ttl, hotspot |-> RequestHotspot(req), heartbeat |-> t,
   expires |-> t + req.ttl, released |-> None, quarantined |-> None,
   reconciled |-> None]

(* The caller may die before it sees the answer: "told" is what it learns. *)
TryAcquire(owner, req, w, id, t) ==
  /\ t <= clock
  /\ AcquireVerdict(owner, req, w, id) = "CREATED"
  /\ leases' = [leases EXCEPT ![id] = NewLease(owner, req, w, t)]
  /\ \E told \in {None, t + req.ttl} : held' = [held EXCEPT ![id] = told]
  /\ UNCHANGED <<clock, reservations>>

(* Mutant: a late heartbeat may move a row back. *)
HeartbeatAnyTime(l, t) ==
  /\ t <= clock
  /\ IsActive(l)
  /\ leases[l].quarantined = None
  /\ leases[l].expires # None
  /\ t < leases[l].expires
  /\ leases' = [leases EXCEPT ![l].heartbeat = t,
                              ![l].expires = t + leases[l].ttl]
  /\ \E told \in {held[l], t + leases[l].ttl} : held' = [held EXCEPT ![l] = told]
  /\ UNCHANGED <<clock, reservations>>

Heartbeat(l, t) ==
  /\ t <= clock
  /\ IsActive(l)
  /\ leases[l].quarantined = None
  /\ leases[l].expires # None
  /\ t > leases[l].heartbeat
  /\ t < leases[l].expires
  /\ leases' = [leases EXCEPT ![l].heartbeat = t,
                              ![l].expires = t + leases[l].ttl]
  /\ \E told \in {held[l], t + leases[l].ttl} : held' = [held EXCEPT ![l] = told]
  /\ UNCHANGED <<clock, reservations>>

(* Mutant: reconciliation does not ask whether the lease is still healthy. *)
ReconcilableAnyHealth(l, t) ==
  /\ t <= clock
  /\ IsActive(l)
  /\ t >= LatestEvidence(leases[l])

Reconcilable(l, t) ==
  /\ t <= clock
  /\ IsActive(l)
  /\ t >= LatestEvidence(leases[l])
  /\ HealthKind(leases[l], t) # "ACTIVE"

ReconcileStale(l, t, obs) ==
  /\ Reconcilable(l, t)
  /\ \/ /\ SafeToRelease(obs)
        /\ leases' = [leases EXCEPT ![l].released = t, ![l].reconciled = t]
     \/ /\ ~SafeToRelease(obs)
        /\ leases' = [leases EXCEPT
             ![l].quarantined = IF leases[l].quarantined = None THEN t ELSE @,
             ![l].reconciled = t]
  /\ UNCHANGED <<clock, held, reservations>>

(* The holder gives its lease back: it has stopped using it before it calls. *)
Release(l, t) ==
  /\ t <= clock
  /\ IsActive(l)
  /\ t >= leases[l].heartbeat
  /\ leases[l].quarantined = None
  /\ leases[l].expires # None
  /\ t < leases[l].expires
  /\ leases' = [leases EXCEPT ![l].released = t]
  /\ held' = [held EXCEPT ![l] = None]
  /\ UNCHANGED <<clock, reservations>>

(* The holder's process ends, or forgets the lease, without releasing it. *)
HolderStops(l) ==
  /\ held[l] # None
  /\ held' = [held EXCEPT ![l] = None]
  /\ UNCHANGED <<clock, leases, reservations>>

-------------------------------------------------------------------------------
(* Provisioning reservations *)

AcquireReservation(owner, terms, id, t) ==
  /\ t <= clock
  /\ \A r \in Consuming : reservations[r].owner # owner
  /\ Cardinality(Consuming) < MaxExtraWorkers
  /\ reservations[id] = None
  /\ reservations' = [reservations EXCEPT ![id] =
       [owner |-> owner, terms |-> terms, state |-> "PRE_PROVISION",
        worker |-> None, updated |-> t]]
  /\ UNCHANGED <<clock, leases, held>>

AllowedTransitions(state) ==
  CASE state = "PRE_PROVISION" -> {"PROVISIONING", "RECOVERY_REQUIRED", "RELEASED"}
    [] state = "ACTIVE"        -> {"RECOVERY_REQUIRED"}
    [] state = "PROVISIONING"  -> {"PROVISIONED", "RECOVERY_REQUIRED"}
    [] state = "PROVISIONED"   -> {"CAPACITY", "RECOVERY_REQUIRED"}
    [] OTHER                   -> {}

(* No foreign session holds a lease on the worker being published. *)
NoForeignLease(w, owner) ==
  \A l \in Active : leases[l].worker = w => leases[l].owner = owner

(* What transition_provisioning_reservation checks before it writes. *)
MayTransition(r, target, w, t) ==
  /\ t <= clock
  /\ reservations[r] # None
  /\ target \in AllowedTransitions(reservations[r].state)
  /\ target \in {"PROVISIONED", "CAPACITY"} => w # None
  /\ target = "PROVISIONED" => NoForeignLease(w, reservations[r].owner)
  /\ target # "RELEASED" /\ w # None =>
       \A q \in Consuming \ {r} : reservations[q].worker # w

TransitionReservation(r, target, w, t) ==
  /\ MayTransition(r, target, w, t)
  /\ reservations' = [reservations EXCEPT ![r].state = target,
                                          ![r].worker = w,
                                          ![r].updated = t]
  /\ UNCHANGED <<clock, leases, held>>

(* The worker argument each method of the reservation adapter passes on. *)
AdapterWorkers(target) ==
  CASE target \in {"PROVISIONED", "CAPACITY"} -> Workers
    [] target = "RECOVERY_REQUIRED"           -> Workers \cup {None}
    [] OTHER                                  -> {None}

-------------------------------------------------------------------------------
Tick ==
  /\ clock < MaxTime
  /\ clock' = clock + 1
  /\ UNCHANGED <<leases, held, reservations>>

(* A row an old binary left: no hotspot, and perhaps no expiry. *)
LegacyLease(owner, req, w, dated) ==
  [worker |-> w, owner |-> owner, intent |-> req.intent,
   worktree |-> req.worktree, scope |-> req.scope, terms |-> req.terms,
   ttl |-> req.ttl, hotspot |-> None, heartbeat |-> 0,
   expires |-> IF dated THEN req.ttl ELSE None,
   released |-> None, quarantined |-> None, reconciled |-> None]

LegacyLeases ==
  {LegacyLease(a[1], a[2], a[3], a[4]) :
     a \in Owners \X Requests \X LegacyWorkers \X BOOLEAN}

LegacyReservations ==
  {[owner |-> o, terms |-> terms, state |-> "ACTIVE", worker |-> None,
    updated |-> 0] : o \in LegacyOwners, terms \in ProvisionTerms}

Init ==
  /\ clock = 0
  /\ held = [l \in LeaseIds |-> None]
  /\ leases \in [LeaseIds -> LegacyLeases \cup {None}]
  /\ \A k, l \in Active : k # l => /\ leases[k].worker # leases[l].worker
                                   /\ leases[k].owner # leases[l].owner
  /\ reservations \in [ReservationIds -> LegacyReservations \cup {None}]
  /\ \A q, r \in Consuming : q # r => reservations[q].owner # reservations[r].owner
  /\ IsFiniteSet(Consuming) /\ Cardinality(Consuming) <= MaxExtraWorkers

Next ==
  \/ Tick
  \/ \E o \in Owners, req \in Requests, id \in LeaseIds, t \in 0..clock :
       \E w \in req.workers : TryAcquire(o, req, w, id, t)
  \/ \E l \in LeaseIds, t \in 0..clock :
       \/ Heartbeat(l, t)
       \/ Release(l, t)
       \/ \E obs \in Observations : ReconcileStale(l, t, obs)
  \/ \E l \in LeaseIds : HolderStops(l)
  \/ \E o \in Owners, terms \in ProvisionTerms, r \in ReservationIds, t \in 0..clock :
       AcquireReservation(o, terms, r, t)
  \/ \E r \in ReservationIds, target \in ReservationStates, t \in 0..clock :
       \E w \in AdapterWorkers(target) : TransitionReservation(r, target, w, t)

Spec == Init /\ [][Next]_vars

-------------------------------------------------------------------------------
TypeOK ==
  /\ clock \in Nat
  /\ leases \in [LeaseIds -> WorkerLease \cup {None}]
  /\ held \in [LeaseIds -> Nat \cup {None}]
  /\ reservations \in [ReservationIds -> Reservation \cup {None}]

-------------------------------------------------------------------------------
(* What the leases promise *)

(***************************************************************************)
(* At every moment a worker has at most one active lease and an owner at    *)
(* most one, whatever the order in which sessions acquire, expire, are      *)
(* reconciled and release (the two partial unique indexes).                 *)
(***************************************************************************)
LeaseExclusion ==
  \A k, l \in Active : k # l => /\ leases[k].worker # leases[l].worker
                                /\ leases[k].owner # leases[l].owner

(***************************************************************************)
(* No two active mutation leases cover a common path of one canonical       *)
(* checkout, however their worktrees are spelled, unless both were left by  *)
(* binaries from before the hotspot fence.  A fenced lease and an unfenced  *)
(* one are never active together, because the unfenced one's checkout is    *)
(* unknown.                                                                 *)
(***************************************************************************)
HotspotExclusion ==
  \A k, l \in ActiveMutation :
    (k # l /\ leases[k].hotspot # None) =>
      /\ leases[l].hotspot # None
      /\ HotspotOf[leases[k].worktree] = HotspotOf[leases[l].worktree] =>
           leases[k].scope \cap leases[l].scope = {}

(***************************************************************************)
(* A holder that trusts the expiry it was last told still owns its lease:   *)
(* until that moment nobody else can release or quarantine the row, however *)
(* late the answers it got and the heartbeats it sent.                      *)
(***************************************************************************)
HolderUsing(l) == held[l] # None /\ clock < held[l]
HeldLeaseStands ==
  \A l \in LeaseIds :
    HolderUsing(l) => IsActive(l) /\ leases[l].quarantined = None

(***************************************************************************)
(* Two processes that both still trust their leases never use one worker    *)
(* and never write one path of one canonical checkout, unless both leases   *)
(* were left by binaries from before the hotspot fence.                     *)
(***************************************************************************)
HoldersNeverCollide ==
  \A k, l \in LeaseIds :
    (k # l /\ HolderUsing(k) /\ HolderUsing(l)) =>
      /\ leases[k].worker # leases[l].worker
      /\ ( /\ leases[k].hotspot # None
           /\ HotspotOf[leases[k].worktree] = HotspotOf[leases[l].worktree] ) =>
             leases[k].scope \cap leases[l].scope = {}

(***************************************************************************)
(* No operation rewrites history: a released row is final, the latest       *)
(* evidence of a row never moves back in time, and a quarantine ends only   *)
(* in a reconciled release.                                                 *)
(***************************************************************************)
RowHistory(old, new) ==
  /\ old.released # None => new = old
  /\ LatestEvidence(new) >= LatestEvidence(old)
  /\ new.released # None => new.released >= LatestEvidence(old)
  /\ old.quarantined # None =>
       /\ new.quarantined = old.quarantined
       /\ new.released # old.released => new.reconciled = new.released
LeaseHistory ==
  [][\A l \in LeaseIds : leases[l] # None => RowHistory(leases[l], leases'[l])]_vars

-------------------------------------------------------------------------------
(* What the reservations promise *)

(***************************************************************************)
(* The elastic worker a reservation has published is leased to nobody but   *)
(* the owner of the reservation until the hand-off is confirmed: neither a  *)
(* competing lease after the publication nor a publication after a          *)
(* competing lease gets through.                                            *)
(***************************************************************************)
HandoffExclusion ==
  \A r \in Consuming, l \in Active :
    ( /\ reservations[r].state = "PROVISIONED"
      /\ reservations[r].worker = leases[l].worker ) =>
        leases[l].owner = reservations[r].owner

(***************************************************************************)
(* Elastic capacity stays within max_extra_workers, reservations whose      *)
(* outcome is unknown included, and no two of them are about one worker.    *)
(***************************************************************************)
CapacityBound ==
  /\ Cardinality(Consuming) <= MaxExtraWorkers
  /\ \A q, r \in Consuming :
       (q # r /\ reservations[q].worker # None) =>
         reservations[q].worker # reservations[r].worker

(***************************************************************************)
(* The store's promise to its callers: no two active leases of one worker,  *)
(* one owner or colliding write scopes, what a holder believes stands in    *)
(* the store, and a provisioned worker goes to its own session.             *)
(***************************************************************************)
LeaseSafety ==
  /\ TypeOK
  /\ LeaseExclusion
  /\ HotspotExclusion
  /\ HeldLeaseStands
  /\ HoldersNeverCollide
  /\ HandoffExclusion
  /\ CapacityBound

-------------------------------------------------------------------------------
(***************************************************************************)
(* The inductive invariant of the leases.  Exclusion alone is not           *)
(* inductive: that a holder is safe until its expiry rests on the row never *)
(* expiring before what the holder was told, and on a row being ended by    *)
(* somebody else only after it expired.                                     *)
(***************************************************************************)
FenceResolved ==
  \A l \in LeaseIds :
    ( /\ leases[l] # None
      /\ leases[l].intent = "MUTATION"
      /\ leases[l].hotspot # None ) => leases[l].hotspot = HotspotOf[leases[l].worktree]

ReadersWriteNothing ==
  \A l \in LeaseIds :
    leases[l] # None /\ leases[l].intent = "READ_ONLY" => leases[l].scope = {}

ExpiryFollowsHeartbeat ==
  \A l \in LeaseIds :
    (leases[l] # None /\ leases[l].expires # None) =>
      leases[l].expires = leases[l].heartbeat + leases[l].ttl

HeldWithinExpiry ==
  \A l \in LeaseIds :
    held[l] # None => /\ leases[l] # None
                      /\ leases[l].expires # None
                      /\ held[l] <= leases[l].expires

EndedAfterExpiry ==
  \A l \in LeaseIds :
    (/\ held[l] # None
     /\ leases[l] # None
     /\ leases[l].released # None \/ leases[l].quarantined # None) =>
       leases[l].expires <= clock

LeaseInv ==
  /\ TypeOK
  /\ LeaseExclusion
  /\ HotspotExclusion
  /\ FenceResolved
  /\ ReadersWriteNothing
  /\ ExpiryFollowsHeartbeat
  /\ HeldWithinExpiry
  /\ EndedAfterExpiry

(* An active row that is not quarantined was never reconciled, and the      *)
(* release of a row is its latest stamp.                                    *)
EvidenceInOrder ==
  \A l \in LeaseIds : leases[l] # None =>
    /\ (leases[l].released = None /\ leases[l].quarantined = None) => leases[l].reconciled = None
    /\ leases[l].released # None => leases[l].released >= LatestEvidence(leases[l])

EvidenceInv == TypeOK /\ EvidenceInOrder

CapacityInv ==
  /\ TypeOK
  /\ IsFiniteSet(Consuming)
  /\ CapacityBound
  /\ HandoffExclusion

-------------------------------------------------------------------------------
(***************************************************************************)
(* The store implements LeaseAuthority.  A fenced mutation lease covers its *)
(* scope in its checkout; an unfenced one counts as covering everything.    *)
(***************************************************************************)
Area(row) ==
  CASE row.intent = "READ_ONLY"                         -> {}
    [] row.intent = "MUTATION" /\ row.hotspot = None    -> Hotspots \X Paths
    [] row.intent = "MUTATION" /\ row.hotspot # None    -> {row.hotspot} \X row.scope

Granted ==
  [w \in Workers |->
     IF WorkerFree(w) THEN None
     ELSE LET l == CHOOSE k \in Active : leases[k].worker = w
          IN  [owner |-> leases[l].owner, area |-> Area(leases[l])]]

Authority ==
  INSTANCE LeaseAuthority
  WITH granted <- Granted, Areas <- SUBSET (Hotspots \X Paths), NoGrant <- None

(* Every step of the store is a grant, a free or nothing to its callers. *)
ImplementsAuthority == Authority!Spec

===============================================================================
