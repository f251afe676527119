------------------------- MODULE ElasticCapacityProofs -------------------------
(***************************************************************************)
(* Proofs about WorkerLeaseStore and about the calls of ElasticCapacity     *)
(* that use it, for every set of owners, workers, rows, requests,           *)
(* observations, calls and policies, and for a clock of any size.           *)
(***************************************************************************)
EXTENDS ElasticCapacity, FiniteSetTheorems, TLAPS

-------------------------------------------------------------------------------
(* Type correctness *)

(* The hotspot of a request is one the resolver can answer, or NULL. *)
LEMMA RequestHotspotType ==
  ASSUME NEW req \in Requests
  PROVE  RequestHotspot(req) \in Hotspots \cup {None}
  BY RequestsAssumption
  DEF RequestHotspot, Hotspots, WorkerLeaseRequest, RequestFields

(* The row try_acquire_result inserts is a lease row. *)
LEMMA NewLeaseType ==
  ASSUME NEW o \in Owners, NEW req \in Requests, NEW w \in Workers, NEW t \in Nat
  PROVE  NewLease(o, req, w, t) \in WorkerLease
<1>1. WorkerLeaseRequest(req)
  BY RequestsAssumption
<1>2. RequestHotspot(req) \in Hotspots \cup {None}
  BY RequestHotspotType
<1>3. t + req.ttl \in Nat
  BY <1>1 DEF WorkerLeaseRequest, RequestFields
<1> QED
  BY <1>1, <1>2, <1>3
  DEF NewLease, WorkerLease, WorkerLeaseRequest, RequestFields

(* Fresh and migrated databases are well typed. *)
LEMMA InitTypeOK == Init => TypeOK
<1> SUFFICES ASSUME Init PROVE TypeOK
  OBVIOUS
<1>1. LegacyLeases \subseteq WorkerLease
  <2>1. ASSUME NEW a \in Owners \X Requests \X LegacyWorkers \X BOOLEAN
        PROVE  LegacyLease(a[1], a[2], a[3], a[4]) \in WorkerLease
    <3>1. WorkerLeaseRequest(a[2]) /\ a[2] \in Requests /\ a[4] \in BOOLEAN
      BY RequestsAssumption
    <3> QED
      BY <3>1, ConstantsAssumption
      DEF LegacyLease, WorkerLease, WorkerLeaseRequest, RequestFields
  <2> QED
    BY <2>1 DEF LegacyLeases
<1>2. LegacyReservations \subseteq Reservation
  BY ConstantsAssumption DEF LegacyReservations, Reservation, ReservationStates
<1> QED
  BY <1>1, <1>2 DEF Init, TypeOK

(* A granted lease is a row of the table. *)
LEMMA TryAcquireTypeOK ==
  ASSUME TypeOK, NEW o \in Owners, NEW req \in Requests, NEW id \in LeaseIds,
         NEW t \in Nat, NEW w \in req.workers, TryAcquire(o, req, w, id, t)
  PROVE  TypeOK'
<1>1. w \in Workers /\ t + req.ttl \in Nat
  BY RequestsAssumption DEF WorkerLeaseRequest, RequestFields
<1>2. NewLease(o, req, w, t) \in WorkerLease
  BY <1>1, NewLeaseType
<1> QED
  BY <1>1, <1>2 DEF TypeOK, TryAcquire

(* A row that a lease operation finds active is a lease row. *)
LEMMA ActiveRow ==
  ASSUME TypeOK, NEW l \in LeaseIds, leases[l] # None
  PROVE  leases[l] \in WorkerLease
  BY DEF TypeOK

(* A heartbeat rewrites a row by a row. *)
LEMMA HeartbeatTypeOK ==
  ASSUME TypeOK, NEW l \in LeaseIds, NEW t \in Nat, Heartbeat(l, t)
  PROVE  TypeOK'
<1>1. leases[l] \in WorkerLease
  BY ActiveRow DEF Heartbeat, IsActive
<1>2. t + leases[l].ttl \in Nat
  BY <1>1 DEF WorkerLease
<1>3. [leases[l] EXCEPT !.heartbeat = t, !.expires = t + leases[l].ttl] \in WorkerLease
  BY <1>1, <1>2 DEF WorkerLease
<1> QED
  BY <1>2, <1>3 DEF TypeOK, Heartbeat

(* So does a release. *)
LEMMA ReleaseTypeOK ==
  ASSUME TypeOK, NEW l \in LeaseIds, NEW t \in Nat, Release(l, t)
  PROVE  TypeOK'
<1>1. leases[l] \in WorkerLease
  BY ActiveRow DEF Release, IsActive
<1>2. [leases[l] EXCEPT !.released = t] \in WorkerLease
  BY <1>1 DEF WorkerLease
<1> QED
  BY <1>2 DEF TypeOK, Release

(* A reconciled row stays a row of the table: released, or quarantined once. *)
LEMMA ReconciledRow ==
  ASSUME NEW row \in WorkerLease, NEW t \in Nat
  PROVE  /\ [row EXCEPT !.released = t, !.reconciled = t] \in WorkerLease
         /\ [row EXCEPT !.quarantined = IF row.quarantined = None THEN t ELSE @,
                        !.reconciled = t] \in WorkerLease
<1>1. [row EXCEPT !.released = t, !.reconciled = t] \in WorkerLease
  BY DEF WorkerLease
<1>2. PICK v \in Nat \cup {None} : v = IF row.quarantined = None THEN t ELSE row.quarantined
  BY DEF WorkerLease
<1>3. [row EXCEPT !.quarantined = v, !.reconciled = t] \in WorkerLease
  BY DEF WorkerLease
<1> QED
  BY <1>1, <1>2, <1>3

(* So does a reconciliation, released or quarantined. *)
LEMMA ReconcileStaleTypeOK ==
  ASSUME TypeOK, NEW l \in LeaseIds, NEW t \in Nat, NEW obs \in Observations,
         ReconcileStale(l, t, obs)
  PROVE  TypeOK'
<1>1. leases[l] \in WorkerLease
  BY ActiveRow DEF ReconcileStale, Reconcilable, IsActive
<1>2. [leases[l] EXCEPT !.released = t, !.reconciled = t] \in WorkerLease
  BY <1>1, ReconciledRow
<1>3. [leases[l] EXCEPT
         !.quarantined = IF leases[l].quarantined = None THEN t ELSE @,
         !.reconciled = t] \in WorkerLease
  BY <1>1, ReconciledRow
<1> QED
  BY <1>2, <1>3 DEF TypeOK, ReconcileStale

(* A new reservation is a row of the table. *)
LEMMA AcquireReservationTypeOK ==
  ASSUME TypeOK, NEW o \in Owners, NEW terms \in ProvisionTerms,
         NEW r \in ReservationIds, NEW t \in Nat, AcquireReservation(o, terms, r, t)
  PROVE  TypeOK'
  BY DEF TypeOK, AcquireReservation, Reservation, ReservationStates

(* A transition keeps the reservation a row. *)
LEMMA TransitionReservationTypeOK ==
  ASSUME TypeOK, NEW r \in ReservationIds, NEW target \in ReservationStates,
         NEW t \in Nat, NEW w \in AdapterWorkers(target),
         TransitionReservation(r, target, w, t)
  PROVE  TypeOK'
<1>1. w \in Workers \cup {None}
  BY DEF AdapterWorkers, ReservationStates
<1>2. reservations[r] \in Reservation
  BY DEF TypeOK, TransitionReservation, MayTransition
<1>3. [reservations[r] EXCEPT !.state = target, !.worker = w, !.updated = t]
        \in Reservation
  BY <1>1, <1>2 DEF Reservation
<1> QED
  BY <1>3 DEF TypeOK, TransitionReservation, MayTransition

(* Every step of the store keeps its rows well formed. *)
LEMMA NextTypeOK == TypeOK /\ [Next]_vars => TypeOK'
<1> SUFFICES ASSUME TypeOK, [Next]_vars PROVE TypeOK'
  OBVIOUS
<1>1. clock \in Nat /\ 0..clock \subseteq Nat
  BY DEF TypeOK
<1>2. CASE Tick
  BY <1>2 DEF Tick, TypeOK
<1>3. CASE \E o \in Owners, req \in Requests, id \in LeaseIds, t \in 0..clock :
             \E w \in req.workers : TryAcquire(o, req, w, id, t)
  BY <1>1, <1>3, TryAcquireTypeOK
<1>4. CASE \E l \in LeaseIds, t \in 0..clock :
             \/ Heartbeat(l, t)
             \/ Release(l, t)
             \/ \E obs \in Observations : ReconcileStale(l, t, obs)
  BY <1>1, <1>4, HeartbeatTypeOK, ReleaseTypeOK, ReconcileStaleTypeOK
<1>5. CASE \E l \in LeaseIds : HolderStops(l)
  BY <1>5 DEF HolderStops, TypeOK
<1>6. CASE \E o \in Owners, terms \in ProvisionTerms, r \in ReservationIds, t \in 0..clock :
             AcquireReservation(o, terms, r, t)
  BY <1>1, <1>6, AcquireReservationTypeOK
<1>7. CASE \E r \in ReservationIds, target \in ReservationStates, t \in 0..clock :
             \E w \in AdapterWorkers(target) : TransitionReservation(r, target, w, t)
  BY <1>1, <1>7, TransitionReservationTypeOK
<1>8. CASE UNCHANGED vars
  BY <1>8 DEF TypeOK, vars
<1> QED
  BY <1>2, <1>3, <1>4, <1>5, <1>6, <1>7, <1>8 DEF Next

(* The two tables keep their column types through every transaction. *)
THEOREM TypeCorrect == Spec => []TypeOK
<1> QED
  BY InitTypeOK, NextTypeOK, PTL DEF Spec

-------------------------------------------------------------------------------
(* Exclusion *)

(* The rows the store may start with are in order. *)
LEMMA InitLeaseInv == Init => LeaseInv
<1> SUFFICES ASSUME Init PROVE LeaseInv
  OBVIOUS
<1>1. TypeOK
  BY InitTypeOK
<1>2. ASSUME NEW l \in LeaseIds, leases[l] # None
      PROVE  /\ leases[l].hotspot = None
             /\ leases[l].intent = "READ_ONLY" => leases[l].scope = {}
             /\ leases[l].expires # None =>
                  leases[l].expires = leases[l].heartbeat + leases[l].ttl
  <2>1. PICK a \in Owners \X Requests \X LegacyWorkers \X BOOLEAN :
          leases[l] = LegacyLease(a[1], a[2], a[3], a[4])
    BY <1>2 DEF Init, LegacyLeases
  <2>2. a[2] \in Requests /\ WorkerLeaseRequest(a[2])
    BY RequestsAssumption
  <2> QED
    BY <2>1, <2>2 DEF LegacyLease, WorkerLeaseRequest, RequestFields
<1>3. LeaseExclusion
  BY DEF Init, LeaseExclusion
<1>4. HotspotExclusion /\ FenceResolved /\ ReadersWriteNothing /\ ExpiryFollowsHeartbeat
  BY <1>2 DEF HotspotExclusion, FenceResolved, ReadersWriteNothing,
              ExpiryFollowsHeartbeat, ActiveMutation, Active, IsActive
<1>5. HeldWithinExpiry /\ EndedAfterExpiry
  BY DEF Init, HeldWithinExpiry, EndedAfterExpiry
<1> QED
  BY <1>1, <1>3, <1>4, <1>5 DEF LeaseInv

(* Granting a lease: every early return of try_acquire_result is needed. *)
LEMMA TryAcquireLeaseInv ==
  ASSUME LeaseInv, NEW o \in Owners, NEW req \in Requests, NEW id \in LeaseIds,
         NEW t \in Nat, NEW w \in req.workers, TryAcquire(o, req, w, id, t)
  PROVE  LeaseInv'
<1> DEFINE row == NewLease(o, req, w, t)
<1>1. TypeOK /\ TypeOK'
  BY TryAcquireTypeOK DEF LeaseInv
<1>2. AcquireVerdict(o, req, w, id) = "CREATED"
  BY DEF TryAcquire
<1>3. /\ ~(req.intent = "MUTATION" /\ RequestHotspot(req) = None)
      /\ LeasesOf(o) = {}
      /\ WorkerFree(w)
      /\ ~(req.intent = "MUTATION" /\ LegacyMutationActive)
      /\ ~(req.intent = "MUTATION" /\ ScopeTaken(req))
      /\ leases[id] = None
  BY <1>2 DEF AcquireVerdict
<1>4. /\ leases' = [leases EXCEPT ![id] = row]
      /\ leases \in [LeaseIds -> WorkerLease \cup {None}]
      /\ clock' = clock
  BY <1>1 DEF TryAcquire, TypeOK
<1>5. WorkerLeaseRequest(req) /\ w \in Workers
  BY RequestsAssumption DEF WorkerLeaseRequest, RequestFields
<1>6. /\ row.worker = w /\ row.owner = o /\ row.intent = req.intent
      /\ row.worktree = req.worktree /\ row.scope = req.scope
      /\ row.hotspot = RequestHotspot(req) /\ row.expires = t + req.ttl
      /\ row.heartbeat = t /\ row.ttl = req.ttl
      /\ row.released = None /\ row.quarantined = None
  BY DEF NewLease
<1>7. row # None
  BY <1>5, NewLeaseType, NullAssumption
<1>8. Active' = Active \cup {id} /\ id \notin Active
  BY <1>3, <1>4, <1>6, <1>7 DEF Active, IsActive
<1>9. \A l \in Active : leases'[l] = leases[l]
  BY <1>4, <1>8 DEF Active
<1>10. leases'[id] = row
  BY <1>4
<1>11. LeaseExclusion'
  <2>1. \A l \in Active : leases[l].worker # w /\ leases[l].owner # o
    BY <1>3 DEF WorkerFree, LeasesOf
  <2> QED
    BY <2>1, <1>6, <1>8, <1>9, <1>10 DEF LeaseInv, LeaseExclusion
<1>12. FenceResolved' /\ ReadersWriteNothing' /\ ExpiryFollowsHeartbeat'
  BY <1>4, <1>5, <1>6, <1>10
  DEF LeaseInv, FenceResolved, ReadersWriteNothing, ExpiryFollowsHeartbeat,
      RequestHotspot, WorkerLeaseRequest
<1>13. HotspotExclusion'
  <2>1. CASE req.intent = "READ_ONLY"
    <3>1. ActiveMutation' = ActiveMutation
      BY <2>1, <1>6, <1>8, <1>9, <1>10 DEF ActiveMutation
    <3> QED
      BY <3>1, <1>9 DEF LeaseInv, HotspotExclusion, ActiveMutation
  <2>2. CASE req.intent = "MUTATION"
    <3>1. ActiveMutation' = ActiveMutation \cup {id}
      BY <2>2, <1>6, <1>8, <1>9, <1>10 DEF ActiveMutation
    <3>2. RequestHotspot(req) # None /\ RequestHotspot(req) = HotspotOf[req.worktree]
      BY <2>2, <1>3 DEF RequestHotspot
    <3>3. ASSUME NEW l \in ActiveMutation
          PROVE  /\ leases[l].hotspot # None
                 /\ leases[l].hotspot = HotspotOf[leases[l].worktree]
                 /\ HotspotOf[leases[l].worktree] = HotspotOf[req.worktree] =>
                      leases[l].scope \cap req.scope = {}
      <4>1. leases[l].hotspot # None
        BY <2>2, <1>3 DEF LegacyMutationActive
      <4>2. leases[l].hotspot = HotspotOf[leases[l].worktree]
        BY <4>1 DEF LeaseInv, FenceResolved, ActiveMutation, Active, IsActive
      <4>3. leases[l].hotspot = RequestHotspot(req) => req.scope \cap leases[l].scope = {}
        BY <2>2, <1>3 DEF ScopeTaken, WriteSetsOverlap
      <4> QED
        BY <4>1, <4>2, <4>3, <3>2
    <3>4. id \notin ActiveMutation /\ \A l \in ActiveMutation : leases'[l] = leases[l]
      BY <1>8, <1>9 DEF ActiveMutation
    <3> QED
      BY <3>1, <3>2, <3>3, <3>4, <1>6, <1>10 DEF LeaseInv, HotspotExclusion
  <2> QED
    BY <2>1, <2>2, <1>5 DEF WorkerLeaseRequest, RequestFields, Intents
<1>14. HeldWithinExpiry' /\ EndedAfterExpiry'
  <2>1. PICK told \in {None, t + req.ttl} : held' = [held EXCEPT ![id] = told]
    BY DEF TryAcquire
  <2>2. t + req.ttl \in Nat
    BY <1>5 DEF WorkerLeaseRequest, RequestFields
  <2>3. held \in [LeaseIds -> Nat \cup {None}]
    BY <1>1 DEF TypeOK
  <2>4. t + req.ttl # None
    BY <2>2, ConstantsAssumption
  <2> QED
    BY <2>1, <2>2, <2>3, <2>4, <1>4, <1>6, <1>7, <1>10
    DEF LeaseInv, HeldWithinExpiry, EndedAfterExpiry
<1> QED
  BY <1>1, <1>11, <1>12, <1>13, <1>14 DEF LeaseInv

(***************************************************************************)
(* An operation on one existing row that keeps what it is a lease of can    *)
(* only shrink the set of active leases, so it preserves every exclusion.   *)
(***************************************************************************)
SameGrant(old, new) ==
  /\ new.worker = old.worker /\ new.owner = old.owner
  /\ new.intent = old.intent /\ new.worktree = old.worktree
  /\ new.scope = old.scope /\ new.hotspot = old.hotspot
  /\ old.released # None => new.released # None
  /\ new.expires # None => new.expires = new.heartbeat + new.ttl

(* A step that rewrites one row and keeps its grant keeps every exclusion. *)
LEMMA RowUpdate ==
  ASSUME LeaseInv, NEW l \in LeaseIds, leases[l] # None,
         leases' = [leases EXCEPT ![l] = leases'[l]], leases'[l] # None,
         SameGrant(leases[l], leases'[l])
  PROVE  LeaseExclusion' /\ HotspotExclusion' /\ FenceResolved'
         /\ ReadersWriteNothing' /\ ExpiryFollowsHeartbeat'
<1>1. \A k \in LeaseIds : k # l => leases'[k] = leases[k]
  BY DEF LeaseInv, TypeOK
<1>2. Active' \subseteq Active
  BY <1>1 DEF Active, IsActive, SameGrant
<1>3. \A k \in Active' : SameGrant(leases[k], leases'[k])
  BY <1>1 DEF Active, IsActive, SameGrant, LeaseInv, ExpiryFollowsHeartbeat
<1>4. LeaseExclusion'
  BY <1>2, <1>3 DEF LeaseInv, LeaseExclusion, SameGrant
<1>5. ActiveMutation' \subseteq ActiveMutation
  BY <1>2, <1>3 DEF ActiveMutation, SameGrant
<1>6. HotspotExclusion'
  BY <1>5, <1>3 DEF LeaseInv, HotspotExclusion, SameGrant, ActiveMutation
<1>7. FenceResolved' /\ ReadersWriteNothing' /\ ExpiryFollowsHeartbeat'
  BY <1>1 DEF LeaseInv, FenceResolved, ReadersWriteNothing, ExpiryFollowsHeartbeat, SameGrant
<1> QED
  BY <1>4, <1>6, <1>7

(* A heartbeat only moves the expiry forward from its own time. *)
LEMMA HeartbeatLeaseInv ==
  ASSUME LeaseInv, NEW l \in LeaseIds, NEW t \in Nat, Heartbeat(l, t)
  PROVE  LeaseInv'
<1>1. TypeOK' /\ TypeOK
  BY HeartbeatTypeOK DEF LeaseInv
<1>2. leases[l] \in WorkerLease /\ leases[l] # None
  BY <1>1, ActiveRow DEF Heartbeat, IsActive
<1>3. t + leases[l].ttl \in Nat /\ t + leases[l].ttl >= t
  BY <1>2 DEF WorkerLease
<1> DEFINE row == [leases[l] EXCEPT !.heartbeat = t, !.expires = t + leases[l].ttl]
<1>4. leases' = [leases EXCEPT ![l] = row] /\ leases'[l] = row
  BY <1>1 DEF Heartbeat, TypeOK
<1>5. row # None /\ row \in WorkerLease
  <2>1. row \in WorkerLease
    BY <1>2, <1>3 DEF WorkerLease
  <2> QED  BY <2>1, NullAssumption
<1>6. SameGrant(leases[l], row) /\ row.expires = t + leases[l].ttl
      /\ row.released = None /\ row.quarantined = None
  BY <1>2 DEF SameGrant, WorkerLease, Heartbeat, IsActive
<1>7. LeaseExclusion' /\ HotspotExclusion' /\ FenceResolved'
      /\ ReadersWriteNothing' /\ ExpiryFollowsHeartbeat'
  BY <1>2, <1>4, <1>5, <1>6, RowUpdate
<1>8. PICK told \in {held[l], t + leases[l].ttl} : held' = [held EXCEPT ![l] = told]
  BY DEF Heartbeat
<1>9. held[l] # None => held[l] <= t + leases[l].ttl
  <2>1. leases[l].expires = leases[l].heartbeat + leases[l].ttl /\ t > leases[l].heartbeat
    BY <1>2 DEF LeaseInv, ExpiryFollowsHeartbeat, Heartbeat
  <2>2. held[l] # None => held[l] \in Nat /\ held[l] <= leases[l].expires
    BY <1>1 DEF LeaseInv, HeldWithinExpiry, TypeOK
  <2> QED
    BY <2>1, <2>2, <1>2 DEF WorkerLease
<1>10. \A k \in LeaseIds : k # l => leases'[k] = leases[k] /\ held'[k] = held[k]
  BY <1>1, <1>4, <1>8 DEF TypeOK
<1>11. held'[l] = told /\ clock' = clock
  BY <1>1, <1>8 DEF TypeOK, Heartbeat
<1>12. t + leases[l].ttl # None
  BY <1>3, ConstantsAssumption
<1>13. HeldWithinExpiry'
  <2>1. told # None => /\ leases'[l] # None /\ leases'[l].expires # None
                       /\ told <= leases'[l].expires
    <3>1. leases'[l] # None /\ leases'[l].expires = t + leases[l].ttl
      BY <1>4, <1>5, <1>6
    <3>2. told # None => told <= t + leases[l].ttl
      <4>1. CASE told = held[l]
        BY <4>1, <1>9
      <4>2. CASE told = t + leases[l].ttl
        BY <4>2, <1>3
      <4> QED
        BY <4>1, <4>2
    <3> QED
      BY <3>1, <3>2, <1>12
  <2> QED
    BY <2>1, <1>10, <1>11 DEF LeaseInv, HeldWithinExpiry
<1>14. EndedAfterExpiry'
  BY <1>4, <1>6, <1>10, <1>11 DEF LeaseInv, EndedAfterExpiry
<1> QED
  BY <1>1, <1>7, <1>13, <1>14 DEF LeaseInv

(* A release ends the holder's use and the row together. *)
LEMMA ReleaseLeaseInv ==
  ASSUME LeaseInv, NEW l \in LeaseIds, NEW t \in Nat, Release(l, t)
  PROVE  LeaseInv'
<1>1. TypeOK' /\ TypeOK
  BY ReleaseTypeOK DEF LeaseInv
<1>2. leases[l] \in WorkerLease /\ leases[l] # None
  BY <1>1, ActiveRow DEF Release, IsActive
<1> DEFINE row == [leases[l] EXCEPT !.released = t]
<1>3. leases' = [leases EXCEPT ![l] = row] /\ leases'[l] = row
  BY <1>1 DEF Release, TypeOK
<1>4. row # None /\ row \in WorkerLease
  BY <1>2, NullAssumption DEF WorkerLease
<1>5. SameGrant(leases[l], row)
  BY <1>2, ConstantsAssumption
  DEF SameGrant, WorkerLease, LeaseInv, ExpiryFollowsHeartbeat
<1>6. LeaseExclusion' /\ HotspotExclusion' /\ FenceResolved'
      /\ ReadersWriteNothing' /\ ExpiryFollowsHeartbeat'
  BY <1>2, <1>3, <1>4, <1>5, RowUpdate
<1>7. HeldWithinExpiry' /\ EndedAfterExpiry'
  BY <1>1, <1>3
  DEF LeaseInv, HeldWithinExpiry, EndedAfterExpiry, TypeOK, Release
<1> QED
  BY <1>1, <1>6, <1>7 DEF LeaseInv

(* A reconciliation touches only rows past their expiry. *)
LEMMA ReconcileStaleLeaseInv ==
  ASSUME LeaseInv, NEW l \in LeaseIds, NEW t \in Nat, NEW obs \in Observations,
         ReconcileStale(l, t, obs)
  PROVE  LeaseInv'
<1>1. TypeOK' /\ TypeOK
  BY ReconcileStaleTypeOK DEF LeaseInv
<1>2. leases[l] \in WorkerLease /\ leases[l] # None
  BY <1>1, ActiveRow DEF ReconcileStale, Reconcilable, IsActive
<1> DEFINE gone == [leases[l] EXCEPT !.released = t, !.reconciled = t]
           kept == [leases[l] EXCEPT
                      !.quarantined = IF leases[l].quarantined = None THEN t ELSE @,
                      !.reconciled = t]
<1>3. PICK row \in {gone, kept} : leases' = [leases EXCEPT ![l] = row] /\ leases'[l] = row
  BY <1>1 DEF ReconcileStale, TypeOK
<1>4. row # None /\ row \in WorkerLease
  <2>1. gone \in WorkerLease
    BY <1>2 DEF WorkerLease
  <2>2. kept \in WorkerLease
    BY <1>2 DEF WorkerLease
  <2> QED
    BY <2>1, <2>2, NullAssumption
<1>5. SameGrant(leases[l], row) /\ row.expires = leases[l].expires
  BY <1>2, ConstantsAssumption
  DEF SameGrant, WorkerLease, LeaseInv, ExpiryFollowsHeartbeat
<1>6. LeaseExclusion' /\ HotspotExclusion' /\ FenceResolved'
      /\ ReadersWriteNothing' /\ ExpiryFollowsHeartbeat'
  BY <1>2, <1>3, <1>4, <1>5, RowUpdate
<1>7. HeldWithinExpiry'
  BY <1>1, <1>3, <1>4, <1>5
  DEF LeaseInv, HeldWithinExpiry, TypeOK, ReconcileStale
<1>8. held[l] # None => leases[l].expires <= clock
  <2>1. CASE leases[l].quarantined # None
    BY <2>1, <1>2 DEF LeaseInv, EndedAfterExpiry
  <2>2. CASE leases[l].quarantined = None /\ held[l] # None
    <3>1. leases[l].expires # None
      BY <2>2 DEF LeaseInv, HeldWithinExpiry
    <3>2. HealthKind(leases[l], t) = IF t >= leases[l].expires THEN "STALE" ELSE "ACTIVE"
      BY <2>2, <3>1 DEF HealthKind
    <3>3. t >= leases[l].expires /\ t <= clock
      BY <3>2 DEF ReconcileStale, Reconcilable
    <3> QED
      BY <3>1, <3>3, <1>1, <1>2 DEF TypeOK, WorkerLease
  <2> QED
    BY <2>1, <2>2
<1>9. EndedAfterExpiry'
  BY <1>1, <1>3, <1>5, <1>8
  DEF LeaseInv, EndedAfterExpiry, TypeOK, ReconcileStale
<1> QED
  BY <1>1, <1>6, <1>7, <1>9 DEF LeaseInv

(* Every step of the store preserves the exclusions and their strengthening. *)
LEMMA NextLeaseInv == LeaseInv /\ [Next]_vars => LeaseInv'
<1> SUFFICES ASSUME LeaseInv, [Next]_vars PROVE LeaseInv'
  OBVIOUS
<1>1. TypeOK /\ TypeOK' /\ 0..clock \subseteq Nat
  BY NextTypeOK DEF LeaseInv, TypeOK
<1>2. ASSUME UNCHANGED leases
      PROVE  LeaseExclusion' /\ HotspotExclusion' /\ FenceResolved'
             /\ ReadersWriteNothing' /\ ExpiryFollowsHeartbeat'
  BY <1>2
  DEF LeaseInv, LeaseExclusion, HotspotExclusion, FenceResolved,
      ReadersWriteNothing, ExpiryFollowsHeartbeat, ActiveMutation, Active, IsActive
<1>3. ASSUME UNCHANGED <<clock, leases, held>>
      PROVE  HeldWithinExpiry' /\ EndedAfterExpiry'
  BY <1>3 DEF LeaseInv, HeldWithinExpiry, EndedAfterExpiry
<1>4. CASE Tick
  <2>1. HeldWithinExpiry' /\ EndedAfterExpiry'
    <3>1. \A l \in LeaseIds : held[l] # None => leases[l].expires \in Nat
      BY <1>1, NullAssumption DEF LeaseInv, HeldWithinExpiry, TypeOK, WorkerLease
    <3> QED
      BY <1>1, <1>4, <3>1 DEF Tick, LeaseInv, HeldWithinExpiry, EndedAfterExpiry, TypeOK
  <2> QED
    BY <1>1, <1>2, <1>4, <2>1 DEF Tick, LeaseInv
<1>5. CASE \E o \in Owners, req \in Requests, id \in LeaseIds, t \in 0..clock :
             \E w \in req.workers : TryAcquire(o, req, w, id, t)
  BY <1>1, <1>5, TryAcquireLeaseInv
<1>6. CASE \E l \in LeaseIds, t \in 0..clock :
             \/ Heartbeat(l, t)
             \/ Release(l, t)
             \/ \E obs \in Observations : ReconcileStale(l, t, obs)
  BY <1>1, <1>6, HeartbeatLeaseInv, ReleaseLeaseInv, ReconcileStaleLeaseInv
<1>7. CASE \E l \in LeaseIds : HolderStops(l)
  <2>1. HeldWithinExpiry' /\ EndedAfterExpiry'
    BY <1>1, <1>7
    DEF HolderStops, LeaseInv, HeldWithinExpiry, EndedAfterExpiry, TypeOK
  <2> QED
    BY <1>1, <1>2, <1>7, <2>1 DEF HolderStops, LeaseInv
<1>8. CASE \E o \in Owners, terms \in ProvisionTerms, r \in ReservationIds, t \in 0..clock :
             AcquireReservation(o, terms, r, t)
  BY <1>1, <1>2, <1>3, <1>8 DEF AcquireReservation, LeaseInv
<1>9. CASE \E r \in ReservationIds, target \in ReservationStates, t \in 0..clock :
             \E w \in AdapterWorkers(target) : TransitionReservation(r, target, w, t)
  BY <1>1, <1>2, <1>3, <1>9 DEF TransitionReservation, MayTransition, LeaseInv
<1>10. CASE UNCHANGED vars
  BY <1>1, <1>2, <1>3, <1>10 DEF vars, LeaseInv
<1> QED
  BY <1>4, <1>5, <1>6, <1>7, <1>8, <1>9, <1>10 DEF Next

(* Every step of the lease and reservation transactions preserves LeaseInv. *)
THEOREM LeaseInvariant == Spec => []LeaseInv
<1> QED
  BY InitLeaseInv, NextLeaseInv, PTL DEF Spec

(* One lease per worker and per owner, always. *)
THEOREM LeasesAreExclusive == Spec => []LeaseExclusion
<1>1. LeaseInv => LeaseExclusion
  BY DEF LeaseInv
<1> QED
  BY <1>1, LeaseInvariant, PTL

(* No two live mutation leases cover one path of one canonical checkout. *)
THEOREM HotspotsAreExclusive == Spec => []HotspotExclusion
<1>1. LeaseInv => HotspotExclusion
  BY DEF LeaseInv
<1> QED
  BY <1>1, LeaseInvariant, PTL

(* A row whose holder is still inside its expiry has not been ended. *)
LEMMA LeaseInvStands == LeaseInv => HeldLeaseStands
<1> SUFFICES ASSUME LeaseInv, NEW l \in LeaseIds, HolderUsing(l)
             PROVE  IsActive(l) /\ leases[l].quarantined = None
  BY DEF HeldLeaseStands
<1>1. /\ held[l] # None /\ clock < held[l] /\ leases[l] # None
      /\ leases[l].expires # None /\ held[l] <= leases[l].expires
  BY DEF LeaseInv, HeldWithinExpiry, HolderUsing
<1>2. clock \in Nat /\ held[l] \in Nat /\ leases[l].expires \in Nat
  BY <1>1 DEF LeaseInv, TypeOK, WorkerLease
<1>3. ~(leases[l].expires <= clock)
  BY <1>1, <1>2
<1> QED
  BY <1>1, <1>3 DEF LeaseInv, EndedAfterExpiry, IsActive

(* reconcile_stale never takes a lease from a holder before the expiry it was told. *)
THEOREM HeldLeasesStand == Spec => []HeldLeaseStands
<1> QED
  BY LeaseInvStands, LeaseInvariant, PTL

(* Two holders inside their leases never share a worker or a path. *)
THEOREM HoldersAreExclusive == Spec => []HoldersNeverCollide
<1>1. LeaseInv => HoldersNeverCollide
  <2> SUFFICES ASSUME LeaseInv, NEW k \in LeaseIds, NEW l \in LeaseIds, k # l,
                      HolderUsing(k), HolderUsing(l)
               PROVE  /\ leases[k].worker # leases[l].worker
                      /\ ( /\ leases[k].hotspot # None
                           /\ HotspotOf[leases[k].worktree] =
                                HotspotOf[leases[l].worktree] ) =>
                            leases[k].scope \cap leases[l].scope = {}
    BY DEF HoldersNeverCollide
  <2>1. k \in Active /\ l \in Active
    BY LeaseInvStands DEF HeldLeaseStands, Active
  <2>2. leases[k].worker # leases[l].worker
    BY <2>1 DEF LeaseInv, LeaseExclusion
  <2>3. leases[k] \in WorkerLease /\ leases[l] \in WorkerLease
    BY <2>1, ActiveRow DEF LeaseInv, Active, IsActive
  <2>4. CASE leases[k].intent = "READ_ONLY" \/ leases[l].intent = "READ_ONLY"
    BY <2>1, <2>2, <2>3, <2>4 DEF LeaseInv, ReadersWriteNothing, Active, IsActive, WorkerLease
  <2>5. CASE leases[k].intent = "MUTATION" /\ leases[l].intent = "MUTATION"
    BY <2>1, <2>2, <2>5 DEF LeaseInv, HotspotExclusion, ActiveMutation
  <2> QED
    BY <2>3, <2>4, <2>5 DEF WorkerLease, Intents
<1> QED
  BY <1>1, LeaseInvariant, PTL

-------------------------------------------------------------------------------
(* Reservations *)

(* Heartbeat, release and reconciliation rewrite one row and keep its grant. *)
RowOperation(l, t) ==
  Heartbeat(l, t) \/ Release(l, t) \/ \E obs \in Observations : ReconcileStale(l, t, obs)

(* What the three of them have in common. *)
LEMMA RowOperationKeepsGrant ==
  ASSUME LeaseInv, NEW l \in LeaseIds, NEW t \in Nat, RowOperation(l, t)
  PROVE  /\ IsActive(l)
         /\ leases' = [leases EXCEPT ![l] = leases'[l]]
         /\ leases'[l] \in WorkerLease
         /\ SameGrant(leases[l], leases'[l])
         /\ UNCHANGED <<clock, reservations>>
<1>1. TypeOK' /\ TypeOK
  BY HeartbeatTypeOK, ReleaseTypeOK, ReconcileStaleTypeOK DEF LeaseInv, RowOperation
<1>2. IsActive(l) /\ leases[l] \in WorkerLease
  BY <1>1, ActiveRow
  DEF RowOperation, Heartbeat, Release, ReconcileStale, Reconcilable, IsActive
<1>3. CASE Heartbeat(l, t)
  <2> DEFINE row == [leases[l] EXCEPT !.heartbeat = t, !.expires = t + leases[l].ttl]
  <2>1. leases' = [leases EXCEPT ![l] = row] /\ leases'[l] = row
    BY <1>1, <1>3 DEF Heartbeat, TypeOK
  <2>2. SameGrant(leases[l], row) /\ row \in WorkerLease
    <3>1. t + leases[l].ttl \in Nat
      BY <1>2 DEF WorkerLease
    <3> QED
      BY <1>2, <3>1 DEF SameGrant, WorkerLease, IsActive
  <2> QED
    BY <1>2, <1>3, <2>1, <2>2 DEF Heartbeat
<1>4. CASE Release(l, t)
  <2> DEFINE row == [leases[l] EXCEPT !.released = t]
  <2>1. leases' = [leases EXCEPT ![l] = row] /\ leases'[l] = row
    BY <1>1, <1>4 DEF Release, TypeOK
  <2>2. SameGrant(leases[l], row) /\ row \in WorkerLease
    BY <1>2, ConstantsAssumption
    DEF SameGrant, WorkerLease, LeaseInv, ExpiryFollowsHeartbeat, IsActive
  <2> QED
    BY <1>2, <1>4, <2>1, <2>2 DEF Release
<1>5. CASE \E obs \in Observations : ReconcileStale(l, t, obs)
  <2> DEFINE gone == [leases[l] EXCEPT !.released = t, !.reconciled = t]
             kept == [leases[l] EXCEPT
                        !.quarantined = IF leases[l].quarantined = None THEN t ELSE @,
                        !.reconciled = t]
  <2>1. PICK row \in {gone, kept} : leases' = [leases EXCEPT ![l] = row] /\ leases'[l] = row
    BY <1>1, <1>5 DEF ReconcileStale, TypeOK
  <2>2. SameGrant(leases[l], row)
    BY <1>2, ConstantsAssumption
    DEF SameGrant, WorkerLease, LeaseInv, ExpiryFollowsHeartbeat, IsActive
  <2>3. leases'[l] \in WorkerLease
    <3>1. gone \in WorkerLease
      BY <1>2 DEF WorkerLease
    <3>2. kept \in WorkerLease
      BY <1>2 DEF WorkerLease
    <3> QED
      BY <2>1, <3>1, <3>2
  <2> QED
    BY <1>2, <1>5, <2>1, <2>2, <2>3 DEF ReconcileStale
<1> QED
  BY <1>3, <1>4, <1>5 DEF RowOperation

(* The reservations of a migrated database are ACTIVE and bound to no worker. *)
LEMMA InitCapacityInv == Init => CapacityInv
<1> SUFFICES ASSUME Init PROVE CapacityInv
  OBVIOUS
<1>1. ASSUME NEW r \in Consuming
      PROVE  reservations[r].state = "ACTIVE" /\ reservations[r].worker = None
  BY DEF Init, Consuming, IsConsuming, LegacyReservations
<1> QED
  BY <1>1, InitTypeOK DEF Init, CapacityInv, CapacityBound, HandoffExclusion

(* Lease steps leave the count of reservations alone. *)
LEMMA LeaseStepKeepsCapacity ==
  ASSUME CapacityInv, TypeOK', UNCHANGED reservations
  PROVE  IsFiniteSet(Consuming)' /\ CapacityBound'
  BY DEF CapacityInv, CapacityBound, Consuming, IsConsuming

(* The reservation fence keeps a foreign owner off a published worker. *)
LEMMA TryAcquireCapacityInv ==
  ASSUME CapacityInv, LeaseInv, NEW o \in Owners, NEW req \in Requests,
         NEW id \in LeaseIds, NEW t \in Nat, NEW w \in req.workers,
         TryAcquire(o, req, w, id, t)
  PROVE  CapacityInv'
<1>1. TypeOK' /\ UNCHANGED reservations
  BY TryAcquireTypeOK DEF CapacityInv, TryAcquire
<1>2. AcquireVerdict(o, req, w, id) = "CREATED" /\ ~FencedFrom(w, o)
  BY DEF TryAcquire, AcquireVerdict
<1>3. leases' = [leases EXCEPT ![id] = NewLease(o, req, w, t)]
      /\ leases \in [LeaseIds -> WorkerLease \cup {None}]
  BY DEF TryAcquire, CapacityInv, TypeOK
<1>4. \A l \in Active' : l = id \/ (l \in Active /\ leases'[l] = leases[l])
  BY <1>3 DEF Active, IsActive
<1>5. leases'[id].worker = w /\ leases'[id].owner = o
  BY <1>3 DEF NewLease
<1>6. HandoffExclusion'
  BY <1>1, <1>2, <1>4, <1>5
  DEF CapacityInv, HandoffExclusion, Consuming, IsConsuming, FencedFrom
<1> QED
  BY <1>1, <1>6, LeaseStepKeepsCapacity DEF CapacityInv

(* Row operations grant nothing, so no foreign lease appears. *)
LEMMA RowOperationCapacityInv ==
  ASSUME CapacityInv, LeaseInv, NEW l \in LeaseIds, NEW t \in Nat, RowOperation(l, t)
  PROVE  CapacityInv'
<1>1. TypeOK'
  BY HeartbeatTypeOK, ReleaseTypeOK, ReconcileStaleTypeOK DEF LeaseInv, RowOperation
<1>2. /\ leases' = [leases EXCEPT ![l] = leases'[l]]
      /\ SameGrant(leases[l], leases'[l]) /\ IsActive(l)
      /\ UNCHANGED reservations
  BY RowOperationKeepsGrant
<1>3. \A k \in Active' : /\ k \in Active
                         /\ leases'[k].worker = leases[k].worker
                         /\ leases'[k].owner = leases[k].owner
  BY <1>1, <1>2 DEF Active, IsActive, SameGrant, TypeOK
<1>4. HandoffExclusion'
  BY <1>2, <1>3 DEF CapacityInv, HandoffExclusion, Consuming, IsConsuming
<1> QED
  BY <1>1, <1>2, <1>4, LeaseStepKeepsCapacity DEF CapacityInv

(* A new reservation takes one of the free places. *)
LEMMA AcquireReservationCapacityInv ==
  ASSUME CapacityInv, NEW o \in Owners, NEW terms \in ProvisionTerms,
         NEW id \in ReservationIds, NEW t \in Nat, AcquireReservation(o, terms, id, t)
  PROVE  CapacityInv'
<1>1. TypeOK' /\ TypeOK
  BY AcquireReservationTypeOK DEF CapacityInv
<1>2. /\ reservations'[id].state = "PRE_PROVISION" /\ reservations'[id].worker = None
      /\ reservations'[id] # None
      /\ \A r \in ReservationIds : r # id => reservations'[r] = reservations[r]
  <2>1. reservations'[id] = [owner |-> o, terms |-> terms, state |-> "PRE_PROVISION",
                             worker |-> None, updated |-> t]
    BY <1>1 DEF AcquireReservation, TypeOK
  <2>2. reservations'[id] \in Reservation
    BY <2>1 DEF Reservation, ReservationStates
  <2> QED
    BY <2>1, <2>2, <1>1, NullAssumption DEF AcquireReservation, TypeOK
<1>3. Consuming' = Consuming \cup {id} /\ id \notin Consuming
  BY <1>2 DEF Consuming, IsConsuming, AcquireReservation
<1>4. IsFiniteSet(Consuming)' /\ Cardinality(Consuming)' = Cardinality(Consuming) + 1
  BY <1>3, FS_AddElement DEF CapacityInv
<1>5. Cardinality(Consuming) \in Nat
  BY FS_CardinalityType DEF CapacityInv
<1>6. CapacityBound'
  <2>1. Cardinality(Consuming)' <= MaxExtraWorkers
    BY <1>4, <1>5, ConstantsAssumption DEF AcquireReservation
  <2> QED
    BY <2>1, <1>2, <1>3 DEF CapacityInv, CapacityBound, Consuming
<1>7. HandoffExclusion'
  BY <1>2, <1>3
  DEF CapacityInv, HandoffExclusion, AcquireReservation, Active, IsActive, Consuming
<1> QED
  BY <1>1, <1>4, <1>6, <1>7 DEF CapacityInv

(* A transition never revives a reservation and never binds a taken worker. *)
LEMMA TransitionReservationCapacityInv ==
  ASSUME CapacityInv, NEW r \in ReservationIds, NEW target \in ReservationStates,
         NEW t \in Nat, NEW w \in AdapterWorkers(target),
         TransitionReservation(r, target, w, t)
  PROVE  CapacityInv'
<1>1. TypeOK' /\ TypeOK
  BY TransitionReservationTypeOK DEF CapacityInv
<1>2. reservations[r] \in Reservation /\ reservations[r] # None
  BY <1>1 DEF TypeOK, TransitionReservation, MayTransition
<1>3. reservations[r].state # "RELEASED"
  BY DEF TransitionReservation, MayTransition, AllowedTransitions
<1>4. /\ reservations'[r].state = target /\ reservations'[r].worker = w
      /\ reservations'[r].owner = reservations[r].owner
      /\ \A q \in ReservationIds : q # r => reservations'[q] = reservations[q]
  BY <1>1, <1>2 DEF TransitionReservation, MayTransition, TypeOK, Reservation
<1>5. Consuming' \subseteq Consuming /\ r \in Consuming
  BY <1>2, <1>3, <1>4 DEF Consuming, IsConsuming
<1>6. IsFiniteSet(Consuming)' /\ Cardinality(Consuming)' <= Cardinality(Consuming)
  BY <1>5, FS_Subset DEF CapacityInv
<1>7. Cardinality(Consuming) \in Nat /\ Cardinality(Consuming)' \in Nat
  BY <1>6, FS_CardinalityType DEF CapacityInv
<1>8. Cardinality(Consuming)' <= MaxExtraWorkers
  BY <1>6, <1>7, ConstantsAssumption DEF CapacityInv, CapacityBound
<1>9. ASSUME NEW q \in Consuming', q # r
      PROVE  /\ q \in Consuming /\ reservations'[q] = reservations[q]
             /\ r \in Consuming' /\ w # None => reservations[q].worker # w
  BY <1>4, <1>5, <1>9 DEF TransitionReservation, MayTransition, Consuming, IsConsuming
<1>10. CapacityBound'
  BY <1>4, <1>8, <1>9 DEF CapacityInv, CapacityBound
<1>11. HandoffExclusion'
  <2>1. Active' = Active /\ leases' = leases
    BY DEF TransitionReservation, MayTransition, Active, IsActive
  <2>2. target = "PROVISIONED" => NoForeignLease(w, reservations[r].owner)
    BY DEF TransitionReservation, MayTransition
  <2> QED
    BY <1>4, <1>9, <2>1, <2>2 DEF CapacityInv, HandoffExclusion, NoForeignLease
<1> QED
  BY <1>1, <1>6, <1>10, <1>11 DEF CapacityInv

(* CapacityInv is inductive next to LeaseInv. *)
LEMMA NextCapacityInv == CapacityInv /\ LeaseInv /\ [Next]_vars => CapacityInv'
<1> SUFFICES ASSUME CapacityInv, LeaseInv, [Next]_vars PROVE CapacityInv'
  OBVIOUS
<1>1. TypeOK' /\ 0..clock \subseteq Nat
  BY NextTypeOK DEF CapacityInv, TypeOK
<1>2. ASSUME UNCHANGED <<leases, reservations>> PROVE CapacityInv'
  BY <1>1, <1>2
  DEF CapacityInv, CapacityBound, HandoffExclusion, Consuming, IsConsuming, Active, IsActive
<1>3. CASE Tick \/ (\E l \in LeaseIds : HolderStops(l)) \/ UNCHANGED vars
  BY <1>2, <1>3 DEF Tick, HolderStops, vars
<1>4. CASE \E o \in Owners, req \in Requests, id \in LeaseIds, t \in 0..clock :
             \E w \in req.workers : TryAcquire(o, req, w, id, t)
  BY <1>1, <1>4, TryAcquireCapacityInv
<1>5. CASE \E l \in LeaseIds, t \in 0..clock :
             \/ Heartbeat(l, t)
             \/ Release(l, t)
             \/ \E obs \in Observations : ReconcileStale(l, t, obs)
  BY <1>1, <1>5, RowOperationCapacityInv DEF RowOperation
<1>6. CASE \E o \in Owners, terms \in ProvisionTerms, r \in ReservationIds, t \in 0..clock :
             AcquireReservation(o, terms, r, t)
  BY <1>1, <1>6, AcquireReservationCapacityInv
<1>7. CASE \E r \in ReservationIds, target \in ReservationStates, t \in 0..clock :
             \E w \in AdapterWorkers(target) : TransitionReservation(r, target, w, t)
  BY <1>1, <1>7, TransitionReservationCapacityInv
<1> QED
  BY <1>3, <1>4, <1>5, <1>6, <1>7 DEF Next

(* Every step of the store preserves CapacityInv. *)
THEOREM CapacityInvariant == Spec => []CapacityInv
<1> QED
  BY InitCapacityInv, NextCapacityInv, LeaseInvariant, PTL DEF Spec

(* Elastic capacity never exceeds max_extra_workers. *)
THEOREM CapacityIsBounded == Spec => []CapacityBound
<1>1. CapacityInv => CapacityBound
  BY DEF CapacityInv
<1> QED
  BY <1>1, CapacityInvariant, PTL

(* A published elastic worker is leased to the owner it was made for only. *)
THEOREM HandoffIsExclusive == Spec => []HandoffExclusion
<1>1. CapacityInv => HandoffExclusion
  BY DEF CapacityInv
<1> QED
  BY <1>1, CapacityInvariant, PTL

-------------------------------------------------------------------------------
(* The store implements LeaseAuthority *)

(* The worker of an active lease is granted what the lease covers. *)
LEMMA GrantedOfLease ==
  TypeOK /\ LeaseExclusion =>
    \A m \in Active :
      Granted[leases[m].worker] = [owner |-> leases[m].owner, area |-> Area(leases[m])]
<1> SUFFICES ASSUME TypeOK, LeaseExclusion, NEW l \in Active
             PROVE  Granted[leases[l].worker] =
                      [owner |-> leases[l].owner, area |-> Area(leases[l])]
  OBVIOUS
<1>1. leases[l].worker \in Workers
  BY DEF TypeOK, Active, IsActive, WorkerLease
<1>2. (CHOOSE k \in Active : leases[k].worker = leases[l].worker) = l
  BY DEF LeaseExclusion
<1>3. ~WorkerFree(leases[l].worker)
  BY DEF WorkerFree
<1> QED
  BY <1>1, <1>2, <1>3 DEF Granted

(* A worker without an active lease is granted to nobody. *)
LEMMA GrantedOfFree == \A w \in Workers : WorkerFree(w) => Granted[w] = None
  BY DEF Granted

(* What a lease covers are paths of a resolved checkout. *)
LEMMA AreaType ==
  ASSUME NEW row \in WorkerLease
  PROVE  Area(row) \in SUBSET (Hotspots \X Paths)
<1>1. CASE row.intent = "READ_ONLY"
  BY <1>1 DEF Area
<1>2. CASE row.intent = "MUTATION" /\ row.hotspot = None
  BY <1>2 DEF Area
<1>3. CASE row.intent = "MUTATION" /\ row.hotspot # None
  BY <1>3 DEF Area, WorkerLease
<1> QED
  BY <1>1, <1>2, <1>3 DEF WorkerLease, Intents

(* What is granted is well formed, and taken means leased. *)
LEMMA GrantedType ==
  TypeOK /\ LeaseExclusion =>
    /\ Granted \in [Workers -> Authority!Grants \cup {None}]
    /\ \A w \in Workers : Granted[w] # None => \E l \in Active : leases[l].worker = w
<1> SUFFICES ASSUME TypeOK, LeaseExclusion
             PROVE  /\ Granted \in [Workers -> Authority!Grants \cup {None}]
                    /\ \A w \in Workers :
                         Granted[w] # None => \E l \in Active : leases[l].worker = w
  OBVIOUS
<1>1. ASSUME NEW l \in Active
      PROVE  [owner |-> leases[l].owner, area |-> Area(leases[l])] \in Authority!Grants
  <2>1. leases[l] \in WorkerLease
    BY ActiveRow DEF Active, IsActive
  <2>2. Area(leases[l]) \in SUBSET (Hotspots \X Paths) /\ leases[l].owner \in Owners
    BY <2>1, AreaType DEF WorkerLease
  <2> QED
    BY <2>2 DEF Authority!Grants
<1>2. ASSUME NEW w \in Workers
      PROVE  /\ Granted[w] \in Authority!Grants \cup {None}
             /\ Granted[w] # None => \E l \in Active : leases[l].worker = w
  BY <1>1, GrantedOfLease, GrantedOfFree DEF WorkerFree
<1> QED
  BY <1>2 DEF Granted

(* What old binaries left granted is a state the authority may start in. *)
LEMMA InitAuthority == Init => Authority!Init
<1> SUFFICES ASSUME Init PROVE Authority!Init
  OBVIOUS
<1>1. TypeOK /\ LeaseExclusion
  BY InitLeaseInv DEF LeaseInv
<1>2. ASSUME NEW v \in Authority!Taken, NEW w \in Authority!Taken, v # w
      PROVE  Granted[v].owner # Granted[w].owner
  <2>1. PICK k \in Active, l \in Active : leases[k].worker = v /\ leases[l].worker = w
    BY <1>1, GrantedType DEF Authority!Taken
  <2>2. /\ Granted[v] = [owner |-> leases[k].owner, area |-> Area(leases[k])]
        /\ Granted[w] = [owner |-> leases[l].owner, area |-> Area(leases[l])]
    BY <1>1, <2>1, GrantedOfLease
  <2> QED
    BY <1>1, <1>2, <2>1, <2>2 DEF LeaseExclusion
<1> QED
  BY <1>1, <1>2, GrantedType DEF Authority!Init

(* Creating a lease is a grant of an area that no other grant covers. *)
LEMMA TryAcquireGrants ==
  ASSUME LeaseInv, LeaseInv', NEW o \in Owners, NEW req \in Requests,
         NEW id \in LeaseIds, NEW t \in Nat, NEW w \in req.workers,
         TryAcquire(o, req, w, id, t)
  PROVE  Authority!Next
<1> DEFINE row == NewLease(o, req, w, t)
           g == [owner |-> o, area |-> Area(row)]
<1>1. WorkerLeaseRequest(req) /\ w \in Workers
  BY RequestsAssumption DEF WorkerLeaseRequest, RequestFields
<1>2. row \in WorkerLease /\ row # None
  BY <1>1, NewLeaseType, NullAssumption
<1>3. /\ ~(req.intent = "MUTATION" /\ RequestHotspot(req) = None)
      /\ LeasesOf(o) = {}
      /\ WorkerFree(w)
      /\ ~(req.intent = "MUTATION" /\ LegacyMutationActive)
      /\ ~(req.intent = "MUTATION" /\ ScopeTaken(req))
      /\ leases[id] = None
  BY DEF TryAcquire, AcquireVerdict
<1>4. leases' = [leases EXCEPT ![id] = row] /\ leases'[id] = row
  BY DEF TryAcquire, LeaseInv, TypeOK
<1>5. /\ row.worker = w /\ row.owner = o /\ row.intent = req.intent
      /\ row.scope = req.scope /\ row.hotspot = RequestHotspot(req) /\ row.released = None
  BY DEF NewLease
<1>6. Active' = Active \cup {id} /\ \A l \in Active : leases'[l] = leases[l]
  BY <1>2, <1>3, <1>4, <1>5 DEF Active, IsActive
<1>7. Granted[w] = None
  BY <1>1, <1>3, GrantedOfFree
<1>8. g \in Authority!Grants
  BY <1>2, AreaType DEF Authority!Grants
<1>9. ASSUME NEW l \in Active
      PROVE  leases[l].owner # o /\ Area(leases[l]) \cap Area(row) = {}
  <2>1. leases[l].owner # o
    BY <1>3 DEF LeasesOf
  <2>2. leases[l] \in WorkerLease /\ leases[l] # None
    BY ActiveRow DEF LeaseInv, Active, IsActive
  <2>3. CASE req.intent = "READ_ONLY" \/ leases[l].intent = "READ_ONLY"
    BY <2>1, <2>3, <1>5 DEF Area
  <2>4. CASE req.intent = "MUTATION" /\ leases[l].intent = "MUTATION"
    <3>1. l \in ActiveMutation
      BY <2>4 DEF ActiveMutation
    <3>2. leases[l].hotspot # None /\ RequestHotspot(req) # None
      BY <2>4, <3>1, <1>3 DEF LegacyMutationActive
    <3>3. leases[l].hotspot = RequestHotspot(req) => req.scope \cap leases[l].scope = {}
      BY <2>4, <3>1, <1>3 DEF ScopeTaken, WriteSetsOverlap
    <3>4. /\ Area(leases[l]) = {leases[l].hotspot} \X leases[l].scope
          /\ Area(row) = {RequestHotspot(req)} \X req.scope
      BY <2>4, <3>2, <1>5 DEF Area
    <3> QED
      BY <2>1, <3>3, <3>4
  <2> QED
    BY <2>2, <2>3, <2>4, <1>1 DEF WorkerLeaseRequest, RequestFields, WorkerLease, Intents
<1>10. ASSUME NEW v \in Authority!Taken
       PROVE  Granted[v].owner # o /\ Granted[v].area \cap Area(row) = {}
  <2>1. PICK l \in Active : leases[l].worker = v
    BY GrantedType DEF LeaseInv, Authority!Taken
  <2>2. Granted[v] = [owner |-> leases[l].owner, area |-> Area(leases[l])]
    BY <2>1, GrantedOfLease DEF LeaseInv
  <2> QED
    BY <2>2, <1>9
<1>11. Granted' = [Granted EXCEPT ![w] = g]
  <2>1. (\A l \in Active : Granted[leases[l].worker] =
           [owner |-> leases[l].owner, area |-> Area(leases[l])])'
    <3>1. (TypeOK /\ LeaseExclusion)'
      BY DEF LeaseInv
    <3>2. (TypeOK /\ LeaseExclusion =>
             \A m \in Active : Granted[leases[m].worker] =
               [owner |-> leases[m].owner, area |-> Area(leases[m])])'
      BY GrantedOfLease, PTL
    <3> QED
      BY <3>1, <3>2
  <2>2. Area(row)' = Area(row)
    BY DEF Area, Hotspots, NewLease, RequestHotspot
  <2>3. Granted'[w] = g
    BY <2>1, <2>2, <1>4, <1>5, <1>6
  <2>4. ASSUME NEW v \in Workers, v # w PROVE Granted'[v] = Granted[v]
    <3>1. CASE WorkerFree(v)
      <4>1. WorkerFree(v)'
        BY <3>1, <2>4, <1>4, <1>5, <1>6 DEF WorkerFree
      <4> QED
        BY <3>1, <4>1 DEF Granted
    <3>2. CASE ~WorkerFree(v)
      <4>1. PICK l \in Active : leases[l].worker = v
        BY <3>2 DEF WorkerFree
      <4>2. Granted[v] = [owner |-> leases[l].owner, area |-> Area(leases[l])]
        BY <4>1, GrantedOfLease DEF LeaseInv
      <4>3. Granted'[v] = [owner |-> leases[l].owner, area |-> Area(leases[l])]
        BY <2>1, <4>1, <1>6 DEF Area, Hotspots
      <4> QED
        BY <4>2, <4>3
    <3> QED
      BY <3>1, <3>2
  <2>5. Granted = [v \in Workers |-> Granted[v]] /\ Granted' = [v \in Workers |-> Granted'[v]]
    BY DEF Granted
  <2> HIDE DEF g
  <2> QED
    BY <2>3, <2>4, <2>5
<1> QED
  BY <1>1, <1>7, <1>8, <1>10, <1>11 DEF Authority!Next, Authority!Grant

(* An operation on a row frees its worker or is invisible to the authority. *)
LEMMA RowOperationFrees ==
  ASSUME LeaseInv, LeaseInv', NEW l \in LeaseIds, NEW t \in Nat, RowOperation(l, t)
  PROVE  Authority!Next \/ UNCHANGED Granted
<1>1. /\ IsActive(l)
      /\ leases' = [leases EXCEPT ![l] = leases'[l]]
      /\ leases'[l] \in WorkerLease
      /\ SameGrant(leases[l], leases'[l])
  BY RowOperationKeepsGrant
<1>2. leases[l] \in WorkerLease /\ leases'[l] # None /\ leases[l].worker \in Workers
  BY <1>1, ActiveRow, NullAssumption DEF LeaseInv, IsActive, WorkerLease
<1>3. \A k \in LeaseIds : k # l => leases'[k] = leases[k]
  BY <1>1 DEF LeaseInv, TypeOK
<1>4. l \in Active /\ \A k \in Active' : k \in Active
  BY <1>1, <1>3 DEF Active, IsActive
<1>5. \A k \in Active : k # l => k \in Active'
  BY <1>3 DEF Active, IsActive
<1>6. ASSUME NEW k \in Active'
      PROVE  /\ leases'[k].worker = leases[k].worker
             /\ leases'[k].owner = leases[k].owner
             /\ Area(leases'[k]) = Area(leases[k])
  BY <1>1, <1>3 DEF SameGrant, Area, Active
<1>7. (TypeOK /\ LeaseExclusion =>
         \A m \in Active : Granted[leases[m].worker] =
           [owner |-> leases[m].owner, area |-> Area(leases[m])])'
  BY GrantedOfLease, PTL
<1>8. ASSUME NEW k \in Active'
      PROVE  Granted'[leases[k].worker] = Granted[leases[k].worker]
  <2>2. Area(leases[k])' = Area(leases'[k])
    BY DEF Area, Hotspots
  <2>3. Granted'[leases[k].worker] =
          [owner |-> leases[k].owner, area |-> Area(leases[k])]
    BY <1>7, <2>2, <1>6 DEF LeaseInv
  <2>4. Granted[leases[k].worker] =
          [owner |-> leases[k].owner, area |-> Area(leases[k])]
    BY <1>4, GrantedOfLease DEF LeaseInv
  <2> QED
    BY <2>3, <2>4
<1>9. ASSUME NEW v \in Workers, v # leases[l].worker PROVE Granted'[v] = Granted[v]
  <2>1. CASE WorkerFree(v)
    <3>1. WorkerFree(v)'
      BY <2>1, <1>4, <1>6 DEF WorkerFree
    <3> QED
      BY <2>1, <3>1 DEF Granted
  <2>2. CASE ~WorkerFree(v)
    <3>1. PICK k \in Active : leases[k].worker = v
      BY <2>2 DEF WorkerFree
    <3> QED
      BY <3>1, <1>5, <1>8, <1>9
  <2> QED
    BY <2>1, <2>2
<1>10. Granted = [v \in Workers |-> Granted[v]] /\ Granted' = [v \in Workers |-> Granted'[v]]
  BY DEF Granted
<1>11. CASE l \in Active'
  <2>1. \A v \in Workers : Granted'[v] = Granted[v]
    BY <1>8, <1>9, <1>11
  <2> QED
    BY <2>1, <1>10
<1>12. CASE l \notin Active'
  <2>1. PICK w \in Workers : w = leases[l].worker
    BY <1>2
  <2>2. Granted'[leases[l].worker] = None
    <3>1. WorkerFree(w)'
      BY <2>1, <1>4, <1>6, <1>12 DEF WorkerFree, LeaseInv, LeaseExclusion
    <3> QED
      BY <2>1, <3>1 DEF Granted
  <2>3. Granted[leases[l].worker] # None
    <3>1. Granted[leases[l].worker] =
            [owner |-> leases[l].owner, area |-> Area(leases[l])]
      BY <1>4, GrantedOfLease DEF LeaseInv
    <3>2. Area(leases[l]) \in SUBSET (Hotspots \X Paths) /\ leases[l].owner \in Owners
      BY <1>2, AreaType DEF WorkerLease
    <3> QED
      BY <3>1, <3>2, NullAssumption
  <2>4. Granted' = [Granted EXCEPT ![leases[l].worker] = None]
    BY <2>2, <1>9, <1>10
  <2> QED
    BY <2>3, <2>4, <1>2 DEF Authority!Next, Authority!Free
<1> QED
  BY <1>11, <1>12

(* Every step of the store is a step of the authority or leaves it alone. *)
LEMMA NextAuthority ==
  LeaseInv /\ LeaseInv' /\ [Next]_vars => [Authority!Next]_Granted
<1> SUFFICES ASSUME LeaseInv, LeaseInv', [Next]_vars
             PROVE  Authority!Next \/ UNCHANGED Granted
  OBVIOUS
<1>1. 0..clock \subseteq Nat
  BY DEF LeaseInv, TypeOK
<1>2. ASSUME UNCHANGED leases PROVE UNCHANGED Granted
  BY <1>2 DEF Granted, WorkerFree, Active, IsActive, Area, Hotspots
<1>3. CASE Tick \/ (\E l \in LeaseIds : HolderStops(l)) \/ UNCHANGED vars
  BY <1>2, <1>3 DEF Tick, HolderStops, vars
<1>4. CASE \E o \in Owners, req \in Requests, id \in LeaseIds, t \in 0..clock :
             \E w \in req.workers : TryAcquire(o, req, w, id, t)
  BY <1>1, <1>4, TryAcquireGrants
<1>5. CASE \E l \in LeaseIds, t \in 0..clock :
             \/ Heartbeat(l, t)
             \/ Release(l, t)
             \/ \E obs \in Observations : ReconcileStale(l, t, obs)
  BY <1>1, <1>5, RowOperationFrees DEF RowOperation
<1>6. CASE \E o \in Owners, terms \in ProvisionTerms, r \in ReservationIds, t \in 0..clock :
             AcquireReservation(o, terms, r, t)
  BY <1>2, <1>6 DEF AcquireReservation
<1>7. CASE \E r \in ReservationIds, target \in ReservationStates, t \in 0..clock :
             \E w \in AdapterWorkers(target) : TransitionReservation(r, target, w, t)
  BY <1>2, <1>7 DEF TransitionReservation, MayTransition
<1> QED
  BY <1>3, <1>4, <1>5, <1>6, <1>7 DEF Next

(* The SQLite lease store implements the abstract lease authority. *)
THEOREM StoreImplementsAuthority == Spec => ImplementsAuthority
<1> QED
  BY InitAuthority, NextAuthority, LeaseInvariant, PTL
  DEF Spec, ImplementsAuthority, Authority!Spec

(***************************************************************************)
(* What the lease store promises at every moment: exclusive workers, owners *)
(* and write scopes, holders that are safe until the expiry they were told, *)
(* and elastic workers within the limit and for their own owner.            *)
(***************************************************************************)
THEOREM LeasesAreSafe == Spec => []LeaseSafety
<1>1. LeaseExclusion /\ HotspotExclusion /\ HeldLeaseStands /\ HoldersNeverCollide
        /\ CapacityInv => LeaseSafety
  BY DEF CapacityInv, LeaseSafety
<1> QED
  BY <1>1, LeasesAreExclusive, HotspotsAreExclusive, HeldLeasesStand, HoldersAreExclusive,
     CapacityInvariant, PTL

-------------------------------------------------------------------------------
(* The history of a row *)

(* The latest evidence of a row is one of its stamps and none is later. *)
LEMMA LatestStamp ==
  ASSUME NEW row \in WorkerLease,
         NEW stamps, stamps = {row.heartbeat, row.quarantined, row.reconciled} \ {None}
  PROVE  /\ LatestEvidence(row) \in stamps /\ LatestEvidence(row) \in Nat
         /\ \A u \in stamps : u <= LatestEvidence(row)
<1>1. row.heartbeat \in stamps /\ stamps \subseteq Nat
  BY NullAssumption DEF WorkerLease
<1>2. PICK a \in stamps : \A u \in stamps \ {row.quarantined, row.reconciled} : u <= a
  BY <1>1
<1>3. \E b \in stamps : \A u \in stamps \ {row.reconciled} : u <= b
  <2>1. CASE row.quarantined \in stamps /\ row.quarantined > row.heartbeat
    BY <1>1, <2>1
  <2>2. CASE row.quarantined \in stamps /\ row.quarantined <= row.heartbeat
    BY <1>1, <2>2
  <2>3. CASE row.quarantined \notin stamps
    BY <1>1, <2>3
  <2> QED  BY <1>1, <2>1, <2>2, <2>3
<1>4. PICK b \in stamps : \A u \in stamps \ {row.reconciled} : u <= b
  BY <1>3
<1>5. \E c \in stamps : \A u \in stamps : u <= c
  <2>1. CASE row.reconciled \in stamps /\ row.reconciled > b
    BY <1>1, <1>4, <2>1
  <2>2. CASE row.reconciled \in stamps /\ row.reconciled <= b
    BY <1>1, <1>4, <2>2
  <2>3. CASE row.reconciled \notin stamps
    BY <1>1, <1>4, <2>3
  <2> QED  BY <1>1, <1>4, <2>1, <2>2, <2>3
<1>6. LatestEvidence(row) = CHOOSE c \in stamps : \A u \in stamps : u <= c
  BY DEF LatestEvidence
<1> QED
  BY <1>1, <1>5, <1>6

(* A row whose stamps are kept or replaced by later ones has later evidence. *)
LEMMA EvidenceGrows ==
  ASSUME NEW old \in WorkerLease, NEW new \in WorkerLease,
         new.heartbeat >= old.heartbeat,
         old.quarantined # None => new.quarantined = old.quarantined,
         old.reconciled # None => new.reconciled # None /\ new.reconciled >= old.reconciled
  PROVE  LatestEvidence(new) >= LatestEvidence(old)
<1> DEFINE before == {old.heartbeat, old.quarantined, old.reconciled} \ {None}
           after == {new.heartbeat, new.quarantined, new.reconciled} \ {None}
<1>1. /\ LatestEvidence(old) \in before /\ LatestEvidence(old) \in Nat
      /\ LatestEvidence(new) \in Nat
      /\ \A u \in after : u <= LatestEvidence(new)
  BY LatestStamp
<1>2. /\ new.heartbeat \in after /\ old.heartbeat \in Nat /\ new.heartbeat \in Nat
      /\ old.quarantined # None => old.quarantined \in after
      /\ old.reconciled # None =>
           new.reconciled \in after /\ new.reconciled \in Nat /\ old.reconciled \in Nat
  BY NullAssumption DEF WorkerLease
<1> QED
  BY <1>1, <1>2

(* The stamps of a row and what one operation of the store makes of it. *)
Renewed(old, new, t) ==
  /\ old.released = None /\ old.quarantined = None /\ t > old.heartbeat
  /\ new = [old EXCEPT !.heartbeat = t, !.expires = t + old.ttl]
GivenBack(old, new, t) ==
  /\ old.released = None /\ old.quarantined = None /\ t >= old.heartbeat
  /\ new = [old EXCEPT !.released = t]
Reconciled(old, new, t) ==
  /\ old.released = None /\ t >= LatestEvidence(old)
  /\ \/ new = [old EXCEPT !.released = t, !.reconciled = t]
     \/ new = [old EXCEPT !.quarantined = IF old.quarantined = None THEN t ELSE @,
                          !.reconciled = t]

(* A step inserts a row or moves it by one of the three operations. *)
LEMMA RowMoves ==
  ASSUME TypeOK, [Next]_vars, NEW k \in LeaseIds
  PROVE  \/ leases'[k] = leases[k]
         \/ leases[k] = None /\ \E o \in Owners, req \in Requests, w \in Workers, t \in Nat :
                                  leases'[k] = NewLease(o, req, w, t)
         \/ leases[k] # None /\ \E t \in Nat : \/ Renewed(leases[k], leases'[k], t)
                                               \/ GivenBack(leases[k], leases'[k], t)
                                               \/ Reconciled(leases[k], leases'[k], t)
<1>1. 0..clock \subseteq Nat
  BY DEF TypeOK
<1>2. CASE UNCHANGED leases
  BY <1>2
<1>3. ASSUME NEW o \in Owners, NEW req \in Requests, NEW id \in LeaseIds, NEW t \in 0..clock,
             NEW w \in req.workers, TryAcquire(o, req, w, id, t)
      PROVE  \/ leases'[k] = leases[k]
             \/ leases[k] = None /\ leases'[k] = NewLease(o, req, w, t)
  BY <1>3 DEF TryAcquire, AcquireVerdict, TypeOK
<1>4. ASSUME NEW l \in LeaseIds, NEW t \in 0..clock, Heartbeat(l, t)
      PROVE  \/ leases'[k] = leases[k]
             \/ leases[k] # None /\ Renewed(leases[k], leases'[k], t)
  BY <1>4 DEF Heartbeat, IsActive, TypeOK, Renewed
<1>5. ASSUME NEW l \in LeaseIds, NEW t \in 0..clock, Release(l, t)
      PROVE  \/ leases'[k] = leases[k]
             \/ leases[k] # None /\ GivenBack(leases[k], leases'[k], t)
  BY <1>5 DEF Release, IsActive, TypeOK, GivenBack
<1>6. ASSUME NEW l \in LeaseIds, NEW t \in 0..clock, NEW obs \in Observations,
             ReconcileStale(l, t, obs)
      PROVE  \/ leases'[k] = leases[k]
             \/ leases[k] # None /\ Reconciled(leases[k], leases'[k], t)
  BY <1>6 DEF ReconcileStale, Reconcilable, IsActive, TypeOK, Reconciled
<1>7. \/ UNCHANGED leases
      \/ \E o \in Owners, req \in Requests, id \in LeaseIds, t \in 0..clock :
           \E w \in req.workers : TryAcquire(o, req, w, id, t)
      \/ \E l \in LeaseIds, t \in 0..clock :
           \/ Heartbeat(l, t) \/ Release(l, t)
           \/ \E obs \in Observations : ReconcileStale(l, t, obs)
  BY DEF Next, Tick, HolderStops, AcquireReservation, TransitionReservation, MayTransition, vars
<1>8. \A req \in Requests : req.workers \subseteq Workers
  BY RequestsAssumption DEF WorkerLeaseRequest, RequestFields
<1> QED
  BY <1>1, <1>2, <1>3, <1>4, <1>5, <1>6, <1>7, <1>8

(* What is in order about one row. *)
InOrder(row) ==
  /\ (row.released = None /\ row.quarantined = None) => row.reconciled = None
  /\ row.released # None => row.released >= LatestEvidence(row)

(* The three operations keep a row in order and its history. *)
LEMMA RenewedKeepsOrder ==
  ASSUME NEW old \in WorkerLease, NEW new \in WorkerLease, InOrder(old), NEW t \in Nat,
         Renewed(old, new, t)
  PROVE  InOrder(new) /\ RowHistory(old, new)
<1>1. /\ new.heartbeat = t /\ new.quarantined = None /\ new.reconciled = None
      /\ new.released = None /\ old.reconciled = None /\ old.heartbeat \in Nat
  BY DEF Renewed, InOrder, WorkerLease
<1>2. LatestEvidence(new) >= LatestEvidence(old)
  <2>1. new.heartbeat >= old.heartbeat /\ old.quarantined = None
    BY <1>1 DEF Renewed
  <2> QED  BY <1>1, <2>1, EvidenceGrows
<1> QED
  BY <1>1, <1>2 DEF InOrder, RowHistory, Renewed

(* release of a row the owner still holds only moves it forward. *)
LEMMA GivenBackKeepsOrder ==
  ASSUME NEW old \in WorkerLease, NEW new \in WorkerLease, InOrder(old), NEW t \in Nat,
         GivenBack(old, new, t)
  PROVE  InOrder(new) /\ RowHistory(old, new)
<1>1. /\ new.heartbeat = old.heartbeat /\ new.quarantined = None /\ new.reconciled = None
      /\ new.released = t /\ old.reconciled = None /\ old.quarantined = None
      /\ old.heartbeat \in Nat /\ t \in Nat /\ t >= old.heartbeat /\ t # None
  BY NullAssumption DEF GivenBack, InOrder, WorkerLease
<1>2. LatestEvidence(new) = old.heartbeat /\ LatestEvidence(old) = old.heartbeat
  <2>1. LatestEvidence(old) \in {old.heartbeat}
    BY <1>1, LatestStamp
  <2>2. LatestEvidence(new) \in {old.heartbeat}
    BY <1>1, LatestStamp
  <2> QED  BY <2>1, <2>2
<1> QED
  BY <1>1, <1>2 DEF InOrder, RowHistory, GivenBack

(* A reconciliation keeps its evidence in order too. *)
LEMMA ReconciledKeepsOrder ==
  ASSUME NEW old \in WorkerLease, NEW new \in WorkerLease, InOrder(old), NEW t \in Nat,
         Reconciled(old, new, t)
  PROVE  InOrder(new) /\ RowHistory(old, new)
<1> DEFINE before == {old.heartbeat, old.quarantined, old.reconciled} \ {None}
           after == {new.heartbeat, new.quarantined, new.reconciled} \ {None}
<1>1. /\ LatestEvidence(old) \in Nat /\ \A u \in before : u <= LatestEvidence(old)
      /\ LatestEvidence(new) \in after /\ LatestEvidence(new) \in Nat
  BY LatestStamp
<1>2. /\ new.heartbeat = old.heartbeat /\ new.reconciled = t /\ old.released = None
      /\ old.quarantined # None => new.quarantined = old.quarantined
      /\ old.quarantined = None => new.quarantined \in {None, t}
      /\ new.released \in {None, t} /\ t >= LatestEvidence(old) /\ t # None
      /\ new.released = None => new.quarantined # None
      /\ old.heartbeat \in Nat
  <2>1. t # None /\ old.released = None /\ t >= LatestEvidence(old) /\ old.heartbeat \in Nat
    BY NullAssumption DEF Reconciled, WorkerLease
  <2>2. CASE new = [old EXCEPT !.released = t, !.reconciled = t]
    BY <2>1, <2>2 DEF WorkerLease
  <2>3. CASE new = [old EXCEPT !.quarantined = IF old.quarantined = None THEN t ELSE @,
                               !.reconciled = t]
    BY <2>1, <2>3 DEF WorkerLease
  <2> QED  BY <2>2, <2>3 DEF Reconciled
<1>3. \A u \in after : u <= t
  <2>1. after \subseteq before \cup {t}
    BY <1>2
  <2>2. before \subseteq Nat
    BY DEF WorkerLease
  <2> QED  BY <1>1, <1>2, <2>1, <2>2
<1>4. old.reconciled # None => old.reconciled <= t
  <2>1. old.reconciled # None => old.reconciled \in before /\ old.reconciled \in Nat
    BY DEF WorkerLease
  <2> QED  BY <1>1, <1>2, <2>1
<1>5. LatestEvidence(new) >= LatestEvidence(old)
  <2>1. old.reconciled # None => old.reconciled \in Nat
    BY DEF WorkerLease
  <2> QED  BY <1>2, <1>4, <2>1, EvidenceGrows
<1>6. InOrder(new)
  BY <1>1, <1>2, <1>3 DEF InOrder
<1>7. RowHistory(old, new)
  BY <1>1, <1>2, <1>5 DEF RowHistory
<1> QED  BY <1>6, <1>7

(* So every step keeps the evidence of a row in order, and its history. *)
LEMMA StepKeepsHistory ==
  ASSUME EvidenceInv, [Next]_vars, NEW k \in LeaseIds
  PROVE  /\ leases'[k] # None => InOrder(leases'[k])
         /\ leases[k] # None => leases'[k] # None /\ RowHistory(leases[k], leases'[k])
<1>1. /\ TypeOK /\ TypeOK'
      /\ leases[k] # None => leases[k] \in WorkerLease /\ InOrder(leases[k])
      /\ leases'[k] # None => leases'[k] \in WorkerLease
  BY NextTypeOK DEF EvidenceInv, EvidenceInOrder, InOrder, TypeOK
<1>2. CASE leases'[k] = leases[k]
  <2>1. leases[k] # None => LatestEvidence(leases[k]) \in Nat
    BY <1>1, LatestStamp
  <2> QED  BY <1>1, <1>2, <2>1 DEF InOrder, RowHistory
<1>3. CASE leases[k] = None /\ \E o \in Owners, req \in Requests, w \in Workers, t \in Nat :
                                 leases'[k] = NewLease(o, req, w, t)
  BY <1>3 DEF NewLease, InOrder
<1>4. ASSUME leases[k] # None, NEW t \in Nat,
             \/ Renewed(leases[k], leases'[k], t)
             \/ GivenBack(leases[k], leases'[k], t)
             \/ Reconciled(leases[k], leases'[k], t)
      PROVE  leases'[k] # None /\ InOrder(leases'[k]) /\ RowHistory(leases[k], leases'[k])
  <2>1. leases'[k] \in WorkerLease
    <3>1. CASE Renewed(leases[k], leases'[k], t)
      <4>1. leases[k] \in WorkerLease /\ t + leases[k].ttl \in Nat
        BY <1>1, <1>4 DEF WorkerLease
      <4>2. [leases[k] EXCEPT !.heartbeat = t, !.expires = t + leases[k].ttl] \in WorkerLease
        BY <4>1 DEF WorkerLease
      <4> QED  BY <3>1, <4>2 DEF Renewed
    <3>2. CASE GivenBack(leases[k], leases'[k], t)
      BY <1>1, <1>4, <3>2 DEF GivenBack, WorkerLease
    <3>3. CASE Reconciled(leases[k], leases'[k], t)
      <4>1. leases[k] \in WorkerLease
        BY <1>1, <1>4
      <4>2. /\ [leases[k] EXCEPT !.released = t, !.reconciled = t] \in WorkerLease
            /\ [leases[k] EXCEPT
                  !.quarantined = IF leases[k].quarantined = None THEN t ELSE @,
                  !.reconciled = t] \in WorkerLease
        BY <4>1, ReconciledRow
      <4> QED  BY <3>3, <4>2 DEF Reconciled
    <3> QED  BY <1>4, <3>1, <3>2, <3>3
  <2> QED
    BY <1>1, <1>4, <2>1, NullAssumption, RenewedKeepsOrder, GivenBackKeepsOrder,
       ReconciledKeepsOrder
<1> QED
  BY <1>1, <1>2, <1>3, <1>4, RowMoves

(* Evidence stays in the order it was written, from the start on. *)
THEOREM EvidenceInvariant == Spec => []EvidenceInv
<1>1. Init => EvidenceInv
  <2> SUFFICES ASSUME Init, NEW l \in LeaseIds, leases[l] # None PROVE InOrder(leases[l])
    BY InitTypeOK DEF EvidenceInv, EvidenceInOrder, InOrder
  <2>1. leases[l] \in LegacyLeases
    BY DEF Init
  <2> QED  BY <2>1 DEF LegacyLeases, LegacyLease, InOrder
<1>2. EvidenceInv /\ [Next]_vars => EvidenceInv'
  BY NextTypeOK, StepKeepsHistory DEF EvidenceInv, EvidenceInOrder, InOrder
<1> QED  BY <1>1, <1>2, PTL DEF Spec

(***************************************************************************)
(* No heartbeat, release or reconciliation, in whatever order their delayed *)
(* clocks bring them, rewrites history: a released row is final, evidence   *)
(* never moves back and a quarantine ends only in a reconciled release.     *)
(***************************************************************************)
THEOREM HistoryIsKept == Spec => LeaseHistory
<1>1. EvidenceInv /\ [Next]_vars =>
        [\A l \in LeaseIds : leases[l] # None => RowHistory(leases[l], leases'[l])]_vars
  BY StepKeepsHistory
<1> QED  BY <1>1, EvidenceInvariant, PTL DEF Spec, LeaseHistory

-------------------------------------------------------------------------------
(* Extra workers *)

(***************************************************************************)
(* The inductive invariant of the elastic calls.  What a call holds at each *)
(* place: the reservation it made, in the state its marks have brought it   *)
(* to, and the worker that was made for it.                                 *)
(***************************************************************************)
Reserving == {"start", "provision", "publish", "observe", "finalize", "abandon"}
HandedOver == {"leases", "supply", "observe", "acquire", "run", "finalize"}

Leased(w, o) ==
  \E l \in LeaseIds : leases[l] # None /\ leases[l].worker = w /\ leases[l].owner = o

Holds(c, k) ==
  /\ reservations[k.res] # None
  /\ reservations[k.res].owner = OwnerOf[c]
  /\ k.pc \notin {"policy", "reserve"}
  /\ k.bind # None => k.bind = made[k.res]
  /\ k.worker # None => k.worker = made[k.res]
  /\ k.pc \in {"start", "provision"} => made[k.res] = None
  /\ k.pc = "start" => reservations[k.res].state \in {"PRE_PROVISION", "RELEASED"}
  /\ k.pc \in {"provision", "publish"} => reservations[k.res].state = "PROVISIONING"
  /\ k.pc \in HandedOver => reservations[k.res].state = "PROVISIONED"
  /\ k.pc \in HandedOver \cup {"publish"} => k.worker # None
  /\ k.pc = "acquire" => k.cand.worker = k.worker
  /\ k.pc \in {"run", "finalize"} => Leased(made[k.res], OwnerOf[c])
  /\ k.pc = "abandon" => reservations[k.res].state \in {"PROVISIONING", "PROVISIONED"}
  /\ (k.pc = "end" /\ k.out # "EXECUTED" /\ c \notin Faults /\ made[k.res] # None) =>
       reservations[k.res].state = "RECOVERY_REQUIRED"

CallFine(c, k) ==
  /\ k.pc \in Reserving => k.res # None
  /\ (c \in ViaExpand /\ k.pc \in HandedOver) => k.res # None
  /\ k.res = None => k.worker = None /\ k.bind = None
  /\ k.pc = "acquire" => k.cand # None
  /\ \A l \in k.active : leases[l] # None
  /\ k.res # None => Holds(c, k)

CallsFine == \A c \in Calls : calls[c] # None => CallFine(c, calls[c])

(* No two calls have one reservation. *)
Unshared ==
  \A c, d \in Calls :
    (c # d /\ calls[c] # None /\ calls[d] # None /\ calls[c].res # None) =>
      calls[c].res # calls[d].res

OneReservationEach ==
  \A q, r \in Consuming : q # r => reservations[q].owner # reservations[r].owner

(* A worker is made for one reservation, which has been marked as started. *)
MadeFine ==
  /\ \A r \in Made :
       /\ made[r] \in exists
       /\ reservations[r] # None
       /\ reservations[r].state \in
            {"PROVISIONING", "PROVISIONED", "CAPACITY", "RECOVERY_REQUIRED"}
  /\ \A q, r \in Made : q # r => made[q] # made[r]

(* The worker a reservation names is the one that was made for it. *)
BoundIsMade ==
  \A r \in ReservationIds :
    (reservations[r] # None /\ reservations[r].worker # None) =>
      reservations[r].worker = made[r]

World == OneReservationEach /\ MadeFine /\ BoundIsMade /\ ConfirmedWasLeased

ElasticInv ==
  /\ ElasticTypeOK
  /\ LeaseInv
  /\ CapacityInv
  /\ World
  /\ CallsFine
  /\ Unshared

-------------------------------------------------------------------------------
(* Nothing has begun: no call, no worker made, reservations of older binaries. *)
LEMMA InitElasticInv == ElasticInit => ElasticInv
<1> SUFFICES ASSUME ElasticInit PROVE ElasticInv
  OBVIOUS
<1>1. Init /\ TypeOK /\ LeaseInv /\ CapacityInv
  BY InitTypeOK, InitLeaseInv, InitCapacityInv DEF ElasticInit
<1>2. \A c \in Calls : calls[c] = None
  BY DEF ElasticInit
<1>3. Made = {}
  BY DEF ElasticInit, Made
<1>4. ASSUME NEW r \in ReservationIds, reservations[r] # None
      PROVE  reservations[r].state = "ACTIVE" /\ reservations[r].worker = None
  BY <1>1, <1>4 DEF Init, LegacyReservations
<1>5. OneReservationEach
  BY <1>1 DEF Init, OneReservationEach
<1>6. World
  BY <1>3, <1>4, <1>5 DEF World, MadeFine, BoundIsMade, ConfirmedWasLeased
<1>7. ElasticTypeOK
  BY <1>1, <1>2, ElasticAssumption DEF ElasticInit, ElasticTypeOK
<1> QED
  BY <1>1, <1>2, <1>6, <1>7 DEF ElasticInv, CallsFine, Unshared

(* A lease row never goes away and never changes hands. *)
LeasesStay ==
  \A l \in LeaseIds : leases[l] # None =>
    /\ leases'[l] # None
    /\ leases'[l].worker = leases[l].worker
    /\ leases'[l].owner = leases[l].owner

(* Only the reservation r, and the worker made for it, may change. *)
OthersStay(r) ==
  \A q \in ReservationIds \ {r} :
    reservations'[q] = reservations[q] /\ made'[q] = made[q]

(* Who has leased a worker stays on record. *)
LEMMA LeasedStays ==
  ASSUME LeasesStay, NEW w, NEW o, Leased(w, o)
  PROVE  Leased(w, o)'
  BY DEF LeasesStay, Leased

(***************************************************************************)
(* A step of one call that touches no reservation but its own leaves every  *)
(* other call where it was.                                                 *)
(***************************************************************************)
LEMMA CallMoves ==
  ASSUME ElasticInv, NEW c \in Calls, NEW k \in CallState,
         calls' = [calls EXCEPT ![c] = k],
         \A d \in Calls \ {c} :
           (calls[d] # None /\ k.res # None) => calls[d].res # k.res,
         OthersStay(k.res), LeasesStay, CallFine(c, k)'
  PROVE  /\ calls' = [d \in Calls |-> calls'[d]]
         /\ \A d \in Calls : calls'[d] # None => calls'[d] \in CallState
         /\ CallsFine' /\ Unshared'
<1>1. /\ calls'[c] = k
      /\ \A d \in Calls \ {c} : calls'[d] = calls[d]
      /\ calls' = [d \in Calls |-> calls'[d]]
  BY DEF ElasticInv, ElasticTypeOK
<1>2. \A d \in Calls : calls'[d] # None => calls'[d] \in CallState
  BY <1>1 DEF ElasticInv, ElasticTypeOK
<1>3. Unshared'
  BY <1>1 DEF ElasticInv, Unshared
<1>4. ASSUME NEW d \in Calls \ {c}, calls[d] # None
      PROVE  CallFine(d, calls[d])'
  <2>1. PICK n \in CallState : n = calls[d]
    BY <1>4 DEF ElasticInv, ElasticTypeOK
  <2>2. CallFine(d, n) /\ (calls[d])' = n
    BY <1>1, <1>4, <2>1 DEF ElasticInv, CallsFine
  <2> DEFINE seen == \A l \in n.active : leases[l] # None
  <2>5. seen'
    BY <2>1, <2>2 DEF CallFine, CallState, LeasesStay
  <2>3. CASE n.res = None
    BY <2>2, <2>3, <2>5 DEF CallFine
  <2>4. CASE n.res # None
    <3>1. n.res \in ReservationIds \ {k.res}
      BY <2>1, <2>4, <1>4 DEF CallState
    <3>2. reservations'[n.res] = reservations[n.res] /\ made'[n.res] = made[n.res]
      BY <3>1 DEF OthersStay
    <3>3. Holds(d, n)
      BY <2>2, <2>4 DEF CallFine
    <3>4. Leased(made[n.res], OwnerOf[d]) => Leased(made[n.res], OwnerOf[d])'
      BY <3>2 DEF LeasesStay, Leased
    <3>5. Holds(d, n)'
      BY <3>2, <3>3, <3>4 DEF Holds
    <3> QED
      BY <2>2, <2>5, <3>5 DEF CallFine
  <2> QED
    BY <2>3, <2>4
<1>5. CallsFine'
  BY <1>1, <1>4 DEF CallsFine
<1> QED
  BY <1>1, <1>2, <1>3, <1>5

(* A step that changes no reservation and no worker keeps what is about them. *)
LEMMA WorldStays ==
  ASSUME ElasticInv, UNCHANGED <<reservations, exists, made>>, LeasesStay
  PROVE  World'
<1>1. OneReservationEach' /\ MadeFine' /\ BoundIsMade'
  BY DEF ElasticInv, World, OneReservationEach, MadeFine, BoundIsMade, Made,
         Consuming, IsConsuming
<1>2. ConfirmedWasLeased'
  BY DEF ElasticInv, World, ConfirmedWasLeased, LeasesStay
<1> QED
  BY <1>1, <1>2 DEF World

(* A step that leaves the store alone leaves its invariants alone. *)
LEMMA StoreStays ==
  ASSUME ElasticInv, UNCHANGED vars
  PROVE  TypeOK' /\ LeaseInv' /\ CapacityInv' /\ LeasesStay
<1>1. [Next]_vars
  OBVIOUS
<1> QED
  BY <1>1, NextTypeOK, NextLeaseInv, NextCapacityInv
  DEF ElasticInv, LeaseInv, LeasesStay, vars
-------------------------------------------------------------------------------
(* Steps that leave the store and the workers alone *)

(* What is known of a call that is under way. *)
LEMMA CallFacts ==
  ASSUME ElasticInv, NEW c \in Calls, calls[c] # None
  PROVE  calls[c] \in CallState /\ CallFine(c, calls[c])
  BY DEF ElasticInv, ElasticTypeOK, CallsFine

(* The call moves on, and what it holds fits the place it moves to. *)
LEMMA QuietMove ==
  ASSUME ElasticInv, NEW c \in Calls, NEW k \in CallState,
         calls' = [calls EXCEPT ![c] = k], UNCHANGED <<vars, exists, made>>,
         k.res # None => calls[c] # None /\ calls[c].res = k.res,
         CallFine(c, k)
  PROVE  ElasticInv'
<1>1. TypeOK' /\ LeaseInv' /\ CapacityInv' /\ LeasesStay
  BY StoreStays
<1>2. World'
  BY <1>1, WorldStays DEF vars
<1>3. OthersStay(k.res)
  BY DEF OthersStay, vars
<1>4. \A d \in Calls \ {c} : (calls[d] # None /\ k.res # None) => calls[d].res # k.res
  BY DEF ElasticInv, Unshared
<1>5. CallFine(c, k)'
  BY DEF CallFine, Holds, Leased, vars
<1>6. /\ calls' = [d \in Calls |-> calls'[d]]
      /\ \A d \in Calls : calls'[d] # None => calls'[d] \in CallState
      /\ CallsFine' /\ Unshared'
  BY <1>1, <1>3, <1>4, <1>5, CallMoves
<1>7. ElasticTypeOK'
  BY <1>1, <1>6 DEF ElasticInv, ElasticTypeOK
<1> QED
  BY <1>1, <1>2, <1>6, <1>7 DEF ElasticInv

(* The same for a call that keeps all but its place and outcome. *)
LEMMA QuietGoes ==
  ASSUME ElasticInv, NEW c \in Calls, calls[c] # None,
         NEW pc \in Places, NEW out \in CallOutcomes,
         calls' = [calls EXCEPT ![c] = [calls[c] EXCEPT !.pc = pc, !.out = out]],
         UNCHANGED <<vars, exists, made>>,
         CallFine(c, [calls[c] EXCEPT !.pc = pc, !.out = out])
  PROVE  ElasticInv'
<1>1. PICK k : k = [calls[c] EXCEPT !.pc = pc, !.out = out]
  OBVIOUS
<1>2. k \in CallState /\ k.res = calls[c].res
  BY <1>1, CallFacts DEF CallState
<1> QED
  BY <1>1, <1>2, QuietMove

(* A call that ends without a reservation to account for. *)
LEMMA FinishFine ==
  ASSUME ElasticInv, NEW c \in Calls, calls[c] # None, NEW out \in CallOutcomes,
         Finish(c, out), UNCHANGED <<vars, exists, made>>,
         calls[c].res = None \/ calls[c].pc = "start"
  PROVE  ElasticInv'
<1>1. calls' = [calls EXCEPT ![c] = [calls[c] EXCEPT !.pc = "end", !.out = out]]
  BY DEF Finish
<1>2. CallFine(c, [calls[c] EXCEPT !.pc = "end", !.out = out])
  BY CallFacts DEF CallFine, Holds, CallState, Reserving, HandedOver
<1> QED
  BY <1>1, <1>2, QuietGoes DEF Places

(* The evidence of one worker is a candidate. *)
LEMMA CandidateType ==
  ASSUME ElasticInv, NEW w \in Workers, NEW f \in Facts, NEW active \in SUBSET LeaseIds,
         \A l \in active : leases[l] # None, NEW o, NEW wt
  PROVE  /\ Candidate(w, f, active, o, wt) \in WorkerLeaseCandidate
         /\ Candidate(w, f, active, o, wt).worker = w
<1>1. f \in WorkerFacts
  BY ElasticAssumption
<1>2. \A l \in active : leases[l].scope \in SUBSET Paths
  BY DEF ElasticInv, ElasticTypeOK, TypeOK, WorkerLease
<1>3. \A r \in Handoffs(o) : reservations[r].terms.scope \in SUBSET Paths
  BY ElasticAssumption
  DEF ElasticInv, ElasticTypeOK, TypeOK, Reservation, Handoffs, Consuming, IsConsuming
<1>4. OccupiedScopes(wt, active, o) \in SUBSET SUBSET Paths
  BY <1>2, <1>3 DEF OccupiedScopes
<1>5. /\ (Reserved(w, active, o) \/ f.task) \in BOOLEAN
      /\ (/\ f.mutable /\ f.git = "CLEAN" /\ RowState(f) = "READY"
          /\ ~(Reserved(w, active, o) \/ f.task)) \in BOOLEAN
  OBVIOUS
<1>6. RowState(f) \in {"READY", "UNKNOWN"}
  BY DEF RowState
<1>7. f.git \in {"FAILED", "DIRTY", "CLEAN"} /\ f.matches \in BOOLEAN /\ f.identity \in BOOLEAN
  BY <1>1 DEF WorkerFacts
<1> DEFINE reserved == Reserved(w, active, o) \/ f.task
           authorized == /\ f.mutable /\ f.git = "CLEAN"
                         /\ RowState(f) = "READY" /\ ~reserved
           occupied == OccupiedScopes(wt, active, o)
           row == RowState(f)
<1>8. Candidate(w, f, active, o, wt) =
        [worker |-> w, state |-> row, reserved |-> reserved, authorized |-> authorized,
         dirty |-> f.git, matches |-> f.matches, identity |-> f.identity,
         occupied |-> occupied]
  BY DEF Candidate
<1>9. reserved \in BOOLEAN /\ authorized \in BOOLEAN /\ occupied \in SUBSET SUBSET Paths
      /\ row \in {"READY", "UNKNOWN"}
  BY <1>4, <1>5, <1>6
<1> HIDE DEF reserved, authorized, occupied, row
<1> QED
  BY <1>7, <1>8, <1>9 DEF WorkerLeaseCandidate

(* execute_once and expand begin with nothing in hand. *)
LEMMA BeginCallFine ==
  ASSUME ElasticInv, NEW c \in Calls, NEW policy \in Policies, BeginCall(c, policy)
  PROVE  ElasticInv'
<1>1. PICK pc \in {"policy", "leases"} : pc = IF c \in ViaExpand THEN "policy" ELSE "leases"
  OBVIOUS
<1>2. PICK eligible \in {"YES", "NO", "MISSING"}, capacity \in BOOLEAN :
        LET entry == [pc |-> pc, policy |-> policy, eligible |-> eligible,
                      capacity |-> capacity, active |-> {}, res |-> None,
                      worker |-> None, bind |-> None, cand |-> None, out |-> "PENDING"]
        IN  \/ calls' = [calls EXCEPT ![c] = entry]
            \/ calls' = [calls EXCEPT ![c] = [entry EXCEPT !.pc = "end", !.out = "RECOVERY"]]
  BY <1>1 DEF BeginCall
<1>3. PICK e : e = [pc |-> pc, policy |-> policy, eligible |-> eligible,
                    capacity |-> capacity, active |-> {}, res |-> None,
                    worker |-> None, bind |-> None, cand |-> None, out |-> "PENDING"]
  OBVIOUS
<1>4. /\ e \in CallState /\ e.pc = pc /\ e.res = None /\ e.active = {}
      /\ e.worker = None /\ e.bind = None
  BY <1>3 DEF CallState, Places, CallOutcomes
<1>5. PICK k : k \in {e, [e EXCEPT !.pc = "end", !.out = "RECOVERY"]}
               /\ calls' = [calls EXCEPT ![c] = k]
  BY <1>2, <1>3
<1>6. /\ k \in CallState /\ k.pc \in {"policy", "leases", "end"} /\ k.res = None /\ k.active = {}
      /\ k.worker = None /\ k.bind = None
      /\ k.pc = "leases" => c \notin ViaExpand
  BY <1>1, <1>4, <1>5 DEF CallState, Places, CallOutcomes
<1>7. CallFine(c, k)
  BY <1>6 DEF CallFine, Reserving, HandedOver
<1> QED
  BY <1>5, <1>6, <1>7, QuietMove DEF BeginCall

(* The leases a call has read stay rows while it goes on. *)
LEMMA ReadLeasesFine ==
  ASSUME ElasticInv, NEW c \in Calls, ReadLeases(c)
  PROVE  ElasticInv'
<1>1. calls[c] # None /\ calls[c].pc = "leases"
  BY DEF ReadLeases, At
<1>2. PICK k : k = [calls[c] EXCEPT !.pc = "supply", !.active = Active]
  OBVIOUS
<1>3. Active \in SUBSET LeaseIds /\ \A l \in Active : leases[l] # None
  BY DEF Active, IsActive
<1>4. /\ k \in CallState /\ k.pc = "supply" /\ k.active = Active /\ k.res = calls[c].res
      /\ k.worker = calls[c].worker /\ k.bind = calls[c].bind
  BY <1>1, <1>2, <1>3, CallFacts DEF CallState, Places
<1>5. CallFine(c, k)
  BY <1>1, <1>3, <1>4, CallFacts DEF CallFine, Holds, Reserving, HandedOver
<1> QED
  BY <1>1, <1>2, <1>4, <1>5, QuietMove DEF ReadLeases

(* The policy, the eligibility and the provider's capacity, in their order. *)
LEMMA GateFine ==
  ASSUME ElasticInv, NEW c \in Calls, Gate(c)
  PROVE  ElasticInv'
<1>1. calls[c] # None /\ calls[c].pc = "policy" /\ UNCHANGED <<vars, exists, made>>
  BY DEF Gate, At
<1>2. calls[c].res = None
  BY <1>1, CallFacts DEF CallFine, Holds
<1>3. Goto(c, "reserve") \/ \E out \in CallOutcomes : Finish(c, out)
  BY DEF Gate, CallOutcomes
<1>4. CASE \E out \in CallOutcomes : Finish(c, out)
  BY <1>1, <1>2, <1>4, FinishFine
<1>5. CASE Goto(c, "reserve")
  <2>1. PICK k : k = [calls[c] EXCEPT !.pc = "reserve"]
    OBVIOUS
  <2>2. /\ k \in CallState /\ k.pc = "reserve" /\ k.res = None
        /\ k.worker = calls[c].worker /\ k.bind = calls[c].bind /\ k.active = calls[c].active
    BY <1>1, <1>2, <2>1, CallFacts DEF CallState, Places
  <2>3. CallFine(c, k)
    BY <1>1, <1>2, <2>2, CallFacts DEF CallFine, Reserving, HandedOver
  <2> QED
    BY <1>1, <1>2, <1>5, <2>1, <2>2, <2>3, QuietMove DEF Goto
<1> QED
  BY <1>3, <1>4, <1>5

(* A published hand-off that is not used goes to recovery. *)
LEMMA ToAbandon ==
  ASSUME ElasticInv, NEW c \in Calls, calls[c] # None, calls[c].res # None,
         calls[c].pc \in HandedOver \cup {"publish"}, NEW out \in CallOutcomes,
         calls' = [calls EXCEPT ![c].pc = "abandon", ![c].out = out],
         UNCHANGED <<vars, exists, made>>
  PROVE  ElasticInv'
<1>1. calls' = [calls EXCEPT ![c] = [calls[c] EXCEPT !.pc = "abandon", !.out = out]]
  OBVIOUS
<1>2. CallFine(c, [calls[c] EXCEPT !.pc = "abandon", !.out = out])
  BY CallFacts DEF CallFine, Holds, CallState, Reserving, HandedOver
<1> QED
  BY <1>1, <1>2, QuietGoes DEF Places

(* The supply cannot be read: nothing is known of the worker. *)
LEMMA SupplyFailsFine ==
  ASSUME ElasticInv, NEW c \in Calls, SupplyFails(c)
  PROVE  ElasticInv'
  BY FinishFine, ToAbandon DEF SupplyFails, At, HandedOver, CallOutcomes

(* What ends the batch ends the call, or sends its hand-off to recovery. *)
LEMMA SettleFine ==
  ASSUME ElasticInv, NEW c \in Calls, calls[c] # None, NEW out \in CallOutcomes,
         calls[c].pc \in HandedOver, Settle(c, out), UNCHANGED <<vars, exists, made>>
  PROVE  ElasticInv'
<1>1. CASE calls[c].res = None
  <2>1. [calls[c] EXCEPT !.out = out, !.pc = "end"] = [calls[c] EXCEPT !.pc = "end", !.out = out]
    BY CallFacts DEF CallState
  <2>2. Finish(c, out)
    BY <1>1, <2>1 DEF Settle, Finish
  <2> QED
    BY <1>1, <2>2, FinishFine
<1>2. CASE calls[c].res # None
  <2>1. [calls[c] EXCEPT !.out = out, !.pc = "abandon"]
          = [calls[c] EXCEPT !.pc = "abandon", !.out = out]
    BY CallFacts DEF CallState
  <2>2. calls' = [calls EXCEPT ![c].pc = "abandon", ![c].out = out]
    BY <1>2, <2>1 DEF Settle
  <2> QED
    BY <1>2, <2>2, ToAbandon
<1> QED
  BY <1>1, <1>2

(* The call goes on to lease the candidate it was given. *)
LEMMA ToAcquire ==
  ASSUME ElasticInv, NEW c \in Calls, calls[c] # None, calls[c].pc \in {"supply", "observe"},
         NEW cand \in WorkerLeaseCandidate, calls[c].res # None => cand.worker = calls[c].worker,
         calls' = [calls EXCEPT ![c].pc = "acquire", ![c].cand = cand],
         UNCHANGED <<vars, exists, made>>
  PROVE  ElasticInv'
<1>1. cand # None
  BY NoCallAssumption
<1>2. PICK k : k = [calls[c] EXCEPT !.pc = "acquire", !.cand = cand]
  OBVIOUS
<1>3. /\ k \in CallState /\ k.pc = "acquire" /\ k.cand = cand /\ k.res = calls[c].res
      /\ k.worker = calls[c].worker /\ k.bind = calls[c].bind /\ k.active = calls[c].active
  BY <1>2, CallFacts DEF CallState, Places
<1>4. CallFine(c, k)
  BY <1>1, <1>3, CallFacts DEF CallFine, Holds, Reserving, HandedOver
<1> QED
  BY <1>2, <1>3, <1>4, QuietMove

(* The worker of a plan is compared once more, and leased or left. *)
LEMMA AssignFine ==
  ASSUME ElasticInv, NEW c \in Calls, calls[c] # None, calls[c].pc = "supply",
         NEW cand \in WorkerLeaseCandidate, calls[c].res # None => cand.worker = calls[c].worker,
         Assign(c, cand), UNCHANGED <<vars, exists, made>>
  PROVE  ElasticInv'
<1>1. CASE cand.identity
  BY <1>1, ToAcquire DEF Assign
<1>2. CASE ~cand.identity
  BY <1>2, FinishFine, ToAbandon DEF Assign, HandedOver, CallOutcomes
<1> QED
  BY <1>1, <1>2

(* Every worker that exists is seen as a candidate of its own name. *)
LEMMA SupplyType ==
  ASSUME ElasticInv, NEW c \in Calls, calls[c] # None, NEW facts \in [exists -> Facts], NEW o,
         NEW w \in DOMAIN Supply(c, facts, o)
  PROVE  /\ Supply(c, facts, o)[w] \in WorkerLeaseCandidate
         /\ Supply(c, facts, o)[w].worker = w
<1>1. w \in exists /\ w \in Workers /\ facts[w] \in Facts
  BY DEF Supply, ElasticInv, ElasticTypeOK
<1>2. calls[c].active \in SUBSET LeaseIds /\ \A l \in calls[c].active : leases[l] # None
  BY CallFacts DEF CallState, CallFine
<1>3. PICK f, active, wt : f = facts[w] /\ active = calls[c].active /\ wt = RequestOf[c].worktree
  OBVIOUS
<1>4. Supply(c, facts, o)[w] = Candidate(w, f, active, o, wt)
  BY <1>1, <1>3 DEF Supply
<1> QED
  BY <1>1, <1>2, <1>3, <1>4, CandidateType

(* A worker for the node, or none that can be had: waiting or expanding. *)
LEMMA FirstPlanFine ==
  ASSUME ElasticInv, NEW c \in Calls, FirstPlan(c)
  PROVE  ElasticInv'
<1>1. /\ calls[c] # None /\ calls[c].pc = "supply" /\ calls[c].res = None
      /\ UNCHANGED <<vars, exists, made>>
  BY DEF FirstPlan, At
<1>2. PICK facts \in [exists -> Facts] :
        \/ Finish(c, "WAIT")
        \/ \E w \in Assignable(RequestOf[c], Supply(c, facts, None)) :
             Assign(c, Supply(c, facts, None)[w])
        \/ Goto(c, "policy")
  BY DEF FirstPlan
<1>3. CASE Finish(c, "WAIT")
  BY <1>1, <1>3, FinishFine DEF CallOutcomes
<1>4. CASE \E w \in Assignable(RequestOf[c], Supply(c, facts, None)) :
             Assign(c, Supply(c, facts, None)[w])
  <2>1. PICK w, cand :
          /\ w \in DOMAIN Supply(c, facts, None)
          /\ cand = Supply(c, facts, None)[w] /\ Assign(c, cand)
    BY <1>4 DEF Assignable, Available
  <2>2. cand \in WorkerLeaseCandidate
    BY <1>1, <2>1, SupplyType
  <2> QED
    BY <1>1, <2>1, <2>2, AssignFine
<1>5. CASE Goto(c, "policy")
  <2>1. PICK k : k = [calls[c] EXCEPT !.pc = "policy"]
    OBVIOUS
  <2>2. /\ k \in CallState /\ k.pc = "policy" /\ k.res = None
        /\ k.worker = calls[c].worker /\ k.bind = calls[c].bind /\ k.active = calls[c].active
    BY <1>1, <2>1, CallFacts DEF CallState, Places
  <2>3. CallFine(c, k)
    BY <1>1, <2>2, CallFacts DEF CallFine, Reserving, HandedOver
  <2> QED
    BY <1>1, <1>5, <2>1, <2>2, <2>3, QuietMove DEF Goto
<1> QED
  BY <1>2, <1>3, <1>4, <1>5

(* The second plan is for the worker that was made, or for none. *)
LEMMA SecondPlanFine ==
  ASSUME ElasticInv, NEW c \in Calls, SecondPlan(c)
  PROVE  ElasticInv'
<1>1. /\ calls[c] # None /\ calls[c].pc = "supply" /\ calls[c].res # None
      /\ UNCHANGED <<vars, exists, made>>
  BY DEF SecondPlan, At
<1>2. PICK facts \in [exists -> Facts] :
        \/ /\ calls[c].worker \in Assignable(RequestOf[c], Supply(c, facts, OwnerOf[c]))
           /\ Assign(c, Supply(c, facts, OwnerOf[c])[calls[c].worker])
        \/ calls' = [calls EXCEPT ![c].pc = "abandon", ![c].out = "RECOVERY"]
  BY DEF SecondPlan
<1>3. CASE /\ calls[c].worker \in Assignable(RequestOf[c], Supply(c, facts, OwnerOf[c]))
           /\ Assign(c, Supply(c, facts, OwnerOf[c])[calls[c].worker])
  <2>1. PICK w, o, cand :
          /\ w \in DOMAIN Supply(c, facts, OwnerOf[c])
          /\ w = calls[c].worker /\ o = OwnerOf[c]
          /\ cand = Supply(c, facts, o)[w] /\ Assign(c, cand)
    BY <1>3 DEF Assignable, Available
  <2>2. cand \in WorkerLeaseCandidate /\ cand.worker = w
    BY <1>1, <2>1, SupplyType
  <2> QED
    BY <1>1, <2>1, <2>2, AssignFine
<1>4. CASE calls' = [calls EXCEPT ![c].pc = "abandon", ![c].out = "RECOVERY"]
  BY <1>1, <1>4, ToAbandon DEF HandedOver, CallOutcomes
<1> QED
  BY <1>2, <1>3, <1>4

(* expand looks at the one worker it had made. *)
LEMMA ObserveFine ==
  ASSUME ElasticInv, NEW c \in Calls, Observe(c)
  PROVE  ElasticInv'
<1>1. calls[c] # None /\ calls[c].pc = "observe" /\ UNCHANGED <<vars, exists, made>>
  BY DEF Observe, At
<1>2. calls[c].res # None /\ calls[c].worker \in Workers
  BY <1>1, CallFacts DEF CallFine, Holds, Reserving, HandedOver, CallState
<1>3. CASE \E f \in Facts :
             calls' = [calls EXCEPT ![c].pc = "acquire",
               ![c].cand = Candidate(calls[c].worker, f, Active, OwnerOf[c],
                                     RequestOf[c].worktree)]
  <2>1. PICK f \in Facts :
          calls' = [calls EXCEPT ![c].pc = "acquire",
             ![c].cand = Candidate(calls[c].worker, f, Active, OwnerOf[c],
                                   RequestOf[c].worktree)]
    BY <1>3
  <2>2. PICK w, active, o, wt : /\ w = calls[c].worker /\ active = Active
                                /\ o = OwnerOf[c] /\ wt = RequestOf[c].worktree
    OBVIOUS
  <2>3. PICK cand : cand = Candidate(w, f, active, o, wt)
    OBVIOUS
  <2>4. calls' = [calls EXCEPT ![c].pc = "acquire", ![c].cand = cand]
    BY <2>1, <2>2, <2>3
  <2>5. active \in SUBSET LeaseIds /\ \A l \in active : leases[l] # None
    BY <2>2 DEF Active, IsActive
  <2>6. cand \in WorkerLeaseCandidate /\ cand.worker = w
    BY <1>2, <2>2, <2>3, <2>5, CandidateType
  <2> QED
    BY <1>1, <2>2, <2>4, <2>6, ToAcquire
<1>4. CASE calls' = [calls EXCEPT ![c].pc = "abandon", ![c].out = "RECOVERY"]
  BY <1>1, <1>2, <1>4, ToAbandon DEF HandedOver, CallOutcomes
<1> QED
  BY <1>3, <1>4 DEF Observe

(* The batch has run the task; a made worker is confirmed next. *)
LEMMA RunFine ==
  ASSUME ElasticInv, NEW c \in Calls, Run(c)
  PROVE  ElasticInv'
<1>1. calls[c] # None /\ calls[c].pc = "run" /\ UNCHANGED <<vars, exists, made>>
  BY DEF Run, At
<1>2. CASE calls[c].res = None /\ Finish(c, "EXECUTED")
  BY <1>1, <1>2, FinishFine DEF CallOutcomes
<1>3. CASE calls[c].res # None /\ Goto(c, "finalize")
  <2>1. PICK k : k = [calls[c] EXCEPT !.pc = "finalize"]
    OBVIOUS
  <2>2. /\ k \in CallState /\ k.pc = "finalize" /\ k.res = calls[c].res
        /\ k.worker = calls[c].worker /\ k.bind = calls[c].bind /\ k.active = calls[c].active
    BY <1>1, <2>1, CallFacts DEF CallState, Places
  <2>3. CallFine(c, k)
    BY <1>1, <1>3, <2>2, CallFacts DEF CallFine, Holds, Reserving, HandedOver
  <2> QED
    BY <1>1, <1>3, <2>1, <2>2, <2>3, QuietMove DEF Goto
<1>4. CASE Settle(c, "RECOVERY")
  BY <1>1, <1>4, SettleFine DEF CallOutcomes, HandedOver
<1> QED
  BY <1>2, <1>3, <1>4 DEF Run

(* A call may die anywhere: what it held stays in the store. *)
LEMMA CrashCallFine ==
  ASSUME ElasticInv, NEW c \in Calls, CrashCall(c)
  PROVE  ElasticInv'
<1>1. calls[c] # None /\ Goto(c, "dead") /\ UNCHANGED <<vars, exists, made>>
  BY DEF CrashCall, Live
<1>2. PICK k : k = [calls[c] EXCEPT !.pc = "dead"]
  OBVIOUS
<1>3. /\ k \in CallState /\ k.pc = "dead" /\ k.res = calls[c].res
      /\ k.worker = calls[c].worker /\ k.bind = calls[c].bind /\ k.active = calls[c].active
  BY <1>1, <1>2, CallFacts DEF CallState, Places
<1>4. CallFine(c, k)
  BY <1>1, <1>3, CallFacts DEF CallFine, Holds, Reserving, HandedOver
<1> QED
  BY <1>1, <1>2, <1>3, <1>4, QuietMove DEF Goto
-------------------------------------------------------------------------------
(* Marks on a reservation *)

(* A step of the store keeps what the store keeps. *)
LEMMA StoreKeeps ==
  ASSUME ElasticInv, [Next]_vars
  PROVE  TypeOK' /\ LeaseInv' /\ CapacityInv'
  BY NextTypeOK, NextLeaseInv, NextCapacityInv DEF ElasticInv, LeaseInv

(* A mark rewrites one reservation, which keeps its owner. *)
LEMMA MarkRow ==
  ASSUME ElasticInv, NEW r \in ReservationIds, NEW target \in ReservationStates,
         NEW w \in AdapterWorkers(target), TransitionReservation(r, target, w, clock)
  PROVE  /\ [Next]_vars
         /\ LeasesStay
         /\ reservations[r] # None /\ reservations'[r] # None
         /\ target \in AllowedTransitions(reservations[r].state)
         /\ reservations'[r].owner = reservations[r].owner
         /\ reservations'[r].state = target
         /\ reservations'[r].worker = w
         /\ \A q \in ReservationIds \ {r} : reservations'[q] = reservations[q]
<1>1. clock \in 0..clock
  BY DEF ElasticInv, ElasticTypeOK, TypeOK
<1>2. [Next]_vars
  BY <1>1 DEF Next
<1>3. TypeOK /\ TypeOK'
  BY <1>2, StoreKeeps DEF ElasticInv, ElasticTypeOK
<1>4. reservations[r] \in Reservation /\ reservations[r] # None
  BY <1>3 DEF TypeOK, TransitionReservation, MayTransition
<1>5. reservations' = [reservations EXCEPT ![r] =
        [reservations[r] EXCEPT !.state = target, !.worker = w, !.updated = clock]]
  BY DEF TransitionReservation
<1>6. /\ reservations'[r] = [reservations[r] EXCEPT !.state = target, !.worker = w,
                                                    !.updated = clock]
      /\ \A q \in ReservationIds \ {r} : reservations'[q] = reservations[q]
  BY <1>3, <1>5 DEF TypeOK
<1>7. /\ reservations'[r].owner = reservations[r].owner
      /\ reservations'[r].state = target
      /\ reservations'[r].worker = w
      /\ reservations'[r] \in Reservation
  <2>1. w \in Workers \cup {None} /\ clock \in Nat
    BY <1>3 DEF AdapterWorkers, ReservationStates, TypeOK
  <2> QED
    BY <1>4, <1>6, <2>1 DEF Reservation
<1>8. LeasesStay
  BY DEF TransitionReservation, LeasesStay
<1> QED
  BY <1>2, <1>4, <1>6, <1>7, <1>8, NullAssumption DEF TransitionReservation, MayTransition

(* It binds no worker but the one made, and confirms only what is leased. *)
LEMMA MarkWorld ==
  ASSUME ElasticInv, NEW r \in ReservationIds, NEW target \in ReservationStates,
         NEW w \in AdapterWorkers(target), TransitionReservation(r, target, w, clock),
         UNCHANGED <<exists, made>>, w # None => w = made[r],
         target = "CAPACITY" => Leased(made[r], reservations[r].owner),
         target = "RELEASED" => made[r] = None
  PROVE  World'
<1>1. /\ LeasesStay
      /\ reservations[r] # None /\ reservations'[r] # None
      /\ target \in AllowedTransitions(reservations[r].state)
      /\ reservations'[r].owner = reservations[r].owner
      /\ reservations'[r].state = target
      /\ reservations'[r].worker = w
      /\ \A q \in ReservationIds \ {r} : reservations'[q] = reservations[q]
  BY MarkRow
<1>2. /\ target \in {"PROVISIONING", "PROVISIONED", "CAPACITY", "RECOVERY_REQUIRED", "RELEASED"}
      /\ r \in Consuming
  BY <1>1 DEF AllowedTransitions, Consuming, IsConsuming
<1>3. OneReservationEach'
  BY <1>1, <1>2 DEF ElasticInv, World, OneReservationEach, Consuming, IsConsuming
<1>4. MadeFine'
  BY <1>1, <1>2 DEF ElasticInv, World, MadeFine, Made
<1>5. BoundIsMade'
  BY <1>1 DEF ElasticInv, World, BoundIsMade
<1>6. ConfirmedWasLeased'
  <2>1. target = "CAPACITY" => Leased(made[r], reservations[r].owner)'
    BY <1>1 DEF Leased, LeasesStay
  <2> QED
    BY <1>1, <2>1 DEF ElasticInv, World, ConfirmedWasLeased, LeasesStay, Leased
<1> QED
  BY <1>3, <1>4, <1>5, <1>6 DEF World

(* The call that made the reservation marks it and moves on. *)
LEMMA MarkMove ==
  ASSUME ElasticInv, NEW c \in Calls, calls[c] # None,
         NEW r \in ReservationIds, r = calls[c].res,
         NEW target \in ReservationStates, NEW w \in AdapterWorkers(target),
         TransitionReservation(r, target, w, clock), UNCHANGED <<exists, made>>,
         w # None => w = made[r],
         target = "CAPACITY" => Leased(made[r], reservations[r].owner),
         target = "RELEASED" => made[r] = None,
         NEW k \in CallState, k.res = r, calls' = [calls EXCEPT ![c] = k],
         CallFine(c, k)'
  PROVE  ElasticInv'
<1>1. World'
  BY MarkWorld
<1>2. [Next]_vars /\ LeasesStay /\ OthersStay(r)
  BY MarkRow DEF OthersStay
<1>3. TypeOK' /\ LeaseInv' /\ CapacityInv'
  BY <1>2, StoreKeeps
<1>4. \A d \in Calls \ {c} : (calls[d] # None /\ k.res # None) => calls[d].res # k.res
  BY DEF ElasticInv, Unshared
<1>5. /\ calls' = [d \in Calls |-> calls'[d]]
      /\ \A d \in Calls : calls'[d] # None => calls'[d] \in CallState
      /\ CallsFine' /\ Unshared'
  BY <1>2, <1>4, CallMoves
<1>6. ElasticTypeOK'
  BY <1>3, <1>5 DEF ElasticInv, ElasticTypeOK
<1> QED
  BY <1>1, <1>3, <1>5, <1>6 DEF ElasticInv

(* The reservation a call acts on. *)
LEMMA OwnReservation ==
  ASSUME ElasticInv, NEW c \in Calls, calls[c] # None, calls[c].pc \in Reserving
  PROVE  calls[c].res \in ReservationIds /\ calls[c].res # None /\ Holds(c, calls[c])
  BY CallFacts DEF CallFine, CallState

(* The start is on record before the provisioner is asked. *)
LEMMA StartFine ==
  ASSUME ElasticInv, NEW c \in Calls, Start(c)
  PROVE  ElasticInv'
<1>1. calls[c] # None /\ calls[c].pc = "start" /\ UNCHANGED <<exists, made>>
  BY DEF Start, At
<1>2. CASE /\ TransitionReservation(calls[c].res, "PROVISIONING", None, clock)
           /\ Goto(c, "provision")
  <2>1. PICK r \in ReservationIds : r = calls[c].res /\ r # None
    BY <1>1, OwnReservation DEF Reserving
  <2>2. PICK k : k = [calls[c] EXCEPT !.pc = "provision"]
    OBVIOUS
  <2>3. /\ k \in CallState /\ k.pc = "provision" /\ k.res = r
        /\ k.worker = calls[c].worker /\ k.bind = calls[c].bind /\ k.active = calls[c].active
    BY <1>1, <2>1, <2>2, CallFacts DEF CallState, Places
  <2>4. TransitionReservation(r, "PROVISIONING", None, clock)
        /\ calls' = [calls EXCEPT ![c] = k]
    BY <1>2, <2>1, <2>2 DEF Goto
  <2>5. "PROVISIONING" \in ReservationStates /\ None \in AdapterWorkers("PROVISIONING")
    BY DEF ReservationStates, AdapterWorkers
  <2>6. /\ LeasesStay /\ reservations'[r] # None /\ reservations'[r].state = "PROVISIONING"
        /\ reservations'[r].owner = reservations[r].owner
    BY <2>4, <2>5, MarkRow
  <2>7. CallFine(c, k)'
    BY <1>1, <2>1, <2>3, <2>6, CallFacts
    DEF CallFine, Holds, Reserving, HandedOver, LeasesStay, CallState
  <2> QED
    BY <1>1, <2>1, <2>3, <2>4, <2>5, <2>7, MarkMove
<1>3. CASE MarkFails(c, "PROVISIONING", None) /\ Finish(c, "RECOVERY")
  BY <1>1, <1>3, FinishFine DEF MarkFails, CallOutcomes
<1> QED
  BY <1>2, <1>3 DEF Start

(* The worker is published before anybody may see it as free. *)
LEMMA PublishFine ==
  ASSUME ElasticInv, NEW c \in Calls, Publish(c)
  PROVE  ElasticInv'
<1>1. calls[c] # None /\ calls[c].pc = "publish" /\ UNCHANGED <<exists, made>>
  BY DEF Publish, At
<1>2. PICK r \in ReservationIds, w \in Workers :
        /\ r = calls[c].res /\ r # None /\ w = calls[c].worker
        /\ w = made[r] /\ w # None /\ Holds(c, calls[c])
  BY <1>1, OwnReservation, CallFacts, ConstantsAssumption DEF Reserving, Holds, CallState
<1>3. CASE /\ TransitionReservation(calls[c].res, "PROVISIONED", calls[c].worker, clock)
           /\ Goto(c, IF c \in ViaExpand THEN "observe" ELSE "leases")
  <2>1. PICK pc \in {"observe", "leases"} :
          pc = IF c \in ViaExpand THEN "observe" ELSE "leases"
    OBVIOUS
  <2>2. PICK k : k = [calls[c] EXCEPT !.pc = pc]
    OBVIOUS
  <2>3. /\ k \in CallState /\ k.pc = pc /\ k.res = r
        /\ k.worker = calls[c].worker /\ k.bind = calls[c].bind /\ k.active = calls[c].active
    BY <1>1, <1>2, <2>2, CallFacts DEF CallState, Places
  <2>4. TransitionReservation(r, "PROVISIONED", w, clock) /\ calls' = [calls EXCEPT ![c] = k]
    BY <1>2, <1>3, <2>1, <2>2 DEF Goto
  <2>5. "PROVISIONED" \in ReservationStates /\ w \in AdapterWorkers("PROVISIONED")
    BY DEF ReservationStates, AdapterWorkers
  <2>6. /\ LeasesStay /\ reservations'[r] # None /\ reservations'[r].state = "PROVISIONED"
        /\ reservations'[r].owner = reservations[r].owner
    BY <2>4, <2>5, MarkRow
  <2>7. CallFine(c, k)'
    BY <1>1, <1>2, <2>3, <2>6, CallFacts
    DEF CallFine, Holds, Reserving, HandedOver, LeasesStay, CallState
  <2> QED
    BY <1>1, <1>2, <2>3, <2>4, <2>5, <2>7, MarkMove
<1>4. CASE /\ MarkFails(c, "PROVISIONED", calls[c].worker)
           /\ calls' = [calls EXCEPT ![c].pc = "abandon", ![c].out = "RECOVERY"]
  BY <1>1, <1>2, <1>4, ToAbandon DEF MarkFails, CallOutcomes
<1> QED
  BY <1>3, <1>4 DEF Publish

(* The hand-off is confirmed when its worker has been leased. *)
LEMMA FinalizeFine ==
  ASSUME ElasticInv, NEW c \in Calls, Finalize(c)
  PROVE  ElasticInv'
<1>1. calls[c] # None /\ calls[c].pc = "finalize" /\ UNCHANGED <<exists, made>>
  BY DEF Finalize, At
<1>2. PICK r \in ReservationIds, w \in Workers :
        /\ r = calls[c].res /\ r # None /\ w = calls[c].worker
        /\ w = made[r] /\ w # None /\ Holds(c, calls[c])
  BY <1>1, OwnReservation, CallFacts, ConstantsAssumption
  DEF Reserving, HandedOver, Holds, CallState
<1>3. Leased(made[r], reservations[r].owner)
  BY <1>1, <1>2 DEF Holds
<1>4. CASE /\ TransitionReservation(calls[c].res, "CAPACITY", calls[c].worker, clock)
           /\ Finish(c, "EXECUTED")
  <2>1. PICK k : k = [calls[c] EXCEPT !.pc = "end", !.out = "EXECUTED"]
    OBVIOUS
  <2>2. /\ k \in CallState /\ k.pc = "end" /\ k.out = "EXECUTED" /\ k.res = r
        /\ k.worker = calls[c].worker /\ k.bind = calls[c].bind /\ k.active = calls[c].active
    BY <1>1, <1>2, <2>1, CallFacts DEF CallState, Places, CallOutcomes
  <2>3. TransitionReservation(r, "CAPACITY", w, clock) /\ calls' = [calls EXCEPT ![c] = k]
    BY <1>2, <1>4, <2>1 DEF Finish
  <2>4. "CAPACITY" \in ReservationStates /\ w \in AdapterWorkers("CAPACITY")
    BY DEF ReservationStates, AdapterWorkers
  <2>5. /\ LeasesStay /\ reservations'[r] # None
        /\ reservations'[r].owner = reservations[r].owner
    BY <2>3, <2>4, MarkRow
  <2>6. CallFine(c, k)'
    BY <1>1, <1>2, <2>2, <2>5, CallFacts
    DEF CallFine, Holds, Reserving, HandedOver, LeasesStay, CallState
  <2> QED
    BY <1>1, <1>2, <1>3, <2>2, <2>3, <2>4, <2>6, MarkMove
<1>5. CASE MarkFails(c, "CAPACITY", calls[c].worker) /\ Settle(c, "RECOVERY")
  BY <1>1, <1>5, SettleFine DEF MarkFails, CallOutcomes, HandedOver
<1> QED
  BY <1>4, <1>5 DEF Finalize

(***************************************************************************)
(* The mark for recovery is never refused: the reservation is still open,   *)
(* and no other one names its worker.                                       *)
(***************************************************************************)
LEMMA RecoveryMarkMay ==
  ASSUME ElasticInv, NEW c \in Calls, calls[c] # None, calls[c].pc = "abandon"
  PROVE  MayTransition(calls[c].res, "RECOVERY_REQUIRED", calls[c].bind, clock)
<1>1. PICK r, w :
        /\ r \in ReservationIds /\ r = calls[c].res /\ r # None
        /\ w = calls[c].bind /\ Holds(c, calls[c])
  BY OwnReservation DEF Reserving
<1>2. /\ reservations[r] # None
      /\ "RECOVERY_REQUIRED" \in AllowedTransitions(reservations[r].state)
      /\ w # None => w = made[r]
  BY <1>1 DEF Holds, AllowedTransitions
<1>3. ASSUME w # None, NEW q \in Consuming \ {r}
      PROVE  reservations[q].worker # w
  <2>1. SUFFICES ASSUME reservations[q].worker = w PROVE FALSE
    OBVIOUS
  <2>2. q \in ReservationIds /\ reservations[q] # None /\ made[q] = w
    BY <1>3, <2>1 DEF ElasticInv, World, BoundIsMade, Consuming, IsConsuming
  <2> QED
    BY <1>1, <1>2, <1>3, <2>2 DEF ElasticInv, World, MadeFine, Made
<1>4. clock <= clock
  BY DEF ElasticInv, ElasticTypeOK, TypeOK
<1> QED
  BY <1>1, <1>2, <1>3, <1>4 DEF MayTransition

(* Recovery is on record, or the store has failed. *)
LEMMA AbandonFine ==
  ASSUME ElasticInv, NEW c \in Calls, Abandon(c)
  PROVE  ElasticInv'
<1>1. /\ calls[c] # None /\ calls[c].pc = "abandon" /\ UNCHANGED <<exists, made>>
      /\ Goto(c, "end")
  BY DEF Abandon, At
<1>2. PICK r, w :
        /\ r \in ReservationIds
        /\ r = calls[c].res /\ r # None /\ w = calls[c].bind
        /\ w \in Workers \cup {None} /\ Holds(c, calls[c])
  BY <1>1, OwnReservation, CallFacts DEF Reserving, CallState
<1>3. PICK k : k = [calls[c] EXCEPT !.pc = "end"]
  OBVIOUS
<1>4. /\ k \in CallState /\ k.pc = "end" /\ k.res = r /\ k.out = calls[c].out
      /\ k.worker = calls[c].worker /\ k.bind = calls[c].bind /\ k.active = calls[c].active
  BY <1>1, <1>2, <1>3, CallFacts DEF CallState, Places
<1>5. calls' = [calls EXCEPT ![c] = k]
  BY <1>1, <1>3 DEF Goto
<1>6. CASE TransitionReservation(calls[c].res, "RECOVERY_REQUIRED", calls[c].bind, clock)
  <2>1. TransitionReservation(r, "RECOVERY_REQUIRED", w, clock)
    BY <1>2, <1>6
  <2>2. /\ "RECOVERY_REQUIRED" \in ReservationStates
        /\ w \in AdapterWorkers("RECOVERY_REQUIRED")
    BY <1>2 DEF ReservationStates, AdapterWorkers
  <2>3. /\ LeasesStay /\ reservations'[r] # None
        /\ reservations'[r].state = "RECOVERY_REQUIRED"
        /\ reservations'[r].owner = reservations[r].owner
    BY <1>2, <2>1, <2>2, MarkRow
  <2>4. CallFine(c, k)'
    BY <1>1, <1>2, <1>4, <2>3, CallFacts
    DEF CallFine, Holds, Reserving, HandedOver, LeasesStay, CallState
  <2>5. w # None => w = made[r]
    BY <1>2 DEF Holds
  <2> QED
    BY <1>1, <1>2, <1>4, <1>5, <2>1, <2>2, <2>4, <2>5, MarkMove
<1>7. CASE MarkFails(c, "RECOVERY_REQUIRED", calls[c].bind)
  <2>1. c \in Faults /\ UNCHANGED vars
    BY <1>1, <1>7, RecoveryMarkMay DEF MarkFails
  <2>2. CallFine(c, k)
    BY <1>1, <1>2, <1>4, <2>1, CallFacts DEF CallFine, Holds, Reserving, HandedOver
  <2> QED
    BY <1>1, <1>2, <1>4, <1>5, <2>1, <2>2, QuietMove
<1> QED
  BY <1>6, <1>7 DEF Abandon
-------------------------------------------------------------------------------
(* Reservations, workers and leases that come into being *)

(* A task has one open reservation, and no worker was made for a new one. *)
LEMMA ReserveFine ==
  ASSUME ElasticInv, NEW c \in Calls, Reserve(c)
  PROVE  ElasticInv'
<1>1. calls[c] # None /\ calls[c].pc = "reserve" /\ UNCHANGED <<exists, made>>
  BY DEF Reserve, At
<1>2. calls[c].res = None
  BY <1>1, CallFacts DEF CallFine, Holds
<1>3. CASE \E r \in ReservationIds :
             /\ AcquireReservation(OwnerOf[c], Terms(c), r, clock)
             /\ calls' = [calls EXCEPT ![c].pc = "start", ![c].res = r]
  <2>1. PICK r, o, terms :
          /\ r \in ReservationIds
          /\ AcquireReservation(o, terms, r, clock) /\ o = OwnerOf[c] /\ terms = Terms(c)
          /\ calls' = [calls EXCEPT ![c].pc = "start", ![c].res = r]
    BY <1>3
  <2>2. o \in Owners /\ terms \in ProvisionTerms /\ clock \in 0..clock
    BY <2>1, ElasticAssumption DEF Terms, ElasticInv, ElasticTypeOK, TypeOK
  <2>3. [Next]_vars
    BY <2>1, <2>2 DEF Next
  <2>4. TypeOK /\ TypeOK' /\ LeaseInv' /\ CapacityInv'
    BY <2>3, StoreKeeps DEF ElasticInv, ElasticTypeOK
  <2>5. /\ reservations'[r] = [owner |-> o, terms |-> terms, state |-> "PRE_PROVISION",
                               worker |-> None, updated |-> clock]
        /\ \A q \in ReservationIds \ {r} : reservations'[q] = reservations[q]
        /\ reservations[r] = None
        /\ UNCHANGED leases
        /\ \A q \in Consuming : reservations[q].owner # o
    BY <2>1, <2>4 DEF AcquireReservation, TypeOK
  <2>6. reservations'[r] # None
    <3>1. reservations'[r] \in Reservation
      BY <2>2, <2>4, <2>5 DEF Reservation, ReservationStates, TypeOK
    <3> QED
      BY <3>1, NullAssumption
  <2>7. made[r] = None
    BY <2>1, <2>5 DEF ElasticInv, World, MadeFine, Made
  <2>8. LeasesStay /\ OthersStay(r)
    BY <1>1, <2>5 DEF LeasesStay, OthersStay
  <2>9. World'
    <3>1. OneReservationEach'
      BY <2>5, <2>6 DEF ElasticInv, World, OneReservationEach, Consuming, IsConsuming
    <3>2. MadeFine'
      BY <1>1, <2>5, <2>7 DEF ElasticInv, World, MadeFine, Made
    <3>3. BoundIsMade'
      BY <1>1, <2>5 DEF ElasticInv, World, BoundIsMade
    <3>4. ConfirmedWasLeased'
      BY <1>1, <2>5 DEF ElasticInv, World, ConfirmedWasLeased
    <3> QED
      BY <3>1, <3>2, <3>3, <3>4 DEF World
  <2>10. PICK k : k = [calls[c] EXCEPT !.pc = "start", !.res = r]
    OBVIOUS
  <2>11. /\ k \in CallState /\ k.pc = "start" /\ k.res = r
         /\ k.worker = calls[c].worker /\ k.bind = calls[c].bind /\ k.active = calls[c].active
    BY <1>1, <2>1, <2>10, CallFacts DEF CallState, Places
  <2>12. k.worker = None /\ k.bind = None
    BY <1>1, <1>2, <2>11, CallFacts DEF CallFine
  <2>13. CallFine(c, k)'
    BY <1>1, <2>1, <2>5, <2>6, <2>7, <2>11, <2>12, CallFacts, NoCallAssumption
    DEF CallFine, Holds, Reserving, HandedOver
  <2>14. \A d \in Calls \ {c} : (calls[d] # None /\ k.res # None) => calls[d].res # k.res
    BY <2>5, <2>11, CallFacts DEF CallFine, Holds
  <2>15. calls' = [calls EXCEPT ![c] = k]
    BY <2>1, <2>10
  <2>16. /\ calls' = [d \in Calls |-> calls'[d]]
         /\ \A d \in Calls : calls'[d] # None => calls'[d] \in CallState
         /\ CallsFine' /\ Unshared'
    BY <2>8, <2>11, <2>13, <2>14, <2>15, CallMoves
  <2>17. ElasticTypeOK'
    BY <1>1, <2>4, <2>16 DEF ElasticInv, ElasticTypeOK
  <2> QED
    BY <2>4, <2>9, <2>16, <2>17 DEF ElasticInv
<1>4. CASE UNCHANGED vars /\ \E out \in CallOutcomes : Finish(c, out)
  BY <1>1, <1>2, <1>4, FinishFine
<1> QED
  BY <1>3, <1>4 DEF Reserve, CallOutcomes

(***************************************************************************)
(* A worker is made for a reservation that has been marked as started and   *)
(* for which none was made.                                                 *)
(***************************************************************************)
LEMMA ProvisionFine ==
  ASSUME ElasticInv, NEW c \in Calls, Provision(c)
  PROVE  ElasticInv'
<1>1. calls[c] # None /\ calls[c].pc = "provision" /\ UNCHANGED vars
  BY DEF Provision, At
<1>2. PICK r \in ReservationIds :
        r = calls[c].res /\ r # None /\ Holds(c, calls[c]) /\ made[r] = None
  BY <1>1, OwnReservation DEF Reserving, Holds
<1>3. reservations[r] # None /\ reservations[r].state = "PROVISIONING"
  BY <1>1, <1>2 DEF Holds
<1>4. calls[c].worker = None /\ calls[c].bind = None
  BY <1>2 DEF Holds
<1>5. CASE /\ calls' = [calls EXCEPT ![c].pc = "abandon", ![c].out = "RECOVERY"]
           /\ UNCHANGED <<exists, made>>
  <2>1. calls' = [calls EXCEPT ![c] = [calls[c] EXCEPT !.pc = "abandon", !.out = "RECOVERY"]]
    BY <1>5
  <2>2. CallFine(c, [calls[c] EXCEPT !.pc = "abandon", !.out = "RECOVERY"])
    BY <1>1, <1>2, CallFacts DEF CallFine, Holds, CallState, Reserving, HandedOver
  <2> QED
    BY <1>1, <1>5, <2>1, <2>2, QuietGoes DEF Places, CallOutcomes
<1>6. CASE \E w \in Workers \ exists :
             /\ exists' = exists \cup {w}
             /\ made' = [made EXCEPT ![calls[c].res] = w]
             /\ \/ calls' = [calls EXCEPT ![c].pc = "publish", ![c].worker = w, ![c].bind = w]
                \/ calls' = [calls EXCEPT ![c].pc = "abandon", ![c].bind = w,
                                          ![c].out = "RECOVERY"]
                \/ calls' = [calls EXCEPT ![c].pc = "abandon", ![c].out = "RECOVERY"]
  <2>1. PICK w \in Workers \ exists :
          /\ exists' = exists \cup {w}
          /\ made' = [made EXCEPT ![r] = w]
          /\ \/ calls' = [calls EXCEPT ![c].pc = "publish", ![c].worker = w, ![c].bind = w]
             \/ calls' = [calls EXCEPT ![c].pc = "abandon", ![c].bind = w,
                                       ![c].out = "RECOVERY"]
             \/ calls' = [calls EXCEPT ![c].pc = "abandon", ![c].out = "RECOVERY"]
    BY <1>2, <1>6
  <2>2. w # None /\ made'[r] = w /\ \A q \in ReservationIds \ {r} : made'[q] = made[q]
    BY <2>1, ConstantsAssumption DEF ElasticInv, ElasticTypeOK
  <2>3. TypeOK' /\ LeaseInv' /\ CapacityInv' /\ LeasesStay
    BY <1>1, StoreStays
  <2>4. OthersStay(r)
    BY <1>1, <2>2 DEF OthersStay, vars
  <2>5. World'
    <3>1. OneReservationEach'
      BY <1>1 DEF ElasticInv, World, OneReservationEach, Consuming, IsConsuming, vars
    <3>2. MadeFine'
      BY <1>1, <1>3, <2>1, <2>2 DEF ElasticInv, World, MadeFine, Made, vars
    <3>3. BoundIsMade'
      BY <1>1, <1>2, <2>2, ConstantsAssumption DEF ElasticInv, World, BoundIsMade, vars
    <3>4. ConfirmedWasLeased'
      BY <1>1, <1>3, <2>2 DEF ElasticInv, World, ConfirmedWasLeased, vars
    <3> QED
      BY <3>1, <3>2, <3>3, <3>4 DEF World
  <2>6. PICK k :
          /\ calls' = [calls EXCEPT ![c] = k]
          /\ k \in {[calls[c] EXCEPT !.pc = "publish", !.worker = w, !.bind = w],
                    [calls[c] EXCEPT !.pc = "abandon", !.bind = w, !.out = "RECOVERY"],
                    [calls[c] EXCEPT !.pc = "abandon", !.out = "RECOVERY"]}
    <3>1. PICK told : told = [calls[c] EXCEPT !.pc = "publish", !.worker = w, !.bind = w]
      OBVIOUS
    <3>2. PICK named : named = [calls[c] EXCEPT !.pc = "abandon", !.bind = w, !.out = "RECOVERY"]
      OBVIOUS
    <3>3. PICK lost : lost = [calls[c] EXCEPT !.pc = "abandon", !.out = "RECOVERY"]
      OBVIOUS
    <3>4. \/ calls' = [calls EXCEPT ![c] = told]
          \/ calls' = [calls EXCEPT ![c] = named]
          \/ calls' = [calls EXCEPT ![c] = lost]
      BY <2>1, <3>1, <3>2, <3>3
    <3>5. \E k \in {told, named, lost} : calls' = [calls EXCEPT ![c] = k]
      BY <3>4
    <3> QED
      BY <3>1, <3>2, <3>3, <3>5
  <2>7. /\ k \in CallState /\ k.res = r /\ k.active = calls[c].active
        /\ k.pc \in {"publish", "abandon"}
        /\ k.worker \in {w, None} /\ k.bind \in {w, None}
        /\ k.pc = "publish" => k.worker = w
    BY <1>1, <1>2, <1>4, <2>6, CallFacts DEF CallState, Places, CallOutcomes
  <2>8. CallFine(c, k)'
    BY <1>1, <1>2, <1>3, <2>2, <2>7, CallFacts
    DEF CallFine, Holds, Reserving, HandedOver, vars
  <2>9. \A d \in Calls \ {c} : (calls[d] # None /\ k.res # None) => calls[d].res # k.res
    BY <1>1, <1>2, <2>7 DEF ElasticInv, Unshared
  <2>10. /\ calls' = [d \in Calls |-> calls'[d]]
         /\ \A d \in Calls : calls'[d] # None => calls'[d] \in CallState
         /\ CallsFine' /\ Unshared'
    BY <2>3, <2>4, <2>6, <2>7, <2>8, <2>9, CallMoves
  <2>11. ElasticTypeOK'
    BY <2>1, <2>3, <2>10 DEF ElasticInv, ElasticTypeOK
  <2> QED
    BY <2>3, <2>5, <2>10, <2>11 DEF ElasticInv
<1> QED
  BY <1>5, <1>6 DEF Provision

(* The one worker a call asks for is a request callers use. *)
LEMMA NarrowRequest ==
  ASSUME NEW c \in Calls, NEW w \in Workers
  PROVE  /\ [RequestOf[c] EXCEPT !.workers = {w}] \in Requests
         /\ w \in [RequestOf[c] EXCEPT !.workers = {w}].workers
<1>1. "workers" \in DOMAIN RequestOf[c]
  BY ElasticAssumption, RequestsAssumption DEF WorkerLeaseRequest, RequestFields
<1> QED
  BY <1>1, ElasticAssumption

(* A new lease row has its worker and owner, and takes no row's place. *)
LEMMA NewLeaseRow ==
  ASSUME ElasticInv, NEW o \in Owners, NEW req \in Requests, NEW id \in LeaseIds,
         NEW w \in req.workers, TryAcquire(o, req, w, id, clock)
  PROVE  /\ [Next]_vars
         /\ LeasesStay
         /\ UNCHANGED reservations
         /\ Leased(w, o)'
<1>1. clock \in 0..clock /\ clock \in Nat /\ TypeOK
  BY DEF ElasticInv, ElasticTypeOK, TypeOK
<1>2. [Next]_vars
  BY <1>1 DEF Next
<1>3. leases[id] = None
  BY DEF TryAcquire, AcquireVerdict
<1>4. PICK row : row = NewLease(o, req, w, clock)
  OBVIOUS
<1>5. row \in WorkerLease /\ row # None
  BY <1>1, <1>4, NewLeaseType, NullAssumption, RequestsAssumption
  DEF WorkerLeaseRequest, RequestFields
<1>6. row.worker = w /\ row.owner = o
  BY <1>4 DEF NewLease
<1>7. leases'[id] = row /\ \A l \in LeaseIds \ {id} : leases'[l] = leases[l]
  BY <1>1, <1>4 DEF TryAcquire, TypeOK
<1>8. LeasesStay /\ Leased(w, o)'
  BY <1>3, <1>5, <1>6, <1>7 DEF LeasesStay, Leased
<1> QED
  BY <1>2, <1>8 DEF TryAcquire

(* The lease is taken, waited for, or the hand-off goes to recovery. *)
LEMMA AcquireFine ==
  ASSUME ElasticInv, NEW c \in Calls, Acquire(c)
  PROVE  ElasticInv'
<1>1. calls[c] # None /\ calls[c].pc = "acquire" /\ UNCHANGED <<exists, made>>
  BY DEF Acquire, At
<1>2. PICK w, o, req : /\ w = calls[c].cand.worker /\ o = OwnerOf[c]
                       /\ req = [RequestOf[c] EXCEPT !.workers = {w}]
  OBVIOUS
<1>3. calls[c].cand \in WorkerLeaseCandidate
  BY <1>1, CallFacts DEF CallFine, CallState
<1>4. w \in Workers /\ o \in Owners
  BY <1>2, <1>3, ElasticAssumption DEF WorkerLeaseCandidate
<1>5. req \in Requests /\ w \in req.workers
  BY <1>2, <1>4, NarrowRequest
<1>6. \/ /\ \E id \in LeaseIds : TryAcquire(o, req, w, id, clock)
         /\ Goto(c, IF c \in ViaExpand THEN "finalize" ELSE "run")
      \/ /\ UNCHANGED vars
         /\ \E out \in {"WAIT", "RECOVERY"} : Settle(c, out)
  <2>1. \A wait \in BOOLEAN :
          NotLeased(c, wait) => \E out \in {"WAIT", "RECOVERY"} : Settle(c, out)
    BY DEF NotLeased
  <2> QED
    BY <1>2, <2>1 DEF Acquire
<1>7. CASE UNCHANGED vars /\ \E out \in {"WAIT", "RECOVERY"} : Settle(c, out)
  BY <1>1, <1>7, SettleFine DEF CallOutcomes, HandedOver
<1>8. CASE /\ \E id \in LeaseIds : TryAcquire(o, req, w, id, clock)
           /\ Goto(c, IF c \in ViaExpand THEN "finalize" ELSE "run")
  <2>1. [Next]_vars /\ LeasesStay /\ UNCHANGED reservations /\ Leased(w, o)'
    BY <1>4, <1>5, <1>8, NewLeaseRow
  <2>2. TypeOK' /\ LeaseInv' /\ CapacityInv'
    BY <2>1, StoreKeeps
  <2>3. World'
    BY <1>1, <2>1, WorldStays
  <2>4. PICK pc \in {"finalize", "run"} :
          pc = IF c \in ViaExpand THEN "finalize" ELSE "run"
    OBVIOUS
  <2>5. PICK k : k = [calls[c] EXCEPT !.pc = pc]
    OBVIOUS
  <2>6. /\ k \in CallState /\ k.pc = pc /\ k.res = calls[c].res
        /\ k.worker = calls[c].worker /\ k.bind = calls[c].bind /\ k.active = calls[c].active
    BY <1>1, <2>4, <2>5, CallFacts DEF CallState, Places
  <2>7. calls' = [calls EXCEPT ![c] = k]
    BY <1>8, <2>4, <2>5 DEF Goto
  <2>8. k.res # None => Leased(made[k.res], OwnerOf[c])'
    <3>1. k.res # None => made[k.res] = w
      BY <1>1, <1>2, <2>6, CallFacts DEF CallFine, Holds, HandedOver
    <3> QED
      BY <1>1, <1>2, <2>1, <3>1 DEF Leased
  <2>9. CallFine(c, k)'
    BY <1>1, <2>1, <2>4, <2>6, <2>8, CallFacts
    DEF CallFine, Holds, Reserving, HandedOver, LeasesStay, CallState
  <2>10. \A d \in Calls \ {c} : (calls[d] # None /\ k.res # None) => calls[d].res # k.res
    BY <1>1, <2>6 DEF ElasticInv, Unshared
  <2>11. OthersStay(k.res)
    BY <1>1, <2>1 DEF OthersStay
  <2>12. /\ calls' = [d \in Calls |-> calls'[d]]
         /\ \A d \in Calls : calls'[d] # None => calls'[d] \in CallState
         /\ CallsFine' /\ Unshared'
    BY <2>1, <2>6, <2>7, <2>9, <2>10, <2>11, CallMoves
  <2>13. ElasticTypeOK'
    BY <1>1, <2>2, <2>12 DEF ElasticInv, ElasticTypeOK
  <2> QED
    BY <2>2, <2>3, <2>12, <2>13 DEF ElasticInv
<1> QED
  BY <1>6, <1>7, <1>8

(* release_unstarted takes back only what no worker was made for. *)
LEMMA ReleaseUnstartedFine ==
  ASSUME ElasticInv, NEW r \in ReservationIds, ReleaseUnstarted(r)
  PROVE  ElasticInv'
<1>1. UNCHANGED <<calls, exists, made>> /\ TransitionReservation(r, "RELEASED", None, clock)
  BY DEF ReleaseUnstarted, elasticVars
<1>2. "RELEASED" \in ReservationStates /\ None \in AdapterWorkers("RELEASED")
  BY DEF ReservationStates, AdapterWorkers
<1>3. /\ [Next]_vars /\ LeasesStay
      /\ reservations[r] # None /\ reservations'[r] # None
      /\ "RELEASED" \in AllowedTransitions(reservations[r].state)
      /\ reservations'[r].owner = reservations[r].owner
      /\ reservations'[r].state = "RELEASED"
      /\ \A q \in ReservationIds \ {r} : reservations'[q] = reservations[q]
  BY <1>1, <1>2, MarkRow
<1>4. reservations[r].state = "PRE_PROVISION"
  BY <1>3 DEF AllowedTransitions
<1>5. made[r] = None
  BY <1>4 DEF ElasticInv, World, MadeFine, Made
<1>6. World'
  BY <1>1, <1>2, <1>5, MarkWorld
<1>7. TypeOK' /\ LeaseInv' /\ CapacityInv'
  BY <1>3, StoreKeeps
<1>8. ElasticTypeOK' /\ Unshared'
  BY <1>1, <1>7 DEF ElasticInv, ElasticTypeOK, Unshared
<1>9. ASSUME NEW c \in Calls, calls[c] # None
      PROVE  CallFine(c, calls[c])'
  <2>1. PICK k \in CallState : k = calls[c] /\ k = (calls[c])' /\ CallFine(c, k)
    BY <1>1, <1>9, CallFacts
  <2> DEFINE seen == \A l \in k.active : leases[l] # None
  <2>2. seen'
    BY <1>3, <2>1 DEF CallFine, CallState, LeasesStay
  <2>3. CASE k.res = None
    BY <2>1, <2>2, <2>3 DEF CallFine
  <2>4. CASE k.res # None
    <3>1. k.res \in ReservationIds /\ Holds(c, k)
      BY <2>1, <2>4 DEF CallState, CallFine
    <3>2. CASE k.res # r
      <4>1. reservations'[k.res] = reservations[k.res] /\ made'[k.res] = made[k.res]
        BY <1>1, <1>3, <3>1, <3>2
      <4>2. Leased(made[k.res], OwnerOf[c]) => Leased(made[k.res], OwnerOf[c])'
        BY <1>3, <4>1 DEF LeasesStay, Leased
      <4>3. Holds(c, k)'
        BY <3>1, <4>1, <4>2 DEF Holds
      <4> QED
        BY <2>1, <2>2, <4>3 DEF CallFine
    <3>3. CASE k.res = r
      <4>1. k.pc \notin HandedOver \cup {"provision", "publish", "abandon"}
        BY <1>4, <3>1, <3>3 DEF Holds
      <4>2. Holds(c, k)'
        BY <1>1, <1>3, <1>5, <3>1, <3>3, <4>1 DEF Holds, HandedOver
      <4> QED
        BY <2>1, <2>2, <4>2 DEF CallFine
    <3> QED
      BY <3>2, <3>3
  <2> QED
    BY <2>3, <2>4
<1>10. CallsFine'
  BY <1>1, <1>9 DEF CallsFine
<1> QED
  BY <1>6, <1>7, <1>8, <1>10 DEF ElasticInv

(* A lease that is given back stays on record as its owner's. *)
LEMMA ReleaseLeaseFine ==
  ASSUME ElasticInv, NEW l \in LeaseIds, ReleaseLease(l)
  PROVE  ElasticInv'
<1>1. UNCHANGED <<calls, exists, made>> /\ Release(l, clock)
  BY DEF ReleaseLease, elasticVars
<1>2. TypeOK /\ clock \in 0..clock /\ clock \in Nat
  BY DEF ElasticInv, ElasticTypeOK, TypeOK
<1>3. [Next]_vars
  BY <1>1, <1>2 DEF Next
<1>4. TypeOK' /\ LeaseInv' /\ CapacityInv'
  BY <1>3, StoreKeeps
<1>5. LeasesStay /\ UNCHANGED reservations
  <2>1. leases[l] \in WorkerLease
    BY <1>1, <1>2, ActiveRow DEF Release, IsActive
  <2>2. PICK row : row = [leases[l] EXCEPT !.released = clock]
    OBVIOUS
  <2>3. row \in WorkerLease /\ row.worker = leases[l].worker /\ row.owner = leases[l].owner
    BY <1>2, <2>1, <2>2 DEF WorkerLease
  <2>4. leases'[l] = row /\ \A k \in LeaseIds \ {l} : leases'[k] = leases[k]
    BY <1>1, <1>2, <2>2 DEF Release, TypeOK
  <2> QED
    BY <1>1, <2>3, <2>4, NullAssumption DEF LeasesStay, Release
<1>6. World'
  BY <1>1, <1>5, WorldStays
<1>7. ElasticTypeOK' /\ Unshared'
  BY <1>1, <1>4 DEF ElasticInv, ElasticTypeOK, Unshared
<1>8. ASSUME NEW c \in Calls, calls[c] # None
      PROVE  CallFine(c, calls[c])'
  <2>1. PICK k \in CallState : k = calls[c] /\ k = (calls[c])' /\ CallFine(c, k)
    BY <1>1, <1>8, CallFacts
  <2>2. Leased(made[k.res], OwnerOf[c]) => Leased(made[k.res], OwnerOf[c])'
    BY <1>1, <1>5 DEF LeasesStay, Leased
  <2>3. Holds(c, k) => Holds(c, k)'
    BY <1>1, <1>5, <2>2 DEF Holds
  <2> QED
    BY <1>5, <2>1, <2>3 DEF CallFine, CallState, LeasesStay
<1>9. CallsFine'
  BY <1>1, <1>8 DEF CallsFine
<1> QED
  BY <1>4, <1>6, <1>7, <1>9 DEF ElasticInv

(* ElasticInv is inductive. *)
LEMMA NextElasticInv == ElasticInv /\ [ElasticNext]_allVars => ElasticInv'
<1> SUFFICES ASSUME ElasticInv, [ElasticNext]_allVars PROVE ElasticInv'
  OBVIOUS
<1>1. CASE UNCHANGED allVars
  <2>1. UNCHANGED <<calls, exists, made>> /\ UNCHANGED vars
    BY <1>1 DEF allVars, elasticVars
  <2>2. TypeOK' /\ LeaseInv' /\ CapacityInv' /\ LeasesStay
    BY <2>1, StoreStays
  <2>3. World'
    BY <2>1, <2>2, WorldStays DEF vars
  <2>4. ElasticTypeOK' /\ Unshared'
    BY <2>1, <2>2 DEF ElasticInv, ElasticTypeOK, Unshared
  <2>5. CallsFine'
    BY <2>1 DEF ElasticInv, CallsFine, CallFine, Holds, Leased, vars
  <2> QED
    BY <2>2, <2>3, <2>4, <2>5 DEF ElasticInv
<1>2. ASSUME NEW c \in Calls, CallStep(c) PROVE ElasticInv'
  BY <1>2, ReadLeasesFine, FirstPlanFine, SupplyFailsFine, SecondPlanFine, GateFine,
     ReserveFine, StartFine, ProvisionFine, PublishFine, ObserveFine, AcquireFine,
     RunFine, FinalizeFine, AbandonFine
  DEF CallStep
<1> QED
  BY <1>1, <1>2, BeginCallFine, CrashCallFine, ReleaseUnstartedFine, ReleaseLeaseFine
  DEF ElasticNext

(* Every step of every call preserves ElasticInv. *)
THEOREM ElasticInvariant == ElasticSpec => []ElasticInv
<1> QED
  BY InitElasticInv, NextElasticInv, PTL DEF ElasticSpec

(***************************************************************************)
(* The workers made are those of open reservations, each of another task.   *)
(***************************************************************************)
LEMMA ElasticInvBoundsMade == ElasticInv => NeverOverProvisioned
<1> SUFFICES ASSUME ElasticInv PROVE NeverOverProvisioned
  OBVIOUS
<1>1. Made \subseteq Consuming
  BY DEF ElasticInv, World, MadeFine, Made, Consuming, IsConsuming
<1>2. IsFiniteSet(Consuming) /\ Cardinality(Consuming) <= MaxExtraWorkers
  BY DEF ElasticInv, CapacityInv, CapacityBound
<1>3. IsFiniteSet(Made) /\ Cardinality(Made) <= Cardinality(Consuming)
  BY <1>1, <1>2, FS_Subset
<1>4. Cardinality(Made) \in Nat /\ Cardinality(Consuming) \in Nat /\ MaxExtraWorkers \in Nat
  BY <1>2, <1>3, FS_CardinalityType, ConstantsAssumption
<1>5. Cardinality(Made) <= MaxExtraWorkers
  BY <1>2, <1>3, <1>4
<1>6. \A q, r \in Made : q # r => reservations[q].owner # reservations[r].owner
  BY <1>1 DEF ElasticInv, World, OneReservationEach
<1> QED
  BY <1>5, <1>6 DEF NeverOverProvisioned

(***************************************************************************)
(* However many calls of execute_once and expand race, die, fail and are    *)
(* repeated: never more workers than allowed, one for a task, confirmed     *)
(* only when leased, and recorded for recovery when the run is uncertain.   *)
(***************************************************************************)
THEOREM ElasticIsSafe == ElasticSpec => []ElasticSafety
<1>1. ElasticInv => ElasticSafety
  <2> SUFFICES ASSUME ElasticInv PROVE ElasticSafety
    OBVIOUS
  <2>1. UncertainIsDurable
    BY CallFacts, NoCallAssumption DEF UncertainIsDurable, At, Made, CallFine, Holds
  <2> QED
    BY <2>1, ElasticInvBoundsMade
    DEF ElasticInv, CapacityInv, World, ElasticSafety
<1> QED
  BY <1>1, ElasticInvariant, PTL

(***************************************************************************)
(* Every step of a call is a step of the store, or none to it.              *)
(***************************************************************************)
LEMMA ElasticStoreStep ==
  ASSUME ElasticInv, [ElasticNext]_allVars
  PROVE  [Next]_vars
<1>1. CASE UNCHANGED allVars
  BY <1>1 DEF allVars
<1>2. clock \in 0..clock
  BY DEF ElasticInv, ElasticTypeOK, TypeOK
<1>3. ASSUME NEW r \in ReservationIds, NEW target \in ReservationStates,
             NEW w \in AdapterWorkers(target), TransitionReservation(r, target, w, clock)
      PROVE  [Next]_vars
  BY <1>2, <1>3 DEF Next
<1>4. ASSUME NEW c \in Calls, calls[c] # None, calls[c].pc \in Reserving
      PROVE  /\ calls[c].res \in ReservationIds
             /\ calls[c].bind \in AdapterWorkers("RECOVERY_REQUIRED")
             /\ calls[c].pc \in {"publish", "finalize"} =>
                  /\ calls[c].worker \in AdapterWorkers("PROVISIONED")
                  /\ calls[c].worker \in AdapterWorkers("CAPACITY")
  BY <1>4, OwnReservation, CallFacts DEF Holds, HandedOver, CallState, AdapterWorkers
<1>5. /\ {"PROVISIONING", "PROVISIONED", "CAPACITY", "RECOVERY_REQUIRED", "RELEASED"}
           \subseteq ReservationStates
      /\ None \in AdapterWorkers("PROVISIONING") /\ None \in AdapterWorkers("RELEASED")
  BY DEF ReservationStates, AdapterWorkers
<1>6. ASSUME NEW c \in Calls, CallStep(c) PROVE [Next]_vars
  <2>1. CASE Reserve(c)
    <3>1. OwnerOf[c] \in Owners /\ Terms(c) \in ProvisionTerms
      BY ElasticAssumption DEF Terms
    <3> QED
      BY <1>2, <2>1, <3>1 DEF Reserve, Next
  <2>2. CASE Start(c)
    BY <1>3, <1>4, <1>5, <2>2 DEF Start, MarkFails, At, Reserving
  <2>3. CASE Publish(c)
    BY <1>3, <1>4, <1>5, <2>3 DEF Publish, MarkFails, At, Reserving
  <2>4. CASE Finalize(c)
    BY <1>3, <1>4, <1>5, <2>4 DEF Finalize, MarkFails, At, Reserving
  <2>5. CASE Abandon(c)
    BY <1>3, <1>4, <1>5, <2>5 DEF Abandon, MarkFails, At, Reserving
  <2>6. CASE Acquire(c)
    <3>1. PICK w, o, req : /\ w = calls[c].cand.worker /\ o = OwnerOf[c]
                           /\ req = [RequestOf[c] EXCEPT !.workers = {w}]
      OBVIOUS
    <3>2. calls[c] # None /\ calls[c].pc = "acquire"
      BY <2>6 DEF Acquire, At
    <3>3. calls[c].cand \in WorkerLeaseCandidate
      BY <3>2, CallFacts DEF CallFine, CallState
    <3>4. w \in Workers /\ o \in Owners
      BY <3>1, <3>3, ElasticAssumption DEF WorkerLeaseCandidate
    <3>5. req \in Requests /\ w \in req.workers
      BY <3>1, <3>4, NarrowRequest
    <3>6. UNCHANGED vars \/ \E id \in LeaseIds : TryAcquire(o, req, w, id, clock)
      BY <2>6, <3>1 DEF Acquire
    <3> QED
      BY <1>2, <3>4, <3>5, <3>6 DEF Next
  <2>7. CASE \/ ReadLeases(c) \/ FirstPlan(c) \/ SupplyFails(c) \/ SecondPlan(c)
             \/ Gate(c) \/ Provision(c) \/ Observe(c) \/ Run(c)
    BY <2>7 DEF ReadLeases, FirstPlan, SupplyFails, SecondPlan, Gate, Provision, Observe, Run
  <2> QED
    BY <1>6, <2>1, <2>2, <2>3, <2>4, <2>5, <2>6, <2>7 DEF CallStep
<1>7. ASSUME NEW c \in Calls, (\E policy \in Policies : BeginCall(c, policy)) \/ CrashCall(c)
      PROVE  [Next]_vars
  BY <1>7 DEF BeginCall, CrashCall
<1>8. ASSUME NEW r \in ReservationIds, ReleaseUnstarted(r) PROVE [Next]_vars
  BY <1>3, <1>5, <1>8 DEF ReleaseUnstarted
<1>9. ASSUME NEW l \in LeaseIds, ReleaseLease(l) PROVE [Next]_vars
  BY <1>2, <1>9 DEF ReleaseLease, Next
<1> QED
  BY <1>1, <1>6, <1>7, <1>8, <1>9 DEF ElasticNext

(* The calls use the store as its own specification allows. *)
THEOREM ElasticUsesStore == ElasticSpec => Spec
<1>1. ElasticInit => Init
  BY DEF ElasticInit
<1>2. ElasticInv /\ [ElasticNext]_allVars => [Next]_vars
  BY ElasticStoreStep
<1> QED
  BY <1>1, <1>2, ElasticInvariant, PTL DEF ElasticSpec, Spec

(* So what the store promises its callers holds while they race for workers. *)
THEOREM ElasticKeepsLeases == ElasticSpec => []LeaseSafety
<1> QED
  BY ElasticUsesStore, LeasesAreSafe, PTL

(* And no elastic call rewrites the history of a lease. *)
THEOREM ElasticKeepsHistory == ElasticSpec => LeaseHistory
<1> QED
  BY ElasticUsesStore, HistoryIsKept, PTL

===============================================================================
