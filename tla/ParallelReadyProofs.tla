-------------------------- MODULE ParallelReadyProofs --------------------------
(***************************************************************************)
(* Proofs about ProviderConfigStore and about the calls of ParallelReady    *)
(* that use it, for every set of providers, endpoints, profiles, executions *)
(* and callers, for plans of any length, and for a clock of any size.       *)
(***************************************************************************)
EXTENDS ParallelReady, FiniteSetTheorems, TLAPS

-------------------------------------------------------------------------------
(* Type correctness *)

(* What the migration leaves is well formed. *)
LEMMA InitTypeOK == Init => TypeOK
<1> SUFFICES ASSUME Init PROVE TypeOK
  OBVIOUS
<1>1. 1 \in Generations
  BY BoundsAssumption DEF Generations
<1>2. [profile: LegacyProfiles, gen: {1}] \subseteq ProviderRow
  BY <1>1, ProfilesAssumption DEF ProviderRow
<1>3. LegacyAdmissions \subseteq AdmissionRow
  BY ProfilesAssumption DEF LegacyAdmissions, AdmissionRow, Statuses
<1> QED
  BY <1>2, <1>3 DEF Init, TypeOK

(* The effective configuration of a stored provider is a configuration. *)
LEMMA ConfigType ==
  ASSUME TypeOK, NEW p \in ProviderIds, providers[p] # None
  PROVE  /\ ConfigOf(p) \in Config
         /\ SnapshotOf(p) \in Snapshot
         /\ providers[p] \in ProviderRow
<1>1. providers[p] \in ProviderRow
  BY DEF TypeOK
<1>2. providers[p].profile.endpoint \in EndpointRefs
  BY <1>1, ProfilesAssumption DEF ProviderRow, ProfileFields
<1>3. UrlOf(providers[p].profile.endpoint) \in Urls \cup {None}
  BY <1>2 DEF TypeOK, UrlOf, EndpointRow
<1> QED
  BY <1>1, <1>3 DEF ConfigOf, SnapshotOf, Config, Snapshot, ProviderRow

(* The next generation is one the columns accept. *)
LEMMA NextGenerationType ==
  ASSUME NEW g \in Generations, HasNextGeneration(g)
  PROVE  g + 1 \in Generations
  BY BoundsAssumption DEF Generations, HasNextGeneration

(* Saving an endpoint moves it and its referents to the next generation. *)
LEMMA SaveEndpointTypeOK ==
  ASSUME TypeOK, NEW ref \in EndpointRefs, NEW url \in Urls, NEW g,
         SaveEndpoint(ref, url, g)
  PROVE  TypeOK'
<1>1. ASSUME endpoints[ref] # None PROVE endpoints[ref].gen + 1 \in Generations
  <2>1. endpoints[ref].gen \in Generations
    BY <1>1 DEF TypeOK, EndpointRow
  <2> QED
    BY <1>1, <2>1, NextGenerationType DEF SaveEndpoint
<1>2. 1 \in Generations
  BY BoundsAssumption DEF Generations
<1>3. endpoints' \in [EndpointRefs -> EndpointRow \cup {None}]
  BY <1>1, <1>2 DEF SaveEndpoint, TypeOK, EndpointRow
<1>4. ASSUME NEW p \in Referencing(ref)
      PROVE  [providers[p] EXCEPT !.gen = @ + 1] \in ProviderRow
  <2>1. p \in ProviderIds /\ providers[p] \in ProviderRow
    BY <1>4 DEF Referencing, TypeOK
  <2>2. providers[p].gen + 1 \in Generations
    BY <1>4, <2>1, NextGenerationType DEF SaveEndpoint, ProviderRow
  <2> QED
    BY <2>1, <2>2 DEF ProviderRow
<1>5. providers' \in [ProviderIds -> ProviderRow \cup {None}]
  BY <1>4 DEF SaveEndpoint, TypeOK
<1> QED
  BY <1>3, <1>5 DEF SaveEndpoint, TypeOK, callerVars

(* Saving a profile writes a row with the next generation. *)
LEMMA StoreProfileType ==
  ASSUME TypeOK, NEW p \in ProviderIds, NEW f \in Profiles, NEW g,
         StoreProfile(p, f, g)
  PROVE  providers' \in [ProviderIds -> ProviderRow \cup {None}]
<1>1. ASSUME providers[p] # None PROVE providers[p].gen + 1 \in Generations
  <2>1. providers[p].gen \in Generations
    BY <1>1 DEF TypeOK, ProviderRow
  <2> QED
    BY <1>1, <2>1, NextGenerationType DEF StoreProfile
<1>2. 1 \in Generations
  BY BoundsAssumption DEF Generations
<1> QED
  BY <1>1, <1>2 DEF StoreProfile, TypeOK, ProviderRow

(* An editor's steps, the save of its edit included. *)
LEMMA EditTypeOK ==
  ASSUME TypeOK, EditsCurrent, EditStep
  PROVE  TypeOK'
<1> PICK e \in Editors : \/ \E p \in ProviderIds : ShowProfile(e, p)
                         \/ ReadForEdit(e)
                         \/ \E f \in Profiles : SaveEdit(e, f)
                         \/ DropEdit(e)
  BY DEF EditStep
<1>1. CASE \E p \in ProviderIds : ShowProfile(e, p)
  <2> PICK p \in ProviderIds : ShowProfile(e, p)
    BY <1>1
  <2>1. providers[p].gen \in Generations
    BY ConfigType DEF ShowProfile, ProviderRow
  <2> QED
    BY <2>1 DEF ShowProfile, TypeOK, storeVars, Edit
<1>2. CASE ReadForEdit(e)
  <2>1. edits[e] \in Edit /\ providers[edits[e].provider] # None
    BY <1>2 DEF ReadForEdit, TypeOK, EditsCurrent, Edit
  <2>2. providers[edits[e].provider].profile \in Profiles
    BY <2>1, ConfigType DEF Edit, ProviderRow
  <2>3. [edits[e] EXCEPT !.base = providers[edits[e].provider].profile] \in Edit
    BY <2>1, <2>2 DEF Edit
  <2> QED
    BY <1>2, <2>3 DEF ReadForEdit, TypeOK, storeVars
<1>3. CASE \E f \in Profiles : SaveEdit(e, f)
  <2> PICK f \in Profiles : SaveEdit(e, f)
    BY <1>3
  <2>1. edits[e].provider \in ProviderIds
    BY DEF SaveEdit, TypeOK, Edit
  <2>2. providers' \in [ProviderIds -> ProviderRow \cup {None}]
    BY <2>1, StoreProfileType DEF SaveEdit
  <2> QED
    BY <2>2 DEF SaveEdit, TypeOK
<1>4. CASE DropEdit(e)
  BY <1>4 DEF DropEdit, TypeOK, storeVars
<1> QED
  BY <1>1, <1>2, <1>3, <1>4

(* A prober's steps. *)
LEMMA ProbeTypeOK ==
  ASSUME TypeOK, ProbeStep
  PROVE  TypeOK'
<1> PICK b \in Probers :
      \/ \E p \in ProviderIds : StartProbe(b, p)
      \/ \E health \in Health, t \in 0..now : SaveObservation(b, health, t)
      \/ DropProbe(b)
  BY DEF ProbeStep
<1>1. CASE \E p \in ProviderIds : StartProbe(b, p)
  BY <1>1, ConfigType DEF StartProbe, TypeOK, storeVars
<1>2. CASE \E health \in Health, t \in 0..now : SaveObservation(b, health, t)
  <2> PICK health \in Health, t \in 0..now : SaveObservation(b, health, t)
    BY <1>2
  <2>1. probes[b] \in Snapshot /\ t \in Nat
    BY DEF SaveObservation, TypeOK
  <2>2. [health |-> health, at |-> t, gen |-> probes[b].gen,
         probed |-> probes[b].config] \in ObservationRow
    BY <2>1 DEF ObservationRow, Snapshot
  <2> QED
    BY <2>1, <2>2 DEF SaveObservation, TypeOK, Snapshot
<1>3. CASE DropProbe(b)
  BY <1>3 DEF DropProbe, TypeOK, storeVars
<1> QED
  BY <1>1, <1>2, <1>3

(* Acquiring and releasing admissions. *)
LEMMA AdmissionTypeOK ==
  ASSUME TypeOK, AdmissionStep
  PROVE  TypeOK'
<1>1. CASE \E p \in ProviderIds, x \in Executions, b \in Batches, f \in Profiles,
              g \in Generations \cup {None}, t \in 0..now, ttl \in Ttls,
              id \in AdmissionIds : AcquireAdmission(p, x, b, f.max, g, t, ttl, id)
  <2> PICK p \in ProviderIds, x \in Executions, b \in Batches, f \in Profiles,
           g \in Generations \cup {None}, t \in 0..now, ttl \in Ttls,
           id \in AdmissionIds : AcquireAdmission(p, x, b, f.max, g, t, ttl, id)
    BY <1>1
  <2>1. t + ttl \in Nat
    BY BoundsAssumption DEF TypeOK
  <2>2. NewAdmission(p, x, b, g, t, ttl) \in AdmissionRow
    BY <2>1 DEF NewAdmission, AdmissionRow, Statuses
  <2> QED
    BY <2>2 DEF AcquireAdmission, TypeOK, callerVars
<1>2. CASE \E id \in AdmissionIds : ReleaseAdmission(id)
  <2> PICK id \in AdmissionIds : ReleaseAdmission(id)
    BY <1>2
  <2>1. [admissions[id] EXCEPT !.status = "RELEASED"] \in AdmissionRow
    BY DEF ReleaseAdmission, TypeOK, AdmissionRow, Statuses
  <2> QED
    BY <2>1 DEF ReleaseAdmission, TypeOK, callerVars
<1> QED
  BY <1>1, <1>2 DEF AdmissionStep

-------------------------------------------------------------------------------
(* A generation names one configuration *)

(* A stored provider stays stored, and its configuration only changes with  *)
(* its generation.                                                          *)
ConfigMoves ==
  \A p \in ProviderIds :
    providers[p] # None =>
      /\ providers'[p] # None
      /\ \/ providers'[p] = providers[p] /\ ConfigOf(p)' = ConfigOf(p)
         \/ providers'[p].gen = providers[p].gen + 1

(* Saving an endpoint moves every provider that refers to it. *)
LEMMA SaveEndpointMoves ==
  ASSUME TypeOK, NEW ref \in EndpointRefs, NEW url \in Urls, NEW g,
         SaveEndpoint(ref, url, g)
  PROVE  ConfigMoves
<1> SUFFICES ASSUME NEW p \in ProviderIds, providers[p] # None
             PROVE  /\ providers'[p] # None
                    /\ \/ providers'[p] = providers[p] /\ ConfigOf(p)' = ConfigOf(p)
                       \/ providers'[p].gen = providers[p].gen + 1
  BY DEF ConfigMoves
<1>1. providers[p] \in ProviderRow /\ providers' \in [ProviderIds -> ProviderRow \cup {None}]
  BY SaveEndpointTypeOK DEF TypeOK
<1>2. CASE p \in Referencing(ref)
  <2>1. providers'[p] = [providers[p] EXCEPT !.gen = @ + 1]
    BY <1>2 DEF SaveEndpoint
  <2>2. [providers[p] EXCEPT !.gen = @ + 1].gen = providers[p].gen + 1
    BY <1>1 DEF ProviderRow
  <2>3. providers'[p] # None
    <3>1. [providers[p] EXCEPT !.gen = @ + 1] \in ProviderRow
      BY <1>1, <1>2, NextGenerationType DEF SaveEndpoint, ProviderRow
    <3> QED
      BY <2>1, <3>1, NoRowAssumption
  <2> QED
    BY <2>1, <2>2, <2>3
<1>3. CASE p \notin Referencing(ref)
  <2>1. providers'[p] = providers[p]
    BY <1>3 DEF SaveEndpoint
  <2>2. providers[p].profile.endpoint # ref
    BY <1>3 DEF Referencing
  <2>3. endpoints'[providers[p].profile.endpoint] = endpoints[providers[p].profile.endpoint]
    BY <1>1, <2>2, ProfilesAssumption
    DEF SaveEndpoint, TypeOK, ProviderRow, ProfileFields
  <2> QED
    BY <2>1, <2>3 DEF ConfigOf, UrlOf
<1> QED
  BY <1>2, <1>3

(* Saving a profile moves its provider. *)
LEMMA StoreProfileMoves ==
  ASSUME TypeOK, NEW p \in ProviderIds, NEW f \in Profiles, NEW g,
         StoreProfile(p, f, g), UNCHANGED endpoints
  PROVE  ConfigMoves
<1> SUFFICES ASSUME NEW q \in ProviderIds, providers[q] # None
             PROVE  /\ providers'[q] # None
                    /\ \/ providers'[q] = providers[q] /\ ConfigOf(q)' = ConfigOf(q)
                       \/ providers'[q].gen = providers[q].gen + 1
  BY DEF ConfigMoves
<1>1. CASE q = p
  <2>1. providers'[p] = [profile |-> f, gen |-> providers[p].gen + 1]
    BY <1>1 DEF StoreProfile, TypeOK
  <2>2. providers[p].gen + 1 \in Generations
    BY <1>1, ConfigType, NextGenerationType DEF StoreProfile, ProviderRow
  <2>3. providers'[p] \in ProviderRow
    BY <2>1, <2>2 DEF ProviderRow
  <2> QED
    BY <1>1, <2>1, <2>3, NoRowAssumption
<1>2. CASE q # p
  BY <1>2 DEF StoreProfile, TypeOK, ConfigOf, UrlOf
<1> QED
  BY <1>1, <1>2

(* Every step keeps the bond between a generation and its configuration. *)
LEMMA StepMoves == TypeOK /\ [Next]_vars => ConfigMoves
<1> SUFFICES ASSUME TypeOK, [Next]_vars PROVE ConfigMoves
  OBVIOUS
<1>1. ASSUME UNCHANGED <<endpoints, providers>> PROVE ConfigMoves
  BY <1>1 DEF ConfigMoves, ConfigOf, UrlOf
<1>2. CASE Tick \/ ProbeStep \/ AdmissionStep \/ UNCHANGED vars
  BY <1>1, <1>2
  DEF Tick, ProbeStep, AdmissionStep, StartProbe, SaveObservation, DropProbe,
      AcquireAdmission, ReleaseAdmission, vars, storeVars
<1>3. CASE ConfigurationStep
  <2>1. CASE \E ref \in EndpointRefs, url \in Urls, g \in Generations \cup {None} :
               SaveEndpoint(ref, url, g)
    BY <2>1, SaveEndpointMoves
  <2>2. CASE \E p \in ProviderIds, f \in Profiles, g \in Generations \cup {None} :
               SaveProvider(p, f, g)
    BY <2>2, StoreProfileMoves DEF SaveProvider
  <2> QED
    BY <1>3, <2>1, <2>2 DEF ConfigurationStep
<1>4. CASE EditStep
  <2> PICK e \in Editors : \/ \E p \in ProviderIds : ShowProfile(e, p)
                           \/ ReadForEdit(e)
                           \/ \E f \in Profiles : SaveEdit(e, f)
                           \/ DropEdit(e)
    BY <1>4 DEF EditStep
  <2>1. CASE \E f \in Profiles : SaveEdit(e, f)
    <3> PICK f \in Profiles : SaveEdit(e, f)
      BY <2>1
    <3>1. edits[e].provider \in ProviderIds
      BY DEF SaveEdit, TypeOK, Edit
    <3> QED
      BY <3>1, StoreProfileMoves DEF SaveEdit
  <2> QED
    BY <1>1, <2>1 DEF ShowProfile, ReadForEdit, DropEdit, storeVars
<1> QED
  BY <1>2, <1>3, <1>4 DEF Next

(* What was read before a step is as current after it as it was. *)
LEMMA SnapshotSurvives ==
  ASSUME TypeOK, TypeOK', ConfigMoves, NEW p \in ProviderIds, NEW g \in Generations,
         providers[p] # None, g <= providers[p].gen
  PROVE  /\ providers'[p] # None
         /\ g <= providers'[p].gen
         /\ g = providers'[p].gen =>
              /\ g = providers[p].gen
              /\ ConfigOf(p)' = ConfigOf(p)
              /\ providers'[p] = providers[p]
<1>1. providers[p].gen \in Nat
  BY ConfigType, BoundsAssumption DEF ProviderRow, Generations
<1>2. g \in Nat
  BY DEF Generations
<1> QED
  BY <1>1, <1>2 DEF ConfigMoves

(* No observation, probe or edit exists yet. *)
LEMMA InitConfigInv == Init => ConfigInv
  BY InitTypeOK
  DEF Init, ConfigInv, SnapshotsCurrent, ObservationsDated,
      ObservationDescribesConfig, EditsCurrent

(* Every step is well typed; a saved edit needs EditsCurrent for its generation. *)
LEMMA NextTypeOK == ConfigInv /\ [Next]_vars => TypeOK'
<1> SUFFICES ASSUME ConfigInv, [Next]_vars PROVE TypeOK'
  OBVIOUS
<1>1. TypeOK /\ EditsCurrent
  BY DEF ConfigInv
<1>2. CASE Tick
  BY <1>1, <1>2 DEF Tick, TypeOK, storeVars, callerVars
<1>3. CASE ConfigurationStep
  <2>1. CASE \E ref \in EndpointRefs, url \in Urls, g \in Generations \cup {None} :
               SaveEndpoint(ref, url, g)
    BY <1>1, <2>1, SaveEndpointTypeOK
  <2>2. CASE \E p \in ProviderIds, f \in Profiles, g \in Generations \cup {None} :
               SaveProvider(p, f, g)
    BY <1>1, <2>2, StoreProfileType DEF SaveProvider, TypeOK, callerVars
  <2> QED
    BY <1>3, <2>1, <2>2 DEF ConfigurationStep
<1>4. CASE UNCHANGED vars
  BY <1>1, <1>4 DEF vars, TypeOK, storeVars, callerVars
<1> QED
  BY <1>1, <1>2, <1>3, <1>4, EditTypeOK, ProbeTypeOK, AdmissionTypeOK DEF Next

(* The only new snapshot is the one StartProbe takes of what is stored. *)
LEMMA ProbesMove ==
  ASSUME TypeOK, [Next]_vars, NEW b \in Probers, probes'[b] # None
  PROVE  \/ probes'[b] = probes[b]
         \/ \E p \in ProviderIds :
              /\ providers[p] # None /\ probes'[b] = SnapshotOf(p)
              /\ UNCHANGED <<endpoints, providers>>
  BY DEF TypeOK, Next, Tick, ConfigurationStep, EditStep, ProbeStep, AdmissionStep,
         SaveEndpoint, SaveProvider, ShowProfile, ReadForEdit, SaveEdit, DropEdit,
         StartProbe, SaveObservation, DropProbe, AcquireAdmission, ReleaseAdmission,
         vars, storeVars, callerVars

(* A probe's snapshot is the present configuration or an older generation. *)
LEMMA NextSnapshotsCurrent ==
  ASSUME ConfigInv, [Next]_vars, TypeOK', ConfigMoves
  PROVE  SnapshotsCurrent'
<1> SUFFICES ASSUME NEW b \in Probers, NEW p \in ProviderIds,
                    probes'[b] # None, probes'[b].provider = p
             PROVE  /\ providers'[p] # None
                    /\ probes'[b].gen <= providers'[p].gen
                    /\ probes'[b].gen = providers'[p].gen =>
                         probes'[b].config = ConfigOf(p)'
  BY DEF SnapshotsCurrent
<1>1. TypeOK /\ SnapshotsCurrent
  BY DEF ConfigInv
<1>2. CASE probes'[b] = probes[b]
  <2>1. probes[b].gen \in Generations
    BY <1>1, <1>2 DEF TypeOK, Snapshot
  <2>2. /\ providers[p] # None
        /\ probes[b].gen <= providers[p].gen
        /\ probes[b].gen = providers[p].gen => probes[b].config = ConfigOf(p)
    BY <1>1, <1>2 DEF SnapshotsCurrent
  <2> QED
    BY <1>1, <1>2, <2>1, <2>2, SnapshotSurvives
<1>3. CASE \E q \in ProviderIds :
             /\ providers[q] # None /\ probes'[b] = SnapshotOf(q)
             /\ UNCHANGED <<endpoints, providers>>
  <2>1. /\ providers[p] # None /\ probes'[b] = SnapshotOf(p)
        /\ UNCHANGED <<endpoints, providers>>
    BY <1>3 DEF SnapshotOf
  <2>2. probes'[b].gen = providers[p].gen /\ probes'[b].config = ConfigOf(p)
    BY <2>1 DEF SnapshotOf
  <2>3. ConfigOf(p)' = ConfigOf(p)
    BY <2>1 DEF ConfigOf, UrlOf
  <2>4. providers[p].gen \in Int
    BY <1>1, <2>1, ConfigType DEF ProviderRow, Generations
  <2> QED
    BY <2>1, <2>2, <2>3, <2>4
<1> QED
  BY <1>1, <1>2, <1>3, ProbesMove

(* The only new observation is one whose snapshot is still current. *)
LEMMA ObservationsMove ==
  ASSUME TypeOK, [Next]_vars, NEW p \in ProviderIds
  PROVE  \/ observations'[p] = observations[p]
         \/ \E b \in Probers :
              /\ probes[b] # None /\ probes[b].provider = p
              /\ probes[b].gen = providers[p].gen
              /\ observations'[p] # None
              /\ observations'[p].gen = probes[b].gen
              /\ observations'[p].probed = probes[b].config
              /\ UNCHANGED <<endpoints, providers>>
<1>1. CASE ProbeStep
  <2> PICK b \in Probers :
        \/ \E q \in ProviderIds : StartProbe(b, q)
        \/ \E health \in Health, t \in 0..now : SaveObservation(b, health, t)
        \/ DropProbe(b)
    BY <1>1 DEF ProbeStep
  <2>1. CASE \E health \in Health, t \in 0..now : SaveObservation(b, health, t)
    <3> PICK health \in Health, t \in 0..now : SaveObservation(b, health, t)
      BY <2>1
    <3>1. probes[b].provider # p => observations'[p] = observations[p]
      BY DEF SaveObservation, TypeOK
    <3>2. ASSUME probes[b].provider = p
          PROVE  observations'[p] =
                   [health |-> health, at |-> t, gen |-> probes[b].gen,
                    probed |-> probes[b].config]
      BY <3>2 DEF SaveObservation, TypeOK
    <3>3. ASSUME probes[b].provider = p
          PROVE  observations'[p] # None
      <4>1. [health |-> health, at |-> t, gen |-> probes[b].gen,
             probed |-> probes[b].config] \in ObservationRow
        BY DEF SaveObservation, TypeOK, ObservationRow, Snapshot
      <4> QED
        BY <3>2, <3>3, <4>1, NoRowAssumption
    <3> QED
      BY <3>1, <3>2, <3>3 DEF SaveObservation
  <2> QED
    BY <2>1 DEF StartProbe, DropProbe, storeVars
<1>2. CASE ~ProbeStep
  BY <1>2
  DEF Next, Tick, ConfigurationStep, EditStep, AdmissionStep,
      SaveEndpoint, SaveProvider, ShowProfile, ReadForEdit, SaveEdit, DropEdit,
      AcquireAdmission, ReleaseAdmission, vars, storeVars, callerVars
<1> QED
  BY <1>1, <1>2

(* An observation is stored only under the generation it was made for. *)
LEMMA NextObservations ==
  ASSUME ConfigInv, [Next]_vars, TypeOK', ConfigMoves
  PROVE  ObservationsDated' /\ ObservationDescribesConfig'
<1>1. TypeOK /\ SnapshotsCurrent /\ ObservationsDated /\ ObservationDescribesConfig
  BY DEF ConfigInv
<1> SUFFICES ASSUME NEW p \in ProviderIds, observations'[p] # None
             PROVE  /\ observations'[p].gen # None =>
                         providers'[p] # None /\ observations'[p].gen <= providers'[p].gen
                    /\ (providers'[p] # None /\ observations'[p].gen = providers'[p].gen) =>
                         observations'[p].probed = ConfigOf(p)'
  BY DEF ObservationsDated, ObservationDescribesConfig
<1>2. CASE observations'[p] = observations[p]
  <2>1. observations[p].gen \in Generations \cup {None}
    BY <1>1, <1>2 DEF TypeOK, ObservationRow
  <2>2. CASE observations[p].gen = None
    <3>1. providers'[p] # None => providers'[p].gen \in Generations
      BY DEF TypeOK, ProviderRow
    <3>2. None \notin Generations
      BY BoundsAssumption DEF Generations
    <3> QED
      BY <1>2, <2>2, <3>1, <3>2
  <2>3. CASE observations[p].gen # None
    <3>1. providers[p] # None /\ observations[p].gen <= providers[p].gen
      BY <1>1, <1>2, <2>3 DEF ObservationsDated
    <3>2. observations[p].gen = providers[p].gen => observations[p].probed = ConfigOf(p)
      BY <1>1, <1>2, <3>1 DEF ObservationDescribesConfig
    <3> QED
      BY <1>1, <1>2, <2>1, <2>3, <3>1, <3>2, SnapshotSurvives
  <2> QED
    BY <2>2, <2>3
<1>3. CASE \E b \in Probers :
             /\ probes[b] # None /\ probes[b].provider = p
             /\ probes[b].gen = providers[p].gen
             /\ observations'[p] # None
             /\ observations'[p].gen = probes[b].gen
             /\ observations'[p].probed = probes[b].config
             /\ UNCHANGED <<endpoints, providers>>
  <2> PICK b \in Probers :
             /\ probes[b] # None /\ probes[b].provider = p
             /\ probes[b].gen = providers[p].gen
             /\ observations'[p].gen = probes[b].gen
             /\ observations'[p].probed = probes[b].config
             /\ UNCHANGED <<endpoints, providers>>
    BY <1>3
  <2>1. providers[p] # None /\ probes[b].config = ConfigOf(p)
    BY <1>1 DEF SnapshotsCurrent
  <2>2. ConfigOf(p)' = ConfigOf(p)
    BY DEF ConfigOf, UrlOf
  <2>3. providers[p].gen \in Int
    BY <1>1, <2>1, ConfigType DEF ProviderRow, Generations
  <2> QED
    BY <2>1, <2>2, <2>3
<1> QED
  BY <1>1, <1>2, <1>3, ObservationsMove

(* An edit in progress is a new one, one that has now read the profile, or  *)
(* as it was.                                                               *)
LEMMA EditsMove ==
  ASSUME TypeOK, [Next]_vars, NEW e \in Editors, edits'[e] # None
  PROVE  \/ edits'[e] = edits[e]
         \/ /\ UNCHANGED providers
            /\ \E p \in ProviderIds :
                 /\ providers[p] # None
                 /\ edits'[e] = [provider |-> p, expected |-> providers[p].gen,
                                 base |-> None]
         \/ /\ UNCHANGED providers
            /\ edits[e] # None
            /\ edits'[e] = [edits[e] EXCEPT
                 !.base = providers[edits[e].provider].profile]
  BY DEF TypeOK, Next, Tick, ConfigurationStep, EditStep, ProbeStep, AdmissionStep,
         SaveEndpoint, SaveProvider, ShowProfile, ReadForEdit, SaveEdit, DropEdit,
         StartProbe, SaveObservation, DropProbe, AcquireAdmission, ReleaseAdmission,
         vars, storeVars, callerVars

(* An editor's copy is the present profile or an older generation. *)
LEMMA NextEditsCurrent ==
  ASSUME ConfigInv, [Next]_vars, TypeOK', ConfigMoves
  PROVE  EditsCurrent'
<1> SUFFICES ASSUME NEW e \in Editors, NEW p \in ProviderIds,
                    edits'[e] # None, edits'[e].provider = p
             PROVE  /\ providers'[p] # None
                    /\ edits'[e].expected <= providers'[p].gen
                    /\ (edits'[e].base # None /\ edits'[e].expected = providers'[p].gen) =>
                         edits'[e].base = providers'[p].profile
  BY DEF EditsCurrent
<1>1. TypeOK /\ EditsCurrent
  BY DEF ConfigInv
<1>2. CASE edits'[e] = edits[e]
  <2>1. edits[e].expected \in Generations
    BY <1>1, <1>2 DEF TypeOK, Edit
  <2>2. /\ providers[p] # None
        /\ edits[e].expected <= providers[p].gen
        /\ (edits[e].base # None /\ edits[e].expected = providers[p].gen) =>
             edits[e].base = providers[p].profile
    BY <1>1, <1>2 DEF EditsCurrent
  <2> QED
    BY <1>1, <1>2, <2>1, <2>2, SnapshotSurvives
<1>3. CASE /\ UNCHANGED providers
           /\ \E q \in ProviderIds :
                /\ providers[q] # None
                /\ edits'[e] = [provider |-> q, expected |-> providers[q].gen,
                                base |-> None]
  <2>1. /\ providers[p] # None
        /\ edits'[e].expected = providers[p].gen
        /\ edits'[e].base = None
    BY <1>3
  <2>2. providers[p].gen \in Int
    BY <1>1, <2>1, ConfigType DEF ProviderRow, Generations
  <2> QED
    BY <1>3, <2>1, <2>2
<1>4. CASE /\ UNCHANGED providers
           /\ edits[e] # None
           /\ edits'[e] = [edits[e] EXCEPT
                !.base = providers[edits[e].provider].profile]
  <2>1. edits[e] \in Edit
    BY <1>1, <1>4 DEF TypeOK
  <2>2. /\ edits[e].provider = p
        /\ edits'[e].expected = edits[e].expected
        /\ edits'[e].base = providers[p].profile
    BY <1>4, <2>1 DEF Edit
  <2>3. providers[p] # None /\ edits[e].expected <= providers[p].gen
    BY <1>1, <1>4, <2>2 DEF EditsCurrent
  <2> QED
    BY <1>4, <2>2, <2>3
<1> QED
  BY <1>1, <1>2, <1>3, <1>4, EditsMove

(* Every step of the store preserves its invariant. *)
LEMMA NextConfigInv == ConfigInv /\ [Next]_vars => ConfigInv'
<1> SUFFICES ASSUME ConfigInv, [Next]_vars PROVE ConfigInv'
  OBVIOUS
<1>1. TypeOK' /\ ConfigMoves
  BY NextTypeOK, StepMoves DEF ConfigInv
<1> QED
  BY <1>1, NextSnapshotsCurrent, NextObservations, NextEditsCurrent DEF ConfigInv

(***************************************************************************)
(* A generation names one configuration: probes, observations and edits     *)
(* made under the current generation were made of what is stored.           *)
(***************************************************************************)
THEOREM ConfigurationInvariant == Spec => []ConfigInv
<1> QED
  BY InitConfigInv, NextConfigInv, PTL DEF Spec

(* The tables and what the callers remember of them are always well formed. *)
THEOREM TypeCorrect == Spec => []TypeOK
<1>1. ConfigInv => TypeOK
  BY DEF ConfigInv
<1> QED
  BY <1>1, ConfigurationInvariant, PTL

(* Readiness never rests on a probe of another configuration. *)
THEOREM ObservationsDescribeConfig == Spec => []ObservationDescribesConfig
<1>1. ConfigInv => ObservationDescribesConfig
  BY DEF ConfigInv
<1> QED
  BY <1>1, ConfigurationInvariant, PTL

(***************************************************************************)
(* No edit is lost: an edit replaces the profile it was derived from.  The  *)
(* generation the operator saw is not newer than the profile the code read  *)
(* for the patch, so equality at the save makes all three the same.         *)
(***************************************************************************)
THEOREM EditsAreNotLost == Spec => NoLostEdit
<1>1. ASSUME ConfigInv, [Next]_vars, NEW e \in Editors,
             edits[e] # None, edits'[e] = None, providers' # providers
      PROVE  edits[e].base = providers[edits[e].provider].profile
  <2>1. TypeOK /\ EditsCurrent
    BY <1>1 DEF ConfigInv
  <2>2. \E f \in Profiles : SaveEdit(e, f)
    BY <1>1, <2>1
    DEF TypeOK, Next, Tick, ConfigurationStep, EditStep, ProbeStep, AdmissionStep,
        SaveEndpoint, SaveProvider, ShowProfile, ReadForEdit, SaveEdit, DropEdit,
        StartProbe, SaveObservation, DropProbe, AcquireAdmission, ReleaseAdmission,
        vars, storeVars, callerVars
  <2> PICK f \in Profiles : SaveEdit(e, f)
    BY <2>2
  <2> DEFINE p == edits[e].provider
  <2>3. p \in ProviderIds
    BY <1>1, <2>1 DEF TypeOK, Edit
  <2>4. providers[p] # None
    BY <1>1, <2>1, <2>3 DEF EditsCurrent
  <2>5. edits[e].expected = providers[p].gen /\ edits[e].base # None
    BY <2>4 DEF SaveEdit, StoreProfile, Expects
  <2> QED
    BY <1>1, <2>1, <2>3, <2>5 DEF EditsCurrent
<1>2. ConfigInv /\ [Next]_vars =>
        [\A e \in Editors :
           ( /\ edits[e] # None
             /\ edits'[e] = None
             /\ providers' # providers ) =>
               edits[e].base = providers[edits[e].provider].profile]_vars
  BY <1>1
<1> QED
  BY <1>2, ConfigurationInvariant, PTL DEF Spec, NoLostEdit

-------------------------------------------------------------------------------
(* Admissions *)

(* What a provider in use keeps in one step. *)
LEMMA InUseFreezes ==
  ASSUME TypeOK, [Next]_vars, NEW p \in ProviderIds, providers[p] # None, InUse(p) # {}
  PROVE  providers'[p] = providers[p] /\ ConfigOf(p)' = ConfigOf(p)
<1>1. ASSUME UNCHANGED <<endpoints, providers>>
      PROVE  providers'[p] = providers[p] /\ ConfigOf(p)' = ConfigOf(p)
  BY <1>1 DEF ConfigOf, UrlOf
<1>2. ASSUME NEW q \in ProviderIds, NEW f, NEW g, StoreProfile(q, f, g), UNCHANGED endpoints
      PROVE  providers'[p] = providers[p] /\ ConfigOf(p)' = ConfigOf(p)
  <2>1. q # p
    BY <1>2 DEF StoreProfile, ConfigurationNotInUse
  <2> QED
    BY <1>2, <2>1 DEF StoreProfile, TypeOK, ConfigOf, UrlOf
<1>3. CASE Tick \/ ProbeStep \/ AdmissionStep \/ UNCHANGED vars
  BY <1>1, <1>3
  DEF Tick, ProbeStep, AdmissionStep, StartProbe, SaveObservation, DropProbe,
      AcquireAdmission, ReleaseAdmission, vars, storeVars
<1>4. CASE \E ref \in EndpointRefs, url \in Urls, g \in Generations \cup {None} :
             SaveEndpoint(ref, url, g)
  <2> PICK ref \in EndpointRefs, url \in Urls, g \in Generations \cup {None} :
             SaveEndpoint(ref, url, g)
    BY <1>4
  <2>1. p \notin Referencing(ref)
    BY DEF SaveEndpoint, ConfigurationNotInUse
  <2>2. providers'[p] = providers[p] /\ providers[p].profile.endpoint # ref
    BY <2>1 DEF SaveEndpoint, Referencing
  <2>3. providers[p].profile.endpoint \in EndpointRefs
    BY ConfigType, ProfilesAssumption DEF ProviderRow, ProfileFields
  <2>4. endpoints'[providers[p].profile.endpoint] = endpoints[providers[p].profile.endpoint]
    BY <2>2, <2>3 DEF SaveEndpoint, TypeOK
  <2> QED
    BY <2>2, <2>4 DEF ConfigOf, UrlOf
<1>5. CASE \E q \in ProviderIds, f \in Profiles, g \in Generations \cup {None} :
             SaveProvider(q, f, g)
  BY <1>2, <1>5 DEF SaveProvider
<1>6. CASE EditStep
  <2> PICK e \in Editors : \/ \E q \in ProviderIds : ShowProfile(e, q)
                           \/ ReadForEdit(e)
                           \/ \E f \in Profiles : SaveEdit(e, f)
                           \/ DropEdit(e)
    BY <1>6 DEF EditStep
  <2>1. CASE \E f \in Profiles : SaveEdit(e, f)
    <3>1. edits[e].provider \in ProviderIds
      BY <2>1 DEF SaveEdit, TypeOK, Edit
    <3> QED
      BY <1>2, <2>1, <3>1 DEF SaveEdit
  <2> QED
    BY <1>1, <2>1 DEF ShowProfile, ReadForEdit, DropEdit, storeVars
<1> QED
  BY <1>3, <1>4, <1>5, <1>6 DEF Next, ConfigurationStep

(* What an execution was admitted under does not change until its release. *)
THEOREM ConfigurationIsFrozen == Spec => ConfigurationFrozen
<1>1. TypeOK /\ [Next]_vars =>
        [\A p \in ProviderIds :
           (providers[p] # None /\ InUse(p) # {}) =>
             providers'[p] = providers[p] /\ ConfigOf(p)' = ConfigOf(p)]_vars
  BY InUseFreezes
<1> QED
  BY <1>1, TypeCorrect, PTL DEF Spec, ConfigurationFrozen

(* The legacy admissions of a migrated database respect the limit. *)
LEMMA InitAdmissionInv == Init => AdmissionInv
  BY InitTypeOK
  DEF Init, AdmissionInv, AdmittedOnce, AdmissionsOfProviders, InUseFinite,
      AdmissionCapacity

(* A configured max_concurrency is a positive number. *)
LEMMA MaxIsNat ==
  ASSUME TypeOK, NEW p \in ProviderIds, providers[p] # None
  PROVE  providers[p].profile.max \in Nat \ {0}
  BY ConfigType, ProfilesAssumption DEF ProviderRow, ProfileFields

(* A new admission: the one action that consumes capacity. *)
LEMMA AcquireKeepsAdmissionInv ==
  ASSUME AdmissionInv, TypeOK', NEW p \in ProviderIds, NEW x \in Executions,
         NEW b \in Batches, NEW max, NEW g \in Generations \cup {None},
         NEW t \in 0..now, NEW ttl \in Ttls, NEW id \in AdmissionIds,
         AcquireAdmission(p, x, b, max, g, t, ttl, id)
  PROVE  AdmissionInv'
<1>1. /\ TypeOK /\ AdmittedOnce /\ AdmissionsOfProviders /\ InUseFinite
      /\ AdmissionCapacity
  BY DEF AdmissionInv
<1>2. /\ providers[p] # None
      /\ providers[p].profile.max = max
      /\ PriorAdmissions(p, x) = {}
      /\ ~(Cardinality(InUse(p)) >= max)
      /\ admissions[id] = None
  BY DEF AcquireAdmission, AdmissionVerdict, PriorVerdict, AtCapacity
<1>3. admissions' = [admissions EXCEPT ![id] = NewAdmission(p, x, b, g, t, ttl)]
  BY DEF AcquireAdmission
<1>4. /\ admissions'[id].provider = p
      /\ admissions'[id].execution = x
      /\ admissions'[id].status = "ACTIVE"
  BY <1>1, <1>3 DEF TypeOK, NewAdmission
<1>5. admissions'[id] # None
  <2>1. NewAdmission(p, x, b, g, t, ttl) \in AdmissionRow
    BY <1>1, BoundsAssumption DEF TypeOK, NewAdmission, AdmissionRow, Statuses
  <2> QED
    BY <1>1, <1>3, <2>1, NoRowAssumption DEF TypeOK
<1>6. \A a \in AdmissionIds \ {id} : admissions'[a] = admissions[a]
  BY <1>1, <1>3 DEF TypeOK
<1>7. UNCHANGED providers
  BY DEF AcquireAdmission
<1>8. AdmittedOnce'
  <2>1. \A a \in AdmissionIds \ {id} :
          admissions[a] # None => admissions[a].provider # p \/ admissions[a].execution # x
    BY <1>2 DEF PriorAdmissions
  <2> QED
    BY <1>1, <1>4, <1>6, <2>1 DEF AdmittedOnce
<1>9. AdmissionsOfProviders'
  BY <1>1, <1>2, <1>4, <1>6, <1>7 DEF AdmissionsOfProviders
<1>10. InUse(p)' = InUse(p) \cup {id} /\ id \notin InUse(p)
  BY <1>2, <1>4, <1>5, <1>6 DEF InUse
<1>11. \A q \in ProviderIds \ {p} : InUse(q)' = InUse(q)
  BY <1>2, <1>4, <1>6 DEF InUse
<1>12. IsFiniteSet(InUse(p)) /\ Cardinality(InUse(p)) \in Nat
  BY <1>1, FS_CardinalityType DEF InUseFinite
<1>13. IsFiniteSet(InUse(p))' /\ Cardinality(InUse(p))' = Cardinality(InUse(p)) + 1
  BY <1>10, <1>12, FS_AddElement
<1>14. max \in Nat
  BY <1>1, <1>2, MaxIsNat
<1>15. Cardinality(InUse(p))' <= max
  BY <1>2, <1>12, <1>13, <1>14
<1>16. InUseFinite'
  BY <1>1, <1>11, <1>13 DEF InUseFinite
<1>17. AdmissionCapacity'
  BY <1>1, <1>2, <1>7, <1>11, <1>15 DEF AdmissionCapacity
<1> QED
  BY <1>8, <1>9, <1>16, <1>17 DEF AdmissionInv

(* A release only returns capacity. *)
LEMMA ReleaseKeepsAdmissionInv ==
  ASSUME AdmissionInv, TypeOK', NEW id \in AdmissionIds, ReleaseAdmission(id)
  PROVE  AdmissionInv'
<1>1. /\ TypeOK /\ AdmittedOnce /\ AdmissionsOfProviders /\ InUseFinite
      /\ AdmissionCapacity
  BY DEF AdmissionInv
<1>2. admissions[id] \in AdmissionRow
  BY <1>1 DEF TypeOK, ReleaseAdmission
<1>3. admissions' = [admissions EXCEPT ![id] = [admissions[id] EXCEPT !.status = "RELEASED"]]
  BY <1>1 DEF ReleaseAdmission, TypeOK
<1>4. /\ admissions'[id].provider = admissions[id].provider
      /\ admissions'[id].execution = admissions[id].execution
      /\ admissions'[id].status = "RELEASED"
  BY <1>1, <1>2, <1>3 DEF TypeOK, AdmissionRow
<1>5. \A a \in AdmissionIds \ {id} : admissions'[a] = admissions[a]
  BY <1>1, <1>3 DEF TypeOK
<1>6. UNCHANGED providers /\ admissions[id] # None
  BY DEF ReleaseAdmission
<1>7. AdmittedOnce' /\ AdmissionsOfProviders'
  BY <1>1, <1>4, <1>5, <1>6 DEF AdmittedOnce, AdmissionsOfProviders
<1>8. \A q \in ProviderIds : InUse(q)' \subseteq InUse(q)
  BY <1>4, <1>5 DEF InUse
<1>9. \A q \in ProviderIds :
        /\ IsFiniteSet(InUse(q))'
        /\ Cardinality(InUse(q))' <= Cardinality(InUse(q))
        /\ Cardinality(InUse(q))' \in Nat
        /\ Cardinality(InUse(q)) \in Nat
  BY <1>1, <1>8, FS_Subset, FS_CardinalityType DEF InUseFinite
<1>10. \A q \in ProviderIds : providers[q] # None => providers[q].profile.max \in Nat
  BY <1>1, MaxIsNat
<1>11. InUseFinite' /\ AdmissionCapacity'
  BY <1>1, <1>6, <1>9, <1>10 DEF InUseFinite, AdmissionCapacity
<1> QED
  BY <1>7, <1>11 DEF AdmissionInv

(* A configuration write never meets an admission in use. *)
LEMMA ConfigurationKeepsAdmissionInv ==
  ASSUME AdmissionInv, TypeOK', [Next]_vars, UNCHANGED admissions
  PROVE  AdmissionInv'
<1>1. /\ TypeOK /\ AdmittedOnce /\ AdmissionsOfProviders /\ InUseFinite
      /\ AdmissionCapacity
  BY DEF AdmissionInv
<1>2. \A q \in ProviderIds : InUse(q)' = InUse(q)
  BY DEF InUse
<1>3. AdmittedOnce' /\ InUseFinite'
  BY <1>1, <1>2 DEF AdmittedOnce, InUseFinite
<1>4. ConfigMoves
  BY <1>1, StepMoves
<1>5. AdmissionsOfProviders'
  BY <1>1, <1>4 DEF AdmissionsOfProviders, ConfigMoves, TypeOK, AdmissionRow
<1>6. ASSUME NEW q \in ProviderIds, providers'[q] # None
      PROVE  Cardinality(InUse(q))' <= providers'[q].profile.max
  <2>1. providers'[q].profile.max \in Nat
    BY <1>6, ProfilesAssumption DEF TypeOK, ProviderRow, ProfileFields
  <2>2. CASE InUse(q) = {}
    <3>1. Cardinality(InUse(q))' = 0
      BY <1>2, <2>2, FS_EmptySet
    <3> QED
      BY <2>1, <3>1
  <2>3. CASE InUse(q) # {}
    <3>1. providers[q] # None
      BY <1>1, <2>3 DEF AdmissionsOfProviders, InUse
    <3>2. providers'[q] = providers[q]
      BY <1>1, <2>3, <3>1, InUseFreezes
    <3> QED
      BY <1>1, <1>2, <3>1, <3>2 DEF AdmissionCapacity
  <2> QED
    BY <2>2, <2>3
<1>7. AdmissionCapacity'
  BY <1>6 DEF AdmissionCapacity
<1> QED
  BY <1>3, <1>5, <1>7 DEF AdmissionInv

(* Every step of the store preserves the invariant of its admissions. *)
LEMMA NextAdmissionInv == AdmissionInv /\ TypeOK' /\ [Next]_vars => AdmissionInv'
<1> SUFFICES ASSUME AdmissionInv, TypeOK', [Next]_vars PROVE AdmissionInv'
  OBVIOUS
<1>1. CASE AdmissionStep
  BY <1>1, AcquireKeepsAdmissionInv, ReleaseKeepsAdmissionInv DEF AdmissionStep
<1>2. CASE ~AdmissionStep
  <2>1. UNCHANGED admissions
    BY <1>2
    DEF Next, Tick, ConfigurationStep, EditStep, ProbeStep,
        SaveEndpoint, SaveProvider, ShowProfile, ReadForEdit, SaveEdit, DropEdit,
        StartProbe, SaveObservation, DropProbe, vars, storeVars, callerVars
  <2> QED
    BY <2>1, ConfigurationKeepsAdmissionInv
<1> QED
  BY <1>1, <1>2

(* Admissions stay within the limit, and no execution gets a second one. *)
THEOREM AdmissionInvariant == Spec => []AdmissionInv
<1> QED
  BY InitAdmissionInv, NextAdmissionInv, TypeCorrect, PTL DEF Spec

(* A provider never serves more executions than its profile allows. *)
THEOREM AdmissionsAreBounded == Spec => []AdmissionCapacity
<1>1. AdmissionInv => AdmissionCapacity
  BY DEF AdmissionInv
<1> QED
  BY <1>1, AdmissionInvariant, PTL

(* An execution is admitted to a provider at most once, ever. *)
THEOREM ExecutionsAreAdmittedOnce == Spec => []AdmittedOnce
<1>1. AdmissionInv => AdmittedOnce
  BY DEF AdmissionInv
<1> QED
  BY <1>1, AdmissionInvariant, PTL

(***************************************************************************)
(* What the provider store promises at every moment: its rows are typed,    *)
(* an observation is of the configuration it is stored for, and admissions  *)
(* stay within the limit and are unique.                                    *)
(***************************************************************************)
THEOREM ProvidersAreSafe == Spec => []ProviderSafety
<1>1. ConfigInv /\ AdmissionInv => ProviderSafety
  BY DEF ConfigInv, AdmissionInv, ProviderSafety
<1> QED
  BY <1>1, ConfigurationInvariant, AdmissionInvariant, PTL

(***************************************************************************)
(* And across its steps: a configuration in use does not move, and no edit  *)
(* overwrites a change its author has not seen.                             *)
(***************************************************************************)
THEOREM ConfigurationIsKept == Spec => ConfigurationHistory
<1> QED
  BY ConfigurationIsFrozen, EditsAreNotLost DEF ConfigurationHistory

-------------------------------------------------------------------------------
(* Calls of execute: the inductive invariant *)

ElasticPlaces == {"authorize", "reserve", "fenced", "provision"}
LoopPlaces == {"check", "admit", "validate", "recheck", "lease", "return"}
HoldingPlaces == {"fenced", "provision", "validate", "recheck", "lease", "return"}
RunnerPlaces == {"collect", "end", "dead"}

(* An admission that consumes capacity. *)
Taken(row) == row # None /\ row.status \in {"ACTIVE", "EXPIRED"}

(* The tasks before the current one are decided, those behind it untouched. *)
LoopFine(c, k) ==
  /\ k.pc \in ElasticPlaces => c \in Elastic
  /\ k.pc \in ElasticPlaces \cup LoopPlaces =>
       /\ k.out[k.i] = "PENDING"
       /\ \A j \in Positions(c) : j > k.i => k.out[j] = "PENDING" /\ k.adm[j] = None
  /\ k.pc \in HoldingPlaces => k.adm[k.i] # None
  /\ k.pc \in {"authorize", "reserve", "admit"} \/ (k.pc = "check" /\ c \notin Elastic) =>
       k.adm[k.i] = None

(***************************************************************************)
(* One task of a call: its admission was granted for it, is in use as long  *)
(* as the task may run, and is back when the outcome is settled.            *)
(***************************************************************************)
TaskFine(c, k, j, row, active) ==
  /\ k.adm[j] # None =>
       /\ row # None
       /\ row.provider = Plan[c][j].provider /\ row.execution = Plan[c][j].execution
       /\ row.gen = k.gens[j]
  /\ /\ k.adm[j] # None
     /\ k.out[j] \in {"PENDING", "RUNNABLE"}
     /\ k.res[j] \in {None, "UNSURE"}
     => Taken(row)
  /\ k.out[j] = "RUNNABLE" \/ k.res[j] # None => k.adm[j] # None
  /\ active => /\ k.adm[j] # None
               /\ Taken(row)
               /\ k.pc \in RunnerPlaces
               /\ k.res[j] \in {None, "UNSURE"}
  /\ (c \notin Elastic /\ k.out[j] \in {"WAIT", "COMPLETED"} /\ k.adm[j] # None) =>
       row.status = "RELEASED"

CallFine(c) ==
  /\ calls[c] = None => \A j \in Positions(c) : <<c, j>> \notin running
  /\ calls[c] # None =>
       /\ LoopFine(c, calls[c])
       /\ \A j \in Positions(c) :
            /\ providers[Plan[c][j].provider] # None
            /\ TaskFine(c, calls[c], j, admissions[calls[c].adm[j]], <<c, j>> \in running)

(* An admission is one task's. *)
AdmissionsDiffer ==
  \A c, d \in Calls :
    calls[c] # None /\ calls[d] # None =>
      \A i \in Positions(c), j \in Positions(d) :
        (calls[c].adm[i] # None /\ calls[c].adm[i] = calls[d].adm[j]) => c = d /\ i = j

(* What is admitted under a generation keeps the provider at it. *)
GenerationsHeld ==
  \A a \in AdmissionIds :
    (Taken(admissions[a]) /\ admissions[a].gen # None) =>
      providers[admissions[a].provider].gen = admissions[a].gen

BatchInv ==
  /\ ConfigInv /\ AdmissionInv
  /\ BatchTypeOK
  /\ \A c \in Calls : CallFine(c)
  /\ AdmissionsDiffer
  /\ GenerationsHeld

(* The step replaces the state of one call by k, and moves the store as it does. *)
CallMoves(c, k) ==
  /\ [Next]_vars
  /\ UNCHANGED providers
  /\ k \in CallState(c)
  /\ calls' = [calls EXCEPT ![c] = k]
  /\ running' \subseteq UNION {{d} \X Positions(d) : d \in Calls}
  /\ \A d \in Calls \ {c} : \A j \in Positions(d) :
       <<d, j>> \in running' <=> <<d, j>> \in running

(* It changes no admission but one of its own, or one that is not there yet. *)
OwnAdmissions(c) ==
  \A a \in AdmissionIds :
    \/ admissions'[a] = admissions[a]
    \/ admissions[a] = None
    \/ calls[c] # None /\ \E j \in Positions(c) : a = calls[c].adm[j]

(* It forgets and takes over no admission. *)
FreshAdmissions(c, k) ==
  \A j \in Positions(c) :
    \/ k.adm[j] = None
    \/ calls[c] # None /\ k.adm[j] = calls[c].adm[j]
    \/ /\ admissions[k.adm[j]] = None
       /\ \A i \in Positions(c) \ {j} : k.adm[i] # k.adm[j]

-------------------------------------------------------------------------------
(* The elements of a sequence. *)
LEMMA ElementsOf ==
  ASSUME NEW S, NEW s \in Seq(S), NEW i \in 1..Len(s)
  PROVE  s[i] \in S
  OBVIOUS

(* A plan is a sequence of tasks. *)
LEMMA PlanFacts ==
  ASSUME NEW c \in Calls
  PROVE  /\ Len(Plan[c]) \in Nat \ {0}
         /\ 1 \in Positions(c)
         /\ Positions(c) \subseteq Nat
         /\ \A i \in Positions(c) : /\ Plan[c][i].provider \in ProviderIds
                                    /\ Plan[c][i].execution \in Executions
         /\ BatchOf[c] \in Batches
         /\ c \in Elastic => Positions(c) = {1}
<1>1. /\ Plan[c] \in Seq([execution: Executions, provider: ProviderIds])
      /\ Len(Plan[c]) > 0 /\ BatchOf[c] \in Batches
      /\ c \in Elastic => Len(Plan[c]) = 1
  BY PlanAssumption
<1>2. Len(Plan[c]) \in Nat
  BY <1>1
<1>3. \A i \in 1..Len(Plan[c]) : Plan[c][i] \in [execution: Executions, provider: ProviderIds]
  BY <1>1, ElementsOf
<1> QED
  BY <1>1, <1>2, <1>3 DEF Positions

(* What is known of the state of a call. *)
LEMMA CallFacts ==
  ASSUME BatchInv, NEW c \in Calls, calls[c] # None
  PROVE  /\ calls[c] \in CallState(c)
         /\ LoopFine(c, calls[c])
         /\ \A j \in Positions(c) :
              /\ providers[Plan[c][j].provider] # None
              /\ TaskFine(c, calls[c], j, admissions[calls[c].adm[j]], <<c, j>> \in running)
  BY DEF BatchInv, BatchTypeOK, CallFine

(* What is not changed keeps its admission as it is. *)
LEMMA OthersKeep ==
  ASSUME BatchInv, NEW c \in Calls, OwnAdmissions(c),
         NEW d \in Calls \ {c}, calls[d] # None, NEW j \in Positions(d),
         calls[d].adm[j] # None
  PROVE  admissions'[calls[d].adm[j]] = admissions[calls[d].adm[j]]
<1> DEFINE a == calls[d].adm[j]
<1>1. a \in AdmissionIds
  BY CallFacts DEF CallState
<1>2. admissions[a] # None
  BY CallFacts DEF TaskFine
<1>3. ASSUME calls[c] # None, NEW i \in Positions(c), a = calls[c].adm[i]
      PROVE  FALSE
  BY <1>3 DEF BatchInv, AdmissionsDiffer
<1> QED
  BY <1>1, <1>2, <1>3 DEF OwnAdmissions

(* The generation of a provider stays while an admission under it is in use. *)
LEMMA NextGenerationsHeld ==
  ASSUME BatchInv, [Next]_vars, TypeOK'
  PROVE  GenerationsHeld'
<1>1. TypeOK /\ AdmissionsOfProviders /\ GenerationsHeld
  BY DEF BatchInv, BatchTypeOK, AdmissionInv
<1> SUFFICES ASSUME NEW a \in AdmissionIds, Taken(admissions'[a]), admissions'[a].gen # None
             PROVE  providers'[admissions'[a].provider].gen = admissions'[a].gen
  BY DEF GenerationsHeld, Taken
<1>2. \/ admissions'[a] = admissions[a]
      \/ /\ UNCHANGED providers
         /\ providers[admissions'[a].provider].gen = admissions'[a].gen
  <2>1. CASE AdmissionStep
    <3>1. CASE \E id \in AdmissionIds : ReleaseAdmission(id)
      <4> PICK id \in AdmissionIds : ReleaseAdmission(id)
        BY <3>1
      <4>1. admissions[id] \in AdmissionRow
        BY <1>1 DEF TypeOK, ReleaseAdmission
      <4>2. a # id
        BY <1>1, <4>1 DEF TypeOK, ReleaseAdmission, Taken, AdmissionRow
      <4> QED
        BY <1>1, <4>2 DEF TypeOK, ReleaseAdmission
    <3>2. CASE \E p \in ProviderIds, x \in Executions, b \in Batches, f \in Profiles,
                  g \in Generations \cup {None}, t \in 0..now, ttl \in Ttls, id \in AdmissionIds :
                 AcquireAdmission(p, x, b, f.max, g, t, ttl, id)
      <4> PICK p \in ProviderIds, x \in Executions, b \in Batches, f \in Profiles,
               g \in Generations \cup {None}, t \in 0..now, ttl \in Ttls, id \in AdmissionIds :
                 AcquireAdmission(p, x, b, f.max, g, t, ttl, id)
        BY <3>2
      <4>1. CASE a # id
        BY <1>1, <4>1 DEF TypeOK, AcquireAdmission
      <4>2. CASE a = id
        <5>1. admissions'[a] = NewAdmission(p, x, b, g, t, ttl) /\ UNCHANGED providers
          BY <1>1, <4>2 DEF TypeOK, AcquireAdmission
        <5>2. admissions'[a].provider = p /\ admissions'[a].gen = g
          BY <5>1 DEF NewAdmission
        <5>3. g # None => g = providers[p].gen
          BY DEF AcquireAdmission, AdmissionVerdict
        <5> QED
          BY <5>1, <5>2, <5>3
      <4> QED  BY <4>1, <4>2
    <3> QED  BY <2>1, <3>1, <3>2 DEF AdmissionStep
  <2>2. CASE ~AdmissionStep
    BY <2>2
    DEF Next, Tick, ConfigurationStep, EditStep, ProbeStep,
        SaveEndpoint, SaveProvider, ShowProfile, ReadForEdit, SaveEdit, DropEdit,
        StartProbe, SaveObservation, DropProbe, vars, storeVars, callerVars
  <2> QED  BY <2>1, <2>2
<1>3. CASE admissions'[a] = admissions[a]
  <2> DEFINE p == admissions[a].provider
  <2>1. p \in ProviderIds /\ providers[p] # None /\ a \in InUse(p)
    BY <1>1, <1>3 DEF TypeOK, Taken, AdmissionRow, AdmissionsOfProviders, InUse
  <2>2. providers'[p] = providers[p]
    BY <1>1, <2>1, InUseFreezes
  <2> QED
    BY <1>1, <1>3, <2>2 DEF GenerationsHeld
<1> QED
  BY <1>2, <1>3

(* The invariant after a step of one call: only that call needs another look. *)
LEMMA OneCallMoves ==
  ASSUME BatchInv, NEW c \in Calls, NEW k, CallMoves(c, k), OwnAdmissions(c),
         FreshAdmissions(c, k),
         \A j \in Positions(c) : providers[Plan[c][j].provider] # None,
         LoopFine(c, k),
         \A j \in Positions(c) :
           TaskFine(c, k, j, admissions'[k.adm[j]], <<c, j>> \in running')
  PROVE  BatchInv'
<1>1. ConfigInv' /\ AdmissionInv' /\ TypeOK'
  BY NextConfigInv, NextAdmissionInv DEF BatchInv, CallMoves, ConfigInv
<1>2. GenerationsHeld'
  BY <1>1, NextGenerationsHeld DEF CallMoves
<1>3. k # None
  BY NoCallAssumption DEF CallMoves
<1>4. /\ calls = [d \in Calls |-> calls[d]]
      /\ \A d \in Calls : calls[d] # None => calls[d] \in CallState(d)
  BY DEF BatchInv, BatchTypeOK
<1>5. /\ calls' = [d \in Calls |-> calls'[d]]
      /\ calls'[c] = k
      /\ \A d \in Calls \ {c} : calls'[d] = calls[d]
  BY <1>4 DEF CallMoves
<1>6. BatchTypeOK'
  BY <1>1, <1>4, <1>5 DEF BatchTypeOK, CallMoves
<1>7. CallFine(c)'
  BY <1>3, <1>5 DEF CallFine, CallMoves
<1>8. ASSUME NEW d \in Calls \ {c} PROVE CallFine(d)'
  <2>1. CASE calls[d] = None
    BY <1>5, <2>1 DEF CallFine, CallMoves, BatchInv
  <2>2. CASE calls[d] # None
    <3>1. ASSUME NEW j \in Positions(d)
          PROVE  /\ providers'[Plan[d][j].provider] # None
                 /\ TaskFine(d, calls'[d], j, admissions'[calls'[d].adm[j]], <<d, j>> \in running')
      <4>1. providers'[Plan[d][j].provider] # None
        BY <2>2, CallFacts DEF CallMoves
      <4>2. TaskFine(d, calls[d], j, admissions[calls[d].adm[j]], <<d, j>> \in running)
        BY <2>2, CallFacts
      <4>3. <<d, j>> \in running' <=> <<d, j>> \in running
        BY DEF CallMoves
      <4>4. calls'[d] = calls[d]
        BY <1>5
      <4>5. CASE calls[d].adm[j] # None
        <5>1. admissions'[calls[d].adm[j]] = admissions[calls[d].adm[j]]
          BY <2>2, <4>5, OthersKeep
        <5> QED
          BY <4>1, <4>2, <4>3, <4>4, <5>1 DEF TaskFine
      <4>6. CASE calls[d].adm[j] = None
        BY <4>1, <4>2, <4>3, <4>4, <4>6 DEF TaskFine
      <4> QED  BY <4>5, <4>6
    <3>2. LoopFine(d, calls'[d])
      BY <1>5, <2>2, CallFacts
    <3> QED
      BY <1>5, <2>2, <3>1, <3>2 DEF CallFine
  <2> QED  BY <2>1, <2>2
<1>9. AdmissionsDiffer'
  <2> SUFFICES ASSUME NEW d \in Calls, NEW e \in Calls, calls'[d] # None, calls'[e] # None,
                      NEW i \in Positions(d), NEW j \in Positions(e),
                      calls'[d].adm[i] # None, calls'[d].adm[i] = calls'[e].adm[j]
               PROVE  d = e /\ i = j
    BY DEF AdmissionsDiffer
  <2>1. AdmissionsDiffer
    BY DEF BatchInv
  <2>2. ASSUME NEW f \in Calls, calls[f] # None, NEW h \in Positions(f), calls[f].adm[h] # None
        PROVE  admissions[calls[f].adm[h]] # None
    <3>1. TaskFine(f, calls[f], h, admissions[calls[f].adm[h]], <<f, h>> \in running)
      BY <2>2, CallFacts
    <3> QED
      BY <2>2, <3>1 DEF TaskFine
  <2>3. CASE d # c /\ e # c
    BY <1>5, <2>1, <2>3 DEF AdmissionsDiffer
  <2>4. CASE d = c /\ e # c
    BY <1>5, <2>1, <2>2, <2>4 DEF AdmissionsDiffer, FreshAdmissions
  <2>5. CASE d # c /\ e = c
    BY <1>5, <2>1, <2>2, <2>5 DEF AdmissionsDiffer, FreshAdmissions
  <2>6. CASE d = c /\ e = c
    BY <1>5, <2>1, <2>2, <2>6 DEF AdmissionsDiffer, FreshAdmissions
  <2> QED  BY <2>3, <2>4, <2>5, <2>6
<1> QED
  BY <1>1, <1>2, <1>6, <1>7, <1>8, <1>9 DEF BatchInv

(* The runs of a call begin when its tasks are decided. *)
LEMMA NotYetActive ==
  ASSUME BatchInv, NEW c \in Calls, calls[c] # None, calls[c].pc \notin RunnerPlaces,
         NEW j \in Positions(c)
  PROVE  <<c, j>> \notin running
<1>1. TaskFine(c, calls[c], j, admissions[calls[c].adm[j]], <<c, j>> \in running)
  BY CallFacts
<1> QED
  BY <1>1 DEF TaskFine

(* The invariant after a step about one task of a call. *)
LEMMA OneTaskMoves ==
  ASSUME BatchInv, NEW c \in Calls, calls[c] # None, NEW k, CallMoves(c, k),
         NEW i \in Positions(c), k.gens = calls[c].gens, LoopFine(c, k),
         k.pc \in RunnerPlaces \/ calls[c].pc \notin RunnerPlaces,
         \A j \in Positions(c) \ {i} :
           /\ k.adm[j] = calls[c].adm[j] /\ k.out[j] = calls[c].out[j]
           /\ k.res[j] = calls[c].res[j]
           /\ <<c, j>> \in running' <=> <<c, j>> \in running,
         \A a \in AdmissionIds :
           a = k.adm[i] \/ admissions'[a] = admissions[a] \/ admissions[a] = None,
         k.adm[i] = calls[c].adm[i] \/ (k.adm[i] # None /\ admissions[k.adm[i]] = None),
         TaskFine(c, k, i, admissions'[k.adm[i]], <<c, i>> \in running')
  PROVE  BatchInv'
<1>1. calls[c] \in CallState(c) /\ k \in CallState(c)
  BY CallFacts DEF CallMoves
<1>2. ASSUME NEW j \in Positions(c)
      PROVE  TaskFine(c, calls[c], j, admissions[calls[c].adm[j]], <<c, j>> \in running)
  BY CallFacts
<1>3. ASSUME NEW j \in Positions(c) \ {i}, calls[c].adm[j] # None
      PROVE  /\ k.adm[i] # calls[c].adm[j]
             /\ calls[c].adm[j] \in AdmissionIds
             /\ admissions[calls[c].adm[j]] # None
             /\ admissions'[calls[c].adm[j]] = admissions[calls[c].adm[j]]
  <2>1. TaskFine(c, calls[c], j, admissions[calls[c].adm[j]], <<c, j>> \in running)
    BY <1>2
  <2>2. calls[c].adm[j] \in AdmissionIds /\ admissions[calls[c].adm[j]] # None
    BY <1>1, <1>3, <2>1 DEF TaskFine, CallState
  <2>3. calls[c].adm[i] # calls[c].adm[j]
    BY <1>3 DEF BatchInv, AdmissionsDiffer
  <2> QED
    BY <2>2, <2>3
<1>4. OwnAdmissions(c)
  BY DEF OwnAdmissions
<1>5. FreshAdmissions(c, k)
  <2> SUFFICES ASSUME NEW j \in Positions(c)
               PROVE  \/ k.adm[j] = calls[c].adm[j]
                      \/ /\ admissions[k.adm[j]] = None
                         /\ \A h \in Positions(c) \ {j} : k.adm[h] # k.adm[j]
    BY DEF FreshAdmissions
  <2>1. CASE j = i /\ k.adm[i] # calls[c].adm[i]
    <3>1. \A h \in Positions(c) \ {i} : k.adm[h] # k.adm[i]
      BY <1>3, <2>1
    <3> QED
      BY <2>1, <3>1
  <2> QED
    BY <2>1
<1>6. ASSUME NEW j \in Positions(c)
      PROVE  TaskFine(c, k, j, admissions'[k.adm[j]], <<c, j>> \in running')
  <2>1. CASE j = i
    BY <2>1
  <2>2. CASE j # i
    <3>1. /\ k.adm[j] = calls[c].adm[j] /\ k.out[j] = calls[c].out[j]
          /\ k.res[j] = calls[c].res[j] /\ k.gens[j] = calls[c].gens[j]
          /\ <<c, j>> \in running' <=> <<c, j>> \in running
      BY <2>2
    <3>2. TaskFine(c, calls[c], j, admissions[calls[c].adm[j]], <<c, j>> \in running)
      BY <1>2
    <3>3. calls[c].adm[j] # None => admissions'[calls[c].adm[j]] = admissions[calls[c].adm[j]]
      BY <1>3, <2>2
    <3>4. <<c, j>> \in running => k.pc \in RunnerPlaces
      BY NotYetActive
    <3> QED
      BY <3>1, <3>2, <3>3, <3>4 DEF TaskFine
  <2> QED  BY <2>1, <2>2
<1>7. \A j \in Positions(c) : providers[Plan[c][j].provider] # None
  BY CallFacts
<1> QED
  BY <1>4, <1>5, <1>6, <1>7, OneCallMoves

-------------------------------------------------------------------------------
(* The store under a call *)

(* The step leaves all admissions but the call's own as they are. *)
StoreSettles(c) ==
  /\ [Next]_vars
  /\ UNCHANGED providers
  /\ \A a \in AdmissionIds :
       a = Admission(c) \/ admissions'[a] = admissions[a] \/ admissions[a] = None
  /\ Admission(c) # None =>
       LET row == admissions[Admission(c)]
           next == admissions'[Admission(c)]
       IN  /\ next # None
           /\ next.provider = row.provider /\ next.execution = row.execution
           /\ next.gen = row.gen

(* The task that a call is at. *)
LEMMA CurrentFacts ==
  ASSUME BatchInv, NEW c \in Calls, calls[c] # None
  PROVE  /\ calls[c] \in CallState(c)
         /\ calls[c].i \in Positions(c) /\ calls[c].i \in 1..Len(Plan[c])
         /\ Current(c).provider \in ProviderIds /\ Current(c).execution \in Executions
         /\ providers[Current(c).provider] # None
         /\ calls[c].gens[calls[c].i] \in Generations
         /\ calls[c].max \in Nat /\ calls[c].started \in Nat
         /\ LoopFine(c, calls[c])
         /\ TaskFine(c, calls[c], calls[c].i, admissions[Admission(c)],
                     <<c, calls[c].i>> \in running)
         /\ Admission(c) \in AdmissionIds \cup {None}
<1>1. /\ calls[c] \in CallState(c)
      /\ LoopFine(c, calls[c])
      /\ calls[c].i \in Positions(c)
  BY CallFacts DEF CallState
<1>2. /\ providers[Plan[c][calls[c].i].provider] # None
      /\ TaskFine(c, calls[c], calls[c].i, admissions[calls[c].adm[calls[c].i]],
                  <<c, calls[c].i>> \in running)
  BY <1>1, CallFacts
<1>3. /\ calls[c].gens[calls[c].i] \in Generations
      /\ calls[c].max \in Nat /\ calls[c].started \in Nat
      /\ calls[c].adm[calls[c].i] \in AdmissionIds \cup {None}
  BY <1>1 DEF CallState
<1> QED
  BY <1>1, <1>2, <1>3, PlanFacts DEF Current, Admission, Positions

(* A step without a transaction. *)
LEMMA QuietSettles ==
  ASSUME BatchInv, NEW c \in Calls, calls[c] # None, UNCHANGED vars
  PROVE  /\ StoreSettles(c)
         /\ admissions' = admissions
<1>1. UNCHANGED providers /\ UNCHANGED admissions
  BY DEF vars, storeVars
<1>2. Admission(c) # None => admissions[Admission(c)] # None
  BY CurrentFacts DEF TaskFine, Admission
<1> QED
  BY <1>1, <1>2 DEF StoreSettles

(* _release_provider_admission frees the admission of the current task. *)
LEMMA ReleaseSettles ==
  ASSUME BatchInv, NEW c \in Calls, calls[c] # None, Admission(c) # None, Released(c)
  PROVE  /\ StoreSettles(c)
         /\ admissions'[Admission(c)].status = "RELEASED"
<1> DEFINE a == Admission(c)
<1>1. a \in AdmissionIds
  BY CurrentFacts
<1>2. ReleaseAdmission(a)
  BY DEF Released
<1>3. [Next]_vars
  BY <1>1, <1>2 DEF Next, AdmissionStep
<1>4. TypeOK
  BY DEF BatchInv, BatchTypeOK
<1>5. admissions[a] \in AdmissionRow
  BY <1>1, <1>2, <1>4 DEF TypeOK, ReleaseAdmission
<1>6. /\ admissions'[a] = [admissions[a] EXCEPT !.status = "RELEASED"]
      /\ \A b \in AdmissionIds \ {a} : admissions'[b] = admissions[b]
  BY <1>1, <1>2, <1>4 DEF TypeOK, ReleaseAdmission
<1>7. /\ admissions'[a] \in AdmissionRow
      /\ admissions'[a].status = "RELEASED"
      /\ admissions'[a].provider = admissions[a].provider
      /\ admissions'[a].execution = admissions[a].execution
      /\ admissions'[a].gen = admissions[a].gen
  BY <1>5, <1>6 DEF AdmissionRow, Statuses
<1>8. UNCHANGED providers
  BY <1>2 DEF ReleaseAdmission
<1> QED
  BY <1>3, <1>6, <1>7, <1>8, NoRowAssumption DEF StoreSettles

(* acquire_admission adds a row for the current task. *)
LEMMA AcquireSettles ==
  ASSUME BatchInv, NEW c \in Calls, calls[c] # None, Admission(c) = None,
         NEW t \in Nat, NEW id \in AdmissionIds,
         AcquireAdmission(Current(c).provider, Current(c).execution, BatchOf[c],
                          calls[c].max, calls[c].gens[calls[c].i], t, Ttl, id)
  PROVE  /\ StoreSettles(c)
         /\ admissions[id] = None
         /\ \A a \in AdmissionIds \ {id} : admissions'[a] = admissions[a]
         /\ Taken(admissions'[id])
         /\ admissions'[id].provider = Current(c).provider
         /\ admissions'[id].execution = Current(c).execution
         /\ admissions'[id].gen = calls[c].gens[calls[c].i]
<1> DEFINE p == Current(c).provider  x == Current(c).execution
           g == calls[c].gens[calls[c].i]  f == providers[p].profile
<1>1. /\ p \in ProviderIds /\ x \in Executions /\ BatchOf[c] \in Batches
      /\ g \in Generations /\ Ttl \in Ttls /\ providers[p] # None
  BY CurrentFacts, PlanFacts, PlanAssumption
<1>2. TypeOK
  BY DEF BatchInv, BatchTypeOK
<1>3. f \in Profiles /\ now \in Nat
  BY <1>1, <1>2 DEF TypeOK, ProviderRow
<1>4. calls[c].max = f.max /\ admissions[id] = None
  BY DEF AcquireAdmission, AdmissionVerdict, PriorVerdict
<1>5. t \in 0..now
  BY <1>3 DEF AcquireAdmission
<1>6. AcquireAdmission(p, x, BatchOf[c], f.max, g, t, Ttl, id)
  BY <1>4
<1>7. [Next]_vars
  <2> HIDE DEF p, x, g, f
  <2> QED
    BY <1>1, <1>3, <1>5, <1>6 DEF Next, AdmissionStep
<1>8. /\ admissions'[id] = NewAdmission(p, x, BatchOf[c], g, t, Ttl)
      /\ \A a \in AdmissionIds \ {id} : admissions'[a] = admissions[a]
      /\ UNCHANGED providers
  BY <1>2 DEF TypeOK, AcquireAdmission
<1>9. NewAdmission(p, x, BatchOf[c], g, t, Ttl) \in AdmissionRow
  <2>1. t + Ttl \in Nat
    BY <1>1, BoundsAssumption
  <2> QED
    BY <1>1, <2>1 DEF NewAdmission, AdmissionRow, Statuses
<1>10. /\ admissions'[id].provider = p /\ admissions'[id].execution = x
       /\ admissions'[id].gen = g /\ admissions'[id].status = "ACTIVE"
  BY <1>8 DEF NewAdmission
<1> QED
  BY <1>4, <1>7, <1>8, <1>9, <1>10, NoRowAssumption DEF StoreSettles, Taken

-------------------------------------------------------------------------------
(* The moves of a call *)

(* A step of a call that concerns its current task, store and call together. *)
LEMMA CurrentMoves ==
  ASSUME BatchInv, NEW c \in Calls, calls[c] # None, NEW k \in CallState(c),
         calls' = [calls EXCEPT ![c] = k], UNCHANGED running, StoreSettles(c),
         k.gens = calls[c].gens, k.adm = calls[c].adm, LoopFine(c, k),
         k.pc \in RunnerPlaces \/ calls[c].pc \notin RunnerPlaces,
         \A j \in Positions(c) \ {calls[c].i} :
           k.out[j] = calls[c].out[j] /\ k.res[j] = calls[c].res[j],
         TaskFine(c, k, calls[c].i, admissions'[Admission(c)], <<c, calls[c].i>> \in running)
  PROVE  BatchInv'
<1> PICK i \in Positions(c) : i = calls[c].i
  BY CurrentFacts
<1>1. Admission(c) = k.adm[i]
  BY DEF Admission
<1>2. running' \subseteq UNION {{d} \X Positions(d) : d \in Calls}
  BY DEF BatchInv, BatchTypeOK
<1>3. CallMoves(c, k)
  BY <1>2 DEF CallMoves, StoreSettles
<1>4. \A a \in AdmissionIds :
        a = k.adm[i] \/ admissions'[a] = admissions[a] \/ admissions[a] = None
  BY <1>1 DEF StoreSettles
<1>5. TaskFine(c, k, i, admissions'[k.adm[i]], <<c, i>> \in running')
  BY <1>1
<1> QED
  BY <1>3, <1>4, <1>5, OneTaskMoves

(* A step that decides nothing. *)
LEMMA GoesOn ==
  ASSUME BatchInv, NEW c \in Calls, calls[c] # None, NEW k \in CallState(c),
         calls' = [calls EXCEPT ![c] = k], UNCHANGED <<vars, running>>,
         k.gens = calls[c].gens, k.adm = calls[c].adm, k.out = calls[c].out,
         k.res = calls[c].res, LoopFine(c, k),
         k.pc \in RunnerPlaces \/ calls[c].pc \notin RunnerPlaces
  PROVE  BatchInv'
<1>1. calls[c].i \in Positions(c)
  BY CurrentFacts
<1>2. StoreSettles(c) /\ admissions' = admissions
  BY QuietSettles
<1>3. TaskFine(c, k, calls[c].i, admissions'[Admission(c)], <<c, calls[c].i>> \in running)
  <2>1. TaskFine(c, calls[c], calls[c].i, admissions[Admission(c)],
                 <<c, calls[c].i>> \in running)
    BY CurrentFacts
  <2>2. <<c, calls[c].i>> \in running => k.pc \in RunnerPlaces
    BY <1>1, NotYetActive
  <2> QED
    BY <1>2, <2>1, <2>2 DEF TaskFine
<1> QED
  BY <1>2, <1>3, CurrentMoves

(* The call goes on to its next step. *)
LEMMA GotoFine ==
  ASSUME BatchInv, NEW c \in Calls, calls[c] # None, NEW pc \in Places, Goto(c, pc),
         UNCHANGED <<vars, running>>,
         pc \in RunnerPlaces \/ calls[c].pc \notin RunnerPlaces,
         LoopFine(c, [calls[c] EXCEPT !.pc = pc])
  PROVE  BatchInv'
<1> DEFINE k == [calls[c] EXCEPT !.pc = pc]
<1>1. calls[c] \in CallState(c)
  BY CurrentFacts
<1>2. /\ k \in CallState(c)
      /\ k.gens = calls[c].gens /\ k.adm = calls[c].adm
      /\ k.out = calls[c].out /\ k.res = calls[c].res /\ k.pc = pc
  BY <1>1 DEF CallState
<1>3. calls' = [calls EXCEPT ![c] = k]
  BY DEF Goto
<1>4. LoopFine(c, k)
  OBVIOUS
<1> HIDE DEF k
<1> QED
  BY <1>2, <1>3, <1>4, GoesOn

(* The current task is decided in the loop. *)
LEMMA DecideFine ==
  ASSUME BatchInv, NEW c \in Calls, calls[c] # None, calls[c].pc \in LoopPlaces,
         NEW out \in {"RUNNABLE", "WAIT", "RECOVERY"}, Decide(c, out),
         UNCHANGED running, StoreSettles(c),
         out = "RUNNABLE" => Admission(c) # None /\ admissions' = admissions,
         (out = "WAIT" /\ Admission(c) # None /\ c \notin Elastic) =>
           admissions'[Admission(c)].status = "RELEASED"
  PROVE  BatchInv'
<1> DEFINE i == calls[c].i  k == DecideFrom(c, i, out)
<1>1. /\ calls[c] \in CallState(c) /\ i \in Positions(c) /\ i \in Nat
      /\ Len(Plan[c]) \in Nat /\ LoopFine(c, calls[c])
      /\ TaskFine(c, calls[c], i, admissions[Admission(c)], <<c, i>> \in running)
  BY CurrentFacts, PlanFacts
<1>2. k \in CallState(c)
  <2>1. (IF i < Len(Plan[c]) THEN i + 1 ELSE 1) \in Positions(c)
    BY <1>1, PlanFacts DEF Positions
  <2>2. calls[c].out \in [Positions(c) -> Outcomes]
    BY <1>1 DEF CallState
  <2>3. [calls[c].out EXCEPT ![i] = out] \in [Positions(c) -> Outcomes]
    BY <2>2 DEF Outcomes
  <2> QED
    BY <1>1, <2>1, <2>3 DEF DecideFrom, CallState, Places
<1>3. /\ k.gens = calls[c].gens /\ k.adm = calls[c].adm /\ k.res = calls[c].res
      /\ k.out = [calls[c].out EXCEPT ![i] = out]
      /\ \/ i < Len(Plan[c]) /\ k.pc = "check" /\ k.i = i + 1
         \/ ~(i < Len(Plan[c])) /\ k.pc = "collect"
  BY <1>1 DEF DecideFrom, CallState
<1>4. k.out[i] = out /\ \A j \in Positions(c) \ {i} : k.out[j] = calls[c].out[j]
  BY <1>1, <1>3 DEF CallState
<1>5. <<c, i>> \notin running
  BY <1>1, NotYetActive DEF LoopPlaces, RunnerPlaces
<1>6. LoopFine(c, k)
  <2>1. CASE k.pc = "collect"
    BY <2>1 DEF LoopFine, ElasticPlaces, LoopPlaces, HoldingPlaces
  <2>2. CASE k.pc = "check"
    <3>1. i < Len(Plan[c]) /\ k.i = i + 1
      BY <1>3, <2>2
    <3>2. i + 1 \in Positions(c) \ {i} /\ \A j \in Positions(c) : j > i + 1 => j > i /\ j # i
      BY <1>1, <3>1 DEF Positions
    <3>3. \A j \in Positions(c) : j > i => calls[c].out[j] = "PENDING" /\ calls[c].adm[j] = None
      BY <1>1 DEF LoopFine
    <3>4. \A j \in Positions(c) : j > i => j # i
      BY <1>1
    <3>5. \A j \in Positions(c) : j > i => k.out[j] = "PENDING" /\ k.adm[j] = None
      BY <1>3, <1>4, <3>3, <3>4
    <3>6. i + 1 > i
      BY <1>1
    <3> HIDE DEF k, i
    <3> QED
      BY <2>2, <3>1, <3>2, <3>5, <3>6 DEF LoopFine, ElasticPlaces, LoopPlaces, HoldingPlaces
  <2> QED  BY <1>3, <2>1, <2>2
<1>7. TaskFine(c, k, i, admissions'[Admission(c)], <<c, i>> \in running)
  <2>1. /\ k.adm[i] = Admission(c) /\ calls[c].adm[i] = Admission(c)
        /\ k.gens[i] = calls[c].gens[i] /\ k.res[i] = calls[c].res[i]
    BY <1>3 DEF Admission
  <2>2. calls[c].out[i] = "PENDING"
    BY <1>1 DEF LoopFine
  <2>3. StoreSettles(c)
    OBVIOUS
  <2> HIDE DEF k, i
  <2> QED
    BY <1>1, <1>4, <1>5, <2>1, <2>2, <2>3 DEF TaskFine, StoreSettles
<1>8. calls' = [calls EXCEPT ![c] = k]
  BY DEF Decide
<1>9. calls[c].pc \notin RunnerPlaces
  BY DEF LoopPlaces, RunnerPlaces
<1> HIDE DEF k
<1> QED
  BY <1>2, <1>3, <1>4, <1>6, <1>7, <1>8, <1>9, CurrentMoves

(* execute_once answers for its only task. *)
LEMMA FinishFine ==
  ASSUME BatchInv, NEW c \in Elastic, calls[c] # None,
         calls[c].pc \in ElasticPlaces \cup LoopPlaces,
         NEW out \in {"WAIT", "RECOVERY"}, Finish(c, out), UNCHANGED running, StoreSettles(c)
  PROVE  BatchInv'
<1> DEFINE k == [calls[c] EXCEPT !.out[1] = out, !.pc = "end"]
<1>1. c \in Calls
  BY PlanAssumption
<1>2. /\ calls[c] \in CallState(c) /\ calls[c].i = 1 /\ 1 \in Positions(c)
      /\ Positions(c) = {1}
      /\ TaskFine(c, calls[c], 1, admissions[Admission(c)], <<c, 1>> \in running)
  BY <1>1, CurrentFacts, PlanFacts
<1>3. /\ k \in CallState(c) /\ k.gens = calls[c].gens /\ k.adm = calls[c].adm
      /\ k.res = calls[c].res /\ k.out[1] = out /\ k.pc = "end"
  BY <1>2 DEF CallState, Outcomes, Places
<1>4. calls[c].pc \notin RunnerPlaces /\ <<c, 1>> \notin running
  BY <1>1, <1>2, NotYetActive DEF ElasticPlaces, LoopPlaces, RunnerPlaces
<1>5. LoopFine(c, k)
  BY <1>3 DEF LoopFine, ElasticPlaces, LoopPlaces, HoldingPlaces
<1>6. calls' = [calls EXCEPT ![c] = k]
  BY DEF Finish
<1>7. k.adm[1] = Admission(c) /\ calls[c].adm[1] = Admission(c)
  BY <1>2, <1>3 DEF Admission
<1> HIDE DEF k
<1>8. TaskFine(c, k, 1, admissions'[Admission(c)], <<c, 1>> \in running)
  BY <1>2, <1>3, <1>4, <1>7 DEF TaskFine, StoreSettles
<1> QED
  BY <1>1, <1>2, <1>3, <1>4, <1>5, <1>6, <1>8, CurrentMoves

(* A call that has been admitted goes on with the admission. *)
LEMMA AdmittedFine ==
  ASSUME BatchInv, NEW c \in Calls, calls[c] # None, NEW t \in Nat, NEW id \in AdmissionIds,
         NEW pc \in {"fenced", "validate"}, Admitted(c, t, id, pc), UNCHANGED running,
         \/ calls[c].pc = "reserve" /\ pc = "fenced"
         \/ calls[c].pc = "admit" /\ pc = "validate"
  PROVE  BatchInv'
<1> DEFINE k == [calls[c] EXCEPT !.pc = pc, !.adm[calls[c].i] = id]
<1> PICK i \in Positions(c) : i = calls[c].i
  BY CurrentFacts
<1>1. /\ calls[c] \in CallState(c) /\ LoopFine(c, calls[c])
      /\ TaskFine(c, calls[c], i, admissions[Admission(c)], <<c, i>> \in running)
  BY CurrentFacts
<1>2. Admission(c) = None /\ calls[c].out[i] = "PENDING"
  BY <1>1 DEF LoopFine, Admission, ElasticPlaces, LoopPlaces
<1>3. /\ StoreSettles(c) /\ admissions[id] = None
      /\ \A a \in AdmissionIds \ {id} : admissions'[a] = admissions[a]
      /\ Taken(admissions'[id])
      /\ admissions'[id].provider = Plan[c][i].provider
      /\ admissions'[id].execution = Plan[c][i].execution
      /\ admissions'[id].gen = calls[c].gens[i]
  BY <1>2, AcquireSettles DEF Admitted, Current
<1>4. /\ k \in CallState(c) /\ k.gens = calls[c].gens /\ k.out = calls[c].out
      /\ k.res = calls[c].res /\ k.pc = pc /\ k.i = i
      /\ k.adm = [calls[c].adm EXCEPT ![i] = id]
  BY <1>1 DEF CallState, Places
<1>5. k.adm[i] = id /\ \A j \in Positions(c) \ {i} : k.adm[j] = calls[c].adm[j]
  BY <1>1, <1>4 DEF CallState
<1>6. calls' = [calls EXCEPT ![c] = k]
  BY DEF Admitted
<1>7. running' \subseteq UNION {{d} \X Positions(d) : d \in Calls}
  BY DEF BatchInv, BatchTypeOK
<1> HIDE DEF k
<1>8. CallMoves(c, k)
  BY <1>3, <1>4, <1>6, <1>7 DEF CallMoves, StoreSettles
<1>9. id # None /\ calls[c].pc \notin RunnerPlaces
  BY NoCallAssumption DEF RunnerPlaces
<1>10. <<c, i>> \notin running
  BY <1>9, NotYetActive
<1>11. TaskFine(c, k, i, admissions'[k.adm[i]], <<c, i>> \in running')
  BY <1>2, <1>3, <1>4, <1>5, <1>9, <1>10 DEF TaskFine, Taken
<1>12. LoopFine(c, k)
  <2>1. \A j \in Positions(c) : j > i => j # i
    BY PlanFacts
  <2> QED
    BY <1>1, <1>2, <1>4, <1>5, <1>9, <2>1
    DEF LoopFine, ElasticPlaces, LoopPlaces, HoldingPlaces
<1> QED
  BY <1>3, <1>4, <1>5, <1>8, <1>9, <1>11, <1>12, OneTaskMoves

-------------------------------------------------------------------------------
(* The steps of execute_once and of the loop *)

(* How LoopFine reads when only the program counter and the limit change. *)
LEMMA LoopGoes ==
  ASSUME NEW c, NEW k \in CallState(c), LoopFine(c, k), NEW n \in CallState(c),
         n.i = k.i, n.out = k.out, n.adm = k.adm,
         k.pc \in ElasticPlaces \cup LoopPlaces,
         n.pc \in ElasticPlaces => c \in Elastic,
         n.pc \in HoldingPlaces => k.adm[k.i] # None,
         n.pc \in {"authorize", "reserve", "admit"} \/ (n.pc = "check" /\ c \notin Elastic) =>
           k.adm[k.i] = None
  PROVE  LoopFine(c, n)
  BY DEF LoopFine

(* A step within the loop without a transaction. *)
LEMMA LoopGoto ==
  ASSUME BatchInv, NEW c \in Calls, calls[c] # None,
         NEW pc \in ElasticPlaces \cup LoopPlaces, Goto(c, pc), UNCHANGED <<vars, running>>,
         calls[c].pc \in ElasticPlaces \cup LoopPlaces,
         pc \in ElasticPlaces => c \in Elastic,
         pc \in HoldingPlaces => Admission(c) # None,
         pc \in {"authorize", "reserve", "admit"} \/ (pc = "check" /\ c \notin Elastic) =>
           Admission(c) = None
  PROVE  BatchInv'
<1> DEFINE k == [calls[c] EXCEPT !.pc = pc]
<1>1. calls[c] \in CallState(c) /\ LoopFine(c, calls[c]) /\ pc \in Places
  BY CurrentFacts DEF ElasticPlaces, LoopPlaces, Places
<1>2. k \in CallState(c) /\ k.i = calls[c].i /\ k.out = calls[c].out /\ k.adm = calls[c].adm
      /\ k.pc = pc
  BY <1>1 DEF CallState
<1> HIDE DEF k
<1>3. LoopFine(c, k)
  BY <1>1, <1>2, LoopGoes DEF Admission
<1>4. calls[c].pc \notin RunnerPlaces
  BY DEF ElasticPlaces, LoopPlaces, RunnerPlaces
<1> QED
  BY <1>1, <1>3, <1>4, GotoFine DEF k

(* The limit that acquire_admission will be given. *)
LEMMA LoopGotoMax ==
  ASSUME BatchInv, NEW c \in Calls, calls[c] # None,
         NEW pc \in {"reserve", "admit", "validate"}, NEW max \in Nat,
         calls' = [calls EXCEPT ![c].pc = pc, ![c].max = max], UNCHANGED <<vars, running>>,
         calls[c].pc \in ElasticPlaces \cup LoopPlaces,
         pc = "reserve" => c \in Elastic,
         pc = "validate" <=> Admission(c) # None
  PROVE  BatchInv'
<1> DEFINE k == [calls[c] EXCEPT !.pc = pc, !.max = max]
<1>1. calls[c] \in CallState(c) /\ LoopFine(c, calls[c]) /\ pc \in Places
  BY CurrentFacts DEF Places
<1>2. /\ k \in CallState(c) /\ k.i = calls[c].i /\ k.out = calls[c].out
      /\ k.adm = calls[c].adm /\ k.res = calls[c].res /\ k.gens = calls[c].gens /\ k.pc = pc
  BY <1>1 DEF CallState
<1>3. calls' = [calls EXCEPT ![c] = k]
  OBVIOUS
<1> HIDE DEF k
<1>4. LoopFine(c, k)
  BY <1>1, <1>2, LoopGoes DEF Admission, ElasticPlaces, HoldingPlaces
<1>5. calls[c].pc \notin RunnerPlaces
  BY DEF ElasticPlaces, LoopPlaces, RunnerPlaces
<1> QED
  BY <1>2, <1>3, <1>4, <1>5, GoesOn

(* Where a call is, what it holds. *)
LEMMA PlaceFacts ==
  ASSUME BatchInv, NEW c \in Calls, calls[c] # None
  PROVE  /\ calls[c].pc \in ElasticPlaces => c \in Elastic
         /\ calls[c].pc \in HoldingPlaces => Admission(c) # None
         /\ calls[c].pc \in {"authorize", "reserve", "admit"} => Admission(c) = None
         /\ calls[c].pc = "check" /\ c \notin Elastic => Admission(c) = None
         /\ providers[Current(c).provider].profile.max \in Nat
<1>1. TypeOK
  BY DEF BatchInv, BatchTypeOK
<1> QED
  BY <1>1, CurrentFacts, MaxIsNat DEF LoopFine, Admission

(* authorize, before an extra worker is reserved. *)
LEMMA AuthorizeFine ==
  ASSUME BatchInv, NEW c \in Calls, Authorize(c)
  PROVE  BatchInv'
<1>1. /\ calls[c] # None /\ calls[c].pc = "authorize" /\ UNCHANGED <<vars, running>>
  BY DEF Authorize, At
<1>2. c \in Elastic /\ Admission(c) = None
      /\ providers[Current(c).provider].profile.max \in Nat
  BY <1>1, PlaceFacts DEF ElasticPlaces
<1>3. CASE calls' = [calls EXCEPT ![c].pc = "reserve",
                                  ![c].max = providers[Current(c).provider].profile.max]
  <2> PICK max \in Nat : max = providers[Current(c).provider].profile.max
    BY <1>2
  <2> QED
    BY <1>1, <1>2, <1>3, LoopGotoMax DEF ElasticPlaces
<1>4. CASE Finish(c, "WAIT")
  BY <1>1, <1>2, <1>4, FinishFine, QuietSettles DEF ElasticPlaces
<1> QED
  BY <1>3, <1>4 DEF Authorize

(* The reservation for an extra worker. *)
LEMMA ReserveFine ==
  ASSUME BatchInv, NEW c \in Calls, Reserve(c)
  PROVE  BatchInv'
<1>1. calls[c] # None /\ calls[c].pc = "reserve" /\ UNCHANGED running
  BY DEF Reserve, At
<1>2. c \in Elastic /\ now \in Nat
  BY <1>1, PlaceFacts DEF ElasticPlaces, BatchInv, BatchTypeOK, TypeOK
<1>3. CASE \E id \in AdmissionIds : Admitted(c, now, id, "fenced")
  <2> PICK t \in Nat : t = now
    BY <1>2
  <2> QED
    BY <1>1, <1>3, AdmittedFine
<1>4. ASSUME NEW out \in {"WAIT", "RECOVERY"}, Finish(c, out), UNCHANGED vars PROVE BatchInv'
  BY <1>1, <1>2, <1>4, FinishFine, QuietSettles DEF ElasticPlaces
<1> QED
  BY <1>3, <1>4 DEF Reserve

(* The record of the reservation is validated. *)
LEMMA FencedFine ==
  ASSUME BatchInv, NEW c \in Calls, Fenced(c)
  PROVE  BatchInv'
<1>1. /\ calls[c] # None /\ calls[c].pc = "fenced" /\ UNCHANGED <<vars, running>>
  BY DEF Fenced, At
<1>2. c \in Elastic /\ Admission(c) # None
  BY <1>1, PlaceFacts DEF ElasticPlaces, HoldingPlaces
<1>3. CASE Goto(c, "provision")
  BY <1>1, <1>2, <1>3, LoopGoto DEF ElasticPlaces
<1>4. CASE Finish(c, "RECOVERY")
  BY <1>1, <1>2, <1>4, FinishFine, QuietSettles DEF ElasticPlaces
<1> QED
  BY <1>3, <1>4 DEF Fenced

(* The provisioner's answer. *)
LEMMA ProvisionFine ==
  ASSUME BatchInv, NEW c \in Calls, Provision(c)
  PROVE  BatchInv'
<1>1. /\ calls[c] # None /\ calls[c].pc = "provision" /\ UNCHANGED <<vars, running>>
  BY DEF Provision, At
<1>2. c \in Elastic /\ Admission(c) # None
  BY <1>1, PlaceFacts DEF ElasticPlaces, HoldingPlaces
<1>3. CASE Goto(c, "check")
  BY <1>1, <1>2, <1>3, LoopGoto DEF ElasticPlaces, LoopPlaces, HoldingPlaces
<1>4. CASE Goto(c, "return")
  BY <1>1, <1>2, <1>4, LoopGoto DEF ElasticPlaces, LoopPlaces
<1>5. CASE Finish(c, "RECOVERY")
  BY <1>1, <1>2, <1>5, FinishFine, QuietSettles DEF ElasticPlaces
<1> QED
  BY <1>3, <1>4, <1>5 DEF Provision

(* A decision without a transaction. *)
LEMMA QuietDecision ==
  ASSUME BatchInv, NEW c \in Calls, calls[c] # None, calls[c].pc \in LoopPlaces,
         NEW out \in {"RUNNABLE", "WAIT", "RECOVERY"}, Decide(c, out), UNCHANGED <<vars, running>>,
         out = "RUNNABLE" => Admission(c) # None,
         out = "WAIT" /\ c \notin Elastic => Admission(c) = None
  PROVE  BatchInv'
<1>1. StoreSettles(c) /\ admissions' = admissions
  BY QuietSettles
<1> QED
  BY <1>1, DecideFine

(* Gate, authority and the call's own count. *)
LEMMA CheckFine ==
  ASSUME BatchInv, NEW c \in Calls, Check(c)
  PROVE  BatchInv'
<1>1. /\ calls[c] # None /\ calls[c].pc = "check" /\ UNCHANGED <<vars, running>>
  BY DEF Check, At
<1>2. /\ c \notin Elastic => Admission(c) = None
      /\ providers[Current(c).provider].profile.max \in Nat
  BY <1>1, PlaceFacts
<1>3. CASE Decide(c, "WAIT")
  BY <1>1, <1>2, <1>3, QuietDecision DEF LoopPlaces
<1>4. CASE calls' = [calls EXCEPT
                       ![c].pc = IF Admission(c) # None THEN "validate" ELSE "admit",
                       ![c].max = providers[Current(c).provider].profile.max]
  <2> PICK max \in Nat : max = providers[Current(c).provider].profile.max
    BY <1>2
  <2> PICK pc \in {"validate", "admit"} : pc = IF Admission(c) # None THEN "validate" ELSE "admit"
    OBVIOUS
  <2>1. calls' = [calls EXCEPT ![c].pc = pc, ![c].max = max]
    BY <1>4
  <2> QED
    BY <1>1, <2>1, LoopGotoMax DEF LoopPlaces
<1> QED
  BY <1>3, <1>4 DEF Check

(* acquire_admission in the loop. *)
LEMMA AdmitFine ==
  ASSUME BatchInv, NEW c \in Calls, Admit(c)
  PROVE  BatchInv'
<1>1. calls[c] # None /\ calls[c].pc = "admit" /\ UNCHANGED running
  BY DEF Admit, At
<1>2. Admission(c) = None /\ calls[c].started \in Nat
  BY <1>1, PlaceFacts, CurrentFacts
<1>3. CASE \E id \in AdmissionIds : Admitted(c, calls[c].started, id, "validate")
  <2> PICK t \in Nat : t = calls[c].started
    BY <1>2
  <2> QED
    BY <1>1, <1>3, AdmittedFine
<1>4. ASSUME NEW out \in {"WAIT", "RECOVERY"}, Decide(c, out), UNCHANGED vars PROVE BatchInv'
  BY <1>1, <1>2, <1>4, QuietDecision DEF LoopPlaces
<1> QED
  BY <1>3, <1>4 DEF Admit

(* acquire_admission raises; its row may be there. *)
LEMMA AdmitFailsFine ==
  ASSUME BatchInv, NEW c \in Calls, AdmitFails(c)
  PROVE  BatchInv'
<1>1. /\ calls[c] # None /\ calls[c].pc \in {"admit", "reserve"} /\ UNCHANGED running
  BY DEF AdmitFails, At
<1>2. Admission(c) = None /\ calls[c].started \in Nat /\ now \in Nat
  BY <1>1, PlaceFacts, CurrentFacts DEF BatchInv, BatchTypeOK, TypeOK
<1>3. StoreSettles(c)
  <2>1. CASE UNCHANGED vars
    BY <1>1, <2>1, QuietSettles
  <2>2. CASE ~UNCHANGED vars
    <3> PICK t \in Nat : t = IF At(c, "admit") THEN calls[c].started ELSE now
      BY <1>2
    <3> QED
      BY <1>1, <1>2, <2>2, AcquireSettles DEF AdmitFails
  <2> QED  BY <2>1, <2>2
<1>4. CASE calls[c].pc = "admit" /\ Decide(c, "RECOVERY")
  BY <1>1, <1>3, <1>4, DecideFine DEF LoopPlaces
<1>5. CASE calls[c].pc = "reserve" /\ Finish(c, "RECOVERY")
  <2>1. c \in Elastic
    BY <1>1, <1>5, PlaceFacts DEF ElasticPlaces
  <2> QED
    BY <1>1, <1>3, <1>5, <2>1, FinishFine DEF ElasticPlaces
<1> QED
  BY <1>4, <1>5 DEF AdmitFails, At

(* The record of the admission is validated. *)
LEMMA ValidateFine ==
  ASSUME BatchInv, NEW c \in Calls, Validate(c)
  PROVE  BatchInv'
<1>1. /\ calls[c] # None /\ calls[c].pc = "validate" /\ UNCHANGED <<vars, running>>
  BY DEF Validate, At
<1>2. Admission(c) # None
  BY <1>1, PlaceFacts DEF HoldingPlaces
<1>3. CASE Goto(c, "recheck")
  BY <1>1, <1>2, <1>3, LoopGoto DEF LoopPlaces, ElasticPlaces
<1>4. CASE Decide(c, "RECOVERY")
  BY <1>1, <1>4, QuietDecision DEF LoopPlaces
<1> QED
  BY <1>3, <1>4 DEF Validate

(* The authority is asked again. *)
LEMMA RecheckFine ==
  ASSUME BatchInv, NEW c \in Calls, Recheck(c)
  PROVE  BatchInv'
<1>1. /\ calls[c] # None /\ calls[c].pc = "recheck" /\ UNCHANGED <<vars, running>>
  BY DEF Recheck, At
<1>2. Admission(c) # None
  BY <1>1, PlaceFacts DEF HoldingPlaces
<1>3. PICK pc \in {"lease", "return"} : Goto(c, pc)
  BY DEF Recheck
<1> QED
  BY <1>1, <1>2, <1>3, LoopGoto DEF LoopPlaces, ElasticPlaces

(* The broker's answer. *)
LEMMA LeaseFine ==
  ASSUME BatchInv, NEW c \in Calls, Lease(c)
  PROVE  BatchInv'
<1>1. /\ calls[c] # None /\ calls[c].pc = "lease" /\ UNCHANGED <<vars, running>>
  BY DEF Lease, At
<1>2. Admission(c) # None
  BY <1>1, PlaceFacts DEF HoldingPlaces
<1>3. CASE Goto(c, "return")
  BY <1>1, <1>2, <1>3, LoopGoto DEF LoopPlaces, ElasticPlaces
<1>4. ASSUME NEW out \in {"RUNNABLE", "RECOVERY"}, Decide(c, out) PROVE BatchInv'
  BY <1>1, <1>2, <1>4, QuietDecision DEF LoopPlaces
<1> QED
  BY <1>3, <1>4 DEF Lease

(* The admission is given back. *)
LEMMA ReturnFine ==
  ASSUME BatchInv, NEW c \in Calls, Return(c)
  PROVE  BatchInv'
<1>1. calls[c] # None /\ calls[c].pc = "return" /\ UNCHANGED running
  BY DEF Return, At
<1>2. Admission(c) # None
  BY <1>1, PlaceFacts DEF HoldingPlaces
<1>3. PICK out \in {"WAIT", "RECOVERY"} :
        /\ IF c \in Elastic THEN Finish(c, out) ELSE Decide(c, out)
        /\ Released(c) \/ (out = "RECOVERY" /\ UNCHANGED vars)
  BY DEF Return, ReleaseError
<1>4. /\ StoreSettles(c)
      /\ out = "WAIT" => admissions'[Admission(c)].status = "RELEASED"
  BY <1>1, <1>2, <1>3, ReleaseSettles, QuietSettles
<1>5. CASE c \in Elastic
  BY <1>1, <1>3, <1>4, <1>5, FinishFine DEF LoopPlaces
<1>6. CASE c \notin Elastic
  BY <1>1, <1>3, <1>4, <1>6, DecideFine DEF LoopPlaces
<1> QED
  BY <1>5, <1>6

-------------------------------------------------------------------------------
(* The thread pool, crashes, and the beginning *)

(* A new call has its generations and nothing else. *)
LEMMA BeginFine ==
  ASSUME BatchInv, NEW c \in Calls, Begin(c)
  PROVE  BatchInv'
<1>1. /\ calls[c] = None /\ UNCHANGED <<vars, running>>
      /\ \A i \in Positions(c) : providers[Plan[c][i].provider] # None
  BY DEF Begin
<1>2. PICK k : /\ calls' = [calls EXCEPT ![c] = k]
               /\ k = [pc |-> IF c \in Elastic THEN "authorize" ELSE "check",
                       i |-> 1, started |-> now, max |-> 0,
                       gens |-> [i \in Positions(c) |-> providers[Plan[c][i].provider].gen],
                       adm |-> [i \in Positions(c) |-> None],
                       out |-> [i \in Positions(c) |-> "PENDING"],
                       res |-> [i \in Positions(c) |-> None]]
  BY DEF Begin
<1>3. TypeOK /\ now \in Nat
  BY DEF BatchInv, BatchTypeOK, TypeOK
<1>4. \A i \in Positions(c) : providers[Plan[c][i].provider].gen \in Generations
  BY <1>1, <1>3, PlanFacts DEF TypeOK, ProviderRow
<1>5. k \in CallState(c)
  BY <1>2, <1>3, <1>4, PlanFacts DEF CallState, Places, Outcomes
<1>6. /\ k.pc = (IF c \in Elastic THEN "authorize" ELSE "check") /\ k.i = 1
      /\ \A i \in Positions(c) : k.adm[i] = None /\ k.out[i] = "PENDING" /\ k.res[i] = None
  BY <1>2
<1>7. LoopFine(c, k)
  BY <1>6, PlanFacts DEF LoopFine, ElasticPlaces, LoopPlaces, HoldingPlaces
<1>8. \A i \in Positions(c) : <<c, i>> \notin running
  BY <1>1 DEF BatchInv, CallFine
<1>9. \A j \in Positions(c) :
        TaskFine(c, k, j, admissions'[k.adm[j]], <<c, j>> \in running')
  BY <1>1, <1>6, <1>8 DEF TaskFine
<1>10. CallMoves(c, k) /\ OwnAdmissions(c)
  BY <1>1, <1>2, <1>5 DEF CallMoves, OwnAdmissions, vars, storeVars, BatchInv, BatchTypeOK
<1>11. FreshAdmissions(c, k)
  BY <1>6 DEF FreshAdmissions
<1> QED
  BY <1>1, <1>7, <1>9, <1>10, <1>11, OneCallMoves

(* A step in which the call itself stays as it is. *)
LEMMA StaysFine ==
  ASSUME BatchInv, NEW c \in Calls, calls[c] # None, UNCHANGED <<vars, calls>>,
         running' \subseteq UNION {{d} \X Positions(d) : d \in Calls},
         \A d \in Calls \ {c} : \A j \in Positions(d) :
           <<d, j>> \in running' <=> <<d, j>> \in running,
         \A j \in Positions(c) :
           <<c, j>> \in running' =>
             \/ <<c, j>> \in running
             \/ /\ calls[c].pc = "collect" /\ calls[c].out[j] = "RUNNABLE"
                /\ calls[c].res[j] = None
  PROVE  BatchInv'
<1> DEFINE k == calls[c]
<1>1. k \in CallState(c) /\ LoopFine(c, k)
      /\ \A j \in Positions(c) : providers[Plan[c][j].provider] # None
  BY CallFacts
<1>2. calls' = [calls EXCEPT ![c] = k]
  BY DEF BatchInv, BatchTypeOK
<1>3. UNCHANGED providers /\ UNCHANGED admissions
  BY DEF vars, storeVars
<1>4. CallMoves(c, k) /\ OwnAdmissions(c) /\ FreshAdmissions(c, k)
  BY <1>1, <1>2, <1>3 DEF CallMoves, OwnAdmissions, FreshAdmissions
<1>5. ASSUME NEW j \in Positions(c)
      PROVE  TaskFine(c, k, j, admissions'[k.adm[j]], <<c, j>> \in running')
  <2>1. TaskFine(c, k, j, admissions[k.adm[j]], <<c, j>> \in running)
    BY CallFacts
  <2> HIDE DEF k
  <2> QED
    BY <1>3, <2>1 DEF TaskFine, RunnerPlaces, k
<1> HIDE DEF k
<1> QED
  BY <1>1, <1>4, <1>5, OneCallMoves

(* The runnable tasks start. *)
LEMMA StartRunnersFine ==
  ASSUME BatchInv, NEW c \in Calls, StartRunners(c)
  PROVE  BatchInv'
<1>1. /\ calls[c] # None /\ calls[c].pc = "collect" /\ UNCHANGED <<vars, calls>>
      /\ \A i \in Positions(c) : calls[c].res[i] = None
      /\ running' = running \cup {<<c, i>> : i \in Runnable(c)}
  BY DEF StartRunners, At
<1>2. running \subseteq UNION {{d} \X Positions(d) : d \in Calls}
  BY DEF BatchInv, BatchTypeOK
<1>3. Runnable(c) = {i \in Positions(c) : calls[c].out[i] = "RUNNABLE"}
  BY DEF Runnable
<1>4. running' \subseteq UNION {{d} \X Positions(d) : d \in Calls}
  BY <1>1, <1>2, <1>3
<1> QED
  BY <1>1, <1>3, <1>4, StaysFine

(* A run that nobody waits for ends. *)
LEMMA OrphanEndsFine ==
  ASSUME BatchInv, NEW c \in Calls, NEW i \in Positions(c), OrphanEnds(c, i)
  PROVE  BatchInv'
<1>1. /\ <<c, i>> \in running /\ running' = running \ {<<c, i>>}
      /\ UNCHANGED <<vars, calls>>
  BY DEF OrphanEnds
<1>2. calls[c] # None
  BY <1>1 DEF BatchInv, CallFine
<1>3. running' \subseteq UNION {{d} \X Positions(d) : d \in Calls}
  BY <1>1 DEF BatchInv, BatchTypeOK
<1> QED
  BY <1>1, <1>2, <1>3, StaysFine

(* A runner's answer is kept until the call comes to its task. *)
LEMMA RunnerAnswersFine ==
  ASSUME BatchInv, NEW c \in Calls, NEW i \in Positions(c), NEW result \in Results,
         RunnerAnswers(c, i, result)
  PROVE  BatchInv'
<1> DEFINE k == [calls[c] EXCEPT !.res[i] = result]
<1>1. /\ calls[c] # None /\ calls[c].pc = "collect" /\ <<c, i>> \in running
      /\ running' = IF result = "UNSURE" THEN running ELSE running \ {<<c, i>>}
      /\ UNCHANGED vars
  BY DEF RunnerAnswers, At
<1>2. /\ calls[c] \in CallState(c) /\ LoopFine(c, calls[c])
      /\ TaskFine(c, calls[c], i, admissions[calls[c].adm[i]], <<c, i>> \in running)
  BY <1>1, CallFacts
<1>3. /\ k \in CallState(c) /\ k.gens = calls[c].gens /\ k.adm = calls[c].adm
      /\ k.out = calls[c].out /\ k.pc = calls[c].pc
      /\ k.res = [calls[c].res EXCEPT ![i] = result]
  BY <1>2 DEF CallState
<1>4. k.res[i] = result /\ \A j \in Positions(c) \ {i} : k.res[j] = calls[c].res[j]
  BY <1>2, <1>3 DEF CallState
<1>5. calls' = [calls EXCEPT ![c] = k]
  BY DEF RunnerAnswers
<1>6. UNCHANGED providers /\ UNCHANGED admissions
  BY <1>1 DEF vars, storeVars
<1> HIDE DEF k
<1>7. running' \subseteq UNION {{d} \X Positions(d) : d \in Calls}
  BY <1>1 DEF BatchInv, BatchTypeOK
<1>8. CallMoves(c, k)
  BY <1>1, <1>3, <1>5, <1>6, <1>7 DEF CallMoves
<1>9. LoopFine(c, k) /\ k.pc \in RunnerPlaces
  BY <1>1, <1>3 DEF LoopFine, ElasticPlaces, LoopPlaces, HoldingPlaces, RunnerPlaces
<1>10. Taken(admissions'[k.adm[i]]) /\ k.adm[i] # None
  BY <1>1, <1>2, <1>3, <1>6 DEF TaskFine
<1>11. <<c, i>> \in running' => result = "UNSURE"
  BY <1>1
<1>12. TaskFine(c, k, i, admissions'[k.adm[i]], <<c, i>> \in running')
  <2>1. Taken(admissions'[k.adm[i]]) => admissions'[k.adm[i]].status # "RELEASED"
    BY DEF Taken
  <2>2. c \notin Elastic => k.out[i] \notin {"WAIT", "COMPLETED"}
    BY <1>2, <1>3, <1>6, <1>10, <2>1 DEF TaskFine
  <2> QED
    BY <1>2, <1>3, <1>4, <1>6, <1>9, <1>10, <1>11, <2>2 DEF TaskFine
<1>13. \A j \in Positions(c) \ {i} : <<c, j>> \in running' <=> <<c, j>> \in running
  BY <1>1
<1> QED
  BY <1>1, <1>3, <1>4, <1>6, <1>8, <1>9, <1>12, <1>13, OneTaskMoves

(* The outcome of the current task is written; the next one is looked at. *)
LEMMA DecideRunFine ==
  ASSUME BatchInv, NEW c \in Calls, calls[c] # None, calls[c].pc = "collect",
         NEW out \in Outcomes, DecideRun(c, out), UNCHANGED running, StoreSettles(c),
         \/ out = calls[c].out[calls[c].i] /\ admissions' = admissions
         \/ /\ out = "RECOVERY" \/ (out = "COMPLETED" /\
                 (Admission(c) # None => admissions'[Admission(c)].status = "RELEASED"))
            /\ \/ calls[c].res[calls[c].i] \in {"DONE", "REFUSED"}
               \/ admissions' = admissions
  PROVE  BatchInv'
<1> PICK i \in Positions(c) : i = calls[c].i
  BY CurrentFacts
<1> DEFINE k == [calls[c] EXCEPT !.out[i] = out,
                   !.i = IF i < Len(Plan[c]) THEN i + 1 ELSE i,
                   !.pc = IF i < Len(Plan[c]) THEN "collect" ELSE "end"]
<1>1. /\ calls[c] \in CallState(c) /\ Len(Plan[c]) \in Nat
      /\ TaskFine(c, calls[c], i, admissions[Admission(c)], <<c, i>> \in running)
  BY CurrentFacts, PlanFacts
<1>2. k \in CallState(c)
  <2>1. (IF i < Len(Plan[c]) THEN i + 1 ELSE i) \in Positions(c)
    BY <1>1 DEF Positions
  <2>2. [calls[c].out EXCEPT ![i] = out] \in [Positions(c) -> Outcomes]
    BY <1>1 DEF CallState
  <2> QED
    BY <1>1, <2>1, <2>2 DEF CallState, Places
<1>3. /\ k.gens = calls[c].gens /\ k.adm = calls[c].adm /\ k.res = calls[c].res
      /\ k.out = [calls[c].out EXCEPT ![i] = out]
      /\ k.pc \in {"collect", "end"}
  BY <1>1 DEF CallState
<1>4. k.out[i] = out /\ \A j \in Positions(c) \ {i} : k.out[j] = calls[c].out[j]
  BY <1>1, <1>3 DEF CallState
<1>5. calls' = [calls EXCEPT ![c] = k]
  BY DEF DecideRun
<1>6. k.adm[i] = Admission(c) /\ calls[c].adm[i] = Admission(c)
  BY <1>3 DEF Admission
<1> HIDE DEF k
<1>7. LoopFine(c, k) /\ k.pc \in RunnerPlaces
  BY <1>3 DEF LoopFine, ElasticPlaces, LoopPlaces, HoldingPlaces, RunnerPlaces
<1>8. TaskFine(c, k, i, admissions'[Admission(c)], <<c, i>> \in running)
  <2>1. /\ None # "DONE" /\ None # "REFUSED"
    BY NoCallAssumption DEF Results
  <2>2. CASE out = calls[c].out[i] /\ admissions' = admissions
    BY <1>1, <1>3, <1>4, <1>6, <1>7, <2>2 DEF TaskFine
  <2>3. CASE calls[c].res[i] \in {"DONE", "REFUSED"} /\ out \in {"RECOVERY", "COMPLETED"}
             /\ (out = "COMPLETED" /\ Admission(c) # None =>
                   admissions'[Admission(c)].status = "RELEASED")
    BY <1>1, <1>3, <1>4, <1>6, <1>7, <2>1, <2>3 DEF TaskFine, StoreSettles
  <2>4. CASE admissions' = admissions /\ out \in {"RECOVERY", "COMPLETED"}
             /\ (out = "COMPLETED" /\ Admission(c) # None =>
                   admissions'[Admission(c)].status = "RELEASED")
    BY <1>1, <1>3, <1>4, <1>6, <1>7, <2>1, <2>4 DEF TaskFine
  <2> QED
    BY <2>2, <2>3, <2>4
<1> QED
  BY <1>2, <1>3, <1>4, <1>5, <1>7, <1>8, CurrentMoves

(* The answers are taken in plan order. *)
LEMMA CollectFine ==
  ASSUME BatchInv, NEW c \in Calls, Collect(c)
  PROVE  BatchInv'
<1> DEFINE i == calls[c].i  result == calls[c].res[i]
<1>1. calls[c] # None /\ calls[c].pc = "collect" /\ UNCHANGED running
  BY DEF Collect, At
<1>2. /\ calls[c] \in CallState(c) /\ i \in Positions(c)
      /\ TaskFine(c, calls[c], i, admissions[Admission(c)], <<c, i>> \in running)
  BY <1>1, CurrentFacts
<1>3. CASE DecideRun(c, calls[c].out[i]) /\ UNCHANGED vars
  <2>1. calls[c].out[i] \in Outcomes
    BY <1>2 DEF CallState
  <2> QED
    BY <1>1, <1>3, <2>1, QuietSettles, DecideRunFine
<1>4. CASE DecideRun(c, "RECOVERY") /\ UNCHANGED vars
  BY <1>1, <1>4, QuietSettles, DecideRunFine DEF Outcomes
<1>5. CASE /\ result # None /\ ReleasesAdmission(result)
           /\ Released(c)
           /\ \E out \in {"COMPLETED", "RECOVERY"} : DecideRun(c, out)
  <2>1. Admission(c) # None
    BY <1>2, <1>5 DEF TaskFine, Admission
  <2>2. StoreSettles(c) /\ admissions'[Admission(c)].status = "RELEASED"
    BY <1>1, <1>5, <2>1, ReleaseSettles
  <2> QED
    BY <1>1, <1>5, <2>2, DecideRunFine DEF Outcomes, ReleasesAdmission
<1> QED
  BY <1>3, <1>4, <1>5 DEF Collect, ReleaseError

(* The process of a call dies. *)
LEMMA CrashFine ==
  ASSUME BatchInv, NEW c \in Calls, Crash(c)
  PROVE  BatchInv'
<1>1. /\ calls[c] # None /\ Goto(c, "dead") /\ UNCHANGED <<vars, running>>
  BY DEF Crash, Live
<1>2. LoopFine(c, [calls[c] EXCEPT !.pc = "dead"])
  <2>1. calls[c] \in CallState(c)
    BY <1>1, CallFacts
  <2>2. [calls[c] EXCEPT !.pc = "dead"].pc = "dead"
    BY <2>1 DEF CallState
  <2> QED
    BY <2>2 DEF LoopFine, ElasticPlaces, LoopPlaces, HoldingPlaces
<1> QED
  BY <1>1, <1>2, GotoFine DEF Places, RunnerPlaces

(* Edits, probes and time under the calls. *)
LEMMA StoreStepFine ==
  ASSUME BatchInv, [Next]_vars, UNCHANGED batchVars, UNCHANGED admissions
  PROVE  BatchInv'
<1>1. ConfigInv' /\ AdmissionInv' /\ TypeOK'
  BY NextConfigInv, NextAdmissionInv DEF BatchInv, ConfigInv
<1>2. GenerationsHeld'
  BY <1>1, NextGenerationsHeld
<1>3. UNCHANGED calls /\ UNCHANGED running
  BY DEF batchVars
<1>4. BatchTypeOK' /\ AdmissionsDiffer'
  BY <1>1, <1>3 DEF BatchInv, BatchTypeOK, AdmissionsDiffer
<1>5. ASSUME NEW c \in Calls PROVE CallFine(c)'
  <2>1. CallFine(c) /\ TypeOK
    BY DEF BatchInv, BatchTypeOK
  <2>2. \A p \in ProviderIds : providers[p] # None => providers'[p] # None
    BY <2>1, StepMoves DEF ConfigMoves
  <2> QED
    BY <1>3, <2>1, <2>2, PlanFacts DEF CallFine
<1> QED
  BY <1>1, <1>2, <1>4, <1>5 DEF BatchInv

-------------------------------------------------------------------------------
(* The theorems about batches *)

(* Every step keeps the invariant. *)
LEMMA NextBatchInv == BatchInv /\ [BatchNext]_allVars => BatchInv'
<1> SUFFICES ASSUME BatchInv, [BatchNext]_allVars PROVE BatchInv'
  OBVIOUS
<1>1. CASE UNCHANGED allVars
  BY <1>1, StoreStepFine DEF allVars, vars, storeVars
<1>2. CASE StoreStep
  <2>1. [Next]_vars /\ UNCHANGED batchVars
    BY <1>2 DEF StoreStep, Next
  <2>2. UNCHANGED admissions
    BY <1>2
    DEF StoreStep, Tick, ConfigurationStep, ProbeStep, SaveEndpoint, SaveProvider,
        StartProbe, SaveObservation, DropProbe, storeVars
  <2> QED
    BY <2>1, <2>2, StoreStepFine
<1>3. ASSUME NEW c \in Calls, Begin(c) \/ CallStep(c) PROVE BatchInv'
  BY <1>3, BeginFine, AuthorizeFine, ReserveFine, FencedFine, ProvisionFine, CheckFine,
     AdmitFine, AdmitFailsFine, ValidateFine, RecheckFine, LeaseFine, ReturnFine,
     StartRunnersFine, CollectFine
  DEF CallStep
<1>4. ASSUME NEW c \in Calls,
             RunnerStep(c) \/ Crash(c) \/ \E i \in Positions(c) : OrphanEnds(c, i)
      PROVE  BatchInv'
  BY <1>4, RunnerAnswersFine, CrashFine, OrphanEndsFine DEF RunnerStep
<1> QED
  BY <1>1, <1>2, <1>3, <1>4 DEF BatchNext

(* No call has begun. *)
LEMMA InitBatchInv == BatchInit => BatchInv
<1> SUFFICES ASSUME BatchInit PROVE BatchInv
  OBVIOUS
<1>1. ConfigInv /\ AdmissionInv /\ TypeOK
  BY InitConfigInv, InitAdmissionInv DEF BatchInit, ConfigInv
<1>2. calls = [c \in Calls |-> None] /\ running = {}
  BY DEF BatchInit
<1>3. GenerationsHeld
  BY DEF BatchInit, Init, GenerationsHeld, Taken, LegacyAdmissions
<1> QED
  BY <1>1, <1>2, <1>3 DEF BatchInv, BatchTypeOK, CallFine, AdmissionsDiffer

(* The invariant of calls and store together. *)
THEOREM BatchInvariant == BatchSpec => []BatchInv
<1> QED
  BY InitBatchInv, NextBatchInv, PTL DEF BatchSpec

(* A run holds an admission that was granted for it and is in use. *)
LEMMA RunsAreAdmitted ==
  ASSUME BatchInv, NEW r \in running
  PROVE  /\ r[1] \in Calls /\ r[2] \in Positions(r[1]) /\ r = <<r[1], r[2]>>
         /\ calls[r[1]] # None
         /\ ProviderOf(r) \in ProviderIds /\ providers[ProviderOf(r)] # None
         /\ calls[r[1]].adm[r[2]] \in AdmissionIds
         /\ calls[r[1]].adm[r[2]] # None
         /\ Taken(admissions[calls[r[1]].adm[r[2]]])
         /\ admissions[calls[r[1]].adm[r[2]]].provider = ProviderOf(r)
         /\ admissions[calls[r[1]].adm[r[2]]].execution = ExecutionOf(r)
         /\ admissions[calls[r[1]].adm[r[2]]].gen = GenerationOf(r)
         /\ GenerationOf(r) \in Generations
<1> PICK c \in Calls : r \in {c} \X Positions(c)
  BY DEF BatchInv, BatchTypeOK
<1>1. PICK i \in Positions(c) : r = <<c, i>>
  OBVIOUS
<1>2. calls[c] # None
  BY <1>1 DEF BatchInv, CallFine
<1>3. /\ calls[c] \in CallState(c) /\ providers[Plan[c][i].provider] # None
      /\ TaskFine(c, calls[c], i, admissions[calls[c].adm[i]], TRUE)
  BY <1>1, <1>2, CallFacts
<1>4. calls[c].adm[i] \in AdmissionIds \cup {None} /\ calls[c].gens[i] \in Generations
  BY <1>3 DEF CallState
<1>5. r[1] = c /\ r[2] = i
  BY <1>1
<1>6. /\ calls[c].adm[i] # None /\ Taken(admissions[calls[c].adm[i]])
      /\ admissions[calls[c].adm[i]].provider = Plan[c][i].provider
      /\ admissions[calls[c].adm[i]].execution = Plan[c][i].execution
      /\ admissions[calls[c].adm[i]].gen = calls[c].gens[i]
  BY <1>3 DEF TaskFine
<1> QED
  BY <1>1, <1>2, <1>3, <1>4, <1>5, <1>6, PlanFacts DEF ProviderOf, ExecutionOf, GenerationOf

(* Runs at a provider are no more than the admissions it has in use. *)
LEMMA RunsWithinAdmissions ==
  ASSUME BatchInv, NEW p \in ProviderIds, providers[p] # None
  PROVE  Cardinality({r \in running : ProviderOf(r) = p}) <= providers[p].profile.max
<1> DEFINE S == {r \in running : ProviderOf(r) = p}
           f == [r \in S |-> calls[r[1]].adm[r[2]]]
<1>1. \A r \in S : f[r] \in InUse(p)
  BY RunsAreAdmitted DEF InUse, Taken
<1>2. ASSUME NEW r \in S, NEW s \in S, f[r] = f[s] PROVE r = s
  <2>1. calls[r[1]].adm[r[2]] = calls[s[1]].adm[s[2]]
    BY <1>2
  <2>2. r[1] = s[1] /\ r[2] = s[2]
    BY <2>1, RunsAreAdmitted DEF BatchInv, AdmissionsDiffer
  <2> QED
    BY <2>2, RunsAreAdmitted
<1>3. f \in Injection(S, InUse(p))
  BY <1>1, <1>2 DEF Injection, IsInjective
<1>4. IsFiniteSet(InUse(p)) /\ Cardinality(InUse(p)) <= providers[p].profile.max /\ TypeOK
  BY DEF BatchInv, AdmissionInv, InUseFinite, AdmissionCapacity
<1>5. Cardinality(S) <= Cardinality(InUse(p)) /\ IsFiniteSet(S)
  <2> HIDE DEF f, S
  <2> QED
    BY <1>3, <1>4, FS_Injection
<1>6. Cardinality(S) \in Nat /\ Cardinality(InUse(p)) \in Nat
  BY <1>4, <1>5, FS_CardinalityType
<1>7. providers[p].profile.max \in Nat
  BY <1>4, MaxIsNat
<1> QED
  BY <1>4, <1>5, <1>6, <1>7

(***************************************************************************)
(* Whatever batches overlap, repeat, crash or run out their admissions, a   *)
(* provider runs no execution twice, no more than its limit allows, and     *)
(* none under another configuration than was planned; what is settled has   *)
(* given back its admission.                                                *)
(***************************************************************************)
THEOREM BatchesAreSafe == BatchSpec => []BatchSafety
<1>1. BatchInv => BatchSafety
  <2> SUFFICES ASSUME BatchInv PROVE BatchSafety
    OBVIOUS
  <2>1. BatchTypeOK
    BY DEF BatchInv
  <2>2. NeverRunsTwice
    <3> SUFFICES ASSUME NEW r \in running, NEW s \in running, r # s,
                        ProviderOf(r) = ProviderOf(s), ExecutionOf(r) = ExecutionOf(s)
                 PROVE  FALSE
      BY DEF NeverRunsTwice
    <3> DEFINE a == calls[r[1]].adm[r[2]]  b == calls[s[1]].adm[s[2]]
    <3>1. a # b
      BY RunsAreAdmitted DEF BatchInv, AdmissionsDiffer
    <3>2. /\ a \in AdmissionIds /\ b \in AdmissionIds
          /\ admissions[a] # None /\ admissions[b] # None
          /\ admissions[a].provider = admissions[b].provider
          /\ admissions[a].execution = admissions[b].execution
      BY RunsAreAdmitted DEF Taken
    <3> HIDE DEF a, b
    <3> QED
      BY <3>1, <3>2 DEF BatchInv, AdmissionInv, AdmittedOnce
  <2>3. RunningWithinLimit
    BY RunsWithinAdmissions DEF RunningWithinLimit
  <2>4. NoSilentAdmission
    <3> SUFFICES ASSUME NEW c \in Calls \ Elastic, calls[c] # None, NEW i \in Positions(c),
                        calls[c].out[i] \in {"WAIT", "COMPLETED"}, calls[c].adm[i] # None
                 PROVE  admissions[calls[c].adm[i]].status = "RELEASED"
      BY DEF NoSilentAdmission
    <3>1. TaskFine(c, calls[c], i, admissions[calls[c].adm[i]], <<c, i>> \in running)
      BY CallFacts
    <3> QED
      BY <3>1 DEF TaskFine
  <2>5. RunsUnderPlannedGeneration
    <3> SUFFICES ASSUME NEW r \in running
                 PROVE  providers[ProviderOf(r)].gen = GenerationOf(r)
      BY DEF RunsUnderPlannedGeneration
    <3>1. GenerationOf(r) # None
      BY RunsAreAdmitted, BoundsAssumption DEF Generations
    <3> QED
      BY <3>1, RunsAreAdmitted DEF BatchInv, GenerationsHeld
  <2> QED
    BY <2>1, <2>2, <2>3, <2>4, <2>5 DEF BatchSafety
<1> QED
  BY <1>1, BatchInvariant, PTL

(* A call touches the store through its transactions only. *)
LEMMA CallUsesStore ==
  ASSUME BatchInv, NEW c \in Calls, CallStep(c)
  PROVE  [Next]_vars
<1>1. CASE UNCHANGED vars
  BY <1>1
<1>2. CASE Reserve(c) \/ Admit(c) \/ AdmitFails(c)
  <2>1. calls[c] # None /\ calls[c].pc \in {"reserve", "admit"}
    BY <1>2 DEF Reserve, Admit, AdmitFails, At
  <2>2. Admission(c) = None /\ calls[c].started \in Nat /\ now \in Nat
    BY <2>1, PlaceFacts, CurrentFacts DEF BatchInv, BatchTypeOK, TypeOK
  <2>3. UNCHANGED vars \/ \E t \in {now, calls[c].started}, id \in AdmissionIds :
          AcquireAdmission(Current(c).provider, Current(c).execution, BatchOf[c],
                           calls[c].max, calls[c].gens[calls[c].i], t, Ttl, id)
    BY <1>2 DEF Reserve, Admit, AdmitFails, Admitted
  <2> QED
    BY <2>1, <2>2, <2>3, AcquireSettles DEF StoreSettles
<1>3. CASE Return(c) \/ Collect(c)
  <2>1. calls[c] # None
    BY <1>3 DEF Return, Collect, At
  <2>2. UNCHANGED vars \/ (Released(c) /\ Admission(c) # None)
    <3>1. CASE Return(c)
      <4>1. Admission(c) # None
        BY <2>1, <3>1, PlaceFacts DEF Return, At, HoldingPlaces
      <4> QED
        BY <3>1, <4>1 DEF Return, ReleaseError
    <3>2. CASE Collect(c)
      <4>1. calls[c].res[calls[c].i] # None => Admission(c) # None
        BY <2>1, CurrentFacts DEF TaskFine, Admission
      <4> QED
        BY <3>2, <4>1 DEF Collect, ReleaseError
    <3> QED  BY <1>3, <3>1, <3>2
  <2> QED
    BY <2>1, <2>2, ReleaseSettles DEF StoreSettles
<1>4. CASE \/ Authorize(c) \/ Fenced(c) \/ Provision(c) \/ Check(c) \/ Validate(c)
           \/ Recheck(c) \/ Lease(c) \/ StartRunners(c)
  BY <1>1, <1>4
  DEF Authorize, Fenced, Provision, Check, Validate, Recheck, Lease, StartRunners
<1> QED
  BY <1>2, <1>3, <1>4 DEF CallStep

(***************************************************************************)
(* The calls use the store as it may be used: each of their steps is one of *)
(* its transactions or none, so that everything proved of the store holds   *)
(* while batches run.                                                       *)
(***************************************************************************)
THEOREM BatchesUseStore == BatchSpec => Spec
<1>1. BatchInv /\ [BatchNext]_allVars => [Next]_vars
  <2> SUFFICES ASSUME BatchInv, [BatchNext]_allVars PROVE [Next]_vars
    OBVIOUS
  <2>1. CASE UNCHANGED allVars
    BY <2>1 DEF allVars
  <2>2. CASE StoreStep
    BY <2>2 DEF StoreStep, Next
  <2>3. ASSUME NEW c \in Calls, CallStep(c) PROVE [Next]_vars
    BY <2>3, CallUsesStore
  <2>4. ASSUME NEW c \in Calls,
               \/ Begin(c) \/ RunnerStep(c) \/ Crash(c)
               \/ \E i \in Positions(c) : OrphanEnds(c, i)
        PROVE  [Next]_vars
    BY <2>4 DEF Begin, RunnerStep, RunnerAnswers, Crash, OrphanEnds
  <2> QED
    BY <2>1, <2>2, <2>3, <2>4 DEF BatchNext
<1>2. BatchInit => Init
  BY DEF BatchInit
<1> QED
  BY <1>1, <1>2, BatchInvariant, PTL DEF BatchSpec, Spec

(* Under batches, what the store promises at every moment. *)
THEOREM BatchesKeepProviders == BatchSpec => []ProviderSafety
<1> QED
  BY BatchesUseStore, ProvidersAreSafe, PTL

(* Under batches, what the store promises across its steps. *)
THEOREM BatchesKeepConfiguration == BatchSpec => ConfigurationHistory
<1> QED
  BY BatchesUseStore, ConfigurationIsKept, PTL

===============================================================================
