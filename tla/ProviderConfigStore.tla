-------------------------- MODULE ProviderConfigStore --------------------------
(***************************************************************************)
(* The provider authority of provider_config_store.py: provider profiles    *)
(* and endpoints with a generation each, the latest observation of every    *)
(* provider, and the admissions that consume a provider's concurrency.      *)
(* Every operation is one BEGIN IMMEDIATE transaction and one action here;  *)
(* a refused operation rolls back and changes nothing.                      *)
(*                                                                         *)
(* Two callers keep what they read across a step in which the store may     *)
(* change, and are modelled with it: the probe of                           *)
(* provider_runtime_assembly.py and the profile edit of desktop_control.py. *)
(***************************************************************************)
EXTENDS Integers, FiniteSets

CONSTANTS
  ProviderIds, EndpointRefs,
  Urls,            \* base_url values
  Profiles,        \* the ProviderConfiguration values that get saved
  Executions,      \* execution_id values
  Batches,         \* batch_id values
  AdmissionIds,    \* values the admission_id factory can return
  Ttls,            \* ttl_seconds callers ask for
  Probers,         \* processes that refresh observations
  Editors,         \* operators that edit profiles
  LegacyProfiles,  \* profiles the migration may find, at generation 1
  LegacyExecutions,\* executions that old binaries may have left admitted
  MaxGeneration,   \* _MAX_PROVIDER_GENERATION
  MaxTime,         \* bound on the clock, for model checking
  None             \* SQL NULL, or no row

VARIABLES
  now,           \* the machine's clock
  endpoints,     \* provider_endpoints
  providers,     \* provider_configurations
  observations,  \* provider_observations
  admissions,    \* provider_admissions
  probes,        \* what each prober read before it went out to the network
  edits          \* what each editor has read of the profile it is changing

storeVars == <<endpoints, providers, observations, admissions>>
callerVars == <<probes, edits>>
vars == <<now, storeVars, callerVars>>

Generations == 1..MaxGeneration
Health == {"AVAILABLE", "OTHER"}
Statuses == {"ACTIVE", "RELEASED", "EXPIRED"}

(* Every attribute but endpoint, max and enabled is only stored: "rest". *)
ProfileFields(f) ==
  /\ f.endpoint \in EndpointRefs
  /\ f.max \in Nat \ {0}
  /\ f.enabled \in BOOLEAN

ASSUME ProfilesAssumption ==
  /\ \A f \in Profiles : ProfileFields(f)
  /\ LegacyProfiles \subseteq Profiles
  /\ LegacyExecutions \subseteq Executions
  /\ None \notin Profiles

ASSUME BoundsAssumption ==
  /\ MaxGeneration \in Nat \ {0}
  /\ MaxTime \in Nat
  /\ Ttls \subseteq Nat \ {0}
  /\ None \notin Nat
  /\ None \notin Urls

Config == [profile: Profiles, url: Urls \cup {None}]
Snapshot == [provider: ProviderIds, gen: Generations, config: Config]

EndpointRow == [url: Urls, gen: Generations]
ProviderRow == [profile: Profiles, gen: Generations]
(* "probed" is the configuration the probe looked at; the table has no such column. *)
ObservationRow ==
  [health: Health, at: Nat, gen: Generations \cup {None}, probed: Config]
AdmissionRow ==
  [provider: ProviderIds, execution: Executions, batch: Batches,
   gen: Generations \cup {None}, expires: Nat, status: Statuses]
Edit == [provider: ProviderIds, expected: Generations, base: Profiles \cup {None}]

ASSUME NoRowAssumption ==
  /\ None \notin EndpointRow /\ None \notin ProviderRow
  /\ None \notin ObservationRow /\ None \notin AdmissionRow
  /\ None \notin Snapshot /\ None \notin Edit

-------------------------------------------------------------------------------
(* Reading *)

UrlOf(ref) == IF endpoints[ref] = None THEN None ELSE endpoints[ref].url

(* The effective configuration: the profile and the endpoint it refers to. *)
ConfigOf(p) ==
  [profile |-> providers[p].profile, url |-> UrlOf(providers[p].profile.endpoint)]

(* load_provider_snapshot: one coherent read of all three tables. *)
SnapshotOf(p) == [provider |-> p, gen |-> providers[p].gen, config |-> ConfigOf(p)]

(* Capacity is consumed until an explicit release: expiry frees nothing. *)
InUse(p) ==
  {a \in AdmissionIds : /\ admissions[a] # None
                        /\ admissions[a].provider = p
                        /\ admissions[a].status \in {"ACTIVE", "EXPIRED"}}

(* _assert_provider_configuration_not_in_use, for one provider. *)
ConfigurationNotInUse(p) == InUse(p) = {}

(* _next_generation refuses at the maximum. *)
HasNextGeneration(g) == g < MaxGeneration

-------------------------------------------------------------------------------
(* Writing the configuration *)

Referencing(ref) ==
  {p \in ProviderIds : providers[p] # None /\ providers[p].profile.endpoint = ref}

(* expected_generation against the stored row, as both save operations do it. *)
Expects(row, expected) ==
  IF row = None THEN expected = None ELSE expected = row.gen

(* Mutant: the profiles that refer to the endpoint keep their generation. *)
SaveEndpointAlone(ref, url, expected) ==
  /\ Expects(endpoints[ref], expected)
  /\ endpoints[ref] # None => HasNextGeneration(endpoints[ref].gen)
  /\ \A p \in Referencing(ref) : ConfigurationNotInUse(p)
  /\ endpoints' = [endpoints EXCEPT ![ref] =
       [url |-> url, gen |-> IF endpoints[ref] = None THEN 1 ELSE endpoints[ref].gen + 1]]
  /\ UNCHANGED <<now, providers, observations, admissions, callerVars>>

SaveEndpoint(ref, url, expected) ==
  /\ Expects(endpoints[ref], expected)
  /\ endpoints[ref] # None => HasNextGeneration(endpoints[ref].gen)
  /\ \A p \in Referencing(ref) : ConfigurationNotInUse(p)
  /\ \A p \in Referencing(ref) : HasNextGeneration(providers[p].gen)
  /\ endpoints' = [endpoints EXCEPT ![ref] =
       [url |-> url, gen |-> IF endpoints[ref] = None THEN 1 ELSE endpoints[ref].gen + 1]]
  /\ providers' = [p \in ProviderIds |->
       IF p \in Referencing(ref)
         THEN [providers[p] EXCEPT !.gen = @ + 1] ELSE providers[p]]
  /\ UNCHANGED <<now, observations, admissions, callerVars>>

(* Mutant: an edit is stored whatever generation it was based on. *)
StoreProfileBlind(p, profile, expected) ==
  /\ providers[p] # None => /\ ConfigurationNotInUse(p)
                            /\ HasNextGeneration(providers[p].gen)
  /\ providers' = [providers EXCEPT ![p] =
       [profile |-> profile, gen |-> IF providers[p] = None THEN 1 ELSE providers[p].gen + 1]]

(* The transaction of save_provider. *)
StoreProfile(p, profile, expected) ==
  /\ providers[p] # None => /\ ConfigurationNotInUse(p)
                            /\ HasNextGeneration(providers[p].gen)
  /\ Expects(providers[p], expected)
  /\ providers' = [providers EXCEPT ![p] =
       [profile |-> profile, gen |-> IF providers[p] = None THEN 1 ELSE providers[p].gen + 1]]

SaveProvider(p, profile, expected) ==
  /\ StoreProfile(p, profile, expected)
  /\ UNCHANGED <<now, endpoints, observations, admissions, callerVars>>

(***************************************************************************)
(* update_provider_profile: the operator edits the profile that the view    *)
(* showed with its generation; the code reads the profile again, applies    *)
(* the patch (never to the endpoint) to what it then finds, and saves it    *)
(* under the generation the operator saw.                                   *)
(***************************************************************************)
ShowProfile(e, p) ==
  /\ edits[e] = None
  /\ providers[p] # None
  /\ edits' = [edits EXCEPT ![e] =
       [provider |-> p, expected |-> providers[p].gen, base |-> None]]
  /\ UNCHANGED <<now, storeVars, probes>>

ReadForEdit(e) ==
  /\ edits[e] # None /\ edits[e].base = None
  /\ edits' = [edits EXCEPT ![e].base = providers[edits[e].provider].profile]
  /\ UNCHANGED <<now, storeVars, probes>>

SaveEdit(e, profile) ==
  /\ edits[e] # None /\ edits[e].base # None
  /\ profile.endpoint = edits[e].base.endpoint
  /\ StoreProfile(edits[e].provider, profile, edits[e].expected)
  /\ edits' = [edits EXCEPT ![e] = None]
  /\ UNCHANGED <<now, endpoints, observations, admissions, probes>>

(* The save is refused, or the operator gives up. *)
DropEdit(e) ==
  /\ edits[e] # None
  /\ edits' = [edits EXCEPT ![e] = None]
  /\ UNCHANGED <<now, storeVars, probes>>

-------------------------------------------------------------------------------
(***************************************************************************)
(* refresh_zai_provider_observation: take a snapshot, probe that            *)
(* configuration over the network, save the result under the snapshot's     *)
(* generation.  observed_at is read after the snapshot and may be old when  *)
(* the observation is saved.                                                *)
(***************************************************************************)
StartProbe(b, p) ==
  /\ probes[b] = None
  /\ providers[p] # None
  /\ UrlOf(providers[p].profile.endpoint) # None
  /\ probes' = [probes EXCEPT ![b] = SnapshotOf(p)]
  /\ UNCHANGED <<now, storeVars, edits>>

(* save_observation: the generation must still be the current one. *)
SaveObservation(b, health, t) ==
  /\ probes[b] # None
  /\ t <= now
  /\ LET s == probes[b]
     IN  /\ s.gen = providers[s.provider].gen
         /\ observations' = [observations EXCEPT ![s.provider] =
              [health |-> health, at |-> t, gen |-> s.gen, probed |-> s.config]]
  /\ probes' = [probes EXCEPT ![b] = None]
  /\ UNCHANGED <<now, endpoints, providers, admissions, edits>>

(* The probe fails, its process ends, or its result is refused as stale. *)
DropProbe(b) ==
  /\ probes[b] # None
  /\ probes' = [probes EXCEPT ![b] = None]
  /\ UNCHANGED <<now, storeVars, edits>>

-------------------------------------------------------------------------------
(* Admissions *)

PriorAdmissions(p, x) ==
  {a \in AdmissionIds : /\ admissions[a] # None
                        /\ admissions[a].provider = p
                        /\ admissions[a].execution = x}

(* An earlier admission of the execution is never granted again. *)
PriorVerdict(row, b, gen, t) ==
  IF /\ row.batch = b
     /\ gen = None \/ row.gen = gen
     /\ row.status = "ACTIVE"
     /\ t < row.expires
    THEN "EXISTING" ELSE "RECOVERY_REQUIRED"

Stale(row, t) == row.status = "EXPIRED" \/ row.expires <= t

AtCapacity(p, max, t) == Cardinality(InUse(p)) >= max

(* What acquire_admission answers, its refusals in the code's order. *)
AdmissionVerdict(p, x, b, max, gen, t, id) ==
  IF providers[p] = None THEN "PROVIDER_NOT_FOUND"
  ELSE IF providers[p].profile.max # max THEN "PROFILE_DRIFT"
  ELSE IF ~providers[p].profile.enabled THEN "PROVIDER_DISABLED"
  ELSE IF gen # None /\ gen # providers[p].gen THEN "GENERATION_STALE"
  ELSE IF PriorAdmissions(p, x) # {}
    THEN PriorVerdict(admissions[CHOOSE a \in PriorAdmissions(p, x) : TRUE], b, gen, t)
  ELSE IF AtCapacity(p, max, t)
    THEN IF \E a \in InUse(p) : Stale(admissions[a], t)
           THEN "RECOVERY_REQUIRED" ELSE "CAPACITY_WAIT"
  ELSE IF admissions[id] # None THEN "ADMISSION_CONFLICT"
  ELSE "ADMITTED"

NewAdmission(p, x, b, gen, t, ttl) ==
  [provider |-> p, execution |-> x, batch |-> b, gen |-> gen,
   expires |-> t + ttl, status |-> "ACTIVE"]

AcquireAdmission(p, x, b, max, gen, t, ttl, id) ==
  /\ t <= now
  /\ AdmissionVerdict(p, x, b, max, gen, t, id) = "ADMITTED"
  /\ admissions' = [admissions EXCEPT ![id] = NewAdmission(p, x, b, gen, t, ttl)]
  /\ UNCHANGED <<now, endpoints, providers, observations, callerVars>>

(* The identity the caller passes must be the row's: only its own is released. *)
ReleaseAdmission(id) ==
  /\ admissions[id] # None
  /\ admissions[id].status \in {"ACTIVE", "EXPIRED"}
  /\ admissions' = [admissions EXCEPT ![id].status = "RELEASED"]
  /\ UNCHANGED <<now, endpoints, providers, observations, callerVars>>

-------------------------------------------------------------------------------
Tick ==
  /\ now < MaxTime
  /\ now' = now + 1
  /\ UNCHANGED <<storeVars, callerVars>>

(* The first start after an upgrade: known profiles get generation 1, while  *)
(* admissions and observations keep an unknown one.                         *)
LegacyAdmissions ==
  {[provider |-> a[1], execution |-> a[2], batch |-> a[3], gen |-> None,
    expires |-> 0, status |-> a[4]] :
      a \in ProviderIds \X LegacyExecutions \X Batches \X {"ACTIVE", "EXPIRED"}}

Init ==
  /\ now = 0
  /\ endpoints = [r \in EndpointRefs |-> None]
  /\ providers \in [ProviderIds ->
       [profile: LegacyProfiles, gen: {1}] \cup {None}]
  /\ observations = [p \in ProviderIds |-> None]
  /\ admissions \in [AdmissionIds -> LegacyAdmissions \cup {None}]
  /\ \A a, b \in AdmissionIds :
       (a # b /\ admissions[a] # None /\ admissions[b] # None) =>
         admissions[a].provider # admissions[b].provider
           \/ admissions[a].execution # admissions[b].execution
  /\ \A a \in AdmissionIds :
       admissions[a] # None => providers[admissions[a].provider] # None
  /\ \A p \in ProviderIds :
       /\ IsFiniteSet(InUse(p))
       /\ providers[p] # None => Cardinality(InUse(p)) <= providers[p].profile.max
  /\ probes = [b \in Probers |-> None]
  /\ edits = [e \in Editors |-> None]

ConfigurationStep ==
  \/ \E ref \in EndpointRefs, url \in Urls, g \in Generations \cup {None} :
       SaveEndpoint(ref, url, g)
  \/ \E p \in ProviderIds, f \in Profiles, g \in Generations \cup {None} :
       SaveProvider(p, f, g)

EditStep ==
  \E e \in Editors :
    \/ \E p \in ProviderIds : ShowProfile(e, p)
    \/ ReadForEdit(e)
    \/ \E f \in Profiles : SaveEdit(e, f)
    \/ DropEdit(e)

ProbeStep ==
  \E b \in Probers :
    \/ \E p \in ProviderIds : StartProbe(b, p)
    \/ \E health \in Health, t \in 0..now : SaveObservation(b, health, t)
    \/ DropProbe(b)

AdmissionStep ==
  \/ \E p \in ProviderIds, x \in Executions, b \in Batches, f \in Profiles,
        g \in Generations \cup {None}, t \in 0..now, ttl \in Ttls, id \in AdmissionIds :
       AcquireAdmission(p, x, b, f.max, g, t, ttl, id)
  \/ \E id \in AdmissionIds : ReleaseAdmission(id)

Next == Tick \/ ConfigurationStep \/ EditStep \/ ProbeStep \/ AdmissionStep

Spec == Init /\ [][Next]_vars

-------------------------------------------------------------------------------
TypeOK ==
  /\ now \in Nat
  /\ endpoints \in [EndpointRefs -> EndpointRow \cup {None}]
  /\ providers \in [ProviderIds -> ProviderRow \cup {None}]
  /\ observations \in [ProviderIds -> ObservationRow \cup {None}]
  /\ admissions \in [AdmissionIds -> AdmissionRow \cup {None}]
  /\ probes \in [Probers -> Snapshot \cup {None}]
  /\ edits \in [Editors -> Edit \cup {None}]

(***************************************************************************)
(* The admissions in use never exceed the concurrency the profile allows    *)
(* now, although profiles are edited and admissions expire while their      *)
(* executions may still be running.                                         *)
(***************************************************************************)
AdmissionCapacity ==
  \A p \in ProviderIds :
    providers[p] # None => Cardinality(InUse(p)) <= providers[p].profile.max

(***************************************************************************)
(* An execution is admitted to a provider at most once, ever: neither a     *)
(* release nor an expiry makes a replay admissible.                         *)
(***************************************************************************)
AdmittedOnce ==
  \A a, b \in AdmissionIds :
    (a # b /\ admissions[a] # None /\ admissions[b] # None) =>
      admissions[a].provider # admissions[b].provider
        \/ admissions[a].execution # admissions[b].execution

(***************************************************************************)
(* An observation that readiness accepts, because it carries the current    *)
(* generation, was probed against exactly the profile and the endpoint that *)
(* are stored now, however long the probe was under way and whatever was    *)
(* edited meanwhile.                                                        *)
(***************************************************************************)
ObservationDescribesConfig ==
  \A p \in ProviderIds :
    ( /\ observations[p] # None
      /\ providers[p] # None
      /\ observations[p].gen = providers[p].gen ) => observations[p].probed = ConfigOf(p)

(***************************************************************************)
(* While an admission of a provider is in use nobody changes what the       *)
(* execution was admitted under: neither the profile nor the endpoint.      *)
(***************************************************************************)
ConfigurationFrozen ==
  [][\A p \in ProviderIds :
       (providers[p] # None /\ InUse(p) # {}) =>
         providers'[p] = providers[p] /\ ConfigOf(p)' = ConfigOf(p)]_vars

(***************************************************************************)
(* An edit replaces the profile it was derived from: two operators, or an   *)
(* operator and a script, never overwrite each other's change unseen.       *)
(***************************************************************************)
NoLostEdit ==
  [][\A e \in Editors :
       ( /\ edits[e] # None
         /\ edits'[e] = None
         /\ providers' # providers ) =>
           edits[e].base = providers[edits[e].provider].profile]_vars

(***************************************************************************)
(* The store's promise at every moment: a health observation describes the  *)
(* configuration it was made of, and admissions stay within the provider's  *)
(* limit, one for an execution.                                             *)
(***************************************************************************)
ProviderSafety ==
  /\ TypeOK
  /\ ObservationDescribesConfig
  /\ AdmissionCapacity
  /\ AdmittedOnce

(***************************************************************************)
(* And across its steps: no configuration moves under an admission in use,  *)
(* and no edit overwrites a change its author has not seen.                 *)
(***************************************************************************)
ConfigurationHistory == ConfigurationFrozen /\ NoLostEdit

-------------------------------------------------------------------------------
(***************************************************************************)
(* The inductive invariants.  A generation names one configuration: what    *)
(* was read under the current generation is what is stored.                 *)
(***************************************************************************)
SnapshotsCurrent ==
  \A b \in Probers, p \in ProviderIds :
    (probes[b] # None /\ probes[b].provider = p) =>
      /\ providers[p] # None
      /\ probes[b].gen <= providers[p].gen
      /\ probes[b].gen = providers[p].gen => probes[b].config = ConfigOf(p)

ObservationsDated ==
  \A p \in ProviderIds :
    (observations[p] # None /\ observations[p].gen # None) =>
      providers[p] # None /\ observations[p].gen <= providers[p].gen

EditsCurrent ==
  \A e \in Editors, p \in ProviderIds :
    (edits[e] # None /\ edits[e].provider = p) =>
      /\ providers[p] # None
      /\ edits[e].expected <= providers[p].gen
      /\ (edits[e].base # None /\ edits[e].expected = providers[p].gen) =>
           edits[e].base = providers[p].profile

AdmissionsOfProviders ==
  \A a \in AdmissionIds :
    admissions[a] # None => providers[admissions[a].provider] # None

InUseFinite == \A p \in ProviderIds : IsFiniteSet(InUse(p))

ConfigInv ==
  /\ TypeOK
  /\ SnapshotsCurrent
  /\ ObservationsDated
  /\ ObservationDescribesConfig
  /\ EditsCurrent

AdmissionInv ==
  /\ TypeOK
  /\ AdmittedOnce
  /\ AdmissionsOfProviders
  /\ InUseFinite
  /\ AdmissionCapacity

===============================================================================
