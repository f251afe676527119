----------------------------- MODULE MCProviders -----------------------------
(***************************************************************************)
(* Instances of ProviderConfigStore and of ParallelReady for TLC.           *)
(***************************************************************************)
EXTENDS ParallelReady, TLC

CONSTANTS p1, ref, u1, u2, x1, x2, k1, k2, a1, a2, b1, e1, c1, c2, c3, c4

VARIABLE repeated  \* the calls of this behaviour are those that share a batch and a task

MCProfile(max, enabled) == [endpoint |-> ref, max |-> max, enabled |-> enabled]

-------------------------------------------------------------------------------
(* The store alone: a provider that is switched off and gets another limit, *)
(* edits, probes and admissions in the hands of arbitrary callers.          *)

MCStoreProfiles == {MCProfile(1, TRUE), MCProfile(2, FALSE)}
MCNothing == << >>
MCStoreSymmetry == Permutations(AdmissionIds) \cup Permutations(Urls)

StoreInit == BatchInit /\ repeated = FALSE
StoreSpec == StoreInit /\ [][Next /\ UNCHANGED <<batchVars, repeated>>]_<<allVars, repeated>>

-------------------------------------------------------------------------------
(* Calls of ParallelReadyExecution. *)

MCProfiles == {MCProfile(1, TRUE), MCProfile(2, TRUE)}
MCStartProfile == {MCProfile(1, TRUE)}
MCTask(x) == [execution |-> x, provider |-> p1]

(***************************************************************************)
(* Either two batches that compete for one provider, one of them elastic,   *)
(* with time passing and the configuration changing under them; or a batch  *)
(* of two, and a second scheduler that repeats its first task under the     *)
(* same batch_id.                                                           *)
(***************************************************************************)
MCPlan ==
  c1 :> <<MCTask(x1)>> @@ c2 :> <<MCTask(x2)>> @@
  c3 :> <<MCTask(x1), MCTask(x2)>> @@ c4 :> <<MCTask(x1)>>
MCBatchOf == c1 :> k1 @@ c2 :> k2 @@ c3 :> k1 @@ c4 :> k1
MCRepeaters == {c3, c4}

MCBatchSymmetry == Permutations(AdmissionIds)

(* The configuration is saved once, at time 0. *)
Still ==
  /\ now = 0
  /\ \A p \in ProviderIds : providers[p] # None => providers[p].gen = 1
  /\ \A r \in EndpointRefs : endpoints[r] # None => endpoints[r].gen = 1

CallsInit == BatchInit /\ repeated \in BOOLEAN
CallsNext ==
  /\ BatchNext
  /\ \A c \in Calls : calls'[c] # None => (repeated <=> c \in MCRepeaters)
  /\ repeated => Still'
  /\ UNCHANGED repeated
CallsSpec == CallsInit /\ [][CallsNext]_<<allVars, repeated>>
===============================================================================
