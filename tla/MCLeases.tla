------------------------------ MODULE MCLeases ------------------------------
(***************************************************************************)
(* Instances of WorkerLeaseStore and of ElasticCapacity for TLC.            *)
(***************************************************************************)
EXTENDS ElasticCapacity, TLC

CONSTANTS
  o1, o2, w1, w2, w3, l1, l2, r1, r2, c1, c2, c3, c4, c5,
  main,     \* a worktree of hotspot h1
  alias,    \* a second spelling of it
  lost,     \* a worktree the resolver refuses
  h1, p, q

VARIABLE part  \* which of the behaviours below this one is

MCRequest(ws, intent, wt, scope) ==
  [workers |-> ws, intent |-> intent, worktree |-> wt, scope |-> scope,
   terms |-> "terms", ttl |-> 1]

(* An observation that permits a release, and one that leads to quarantine. *)
MCSafe ==
  [identity |-> TRUE, running |-> "NO", dirty |-> "CLEAN", head |-> TRUE,
   classification |-> "NO_MUTATION"]
MCObservations == {MCSafe, [MCSafe EXCEPT !.running = "UNKNOWN"]}

-------------------------------------------------------------------------------
(* The store alone, in the hands of callers that do as they like. *)

MCHotspotOf == [t \in Worktrees |-> IF t = lost THEN None ELSE h1]

(* Two spellings of one checkout, overlapping scopes, and a reader. *)
MCStoreRequests ==
  LET short == {MCRequest({w1, w2}, "MUTATION", main, {p}),
                MCRequest({w2}, "MUTATION", alias, {p, q}),
                MCRequest({w2}, "READ_ONLY", lost, {})}
  IN  short \cup {[r EXCEPT !.ttl = 2] : r \in short}
MCNothing == << >>
MCStoreTerms == {[worktree |-> main, scope |-> {p}]}
MCStoreSymmetry == Permutations(LeaseIds)

(* Leases that live for one tick, beside rows of an old binary and          *)
(* reservations; and leases that live for two, are renewed, by heartbeats   *)
(* that may be late, and expire all the same.                               *)
Lives(n) == \A l \in LeaseIds : leases'[l] # None => leases'[l].ttl = n
StoreInit ==
  /\ ElasticInit /\ part \in {"beside", "renewed"}
  /\ part = "renewed" => Active = {} /\ Consuming = {}
  /\ part = "beside" => \A l \in Active : leases[l].ttl = 1
StoreNext ==
  /\ Next /\ UNCHANGED <<elasticVars, part>>
  /\ \/ part = "beside" /\ clock' <= 1 /\ Lives(1)
     \/ part = "renewed" /\ UNCHANGED reservations /\ Lives(2)
StoreSpec == StoreInit /\ [][StoreNext]_<<allVars, part>>

-------------------------------------------------------------------------------
(* Calls that ask for an extra worker: c1 and c3 are two tries of one task, *)
(* c2 another task.  c4 and c5 are c1 and c2 over a store that does not     *)
(* fail, with a policy that refuses beside the open one.                    *)

MCMutation == MCRequest(Workers, "MUTATION", main, {p})
MCReading == MCRequest(Workers, "READ_ONLY", main, {})
MCElasticRequests ==
  UNION {{r, [r EXCEPT !.workers = {w}]} : r \in {MCMutation, MCReading}, w \in Workers}
MCTerms == [worktree: Worktrees, scope: SUBSET Paths]
MCOwnerOf == [c \in Calls |-> IF c \in {c2, c5} THEN o2 ELSE o1]
MCRequestOf == [c \in Calls |-> IF c \in {c2, c5} THEN MCReading ELSE MCMutation]

MCOpen == [enabled |-> TRUE, max |-> MaxExtraWorkers, kind |-> TRUE,
           remote |-> FALSE, authorized |-> FALSE]
MCPolicies == {MCOpen, [MCOpen EXCEPT !.remote = TRUE]}

(* A worker in order, and workers that answer like none that can be used. *)
MCFine == [assigned |-> TRUE, binding |-> "OK", capable |-> TRUE,
           runtime |-> "READY", task |-> FALSE, git |-> "CLEAN",
           mutable |-> TRUE, matches |-> TRUE, identity |-> TRUE]
MCFacts == {MCFine, [MCFine EXCEPT !.binding = "DRIFT"]}

MCElasticSymmetry ==
  Permutations({w2, w3}) \cup Permutations(LeaseIds) \cup Permutations(ReservationIds)

Called(cs, policies) ==
  \A c \in Calls : calls'[c] # None => c \in cs /\ calls'[c].policy \in policies

CapacityInit == ElasticInit /\ part \in {"sound", "failing"}
CapacityNext ==
  /\ ElasticNext
  /\ \/ part = "sound" /\ Called({c4, c5}, MCPolicies)
     \/ part = "failing" /\ Called({c1, c2, c3}, {MCOpen})
  /\ UNCHANGED part
CapacitySpec == CapacityInit /\ [][CapacityNext]_<<allVars, part>>
===============================================================================
