-------------------------------- MODULE HookStm --------------------------------
(***************************************************************************)
(* The short-term memory of hook_stm.py: projected records per partition   *)
(* with a time to live, bounded per partition and in total.  A partition   *)
(* is what is left of the events of one project, task, device and lane; a  *)
(* reader is told whether it is FRESH, STALE or UNKNOWN.                   *)
(***************************************************************************)
EXTENDS Naturals, FiniteSets

CONSTANTS
  Keys,            \* partition identities; order them by KeyRank
  KeyRank,
  Records,         \* projected events, with their accounted size
  SizeOf,
  MaxPartitions, PartitionUnits, TotalUnits, PartitionBytes, TotalBytes,
  InputLimit,      \* rebuild_item_limit
  Ttl,
  MaxTime,         \* bound: the clock
  None

VARIABLES
  partitions, \* _PartitionState per key, or None
  clock,
  happened    \* history: events of each partition since its last rebuild

stmVars == <<partitions, clock, happened>>

StmAssumption ==
  /\ {MaxPartitions, PartitionUnits, TotalUnits, PartitionBytes, TotalBytes, InputLimit,
      Ttl, MaxTime} \subseteq Nat
  /\ KeyRank \in [Keys -> Nat] /\ SizeOf \in [Records -> Nat]

Held == {k \in Keys : partitions[k] # None}

(* The identity's own bytes count once, each unit its size; the authority's *)
(* reference of a reconciliation is a unit of one byte.                     *)
Units(p) == Cardinality(p.records) + p.refs
BytesOf(p) ==
  LET size[S \in SUBSET p.records] ==
        IF S = {} THEN 0
        ELSE LET r == CHOOSE x \in S : TRUE IN SizeOf[r] + size[S \ {r}]
  IN 1 + size[p.records] + p.refs
Sum(f, S) ==
  LET sum[T \in SUBSET S] ==
        IF T = {} THEN 0 ELSE LET k == CHOOSE x \in T : TRUE IN f[k] + sum[T \ {k}]
  IN sum[S]

Expired(p, now) == p.stale \/ now - p.at >= Ttl

(* read *)
StateOf(k) ==
  IF partitions[k] = None THEN "UNKNOWN"
  ELSE IF Expired(partitions[k], clock) THEN "STALE" ELSE "FRESH"

(* _capacity_failure *)
CapacityFailure(k) ==
  partitions' = IF partitions[k] = None THEN partitions
                ELSE [partitions EXCEPT ![k].stale = TRUE]

(* The partitions that stay when S is evicted and k becomes p *)
RoomFor(k, p, S) ==
  LET others == Held \ ({k} \cup S) IN
  /\ Cardinality(others) + 1 <= MaxPartitions
  /\ Units(p) + Sum([x \in others |-> Units(partitions[x])], others) <= TotalUnits
  /\ BytesOf(p) + Sum([x \in others |-> BytesOf(partitions[x])], others) <= TotalBytes

(* Stale and expired partitions first, then the oldest *)
GoesBefore(x, y) ==
  LET p == partitions[x]  q == partitions[y] IN
  \/ Expired(p, clock) /\ ~Expired(q, clock)
  \/ /\ Expired(p, clock) = Expired(q, clock)
     /\ p.at < q.at \/ (p.at = q.at /\ KeyRank[x] < KeyRank[y])

Evicted(k, p) ==
  LET first(j) == {x \in Held : Cardinality({y \in Held : GoesBefore(y, x)}) < j}
      enough == {j \in 0..Cardinality(Held) : RoomFor(k, p, first(j))}
  IN IF enough = {} THEN Held ELSE first(CHOOSE j \in enough : \A i \in enough : j <= i)

(* _check_candidate and _admit: only a new partition evicts others. *)
Admit(k, p) ==
  LET gone == IF partitions[k] = None THEN Evicted(k, p) ELSE {} IN
  IF /\ Units(p) <= PartitionUnits /\ BytesOf(p) <= PartitionBytes
     /\ RoomFor(k, p, gone)
  THEN partitions' = [x \in Keys |-> IF x = k THEN p
                                     ELSE IF x \in gone THEN None ELSE partitions[x]]
  ELSE CapacityFailure(k)

-------------------------------------------------------------------------------
Update(k, r) ==
  LET prior == partitions[k] IN
  /\ r \notin happened[k]
  /\ happened' = [happened EXCEPT ![k] = @ \cup {r}]
  /\ Admit(k, IF prior = None
              THEN [records |-> {r}, refs |-> 0, at |-> clock, stale |-> FALSE]
              ELSE [prior EXCEPT !.records = @ \cup {r}, !.at = clock])
  /\ UNCHANGED clock

(* rebuild: the authority's references and the recent events, never         *)
(* truncated; more than the input limit is refused.                         *)
Rebuild(k, refs) ==
  LET recent == happened[k] IN
  /\ IF Cardinality(recent) + refs > InputLimit THEN CapacityFailure(k)
     ELSE Admit(k, [records |-> recent, refs |-> refs, at |-> clock, stale |-> FALSE])
  /\ UNCHANGED <<clock, happened>>

(* reconcile corrects the records that are there; it does not make a stale  *)
(* partition fresh.                                                         *)
Reconcile(k) ==
  /\ partitions[k] # None
  /\ Admit(k, [partitions[k] EXCEPT !.at = clock,
                 !.stale = Expired(partitions[k], clock),
                 !.refs = IF @ = 0 THEN 1 ELSE @])
  /\ UNCHANGED <<clock, happened>>

Tick ==
  /\ clock < MaxTime
  /\ clock' = clock + 1
  /\ UNCHANGED <<partitions, happened>>

StmInit ==
  /\ partitions = [k \in Keys |-> None]
  /\ clock = 0
  /\ happened = [k \in Keys |-> {}]

Operate ==
  \/ \E k \in Keys, r \in Records : Update(k, r)
  \/ \E k \in Keys, refs \in 0..1 : Rebuild(k, refs)
  \/ \E k \in Keys : Reconcile(k)
  \/ Tick

StmSpec == StmInit /\ [][Operate]_stmVars

-------------------------------------------------------------------------------
(* Properties *)

(* The memory is within its limits after every operation. *)
StmBounds ==
  /\ Cardinality(Held) <= MaxPartitions
  /\ \A k \in Held : /\ Units(partitions[k]) <= PartitionUnits
                     /\ BytesOf(partitions[k]) <= PartitionBytes
                     /\ partitions[k].records \subseteq happened[k]
  /\ Sum([k \in Held |-> Units(partitions[k])], Held) <= TotalUnits
  /\ Sum([k \in Held |-> BytesOf(partitions[k])], Held) <= TotalBytes

(* A partition that reads as FRESH has every event that happened in it:     *)
(* what was refused, evicted or lost makes it STALE or UNKNOWN until it is  *)
(* rebuilt.                                                                 *)
FreshIsComplete ==
  \A k \in Keys : StateOf(k) = "FRESH" => partitions[k].records = happened[k]

(* A stale partition becomes fresh only by a refresh of this instant that   *)
(* keeps its records.  One that only expired may be refreshed by an update; *)
(* one that is marked as needing a rebuild only by a rebuild of every event *)
(* that happened, never by a new event, a reconciliation or what happens to *)
(* other partitions.                                                        *)
FreshByRebuild ==
  \A k \in Keys :
    (StateOf(k) = "STALE" /\ StateOf(k)' = "FRESH") =>
      /\ partitions'[k].at = clock
      /\ partitions[k].records \subseteq partitions'[k].records
      /\ partitions[k].stale => partitions'[k].records = happened[k] /\ happened' = happened

(* A partition is evicted only for one that is new, and never while another *)
(* is kept that has expired when it has not, or that was refreshed earlier. *)
EvictsStalest ==
  \A x \in Keys : (partitions[x] # None /\ partitions'[x] = None) =>
    /\ \E k \in Keys : partitions[k] = None /\ partitions'[k] # None
    /\ \A y \in Keys : (partitions[y] # None /\ partitions'[y] # None) =>
         /\ Expired(partitions[y], clock) => Expired(partitions[x], clock)
         /\ Expired(partitions[y], clock) = Expired(partitions[x], clock)
              => partitions[x].at <= partitions[y].at

===============================================================================
