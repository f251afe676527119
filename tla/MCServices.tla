------------------------------ MODULE MCServices ------------------------------
(***************************************************************************)
(* Instances for TLC of the services beside the durable core: the hook bus  *)
(* and its short-term memory, the sidecar's log and bridge, the writer of   *)
(* secrets, and the native operations on files, sandboxes and repositories. *)
(*                                                                          *)
(* They share no state, so each is checked apart from the others: a         *)
(* behaviour is one of a single part.  The variables of NativeExecution are *)
(* those of the parts "native" and "runs": two workers that may write and   *)
(* one that may not, a path outside the root and a content that is too      *)
(* large; v1 to v12 hold the variables of any other part, in the order of   *)
(* their declaration.                                                       *)
(***************************************************************************)
EXTENDS NativeExecution, TLC

CONSTANTS
  Parts,  \* the parts a run is about
  k1, k2, k3, r1, r2, r3, p1, p2, p3, b1, b2, s1, s2, x, up

VARIABLES part, v1, v2, v3, v4, v5, v6, v7, v8, v9, v10, v11, v12

others == <<part, v1, v2, v3, v4, v5, v6, v7, v8, v9, v10, v11, v12>>
vars == <<filesVars, runsVars, others>>
From9 == <<v9, v10, v11, v12>>
From8 == <<v8, From9>>
From6 == <<v6, v7, From8>>
From5 == <<v5, From6>>
From4 == <<v4, From5>>
Native == <<filesVars, runsVars>>

No9 == v9 = None /\ v10 = None /\ v11 = None /\ v12 = None
No8 == v8 = None /\ No9
No6 == v6 = None /\ v7 = None /\ No8
No4 == v4 = None /\ v5 = None /\ No6
No1 == v1 = None /\ v2 = None /\ v3 = None /\ No4

-------------------------------------------------------------------------------
(* Sequences that arrive out of order, an event without one, and two that   *)
(* must not be shed, one of them too large for its stream and for the bus   *)
(* at once.                                                                 *)
Envelope(id, key, cls, seq, at, size) ==
  [id |-> id, key |-> key, cls |-> cls, seq |-> seq, at |-> at, size |-> size]
Envelopes ==
  {Envelope(1, None, "OBSERVE", 2, 1, 2), Envelope(2, 7, "ADVISORY", 1, 2, 1),
   Envelope(3, None, "GUARD", 0, 1, 2), Envelope(4, None, "COMMAND", 3, 3, 1)}
Bus == INSTANCE HookBus WITH
  Events <- Envelopes, Streams <- {s1, s2}, StreamLimit <- 2, QueueLimit <- 2, QueueBytes <- 3,
  TotalLimit <- 3, TotalBytes <- 4, DedupeLimit <- 4, Window <- 1, MaxAccepted <- 4, MaxTime <- 0,
  streams <- v1, dedupe <- v2, clock <- v3, degraded <- v4, accepted <- v5, emitted <- v6,
  session <- v7

(* A replay window that ends and starts again, a stream more than there is  *)
(* room for and an event more than there are identities to remember.        *)
Replay == INSTANCE HookBus WITH
  Events <- {e \in Envelopes : e.id # 3}, Streams <- {s1, s2}, StreamLimit <- 1,
  QueueLimit <- 2, QueueBytes <- 3, TotalLimit <- 3, TotalBytes <- 4, DedupeLimit <- 2,
  Window <- 2, MaxAccepted <- 3, MaxTime <- 4,
  streams <- v1, dedupe <- v2, clock <- v3, degraded <- v4, accepted <- v5, emitted <- v6,
  session <- v7

(* Three partitions and room for two; and two that never evict each other. *)
Stm == INSTANCE HookStm WITH
  Keys <- {k1, k2, k3}, KeyRank <- k1 :> 1 @@ k2 :> 2 @@ k3 :> 3, Records <- {r1, r2},
  SizeOf <- r1 :> 1 @@ r2 :> 2, MaxPartitions <- 2, PartitionUnits <- 2, TotalUnits <- 3,
  PartitionBytes <- 4, TotalBytes <- 6, InputLimit <- 3, Ttl <- 1, MaxTime <- 2,
  partitions <- v1, clock <- v2, happened <- v3
Room == INSTANCE HookStm WITH
  Keys <- {k1, k2}, KeyRank <- k1 :> 1 @@ k2 :> 2, Records <- {r1, r2, r3},
  SizeOf <- r1 :> 1 @@ r2 :> 2 @@ r3 :> 1, MaxPartitions <- 2, PartitionUnits <- 2,
  TotalUnits <- 3, PartitionBytes <- 4, TotalBytes <- 7, InputLimit <- 3, Ttl <- 2, MaxTime <- 4,
  partitions <- v1, clock <- v2, happened <- v3

-------------------------------------------------------------------------------
Of(t, c) == [task |-> t, claim |-> c, head |-> 1]
Event(i, f, b, r, at) ==
  [id |-> i, named |-> 1, surface |-> 1, family |-> f, thread |-> 1, at |-> at,
   binding |-> b, refs |-> r, safe |-> TRUE]
Steer == Event(1, "CODEX_STEER_REQUEST", Of(1, 1), {0}, 1)
SteerOther == Event(1, "CODEX_STEER_REQUEST", Of(1, 2), {0}, 9)
Pointless == [Steer EXCEPT !.refs = {}]
Receipt == Event(2, "SIDECAR_RESULT_RECEIPT", Of(1, 1), {1}, 2)
Pressure == Event(3, "CONTEXT_PRESSURE_HIGH", None, {}, 3)
Checkpoint(i, t, r, at) == Event(i, "SIDECAR_CHECKPOINT", Of(t, 1), r, at)

(* Two events of one id, one that only observes, one of every kind that is  *)
(* refused: appended at any moment, and one after the other.                *)
AnyPayload ==
  {Steer, [Steer EXCEPT !.refs = {3}], Receipt, Pressure, [Receipt EXCEPT !.id = 4, !.refs = {}],
   [Steer EXCEPT !.id = 5, !.binding = None], [Pressure EXCEPT !.id = 6, !.named = 2]}
Relay == INSTANCE SidecarBridge WITH
  Payloads <- AnyPayload, Writers <- {p1, p2}, Serial <- FALSE, MaxLines <- 4, MaxTorn <- 2,
  log <- v1, torn <- v2, writer <- v3, stored <- v4, tears <- v5,
  Bridges <- {}, Lane <- 1, MaxTurns <- 0, MaxDrift <- 0, MayDie <- FALSE, turn <- v6,
  facts <- v7, turns <- v8, drifts <- v9, arrived <- v10, submitted <- v11, lanes <- v12
Ordered == INSTANCE SidecarBridge WITH
  Payloads <- AnyPayload, Writers <- {p1, p2}, Serial <- TRUE, MaxLines <- 4, MaxTorn <- 2,
  log <- v1, torn <- v2, writer <- v3, stored <- v4, tears <- v5,
  Bridges <- {}, Lane <- 1, MaxTurns <- 0, MaxDrift <- 0, MayDie <- FALSE, turn <- v6,
  facts <- v7, turns <- v8, drifts <- v9, arrived <- v10, submitted <- v11, lanes <- v12

(* Two bridges with one event in two versions; one bridge beside two other  *)
(* writers; and checkpoints of two tasks.                                   *)
Bridge == INSTANCE SidecarBridge WITH
  Payloads <- {Steer, SteerOther, Pointless}, Writers <- {p1, b1, b2}, Bridges <- {b1, b2},
  Serial <- FALSE, MaxLines <- 3, MaxTorn <- 1, MaxTurns <- 2, MaxDrift <- 1, MayDie <- TRUE,
  Lane <- 1, log <- v1, torn <- v2, writer <- v3, stored <- v4, tears <- v5, turn <- v6,
  facts <- v7, turns <- v8, drifts <- v9, arrived <- v10, submitted <- v11, lanes <- v12
Readers == INSTANCE SidecarBridge WITH
  Payloads <- {Steer, SteerOther}, Writers <- {p1, p2, b1}, Bridges <- {b1},
  Serial <- FALSE, MaxLines <- 3, MaxTorn <- 1, MaxTurns <- 2, MaxDrift <- 0, MayDie <- TRUE,
  Lane <- 1, log <- v1, torn <- v2, writer <- v3, stored <- v4, tears <- v5, turn <- v6,
  facts <- v7, turns <- v8, drifts <- v9, arrived <- v10, submitted <- v11, lanes <- v12
Lanes == INSTANCE SidecarBridge WITH
  Payloads <- {Checkpoint(3, 1, {0}, 5), Checkpoint(4, 1, {0}, 4), Checkpoint(5, 2, {0}, 6),
               Checkpoint(3, 1, {}, 3)},
  Writers <- {p1, b1}, Bridges <- {b1}, Serial <- FALSE, MaxLines <- 4, MaxTorn <- 1,
  MaxTurns <- 3, MaxDrift <- 0, MayDie <- TRUE,
  Lane <- 1, log <- v1, torn <- v2, writer <- v3, stored <- v4, tears <- v5, turn <- v6,
  facts <- v7, turns <- v8, drifts <- v9, arrived <- v10, submitted <- v11, lanes <- v12

-------------------------------------------------------------------------------
(* Environment files of every shape: comments, blanks, exports, keys that   *)
(* occur twice, each end of a line, and no end of the last one.             *)
SW == INSTANCE SecretWriter WITH
  Files <- {}, Keys <- {k1, k2}, Allowed <- {}, Values <- {}, Writers <- {}, EditKeys <- {},
  MaxOps <- 0, MaxEdits <- 0, MaxFaults <- 0,
  file <- v1, ident <- v2, op <- v3, temps <- v4, ops <- v5, edits <- v6, faults <- v7, lost <- v8
Comment(t) == SW!Line(None, "other", 0, t)
Shapes ==
  {<<Comment("lf"), SW!Line(k1, "plain", 1, "lf"), SW!Line(k2, "plain", 1, "lf"), SW!Blank>>,
   <<>>, <<SW!Blank>>, <<SW!Line(k2, "export", 1, "no")>>,
   <<SW!Line(k1, "plain", 1, "crlf"), Comment("crlf"), SW!Line(k2, "plain", 2, "no")>>,
   <<SW!Line(k1, "export", 1, "lf"), SW!Line(k2, "plain", 2, "crlf"), SW!Line(k2, "plain", 1, "no")>>,
   <<SW!Line(k2, "plain", 1, "crlf"), SW!Line(k2, "export", 1, "crlf"), Comment("no")>>}
Secret == INSTANCE SecretWriter WITH
  Files <- Shapes, Keys <- {k1, k2}, Allowed <- {k1, k2}, Values <- {1, 2}, Writers <- {p1, p2},
  EditKeys <- {k2}, MaxOps <- 2, MaxEdits <- 1, MaxFaults <- 1,
  file <- v1, ident <- v2, op <- v3, temps <- v4, ops <- v5, edits <- v6, faults <- v7, lost <- v8

(* A caller of a repository with two files, one of them filtered, beside    *)
(* others who edit, stage and commit between any two of its commands.       *)
Git == INSTANCE GitTransactions WITH
  Files <- {x, up}, Filtered <- {up}, Contents <- {1, 2, 3}, Callers <- {p1},
  MaxCommits <- 3, MaxAsks <- 2, MaxEdits <- 3,
  commits <- v1, index <- v2, work <- v3, seen <- v4, ask <- v5, staged <- v6, asks <- v7,
  edits <- v8

ASSUME ServiceInstances ==
  /\ Bus!BusAssumption /\ Replay!BusAssumption /\ Stm!StmAssumption /\ Room!StmAssumption
  /\ Relay!RelayAssumption /\ Ordered!RelayAssumption
  /\ Bridge!RelayAssumption /\ Bridge!BridgeAssumption
  /\ Readers!RelayAssumption /\ Readers!BridgeAssumption
  /\ Lanes!RelayAssumption /\ Lanes!BridgeAssumption
  /\ Secret!SecretAssumption /\ Git!GitAssumption

-------------------------------------------------------------------------------
Init ==
  /\ part \in Parts /\ NativeInit
  /\ part # "native" => files = [y \in Paths \ Outside |-> None]
  /\ \/ part = "bus" /\ Bus!BusInit /\ No8
     \/ part = "replay" /\ Replay!BusInit /\ No8
     \/ part = "stm" /\ Stm!StmInit /\ No4
     \/ part = "room" /\ Room!StmInit /\ No4
     \/ part = "relay" /\ Relay!RelayInit /\ No6
     \/ part = "serial" /\ Ordered!RelayInit /\ No6
     \/ part = "bridge" /\ Bridge!BridgeInit
     \/ part = "readers" /\ Readers!BridgeInit
     \/ part = "lanes" /\ Lanes!BridgeInit
     \/ part = "secret" /\ Secret!SecretInit /\ No9
     \/ part \in {"native", "runs"} /\ No1
     \/ part = "git" /\ Git!GitInit /\ No9

BusStep == part = "bus" /\ Bus!BusNext /\ UNCHANGED <<Native, part, From8>>
ReplayStep == part = "replay" /\ Replay!BusNext /\ UNCHANGED <<Native, part, From8>>
StmStep == part = "stm" /\ Stm!Operate /\ UNCHANGED <<Native, part, From4>>
RoomStep == part = "room" /\ Room!Operate /\ UNCHANGED <<Native, part, From4>>
RelayStep == part = "relay" /\ Relay!RelayNext /\ UNCHANGED <<Native, part, From6>>
SerialStep == part = "serial" /\ Ordered!RelayNext /\ UNCHANGED <<Native, part, From6>>
BridgeStep == part = "bridge" /\ Bridge!BridgeNext /\ UNCHANGED <<Native, part>>
ReadersStep == part = "readers" /\ Readers!BridgeNext /\ UNCHANGED <<Native, part>>
LanesStep == part = "lanes" /\ Lanes!BridgeNext /\ UNCHANGED <<Native, part>>
SecretStep == part = "secret" /\ Secret!SecretNext /\ UNCHANGED <<Native, part, From9>>
NativeStep == part = "native" /\ FilesNext /\ UNCHANGED <<runsVars, others>>
RunsStep == part = "runs" /\ RunsNext /\ UNCHANGED <<filesVars, others>>
GitStep == part = "git" /\ Git!GitNext /\ UNCHANGED <<Native, part, From9>>

Next ==
  \/ BusStep \/ ReplayStep \/ StmStep \/ RoomStep \/ RelayStep \/ SerialStep \/ BridgeStep \/ ReadersStep
  \/ LanesStep \/ SecretStep \/ NativeStep \/ RunsStep \/ GitStep

Spec == Init /\ [][Next]_vars

(* Writers, bridges, runners and streams are alike. *)
ServiceSymmetry == Permutations({p1, p2}) \cup Permutations({b1, b2}) \cup Permutations({s1, s2})

-------------------------------------------------------------------------------

(***************************************************************************)
(* The sidecar: an event that was reported as stored is read (programs one  *)
(* after the other), whatever writes end in the middle of a line; a target  *)
(* that acknowledged an event never gets it again, what is submitted is     *)
(* what readers agree on, and no turn recovers an older checkpoint.         *)
(***************************************************************************)
RelaySafety ==
  /\ part = "relay" => Relay!RelayTypeOK
  /\ part = "serial" => Ordered!StoredIsRead
  /\ part = "bridge" => Bridge!BridgeTypeOK /\ Bridge!AcknowledgedNeverAgain
  /\ part = "readers" => Readers!SubmittedIsRead
  /\ part = "lanes" => Lanes!LaneNeverGoesBack

(***************************************************************************)
(* A write of secrets keeps every other line, one that is refused before    *)
(* its replacement has not touched the file, one that leaves a temporary    *)
(* file says that recovery is required, and a change by another program is  *)
(* overwritten only when it falls behind the last look at the file.         *)
(***************************************************************************)
SecretSafety ==
  part = "secret" =>
    /\ Secret!SecretTypeOK /\ Secret!UnrelatedPreserved /\ Secret!RefusedUntouched
    /\ Secret!NoTempLeft /\ Secret!DriftSeenBeforeFence

(***************************************************************************)
(* A commit through the adapter holds what its caller had observed, unless  *)
(* others moved the head or the index after the adapter's own look at them; *)
(* under the same condition staging starts from the index that was seen and *)
(* changes only files that were named and were seen as changed.             *)
(***************************************************************************)
GitSafety ==
  part = "git" => Git!GitTypeOK /\ Git!CommitIsObserved /\ Git!StagedAsSeen

(***************************************************************************)
(* What a reader of the sidecar's log has read stays first in what is read, *)
(* and no step makes the log unreadable unless two programs append at once  *)
(* and one of them behind the other's torn piece.  A partition of the       *)
(* memory that is known to have lost events is made fresh only by a         *)
(* rebuild, one that expired only by a refresh that keeps its records, and  *)
(* none is evicted while one is kept that expired or was refreshed earlier. *)
(***************************************************************************)
ServiceSteps ==
  [][/\ part = "relay" => Relay!ReadsOnlyGrow
     /\ part = "serial" => Ordered!ReadsOnlyGrow
     /\ part = "stm" => Stm!FreshByRebuild /\ Stm!EvictsStalest]_vars
===============================================================================
