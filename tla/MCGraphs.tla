------------------------------ MODULE MCGraphs ------------------------------
(***************************************************************************)
(* Instances for TLC of the modules about task graphs and what is started   *)
(* from them: the builder and its analyses, the scheduler, the stored runs  *)
(* and their activation, and the two orchestrated dispatches, of a worker   *)
(* and to a parent's queue.                                                 *)
(*                                                                          *)
(* They share no state, so each is checked apart from the others: a         *)
(* behaviour is one of a single part.  The variables of GraphRuns are those *)
(* of the part "runs"; v1 to v12 hold the variables of any other, in the    *)
(* order of their declaration.                                              *)
(***************************************************************************)
EXTENDS GraphRuns, Sequences, TLC

CONSTANTS
  Parts,  \* the parts a run is about
  None, c1, c2

VARIABLES part, v1, v2, v3, v4, v5, v6, v7, v8, v9, v10, v11, v12

others == <<part, v1, v2, v3, v4, v5, v6, v7, v8, v9, v10, v11, v12>>
vars == <<graphRunVars, others>>
From3 == <<v3, v4, v5, v6, v7, v8, v9, v10, v11, v12>>
From4 == <<v4, v5, v6, v7, v8, v9, v10, v11, v12>>
From8 == <<v8, v9, v10, v11, v12>>
From10 == <<v10, v11, v12>>
From11 == <<v11, v12>>

-------------------------------------------------------------------------------
(* Graphs of three nodes and edges of two types; and pairs of globs. *)
Build == INSTANCE TaskGraphBuilder WITH
  Ids <- {1, 2, 3}, DepTypes <- {"DATA", "GIT"}, WriteSets <- {{}}, Alphabet <- {"a"},
  MaxPath <- 0, MaxEdges <- 3,
  graph <- v1, write <- v2, refused <- v3

Glob(chars, size) == UNION {[1..k -> chars] : k \in 1..size}
Closed(p) == \A i \in DOMAIN p : p[i] = "[" => Build!ClassEnd(p, i) <= Len(p)
ClosedGlobs ==
  {{p} : p \in {q \in Glob({"*", "?", "a", "[", "]"}, 3) : Closed(q)}}
  \cup {{<<"*", "*", "/", "a">>}, {<<"*", "*", "*", "/">>}, {<<"b">>}, {<<"[", "!", "a", "]">>}, {<<"a">>, <<"b", "a">>}}

Globs == INSTANCE TaskGraphBuilder WITH
  Ids <- {1, 2}, DepTypes <- {"DATA"}, WriteSets <- ClosedGlobs,
  Alphabet <- {"a", "b", "]", "/"}, MaxPath <- 4, MaxEdges <- 0,
  graph <- v1, write <- v2, refused <- v3

-------------------------------------------------------------------------------
Task == [priority |-> 0, write |-> {}, needs |-> {}, project |-> 0, ws |-> 0, worker |-> 0,
         outputs |-> {}]
Src == {<<"s", "*">>}
File == {<<"s", "f">>}

(* Two branches join; the branches write to one place. *)
Join == [graph |-> [nodes |-> <<3, 1, 2>>, edges |-> <<<<1, 3, "DATA">>, <<2, 3, "GIT">>>>],
         task |-> <<[Task EXCEPT !.write = Src, !.ws = 1],
                    [Task EXCEPT !.write = File, !.ws = 1], Task>>]
(* A fork into a writer and a more urgent reader. *)
Fork == [graph |-> [nodes |-> <<1, 2, 3>>, edges |-> <<<<1, 2, "DATA">>, <<1, 3, "DATA">>>>],
         task |-> <<Task, [Task EXCEPT !.write = File, !.ws = 1], [Task EXCEPT !.priority = 1]>>]
(* A node with an output, and one that waits for it. *)
Handoff == [graph |-> [nodes |-> <<1, 2>>, edges |-> <<<<1, 2, "DATA">>>>],
            task |-> <<[Task EXCEPT !.outputs = {"log"}], Task>>]
(* Two nodes without dependencies write to one place, one needs more. *)
Free == [graph |-> [nodes |-> <<1, 2>>, edges |-> <<>>],
         task |-> <<[Task EXCEPT !.write = Src, !.ws = 1],
                    [Task EXCEPT !.write = File, !.project = 1, !.priority = 1, !.needs = {"shell"}]>>]
(* A bound worker and a writer without an identity. *)
Bound == [graph |-> [nodes |-> <<1, 2>>, edges |-> <<>>],
          task |-> <<[Task EXCEPT !.worker = 2], [Task EXCEPT !.write = Src, !.priority = 1]>>]

Worker == [state |-> "READY", reserved |-> FALSE, caps |-> {}, project |-> 1, ws |-> 1,
           mutation |-> TRUE]
Pool == <<Worker, [Worker EXCEPT !.caps = {"shell"}]>>

(* One driver whose calls may die; two drivers that continue at once. *)
Batches == INSTANCE GraphSchedule WITH
  Graphs <- {Free, Bound, Fork, Handoff}, Workers <- Pool, MaxParallel <- 2, Drivers <- {c1},
  Kinds <- {"activate", "continue", "batch"}, Faults <- {"crash", "block", "fail", "cancel", "lose"},
  def <- v1, jobs <- v2, holder <- v3, outputs <- v4, calls <- v5, checked <- v6, passed <- v7
Races == INSTANCE GraphSchedule WITH
  Graphs <- {Join}, Workers <- <<Worker>>, MaxParallel <- 2, Drivers <- {c1, c2},
  Kinds <- {"activate", "continue"}, Faults <- {"cancel"},
  def <- v1, jobs <- v2, holder <- v3, outputs <- v4, calls <- v5, checked <- v6, passed <- v7

-------------------------------------------------------------------------------
(* A chain, the chain without its edge, and one node that needs a worker. *)
Chain == [nodes |-> {1, 2}, edges |-> {<<1, 2>>}, needs |-> {}]
Loose == [nodes |-> {1, 2}, edges |-> {}, needs |-> {}]
Needy == [nodes |-> {1}, edges |-> {}, needs |-> {1}]

MCTerms == <<[mode |-> "push", workers |-> {1}, mutation |-> FALSE],
             [mode |-> "push", workers |-> {1}, mutation |-> TRUE],
             [mode |-> "pull", workers |-> {2}, mutation |-> TRUE]>>

OneNode == [n \in {2} |-> 1]
BothNodes == [n \in {1, 2} |-> 1]
Offered == [n \in {2} |-> 3]

(* Two processes open a store of any schema and prepare runs, some under    *)
(* one ref; one process activates a run while everything is edited.         *)
MCDefinitions == {Chain, Loose, Needy}
MCIntents == {[ref |-> "r1", bind |-> OneNode], [ref |-> "r1", bind |-> BothNodes]}
Activations == INSTANCE GraphRuns WITH
  Callers <- {c1}, Definitions <- MCDefinitions, Terms <- MCTerms,
  Intents <- {[ref |-> "r1", bind |-> OneNode], [ref |-> "r1", bind |-> Offered]},
  Rows <- {1, 2}, Schemas <- {"V2"},
  Faults <- {"crash", "edit", "save", "delete", "route", "job"}, MaxEdits <- 3,
  schema <- v1, graph <- v2, runs <- v3, lock <- v4, file <- v5, route <- v6, job <- v7,
  calls <- v8, requests <- v9, launched <- v10, refused <- v11, edits <- v12

-------------------------------------------------------------------------------
(* A job in the hands of arbitrary callers. *)
JobStore == INSTANCE DurableJobs WITH
  Jobs <- {1}, Workers <- {c1, c2}, Terms <- {"t"}, Budgets <- {1, 2}, Refs <- {"m1", "m2"},
  OtherRef <- "other", MaxVersion <- 9,
  jobs <- v1, metas <- v2

-------------------------------------------------------------------------------
Explicit == [wire |-> TRUE, kind |-> "ENQUEUE", source |-> "operator.v1", task |-> "task",
             admitted |-> "task", target |-> "WORKER_BATCH", trigger |-> "EXPLICIT",
             recovery |-> FALSE]
(* Ways to be served, and to be refused. *)
AllSignals ==
  {Explicit, [Explicit EXCEPT !.trigger = "REFILL"],
   [Explicit EXCEPT !.kind = "LIFECYCLE", !.target = None, !.trigger = None],
   [Explicit EXCEPT !.kind = "REPLAY", !.recovery = TRUE],
   [Explicit EXCEPT !.source = None]}

Plan == [task |-> "task", cls |-> "review", gen |-> 1, readOnly |-> TRUE, concurrency |-> 1,
         authorized |-> TRUE, occupied |-> 0, budget |-> 1, ready |-> 1, quota |-> TRUE]
AllDocuments ==
  {Plan, [Plan EXCEPT !.cls = "mutable"], [Plan EXCEPT !.readOnly = FALSE],
   [Plan EXCEPT !.quota = FALSE], [Plan EXCEPT !.occupied = 1], [Plan EXCEPT !.authorized = FALSE]}

(* Two calls of handle for one job; one, beside a whole attempt of others    *)
(* and a recovery from it; and one, with documents that change.             *)
Orch == INSTANCE WorkerOrchestration WITH
  Calls <- {c1, c2}, Signals <- {Explicit}, Documents <- {Plan}, Facts <- {},
  TrustedSource <- "operator.v1", MaxVersion <- 7,
  job <- v1, doc <- v2, holds <- v3, lease <- v4, slot <- v5, calls <- v6, started <- v7,
  late <- v8, wrote <- v9
Again == INSTANCE WorkerOrchestration WITH
  Calls <- {c1}, Signals <- {Explicit}, Documents <- {Plan}, Facts <- {},
  TrustedSource <- "operator.v1", MaxVersion <- 13,
  job <- v1, doc <- v2, holds <- v3, lease <- v4, slot <- v5, calls <- v6, started <- v7,
  late <- v8, wrote <- v9
Gated == INSTANCE WorkerOrchestration WITH
  Calls <- {c1}, Signals <- AllSignals, Documents <- AllDocuments, Facts <- {"provider"},
  TrustedSource <- "operator.v1", MaxVersion <- 7,
  job <- v1, doc <- v2, holds <- v3, lease <- v4, slot <- v5, calls <- v6, started <- v7,
  late <- v8, wrote <- v9

(* An inspection of a queue that moves; one beside a submission; and two    *)
(* submissions.                                                             *)
Inspect == INSTANCE ParentSubmission WITH
  Calls <- {c1}, Writers <- {}, PageSize <- 1, MaxPages <- 2, MaxEvents <- 2, MaxIds <- 3,
  events <- v1, claimed <- v2, gen <- v3, queue <- v4, ids <- v5, turn <- v6, calls <- v7,
  writers <- v8, stayed <- v9, sent <- v10
Audit == INSTANCE ParentSubmission WITH
  Calls <- {c1}, Writers <- {c2}, PageSize <- 1, MaxPages <- 2, MaxEvents <- 4, MaxIds <- 1,
  events <- v1, claimed <- v2, gen <- v3, queue <- v4, ids <- v5, turn <- v6, calls <- v7,
  writers <- v8, stayed <- v9, sent <- v10
Submit == INSTANCE ParentSubmission WITH
  Calls <- {}, Writers <- {c1, c2}, PageSize <- 1, MaxPages <- 2, MaxEvents <- 5, MaxIds <- 2,
  events <- v1, claimed <- v2, gen <- v3, queue <- v4, ids <- v5, turn <- v6, calls <- v7,
  writers <- v8, stayed <- v9, sent <- v10

ASSUME GraphInstances ==
  /\ Build!BuilderAssumption /\ Globs!BuilderAssumption
  /\ Batches!ScheduleAssumption /\ Races!ScheduleAssumption
  /\ Activations!GraphRunsAssumption
  /\ JobStore!JobsAssumption
  /\ Orch!OrchAssumption /\ Again!OrchAssumption /\ Gated!OrchAssumption
  /\ Inspect!ParentAssumption /\ Audit!ParentAssumption /\ Submit!ParentAssumption

-------------------------------------------------------------------------------
No11 == v11 = None /\ v12 = None
No10 == v10 = None /\ No11
No8 == v8 = None /\ v9 = None /\ No10
No4 == v4 = None /\ v5 = None /\ v6 = None /\ v7 = None /\ No8
No3 == v3 = None /\ No4

Init ==
  /\ part \in Parts /\ RunsInit
  /\ part # "runs" => schema = "FRESH" /\ file = 1 /\ job.refs = {}
  /\ \/ part = "build" /\ Build!Init /\ No4
     \/ part = "globs" /\ Globs!Init /\ No4
     \/ part = "batches" /\ Batches!Init /\ No8
     \/ part = "races" /\ Races!Init /\ No8
     \/ part = "runs" /\ v1 = None /\ v2 = None /\ No3
     \/ part = "activations" /\ Activations!RunsInit
     \/ part = "jobs" /\ JobStore!JobsInit /\ No3
     \/ part = "orch" /\ Orch!OrchInit /\ No10
     \/ part = "again" /\ Again!OrchInit /\ No10
     \/ part = "gated" /\ Gated!OrchInit /\ No10
     \/ part = "inspect" /\ Inspect!ParentInit /\ No11
     \/ part = "audit" /\ Audit!ParentInit /\ No11
     \/ part = "submit" /\ Submit!ParentInit /\ No11

BuildStep == part = "build" /\ Build!Next /\ UNCHANGED <<graphRunVars, part, From4>>
GlobsStep == part = "globs" /\ Globs!Next /\ UNCHANGED <<graphRunVars, part, From4>>
BatchesStep == part = "batches" /\ Batches!Next /\ UNCHANGED <<graphRunVars, part, From8>>
RacesStep == part = "races" /\ Races!Next /\ UNCHANGED <<graphRunVars, part, From8>>
RunsStep == part = "runs" /\ RunsNext /\ UNCHANGED others
ActivationsStep == part = "activations" /\ Activations!RunsNext /\ UNCHANGED <<graphRunVars, part>>
JobsStep == part = "jobs" /\ JobStore!JobsNext /\ UNCHANGED <<graphRunVars, part, From3>>
OrchStep == part = "orch" /\ Orch!OrchNext /\ UNCHANGED <<graphRunVars, part, From10>>
AgainStep == part = "again" /\ Again!OrchNext /\ UNCHANGED <<graphRunVars, part, From10>>
GatedStep == part = "gated" /\ Gated!OrchNext /\ UNCHANGED <<graphRunVars, part, From10>>
InspectStep == part = "inspect" /\ Inspect!ParentNext /\ UNCHANGED <<graphRunVars, part, From11>>
AuditStep == part = "audit" /\ Audit!ParentNext /\ UNCHANGED <<graphRunVars, part, From11>>
SubmitStep == part = "submit" /\ Submit!ParentNext /\ UNCHANGED <<graphRunVars, part, From11>>

Next ==
  \/ BuildStep \/ GlobsStep \/ BatchesStep \/ RacesStep \/ RunsStep \/ ActivationsStep
  \/ JobsStep \/ OrchStep \/ AgainStep \/ GatedStep \/ InspectStep \/ AuditStep \/ SubmitStep

Spec == Init /\ [][Next]_vars

(* The callers of a store, its workers, and the drivers of a schedule are alike. *)
GraphSymmetry == Permutations({c1, c2})

-------------------------------------------------------------------------------
(***************************************************************************)
(* An edge is refused exactly when it would close a cycle, the sort puts    *)
(* every node after its predecessors and into the first wave it can run in, *)
(* and two write sets with a path in common are reported as in conflict.    *)
(***************************************************************************)
BuilderSafety ==
  /\ part = "build" =>
       /\ Build!GraphTypeOK
       /\ Build!StaysAcyclic
       /\ Build!SortsTopologically
  /\ part = "globs" => Globs!OverlapDetected

(***************************************************************************)
(* However two drivers and operators that cancel jobs interleave, or one    *)
(* driver with failures and crashes: no node starts before its predecessors *)
(* are through, and the fan-in barrier does not contradict a dispatch.  Of  *)
(* two continuations, one dispatches the join whose predecessors both       *)
(* continued and are complete (one cancelled afterwards leaves the join to  *)
(* an operator).  The nodes one driver claims never write to one place at   *)
(* once, and its plans are sound and leave out only what they must.         *)
(***************************************************************************)
ScheduleSafety ==
  /\ part = "races" =>
       /\ Races!ScheduleTypeOK
       /\ Races!PredecessorsDone
       /\ Races!SuccessorNotLost
       /\ Races!BarrierAgrees
  /\ part = "batches" =>
       /\ Batches!PredecessorsDone
       /\ Batches!BarrierAgrees
       /\ Batches!ConflictClosed
       /\ Batches!PlanSound

(***************************************************************************)
(* Two calls, operators and recoveries start no attempt of a job twice, a   *)
(* refusal has changed nothing, and what is launched is what the gate saw,  *)
(* but for what moved after its last look.  Whoever writes to its store, a  *)
(* job can be read back and has a worker exactly while it is claimed.  And  *)
(* one activation against every change of its files, graph and route keeps  *)
(* the identity of its run and follows one version of the contract.         *)
(***************************************************************************)
OrchestrationSafety ==
  /\ part = "activations" => Activations!RunIdentity /\ Activations!ContractIsOne
  /\ part = "jobs" => JobStore!JobsSafety
  /\ part = "orch" => Orch!OrchTypeOK /\ Orch!AttemptStartedOnce /\ Orch!AnswersTruly
  /\ part = "again" => Again!AttemptStartedOnce /\ Again!AnswersTruly
  /\ part = "gated" => Gated!AnswersTruly /\ Gated!RunsWhatWasGated /\ Gated!RefillFits

(***************************************************************************)
(* A submission to the parent is made once for a job, and an inspection     *)
(* never clears one, or attaches to one, while an entry of the task was     *)
(* pending all along, though the queue moves between its pages.             *)
(***************************************************************************)
ParentSafety ==
  /\ part = "inspect" => Inspect!ParentTypeOK /\ Inspect!ClearIsClear /\ Inspect!AttachedIsAlone
  /\ part = "submit" => Submit!SubmittedOnce

(***************************************************************************)
(* A call that clears an ENQUEUE does not clear it against a submission     *)
(* that the audit already had when the call began.                          *)
(***************************************************************************)
NoSecondChance == [][part = "audit" => Audit!NoSecondChance]_vars
===============================================================================
