----------------------------- MODULE GraphSchedule -----------------------------
(***************************************************************************)
(* Which node of a graph run is dispatched when: activations of single nodes *)
(* (runtime_activation.py), the continuation after a completed node          *)
(* (next_ready_continuation.py) and batches (schedule_once, as the elastic   *)
(* executor calls it), over the durable jobs of the nodes.  Each call reads  *)
(* the jobs one by one (lifecycle_bridge.py), decides, and dispatches; jobs  *)
(* and other calls move on in between.  GraphDispatch has the dispatch in    *)
(* full; here it creates the job and claims it.                             *)
(***************************************************************************)
EXTENDS TaskGraph

CONSTANTS
  Graphs,      \* the graphs with their tasks, [graph, task]
  Workers,     \* worker snapshots by id
  MaxParallel, \* SchedulePolicy.max_parallel
  Drivers,     \* calls that may be under way at once
  Kinds,       \* which of "activate", "continue" and "batch" are made
  Faults       \* what goes wrong: "crash" of a call; jobs "block", "fail", "cancel", "lose"

ScheduleAssumption ==
  /\ MaxParallel \in Nat \ {0}
  /\ Faults \subseteq {"crash", "block", "fail", "cancel", "lose"}
  /\ Kinds \subseteq {"activate", "continue", "batch"}

VARIABLES
  def,      \* the stored graph and its tasks
  jobs,     \* the state of the job of each node, "NONE" without one
  holder,   \* the worker that has claimed the node; 0: none
  outputs,  \* what the jobs have left behind
  calls,    \* the call each driver is in
  checked,  \* the nodes whose last claim came after a readiness check (history)
  passed    \* the nodes whose continuation was carried through (history)

scheduleVars == <<def, jobs, holder, outputs, calls, checked, passed>>

Nodes == NodesOf(def.graph)
Order == def.graph.nodes
JobStates == {"NONE", "READY", "CLAIMED", "EXECUTING", "RECOVERY_NEEDED", "BLOCKED",
              "COMPLETE", "FAILED", "CANCELLED"}
Doing == {"CLAIMED", "EXECUTING"}
Idle == [at |-> "idle"]

(* _TASK_STATE_PROJECTION, with a node that has no job *)
Project(state) ==
  CASE state \in {"NONE", "READY"} -> "todo"
    [] state \in Doing -> "doing"
    [] state = "COMPLETE" -> "done"
    [] state = "CANCELLED" -> "skipped"
    [] OTHER -> "blocked"

Init ==
  /\ def \in Graphs
  /\ jobs = [n \in Nodes |-> "NONE"]
  /\ holder = [n \in Nodes |-> 0]
  /\ outputs = [n \in Nodes |-> {}]
  /\ calls = [d \in Drivers |-> Idle]
  /\ checked = {}
  /\ passed = {}

-------------------------------------------------------------------------------
(* The calls *)

Start(d, kind, node, seen, at) ==
  calls' = [calls EXCEPT ![d] = [at |-> at, kind |-> kind, node |-> node, seen |-> seen,
                                 picks |-> <<>>, fresh |-> TRUE]]
Quit(d) == calls' = [calls EXCEPT ![d] = Idle]
Decide(d, picks) ==
  IF picks = <<>> THEN Quit(d)
  ELSE calls' = [calls EXCEPT ![d].at = "create", ![d].picks = picks,
                              ![d].seen = IF calls[d].kind = "batch" THEN @ ELSE <<>>]

(* A worker for a single node: an offer goes to the worker of the contract. *)
SomeWorker(n) == CHOOSE w \in DOMAIN Workers : \A v \in DOMAIN Workers : w <= v

(* activate_production_runtime of an offer: a node that has a job already is *)
(* dispatched without asking whether it is ready.                            *)
Activate(d, n) ==
  /\ calls[d] = Idle /\ "activate" \in Kinds
  /\ IF jobs[n] = "NONE" THEN Start(d, "activate", n, <<>>, "read")
     ELSE calls' = [calls EXCEPT ![d] =
            [at |-> "create", kind |-> "activate", node |-> n, seen |-> <<>>,
             picks |-> <<<<n, SomeWorker(n)>>>>, fresh |-> FALSE]]
  /\ UNCHANGED <<def, jobs, holder, outputs, checked, passed>>

(* Mutant: the parent is continued from while it is still under way. *)
ContinueEarly(d, n) ==
  /\ calls[d] = Idle /\ "continue" \in Kinds
  /\ jobs[n] \in {"EXECUTING", "COMPLETE"} /\ Children(def.graph, n) # {}
  /\ Start(d, "continue", n, <<>>, "read")
  /\ UNCHANGED <<def, jobs, holder, outputs, checked, passed>>

(* observe_next_ready_facts starts from a parent that has a job; one that is *)
(* not COMPLETE ends in NOOP_PARENT_NOT_COMPLETE.                            *)
Continue(d, n) ==
  /\ calls[d] = Idle /\ "continue" \in Kinds
  /\ jobs[n] = "COMPLETE" /\ Children(def.graph, n) # {}
  /\ Start(d, "continue", n, <<>>, "read")
  /\ UNCHANGED <<def, jobs, holder, outputs, checked, passed>>

Batch(d) ==
  /\ calls[d] = Idle /\ "batch" \in Kinds
  /\ Start(d, "batch", 0, <<>>, "read")
  /\ UNCHANGED <<def, jobs, holder, outputs, checked, passed>>

(* get_job of the next node *)
Read(d) ==
  /\ calls[d].at = "read" /\ Len(calls[d].seen) < Len(Order)
  /\ calls' = [calls EXCEPT ![d].seen = Append(@, jobs[Order[Len(@) + 1]])]
  /\ UNCHANGED <<def, jobs, holder, outputs, checked, passed>>

Seen(d) == [n \in Nodes |-> calls[d].seen[CHOOSE i \in DOMAIN Order : Order[i] = n]]
Observed(d) == LET seen == Seen(d) IN [n \in Nodes |-> Project(seen[n])]
ReadySeen(d) == ReadySet(def.graph, def.task, Observed(d))
AllRead(d) == calls[d].at = "read" /\ Len(calls[d].seen) = Len(Order)

(* ACTIVATION_NODE_NOT_READY, or the one node is dispatched *)
DecideActivation(d) ==
  /\ AllRead(d) /\ calls[d].kind = "activate"
  /\ Decide(d, IF calls[d].node \in ReadySeen(d)
               THEN <<<<calls[d].node, SomeWorker(calls[d].node)>>>> ELSE <<>>)
  /\ UNCHANGED <<def, jobs, holder, outputs, checked, passed>>

(* plan_next_ready_continuation: the first of the children that are ready   *)
(* and have no job; DISPATCH_ONE goes on although siblings need recovery.    *)
(* A guard that does not hold ends the call.                                 *)
DecideContinuation(d, guards) ==
  /\ AllRead(d) /\ calls[d].kind = "continue"
  /\ LET ranked == TopologicalSort(def.graph).order
         candidates == {n \in Children(def.graph, calls[d].node) :
                          Seen(d)[n] = "NONE" /\ n \in ReadySeen(d)}
         first == CHOOSE n \in candidates :
                    \A m \in candidates \ {n} : Goes(def.graph, def.task, ranked, n, m)
     IN  /\ Decide(d, IF guards /\ candidates # {} THEN <<<<first, SomeWorker(first)>>>> ELSE <<>>)
         /\ passed' = IF guards /\ candidates = {} THEN passed \cup {calls[d].node} ELSE passed
  /\ UNCHANGED <<def, jobs, holder, outputs, checked>>

(* What the supply snapshot shows of the workers: one that has claimed a    *)
(* node is leased.                                                           *)
Supply == [w \in DOMAIN Workers |->
             [Workers[w] EXCEPT !.reserved = @ \/ \E n \in Nodes : holder[n] = w]]

(* execute_once plans with the supply of now and the ready set of before, *)
(* whatever the gates and quotas leave eligible of it.                     *)
DecideBatch(d) ==
  /\ AllRead(d) /\ calls[d].kind = "batch"
  /\ LET ready == ReadySeen(d)
     IN  \E eligible \in SUBSET ready :
           Decide(d, ScheduleOnce(def.graph, def.task, ready, Supply, MaxParallel, {}, eligible))
  /\ UNCHANGED <<def, jobs, holder, outputs, checked, passed>>

-------------------------------------------------------------------------------
(* The dispatch of the first pick *)

Pick(d) == calls[d].picks[1]
DropPick(d) ==
  calls' = [calls EXCEPT ![d] = IF Len(@.picks) = 1 THEN Idle
                                ELSE [@ EXCEPT !.picks = Tail(@), !.at = "create"]]

(* _load_or_create and the way to READY; BLOCKED jobs are made ready again.  *)
(* Any other state is answered EXISTING or RECONCILE, and a batch does not   *)
(* get the lease of a worker that is taken.                                  *)
Create(d) ==
  /\ calls[d].at = "create"
  /\ LET n == Pick(d)[1]
         leased == calls[d].kind = "batch" /\ \E m \in Nodes : holder[m] = Pick(d)[2]
     IN  IF jobs[n] \in {"NONE", "READY", "BLOCKED"} /\ ~leased
         THEN /\ jobs' = [jobs EXCEPT ![n] = "READY"]
              /\ calls' = [calls EXCEPT ![d].at = "claim"]
         ELSE DropPick(d) /\ UNCHANGED jobs
  /\ passed' = IF calls[d].kind = "continue" THEN passed \cup {calls[d].node} ELSE passed
  /\ UNCHANGED <<def, holder, outputs, checked>>

(* READY to CLAIMED at the version that was read; a moved job is a conflict. *)
Claim(d) ==
  /\ calls[d].at = "claim"
  /\ LET n == Pick(d)[1]
     IN  IF jobs[n] = "READY"
         THEN /\ jobs' = [jobs EXCEPT ![n] = "CLAIMED"]
              /\ holder' = [holder EXCEPT ![n] = Pick(d)[2]]
              /\ checked' = IF calls[d].fresh THEN checked \cup {n} ELSE checked \ {n}
         ELSE UNCHANGED <<jobs, holder, checked>>
  /\ DropPick(d)
  /\ UNCHANGED <<def, outputs, passed>>

(* The process dies, or the store or the port fails: RECOVERY_REQUIRED. *)
Fail(d) ==
  /\ calls[d] # Idle /\ "crash" \in Faults
  /\ Quit(d)
  /\ UNCHANGED <<def, jobs, holder, outputs, checked, passed>>

-------------------------------------------------------------------------------
(* The jobs, as DurableJobs lets them move *)

Move(n, from, to) ==
  /\ jobs[n] \in from
  /\ jobs' = [jobs EXCEPT ![n] = to]
  /\ holder' = IF to \in {"CLAIMED", "EXECUTING", "RECOVERY_NEEDED"} THEN holder
               ELSE [holder EXCEPT ![n] = 0]
  /\ UNCHANGED <<def, calls, passed>>

Execute(n) == Move(n, {"CLAIMED"}, "EXECUTING") /\ UNCHANGED <<outputs, checked>>
Complete(n) ==
  /\ Move(n, {"EXECUTING"}, "COMPLETE")
  /\ \E left \in {{}, def.task[n].outputs} : outputs' = [outputs EXCEPT ![n] = left]
  /\ UNCHANGED checked
Blocks(n) == "block" \in Faults /\ Move(n, {"READY", "CLAIMED"}, "BLOCKED") /\ UNCHANGED <<outputs, checked>>
Fails(n) == "fail" \in Faults /\ Move(n, {"EXECUTING", "BLOCKED"}, "FAILED") /\ UNCHANGED <<outputs, checked>>
Cancel(n) == "cancel" \in Faults /\ Move(n, {"READY", "CLAIMED", "EXECUTING", "BLOCKED"}, "CANCELLED")
             /\ UNCHANGED <<outputs, checked>>
Lose(n) == "lose" \in Faults /\ Move(n, {"EXECUTING"}, "RECOVERY_NEEDED") /\ UNCHANGED <<outputs, checked>>

(* The recovery puts the job where its classification says. *)
Recover(n, to) ==
  /\ Move(n, {"RECOVERY_NEEDED"}, to)
  /\ checked' = IF to = "EXECUTING" THEN checked \ {n} ELSE checked
  /\ UNCHANGED outputs

DriverStep(d) ==
  Read(d) \/ DecideActivation(d) \/ (\E guards \in BOOLEAN : DecideContinuation(d, guards))
  \/ DecideBatch(d) \/ Create(d) \/ Claim(d)

Next ==
  \/ \E d \in Drivers : \/ \E n \in Nodes : Activate(d, n) \/ Continue(d, n)
                        \/ Batch(d) \/ DriverStep(d) \/ Fail(d)
  \/ \E n \in Nodes : \/ Execute(n) \/ Complete(n) \/ Blocks(n) \/ Fails(n) \/ Cancel(n) \/ Lose(n)
                      \/ \E to \in {"READY", "EXECUTING", "BLOCKED"} : Recover(n, to)

ScheduleSpec == Init /\ [][Next]_scheduleVars

-------------------------------------------------------------------------------
(* Properties *)

ScheduleTypeOK ==
  /\ jobs \in [Nodes -> JobStates]
  /\ holder \in [Nodes -> DOMAIN Workers \cup {0}]
  /\ checked \subseteq Nodes /\ passed \subseteq Nodes
  /\ \A d \in Drivers : calls[d].at \in {"idle", "read", "create", "claim"}

(* No node has a job before all its predecessors are complete or cancelled,  *)
(* whatever happens between the reads of the projection and the dispatch     *)
(* (compute_ready_set, project_graph_node_states).                           *)
PredecessorsDone ==
  \A n \in Nodes : jobs[n] # "NONE" =>
    \A p \in Predecessors(def.graph, n) : jobs[p] \in {"COMPLETE", "CANCELLED"}

(* A join is not lost: when every predecessor is complete and its continuation *)
(* was carried through, the node has its job, in whatever order the         *)
(* predecessors ended and their continuations read the jobs.  A predecessor  *)
(* that is cancelled after the continuations of the others leaves the join   *)
(* without a job, since only a COMPLETE parent is continued from; and of     *)
(* several ready children one continuation takes one: only children are      *)
(* looked at that have no sibling and no write set to wait for.              *)
SuccessorNotLost ==
  \A n \in Nodes :
    LET preds == Predecessors(def.graph, n)
    IN  /\ preds # {} /\ def.task[n].write = {}
        /\ \A p \in preds : Children(def.graph, p) = {n} /\ jobs[p] = "COMPLETE" /\ p \in passed
        => jobs[n] # "NONE"

(* What a fan-in barrier is shown of a child *)
Observation(n) ==
  [seen |-> jobs[n] # "NONE", terminal |-> jobs[n] \in {"COMPLETE", "FAILED", "CANCELLED"},
   successful |-> jobs[n] = "COMPLETE", skipped |-> jobs[n] = "CANCELLED", outputs |-> outputs[n]]

(* The barrier does not contradict the dispatch: a node that has its job has *)
(* a fan-in barrier that is satisfied, or that waits only for an output a    *)
(* predecessor has not left behind, which readiness does not look at         *)
(* (barriers.py, ready.py).                                                  *)
BarrierAgrees ==
  \A n \in Nodes : jobs[n] # "NONE" =>
    LET preds == Predecessors(def.graph, n)
        observed == [m \in Nodes |-> Observation(m)]
    IN  BarrierSatisfied(preds, def.task, observed) \/ Silent(preds, def.task, observed) # {}

Overlapping(m, n) == m # n /\ WriteSetsOverlap(def.task[m].write, def.task[n].write)

(* Nodes that were claimed after a readiness check never write to the same   *)
(* path at the same time, be they of one batch or of several, as long as one *)
(* call is made at a time (GE-0006, conflict closure).                       *)
ConflictClosed ==
  \A m, n \in checked : jobs[m] \in Doing /\ jobs[n] \in Doing => ~Overlapping(m, n)

(* The plan a batch makes from what it has read, whatever the gates and      *)
(* quotas leave eligible: the nodes have workers of their own that are idle, *)
(* able and allowed, within the capacity, the more urgent ones first, and no *)
(* two write to one place; and a ready node is left out only when every slot *)
(* is filled, it lacks an identity, no free worker may have it, or it would  *)
(* write where a planned one does (schedule_once).                           *)
PlanSound ==
  \A d \in Drivers : AllRead(d) /\ calls[d].kind = "batch" =>
    LET ready == ReadySeen(d)
        idle == {w \in DOMAIN Workers : ~Supply[w].reserved}
    IN \A eligible \in SUBSET ready :
    LET plan == ScheduleOnce(def.graph, def.task, ready, Supply, MaxParallel, {}, eligible)
        picked == {p[1] : p \in Range(plan)}
        free == idle \ {p[2] : p \in Range(plan)}
        able(n, w) == /\ def.task[n].needs \subseteq Workers[w].caps
                      /\ def.task[n].worker \in {0, w}
                      /\ IdentityAllows(Workers[w], def.task[n])
        anonymous(n) == LET t == def.task[n] IN t.write # {} /\ t.project = 0 /\ t.ws = 0
    IN  /\ IsInjective([i \in DOMAIN plan |-> plan[i][2]]) /\ Len(plan) <= MaxParallel
        /\ \A p \in Range(plan) : p[2] \in idle /\ able(p[1], p[2]) /\ ~anonymous(p[1])
        /\ \A i, j \in DOMAIN plan : i < j =>
             def.task[plan[i][1]].priority >= def.task[plan[j][1]].priority
        /\ \A m, n \in picked : ~Overlapping(m, n)
        /\ \A n \in eligible \ picked :
             \/ Len(plan) \in {MaxParallel, Cardinality(idle)}
             \/ anonymous(n)
             \/ \A w \in free : ~able(n, w)
             \/ \E m \in picked : Overlapping(m, n)

===============================================================================
