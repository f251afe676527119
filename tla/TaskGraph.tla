------------------------------- MODULE TaskGraph -------------------------------
(***************************************************************************)
(* The pure algorithms over task graphs: domain.py, graph.py (the builder's *)
(* cycle search), dag.py (Kahn's sort with ready levels), analyze.py (overlap *)
(* of write sets given as globs), ready.py, barriers.py and scheduler.py.    *)
(* A graph is [nodes, edges]: the nodes in the order they were added, the    *)
(* edges <<from, to, dep_type>> likewise.  Node and worker ids are numbers,  *)
(* whose order stands for the order of the id strings.  A write set is a set *)
(* of globs, a glob a sequence of characters.                                *)
(***************************************************************************)
EXTENDS Naturals, Integers, Sequences, SequencesExt, FiniteSets

NodesOf(g) == Range(g.nodes)
Pairs(g) == {<<g.edges[i][1], g.edges[i][2]>> : i \in DOMAIN g.edges}
Predecessors(g, n) == {p[1] : p \in {q \in Pairs(g) : q[2] = n}}
Children(g, n) == {p[2] : p \in {q \in Pairs(g) : q[1] = n}}

Sorted(S) == SetToSortSeq(S, <)

-------------------------------------------------------------------------------
(* Kahn's algorithm *)

(* The targets of a node's edges, once for each edge, in edge order. *)
Adjacency(g, n) ==
  LET out == SelectSeq(g.edges, LAMBDA e : e[1] = n)
  IN  [i \in DOMAIN out |-> out[i][2]]

Indegree(g) == [n \in NodesOf(g) |-> Cardinality({i \in DOMAIN g.edges : g.edges[i][2] = n})]

(* One node of the queue: its targets lose one, those left with none follow. *)
Release(g, state, n) ==
  FoldLeft(LAMBDA s, t : [indegree |-> [s.indegree EXCEPT ![t] = @ - 1],
                          freed |-> IF s.indegree[t] = 1 THEN Append(s.freed, t) ELSE s.freed],
           state, Adjacency(g, n))

(* A level of the sort: the queue is emptied and the freed nodes are queued. *)
RECURSIVE Levels(_, _, _)
Levels(g, indegree, queue) ==
  IF queue = <<>> THEN <<>>
  ELSE LET after == FoldLeft(LAMBDA s, n : Release(g, s, n),
                             [indegree |-> indegree, freed |-> <<>>], queue)
       IN  <<queue>> \o Levels(g, after.indegree, after.freed)

Roots(g) == {n \in NodesOf(g) : Indegree(g)[n] = 0}
SortLevels(g) == Levels(g, Indegree(g), Sorted(Roots(g)))
Visited(levels) == FlattenSeq(levels)
Unsorted(g) == NodesOf(g) \ Range(Visited(SortLevels(g)))

(* Follow the first edge that stays among the given nodes until a node is met *)
(* again, or no edge leads on.                                               *)
RECURSIVE Walk(_, _, _, _)
Walk(g, among, path, current) ==
  IF current \in Range(path) THEN [closed |-> TRUE, path |-> path, at |-> current]
  ELSE LET next == SelectSeq(Adjacency(g, current), LAMBDA t : t \in among)
       IN  IF next = <<>> THEN [closed |-> FALSE, path |-> Append(path, current), at |-> current]
           ELSE Walk(g, among, Append(path, current), next[1])

Loop(w) == SubSeq(w.path, CHOOSE i \in DOMAIN w.path : w.path[i] = w.at, Len(w.path))

(* _reconstruct_cycle: from the smallest of the nodes that were not sorted. *)
ReconstructCycle(g) ==
  LET walk == Walk(g, Unsorted(g), <<>>, Sorted(Unsorted(g))[1])
  IN  IF walk.closed THEN Append(Loop(walk), walk.at) ELSE Append(walk.path, walk.path[1])

(* _find_cycle of the builder starts from the first node that was added, and *)
(* takes a node where no edge leads on for the end of the cycle.             *)
FindCycle(g) ==
  IF Unsorted(g) = {} THEN <<>>
  ELSE LET start == SelectSeq(g.nodes, LAMBDA n : n \in Unsorted(g))[1]
           walk == Walk(g, Unsorted(g), <<>>, start)
       IN  IF walk.closed THEN Append(Loop(walk), walk.at) ELSE <<walk.at, walk.at>>

(* topological_sort: the cycle is empty when there is none. *)
TopologicalSort(g) ==
  IF Unsorted(g) # {}
  THEN [order |-> <<>>, levels |-> <<>>, cycle |-> ReconstructCycle(g)]
  ELSE [order |-> Visited(SortLevels(g)), levels |-> SortLevels(g), cycle |-> <<>>]

-------------------------------------------------------------------------------
(* Overlap of globs *)

(* p.replace(old, "*"): what is there, from the left *)
RECURSIVE Replaced(_, _)
Replaced(p, old) ==
  IF IsPrefix(old, p) THEN <<"*">> \o Replaced(SubSeq(p, Len(old) + 1, Len(p)), old)
  ELSE IF p = <<>> THEN <<>> ELSE <<p[1]>> \o Replaced(Tail(p), old)

(* pattern.replace("**/", "*").replace("**", "*"), one after the other *)
Normalized(p) == Replaced(Replaced(p, <<"*", "*", "/">>), <<"*", "*">>)

(* Where the class that opens at i closes; past the end when it does not. *)
ClassEnd(p, i) ==
  LET negated == i + 1 <= Len(p) /\ p[i + 1] \in {"!", "^"}
      first == IF negated THEN i + 2 ELSE i + 1
      from == IF first <= Len(p) /\ p[first] = "]" THEN first + 1 ELSE first
      closers == {j \in from..Len(p) : p[j] = "]"}
  IN  IF closers = {} THEN Len(p) + 1
      ELSE CHOOSE j \in closers : \A k \in closers : j <= k

(* _tokenize_glob: a class, closed or not, is one wildcard. *)
RECURSIVE Tokens(_, _)
Tokens(p, i) ==
  IF i > Len(p) THEN <<>>
  ELSE IF p[i] = "[" THEN <<"?">> \o Tokens(p, ClassEnd(p, i) + 1)
  ELSE <<p[i]>> \o Tokens(p, i + 1)

(* _globs_share_a_path *)
RECURSIVE ShareAPath(_, _)
ShareAPath(a, b) ==
  IF a = <<>> THEN \A i \in DOMAIN b : b[i] = "*"
  ELSE IF b = <<>> THEN \A i \in DOMAIN a : a[i] = "*"
  ELSE IF a[1] = "*" \/ b[1] = "*" THEN ShareAPath(Tail(a), b) \/ ShareAPath(a, Tail(b))
  ELSE (a[1] = "?" \/ b[1] = "?" \/ a[1] = b[1]) /\ ShareAPath(Tail(a), Tail(b))

PathsOverlap(p, q) == ShareAPath(Tokens(Normalized(p), 1), Tokens(Normalized(q), 1))

WriteSetsOverlap(A, B) == \E p \in A, q \in B : p = q \/ PathsOverlap(p, q)

-------------------------------------------------------------------------------
(* What the algorithms read of a node; 0 stands for no binding, and a node   *)
(* that writes is a mutating one.                                            *)
(*   [priority, write, needs, project, ws, worker, outputs]                  *)

(* analyze_conflicts: the pairs, in graph order, that must not run together. *)
Conflicts(g, task) ==
  LET before == {p \in NodesOf(g) \X NodesOf(g) :
                   \E i, j \in DOMAIN g.nodes : i < j /\ p = <<g.nodes[i], g.nodes[j]>>}
      same(f, p) == task[p[1]][f] # 0 /\ task[p[1]][f] = task[p[2]][f]
  IN  [FILE_WRITE |-> {p \in before : WriteSetsOverlap(task[p[1]].write, task[p[2]].write)},
       WORKSPACE_WRITE |-> {p \in before : same("ws", p)},
       WORKER |-> {p \in before : same("worker", p)}]

(* compute_ready_set, for the node statuses observed: the ready nodes. *)
ReadySet(g, task, status) ==
  {n \in NodesOf(g) :
     /\ status[n] = "todo"
     /\ \A p \in Predecessors(g, n) : status[p] \in {"done", "skipped"}
     /\ \A r \in NodesOf(g) \ {n} :
          status[r] = "doing" => ~WriteSetsOverlap(task[n].write, task[r].write)}

-------------------------------------------------------------------------------
(* evaluate_fan_in_barrier and evaluate_fan_out_barrier: what is observed of *)
(* a child is [seen, terminal, successful, skipped, outputs].                *)

Silent(expected, task, observed) ==
  {n \in expected : observed[n].seen /\ observed[n].terminal
                    /\ (observed[n].successful \/ observed[n].skipped)
                    /\ ~(task[n].outputs \subseteq observed[n].outputs)}

BarrierComplete(expected, task, observed) ==
  (\A n \in expected : observed[n].seen /\ observed[n].terminal)
  /\ Silent(expected, task, observed) = {}

BarrierSatisfied(expected, task, observed) ==
  BarrierComplete(expected, task, observed)
  /\ \A n \in expected : observed[n].successful \/ observed[n].skipped

-------------------------------------------------------------------------------
(* schedule_once: a worker is [state, reserved, caps, project, ws, mutation]. *)

IdentityAllows(w, t) ==
  t.write # {} => /\ t.project # 0 => w.project = t.project
                  /\ t.ws # 0 => w.ws = t.ws
                  /\ w.mutation

(* The order of the candidates: priority, topological rank, id. *)
Goes(g, task, order, m, n) ==
  LET rank(x) == CHOOSE i \in DOMAIN order : order[i] = x
  IN  \/ task[m].priority > task[n].priority
      \/ task[m].priority = task[n].priority /\ rank(m) < rank(n)

(* The first available worker that the node may have; 0 when there is none. *)
PickWorker(t, workers, available, plan) ==
  LET free == {w \in available : \A s \in Range(plan) : s[2] # w}
      able == {w \in free : /\ t.worker # 0 => w = t.worker
                            /\ t.needs \subseteq workers[w].caps
                            /\ IdentityAllows(workers[w], t)}
  IN  IF able = {} THEN 0 ELSE CHOOSE w \in able : \A v \in able : w <= v

(* A candidate joins the plan, or is blocked: eligibility was seen to before. *)
Select(task, workers, available, running, capacity, plan, n) ==
  LET t == task[n]
      w == PickWorker(t, workers, available, plan)
  IN  IF \/ Len(plan) >= capacity
         \/ t.write # {} /\ t.project = 0 /\ t.ws = 0
         \/ w = 0
         \/ \E r \in running : WriteSetsOverlap(t.write, task[r].write)
         \/ \E s \in Range(plan) : WriteSetsOverlap(t.write, task[s[1]].write)
      THEN plan ELSE Append(plan, <<n, w>>)

ScheduleOnce(g, task, ready, workers, maxParallel, running, eligible) ==
  LET available == {w \in DOMAIN workers : workers[w].state = "READY" /\ ~workers[w].reserved}
      ranked == TopologicalSort(g).order
      candidates == SortSeq(SetToSeq(ready \cap eligible),
                            LAMBDA m, n : Goes(g, task, ranked, m, n))
      capacity == IF maxParallel < Cardinality(available) THEN maxParallel
                  ELSE Cardinality(available)
  IN  FoldLeft(LAMBDA plan, n : Select(task, workers, available, running, capacity, plan, n),
               <<>>, candidates)
===============================================================================
