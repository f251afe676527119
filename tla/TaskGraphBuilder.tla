--------------------------- MODULE TaskGraphBuilder ---------------------------
(***************************************************************************)
(* TaskGraphBuilder of graph.py: a graph grows by one node or one edge, and *)
(* an edge that closes a cycle is taken back and refused with the cycle that *)
(* was found.  What the algorithms of TaskGraph compute is compared in every *)
(* state with what it should be: reachability for cycles, longest paths for  *)
(* ready levels, the paths that globs match for conflicts.                   *)
(***************************************************************************)
EXTENDS TaskGraph, Relation

CONSTANTS
  Ids,       \* node ids
  DepTypes,  \* dependency types in use
  WriteSets, \* write sets nodes may declare
  Alphabet,  \* characters of concrete paths
  MaxPath,   \* bound on the length of the concrete paths that are looked at
  MaxEdges   \* bound on the edges of a graph

BuilderAssumption == Ids \subseteq Nat \ {0} /\ MaxPath \in Nat /\ MaxEdges \in Nat

VARIABLES
  graph,    \* the graph built so far
  write,    \* the write sets of its nodes
  refused   \* the edge that was last refused for a cycle, with the cycle named

builderVars == <<graph, write, refused>>
NoRefusal == [edge |-> <<>>, cycle |-> <<>>]

Init ==
  /\ graph = [nodes |-> <<>>, edges |-> <<>>]
  /\ write = <<>>
  /\ refused = NoRefusal

(* A node that is already there is an error and changes nothing. *)
AddNode(n, ws) ==
  /\ n \notin NodesOf(graph)
  /\ graph' = [graph EXCEPT !.nodes = Append(@, n)]
  /\ write' = [m \in NodesOf(graph) \cup {n} |-> IF m = n THEN ws ELSE write[m]]
  /\ refused' = NoRefusal

(* Mutant: a graph that has a root is taken for acyclic. *)
AddEdgeFromRoots(m, n, type) ==
  LET with == [graph EXCEPT !.edges = Append(@, <<m, n, type>>)]
  IN  /\ {m, n} \subseteq NodesOf(graph) /\ m # n
      /\ <<m, n, type>> \notin Range(graph.edges) /\ Len(graph.edges) < MaxEdges
      /\ IF Roots(with) = {}
         THEN graph' = graph /\ refused' = [edge |-> <<m, n>>, cycle |-> FindCycle(with)]
         ELSE graph' = with /\ refused' = NoRefusal
      /\ UNCHANGED write

AddEdge(m, n, type) ==
  LET with == [graph EXCEPT !.edges = Append(@, <<m, n, type>>)]
  IN  /\ {m, n} \subseteq NodesOf(graph) /\ m # n
      /\ <<m, n, type>> \notin Range(graph.edges) /\ Len(graph.edges) < MaxEdges
      /\ IF FindCycle(with) # <<>>
         THEN graph' = graph /\ refused' = [edge |-> <<m, n>>, cycle |-> FindCycle(with)]
         ELSE graph' = with /\ refused' = NoRefusal
      /\ UNCHANGED write

Next ==
  \/ \E n \in Ids, ws \in WriteSets : AddNode(n, ws)
  \/ \E m, n \in Ids, type \in DepTypes : AddEdge(m, n, type)

BuilderSpec == Init /\ [][Next]_builderVars

-------------------------------------------------------------------------------
(* What the algorithms should compute *)

Reaches(edges) ==
  TransitiveClosure([p \in NodesOf(graph) \X NodesOf(graph) |-> p \in edges], NodesOf(graph))

(* The longest path that ends in a node, as a level. *)
RECURSIVE Depth(_)
Depth(n) == IF Predecessors(graph, n) = {} THEN 1
            ELSE 1 + Max({Depth(p) : p \in Predecessors(graph, n)})

(* fnmatch: whether a glob matches a path.  A class that is not closed is    *)
(* nothing but its characters.                                               *)
RECURSIVE Matches(_, _)
Matches(p, path) ==
  IF p = <<>> THEN path = <<>>
  ELSE IF p[1] = "*" THEN \E i \in 0..Len(path) : Matches(Tail(p), SubSeq(path, i + 1, Len(path)))
  ELSE /\ path # <<>>
       /\ LET end == ClassEnd(p, 1)
              negated == Len(p) > 1 /\ p[2] = "!"
              members == {p[i] : i \in (IF negated THEN 3 ELSE 2)..(end - 1)}
          IN  IF p[1] = "[" /\ end <= Len(p)
              THEN (path[1] \in members) # negated
                   /\ Matches(SubSeq(p, end + 1, Len(p)), Tail(path))
              ELSE (p[1] = "?" \/ p[1] = path[1]) /\ Matches(Tail(p), Tail(path))

ConcretePaths == UNION {[1..k -> Alphabet] : k \in 0..MaxPath}
SharedPath(A, B) ==
  \E path \in ConcretePaths : (\E p \in A : Matches(p, path)) /\ (\E q \in B : Matches(q, path))
Plain(ws) == \A p \in ws : "[" \notin Range(p) /\ "/" \notin Range(p)

-------------------------------------------------------------------------------
(* Properties *)

GraphTypeOK ==
  /\ graph.nodes \in Seq(Ids) /\ IsInjective(graph.nodes)
  /\ graph.edges \in Seq(Ids \X Ids \X DepTypes) /\ IsInjective(graph.edges)
  /\ write \in [NodesOf(graph) -> WriteSets]

(* An edge is refused exactly when it would let a node reach itself: the     *)
(* graph has no cycle, and a refused edge had a way back (TaskGraphBuilder:  *)
(* "an invalid graph can never exist").                                      *)
StaysAcyclic ==
  /\ \A n \in NodesOf(graph) : ~Reaches(Pairs(graph))[<<n, n>>]
  /\ refused # NoRefusal =>
       Reaches(Pairs(graph))[<<refused.edge[2], refused.edge[1]>>]

(* topological_sort orders every node once and after its predecessors, and   *)
(* puts it in the first wave in which all of them are done, also with edges  *)
(* of several types between two nodes.                                       *)
SortsTopologically ==
  LET sort == TopologicalSort(graph)
      at(n) == CHOOSE i \in DOMAIN sort.order : sort.order[i] = n
  IN  /\ sort.cycle = <<>>
      /\ IsInjective(sort.order) /\ Range(sort.order) = NodesOf(graph)
      /\ \A e \in Pairs(graph) : at(e[1]) < at(e[2])
      /\ \A i \in DOMAIN sort.levels : \A n \in Range(sort.levels[i]) : Depth(n) = i

(* analyze_conflicts: two write sets with a concrete path in common are in     *)
(* conflict; without classes and "**/" also only those.                      *)
OverlapDetected ==
  LET task == [n \in NodesOf(graph) |-> [write |-> write[n], ws |-> 0, worker |-> 0]]
      reported == Conflicts(graph, task).FILE_WRITE
  IN  \A i, j \in DOMAIN graph.nodes : i < j =>
        LET m == graph.nodes[i]
            n == graph.nodes[j]
        IN  /\ SharedPath(write[m], write[n]) => <<m, n>> \in reported
            /\ Plain(write[m]) /\ Plain(write[n]) /\ <<m, n>> \in reported
                 => SharedPath(write[m], write[n])

===============================================================================
