------------------------------- MODULE GraphRuns -------------------------------
(***************************************************************************)
(* Graph runs, from the intent to the activation: the graph store            *)
(* (graph/store.py) with its schema, the stored graph definition and the     *)
(* prepared runs; the preparation (graph/preparation_application.py), which  *)
(* binds a driving job's preparation ref to one run and hands out activation *)
(* requests; and the activation of one request (runtime_activation.py) up to *)
(* the dispatch, which GraphSchedule and GraphDispatch continue.             *)
(*                                                                          *)
(* The pinned files of a task, contract and packet, are one version number,  *)
(* which is also their digest; Terms says what a version of the contract     *)
(* grants.  A graph definition stands for its digest.                        *)
(***************************************************************************)
EXTENDS Naturals, FiniteSets, FiniteSetTheorems, TLAPS

CONSTANTS
  Callers,      \* processes that prepare and activate
  Definitions,  \* graph definitions: [nodes, edges, needs], needs: nodes with a worker requirement
  Terms,        \* what each version of the contract says: [mode, workers, mutation]
  Intents,      \* preparation intents: [ref, bind], bind: the file version each bound node pins
  Rows,         \* the workers the control center shows with an assignment to the project
  Schemas,      \* schemas the database may be found with
  Faults,       \* "crash", "edit", "save", "delete", "route", "job"
  MaxEdits      \* changes of the environment

GraphRunsAssumption ==
  /\ MaxEdits \in Nat
  /\ Schemas \subseteq {"FRESH", "V1", "V2", "V2_UNSTAMPED"}
  /\ \A d \in Definitions : d.edges \subseteq d.nodes \X d.nodes /\ d.nodes # {}
  /\ \A v \in DOMAIN Terms : Terms[v].mode \in {"push", "pull"}
  /\ "none" \notin Callers  \* the value for no caller

ASSUME GraphRunsConstants == GraphRunsAssumption

VARIABLES
  schema,   \* _schema_state of the committed database
  graph,    \* the stored definition; Missing without nodes
  runs,     \* rows of graph_runs and their bindings: [id, ref, graph, bind]
  lock,     \* the caller in an immediate transaction; Absent
  file,     \* the version of the contract in the project
  route,    \* the provider snapshot authorises the route
  job,      \* the driving job: [terminal, refs], refs: journaled preparation refs
  calls,    \* the call each caller is in
  requests, \* activation requests handed out: [ref, node]
  launched, \* dispatches (history)
  refused,  \* openers that were refused by a valid store (history)
  edits     \* changes of the environment so far

graphRunVars == <<schema, graph, runs, lock, file, route, job, calls, requests, launched, refused, edits>>
world == <<file, route, job, edits>>

Absent == "none"
Missing == [nodes |-> {}, edges |-> {}, needs |-> {}]
Versions == DOMAIN Terms
Refs == {i.ref : i \in Intents}
Idle == [at |-> "idle"]

RunsInit ==
  /\ schema \in Schemas
  /\ graph \in IF schema = "FRESH" THEN {Missing} ELSE Definitions
  /\ runs = {} /\ lock = Absent
  /\ file \in Versions /\ route = TRUE
  /\ job \in [terminal : {FALSE}, refs : {{r} : r \in Refs} \cup {{}}]
  /\ calls = [c \in Callers |-> Idle]
  /\ requests = {} /\ launched = {} /\ refused = {} /\ edits = 0

Goto(c, at) == calls' = [calls EXCEPT ![c].at = at]
Quit(c) == calls' = [calls EXCEPT ![c] = Idle]
Check(c, ok, at) == IF ok THEN Goto(c, at) ELSE Quit(c)

-------------------------------------------------------------------------------
(* Opening the store: GraphStore.__init__ *)

Prepare(c, intent) ==
  /\ calls[c] = Idle
  /\ calls' = [calls EXCEPT ![c] = [at |-> "open", intent |-> intent, nodes |-> Missing, class |-> schema, run |-> 0]]
  /\ UNCHANGED <<schema, graph, runs, lock, requests, launched, refused>> /\ UNCHANGED world

(* _init_schema: BEGIN IMMEDIATE, then _schema_state *)
Classify(c) ==
  /\ calls[c].at = "open" /\ lock = Absent
  /\ lock' = c
  /\ calls' = [calls EXCEPT ![c].at = "migrate", ![c].class = schema]
  /\ UNCHANGED <<schema, graph, runs, requests, launched, refused>> /\ UNCHANGED world

(* _create_v2_schema, _migrate_v1_to_v2 and _stamp_v2: the statements of a   *)
(* class fail on a database of another one (a table or column exists).       *)
Migrate(c) ==
  /\ calls[c].at = "migrate" /\ lock \in {Absent, c}
  /\ lock' = Absent
  /\ LET ok == calls[c].class \in {"V2", "V2_UNSTAMPED", schema}
     IN  /\ schema' = IF ok THEN "V2" ELSE schema
         /\ refused' = IF ok THEN refused ELSE refused \cup {c}
         /\ Check(c, ok, "job")
  /\ UNCHANGED <<graph, runs, requests, launched>> /\ UNCHANGED world

(* GRAPH_STORE_SCHEMA_BUSY and GRAPH_RUN_PREPARATION_STORE_BUSY *)
Busy(c) ==
  /\ calls[c].at \in {"open", "begin"} /\ lock # Absent
  /\ Quit(c)
  /\ UNCHANGED <<schema, graph, runs, lock, requests, launched, refused>> /\ UNCHANGED world

-------------------------------------------------------------------------------
(* PreparationApplication.prepare *)

Held(c) == UNCHANGED <<schema, graph, runs, lock, requests, launched, refused>> /\ UNCHANGED world

(* _require_usable_driving_job *)
LoadJob(c) == calls[c].at = "job" /\ Check(c, ~job.terminal, "events") /\ Held(c)

(* PREPARATION_PROVENANCE_MISSING, _AMBIGUOUS and _MISMATCH *)
ListEvents(c) ==
  calls[c].at = "events" /\ Check(c, job.refs = {calls[c].intent.ref}, "nodes") /\ Held(c)

(* load_graph: the nodes and the edges are two statements; an edge without   *)
(* its node is GRAPH_DEFINITION_INVALID.                                     *)
LoadNodes(c) ==
  /\ calls[c].at = "nodes"
  /\ calls' = [calls EXCEPT ![c].at = "edges", ![c].nodes = graph]
  /\ Held(c)
Coherent(nodes) == nodes.nodes # {} /\ graph.edges \subseteq nodes.nodes \X nodes.nodes
LoadEdges(c) == calls[c].at = "edges" /\ Check(c, Coherent(calls[c].nodes), "validate") /\ Held(c)

Bindable(bind, nodes) == DOMAIN bind \subseteq nodes.nodes \ nodes.needs

(* _validated_binding_spec: nodes, file digests and route *)
Validate(c) ==
  /\ calls[c].at = "validate"
  /\ LET bind == calls[c].intent.bind
     IN  Check(c, Bindable(bind, calls[c].nodes) /\ route /\ \A n \in DOMAIN bind : bind[n] = file, "begin")
  /\ Held(c)

(* preparation_sha256 and canonical_graph_definition_sha256 as equality of   *)
(* what they are taken over                                                  *)
SamePreparation(row, intent) == row.graph = graph /\ row.bind = intent.bind

(* Mutant: a row with the ref is the run, whatever it was prepared with. *)
BeginByRef(c) ==
  /\ calls[c].at = "begin" /\ lock = Absent
  /\ LET intent == calls[c].intent
         found == {r \in runs : r.ref = intent.ref}
     IN  IF schema = "V2" /\ graph # Missing /\ Bindable(intent.bind, graph)
         THEN IF found = {} THEN lock' = c /\ Goto(c, "insert")
              ELSE /\ calls' = [calls EXCEPT ![c].at = "bindings", ![c].run = (CHOOSE r \in found : TRUE).id]
                   /\ UNCHANGED lock
         ELSE Quit(c) /\ UNCHANGED lock
  /\ UNCHANGED <<schema, graph, runs, requests, launched, refused>> /\ UNCHANGED world

(* prepare_run, up to the insert: the row of the ref answers only when the   *)
(* digest over graph, definition and bindings is the same.                   *)
Begin(c) ==
  /\ calls[c].at = "begin" /\ lock = Absent
  /\ LET intent == calls[c].intent
         found == {r \in runs : r.ref = intent.ref}
         same == {r \in found : SamePreparation(r, intent)}
     IN  IF schema = "V2" /\ graph # Missing /\ Bindable(intent.bind, graph) /\ found = same
         THEN IF found = {} THEN lock' = c /\ Goto(c, "insert")
              ELSE /\ calls' = [calls EXCEPT ![c].at = "bindings", ![c].run = (CHOOSE r \in found : TRUE).id]
                   /\ UNCHANGED lock
         ELSE Quit(c) /\ UNCHANGED lock
  /\ UNCHANGED <<schema, graph, runs, requests, launched, refused>> /\ UNCHANGED world

(* What is stored, and what a row must be to be decoded *)
Row(id, intent) == [id |-> id, ref |-> intent.ref, graph |-> graph, bind |-> intent.bind]

(* The row and its bindings are inserted, read back and committed. *)
Insert(c) ==
  /\ calls[c].at = "insert"
  /\ lock' = Absent
  /\ LET id == Cardinality(runs) + 1
     IN  /\ runs' = runs \cup {Row(id, calls[c].intent)}
         /\ calls' = [calls EXCEPT ![c].at = "bindings", ![c].run = id]
  /\ UNCHANGED <<schema, graph, requests, launched, refused>> /\ UNCHANGED world

(* load_graph_run and load_graph_run_bindings *)
RunOf(id) == CHOOSE r \in runs : r.id = id

(* load_graph_run_bindings and _reconstruct_activation_request: the pinned   *)
(* files are read again, the graph is not.                                   *)
Reconstruct(c) ==
  /\ calls[c].at = "bindings"
  /\ LET run == RunOf(calls[c].run)
         fresh == \A n \in DOMAIN run.bind : run.bind[n] = file
     IN  requests' = IF fresh THEN requests \cup {[ref |-> run.ref, node |-> n] : n \in DOMAIN run.bind}
                     ELSE requests
  /\ Quit(c)
  /\ UNCHANGED <<schema, graph, runs, lock, launched, refused>> /\ UNCHANGED world

-------------------------------------------------------------------------------
(* activate_production_runtime *)

(* load_activation_authority: what the contract says now *)
Authority == Terms[file]
(* _pull_worker_row and _programmatic_worker_binding *)
Assigned(workers) == workers \subseteq Rows

Activate(c, request) ==
  /\ calls[c] = Idle /\ request \in requests
  /\ calls' = [calls EXCEPT ![c] =
       [at |-> IF Authority.mode = "pull" THEN "terms" ELSE "activate_nodes",
        request |-> request, first |-> file, terms |-> file, nodes |-> Missing]]
  /\ Held(c)

ActivateNodes(c) ==
  /\ calls[c].at = "activate_nodes"
  /\ calls' = [calls EXCEPT ![c].at = "activate_edges", ![c].nodes = graph]
  /\ Held(c)

(* ACTIVATION_GRAPH_UNAVAILABLE, ACTIVATION_NODE_NOT_FOUND and the node's    *)
(* worker requirement; then, for a push, the worker rows of the first        *)
(* reading.  An offer has read its contract again before it reads the graph. *)
ActivateEdges(c) ==
  /\ calls[c].at = "activate_edges"
  /\ LET nodes == calls[c].nodes
         first == Terms[calls[c].first]
         usable == Coherent(nodes) /\ calls[c].request.node \in nodes.nodes \ nodes.needs
     IN  IF first.mode = "pull" THEN Check(c, usable, "require")
         ELSE Check(c, usable /\ Assigned(first.workers), "terms")
  /\ Held(c)

(* The contract is read a second time: by build_activation_contract, after   *)
(* the graph, for a push, and by _offer_interactive_runtime, before it, for  *)
(* an offer.  Its mode must be the same; a push needs the same workers, a    *)
(* route and no mutation.                                                    *)
ReadTerms(c) ==
  /\ calls[c].at = "terms"
  /\ LET first == Terms[calls[c].first]
         now == Authority
         ok == /\ now.mode = first.mode
               /\ now.mode = "push" => now.workers = first.workers /\ route /\ ~now.mutation
               /\ now.mode = "pull" => Assigned(now.workers)
         next == IF now.mode = "pull" THEN "activate_nodes" ELSE "require"
         read == [calls[c] EXCEPT !.at = next, !.terms = file]
     IN  calls' = [calls EXCEPT ![c] = IF ok THEN read ELSE Idle]
  /\ Held(c)

Launch(c, digest) ==
  launched' = launched \cup {[ref |-> calls[c].request.ref, node |-> calls[c].request.node,
                              first |-> calls[c].first, terms |-> calls[c].terms, digest |-> digest]}

(* from_task_contract_file reads the contract a third time, compares it with *)
(* the digest of the second reading and pins the one it read; an offer       *)
(* records the digest of its second reading.  The dispatch follows.          *)
Require(c) ==
  /\ calls[c].at = "require"
  /\ \/ Terms[calls[c].terms].mode = "pull" /\ Launch(c, calls[c].terms)
     \/ Terms[calls[c].terms].mode = "push" /\ file = calls[c].terms /\ Launch(c, file)
     \/ Terms[calls[c].terms].mode = "push" /\ file # calls[c].terms /\ UNCHANGED launched
  /\ Quit(c)
  /\ UNCHANGED <<schema, graph, runs, lock, requests, refused>> /\ UNCHANGED world

-------------------------------------------------------------------------------
(* The environment *)

Crash(c) ==
  /\ "crash" \in Faults /\ calls[c] # Idle
  /\ Quit(c)
  /\ lock' = IF lock = c THEN Absent ELSE lock
  /\ UNCHANGED <<schema, graph, runs, requests, launched, refused>> /\ UNCHANGED world

Change(fault) == fault \in Faults /\ edits < MaxEdits /\ edits' = edits + 1

(* save_graph and delete_graph, each one transaction *)
SaveGraph(new) ==
  /\ Change("save") /\ schema = "V2" /\ lock = Absent /\ new # graph
  /\ graph' = new
  /\ UNCHANGED <<schema, runs, lock, file, route, job, calls, requests, launched, refused>>
DeleteGraph ==
  /\ Change("delete") /\ schema = "V2" /\ lock = Absent
  /\ graph' = Missing
  /\ UNCHANGED <<schema, runs, lock, file, route, job, calls, requests, launched, refused>>

EditFile(new) ==
  /\ Change("edit") /\ new # file
  /\ file' = new
  /\ UNCHANGED <<schema, graph, runs, lock, route, job, calls, requests, launched, refused>>
RouteChanges ==
  /\ Change("route")
  /\ route' = ~route
  /\ UNCHANGED <<schema, graph, runs, lock, file, job, calls, requests, launched, refused>>
JobMoves(new) ==
  /\ Change("job") /\ ~job.terminal
  /\ job' = new
  /\ UNCHANGED <<schema, graph, runs, lock, file, route, calls, requests, launched, refused>>

CallStep(c) ==
  \/ Classify(c) \/ Migrate(c) \/ LoadJob(c) \/ ListEvents(c) \/ LoadNodes(c) \/ LoadEdges(c)
  \/ Validate(c) \/ Begin(c) \/ Insert(c) \/ Reconstruct(c)
  \/ ActivateNodes(c) \/ ActivateEdges(c) \/ ReadTerms(c) \/ Require(c)

RunsNext ==
  \/ \E c \in Callers : \/ \E i \in Intents : Prepare(c, i)
                        \/ \E r \in requests : Activate(c, r)
                        \/ CallStep(c) \/ Busy(c) \/ Crash(c)
  \/ \E d \in Definitions : SaveGraph(d)
  \/ DeleteGraph
  \/ \E v \in Versions : EditFile(v)
  \/ RouteChanges
  \/ \E r \in Refs : JobMoves([job EXCEPT !.refs = @ \cup {r}])
  \/ JobMoves([job EXCEPT !.terminal = TRUE])

RunsSpec == RunsInit /\ [][RunsNext]_graphRunVars

-------------------------------------------------------------------------------
(* Properties *)

RunsTypeOK ==
  /\ schema \in {"FRESH", "V1", "V2", "V2_UNSTAMPED"}
  /\ graph \in Definitions \cup {Missing}
  /\ \A r \in runs : r.ref \in Refs /\ r.graph \in Definitions /\ Bindable(r.bind, r.graph)
  /\ lock \in Callers \cup {Absent}
  /\ requests \subseteq [ref : Refs, node : UNION {d.nodes : d \in Definitions}]

(* No opener is refused by a valid store, however many open and migrate it   *)
(* at once and wherever they die (_init_schema begins before it classifies). *)
OpenersAgree == refused = {}

(* One preparation ref is one run: across lost answers, replays, concurrent  *)
(* preparations and changes of the graph, a preparation that goes on has the *)
(* one run of its ref, with exactly its bindings (prepare_run), and the id   *)
(* it goes on with names no other run.                                       *)
RunIdentity ==
  /\ \A r, s \in runs : r.ref = s.ref \/ r.id = s.id => r = s
  /\ \A c \in Callers : calls[c].at = "bindings" =>
       \E r \in runs : /\ r.id = calls[c].run /\ r.ref = calls[c].intent.ref
                       /\ r.bind = calls[c].intent.bind

(* What is dispatched has its mode, its workers and its pinned digest from   *)
(* one version of the contract, although the activation reads the file three *)
(* times while it is edited (build_activation_contract).                     *)
ContractIsOne ==
  \A l \in launched :
    /\ l.digest = l.terms
    /\ Terms[l.first].mode = Terms[l.terms].mode
    /\ Terms[l.terms].mode = "push" => Terms[l.first].workers = Terms[l.terms].workers

(***************************************************************************)
(* No opener of a valid store is refused in the middle of another's         *)
(* migration, one preparation ref is one run across replays and crashes,    *)
(* and what is dispatched follows one version of the contract.              *)
(***************************************************************************)
RunsSafety == RunsTypeOK /\ OpenersAgree /\ RunIdentity /\ ContractIsOne

-------------------------------------------------------------------------------
(* Proofs.  RunsInv says what each step of a call relies on: whoever migrates *)
(* or inserts has the lock, so that the schema is still the one it found,     *)
(* and the graph and the absence of its ref are still what it checked; a      *)
(* preparation with an id has its own row; and an activation goes on only     *)
(* with a reading of the contract that it compared with its first one.        *)

Schema == {"FRESH", "V1", "V2", "V2_UNSTAMPED"}
Graph == Definitions \cup {Missing}
Nodes == UNION {d.nodes : d \in Definitions}
Request == [ref : Refs, node : Nodes]
PreparingAt ==
  {"open", "migrate", "job", "events", "nodes", "edges", "validate", "begin", "insert", "bindings"}
ActivatingAt == {"activate_nodes", "activate_edges", "terms", "require"}
Preparing ==
  [at : PreparingAt,
   intent : Intents, nodes : Graph, class : Schema, run : Nat]
Activating ==
  [at : ActivatingAt,
   request : Request, first : Versions, terms : Versions, nodes : Graph]
Call == {Idle} \cup Preparing \cup Activating

(* Rows are numbered as they are made, and each is of a definition that has  *)
(* the nodes it binds.                                                       *)
RowsInv ==
  /\ IsFiniteSet(runs)
  /\ \A r \in runs : /\ r.id \in Nat /\ r.id >= 1 /\ r.id <= Cardinality(runs)
                     /\ r.ref \in Refs /\ r.graph \in Definitions /\ Bindable(r.bind, r.graph)
  /\ \A r, s \in runs : r.ref = s.ref \/ r.id = s.id => r = s

(* Two readings of the contract that an activation takes for one *)
SameTerms(first, terms) ==
  /\ Terms[first].mode = Terms[terms].mode
  /\ Terms[terms].mode = "push" => Terms[first].workers = Terms[terms].workers

(* What a call relies on *)
Relies(c, call) ==
  /\ call.at \in {"migrate", "insert"} => lock = c
  /\ call.at = "migrate" => call.class = schema
  /\ call.at = "insert" => /\ graph # Missing /\ Bindable(call.intent.bind, graph)
                           /\ \A r \in runs : r.ref # call.intent.ref
  /\ call.at = "bindings" =>
       \E r \in runs : r.id = call.run /\ r.ref = call.intent.ref /\ r.bind = call.intent.bind
  /\ call.at \in ActivatingAt => SameTerms(call.first, call.terms)

StoreInv ==
  /\ schema \in Schema /\ graph \in Graph /\ file \in Versions
  /\ lock \in Callers \cup {Absent}
  /\ requests \subseteq Request
  /\ RowsInv /\ OpenersAgree /\ ContractIsOne

RunsInv ==
  /\ StoreInv
  /\ calls \in [Callers -> Call]
  /\ \A c \in Callers : Relies(c, calls[c])

-------------------------------------------------------------------------------
(* The shapes of a call *)

LEMMA ShapeOfCall ==
  ASSUME NEW call \in Call
  PROVE  /\ Idle.at = "idle" /\ Idle \in Call
         /\ call.at \in PreparingAt => call \in Preparing
         /\ call.at \in ActivatingAt => call \in Activating
         /\ call = Idle => call.at \notin PreparingAt \cup ActivatingAt
BY DEF Call, Idle, Preparing, Activating, PreparingAt, ActivatingAt

LEMMA PreparationMoves ==
  ASSUME NEW call \in Preparing, NEW at \in PreparingAt
  PROVE  LET new == [call EXCEPT !.at = at]
         IN  /\ new \in Preparing /\ new \in Call
             /\ new.at = at /\ new.intent = call.intent /\ new.run = call.run
             /\ new.class = call.class /\ new.nodes = call.nodes
BY DEF Preparing, Call

LEMMA ActivationMoves ==
  ASSUME NEW call \in Activating, NEW at \in ActivatingAt
  PROVE  LET new == [call EXCEPT !.at = at]
         IN  /\ new \in Activating /\ new \in Call
             /\ new.at = at /\ new.first = call.first /\ new.terms = call.terms
BY DEF Activating, Call

(* Whatever a step stores, the call of another caller can go on: its row is  *)
(* kept, and if it has the lock nothing it checked has changed.              *)
LEMMA OthersRely ==
  ASSUME RunsInv, NEW d \in Callers, calls'[d] = calls[d], runs \subseteq runs',
         lock = d => lock' = d /\ UNCHANGED <<schema, graph, runs>>
  PROVE  Relies(d, calls[d])'
<1> DEFINE call == calls[d]
<1>1. Relies(d, call)
  BY DEF RunsInv
<1>2. /\ call.at \in {"migrate", "insert"} => lock' = d
      /\ call.at = "migrate" => call.class = schema'
  BY <1>1 DEF Relies
<1>3. call.at = "insert" => /\ graph' # Missing /\ Bindable(call.intent.bind, graph)'
                            /\ \A r \in runs' : r.ref # call.intent.ref
  BY <1>1 DEF Relies, Bindable
<1>4. /\ call.at = "bindings" =>
           \E r \in runs' : r.id = call.run /\ r.ref = call.intent.ref /\ r.bind = call.intent.bind
      /\ call.at \in ActivatingAt => SameTerms(call.first, call.terms)
  BY <1>1 DEF Relies
<1> QED BY <1>2, <1>3, <1>4 DEF Relies, Bindable, SameTerms

(* A step of one caller *)
LEMMA CallerSteps ==
  ASSUME RunsInv, NEW c \in Callers, NEW new \in Call, StoreInv',
         calls' = [calls EXCEPT ![c] = new], runs \subseteq runs', Relies(c, new)',
         \A d \in Callers \ {c} : lock = d => lock' = d /\ UNCHANGED <<schema, graph, runs>>
  PROVE  RunsInv'
<1>1. calls' \in [Callers -> Call]
  BY DEF RunsInv
<1>2. ASSUME NEW d \in Callers PROVE Relies(d, calls[d])'
  <2>1. CASE d = c
    <3>1. calls'[d] = new
      BY <2>1 DEF RunsInv
    <3> QED BY <2>1, <3>1 DEF Relies, Bindable, SameTerms
  <2>2. CASE d # c
    BY <2>2, OthersRely DEF RunsInv
  <2> QED BY <2>1, <2>2
<1> QED BY <1>1, <1>2 DEF RunsInv

(* A step that only moves a call, and not to where it relies on anything *)
LEMMA CallMoves ==
  ASSUME RunsInv, NEW c \in Callers, NEW new \in Call,
         calls' = [calls EXCEPT ![c] = new],
         new.at \notin {"migrate", "insert", "bindings"} \cup ActivatingAt,
         UNCHANGED <<schema, graph, runs, file, requests, launched, refused>>,
         lock' \in {lock, Absent}, lock' # lock => lock = c
  PROVE  RunsInv'
<1>1. StoreInv'
  BY DEF RunsInv, StoreInv, RowsInv, Bindable, OpenersAgree, ContractIsOne
<1>2. Relies(c, new)'
  BY DEF Relies
<1> QED BY <1>1, <1>2, CallerSteps

(* A step that only moves an activation, whose readings agree *)
LEMMA ActivationGoes ==
  ASSUME RunsInv, NEW c \in Callers, NEW new \in Activating, Held(c),
         calls' = [calls EXCEPT ![c] = new], SameTerms(new.first, new.terms)
  PROVE  RunsInv'
<1>1. StoreInv'
  BY DEF RunsInv, StoreInv, RowsInv, Bindable, OpenersAgree, ContractIsOne, Held, world
<1>2. new \in Call /\ new.at \in ActivatingAt
  BY DEF Call, Activating
<1>3. Relies(c, new)'
  BY <1>2 DEF Relies, ActivatingAt, SameTerms
<1> QED BY <1>1, <1>2, <1>3, CallerSteps DEF Held

(* The end of a call, at which it may give up its lock *)
LEMMA CallEnds ==
  ASSUME RunsInv, NEW c \in Callers, Quit(c),
         UNCHANGED <<schema, graph, runs, file, requests, launched, refused>>,
         lock' \in {lock, Absent}, lock' # lock => lock = c
  PROVE  RunsInv'
<1>1. Idle \in Call /\ Idle.at = "idle"
  BY DEF Call, Idle
<1>2. Idle.at \notin {"migrate", "insert", "bindings"} \cup ActivatingAt
  BY <1>1 DEF ActivatingAt
<1> QED BY <1>1, <1>2, CallMoves DEF Quit

(* A preparation that goes on to a place where it relies on nothing, and an  *)
(* activation that goes on with the readings it has                          *)
LEMMA Checked ==
  ASSUME RunsInv, NEW c \in Callers, NEW ok, NEW at, Held(c), Check(c, ok, at),
         \/ calls[c].at \in PreparingAt /\ at \in PreparingAt \ {"migrate", "insert", "bindings"}
         \/ calls[c].at \in ActivatingAt /\ at \in ActivatingAt
  PROVE  RunsInv'
<1> PICK new : new = [calls[c] EXCEPT !.at = at]
  OBVIOUS
<1>1. calls[c] \in Call
  BY DEF RunsInv
<1>2. CASE ~ok
  BY <1>2, CallEnds DEF Check, Held, world
<1>3. CASE ok
  <2>1. calls' = [calls EXCEPT ![c] = new]
    BY <1>3 DEF Check, Goto, RunsInv
  <2>2. CASE calls[c].at \in PreparingAt /\ at \in PreparingAt \ {"migrate", "insert", "bindings"}
    <3>1. new \in Call /\ new.at = at
      BY <1>1, <2>2, ShapeOfCall, PreparationMoves
    <3>2. new.at \notin {"migrate", "insert", "bindings"} \cup ActivatingAt
      BY <2>2, <3>1 DEF PreparingAt, ActivatingAt
    <3> QED BY <2>1, <3>1, <3>2, CallMoves DEF Held, world
  <2>3. CASE calls[c].at \in ActivatingAt /\ at \in ActivatingAt
    <3>1. new \in Activating /\ new.first = calls[c].first /\ new.terms = calls[c].terms
      BY <1>1, <2>3, ShapeOfCall, ActivationMoves
    <3>2. SameTerms(calls[c].first, calls[c].terms)
      BY <2>3 DEF RunsInv, Relies
    <3> QED BY <2>1, <3>1, <3>2, ActivationGoes
  <2> QED BY <2>2, <2>3
<1> QED BY <1>2, <1>3

-------------------------------------------------------------------------------
(* The actions *)

LEMMA PrepareKeeps ==
  ASSUME RunsInv, NEW c \in Callers, NEW i \in Intents, Prepare(c, i)
  PROVE  RunsInv'
<1> PICK new : new = [at |-> "open", intent |-> i, nodes |-> Missing, class |-> schema, run |-> 0]
  OBVIOUS
<1>1. new \in Call /\ new.at = "open"
  BY DEF RunsInv, StoreInv, Call, Preparing, PreparingAt, Graph
<1>2. calls' = [calls EXCEPT ![c] = new]
  BY DEF Prepare
<1>3. new.at \notin {"migrate", "insert", "bindings"} \cup ActivatingAt
  BY <1>1 DEF ActivatingAt
<1> QED BY <1>1, <1>2, <1>3, CallMoves DEF Prepare, world

LEMMA ActivateKeeps ==
  ASSUME RunsInv, NEW c \in Callers, NEW request, Activate(c, request)
  PROVE  RunsInv'
<1> PICK at : at = IF Authority.mode = "pull" THEN "terms" ELSE "activate_nodes"
  OBVIOUS
<1> PICK new : new = [at |-> at, request |-> request, first |-> file, terms |-> file,
                      nodes |-> Missing]
  OBVIOUS
<1>1. at \in ActivatingAt
  BY DEF ActivatingAt
<1>2. new \in Activating /\ SameTerms(new.first, new.terms)
  BY <1>1 DEF RunsInv, StoreInv, Activating, Graph, Activate, SameTerms
<1>3. calls' = [calls EXCEPT ![c] = new]
  BY DEF Activate
<1> QED BY <1>2, <1>3, ActivationGoes DEF Activate

(* The class is read under the lock. *)
LEMMA ClassifyKeeps ==
  ASSUME RunsInv, NEW c \in Callers, Classify(c)
  PROVE  RunsInv'
<1> PICK new : new = [calls[c] EXCEPT !.at = "migrate", !.class = schema]
  OBVIOUS
<1>1. calls[c] \in Preparing
  BY ShapeOfCall DEF RunsInv, Classify, PreparingAt
<1>2. new \in Call /\ new.at = "migrate" /\ new.class = schema
  BY <1>1 DEF RunsInv, StoreInv, Call, Preparing, PreparingAt
<1>3. calls' = [calls EXCEPT ![c] = new]
  BY DEF Classify, RunsInv
<1>4. StoreInv'
  BY DEF RunsInv, StoreInv, RowsInv, Bindable, OpenersAgree, ContractIsOne, Classify, world
<1>5. Relies(c, new)'
  BY <1>2 DEF ActivatingAt, Relies, Classify
<1>6. \A d \in Callers \ {c} : lock # d
  BY GraphRunsConstants DEF GraphRunsAssumption, Absent, Classify
<1> QED BY <1>2, <1>3, <1>4, <1>5, <1>6, CallerSteps DEF Classify

(* The schema is still the class that was read: nobody is refused. *)
LEMMA MigrateKeeps ==
  ASSUME RunsInv, NEW c \in Callers, Migrate(c)
  PROVE  RunsInv'
<1> PICK new : new = [calls[c] EXCEPT !.at = "job"]
  OBVIOUS
<1>1. calls[c] \in Preparing
  BY ShapeOfCall DEF RunsInv, Migrate, PreparingAt
<1>2. new \in Call /\ new.at = "job"
  BY <1>1, PreparationMoves DEF PreparingAt
<1>3. lock = c /\ calls[c].class = schema
  BY DEF RunsInv, Relies, Migrate
<1>4. /\ calls[c].class \in {"V2", "V2_UNSTAMPED", schema}
      /\ schema' = "V2" /\ UNCHANGED refused
      /\ calls' = [calls EXCEPT ![c] = new]
  BY <1>3 DEF Migrate, Check, Goto, RunsInv
<1>5. StoreInv'
  BY <1>4 DEF RunsInv, StoreInv, RowsInv, Bindable, OpenersAgree, ContractIsOne, Migrate, world,
              Schema
<1>6. Relies(c, new)'
  BY <1>2 DEF ActivatingAt, Relies
<1> QED BY <1>2, <1>3, <1>4, <1>5, <1>6, CallerSteps DEF Migrate

LEMMA BusyKeeps ==
  ASSUME RunsInv, NEW c \in Callers, Busy(c)
  PROVE  RunsInv'
BY CallEnds DEF Busy, world

LEMMA CrashKeeps ==
  ASSUME RunsInv, NEW c \in Callers, Crash(c)
  PROVE  RunsInv'
BY CallEnds DEF Crash, world

LEMMA ReadsKeep ==
  ASSUME RunsInv, NEW c \in Callers,
         LoadJob(c) \/ ListEvents(c) \/ LoadEdges(c) \/ Validate(c) \/ ActivateEdges(c)
  PROVE  RunsInv'
<1>1. CASE LoadJob(c)
  BY <1>1, Checked DEF LoadJob, PreparingAt
<1>2. CASE ListEvents(c)
  BY <1>2, Checked DEF ListEvents, PreparingAt
<1>3. CASE LoadEdges(c)
  BY <1>3, Checked DEF LoadEdges, PreparingAt
<1>4. CASE Validate(c)
  BY <1>4, Checked DEF Validate, PreparingAt
<1>5. CASE ActivateEdges(c)
  <2> PICK usable : usable = (/\ Coherent(calls[c].nodes)
                              /\ calls[c].request.node \in calls[c].nodes.nodes \ calls[c].nodes.needs)
    OBVIOUS
  <2>1. calls[c].at \in ActivatingAt /\ "require" \in ActivatingAt /\ "terms" \in ActivatingAt /\ Held(c)
    BY <1>5 DEF ActivateEdges, ActivatingAt
  <2>2. \/ Check(c, usable, "require")
        \/ Check(c, usable /\ Assigned(Terms[calls[c].first].workers), "terms")
    BY <1>5 DEF ActivateEdges
  <2>3. CASE Check(c, usable, "require")
    BY <2>1, <2>3, Checked
  <2>4. CASE Check(c, usable /\ Assigned(Terms[calls[c].first].workers), "terms")
    BY <2>1, <2>4, Checked
  <2> QED BY <2>2, <2>3, <2>4
<1> QED BY <1>1, <1>2, <1>3, <1>4, <1>5

LEMMA LoadNodesKeeps ==
  ASSUME RunsInv, NEW c \in Callers, LoadNodes(c)
  PROVE  RunsInv'
<1> PICK new : new = [calls[c] EXCEPT !.at = "edges", !.nodes = graph]
  OBVIOUS
<1>1. calls[c] \in Preparing
  BY ShapeOfCall DEF RunsInv, LoadNodes, PreparingAt
<1>2. new \in Call /\ new.at = "edges"
  BY <1>1 DEF RunsInv, StoreInv, Call, Preparing, PreparingAt
<1>3. calls' = [calls EXCEPT ![c] = new]
  BY DEF LoadNodes, RunsInv
<1>4. new.at \notin {"migrate", "insert", "bindings"} \cup ActivatingAt
  BY <1>2 DEF ActivatingAt
<1> QED BY <1>2, <1>3, <1>4, CallMoves DEF LoadNodes, Held, world

LEMMA ActivateNodesKeeps ==
  ASSUME RunsInv, NEW c \in Callers, ActivateNodes(c)
  PROVE  RunsInv'
<1> PICK new : new = [calls[c] EXCEPT !.at = "activate_edges", !.nodes = graph]
  OBVIOUS
<1>1. calls[c] \in Activating
  BY ShapeOfCall DEF RunsInv, ActivateNodes, ActivatingAt
<1>2. new \in Activating /\ new.first = calls[c].first /\ new.terms = calls[c].terms
  BY <1>1 DEF RunsInv, StoreInv, Activating, ActivatingAt
<1>3. calls' = [calls EXCEPT ![c] = new]
  BY DEF ActivateNodes, RunsInv
<1>4. SameTerms(calls[c].first, calls[c].terms)
  BY DEF RunsInv, Relies, ActivateNodes, ActivatingAt
<1> QED BY <1>2, <1>3, <1>4, ActivationGoes DEF ActivateNodes

(* A preparation goes to the row of its ref and of its bindings, or takes    *)
(* the lock when there is none.                                              *)
LEMMA BeginKeeps ==
  ASSUME RunsInv, NEW c \in Callers, Begin(c)
  PROVE  RunsInv'
<1> DEFINE call == calls[c]
           intent == call.intent
           found == {r \in runs : r.ref = intent.ref}
           same == {r \in found : SamePreparation(r, intent)}
           ok == schema = "V2" /\ graph # Missing /\ Bindable(intent.bind, graph) /\ found = same
<1>1. call \in Preparing
  BY ShapeOfCall DEF RunsInv, Begin, PreparingAt
<1>2. CASE ~ok
  <2>1. Quit(c) /\ UNCHANGED lock
    BY <1>2 DEF Begin
  <2> QED BY <2>1, CallEnds DEF Begin, world
<1>3. CASE ok /\ found = {}
  <2> PICK new : new = [call EXCEPT !.at = "insert"]
    OBVIOUS
  <2>1. new \in Call /\ new.at = "insert" /\ new.intent = intent
    BY <1>1, PreparationMoves DEF PreparingAt
  <2>2. lock' = c /\ calls' = [calls EXCEPT ![c] = new]
    BY <1>3 DEF Begin, Goto, RunsInv
  <2>3. StoreInv'
    BY <2>2 DEF RunsInv, StoreInv, RowsInv, Bindable, OpenersAgree, ContractIsOne, Begin, world
  <2>4. \A r \in runs : r.ref # intent.ref
    BY <1>3
  <2>5. Relies(c, new)'
    BY <1>3, <2>1, <2>2, <2>4 DEF ActivatingAt, Relies, Begin, Bindable
  <2>6. \A d \in Callers \ {c} : lock # d
    BY GraphRunsConstants DEF GraphRunsAssumption, Absent, Begin
  <2> QED BY <2>1, <2>2, <2>3, <2>5, <2>6, CallerSteps DEF Begin
<1>4. CASE ok /\ found # {}
  <2>1. PICK row : row = CHOOSE r \in found : TRUE
    OBVIOUS
  <2>2. row \in found
    BY <1>4, <2>1
  <2>3. row \in runs /\ row.ref = intent.ref /\ row.bind = intent.bind
    BY <1>4, <2>2 DEF SamePreparation
  <2>4. row.id \in Nat
    BY <2>3 DEF RunsInv, StoreInv, RowsInv
  <2> PICK new : new = [call EXCEPT !.at = "bindings", !.run = row.id]
    OBVIOUS
  <2>5. new \in Call /\ new.at = "bindings" /\ new.intent = intent /\ new.run = row.id
    BY <1>1, <2>4 DEF Call, Preparing, PreparingAt
  <2>6. UNCHANGED lock /\ calls' = [calls EXCEPT ![c] = new]
    BY <1>4, <2>1 DEF Begin, RunsInv
  <2>7. StoreInv'
    BY <2>6 DEF RunsInv, StoreInv, RowsInv, Bindable, OpenersAgree, ContractIsOne, Begin, world
  <2>8. Relies(c, new)'
    BY <2>3, <2>5 DEF ActivatingAt, Relies, Begin
  <2> QED BY <2>5, <2>6, <2>7, <2>8, CallerSteps DEF Begin
<1> QED BY <1>2, <1>3, <1>4

(* The new row is the only one of its ref, and its number is new. *)
LEMMA InsertKeeps ==
  ASSUME RunsInv, NEW c \in Callers, Insert(c)
  PROVE  RunsInv'
<1> DEFINE call == calls[c]
<1> PICK n : n = Cardinality(runs)
  OBVIOUS
<1> PICK row : row = Row(n + 1, call.intent)
  OBVIOUS
<1> PICK new : new = [call EXCEPT !.at = "bindings", !.run = n + 1]
  OBVIOUS
<1>1. call \in Preparing
  BY ShapeOfCall DEF RunsInv, Insert, PreparingAt
<1>2. /\ lock = c /\ graph # Missing /\ Bindable(call.intent.bind, graph)
      /\ \A r \in runs : r.ref # call.intent.ref
  BY DEF RunsInv, Relies, Insert
<1>3. /\ row.id = n + 1 /\ row.ref = call.intent.ref /\ row.graph = graph
      /\ row.bind = call.intent.bind
  BY DEF Row
<1>4. runs' = runs \cup {row} /\ calls' = [calls EXCEPT ![c] = new] /\ lock' = Absent
  BY DEF Insert, RunsInv
<1>5. IsFiniteSet(runs) /\ n \in Nat
  BY FS_CardinalityType DEF RunsInv, StoreInv, RowsInv
<1>6. row \notin runs
  BY <1>2, <1>3
<1>7. IsFiniteSet(runs') /\ Cardinality(runs') = n + 1
  BY <1>4, <1>5, <1>6, FS_AddElement
<1>8. call.intent \in Intents /\ call.intent.ref \in Refs /\ graph \in Definitions
  BY <1>1, <1>2 DEF Preparing, Refs, RunsInv, StoreInv, Graph
<1>9. new \in Call /\ new.at = "bindings" /\ new.intent = call.intent /\ new.run = n + 1
  <2> PICK id : id = n + 1
    OBVIOUS
  <2>1. id \in Nat
    BY <1>5
  <2>2. new = [call EXCEPT !.at = "bindings", !.run = id]
    OBVIOUS
  <2>3. new \in Preparing /\ new.at = "bindings" /\ new.intent = call.intent /\ new.run = id
    BY <1>1, <2>1, <2>2 DEF Preparing, PreparingAt
  <2> QED BY <2>3 DEF Call
<1>10. \A r \in runs : r.id \in Nat /\ r.id >= 1 /\ r.id <= n /\ r.ref # row.ref
  BY <1>2, <1>3 DEF RunsInv, StoreInv, RowsInv
<1>11. RowsInv'
  <2>1. \A r \in runs' : /\ r.id \in Nat /\ r.id >= 1 /\ r.id <= Cardinality(runs')
                         /\ r.ref \in Refs /\ r.graph \in Definitions /\ Bindable(r.bind, r.graph)
    <3>1. \A r \in runs : r.ref \in Refs /\ r.graph \in Definitions /\ Bindable(r.bind, r.graph)
      BY DEF RunsInv, StoreInv, RowsInv
    <3> QED BY <1>2, <1>3, <1>4, <1>5, <1>7, <1>8, <1>10, <3>1
  <2>2. \A r, s \in runs' : r.ref = s.ref \/ r.id = s.id => r = s
    <3>1. \A r, s \in runs : r.ref = s.ref \/ r.id = s.id => r = s
      BY DEF RunsInv, StoreInv, RowsInv
    <3>2. \A r \in runs : r.id # row.id /\ r.ref # row.ref
      BY <1>3, <1>5, <1>10
    <3> QED BY <1>4, <3>1, <3>2
  <2> QED BY <1>7, <2>1, <2>2 DEF RowsInv, Bindable
<1>12. StoreInv'
  BY <1>4, <1>11 DEF RunsInv, StoreInv, OpenersAgree, ContractIsOne, Insert, world
<1>13. Relies(c, new)'
  BY <1>3, <1>4, <1>9 DEF ActivatingAt, Relies
<1> QED BY <1>2, <1>4, <1>9, <1>12, <1>13, CallerSteps

(* The requests are of a stored row: of its ref and of nodes it binds. *)
LEMMA ReconstructKeeps ==
  ASSUME RunsInv, NEW c \in Callers, Reconstruct(c)
  PROVE  RunsInv'
<1> PICK run : run = RunOf(calls[c].run)
  OBVIOUS
<1>1. \E r \in runs : r.id = calls[c].run
  BY DEF RunsInv, Relies, Reconstruct
<1>2. run \in runs
  BY <1>1 DEF RunOf
<1>3. run.ref \in Refs /\ run.graph \in Definitions /\ Bindable(run.bind, run.graph)
  BY <1>2 DEF RunsInv, StoreInv, RowsInv
<1>4. {[ref |-> run.ref, node |-> n] : n \in DOMAIN run.bind} \subseteq Request
  BY <1>3 DEF Request, Nodes, Bindable
<1>5. requests' \subseteq Request
  BY <1>4 DEF RunsInv, StoreInv, Reconstruct
<1>6. StoreInv'
  BY <1>5 DEF RunsInv, StoreInv, RowsInv, Bindable, OpenersAgree, ContractIsOne, Reconstruct, world
<1>7. calls' = [calls EXCEPT ![c] = Idle] /\ Idle \in Call /\ Idle.at = "idle"
  BY ShapeOfCall DEF RunsInv, Reconstruct, Quit
<1>8. Relies(c, Idle)'
  BY <1>7 DEF ActivatingAt, Relies, Idle
<1> QED BY <1>6, <1>7, <1>8, CallerSteps DEF Reconstruct

(* The second reading of the contract is accepted when it agrees with the    *)
(* first one.                                                                *)
LEMMA ReadTermsKeeps ==
  ASSUME RunsInv, NEW c \in Callers, ReadTerms(c)
  PROVE  RunsInv'
<1> PICK call : call = calls[c]
  OBVIOUS
<1> PICK at : at = IF Authority.mode = "pull" THEN "activate_nodes" ELSE "require"
  OBVIOUS
<1> PICK new : new = [call EXCEPT !.at = at, !.terms = file]
  OBVIOUS
<1>1. call \in Activating /\ at \in ActivatingAt
  BY ShapeOfCall DEF RunsInv, ReadTerms, ActivatingAt
<1>2. new \in Activating /\ new.first = call.first /\ new.terms = file
  BY <1>1 DEF RunsInv, StoreInv, Activating
<1>3. CASE calls' = [calls EXCEPT ![c] = Idle]
  BY <1>3, CallEnds DEF ReadTerms, Held, world, Quit
<1>4. CASE calls' # [calls EXCEPT ![c] = Idle]
  <2>1. calls' = [calls EXCEPT ![c] = new] /\ SameTerms(call.first, file)
    BY <1>4 DEF ReadTerms, Authority, SameTerms
  <2> QED BY <1>2, <2>1, ActivationGoes DEF ReadTerms
<1> QED BY <1>3, <1>4

(* What is launched was compared, and its digest is that of the reading it   *)
(* was compared with.                                                        *)
LEMMA RequireKeeps ==
  ASSUME RunsInv, NEW c \in Callers, Require(c)
  PROVE  RunsInv'
<1> PICK call : call = calls[c]
  OBVIOUS
<1>1. SameTerms(call.first, call.terms)
  BY DEF RunsInv, Relies, Require, ActivatingAt
<1>2. ContractIsOne'
  <2>1. CASE UNCHANGED launched
    BY <2>1 DEF RunsInv, StoreInv, ContractIsOne
  <2>2. CASE launched' # launched
    <3> PICK new : new = [ref |-> call.request.ref, node |-> call.request.node,
                          first |-> call.first, terms |-> call.terms, digest |-> call.terms]
      OBVIOUS
    <3>1. launched' = launched \cup {new}
      BY <2>2 DEF Require, Launch
    <3>2. new.digest = new.terms /\ new.first = call.first /\ new.terms = call.terms
      OBVIOUS
    <3> QED BY <1>1, <3>1, <3>2 DEF RunsInv, StoreInv, ContractIsOne, SameTerms
  <2> QED BY <2>1, <2>2
<1>3. StoreInv'
  BY <1>2 DEF RunsInv, StoreInv, RowsInv, Bindable, OpenersAgree, Require, world
<1>4. calls' = [calls EXCEPT ![c] = Idle] /\ Idle \in Call /\ Idle.at = "idle"
  BY ShapeOfCall DEF RunsInv, Require, Quit
<1>5. Relies(c, Idle)'
  BY <1>4 DEF ActivatingAt, Relies, Idle
<1> QED BY <1>3, <1>4, <1>5, CallerSteps DEF Require

(* What the environment changes: the graph only while nobody has the lock.   *)
LEMMA EnvironmentKeeps ==
  ASSUME RunsInv, UNCHANGED <<schema, runs, lock, calls, requests, launched, refused>>,
         graph' \in Graph, file' \in Versions, lock # Absent => UNCHANGED graph
  PROVE  RunsInv'
<1>1. StoreInv'
  BY DEF RunsInv, StoreInv, RowsInv, Bindable, OpenersAgree, ContractIsOne
<1>2. ASSUME NEW d \in Callers PROVE Relies(d, calls[d])'
  <2>1. lock = d => lock # Absent
    BY GraphRunsConstants DEF GraphRunsAssumption, Absent
  <2> QED BY <2>1, OthersRely
<1> QED BY <1>1, <1>2 DEF RunsInv

-------------------------------------------------------------------------------
LEMMA RunsInitFine == RunsInit => RunsInv
<1> SUFFICES ASSUME RunsInit PROVE RunsInv
  OBVIOUS
<1>1. RowsInv /\ OpenersAgree /\ ContractIsOne
  BY FS_EmptySet DEF RunsInit, RowsInv, OpenersAgree, ContractIsOne
<1>2. schema \in Schema /\ graph \in Graph
  BY GraphRunsConstants DEF RunsInit, GraphRunsAssumption, Schema, Graph
<1>3. StoreInv
  BY <1>1, <1>2 DEF RunsInit, StoreInv
<1>4. Idle \in Call /\ Idle.at = "idle"
  BY DEF Call, Idle
<1>5. \A c \in Callers : Relies(c, calls[c])
  BY <1>4 DEF RunsInit, Relies, ActivatingAt
<1> QED BY <1>3, <1>4, <1>5 DEF RunsInv, RunsInit

LEMMA CallStepKeeps ==
  ASSUME RunsInv, NEW c \in Callers, CallStep(c)
  PROVE  RunsInv'
BY ClassifyKeeps, MigrateKeeps, ReadsKeep, LoadNodesKeeps, BeginKeeps, InsertKeeps,
   ReconstructKeeps, ActivateNodesKeeps, ReadTermsKeeps, RequireKeeps DEF CallStep

LEMMA RunsInvKept == RunsInv /\ [RunsNext]_graphRunVars => RunsInv'
<1> SUFFICES ASSUME RunsInv, [RunsNext]_graphRunVars PROVE RunsInv'
  OBVIOUS
<1>1. CASE UNCHANGED graphRunVars
  BY <1>1, EnvironmentKeeps DEF graphRunVars, RunsInv, StoreInv
<1>2. ASSUME NEW c \in Callers, NEW i \in Intents, Prepare(c, i) PROVE RunsInv'
  BY <1>2, PrepareKeeps
<1>3. ASSUME NEW c \in Callers, NEW r \in requests, Activate(c, r) PROVE RunsInv'
  BY <1>3, ActivateKeeps
<1>4. ASSUME NEW c \in Callers, CallStep(c) \/ Busy(c) \/ Crash(c) PROVE RunsInv'
  BY <1>4, CallStepKeeps, BusyKeeps, CrashKeeps
<1>5. ASSUME NEW d \in Definitions, SaveGraph(d) PROVE RunsInv'
  BY <1>5, EnvironmentKeeps DEF SaveGraph, RunsInv, StoreInv, Graph
<1>6. CASE DeleteGraph
  BY <1>6, EnvironmentKeeps DEF DeleteGraph, RunsInv, StoreInv, Graph
<1>7. ASSUME NEW v \in Versions, EditFile(v) PROVE RunsInv'
  BY <1>7, EnvironmentKeeps DEF EditFile, RunsInv, StoreInv
<1>8. CASE RouteChanges
  BY <1>8, EnvironmentKeeps DEF RouteChanges, RunsInv, StoreInv
<1>9. ASSUME NEW j, JobMoves(j) PROVE RunsInv'
  BY <1>9, EnvironmentKeeps DEF JobMoves, RunsInv, StoreInv
<1> QED BY <1>1, <1>2, <1>3, <1>4, <1>5, <1>6, <1>7, <1>8, <1>9 DEF RunsNext

LEMMA RunsInvSafe == RunsInv => RunsSafety
BY DEF RunsInv, StoreInv, RowsInv, Relies, RunsSafety, RunsTypeOK, RunIdentity, Schema, Graph,
       Request, Nodes

(***************************************************************************)
(* For any number of processes, definitions, intents and versions of the    *)
(* contract, with processes that die anywhere and an environment that       *)
(* changes everything they read: two openers never refuse each other, one   *)
(* preparation ref is one run, and a dispatch follows one version of the    *)
(* contract (GraphStore.__init__, prepare_run, activate_production_runtime).*)
(***************************************************************************)
THEOREM GraphRunsAreSafe == RunsSpec => []RunsSafety
BY RunsInitFine, RunsInvKept, RunsInvSafe, PTL DEF RunsSpec

===============================================================================
