---------------------------- MODULE WorkerRegistry ----------------------------
(***************************************************************************)
(* The control center's registry of projects, workers and assignments        *)
(* (registry.py), kept in memory by a ControlCenterService (control_center.py)*)
(* and written as a whole to SQLite after every operation (persistence.py).  *)
(* A save that fails is followed by a reload of what is durable.             *)
(***************************************************************************)
EXTENDS Naturals, FiniteSets, TLAPS, WellFoundedInduction

CONSTANTS
  Centers,   \* services, one per process that has the database open
  Projects,  \* project roots; one project is one worktree key
  MaxWorker, \* the largest worker number
  Defaults,  \* workers of a fresh registry (with_default_workers has three)
  Trouble    \* "save": saves fail; "reload": the reload after it fails, too; "restart"

RegistryAssumption ==
  /\ MaxWorker \in Nat /\ Defaults \in 1..MaxWorker
  /\ Trouble \subseteq {"save", "reload", "restart"}

ASSUME RegistryConstants == RegistryAssumption

VARIABLES
  disk,    \* the stored registry
  memory   \* the registry of each service; Closed before it opens

registryVars == <<disk, memory>>

WorkerStates == {"STOPPED", "STARTING", "READY", "STOPPING", "ERROR"}
Unassigned == [project |-> "none", mutation |-> FALSE]
Closed == [projects |-> {"closed"}, workers |-> <<>>]
Worker(state, assigned) == [state |-> state, assigned |-> assigned]
Empty == [projects |-> {}, workers |-> [w \in {} |-> Worker("STOPPED", Unassigned)]]

RegistryInit ==
  /\ disk = Empty
  /\ memory = [c \in Centers |-> Closed]

Known(c) == DOMAIN memory[c].workers
WithWorker(reg, w, row) == [reg EXCEPT !.workers = [v \in DOMAIN @ \cup {w} |-> IF v = w THEN row ELSE @[v]]]

(* Mutant: a failed save leaves the operation in the memory. *)
SaveKeeps(c, new) ==
  \/ /\ disk' = new
     /\ memory' = [memory EXCEPT ![c] = new]
  \/ /\ "save" \in Trouble
     /\ memory' = [memory EXCEPT ![c] = new]
     /\ UNCHANGED disk

(* _restore_durable_after_failure: back to the stored registry, if it can be *)
(* read.                                                                     *)
RestoreDurable(c, new) ==
  /\ \/ "save" \in Trouble /\ memory' = [memory EXCEPT ![c] = disk]
     \/ "reload" \in Trouble /\ memory' = [memory EXCEPT ![c] = new]
  /\ UNCHANGED disk

(* _save: the whole snapshot replaces what is stored, or that fails. *)
Save(c, new) ==
  \/ disk' = new /\ memory' = [memory EXCEPT ![c] = new]
  \/ RestoreDurable(c, new)

(* open: a registry without workers gets the default ones.  The start fails  *)
(* when they cannot be saved, or when projects are stored without workers.   *)
Open(c) ==
  /\ memory[c] = Closed
  /\ IF DOMAIN disk.workers # {}
     THEN memory' = [memory EXCEPT ![c] = disk] /\ UNCHANGED disk
     ELSE LET new == [disk EXCEPT !.workers = [w \in 1..Defaults |-> Worker("STOPPED", Unassigned)]]
          IN  /\ disk.projects = {}
              /\ disk' = new
              /\ memory' = [memory EXCEPT ![c] = new]

Restart(c) ==
  /\ "restart" \in Trouble /\ memory[c] # Closed
  /\ memory' = [memory EXCEPT ![c] = Closed]
  /\ UNCHANGED disk

(* A known root is answered with its project. *)
RegisterProject(c, p) ==
  /\ memory[c] # Closed /\ p \notin memory[c].projects
  /\ Save(c, [memory[c] EXCEPT !.projects = @ \cup {p}])

(* "mutating worktree already assigned to another worker" *)
Taken(c, w, p) ==
  \E v \in Known(c) \ {w} : memory[c].workers[v].assigned = [project |-> p, mutation |-> TRUE]

MayAssign(c, w, p, mutation) ==
  w \in Known(c) /\ p \in memory[c].projects /\ (mutation => ~Taken(c, w, p))
AssignTo(c, w, p, mutation) ==
  Save(c, [memory[c] EXCEPT !.workers[w].assigned = [project |-> p, mutation |-> mutation]])

Assign(c, w, p, mutation) ==
  /\ MayAssign(c, w, p, mutation) /\ memory[c].workers[w].assigned = Unassigned
  /\ AssignTo(c, w, p, mutation)

(* replace_assignment, of a stopped worker *)
ReplaceAssignment(c, w, p, mutation) ==
  /\ MayAssign(c, w, p, mutation) /\ memory[c].workers[w].state = "STOPPED"
  /\ AssignTo(c, w, p, mutation)

(* set_worker_state takes any state. *)
SetWorkerState(c, w, state) ==
  /\ w \in Known(c)
  /\ Save(c, [memory[c] EXCEPT !.workers[w].state = state])

(* release_worker; WORKER_BUSY unless it is stopped *)
ReleaseWorker(c, w) ==
  /\ w \in Known(c) /\ memory[c].workers[w].state = "STOPPED"
  /\ Save(c, [memory[c] EXCEPT !.workers[w].assigned = Unassigned])

(* The number after the largest one that is known *)
AddWorker(c) ==
  LET number == 1 + (CHOOSE n \in Known(c) \cup {0} : \A m \in Known(c) : m <= n)
  IN  /\ memory[c] # Closed /\ number <= MaxWorker
      /\ Save(c, WithWorker(memory[c], number, Worker("STOPPED", Unassigned)))

DeleteWorker(c, w) ==
  /\ w \in Known(c) /\ memory[c].workers[w] = Worker("STOPPED", Unassigned)
  /\ Save(c, [memory[c] EXCEPT !.workers = [v \in DOMAIN @ \ {w} |-> @[v]]])

RegistryNext ==
  \E c \in Centers :
    \/ Open(c) \/ Restart(c) \/ AddWorker(c)
    \/ \E p \in Projects : RegisterProject(c, p)
    \/ \E w \in Known(c) :
         \/ ReleaseWorker(c, w) \/ DeleteWorker(c, w)
         \/ \E s \in WorkerStates : SetWorkerState(c, w, s)
         \/ \E p \in Projects, mutation \in BOOLEAN :
              Assign(c, w, p, mutation) \/ ReplaceAssignment(c, w, p, mutation)

RegistrySpec == RegistryInit /\ [][RegistryNext]_registryVars

-------------------------------------------------------------------------------
(* Properties *)

RegistryOK(reg) ==
  /\ reg.projects \subseteq Projects
  /\ DOMAIN reg.workers \subseteq 1..MaxWorker
  /\ \A w \in DOMAIN reg.workers :
       LET row == reg.workers[w]
       IN  row.state \in WorkerStates /\ (row.assigned # Unassigned => row.assigned.project \in reg.projects)

RegistryTypeOK ==
  RegistryOK(disk) /\ \A c \in Centers : memory[c] = Closed \/ RegistryOK(memory[c])

(* At most one worker has a project for mutation, in the store and in every  *)
(* service's memory, across assignments, replacements, releases, failed      *)
(* saves and restarts (AssignmentConflictError).                             *)
OneMutator ==
  \A reg \in {disk} \cup {memory[c] : c \in Centers} :
    \A v, w \in DOMAIN reg.workers :
      v # w /\ reg.workers[v].assigned.mutation /\ reg.workers[w].assigned.mutation
      => reg.workers[v].assigned # reg.workers[w].assigned

(* One service has the store, and its reload after a failed save works. *)
OneService == (\A c, d \in Centers : c = d) /\ "reload" \notin Trouble

(* The memory of the only service is what is stored: an operation that was   *)
(* answered with PERSISTENCE_FAILED leaves no trace that the next one's save *)
(* of the whole registry would make durable.                                 *)
FailedLeavesNoTrace == \A c \in Centers : memory[c] # Closed => memory[c] = disk

(* No worker that is starting, ready or stopping loses or changes its        *)
(* project (WORKER_BUSY).                                                    *)
BusyKeepsProject ==
  \A w \in DOMAIN disk.workers \cap DOMAIN disk'.workers :
    disk.workers[w].state # "STOPPED" /\ disk.workers[w].assigned # Unassigned
    => disk'.workers[w].assigned = disk.workers[w].assigned

(***************************************************************************)
(* At most one worker has a project for mutation, in the store and in every *)
(* service's memory; and a refused operation of the only service leaves no  *)
(* trace that the next save of the whole registry would make durable        *)
(* (assign_worker, replace_assignment, _save).                              *)
(***************************************************************************)
RegistrySafety ==
  RegistryTypeOK /\ OneMutator /\ (OneService => FailedLeavesNoTrace)

-------------------------------------------------------------------------------
(***************************************************************************)
(* Proofs.  A save replaces everything at once, so that an operation either *)
(* turns a good registry into a good one, or leaves the one that is stored. *)
(***************************************************************************)

Rows == [state: WorkerStates, assigned: [project: Projects \cup {"none"}, mutation: BOOLEAN]]

WellFormed(reg) ==
  /\ reg = [projects |-> reg.projects, workers |-> reg.workers]
  /\ reg.projects \subseteq Projects
  /\ reg.workers = [w \in DOMAIN reg.workers |-> reg.workers[w]]
  /\ DOMAIN reg.workers \subseteq 1..MaxWorker
  /\ \A w \in DOMAIN reg.workers : reg.workers[w] \in Rows

AssignedKnown(reg) ==
  \A w \in DOMAIN reg.workers :
    reg.workers[w].assigned # Unassigned => reg.workers[w].assigned.project \in reg.projects

(* No two workers have one project for mutation. *)
Mutators(reg) ==
  \A v, w \in DOMAIN reg.workers :
    v # w /\ reg.workers[v].assigned.mutation /\ reg.workers[w].assigned.mutation
    => reg.workers[v].assigned # reg.workers[w].assigned

Good(reg) == WellFormed(reg) /\ AssignedKnown(reg) /\ Mutators(reg)

(* The inductive invariant *)
RegistryInv ==
  /\ Good(disk)
  /\ memory = [c \in Centers |-> memory[c]]
  /\ \A c \in Centers : memory[c] = Closed \/ Good(memory[c])
  /\ OneService => FailedLeavesNoTrace

LEMMA UnassignedType ==
  /\ Unassigned \in [project: Projects \cup {"none"}, mutation: BOOLEAN]
  /\ ~Unassigned.mutation
BY DEF Unassigned

LEMMA ClosedIsEmpty == DOMAIN Closed.workers = {}
BY DEF Closed

(* The one save after an operation: what is new is good, or was stored. *)
LEMMA SaveIsGood ==
  ASSUME RegistryInv, NEW c \in Centers, NEW new, Good(new), Save(c, new)
  PROVE  RegistryInv'
<1>1. CASE disk' = new /\ memory' = [memory EXCEPT ![c] = new]
  BY <1>1 DEF RegistryInv, FailedLeavesNoTrace, OneService
<1>2. CASE memory' = [memory EXCEPT ![c] = disk] /\ UNCHANGED disk
  BY <1>2 DEF RegistryInv, FailedLeavesNoTrace, OneService
<1>3. CASE "reload" \in Trouble /\ memory' = [memory EXCEPT ![c] = new] /\ UNCHANGED disk
  BY <1>3 DEF RegistryInv, FailedLeavesNoTrace, OneService
<1> QED BY <1>1, <1>2, <1>3 DEF Save, RestoreDurable

(* An assignment that names a registered project and, for mutation, no      *)
(* project that another worker has for mutation                             *)
LEMMA AssignmentIsGood ==
  ASSUME NEW reg, Good(reg), NEW w \in DOMAIN reg.workers,
         NEW a \in [project: Projects \cup {"none"}, mutation: BOOLEAN],
         a = Unassigned \/ a.project \in reg.projects,
         a.mutation => \A v \in DOMAIN reg.workers \ {w} : reg.workers[v].assigned # a
  PROVE  Good([reg EXCEPT !.workers[w].assigned = a])
<1> PICK row : row = [reg.workers[w] EXCEPT !.assigned = a] OBVIOUS
<1> PICK map : map = [reg.workers EXCEPT ![w] = row] OBVIOUS
<1> PICK new : new = [reg EXCEPT !.workers[w].assigned = a] OBVIOUS
<1>1. new = [projects |-> reg.projects, workers |-> map]
  BY DEF Good, WellFormed
<1>2. row \in Rows /\ row.assigned = a
  BY DEF Good, WellFormed, Rows
<1>3. /\ DOMAIN map = DOMAIN reg.workers
      /\ map = [v \in DOMAIN map |-> map[v]]
      /\ map[w] = row
      /\ \A v \in DOMAIN map \ {w} : map[v] = reg.workers[v]
  BY DEF Good, WellFormed
<1>4. WellFormed(new)
  BY <1>1, <1>2, <1>3 DEF Good, WellFormed
<1>5. AssignedKnown(new)
  BY <1>1, <1>2, <1>3 DEF Good, AssignedKnown
<1>6. Mutators(new)
  BY <1>1, <1>2, <1>3 DEF Good, Mutators
<1> QED BY <1>4, <1>5, <1>6 DEF Good

LEMMA StateIsGood ==
  ASSUME NEW reg, Good(reg), NEW w \in DOMAIN reg.workers, NEW state \in WorkerStates
  PROVE  Good([reg EXCEPT !.workers[w].state = state])
<1> PICK row : row = [reg.workers[w] EXCEPT !.state = state] OBVIOUS
<1> PICK map : map = [reg.workers EXCEPT ![w] = row] OBVIOUS
<1> PICK new : new = [reg EXCEPT !.workers[w].state = state] OBVIOUS
<1>1. new = [projects |-> reg.projects, workers |-> map]
  BY DEF Good, WellFormed
<1>2. row \in Rows /\ row.assigned = reg.workers[w].assigned
  BY DEF Good, WellFormed, Rows
<1>3. /\ DOMAIN map = DOMAIN reg.workers
      /\ map = [v \in DOMAIN map |-> map[v]]
      /\ map[w] = row
      /\ \A v \in DOMAIN map \ {w} : map[v] = reg.workers[v]
  BY DEF Good, WellFormed
<1>4. \A v \in DOMAIN map : map[v].assigned = reg.workers[v].assigned
  BY <1>2, <1>3
<1> QED BY <1>1, <1>2, <1>3, <1>4 DEF Good, WellFormed, AssignedKnown, Mutators

(* A worker number that is new, or known already, gets an unassigned row. *)
LEMMA AddedIsGood ==
  ASSUME NEW reg, Good(reg), NEW w \in 1..MaxWorker
  PROVE  Good(WithWorker(reg, w, Worker("STOPPED", Unassigned)))
<1> PICK row : row = Worker("STOPPED", Unassigned) OBVIOUS
<1> PICK map : map = [v \in DOMAIN reg.workers \cup {w} |-> IF v = w THEN row ELSE reg.workers[v]] OBVIOUS
<1> PICK new : new = WithWorker(reg, w, row) OBVIOUS
<1>1. new = [projects |-> reg.projects, workers |-> map]
  BY DEF Good, WellFormed, WithWorker
<1>2. row \in Rows /\ row.assigned = Unassigned /\ ~row.assigned.mutation
  BY UnassignedType DEF Worker, Rows, WorkerStates
<1>3. /\ DOMAIN map = DOMAIN reg.workers \cup {w}
      /\ map = [v \in DOMAIN map |-> map[v]]
      /\ map[w] = row
      /\ \A v \in DOMAIN map \ {w} : v \in DOMAIN reg.workers /\ map[v] = reg.workers[v]
  OBVIOUS
<1>4. WellFormed(new)
  BY <1>1, <1>2, <1>3 DEF Good, WellFormed
<1>5. AssignedKnown(new)
  BY <1>1, <1>2, <1>3 DEF Good, AssignedKnown
<1>6. Mutators(new)
  BY <1>1, <1>2, <1>3 DEF Good, Mutators
<1> QED BY <1>4, <1>5, <1>6 DEF Good

LEMMA DeletedIsGood ==
  ASSUME NEW reg, Good(reg), NEW w \in DOMAIN reg.workers
  PROVE  Good([reg EXCEPT !.workers = [v \in DOMAIN @ \ {w} |-> @[v]]])
<1> PICK map : map = [v \in DOMAIN reg.workers \ {w} |-> reg.workers[v]] OBVIOUS
<1> PICK new : new = [reg EXCEPT !.workers = [v \in DOMAIN @ \ {w} |-> @[v]]] OBVIOUS
<1>1. new = [projects |-> reg.projects, workers |-> map]
  BY DEF Good, WellFormed
<1>2. /\ DOMAIN map = DOMAIN reg.workers \ {w}
      /\ map = [v \in DOMAIN map |-> map[v]]
      /\ \A v \in DOMAIN map : map[v] = reg.workers[v]
  OBVIOUS
<1> QED BY <1>1, <1>2 DEF Good, WellFormed, AssignedKnown, Mutators

LEMMA RegisteredIsGood ==
  ASSUME NEW reg, Good(reg), NEW p \in Projects
  PROVE  Good([reg EXCEPT !.projects = @ \cup {p}])
<1> PICK new : new = [reg EXCEPT !.projects = @ \cup {p}] OBVIOUS
<1>1. new = [projects |-> reg.projects \cup {p}, workers |-> reg.workers]
  BY DEF Good, WellFormed
<1> QED BY <1>1 DEF Good, WellFormed, AssignedKnown, Mutators

LEMMA FreshIsGood ==
  ASSUME NEW reg, Good(reg)
  PROVE  Good([reg EXCEPT !.workers = [w \in 1..Defaults |-> Worker("STOPPED", Unassigned)]])
<1> PICK row : row = Worker("STOPPED", Unassigned) OBVIOUS
<1> PICK map : map = [w \in 1..Defaults |-> row] OBVIOUS
<1> PICK new : new = [reg EXCEPT !.workers = [w \in 1..Defaults |-> Worker("STOPPED", Unassigned)]] OBVIOUS
<1>1. new = [projects |-> reg.projects, workers |-> map]
  BY DEF Good, WellFormed
<1>2. row \in Rows /\ row.assigned = Unassigned /\ ~row.assigned.mutation
  BY UnassignedType DEF Worker, Rows, WorkerStates
<1>3. DOMAIN map \subseteq 1..MaxWorker
  BY RegistryConstants DEF RegistryAssumption
<1> QED BY <1>1, <1>2, <1>3 DEF Good, WellFormed, AssignedKnown, Mutators

LEMMA RegistryInitGood == RegistryInit => RegistryInv
<1> SUFFICES ASSUME RegistryInit PROVE RegistryInv OBVIOUS
<1> PICK map : map = [w \in {} |-> Worker("STOPPED", Unassigned)] OBVIOUS
<1>1. disk = [projects |-> {}, workers |-> map]
  BY DEF RegistryInit, Empty
<1>2. Good(disk)
  BY <1>1 DEF Good, WellFormed, AssignedKnown, Mutators
<1> QED BY <1>2 DEF RegistryInit, RegistryInv, FailedLeavesNoTrace

(* Something is known only to a service that is open. *)
LEMMA KnownIsOpen ==
  ASSUME RegistryInv, NEW c \in Centers, memory[c] # Closed \/ Known(c) # {}
  PROVE  Good(memory[c]) /\ memory[c] # Closed
BY ClosedIsEmpty DEF RegistryInv, Known

LEMMA OpenKeeps ==
  ASSUME RegistryInv, NEW c \in Centers, Open(c)
  PROVE  RegistryInv'
<1>1. CASE DOMAIN disk.workers # {}
  BY <1>1 DEF Open, RegistryInv, FailedLeavesNoTrace, OneService
<1>2. CASE DOMAIN disk.workers = {}
  <2> PICK new : new = [disk EXCEPT !.workers = [w \in 1..Defaults |-> Worker("STOPPED", Unassigned)]]
    OBVIOUS
  <2>1. disk' = new /\ memory' = [memory EXCEPT ![c] = new]
    BY <1>2 DEF Open
  <2>2. Good(new)
    BY FreshIsGood DEF RegistryInv
  <2> QED BY <2>1, <2>2, SaveIsGood DEF Save, RestoreDurable
<1> QED BY <1>1, <1>2

LEMMA RestartKeeps ==
  ASSUME RegistryInv, NEW c \in Centers, Restart(c)
  PROVE  RegistryInv'
BY DEF Restart, RegistryInv, FailedLeavesNoTrace

LEMMA RegisterKeeps ==
  ASSUME RegistryInv, NEW c \in Centers, NEW p \in Projects, RegisterProject(c, p)
  PROVE  RegistryInv'
BY KnownIsOpen, RegisteredIsGood, SaveIsGood DEF RegisterProject

LEMMA AssignToKeeps ==
  ASSUME RegistryInv, NEW c \in Centers, NEW w \in Known(c), NEW p \in Projects,
         NEW mutation \in BOOLEAN, MayAssign(c, w, p, mutation), AssignTo(c, w, p, mutation)
  PROVE  RegistryInv'
<1> PICK reg : reg = memory[c] OBVIOUS
<1> PICK a : a = [project |-> p, mutation |-> mutation] OBVIOUS
<1>1. Good(reg) /\ w \in DOMAIN reg.workers
  BY KnownIsOpen DEF Known
<1>2. a \in [project: Projects \cup {"none"}, mutation: BOOLEAN] /\ a.project \in reg.projects
  BY DEF MayAssign
<1>3. a.mutation => \A v \in DOMAIN reg.workers \ {w} : reg.workers[v].assigned # a
  BY DEF MayAssign, Taken, Known
<1>4. Good([reg EXCEPT !.workers[w].assigned = a])
  BY <1>1, <1>2, <1>3, AssignmentIsGood
<1> QED BY <1>4, SaveIsGood DEF AssignTo

LEMMA ReleaseKeeps ==
  ASSUME RegistryInv, NEW c \in Centers, NEW w \in Known(c), ReleaseWorker(c, w)
  PROVE  RegistryInv'
<1> PICK reg : reg = memory[c] OBVIOUS
<1>1. Good(reg) /\ w \in DOMAIN reg.workers
  BY KnownIsOpen DEF Known
<1>2. Good([reg EXCEPT !.workers[w].assigned = Unassigned])
  BY <1>1, UnassignedType, AssignmentIsGood
<1> QED BY <1>2, SaveIsGood DEF ReleaseWorker

LEMMA SetStateKeeps ==
  ASSUME RegistryInv, NEW c \in Centers, NEW w \in Known(c), NEW s \in WorkerStates,
         SetWorkerState(c, w, s)
  PROVE  RegistryInv'
<1> PICK reg : reg = memory[c] OBVIOUS
<1>1. Good(reg) /\ w \in DOMAIN reg.workers
  BY KnownIsOpen DEF Known
<1>2. Good([reg EXCEPT !.workers[w].state = s])
  BY <1>1, StateIsGood
<1> QED BY <1>2, SaveIsGood DEF SetWorkerState

LEMMA DeleteKeeps ==
  ASSUME RegistryInv, NEW c \in Centers, NEW w \in Known(c), DeleteWorker(c, w)
  PROVE  RegistryInv'
<1> PICK reg : reg = memory[c] OBVIOUS
<1>1. Good(reg) /\ w \in DOMAIN reg.workers
  BY KnownIsOpen DEF Known
<1>2. Good([reg EXCEPT !.workers = [v \in DOMAIN @ \ {w} |-> @[v]]])
  BY <1>1, DeletedIsGood
<1> QED BY <1>2, SaveIsGood DEF DeleteWorker

LEMMA LargestExists ==
  ASSUME NEW max \in Nat, NEW S \in SUBSET (1..max)
  PROVE  \E n \in S \cup {0} : \A m \in S : m <= n
<1> DEFINE Left == {k \in 0..max : max - k \in S \cup {0}}
           R == OpToRel(<, Nat)
<1>1. Left \subseteq Nat /\ max \in Left
  OBVIOUS
<1>2. \A i, j \in Nat : i < j => <<i, j>> \in R
  BY DEF OpToRel
<1>3. PICK x \in Left : \A y \in Left : ~(<<y, x>> \in R)
  <2> HIDE DEF Left, R
  <2>1. IsWellFoundedOn(R, Nat)
    BY NatLessThanWellFounded DEF R
  <2> QED BY <1>1, <2>1, WFMin
<1>4. \A y \in Left : x <= y
  <2> HIDE DEF R, Left
  <2> SUFFICES ASSUME NEW y \in Left PROVE x <= y
    OBVIOUS
  <2>1. x \in Nat /\ y \in Nat /\ ~(y < x)
    BY <1>1, <1>2, <1>3
  <2> QED BY <2>1
<1>5. max - x \in S \cup {0}
  OBVIOUS
<1>6. ASSUME NEW m \in S PROVE m <= max - x
  <2>1. max - m \in Left
    OBVIOUS
  <2> QED BY <2>1, <1>4
<1> QED BY <1>5, <1>6

(* The number after the largest known one is a worker number; that it is    *)
(* new does not matter here.                                                *)
LEMMA AddKeeps ==
  ASSUME RegistryInv, NEW c \in Centers, AddWorker(c)
  PROVE  RegistryInv'
<1> PICK reg : reg = memory[c] OBVIOUS
<1> PICK largest : largest = CHOOSE n \in Known(c) \cup {0} : \A m \in Known(c) : m <= n OBVIOUS
<1>1. Good(reg)
  BY KnownIsOpen DEF AddWorker
<1>2. Known(c) \subseteq 1..MaxWorker
  BY <1>1 DEF Good, WellFormed, Known
<1>3. \E n \in Known(c) \cup {0} : \A m \in Known(c) : m <= n
  BY <1>2, LargestExists, RegistryConstants DEF RegistryAssumption
<1>4. 1 + largest \in 1..MaxWorker
  BY <1>2, <1>3, RegistryConstants DEF AddWorker, RegistryAssumption
<1>5. Good(WithWorker(reg, 1 + largest, Worker("STOPPED", Unassigned)))
  BY <1>1, <1>4, AddedIsGood
<1> QED BY <1>5, SaveIsGood DEF AddWorker

LEMMA RegistryInvKept ==
  ASSUME RegistryInv, [RegistryNext]_registryVars
  PROVE  RegistryInv'
<1>1. CASE UNCHANGED registryVars
  BY <1>1 DEF registryVars, RegistryInv, FailedLeavesNoTrace
<1>2. CASE RegistryNext
  <2> PICK c \in Centers :
        \/ Open(c) \/ Restart(c) \/ AddWorker(c)
        \/ \E p \in Projects : RegisterProject(c, p)
        \/ \E w \in Known(c) :
             \/ ReleaseWorker(c, w) \/ DeleteWorker(c, w)
             \/ \E s \in WorkerStates : SetWorkerState(c, w, s)
             \/ \E p \in Projects, mutation \in BOOLEAN :
                  Assign(c, w, p, mutation) \/ ReplaceAssignment(c, w, p, mutation)
    BY <1>2 DEF RegistryNext
  <2>1. CASE Open(c) \/ Restart(c) \/ AddWorker(c)
    BY <2>1, OpenKeeps, RestartKeeps, AddKeeps
  <2>2. CASE \E p \in Projects : RegisterProject(c, p)
    BY <2>2, RegisterKeeps
  <2>3. ASSUME NEW w \in Known(c), ReleaseWorker(c, w) \/ DeleteWorker(c, w)
        PROVE  RegistryInv'
    BY <2>3, ReleaseKeeps, DeleteKeeps
  <2>4. ASSUME NEW w \in Known(c), NEW s \in WorkerStates, SetWorkerState(c, w, s)
        PROVE  RegistryInv'
    BY <2>4, SetStateKeeps
  <2>5. ASSUME NEW w \in Known(c), NEW p \in Projects, NEW mutation \in BOOLEAN,
               Assign(c, w, p, mutation) \/ ReplaceAssignment(c, w, p, mutation)
        PROVE  RegistryInv'
    <3>1. MayAssign(c, w, p, mutation) /\ AssignTo(c, w, p, mutation)
      BY <2>5 DEF Assign, ReplaceAssignment
    <3> QED BY <3>1, AssignToKeeps
  <2> QED BY <2>1, <2>2, <2>3, <2>4, <2>5
<1> QED BY <1>1, <1>2

LEMMA RegistryInvSafe == RegistryInv => RegistrySafety
<1> SUFFICES ASSUME RegistryInv PROVE RegistrySafety OBVIOUS
<1>1. \A reg : Good(reg) => RegistryOK(reg)
  BY DEF Good, WellFormed, AssignedKnown, RegistryOK, Rows
<1>2. \A reg : Good(reg) \/ reg = Closed => Mutators(reg)
  BY ClosedIsEmpty DEF Good, Mutators
<1>3. \A reg \in {disk} \cup {memory[c] : c \in Centers} : Mutators(reg)
  BY <1>2 DEF RegistryInv
<1> QED BY <1>1, <1>3 DEF RegistryInv, RegistrySafety, RegistryTypeOK, OneMutator, Mutators

(***************************************************************************)
(* Whatever services, failed saves, reloads and restarts interleave, the    *)
(* registry that is stored and every one in memory have one worker at most  *)
(* per project for mutation; and the only service has nothing in memory     *)
(* that its store refused (registry.py, control_center.py _save).           *)
(***************************************************************************)
THEOREM RegistryIsSafe == RegistrySpec => []RegistrySafety
<1>1. RegistrySpec => []RegistryInv
  BY RegistryInitGood, RegistryInvKept, PTL DEF RegistrySpec
<1> QED BY <1>1, RegistryInvSafe, PTL

(* What an operation makes of the registry keeps the projects of the workers*)
(* that are not stopped.                                                    *)
KeepsBusy(reg, new) ==
  \A v \in DOMAIN reg.workers \cap DOMAIN new.workers :
    reg.workers[v].state # "STOPPED" /\ reg.workers[v].assigned # Unassigned
    => new.workers[v].assigned = reg.workers[v].assigned

LEMMA SaveKeepsBusy ==
  ASSUME NEW c \in Centers, NEW new, Save(c, new), KeepsBusy(disk, new)
  PROVE  BusyKeepsProject
<1>1. disk' = new \/ disk' = disk
  BY DEF Save, RestoreDurable
<1> QED BY <1>1 DEF BusyKeepsProject, KeepsBusy

LEMMA AssignedKeepsBusy ==
  ASSUME NEW reg, Good(reg), NEW w \in DOMAIN reg.workers, NEW a,
         reg.workers[w].state = "STOPPED" \/ reg.workers[w].assigned = Unassigned
  PROVE  KeepsBusy(reg, [reg EXCEPT !.workers[w].assigned = a])
<1> PICK map : map = [reg.workers EXCEPT ![w] = [@ EXCEPT !.assigned = a]] OBVIOUS
<1> PICK new : new = [reg EXCEPT !.workers[w].assigned = a] OBVIOUS
<1>1. new.workers = map
  BY DEF Good, WellFormed
<1>2. \A v \in DOMAIN reg.workers \ {w} : map[v] = reg.workers[v]
  BY DEF Good, WellFormed
<1> QED BY <1>1, <1>2 DEF KeepsBusy

LEMMA StateKeepsBusy ==
  ASSUME NEW reg, Good(reg), NEW w \in DOMAIN reg.workers, NEW s
  PROVE  KeepsBusy(reg, [reg EXCEPT !.workers[w].state = s])
<1> PICK row : row = [reg.workers[w] EXCEPT !.state = s] OBVIOUS
<1> PICK map : map = [reg.workers EXCEPT ![w] = row] OBVIOUS
<1> PICK new : new = [reg EXCEPT !.workers[w].state = s] OBVIOUS
<1>1. new.workers = map
  BY DEF Good, WellFormed
<1>2. row.assigned = reg.workers[w].assigned
  BY DEF Good, WellFormed, Rows
<1>3. \A v \in DOMAIN reg.workers : map[v] = IF v = w THEN row ELSE reg.workers[v]
  BY DEF Good, WellFormed
<1> QED BY <1>1, <1>2, <1>3 DEF KeepsBusy

LEMMA DeletedKeepsBusy ==
  ASSUME NEW reg, Good(reg), NEW w
  PROVE  KeepsBusy(reg, [reg EXCEPT !.workers = [v \in DOMAIN @ \ {w} |-> @[v]]])
<1> PICK map : map = [v \in DOMAIN reg.workers \ {w} |-> reg.workers[v]] OBVIOUS
<1> PICK new : new = [reg EXCEPT !.workers = [v \in DOMAIN @ \ {w} |-> @[v]]] OBVIOUS
<1>1. new.workers = map
  BY DEF Good, WellFormed
<1> QED BY <1>1 DEF KeepsBusy

LEMMA RegisteredKeepsBusy ==
  ASSUME NEW reg, Good(reg), NEW p
  PROVE  KeepsBusy(reg, [reg EXCEPT !.projects = @ \cup {p}])
<1> PICK new : new = [reg EXCEPT !.projects = @ \cup {p}] OBVIOUS
<1>1. new.workers = reg.workers
  BY DEF Good, WellFormed
<1> QED BY <1>1 DEF KeepsBusy

(* A new worker has a number of its own: it takes no worker's row. *)
LEMMA AddedKeepsBusy ==
  ASSUME NEW reg, Good(reg), NEW w, w \notin DOMAIN reg.workers, NEW row
  PROVE  KeepsBusy(reg, WithWorker(reg, w, row))
<1> PICK map : map = [v \in DOMAIN reg.workers \cup {w} |-> IF v = w THEN row ELSE reg.workers[v]] OBVIOUS
<1> PICK new : new = WithWorker(reg, w, row) OBVIOUS
<1>1. new.workers = map
  BY DEF Good, WellFormed, WithWorker
<1> QED BY <1>1 DEF KeepsBusy

LEMMA BusyStep ==
  ASSUME OneService, RegistryInv, [RegistryNext]_registryVars
  PROVE  BusyKeepsProject
<1>0. disk' = disk => BusyKeepsProject
  BY DEF BusyKeepsProject
<1>1. CASE UNCHANGED registryVars
  BY <1>0, <1>1 DEF registryVars
<1>2. CASE RegistryNext
  <2> PICK c \in Centers :
        \/ Open(c) \/ Restart(c) \/ AddWorker(c)
        \/ \E p \in Projects : RegisterProject(c, p)
        \/ \E w \in Known(c) :
             \/ ReleaseWorker(c, w) \/ DeleteWorker(c, w)
             \/ \E s \in WorkerStates : SetWorkerState(c, w, s)
             \/ \E p \in Projects, mutation \in BOOLEAN :
                  Assign(c, w, p, mutation) \/ ReplaceAssignment(c, w, p, mutation)
    BY <1>2 DEF RegistryNext
  <2>0. ASSUME memory[c] # Closed \/ Known(c) # {}
        PROVE  memory[c] = disk /\ Good(disk) /\ Known(c) = DOMAIN disk.workers
    BY <2>0, KnownIsOpen DEF RegistryInv, FailedLeavesNoTrace, Known
  <2>1. CASE Open(c)
    <3>1. CASE DOMAIN disk.workers = {}
      BY <3>1 DEF BusyKeepsProject
    <3>2. CASE DOMAIN disk.workers # {}
      BY <1>0, <2>1, <3>2 DEF Open
    <3> QED BY <3>1, <3>2
  <2>2. CASE Restart(c)
    BY <1>0, <2>2 DEF Restart
  <2>3. CASE AddWorker(c)
    <3> PICK largest : largest = CHOOSE n \in Known(c) \cup {0} : \A m \in Known(c) : m <= n OBVIOUS
    <3>1. memory[c] = disk /\ Good(disk) /\ Known(c) = DOMAIN disk.workers
      BY <2>0, <2>3 DEF AddWorker
    <3>2. Known(c) \subseteq 1..MaxWorker
      BY <3>1 DEF Good, WellFormed
    <3>3. \E n \in Known(c) \cup {0} : \A m \in Known(c) : m <= n
      BY <3>2, LargestExists, RegistryConstants DEF RegistryAssumption
    <3>4. largest \in Known(c) \cup {0} /\ \A m \in Known(c) : m <= largest
      BY <3>3
    <3>5. 1 + largest \notin Known(c)
      BY <3>2, <3>4, RegistryConstants DEF RegistryAssumption
    <3>6. Save(c, WithWorker(disk, 1 + largest, Worker("STOPPED", Unassigned)))
      BY <2>3, <3>1 DEF AddWorker
    <3>7. KeepsBusy(disk, WithWorker(disk, 1 + largest, Worker("STOPPED", Unassigned)))
      BY <3>1, <3>5, AddedKeepsBusy
    <3> QED BY <3>6, <3>7, SaveKeepsBusy
  <2>4. ASSUME NEW p \in Projects, RegisterProject(c, p)
        PROVE  BusyKeepsProject
    BY <2>0, <2>4, RegisteredKeepsBusy, SaveKeepsBusy DEF RegisterProject
  <2>5. ASSUME NEW w \in Known(c), ReleaseWorker(c, w)
        PROVE  BusyKeepsProject
    BY <2>0, <2>5, AssignedKeepsBusy, SaveKeepsBusy DEF ReleaseWorker
  <2>6. ASSUME NEW w \in Known(c), DeleteWorker(c, w)
        PROVE  BusyKeepsProject
    BY <2>0, <2>6, DeletedKeepsBusy, SaveKeepsBusy DEF DeleteWorker
  <2>7. ASSUME NEW w \in Known(c), NEW s \in WorkerStates, SetWorkerState(c, w, s)
        PROVE  BusyKeepsProject
    BY <2>0, <2>7, StateKeepsBusy, SaveKeepsBusy DEF SetWorkerState
  <2>8. ASSUME NEW w \in Known(c), NEW p \in Projects, NEW mutation \in BOOLEAN,
               Assign(c, w, p, mutation) \/ ReplaceAssignment(c, w, p, mutation)
        PROVE  BusyKeepsProject
    <3> PICK a : a = [project |-> p, mutation |-> mutation] OBVIOUS
    <3>1. memory[c] = disk /\ Good(disk) /\ w \in DOMAIN disk.workers
      BY <2>0
    <3>2. disk.workers[w].state = "STOPPED" \/ disk.workers[w].assigned = Unassigned
      BY <2>8, <3>1 DEF Assign, ReplaceAssignment
    <3>3. Save(c, [disk EXCEPT !.workers[w].assigned = a])
      BY <2>8, <3>1 DEF Assign, ReplaceAssignment, AssignTo
    <3> QED BY <3>1, <3>2, <3>3, AssignedKeepsBusy, SaveKeepsBusy
  <2> QED BY <2>1, <2>2, <2>3, <2>4, <2>5, <2>6, <2>7, <2>8
<1> QED BY <1>1, <1>2

(***************************************************************************)
(* When one service has the store and its reloads work, no operation, saved *)
(* or not, takes the project from a worker that is starting, ready or       *)
(* stopping, or gives it another one (WORKER_BUSY in control_center.py).    *)
(***************************************************************************)
THEOREM BusyWorkersKeepProjects ==
  ASSUME OneService
  PROVE  RegistrySpec => [][BusyKeepsProject]_registryVars
<1>1. RegistrySpec => []RegistryInv
  BY RegistryInitGood, RegistryInvKept, PTL DEF RegistrySpec
<1>2. RegistryInv /\ [RegistryNext]_registryVars => [BusyKeepsProject]_registryVars
  BY BusyStep
<1> QED BY <1>1, <1>2, PTL DEF RegistrySpec

===============================================================================
