---------------------------- MODULE NativeExecution ----------------------------
(***************************************************************************)
(* The two services of native_execution.py.                                 *)
(*                                                                          *)
(* NativeFileSystem writes the files of a project root for workers:         *)
(* write_text replaces a file, on the condition that it still has the hash  *)
(* the worker read, and create_text_if_absent makes one.  Both write a      *)
(* temporary file first, and others write between the steps.  A content     *)
(* stands for its hash.                                                     *)
(*                                                                          *)
(* NativeSubprocessRunner.run runs a command with a temporary tree for its  *)
(* output.  A run first sweeps the trees that others left behind more than  *)
(* a day ago, makes its own, locks a file in it while the command runs, and *)
(* removes it.  Trees may resist removal (a scanner holds a file), and the  *)
(* process of a run may die: its lock is then free and its tree stays.      *)
(* Policy checks of the command and the captured output are left out.       *)
(***************************************************************************)
EXTENDS Naturals, Sequences, FiniteSets, TLAPS

CONSTANTS
  Paths,       \* the paths a worker may name
  Outside,     \* those of Paths that do not resolve inside the root
  Contents,    \* the contents of files
  TooLarge,    \* those of Contents above the limit of the scope
  Workers,
  Mutation,    \* may the workers write
  MaxOps,      \* bound on the operations
  MaxEdits,    \* bound on the changes by others
  Runners,     \* the processes that run commands
  MaxRuns,     \* bound on the runs
  MaxTime,     \* bound on the time
  StaleAfter,  \* age at which a tree may be swept
  SweepLimit,  \* how many trees a run tries to sweep
  MayResist,   \* may trees resist removal
  Prompt,      \* is a tree locked before it is old
  None         \* no file, no hash, nothing

(* An operation on a file *)
Codes ==
  {"OK", "MUTATION_FORBIDDEN", "FILE_TOO_LARGE", "PATH_OUTSIDE_ROOT", "FILE_ALREADY_EXISTS",
   "OVERWRITE_PRECONDITION_REQUIRED", "FILE_PRECONDITION_FAILED", "FILE_WRITE_FAILED",
   "WRITTEN", "CREATED"}
Operations ==
  [n: Nat, kind: {"write", "create"}, path: Paths, content: Contents,
   expected: {None} \cup Contents, checked: BOOLEAN, touched: BOOLEAN,
   pc: {"temp", "replace", "done"}, code: Codes]

NativeAssumption ==
  /\ Outside \subseteq Paths /\ TooLarge \subseteq Contents /\ Mutation \subseteq Workers
  /\ MaxOps \in Nat /\ MaxEdits \in Nat /\ MaxRuns \in Nat /\ MaxTime \in Nat
  /\ StaleAfter \in Nat \ {0} /\ SweepLimit \in Nat \ {0}
  /\ MayResist \in BOOLEAN /\ Prompt \in BOOLEAN
  /\ None \notin Contents \cup Nat \cup Operations

ASSUME NativeConstants == NativeAssumption

VARIABLES
  files,    \* the content at each path, or None
  op,       \* the operation of each worker: None or a record
  temps,    \* the operations whose temporary file exists
  ops, edits,
  made,     \* how often a path was made by create_text_if_absent or removed since
  lost,     \* what replaced something else than its condition says: [expected, checked]
  time,
  trees,    \* the trees: number -> [born, lock]; lock is "no" (no file), "free" or "held"
  run,      \* the run of each process: None or [tree, pc, sweep, tried, code]
  count     \* the trees made so far

filesVars == <<files, op, temps, ops, edits, made, lost>>
runsVars == <<time, trees, run, count>>

-------------------------------------------------------------------------------
(* NativeFileSystem *)

FilesInit ==
  /\ files \in [Paths \ Outside -> {None} \union (Contents \ TooLarge)]
  /\ op = [p \in Workers |-> None] /\ temps = {} /\ ops = 0 /\ edits = 0 /\ lost = {}
  /\ made = [x \in Paths \ Outside |-> 0]

OpAt(p, pc) == op[p] # None /\ op[p].pc = pc
Ended(p, code) == op' = [op EXCEPT ![p].pc = "done", ![p].code = code]

(* The unlink of the temporary file at the end of an operation; that it     *)
(* fails is swallowed, and the file stays.                                  *)
Unlink(p) == temps' \in {temps, temps \ {op[p].n}}

(* What is refused before the disk is looked at: authority, size and        *)
(* resolve_relative.                                                        *)
Refusal(p, x, c) ==
  CASE p \notin Mutation -> "MUTATION_FORBIDDEN"
    [] p \in Mutation /\ c \in TooLarge -> "FILE_TOO_LARGE"
    [] p \in Mutation /\ c \notin TooLarge /\ x \in Outside -> "PATH_OUTSIDE_ROOT"
    [] OTHER -> "OK"

(* write_text and create_text_if_absent up to the temporary file. *)
WriteCheck(x, expected) ==
  CASE files[x] # None /\ expected = None -> "OVERWRITE_PRECONDITION_REQUIRED"
    [] files[x] # expected /\ expected # None -> "FILE_PRECONDITION_FAILED"
    [] OTHER -> "OK"
CreateCheck(x) == IF files[x] # None THEN "FILE_ALREADY_EXISTS" ELSE "OK"
Start(p) ==
  \E kind \in {"write", "create"}, x \in Paths, c \in Contents,
     e \in {None} \union (Contents \ TooLarge) :
    LET refusal == Refusal(p, x, c)
        code == IF refusal # "OK" THEN refusal
                ELSE IF kind = "write" THEN WriteCheck(x, e) ELSE CreateCheck(x)
    IN /\ op[p] = None /\ ops < MaxOps /\ ops' = ops + 1
       /\ kind = "create" => e = None
       /\ op' = [op EXCEPT ![p] = [n |-> ops + 1, kind |-> kind, path |-> x, content |-> c,
                                   expected |-> e, checked |-> FALSE, touched |-> FALSE,
                                   pc |-> IF code = "OK" THEN "temp" ELSE "done",
                                   code |-> code]]
       /\ temps' = IF code = "OK" THEN temps \union {ops + 1} ELSE temps
       /\ UNCHANGED <<files, edits, made, lost>>

SecondCheck(p) ==
  /\ OpAt(p, "temp") /\ op[p].kind = "write"
  /\ IF op[p].expected # None /\ files[op[p].path] # op[p].expected
     THEN Ended(p, "FILE_PRECONDITION_FAILED") /\ Unlink(p)
     ELSE /\ op' = [op EXCEPT ![p].pc = "replace",
                              ![p].checked = (files[op[p].path] = op[p].expected)]
          /\ UNCHANGED temps
  /\ UNCHANGED <<files, ops, edits, made, lost>>

(* os.replace: the temporary file is the file then, and none is left. *)
Replace(p) ==
  LET o == op[p]
  IN /\ OpAt(p, "replace")
     /\ files' = [files EXCEPT ![o.path] = o.content]
     /\ lost' = IF files[o.path] = o.expected THEN lost
                ELSE lost \union {[expected |-> o.expected # None, checked |-> o.checked]}
     /\ op' = [op EXCEPT ![p].pc = "done", ![p].code = "WRITTEN", ![p].touched = TRUE]
     /\ temps' = temps \ {o.n}
     /\ UNCHANGED <<ops, edits, made>>

(* create_text_if_absent: os.link makes the name or fails. *)
(* Mutant: the temporary file is renamed to the name. *)
LinkRenames(p) ==
  /\ OpAt(p, "temp") /\ op[p].kind = "create"
  /\ files' = [files EXCEPT ![op[p].path] = op[p].content]
  /\ made' = [made EXCEPT ![op[p].path] = @ + 1]
  /\ op' = [op EXCEPT ![p].pc = "done", ![p].code = "CREATED", ![p].touched = TRUE]
  /\ temps' = temps \ {op[p].n}
  /\ UNCHANGED <<ops, edits, lost>>
Link(p) ==
  /\ OpAt(p, "temp") /\ op[p].kind = "create"
  /\ IF files[op[p].path] # None THEN Ended(p, "FILE_ALREADY_EXISTS") /\ UNCHANGED <<files, made>>
     ELSE /\ files' = [files EXCEPT ![op[p].path] = op[p].content]
          /\ made' = [made EXCEPT ![op[p].path] = @ + 1]
          /\ op' = [op EXCEPT ![p].pc = "done", ![p].code = "CREATED", ![p].touched = TRUE]
  /\ Unlink(p)
  /\ UNCHANGED <<ops, edits, lost>>

(* The disk refuses: the open, the write, the link or the replacement. *)
WriteFails(p) ==
  /\ OpAt(p, "temp") \/ OpAt(p, "replace")
  /\ Ended(p, "FILE_WRITE_FAILED") /\ Unlink(p)
  /\ UNCHANGED <<files, ops, edits, made, lost>>

ReturnOp(p) ==
  /\ OpAt(p, "done") /\ op' = [op EXCEPT ![p] = None]
  /\ UNCHANGED <<files, temps, ops, edits, made, lost>>

(* The process of a worker dies in an operation: nothing is cleaned up. *)
Killed(p) ==
  /\ OpAt(p, "temp") \/ OpAt(p, "replace")
  /\ op' = [op EXCEPT ![p] = None]
  /\ UNCHANGED <<files, temps, ops, edits, made, lost>>

(* Others change or remove a file. *)
Edit ==
  /\ edits < MaxEdits /\ edits' = edits + 1
  /\ \E x \in DOMAIN files, c \in {None} \union (Contents \ TooLarge) :
       /\ files[x] # c /\ files' = [files EXCEPT ![x] = c]
       /\ made' = IF c = None THEN [made EXCEPT ![x] = 0] ELSE made
  /\ UNCHANGED <<op, temps, ops, lost>>

FilesNext ==
  \/ \E p \in Workers : \/ Start(p) \/ SecondCheck(p) \/ Replace(p) \/ Link(p)
                       \/ WriteFails(p) \/ ReturnOp(p) \/ Killed(p)
  \/ Edit

-------------------------------------------------------------------------------
(* NativeSubprocessRunner *)

RunsInit == time = 0 /\ trees = <<>> /\ run = [r \in Runners |-> None] /\ count = 0
There(t) == t \in DOMAIN trees
Without(t) == [u \in DOMAIN trees \ {t} |-> trees[u]]
RunAt(r, pc) == run[r] # None /\ run[r].pc = pc
Goes(r, pc) == run' = [run EXCEPT ![r].pc = pc]

(* run begins with the sweep; the candidates are listed once, in the order  *)
(* of their names, which begin with the time they were made.                *)
BeginRun(r) ==
  /\ run[r] = None /\ count < MaxRuns
  /\ run' = [run EXCEPT ![r] = [tree |-> None, pc |-> "sweep", sweep |-> DOMAIN trees,
                               tried |-> 0, target |-> None, code |-> None]]
  /\ UNCHANGED <<time, trees, count>>

LeaseAvailable(t) == There(t) /\ trees[t].lock # "held"
Candidate(r) == CHOOSE t \in run[r].sweep : \A u \in run[r].sweep : t <= u
SweepNext(r) ==
  /\ RunAt(r, "sweep") /\ run[r].sweep # {}
  /\ LET t == Candidate(r)
         rest == run[r].sweep \ {t}
         stale == There(t) /\ time - trees[t].born >= StaleAfter
         old == run[r]
     IN run' = [run EXCEPT ![r] =
          IF ~stale THEN [old EXCEPT !.sweep = rest]
          ELSE IF old.tried >= SweepLimit THEN [old EXCEPT !.sweep = {}]
          ELSE IF ~LeaseAvailable(t) THEN [old EXCEPT !.sweep = rest]
          ELSE [old EXCEPT !.sweep = rest, !.tried = @ + 1, !.target = t, !.pc = "remove"]]
  /\ UNCHANGED <<time, trees, count>>

(* The tree is removed, once; whatever happens the sweep goes on. *)
SweepRemove(r) ==
  /\ RunAt(r, "remove")
  /\ \/ trees' = Without(run[r].target)
     \/ MayResist /\ UNCHANGED trees
  /\ run' = [run EXCEPT ![r].pc = "sweep", ![r].target = None]
  /\ UNCHANGED <<time, count>>

(* mkdtemp, and then the lock. *)
Make(r) ==
  /\ RunAt(r, "sweep") /\ run[r].sweep = {} /\ count < MaxRuns
  /\ count' = count + 1
  /\ trees' = [t \in DOMAIN trees \union {count + 1} |->
                 IF t = count + 1 THEN [born |-> time, lock |-> "no"] ELSE trees[t]]
  /\ run' = [run EXCEPT ![r].pc = "lease", ![r].tree = count + 1]
  /\ UNCHANGED time
Lease(r) ==
  /\ RunAt(r, "lease")
  /\ IF There(run[r].tree)
     THEN trees' = [trees EXCEPT ![run[r].tree].lock = "held"] /\ Goes(r, "running")
     ELSE UNCHANGED trees /\ run' = [run EXCEPT ![r].pc = "fail"]
  /\ UNCHANGED <<time, count>>

(* The command exits, or its time is over; the lock is released. *)
Exit(r) ==
  /\ RunAt(r, "running")
  /\ \E how \in {"RESULT", "ERROR"} :
       run' = [run EXCEPT ![r].pc = IF how = "RESULT" THEN "cleanup" ELSE "fail"]
  /\ trees' = IF There(run[r].tree) THEN [trees EXCEPT ![run[r].tree].lock = "free"] ELSE trees
  /\ UNCHANGED <<time, count>>

Cleanup(r) ==
  /\ RunAt(r, "cleanup")
  /\ \/ trees' = Without(run[r].tree) /\ run' = [run EXCEPT ![r].pc = "done", ![r].code = "RESULT"]
     \/ MayResist /\ There(run[r].tree) /\ UNCHANGED trees
        /\ run' = [run EXCEPT ![r].pc = "done", ![r].code = "COMMAND_CLEANUP_FAILED"]
  /\ UNCHANGED <<time, count>>
Fail(r) ==
  /\ RunAt(r, "fail")
  /\ \/ trees' = Without(run[r].tree)
     \/ MayResist /\ UNCHANGED trees
  /\ run' = [run EXCEPT ![r].pc = "done", ![r].code = "COMMAND_EXECUTION_FAILED"]
  /\ UNCHANGED <<time, count>>
ReturnRun(r) ==
  /\ RunAt(r, "done") /\ run' = [run EXCEPT ![r] = None]
  /\ UNCHANGED <<time, trees, count>>

(* The process of a run dies. *)
Die(r) ==
  /\ run[r] # None /\ run[r].pc # "done"
  /\ run' = [run EXCEPT ![r] = None]
  /\ trees' = [t \in DOMAIN trees |->
                 IF t = run[r].tree /\ trees[t].lock = "held"
                 THEN [trees[t] EXCEPT !.lock = "free"] ELSE trees[t]]
  /\ UNCHANGED <<time, count>>

(* Time passes, also for a machine that sleeps.                             *)
Tick ==
  /\ time < MaxTime /\ time' = time + 1
  /\ Prompt => \A r \in Runners : ~RunAt(r, "lease")
  /\ UNCHANGED <<trees, run, count>>

RunsNext ==
  \/ \E r \in Runners : \/ BeginRun(r) \/ SweepNext(r) \/ SweepRemove(r)
                       \/ Make(r) \/ Lease(r) \/ Exit(r)
                       \/ Cleanup(r) \/ Fail(r) \/ ReturnRun(r) \/ Die(r)
  \/ Tick

(* The two services share nothing. *)
NativeInit == FilesInit /\ RunsInit
NativeNext == (FilesNext /\ UNCHANGED runsVars) \/ (RunsNext /\ UNCHANGED filesVars)
NativeSpec == NativeInit /\ [][NativeNext]_<<filesVars, runsVars>>

-------------------------------------------------------------------------------
(* The type of the state.  An operation at work has its temporary file: no  *)
(* other operation, nor the leftovers of those that failed or died, takes   *)
(* it away.                                                                 *)
FilesTypeOK ==
  /\ files \in [Paths \ Outside -> {None} \union Contents]
  /\ temps \subseteq 1..ops
  /\ \A p \in Workers : OpAt(p, "temp") \/ OpAt(p, "replace") => op[p].n \in temps
  /\ ops \in 0..MaxOps /\ edits \in 0..MaxEdits

(* create_text_if_absent: of all the operations that make one path, until   *)
(* it is removed, one at most returns.                                      *)
CreatedOnce == \A x \in DOMAIN made : made[x] <= 1

(* write_text: a change that others made before the second look at the file *)
(* is never overwritten by a write that names a hash.                       *)
ChangeSeenBeforeReplace == \A l \in lost : l.expected => l.checked

(* The type of the state; a tree has one owner. *)
RunsTypeOK ==
  /\ time \in 0..MaxTime /\ count \in 0..MaxRuns /\ DOMAIN trees \subseteq 1..count
  /\ \A r \in Runners : run[r] # None => run[r].tried \in 0..SweepLimit
  /\ \A r, s \in Runners :
        run[r] # None /\ run[s] # None /\ run[r].tree # None /\ run[r].tree = run[s].tree
        => r = s

(* "active executions hold an OS lock marker and are never swept": the tree *)
(* of a run is there until its command has ended, however long that takes.  *)
ActiveNeverSwept ==
  \A r \in Runners : run[r] # None /\ run[r].pc \in {"lease", "running"} => There(run[r].tree)

(* A run that returns a result has removed its tree, and one that could not *)
(* says so: its tree is the only thing that remains of a run that did not   *)
(* die or fail.                                                             *)
ResultMeansClean ==
  \A r \in Runners : RunAt(r, "done") /\ run[r].code = "RESULT" => ~There(run[r].tree)

(***************************************************************************)
(* create_text_if_absent makes a file once, a write that names a hash does  *)
(* not overwrite a change made before its second look at the file, and a    *)
(* run's tree is neither swept while it runs (by runs that lock their trees *)
(* before they are old) nor left when it has reported a clean result.       *)
(***************************************************************************)
NativeSafety ==
  /\ FilesTypeOK /\ CreatedOnce /\ ChangeSeenBeforeReplace
  /\ RunsTypeOK /\ (Prompt => ActiveNeverSwept) /\ ResultMeansClean

-------------------------------------------------------------------------------
(* Proofs: the runs *)

RunRecords ==
  [tree: Nat \cup {None}, pc: {"sweep", "remove", "lease", "running", "cleanup", "fail", "done"},
   sweep: SUBSET Nat, tried: 0..SweepLimit, target: Nat \cup {None},
   code: {"RESULT", "COMMAND_CLEANUP_FAILED", "COMMAND_EXECUTION_FAILED", None}]

TreesFine ==
  /\ DOMAIN trees \subseteq 1..count
  /\ \A t \in DOMAIN trees :
       trees[t] \in [born: 0..time, lock: {"no", "free", "held"}]

Active(r) == run[r].pc \in {"lease", "running"}

(* What a run relies on: its tree is a number that was given out; it stands *)
(* while the run is active, and is locked by then or not old yet.           *)
RunFine(r) ==
  run[r] # None =>
    /\ run[r] \in RunRecords
    /\ run[r].sweep \subseteq 1..count
    /\ run[r].pc \in {"sweep", "remove"} => run[r].tree = None
    /\ run[r].pc \notin {"sweep", "remove"} => run[r].tree \in 1..count
    /\ run[r].pc = "remove" => run[r].target \in 1..count
    /\ Prompt /\ Active(r) => There(run[r].tree)
    /\ run[r].pc = "running" /\ There(run[r].tree) => trees[run[r].tree].lock = "held"
    /\ Prompt /\ run[r].pc = "lease" => trees[run[r].tree].born = time
    /\ run[r].pc = "done" /\ run[r].code = "RESULT" => ~There(run[r].tree)

OwnersDiffer ==
  \A r, s \in Runners :
    run[r] # None /\ run[s] # None /\ run[r].tree # None /\ run[r].tree = run[s].tree => r = s

(* What a sweeper is about to remove is no active run's tree. *)
TargetsIdle ==
  Prompt => \A r, s \in Runners :
    run[r] # None /\ run[s] # None /\ run[r].pc = "remove" /\ Active(s)
    => run[r].target # run[s].tree

RunsInv ==
  /\ time \in 0..MaxTime /\ count \in 0..MaxRuns
  /\ TreesFine
  /\ run = [r \in Runners |-> run[r]]
  /\ \A r \in Runners : RunFine(r)
  /\ OwnersDiffer /\ TargetsIdle

(* The step leaves the tree of an active run as it is. *)
StillThere(s) ==
  /\ run[s].tree \in DOMAIN trees' => trees'[run[s].tree] = trees[run[s].tree]
  /\ Prompt /\ There(run[s].tree) => run[s].tree \in DOMAIN trees'

LEMMA OthersStayFine ==
  ASSUME RunsInv, NEW s \in Runners, run'[s] = run[s], time' = time,
         count' \in Nat, count <= count',
         \A t \in DOMAIN trees' : t \in DOMAIN trees \/ t > count,
         run[s] # None /\ Active(s) => StillThere(s)
  PROVE  RunFine(s)'
<1>1. CASE run[s] = None
  BY <1>1 DEF RunFine
<1>2. CASE run[s] # None
  <2>1. RunFine(s) /\ run[s] \in RunRecords /\ count \in Nat
    BY <1>2 DEF RunsInv, RunFine
  <2>2. run[s].pc \notin {"sweep", "remove"} => run[s].tree \in 1..count
    BY <1>2, <2>1 DEF RunFine
  <2>3. run[s].pc \notin {"sweep", "remove"} /\ There(run[s].tree)' => There(run[s].tree)
    BY <2>1, <2>2 DEF There
  <2> QED BY <1>2, <2>1, <2>2, <2>3 DEF RunFine, Active, There, StillThere
<1> QED BY <1>1, <1>2

(* One run moves and keeps its tree, and the trees stay: what is left to    *)
(* show is about that run alone.                                            *)
LEMMA OneMoves ==
  ASSUME RunsInv, NEW r \in Runners, NEW new, new \in RunRecords \cup {None},
         run' = [run EXCEPT ![r] = new], UNCHANGED time,
         count' \in 0..MaxRuns, count <= count',
         TreesFine',
         \A t \in DOMAIN trees' : t \in DOMAIN trees \/ t > count,
         \A s \in Runners \ {r} : run[s] # None /\ Active(s) => StillThere(s),
         RunFine(r)',
         new # None /\ new.tree # None => new.tree > count \/ (run[r] # None /\ new.tree = run[r].tree),
         Prompt /\ new # None /\ new.pc = "remove" =>
           \A s \in Runners : run[s] # None /\ Active(s) => new.target # run[s].tree,
         new # None /\ new.pc \in {"lease", "running"} =>
           new.tree > count \/ (run[r] # None /\ Active(r) /\ new.tree = run[r].tree)
  PROVE  RunsInv'
<1>1. /\ run'[r] = new
      /\ \A s \in Runners \ {r} : run'[s] = run[s]
      /\ run' = [s \in Runners |-> run'[s]]
  BY DEF RunsInv
<1>2. count \in Nat /\ count' \in Nat
  BY NativeConstants DEF RunsInv, NativeAssumption
<1>3. \A s \in Runners \ {r} : RunFine(s)'
  BY <1>1, <1>2, OthersStayFine
<1>4. \A s \in Runners : run[s] # None => (run[s].tree # None => run[s].tree \in 1..count)
  BY DEF RunsInv, RunFine, RunRecords
<1>5. \A s \in Runners : run[s] # None /\ run[s].pc = "remove" => run[s].target \in 1..count
  BY DEF RunsInv, RunFine
<1>6. OwnersDiffer'
  <2> SUFFICES ASSUME NEW a \in Runners, NEW b \in Runners, run'[a] # None, run'[b] # None,
                      run'[a].tree # None, run'[a].tree = run'[b].tree, a # b
               PROVE  FALSE
    BY DEF OwnersDiffer
  <2>1. CASE a # r /\ b # r
    BY <1>1, <2>1 DEF RunsInv, OwnersDiffer
  <2>2. CASE a = r
    BY <1>1, <1>2, <1>4, <2>2 DEF RunsInv, OwnersDiffer
  <2>3. CASE b = r
    BY <1>1, <1>2, <1>4, <2>3 DEF RunsInv, OwnersDiffer
  <2> QED BY <2>1, <2>2, <2>3
<1>7. TargetsIdle'
  <2> SUFFICES ASSUME Prompt, NEW a \in Runners, NEW b \in Runners, run'[a] # None, run'[b] # None,
                      run'[a].pc = "remove", run'[b].pc \in {"lease", "running"}
               PROVE  run'[a].target # run'[b].tree
    BY DEF TargetsIdle, Active
  <2>1. CASE a # r /\ b # r
    BY <1>1, <2>1 DEF RunsInv, TargetsIdle, Active
  <2>2. CASE a = r /\ b # r
    BY <1>1, <2>2 DEF Active
  <2>3. CASE b = r /\ a # r
    BY <1>1, <1>2, <1>5, <2>3 DEF RunsInv, TargetsIdle, Active
  <2>4. a # b
    OBVIOUS
  <2> QED BY <2>1, <2>2, <2>3, <2>4
<1> QED BY <1>1, <1>3, <1>6, <1>7 DEF RunsInv

(* A run that goes on without touching a tree *)
LEMMA TreesStay ==
  ASSUME RunsInv, NEW r \in Runners, NEW new, new \in RunRecords \cup {None},
         run' = [run EXCEPT ![r] = new], UNCHANGED <<time, trees, count>>,
         RunFine(r)',
         new # None => new.pc \notin {"lease", "running"} /\ (new.tree = None \/ (run[r] # None /\ new.tree = run[r].tree)),
         Prompt /\ new # None /\ new.pc = "remove" =>
           \A s \in Runners : run[s] # None /\ Active(s) => new.target # run[s].tree
  PROVE  RunsInv'
<1>1. /\ count' \in 0..MaxRuns /\ count <= count' /\ TreesFine'
  BY NativeConstants DEF RunsInv, TreesFine, NativeAssumption
<1>2. \A s \in Runners \ {r} : StillThere(s)
  BY DEF StillThere, There
<1>3. \A t \in DOMAIN trees' : t \in DOMAIN trees
  OBVIOUS
<1> QED BY <1>1, <1>2, <1>3, OneMoves

LEMMA BeginRunKeeps ==
  ASSUME RunsInv, NEW r \in Runners, BeginRun(r)
  PROVE  RunsInv'
<1> PICK new : new = [tree |-> None, pc |-> "sweep", sweep |-> DOMAIN trees,
                      tried |-> 0, target |-> None, code |-> None] OBVIOUS
<1>1. new \in RunRecords /\ new.pc = "sweep" /\ new.tree = None /\ new.sweep = DOMAIN trees
  BY NativeConstants DEF RunRecords, RunsInv, TreesFine, NativeAssumption
<1>2. run' = [run EXCEPT ![r] = new] /\ UNCHANGED <<time, trees, count>>
  BY DEF BeginRun
<1>3. run'[r] = new
  BY <1>2 DEF RunsInv
<1>4. new.sweep \subseteq 1..count
  BY <1>1 DEF RunsInv, TreesFine
<1>5. RunFine(r)'
  BY <1>1, <1>2, <1>3, <1>4 DEF RunFine, Active
<1> QED BY <1>1, <1>2, <1>5, TreesStay

(* A tree that is old and not locked is no active run's. *)
LEMMA StaleIsIdle ==
  ASSUME RunsInv, Prompt, NEW t, There(t), time - trees[t].born >= StaleAfter,
         trees[t].lock # "held", NEW s \in Runners, run[s] # None, Active(s)
  PROVE  t # run[s].tree
<1>1. time \in Nat /\ StaleAfter \in Nat \ {0}
  BY NativeConstants DEF RunsInv, NativeAssumption
<1>2. trees[t].born \in Nat
  BY <1>1 DEF RunsInv, TreesFine, There
<1>3. CASE run[s].pc = "running"
  BY <1>3 DEF RunsInv, RunFine
<1>4. CASE run[s].pc = "lease"
  <2>1. trees[run[s].tree].born = time
    BY <1>4 DEF RunsInv, RunFine
  <2> QED BY <1>1, <1>2, <2>1
<1> QED BY <1>3, <1>4 DEF Active

LEMMA SweepNextKeeps ==
  ASSUME RunsInv, NEW r \in Runners, SweepNext(r)
  PROVE  RunsInv'
<1> PICK old : old = run[r] OBVIOUS
<1> PICK t : t = Candidate(r) OBVIOUS
<1> PICK rest : rest = old.sweep \ {t} OBVIOUS
<1>1. /\ old # None /\ old \in RunRecords /\ old.pc = "sweep" /\ old.tree = None
      /\ old.sweep \subseteq 1..count
  BY DEF RunsInv, RunFine, SweepNext, RunAt
<1>2. UNCHANGED <<time, trees, count>>
  BY DEF SweepNext
<1>3. \/ run' = [run EXCEPT ![r] = [old EXCEPT !.sweep = rest]]
      \/ run' = [run EXCEPT ![r] = [old EXCEPT !.sweep = {}]]
      \/ /\ There(t) /\ time - trees[t].born >= StaleAfter
         /\ ~(old.tried >= SweepLimit) /\ LeaseAvailable(t)
         /\ run' = [run EXCEPT ![r] = [old EXCEPT !.sweep = rest, !.tried = @ + 1,
                                                  !.target = t, !.pc = "remove"]]
  <2> DEFINE stale == There(t) /\ time - trees[t].born >= StaleAfter
  <2>1. CASE ~stale
    BY <2>1 DEF SweepNext
  <2>2. CASE stale /\ old.tried >= SweepLimit
    BY <2>2 DEF SweepNext
  <2>3. CASE stale /\ ~(old.tried >= SweepLimit) /\ ~LeaseAvailable(t)
    BY <2>3 DEF SweepNext
  <2>4. CASE stale /\ ~(old.tried >= SweepLimit) /\ LeaseAvailable(t)
    BY <2>4 DEF SweepNext
  <2> QED BY <2>1, <2>2, <2>3, <2>4
<1>4. ASSUME NEW S \in SUBSET old.sweep, run' = [run EXCEPT ![r] = [old EXCEPT !.sweep = S]]
      PROVE  RunsInv'
  <2> PICK new : new = [old EXCEPT !.sweep = S] OBVIOUS
  <2>1. new \in RunRecords /\ new.pc = "sweep" /\ new.tree = None /\ new.sweep = S
    BY <1>1 DEF RunRecords
  <2>2. run'[r] = new
    BY <1>4 DEF RunsInv
  <2>3. RunFine(r)'
    BY <1>1, <1>2, <2>1, <2>2 DEF RunFine, Active
  <2> QED BY <1>2, <1>4, <2>1, <2>3, TreesStay
<1>5. ASSUME There(t), time - trees[t].born >= StaleAfter, ~(old.tried >= SweepLimit),
             LeaseAvailable(t),
             run' = [run EXCEPT ![r] = [old EXCEPT !.sweep = rest, !.tried = @ + 1,
                                                   !.target = t, !.pc = "remove"]]
      PROVE  RunsInv'
  <2> PICK new : new = [old EXCEPT !.sweep = rest, !.tried = @ + 1, !.target = t, !.pc = "remove"]
    OBVIOUS
  <2>0. t \in 1..count /\ count \in Nat
    BY <1>5 DEF RunsInv, TreesFine, There
  <2>1. /\ new.pc = "remove" /\ new.tree = None /\ new.sweep = rest /\ new.target = t
        /\ new \in RunRecords
    <3>1. old.tried + 1 \in 0..SweepLimit
      BY <1>1, <1>5, NativeConstants DEF RunRecords, NativeAssumption
    <3>2. rest \subseteq Nat /\ t \in Nat
      BY <1>1, <2>0 DEF RunRecords
    <3> QED BY <1>1, <3>1, <3>2 DEF RunRecords
  <2>2. run'[r] = new
    BY <1>5 DEF RunsInv
  <2>3. RunFine(r)'
    BY <1>1, <1>2, <2>0, <2>1, <2>2 DEF RunFine, Active
  <2>4. Prompt => \A s \in Runners : run[s] # None /\ Active(s) => t # run[s].tree
    BY <1>5, StaleIsIdle DEF LeaseAvailable
  <2> QED BY <1>2, <1>5, <2>1, <2>3, <2>4, TreesStay
<1> QED BY <1>3, <1>4, <1>5

LEMMA WithoutFacts ==
  ASSUME NEW t
  PROVE  /\ DOMAIN Without(t) = DOMAIN trees \ {t}
         /\ \A u \in DOMAIN trees \ {t} : Without(t)[u] = trees[u]
BY DEF Without

(* A run goes on after the tree t was removed, or would not go. *)
LEMMA RemovalKeeps ==
  ASSUME RunsInv, NEW r \in Runners, NEW new, new \in RunRecords, run[r] # None,
         run' = [run EXCEPT ![r] = new], UNCHANGED <<time, count>>, NEW t,
         trees' = Without(t) \/ trees' = trees,
         Prompt => \A s \in Runners \ {r} : run[s] # None /\ Active(s) => t # run[s].tree,
         RunFine(r)',
         new.pc \in {"sweep", "done"}, new.tree = run[r].tree
  PROVE  RunsInv'
<1>1. /\ DOMAIN trees' \subseteq DOMAIN trees
      /\ DOMAIN trees \subseteq DOMAIN trees' \cup {t}
      /\ \A u \in DOMAIN trees' : trees'[u] = trees[u]
  <2>1. CASE trees' = Without(t)
    BY <2>1, WithoutFacts
  <2>2. CASE trees' = trees
    BY <2>2
  <2> QED BY <2>1, <2>2
<1>2. TreesFine'
  BY <1>1 DEF RunsInv, TreesFine
<1>3. count' \in 0..MaxRuns /\ count <= count'
  BY NativeConstants DEF RunsInv, NativeAssumption
<1>4. \A s \in Runners \ {r} : run[s] # None /\ Active(s) => StillThere(s)
  BY <1>1 DEF StillThere, There
<1> QED BY <1>1, <1>2, <1>3, <1>4, OneMoves

LEMMA SweepRemoveKeeps ==
  ASSUME RunsInv, NEW r \in Runners, SweepRemove(r)
  PROVE  RunsInv'
<1> PICK old : old = run[r] OBVIOUS
<1> PICK new : new = [old EXCEPT !.pc = "sweep", !.target = None] OBVIOUS
<1>1. /\ old # None /\ old \in RunRecords /\ old.pc = "remove" /\ old.tree = None
      /\ old.sweep \subseteq 1..count
  BY DEF RunsInv, RunFine, SweepRemove, RunAt
<1>2. new \in RunRecords /\ new.pc = "sweep" /\ new.tree = None /\ new.sweep = old.sweep
  BY <1>1 DEF RunRecords
<1>3. run' = [run EXCEPT ![r] = new] /\ UNCHANGED <<time, count>>
  BY DEF SweepRemove
<1>4. trees' = Without(old.target) \/ trees' = trees
  BY DEF SweepRemove
<1>5. run'[r] = new
  BY <1>3 DEF RunsInv
<1>6. RunFine(r)'
  BY <1>1, <1>2, <1>3, <1>5 DEF RunFine, Active
<1>7. Prompt => \A s \in Runners \ {r} : run[s] # None /\ Active(s) => old.target # run[s].tree
  BY <1>1 DEF RunsInv, TargetsIdle
<1>8. run[r] # None /\ new.tree = run[r].tree /\ new.pc \in {"sweep", "done"}
  BY <1>1, <1>2
<1> QED BY <1>2, <1>3, <1>4, <1>6, <1>7, <1>8, RemovalKeeps

LEMMA MakeKeeps ==
  ASSUME RunsInv, NEW r \in Runners, Make(r)
  PROVE  RunsInv'
<1> PICK old : old = run[r] OBVIOUS
<1> PICK n : n = count + 1 OBVIOUS
<1> PICK new : new = [old EXCEPT !.pc = "lease", !.tree = n] OBVIOUS
<1> PICK mine : mine = [born |-> time, lock |-> "no"] OBVIOUS
<1>0. /\ count \in Nat /\ time \in Nat /\ time \in 0..MaxTime /\ n \in 0..MaxRuns
      /\ n \in Nat /\ n \in 1..n /\ 1..count \subseteq 1..n
  BY NativeConstants DEF RunsInv, Make, NativeAssumption
<1>1. /\ old # None /\ old \in RunRecords /\ old.pc = "sweep"
      /\ old.sweep \subseteq 1..count
  BY DEF RunsInv, RunFine, Make, RunAt
<1>2. new \in RunRecords /\ new.pc = "lease" /\ new.tree = n /\ new.sweep = old.sweep
  BY <1>0, <1>1 DEF RunRecords
<1>3. run' = [run EXCEPT ![r] = new] /\ UNCHANGED time /\ count' = n
  BY DEF Make
<1>4. /\ DOMAIN trees' = DOMAIN trees \cup {n}
      /\ trees'[n] = mine
      /\ \A t \in DOMAIN trees : t # n => trees'[t] = trees[t]
  BY DEF Make
<1>5. \A t \in DOMAIN trees : t \in 1..count /\ t # n
  BY <1>0 DEF RunsInv, TreesFine
<1>6. TreesFine'
  BY <1>0, <1>3, <1>4, <1>5 DEF RunsInv, TreesFine
<1>7. \A t \in DOMAIN trees' : t \in DOMAIN trees \/ t > count
  BY <1>0, <1>4
<1>8. \A s \in Runners \ {r} : run[s] # None /\ Active(s) => StillThere(s)
  <2> SUFFICES ASSUME NEW s \in Runners \ {r}, run[s] # None, Active(s)
               PROVE  StillThere(s)
    OBVIOUS
  <2>1. run[s].tree \in 1..count
    BY DEF RunsInv, RunFine, Active
  <2> QED BY <1>0, <1>4, <1>5, <2>1 DEF StillThere, There
<1>9. run'[r] = new
  BY <1>3 DEF RunsInv
<1>10. RunFine(r)'
  <2>1. new.sweep \subseteq 1..count' /\ new.tree \in 1..count'
    BY <1>0, <1>1, <1>2, <1>3
  <2>2. new.tree \in DOMAIN trees' /\ trees'[new.tree].born = time'
    BY <1>2, <1>3, <1>4
  <2> QED BY <1>2, <1>9, <2>1, <2>2 DEF RunFine, Active, There
<1>11. count' \in 0..MaxRuns /\ count <= count' /\ new.tree > count
  BY <1>0, <1>2, <1>3
<1> QED BY <1>2, <1>3, <1>6, <1>7, <1>8, <1>10, <1>11, OneMoves

LEMMA LeaseKeeps ==
  ASSUME RunsInv, NEW r \in Runners, Lease(r)
  PROVE  RunsInv'
<1> PICK old : old = run[r] OBVIOUS
<1>0. count \in 0..MaxRuns /\ count \in Nat
  BY NativeConstants DEF RunsInv, NativeAssumption
<1>1. /\ old # None /\ old \in RunRecords /\ old.pc = "lease" /\ old.tree \in 1..count
      /\ old.sweep \subseteq 1..count /\ Active(r)
  BY DEF RunsInv, RunFine, Lease, RunAt, Active
<1>2. UNCHANGED <<time, count>>
  BY DEF Lease
<1>3. CASE There(old.tree)
  <2> PICK new : new = [old EXCEPT !.pc = "running"] OBVIOUS
  <2> PICK row : row = [trees[old.tree] EXCEPT !.lock = "held"] OBVIOUS
  <2>1. new \in RunRecords /\ new.pc = "running" /\ new.tree = old.tree /\ new.sweep = old.sweep
    BY <1>1 DEF RunRecords
  <2>2. run' = [run EXCEPT ![r] = new]
    BY <1>3 DEF Lease, Goes
  <2>3. trees' = [trees EXCEPT ![old.tree] = row]
    BY <1>3 DEF Lease
  <2>4. row \in [born: 0..time, lock: {"no", "free", "held"}] /\ row.lock = "held"
    BY <1>3 DEF RunsInv, TreesFine, There
  <2>5. /\ DOMAIN trees' = DOMAIN trees /\ trees'[old.tree] = row
        /\ \A t \in DOMAIN trees \ {old.tree} : trees'[t] = trees[t]
    BY <1>3, <2>3 DEF There
  <2>6. TreesFine'
    BY <1>2, <2>4, <2>5 DEF RunsInv, TreesFine
  <2>7. \A s \in Runners \ {r} : run[s] # None /\ Active(s) => StillThere(s)
    <3> SUFFICES ASSUME NEW s \in Runners \ {r}, run[s] # None, Active(s)
                 PROVE  StillThere(s)
      OBVIOUS
    <3>1. run[s].tree # old.tree
      <4>1. old.tree # None
        BY <1>0, <1>1, NativeConstants DEF NativeAssumption
      <4> QED BY <1>1, <4>1 DEF RunsInv, OwnersDiffer
    <3> QED BY <2>5, <3>1 DEF StillThere, There
  <2>8. run'[r] = new
    BY <2>2 DEF RunsInv
  <2>9. RunFine(r)'
    BY <1>1, <1>2, <1>3, <2>1, <2>4, <2>5, <2>8 DEF RunFine, Active, There
  <2>10. count' \in 0..MaxRuns /\ count <= count'
    BY <1>0, <1>2
  <2>11. run[r] # None /\ Active(r) /\ new.tree = run[r].tree
    BY <1>1, <2>1
  <2> QED BY <1>2, <2>1, <2>2, <2>5, <2>6, <2>7, <2>9, <2>10, <2>11, OneMoves
<1>4. CASE ~There(old.tree)
  <2> PICK new : new = [old EXCEPT !.pc = "fail"] OBVIOUS
  <2>1. new \in RunRecords /\ new.pc = "fail" /\ new.tree = old.tree /\ new.sweep = old.sweep
    BY <1>1 DEF RunRecords
  <2>2. run' = [run EXCEPT ![r] = new] /\ UNCHANGED trees
    BY <1>4 DEF Lease
  <2>3. run'[r] = new
    BY <2>2 DEF RunsInv
  <2>4. RunFine(r)'
    BY <1>1, <1>2, <2>1, <2>3 DEF RunFine, Active
  <2> QED BY <1>1, <1>2, <2>1, <2>2, <2>4, TreesStay
<1> QED BY <1>3, <1>4

(* The lock of a run's own tree is released, if the tree is there. *)
LEMMA UnlockKeeps ==
  ASSUME RunsInv, NEW r \in Runners, run[r] # None, UNCHANGED <<time, count>>,
         DOMAIN trees' = DOMAIN trees,
         \A t \in DOMAIN trees : t # run[r].tree => trees'[t] = trees[t],
         \A t \in DOMAIN trees : t = run[r].tree =>
           trees'[t] \in {trees[t], [trees[t] EXCEPT !.lock = "free"]},
         NEW new, new \in RunRecords \cup {None}, run' = [run EXCEPT ![r] = new], RunFine(r)',
         new # None => new.pc \in {"cleanup", "fail"} /\ new.tree = run[r].tree
  PROVE  RunsInv'
<1>1. TreesFine'
  <2> SUFFICES ASSUME NEW t \in DOMAIN trees
               PROVE  trees'[t] \in [born: 0..time, lock: {"no", "free", "held"}]
    BY DEF RunsInv, TreesFine
  <2>1. trees[t] \in [born: 0..time, lock: {"no", "free", "held"}]
    BY DEF RunsInv, TreesFine
  <2> PICK row : row = [trees[t] EXCEPT !.lock = "free"] OBVIOUS
  <2>2. row \in [born: 0..time, lock: {"no", "free", "held"}]
    BY <2>1
  <2>3. trees'[t] = trees[t] \/ trees'[t] = row
    OBVIOUS
  <2> QED BY <2>1, <2>2, <2>3
<1>2. count' \in 0..MaxRuns /\ count <= count'
  BY NativeConstants DEF RunsInv, NativeAssumption
<1>3. \A s \in Runners \ {r} : run[s] # None /\ Active(s) => StillThere(s)
  <2> SUFFICES ASSUME NEW s \in Runners \ {r}, run[s] # None, Active(s)
               PROVE  StillThere(s)
    OBVIOUS
  <2>1. run[s].tree \in 1..count /\ run[s].tree # None
    BY NativeConstants DEF RunsInv, RunFine, Active, NativeAssumption
  <2>2. run[s].tree # run[r].tree
    BY <2>1 DEF RunsInv, OwnersDiffer
  <2> QED BY <2>2 DEF StillThere, There
<1> QED BY <1>1, <1>2, <1>3, OneMoves

LEMMA ExitKeeps ==
  ASSUME RunsInv, NEW r \in Runners, Exit(r)
  PROVE  RunsInv'
<1> PICK old : old = run[r] OBVIOUS
<1>1. /\ old # None /\ old \in RunRecords /\ old.pc = "running" /\ old.tree \in 1..count
      /\ old.sweep \subseteq 1..count
  BY DEF RunsInv, RunFine, Exit, RunAt
<1> PICK new : /\ run' = [run EXCEPT ![r] = new]
               /\ new = [old EXCEPT !.pc = "cleanup"] \/ new = [old EXCEPT !.pc = "fail"]
  <2>1. PICK how \in {"RESULT", "ERROR"} :
          run' = [run EXCEPT ![r].pc = IF how = "RESULT" THEN "cleanup" ELSE "fail"]
    BY DEF Exit
  <2> PICK pc : pc = IF how = "RESULT" THEN "cleanup" ELSE "fail" OBVIOUS
  <2>2. run' = [run EXCEPT ![r] = [old EXCEPT !.pc = pc]] /\ pc \in {"cleanup", "fail"}
    BY <2>1
  <2> QED BY <2>2
<1>2. new \in RunRecords /\ new.pc \in {"cleanup", "fail"} /\ new.tree = old.tree /\ new.sweep = old.sweep
  BY <1>1 DEF RunRecords
<1>3. UNCHANGED <<time, count>>
  BY DEF Exit
<1>4. run'[r] = new
  BY DEF RunsInv
<1>5. RunFine(r)'
  BY <1>1, <1>2, <1>3, <1>4 DEF RunFine, Active
<1>6. /\ DOMAIN trees' = DOMAIN trees
      /\ \A t \in DOMAIN trees : t # old.tree => trees'[t] = trees[t]
      /\ \A t \in DOMAIN trees : t = old.tree =>
           trees'[t] \in {trees[t], [trees[t] EXCEPT !.lock = "free"]}
  BY DEF Exit, There
<1> QED BY <1>1, <1>2, <1>3, <1>5, <1>6, UnlockKeeps

LEMMA DieKeeps ==
  ASSUME RunsInv, NEW r \in Runners, Die(r)
  PROVE  RunsInv'
<1>1. run' = [run EXCEPT ![r] = None] /\ run[r] # None /\ UNCHANGED <<time, count>>
  BY DEF Die
<1>2. RunFine(r)'
  BY <1>1 DEF RunsInv, RunFine
<1>3. /\ DOMAIN trees' = DOMAIN trees
      /\ \A t \in DOMAIN trees : t # run[r].tree => trees'[t] = trees[t]
      /\ \A t \in DOMAIN trees : t = run[r].tree =>
           trees'[t] \in {trees[t], [trees[t] EXCEPT !.lock = "free"]}
  BY DEF Die
<1> QED BY <1>1, <1>2, <1>3, UnlockKeeps

LEMMA CleanupKeeps ==
  ASSUME RunsInv, NEW r \in Runners, Cleanup(r) \/ Fail(r)
  PROVE  RunsInv'
<1> PICK old : old = run[r] OBVIOUS
<1>0. /\ old # None /\ old \in RunRecords /\ old.tree \in 1..count /\ old.tree # None
      /\ old.sweep \subseteq 1..count /\ UNCHANGED <<time, count>>
  BY NativeConstants DEF RunsInv, RunFine, Cleanup, Fail, RunAt, NativeAssumption
<1>1. PICK code \in {"RESULT", "COMMAND_CLEANUP_FAILED", "COMMAND_EXECUTION_FAILED"} :
        /\ run' = [run EXCEPT ![r] = [old EXCEPT !.pc = "done", !.code = code]]
        /\ trees' = Without(old.tree) \/ trees' = trees
        /\ code = "RESULT" => trees' = Without(old.tree)
  BY DEF Cleanup, Fail
<1> PICK new : new = [old EXCEPT !.pc = "done", !.code = code] OBVIOUS
<1>2. /\ new.pc = "done" /\ new.tree = old.tree /\ new.sweep = old.sweep /\ new.code = code
      /\ new \in RunRecords
  BY <1>0 DEF RunRecords
<1>3. run'[r] = new
  BY <1>1 DEF RunsInv
<1>4. code = "RESULT" => ~There(old.tree)'
  BY <1>1, WithoutFacts DEF There
<1>5. RunFine(r)'
  BY <1>0, <1>2, <1>3, <1>4 DEF RunFine, Active
<1>6. \A s \in Runners \ {r} : run[s] # None /\ Active(s) => old.tree # run[s].tree
  BY <1>0 DEF RunsInv, OwnersDiffer
<1>7. run[r] # None /\ new.tree = run[r].tree /\ new.pc \in {"sweep", "done"}
  BY <1>0, <1>2
<1> QED BY <1>0, <1>1, <1>2, <1>5, <1>6, <1>7, RemovalKeeps

LEMMA ReturnRunKeeps ==
  ASSUME RunsInv, NEW r \in Runners, ReturnRun(r)
  PROVE  RunsInv'
<1>1. run' = [run EXCEPT ![r] = None] /\ UNCHANGED <<time, trees, count>>
  BY DEF ReturnRun
<1>2. RunFine(r)'
  BY <1>1 DEF RunsInv, RunFine
<1> QED BY <1>1, <1>2, TreesStay

(* Time does not pass between a tree's making and its lock. *)
LEMMA TickKeeps ==
  ASSUME RunsInv, Tick
  PROVE  RunsInv'
<1>1. time' \in 0..MaxTime /\ time \in Nat /\ time' = time + 1 /\ UNCHANGED <<trees, run, count>>
  BY NativeConstants DEF RunsInv, Tick, NativeAssumption
<1>2. TreesFine'
  BY <1>1 DEF RunsInv, TreesFine
<1>3. \A r \in Runners : RunFine(r)'
  BY <1>1 DEF RunsInv, RunFine, Tick, RunAt, Active, There
<1>4. OwnersDiffer' /\ TargetsIdle'
  BY <1>1 DEF RunsInv, OwnersDiffer, TargetsIdle, Active
<1> QED BY <1>1, <1>2, <1>3, <1>4 DEF RunsInv

LEMMA RunsInvKept ==
  ASSUME RunsInv, RunsNext \/ UNCHANGED runsVars
  PROVE  RunsInv'
<1>1. CASE UNCHANGED runsVars
  BY <1>1 DEF runsVars, RunsInv, TreesFine, RunFine, OwnersDiffer, TargetsIdle, Active, There
<1>2. CASE Tick
  BY <1>2, TickKeeps
<1>3. ASSUME NEW r \in Runners,
             \/ BeginRun(r) \/ SweepNext(r) \/ SweepRemove(r) \/ Make(r) \/ Lease(r) \/ Exit(r)
             \/ Cleanup(r) \/ Fail(r) \/ ReturnRun(r) \/ Die(r)
      PROVE  RunsInv'
  BY <1>3, BeginRunKeeps, SweepNextKeeps, SweepRemoveKeeps, MakeKeeps, LeaseKeeps, ExitKeeps,
     CleanupKeeps, ReturnRunKeeps, DieKeeps
<1> QED BY <1>1, <1>2, <1>3 DEF RunsNext

LEMMA RunsInitFine == RunsInit => RunsInv
BY NativeConstants
   DEF RunsInit, RunsInv, TreesFine, RunFine, OwnersDiffer, TargetsIdle, NativeAssumption

-------------------------------------------------------------------------------
(* Proofs: the files *)

Inside == Paths \ Outside

(* What an operation relies on once it has a temporary file: a place inside *)
(* the root, and, for a condition, the second look at the file.             *)
AtWork(o) == o # None /\ o.pc \in {"temp", "replace"}
OpOK(o) ==
  /\ o \in Operations
  /\ AtWork(o) => o.path \in Inside
  /\ o.pc = "replace" /\ o.expected # None => o.checked = TRUE

(* Operations have numbers of their own, by which their temporary files are *)
(* known; those of operations that ended may be left.                       *)
OpsInv ==
  /\ ops \in 0..MaxOps
  /\ op = [p \in Workers |-> op[p]]
  /\ \A p \in Workers : op[p] # None => OpOK(op[p]) /\ op[p].n <= ops
  /\ \A p, q \in Workers : op[p] # None /\ op[q] # None /\ op[p].n = op[q].n => p = q
  /\ temps \subseteq 1..ops
  /\ \A p \in Workers : AtWork(op[p]) => op[p].n \in temps

(* A file that create_text_if_absent has made is there until it is removed. *)
DataInv ==
  /\ files \in [Inside -> {None} \cup Contents]
  /\ made \in [Inside -> {0, 1}]
  /\ \A x \in Inside : made[x] = 1 => files[x] # None
  /\ edits \in 0..MaxEdits
  /\ ChangeSeenBeforeReplace

FilesInv == OpsInv /\ DataInv

LEMMA OpIsSome == \A o : OpOK(o) => o # None
BY NativeConstants DEF OpOK, NativeAssumption

LEMMA OneOpMoves ==
  ASSUME OpsInv, NEW p \in Workers, NEW new,
         op' = [op EXCEPT ![p] = new], ops' \in 0..MaxOps, ops <= ops',
         new # None => /\ OpOK(new) /\ new.n <= ops'
                       /\ new.n > ops \/ (op[p] # None /\ new.n = op[p].n),
         temps' \subseteq 1..ops',
         \A m \in temps : m \in temps' \/ (AtWork(op[p]) /\ m = op[p].n),
         AtWork(new) => new.n \in temps'
  PROVE  OpsInv'
<1>0. ops \in Nat /\ ops' \in Nat
  BY NativeConstants DEF OpsInv, NativeAssumption
<1>1. op'[p] = new /\ \A q \in Workers \ {p} : op'[q] = op[q]
  BY DEF OpsInv
<1>2. op' = [q \in Workers |-> op'[q]]
  BY DEF OpsInv
<1>3. \A q \in Workers : op[q] # None => OpOK(op[q]) /\ op[q].n \in Nat /\ op[q].n <= ops
  BY DEF OpsInv, OpOK, Operations
<1>4. \A q \in Workers : op'[q] # None => OpOK(op'[q]) /\ op'[q].n <= ops'
  BY <1>0, <1>1, <1>3
<1>5. ASSUME NEW a \in Workers, NEW b \in Workers, op'[a] # None, op'[b] # None,
             op'[a].n = op'[b].n
      PROVE  a = b
  <2>0. new # None => new.n \in Nat
    BY DEF OpOK, Operations
  <2>1. CASE a # p /\ b # p
    BY <1>1, <1>5, <2>1 DEF OpsInv
  <2>2. CASE a = p /\ b # p
    BY <1>0, <1>1, <1>3, <1>5, <2>0, <2>2 DEF OpsInv
  <2>3. CASE b = p /\ a # p
    BY <1>0, <1>1, <1>3, <1>5, <2>0, <2>3 DEF OpsInv
  <2> QED BY <2>1, <2>2, <2>3
<1>6. ASSUME NEW q \in Workers, AtWork(op'[q])
      PROVE  op'[q].n \in temps'
  <2>1. CASE q = p
    BY <1>1, <1>6, <2>1
  <2>2. CASE q # p
    <3>1. AtWork(op[q]) /\ op[q].n \in temps
      BY <1>1, <1>6, <2>2 DEF OpsInv
    <3>2. ~(AtWork(op[p]) /\ op[q].n = op[p].n)
      BY <2>2, <3>1 DEF OpsInv, AtWork
    <3> QED BY <1>1, <2>2, <3>1, <3>2
  <2> QED BY <2>1, <2>2
<1>7. (\A q \in Workers : AtWork(op[q]) => op[q].n \in temps)'
  BY <1>6 DEF AtWork
<1> QED BY <1>2, <1>4, <1>5, <1>7 DEF OpsInv, OpOK, AtWork

(* An operation ends: with its temporary file or without it. *)
LEMMA EndOfOp ==
  ASSUME OpsInv, NEW p \in Workers, AtWork(op[p]), NEW new,
         op' = [op EXCEPT ![p] = new], UNCHANGED ops, Unlink(p),
         NEW code \in Codes,
         \E t \in BOOLEAN : new = [op[p] EXCEPT !.pc = "done", !.code = code, !.touched = t]
  PROVE  OpsInv'
<1> PICK t \in BOOLEAN : new = [op[p] EXCEPT !.pc = "done", !.code = code, !.touched = t]
  OBVIOUS
<1> PICK old : old = op[p] OBVIOUS
<1>1. old # None /\ OpOK(old) /\ old.n <= ops
  BY DEF OpsInv, AtWork
<1>2. OpOK(new) /\ new.pc = "done" /\ new.n = old.n
  BY <1>1 DEF OpOK, AtWork, Operations
<1>3. ops' \in 0..MaxOps /\ ops <= ops'
  BY NativeConstants DEF OpsInv, NativeAssumption
<1>4. ~AtWork(new)
  BY <1>2 DEF AtWork
<1>5. temps' \subseteq 1..ops' /\ \A m \in temps : m \in temps' \/ (AtWork(op[p]) /\ m = op[p].n)
  BY DEF Unlink, OpsInv
<1> QED BY <1>1, <1>2, <1>3, <1>4, <1>5, OneOpMoves

LEMMA DataStays ==
  ASSUME DataInv, UNCHANGED <<files, edits, made, lost>>
  PROVE  DataInv'
BY DEF DataInv, ChangeSeenBeforeReplace

LEMMA AdmittedIsInside ==
  ASSUME NEW p, NEW x, NEW c, Refusal(p, x, c) = "OK"
  PROVE  x \notin Outside
BY DEF Refusal

LEMMA StartKeeps ==
  ASSUME FilesInv, NEW p \in Workers, Start(p)
  PROVE  FilesInv'
<1>1. PICK kind \in {"write", "create"}, x \in Paths, c \in Contents,
           e \in {None} \union (Contents \ TooLarge) :
        LET refusal == Refusal(p, x, c)
            code == IF refusal # "OK" THEN refusal
                    ELSE IF kind = "write" THEN WriteCheck(x, e) ELSE CreateCheck(x)
        IN /\ op[p] = None /\ ops < MaxOps /\ ops' = ops + 1
           /\ kind = "create" => e = None
           /\ op' = [op EXCEPT ![p] = [n |-> ops + 1, kind |-> kind, path |-> x, content |-> c,
                                       expected |-> e, checked |-> FALSE, touched |-> FALSE,
                                       pc |-> IF code = "OK" THEN "temp" ELSE "done",
                                       code |-> code]]
           /\ temps' = IF code = "OK" THEN temps \union {ops + 1} ELSE temps
           /\ UNCHANGED <<files, edits, made, lost>>
  BY DEF Start
<1> PICK code : code = IF Refusal(p, x, c) # "OK" THEN Refusal(p, x, c)
                       ELSE IF kind = "write" THEN WriteCheck(x, e) ELSE CreateCheck(x) OBVIOUS
<1> PICK pc : pc = IF code = "OK" THEN "temp" ELSE "done" OBVIOUS
<1> PICK n : n = ops + 1 OBVIOUS
<1> PICK new : new = [n |-> n, kind |-> kind, path |-> x, content |-> c,
                      expected |-> e, checked |-> FALSE, touched |-> FALSE, pc |-> pc, code |-> code]
  OBVIOUS
<1>2. /\ op[p] = None /\ ops < MaxOps /\ ops' = n
      /\ op' = [op EXCEPT ![p] = new]
      /\ temps' = IF code = "OK" THEN temps \union {n} ELSE temps
      /\ UNCHANGED <<files, edits, made, lost>>
  BY <1>1
<1>3. code = "OK" => x \in Inside
  <2>1. code = "OK" => Refusal(p, x, c) = "OK"
    OBVIOUS
  <2> QED BY <2>1, AdmittedIsInside DEF Inside
<1>4. ops \in Nat /\ n \in Nat /\ n > ops /\ n \in 0..MaxOps
  BY <1>2, NativeConstants DEF FilesInv, OpsInv, NativeAssumption
<1>5. new.n = n /\ new.pc = pc /\ new.path = x /\ new.content = c
  OBVIOUS
<1>6. pc \in {"temp", "done"} /\ (pc = "temp" <=> code = "OK")
  OBVIOUS
<1>7. new \in Operations
  <2>1. code \in Codes
    BY DEF Refusal, WriteCheck, CreateCheck, Codes
  <2> QED BY <1>4, <1>6, <2>1 DEF Operations
<1>8. OpOK(new) /\ new # None
  <2>1. OpOK(new)
    BY <1>3, <1>5, <1>6, <1>7 DEF OpOK, AtWork
  <2> QED BY <2>1, OpIsSome
<1>9. AtWork(new) <=> code = "OK"
  BY <1>5, <1>6, <1>8 DEF AtWork
<1>10. OpsInv'
  <2>1. ~AtWork(op[p])
    BY <1>2 DEF AtWork
  <2>2. /\ temps' \subseteq 1..ops' /\ \A m \in temps : m \in temps'
        /\ AtWork(new) => new.n \in temps'
    BY <1>2, <1>4, <1>5, <1>9 DEF FilesInv, OpsInv
  <2>3. ops <= ops' /\ ops' \in 0..MaxOps /\ new.n <= ops' /\ new.n > ops
    BY <1>2, <1>4, <1>5
  <2> QED BY <1>2, <1>8, <2>1, <2>2, <2>3, OneOpMoves DEF FilesInv
<1> QED BY <1>2, <1>10, DataStays DEF FilesInv

(* An operation at work ends with this answer; what it did to the data is   *)
(* left to show.                                                            *)
LEMMA AnswerKeepsOps ==
  ASSUME FilesInv, NEW p \in Workers, AtWork(op[p]), NEW code \in Codes, UNCHANGED ops,
         Unlink(p),
         \/ op' = [op EXCEPT ![p].pc = "done", ![p].code = code]
         \/ op' = [op EXCEPT ![p].pc = "done", ![p].code = code, ![p].touched = TRUE]
  PROVE  OpsInv'
<1> PICK old : old = op[p] OBVIOUS
<1>1. old \in Operations
  BY DEF FilesInv, OpsInv, OpOK, AtWork
<1>2. CASE op' = [op EXCEPT ![p].pc = "done", ![p].code = code]
  <2> PICK t : t = old.touched OBVIOUS
  <2> PICK new : new = [old EXCEPT !.pc = "done", !.code = code, !.touched = t] OBVIOUS
  <2>1. new = [old EXCEPT !.pc = "done", !.code = code] /\ t \in BOOLEAN
    BY <1>1 DEF Operations
  <2>2. op' = [op EXCEPT ![p] = new]
    BY <1>2, <2>1
  <2>3. OpsInv /\ \E u \in BOOLEAN :
                   new = [op[p] EXCEPT !.pc = "done", !.code = code, !.touched = u]
    BY <2>1 DEF FilesInv
  <2> QED BY <2>2, <2>3, EndOfOp
<1>3. CASE op' = [op EXCEPT ![p].pc = "done", ![p].code = code, ![p].touched = TRUE]
  <2> PICK new : new = [old EXCEPT !.pc = "done", !.code = code, !.touched = TRUE] OBVIOUS
  <2>2. op' = [op EXCEPT ![p] = new]
    BY <1>3
  <2>3. OpsInv /\ \E u \in BOOLEAN :
                   new = [op[p] EXCEPT !.pc = "done", !.code = code, !.touched = u]
    BY DEF FilesInv
  <2> QED BY <2>2, <2>3, EndOfOp
<1> QED BY <1>2, <1>3

LEMMA SecondCheckKeeps ==
  ASSUME FilesInv, NEW p \in Workers, SecondCheck(p)
  PROVE  FilesInv'
<1> PICK old : old = op[p] OBVIOUS
<1>1. /\ old # None /\ old.pc = "temp" /\ AtWork(old) /\ OpOK(old) /\ old.n <= ops
      /\ UNCHANGED <<files, ops, edits, made, lost>>
  BY DEF SecondCheck, OpAt, AtWork, FilesInv, OpsInv
<1>2. CASE old.expected # None /\ files[old.path] # old.expected
  <2>1. /\ op' = [op EXCEPT ![p].pc = "done", ![p].code = "FILE_PRECONDITION_FAILED"]
        /\ Unlink(p)
    BY <1>2 DEF SecondCheck, Ended
  <2>2. OpsInv'
    BY <1>1, <2>1, AnswerKeepsOps DEF Codes
  <2> QED BY <1>1, <2>2, DataStays DEF FilesInv
<1>3. CASE ~(old.expected # None /\ files[old.path] # old.expected)
  <2> PICK b : b = (files[old.path] = old.expected) OBVIOUS
  <2> PICK new : new = [old EXCEPT !.pc = "replace", !.checked = b] OBVIOUS
  <2>1. op' = [op EXCEPT ![p] = new] /\ temps' = temps
    BY <1>3 DEF SecondCheck
  <2>2. b \in BOOLEAN /\ (old.expected # None => b = TRUE)
    BY <1>3
  <2>3. /\ new.pc = "replace" /\ new.n = old.n /\ new.path = old.path
        /\ new.expected = old.expected /\ new.checked = b /\ new \in Operations
    BY <1>1, <2>2 DEF OpOK, Operations
  <2>4. OpOK(new) /\ new # None
    BY <1>1, <2>2, <2>3, OpIsSome DEF OpOK, AtWork
  <2>5. AtWork(new) /\ old.n \in temps
    BY <1>1, <2>3, <2>4 DEF AtWork, FilesInv, OpsInv
  <2>6. ops' \in 0..MaxOps /\ ops <= ops'
    BY <1>1, NativeConstants DEF FilesInv, OpsInv, NativeAssumption
  <2>7. new.n <= ops' /\ op[p] # None /\ new.n = op[p].n
    BY <1>1, <2>3
  <2>8. /\ temps' \subseteq 1..ops' /\ new.n \in temps'
        /\ \A m \in temps : m \in temps'
    BY <1>1, <2>1, <2>5, <2>7 DEF FilesInv, OpsInv
  <2>9. OpsInv'
    BY <2>1, <2>4, <2>6, <2>7, <2>8, OneOpMoves DEF FilesInv
  <2> QED BY <1>1, <2>9, DataStays DEF FilesInv
<1> QED BY <1>2, <1>3

LEMMA ReplaceKeeps ==
  ASSUME FilesInv, NEW p \in Workers, Replace(p)
  PROVE  FilesInv'
<1> PICK old : old = op[p] OBVIOUS
<1>1. /\ AtWork(old) /\ old.pc = "replace" /\ OpOK(old) /\ old.path \in Inside /\ old.content \in Contents
      /\ UNCHANGED <<ops, edits, made>> /\ Unlink(p)
  BY DEF Replace, Unlink, OpAt, AtWork, FilesInv, OpsInv, OpOK, Operations
<1>2. OpsInv'
  BY <1>1, AnswerKeepsOps DEF Replace, Codes
<1>3. files' = [files EXCEPT ![old.path] = old.content]
  BY DEF Replace
<1>4. old.content # None
  BY <1>1, NativeConstants DEF NativeAssumption
<1>5. files' \in [Inside -> {None} \cup Contents] /\ \A x \in Inside : files[x] # None => files'[x] # None
  BY <1>1, <1>3, <1>4 DEF FilesInv, DataInv
<1>6. ChangeSeenBeforeReplace'
  <2> PICK b : b = (old.expected # None) OBVIOUS
  <2> PICK l : l = [expected |-> b, checked |-> old.checked] OBVIOUS
  <2>1. lost' = lost \/ lost' = lost \union {l}
    BY DEF Replace
  <2>2. l.expected => l.checked
    <3>1. b = TRUE => old.checked = TRUE
      BY <1>1 DEF OpOK
    <3> QED BY <3>1
  <2> QED BY <2>1, <2>2 DEF FilesInv, DataInv, ChangeSeenBeforeReplace
<1>7. DataInv'
  BY <1>1, <1>5, <1>6 DEF FilesInv, DataInv
<1> QED BY <1>2, <1>7 DEF FilesInv

LEMMA LinkKeeps ==
  ASSUME FilesInv, NEW p \in Workers, Link(p)
  PROVE  FilesInv'
<1> PICK old : old = op[p] OBVIOUS
<1>1. /\ AtWork(old) /\ OpOK(old) /\ old.path \in Inside /\ old.content \in Contents
      /\ UNCHANGED <<ops, edits, lost>> /\ Unlink(p)
  BY DEF Link, OpAt, AtWork, FilesInv, OpsInv, OpOK, Operations
<1>2. CASE files[old.path] # None
  <2>1. OpsInv'
    BY <1>1, <1>2, AnswerKeepsOps DEF Link, Ended, Codes
  <2> QED BY <1>1, <1>2, <2>1, DataStays DEF FilesInv, Link
<1>3. CASE files[old.path] = None
  <2>1. OpsInv'
    BY <1>1, <1>3, AnswerKeepsOps DEF Link, Codes
  <2>2. files' = [files EXCEPT ![old.path] = old.content] /\ made' = [made EXCEPT ![old.path] = @ + 1]
    BY <1>3 DEF Link
  <2>3. old.content # None
    BY <1>1, NativeConstants DEF NativeAssumption
  <2>4. made[old.path] = 0
    BY <1>1, <1>3 DEF FilesInv, DataInv
  <2>5. DataInv'
    BY <1>1, <2>2, <2>3, <2>4 DEF FilesInv, DataInv, ChangeSeenBeforeReplace
  <2> QED BY <2>1, <2>5 DEF FilesInv
<1> QED BY <1>2, <1>3

LEMMA WriteFailsKeeps ==
  ASSUME FilesInv, NEW p \in Workers, WriteFails(p)
  PROVE  FilesInv'
<1>1. /\ AtWork(op[p]) /\ Unlink(p)
      /\ UNCHANGED <<files, ops, edits, made, lost>>
      /\ op' = [op EXCEPT ![p].pc = "done", ![p].code = "FILE_WRITE_FAILED"]
  BY DEF WriteFails, OpAt, AtWork, Ended
<1>2. OpsInv'
  BY <1>1, AnswerKeepsOps DEF Codes
<1> QED BY <1>1, <1>2, DataStays DEF FilesInv

(* Returned or died: the worker has no operation, its file may be left. *)
LEMMA ReturnOpKeeps ==
  ASSUME FilesInv, NEW p \in Workers, ReturnOp(p) \/ Killed(p)
  PROVE  FilesInv'
<1>1. op' = [op EXCEPT ![p] = None] /\ UNCHANGED <<files, temps, ops, edits, made, lost>>
  BY DEF ReturnOp, Killed
<1>2. ops' \in 0..MaxOps /\ ops <= ops' /\ ~AtWork(None)
  BY <1>1, NativeConstants DEF FilesInv, OpsInv, NativeAssumption, AtWork
<1>3. temps' \subseteq 1..ops' /\ \A m \in temps : m \in temps'
  BY <1>1 DEF FilesInv, OpsInv
<1>4. OpsInv'
  BY <1>1, <1>2, <1>3, OneOpMoves DEF FilesInv
<1> QED BY <1>1, <1>4, DataStays DEF FilesInv

LEMMA EditKeeps ==
  ASSUME FilesInv, Edit
  PROVE  FilesInv'
<1>1. UNCHANGED <<op, temps, ops, lost>> /\ edits' \in 0..MaxEdits
  BY NativeConstants DEF FilesInv, DataInv, Edit, NativeAssumption
<1>2. OpsInv'
  BY <1>1 DEF FilesInv, OpsInv
<1>3. PICK x \in DOMAIN files, c \in {None} \union (Contents \ TooLarge) :
        /\ files' = [files EXCEPT ![x] = c]
        /\ made' = IF c = None THEN [made EXCEPT ![x] = 0] ELSE made
  BY DEF Edit
<1>4. DataInv'
  BY <1>1, <1>3 DEF FilesInv, DataInv, ChangeSeenBeforeReplace
<1> QED BY <1>2, <1>4 DEF FilesInv

LEMMA FilesInvKept ==
  ASSUME FilesInv, FilesNext \/ UNCHANGED filesVars
  PROVE  FilesInv'
<1>1. CASE UNCHANGED filesVars
  BY <1>1, DataStays DEF filesVars, FilesInv, OpsInv
<1>2. CASE Edit
  BY <1>2, EditKeeps
<1>3. ASSUME NEW p \in Workers,
             \/ Start(p) \/ SecondCheck(p) \/ Replace(p) \/ Link(p) \/ WriteFails(p)
             \/ ReturnOp(p) \/ Killed(p)
      PROVE  FilesInv'
  BY <1>3, StartKeeps, SecondCheckKeeps, ReplaceKeeps, LinkKeeps, WriteFailsKeeps, ReturnOpKeeps
<1> QED BY <1>1, <1>2, <1>3 DEF FilesNext

LEMMA FilesInitFine == FilesInit => FilesInv
<1> SUFFICES ASSUME FilesInit PROVE FilesInv
  OBVIOUS
<1>1. \A p \in Workers : op[p] = None /\ ~AtWork(op[p])
  BY DEF FilesInit, AtWork
<1>2. OpsInv
  BY <1>1, NativeConstants DEF FilesInit, OpsInv, NativeAssumption
<1>3. DataInv
  BY NativeConstants DEF FilesInit, DataInv, Inside, ChangeSeenBeforeReplace, NativeAssumption
<1> QED BY <1>2, <1>3 DEF FilesInv

-------------------------------------------------------------------------------
LEMMA NativeInvSafe == FilesInv /\ RunsInv => NativeSafety
<1> SUFFICES ASSUME FilesInv, RunsInv PROVE NativeSafety
  OBVIOUS
<1>1. \A p \in Workers : OpAt(p, "temp") \/ OpAt(p, "replace") => op[p].n \in temps
  BY DEF FilesInv, OpsInv, AtWork, OpAt
<1>2. FilesTypeOK
  BY <1>1 DEF FilesInv, OpsInv, DataInv, FilesTypeOK, Inside
<1>3. CreatedOnce /\ ChangeSeenBeforeReplace
  BY DEF FilesInv, DataInv, CreatedOnce
<1>4. RunsTypeOK
  BY DEF RunsInv, TreesFine, RunFine, RunRecords, OwnersDiffer, RunsTypeOK
<1>5. Prompt => ActiveNeverSwept
  BY DEF RunsInv, RunFine, Active, ActiveNeverSwept
<1>6. ResultMeansClean
  BY DEF RunsInv, RunFine, ResultMeansClean, RunAt
<1> QED BY <1>2, <1>3, <1>4, <1>5, <1>6 DEF NativeSafety

(***************************************************************************)
(* For any number of workers, files and runs, with others that edit at any  *)
(* moment, writes and clean-ups that fail, trees that resist their removal  *)
(* and processes that die: a path is made once, a change made before the    *)
(* second look is not overwritten by a write that names a hash, the tree of *)
(* an active run is never swept (by runs that lock their trees before they  *)
(* are old), and a result means that no tree of the run is left             *)
(* (native_execution.py).                                                   *)
(***************************************************************************)
THEOREM NativeIsSafe == NativeSpec => []NativeSafety
<1>1. NativeInit => FilesInv /\ RunsInv
  BY FilesInitFine, RunsInitFine DEF NativeInit
<1>2. FilesInv /\ RunsInv /\ [NativeNext]_<<filesVars, runsVars>> => (FilesInv /\ RunsInv)'
  BY FilesInvKept, RunsInvKept DEF NativeNext
<1> QED BY <1>1, <1>2, NativeInvSafe, PTL DEF NativeSpec

===============================================================================
