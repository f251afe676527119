----------------------------- MODULE GitTransactions ----------------------------
(***************************************************************************)
(* Stage and commit through native_git_transactions: a caller takes a       *)
(* snapshot of the repository (head, hash of the short status, hash of the  *)
(* staged diff) and asks with it to stage files or to commit; the adapter   *)
(* takes another one, refuses when they differ, and runs git.  A snapshot   *)
(* is three commands, and others edit, stage and commit between any two     *)
(* commands.  A diff stands for its hash.                                   *)
(***************************************************************************)
EXTENDS Naturals, Sequences, FiniteSets

CONSTANTS
  Files,       \* the files of the repository
  Filtered,    \* those of Files with a filter that runs a program
  Contents,    \* the contents of files
  Callers,
  MaxCommits,  \* bound on the commits
  MaxAsks,     \* bound on the requests
  MaxEdits,    \* bound on what others do
  None         \* nothing

GitAssumption ==
  Filtered \subseteq Files /\ MaxCommits \in Nat \ {0} /\ MaxAsks \in Nat /\ MaxEdits \in Nat

VARIABLES
  commits,  \* the commits: [tree, saw], saw is None or what the caller of a commit had seen
  index,    \* the content of each file in the index
  work,     \* and in the worktree
  seen,     \* the snapshot of each caller: None or a record
  ask,      \* the request of each caller: None or a record
  staged,   \* history: what the adapter staged: [tree, before, after, files, saw]
  asks, edits

gitVars == <<commits, index, work, seen, ask, staged, asks, edits>>

HeadSha == Len(commits)
Tree == commits[HeadSha].tree
(* status --short: which files are staged and which are changed. *)
Status == [f \in Files |-> <<index[f] # Tree[f], work[f] # index[f]>>]
(* diff --cached: the staged files with their old and new contents. *)
CachedOf(tree, idx) == [f \in {g \in Files : idx[g] # tree[g]} |-> <<tree[f], idx[f]>>]
Cached == CachedOf(Tree, index)

Working(p) == ask[p] # None
NoSnapshot == [head |-> 0, status |-> None, cached |-> None, pc |-> "head"]

GitInit ==
  /\ LET c == CHOOSE d \in Contents : TRUE
     IN /\ commits = <<[tree |-> [f \in Files |-> c], saw |-> None]>>
        /\ index = [f \in Files |-> c] /\ work = [f \in Files |-> c]
  /\ seen = [p \in Callers |-> NoSnapshot] /\ ask = [p \in Callers |-> None]
  /\ staged = {} /\ asks = 0 /\ edits = 0

Read(s) ==
  CASE s.pc = "head" -> [s EXCEPT !.head = HeadSha, !.pc = "status"]
    [] s.pc = "status" -> [s EXCEPT !.status = Status, !.pc = "cached"]
    [] s.pc = "cached" -> [s EXCEPT !.cached = Cached, !.pc = "whole"]

(* The caller's snapshot. *)
Snapshot(p) ==
  /\ ~Working(p) /\ seen[p].pc # "whole"
  /\ seen' = [seen EXCEPT ![p] = Read(@)]
  /\ UNCHANGED <<commits, index, work, ask, staged, asks, edits>>

(* stage and commit: the request with what the caller saw. *)
Request(p) ==
  /\ ~Working(p) /\ seen[p].pc = "whole" /\ asks < MaxAsks /\ asks' = asks + 1
  /\ \E files \in SUBSET Files :
       ask' = [ask EXCEPT ![p] = [files |-> files, now |-> NoSnapshot, old |-> {},
                                  pc |-> "check", code |-> "OK"]]
  /\ UNCHANGED <<commits, index, work, seen, staged, edits>>

(* _assert_preconditions: the adapter's own snapshot, and the comparison in *)
(* the order head, index, status.  A commit (of no files) needs something   *)
(* staged, a stage files without filters.                                   *)
(* Mutant: the staged diff is not compared. *)
DriftUnstaged(was, now) ==
  CASE now.head # was.head -> "GIT_HEAD_DRIFT"
    [] now.head = was.head /\ now.status # was.status -> "GIT_STATUS_DRIFT"
    [] OTHER -> "OK"
Drift(was, now) ==
  CASE now.head # was.head -> "GIT_HEAD_DRIFT"
    [] now.head = was.head /\ now.cached # was.cached -> "GIT_INDEX_DRIFT"
    [] now.head = was.head /\ now.cached = was.cached /\ now.status # was.status -> "GIT_STATUS_DRIFT"
    [] OTHER -> "OK"
Allowed(p, now) ==
  IF ask[p].files = {} THEN IF DOMAIN now.cached = {} THEN "GIT_NOTHING_STAGED" ELSE "OK"
  ELSE IF ask[p].files \intersect Filtered # {} THEN "GIT_FILTER_POLICY_UNSAFE" ELSE "OK"

(* History: the readings of request a that this step makes old. *)
Aged(a) ==
  IF a = None THEN None
  ELSE [a EXCEPT !.old = @
    \union (IF a.now.pc # "head" /\ commits' # commits THEN {"head"} ELSE {})
    \union (IF a.now.pc \in {"cached", "whole"} /\ <<commits, index, work>>' # <<commits, index, work>>
            THEN {"status"} ELSE {})
    \union (IF a.now.pc = "whole" /\ <<commits, index>>' # <<commits, index>>
            THEN {"cached"} ELSE {})]
Answered(p, pc, code) ==
  ask' = [q \in Callers |-> IF q = p THEN [ask[p] EXCEPT !.pc = pc, !.code = code] ELSE Aged(ask[q])]

Check(p) ==
  LET now == Read(ask[p].now)
      code == IF now.pc # "whole" THEN "OK"
              ELSE IF Drift(seen[p], now) # "OK" THEN Drift(seen[p], now) ELSE Allowed(p, now)
  IN /\ Working(p) /\ ask[p].pc = "check"
     /\ ask' = [ask EXCEPT ![p] = [@ EXCEPT !.now = now, !.code = code,
                                            !.pc = IF code # "OK" THEN "end" ELSE IF now.pc = "whole" THEN "mutate" ELSE "check"]]
     /\ UNCHANGED <<commits, index, work, seen, staged, asks, edits>>

(* What a caller had seen when git runs for it, and what was old by then. *)
Saw(p) == [head |-> seen[p].head, status |-> seen[p].status, cached |-> seen[p].cached,
           old |-> ask[p].old]

(* git add *)
AddFiles(p) ==
  /\ index' = [f \in Files |-> IF f \in ask[p].files THEN work[f] ELSE index[f]]
  /\ staged' = staged \union {[tree |-> Tree, before |-> index, after |-> index',
                               files |-> ask[p].files, saw |-> Saw(p)]}
Add(p) ==
  /\ Working(p) /\ ask[p].pc = "mutate" /\ ask[p].files # {}
  /\ AddFiles(p) /\ UNCHANGED <<commits, work, seen, asks, edits>>
  /\ Answered(p, "end", "STAGED")

(* git commit, and the snapshot after it, in which the head must have moved.*)
CommitIndex(saw) ==
  /\ HeadSha < MaxCommits
  /\ commits' = Append(commits, [tree |-> index, saw |-> saw])
Commit(p) ==
  /\ Working(p) /\ ask[p].pc = "mutate" /\ ask[p].files = {}
  /\ CommitIndex(Saw(p)) /\ UNCHANGED <<index, work, seen, staged, asks, edits>>
  /\ Answered(p, "post", "OK")
Post(p) ==
  /\ Working(p) /\ ask[p].pc = "post"
  /\ ask' = [ask EXCEPT ![p].pc = "end", ![p].code = IF HeadSha = ask[p].now.head THEN "GIT_COMMIT_POSTCONDITION_FAILED" ELSE "COMMITTED"]
  /\ UNCHANGED <<commits, index, work, seen, staged, asks, edits>>

(* git fails, or is killed at its time limit: with or without its effect. *)
MutationFails(p) ==
  /\ Working(p) /\ ask[p].pc = "mutate"
  /\ \/ UNCHANGED <<commits, index, staged>>
     \/ ask[p].files # {} /\ AddFiles(p) /\ UNCHANGED commits
     \/ ask[p].files = {} /\ CommitIndex(Saw(p)) /\ UNCHANGED <<index, staged>>
  /\ UNCHANGED <<work, seen, asks, edits>>
  /\ Answered(p, "end", "GIT_FAILED")

(* The caller takes note of the answer, and takes a new snapshot. *)
Return(p) ==
  /\ Working(p) /\ ask[p].pc = "end"
  /\ ask' = [ask EXCEPT ![p] = None] /\ seen' = [seen EXCEPT ![p] = NoSnapshot]
  /\ UNCHANGED <<commits, index, work, staged, asks, edits>>

(* Others edit, stage and commit. *)
Others ==
  /\ edits < MaxEdits /\ edits' = edits + 1
  /\ \/ \E f \in Files, c \in Contents : work[f] # c /\ work' = [work EXCEPT ![f] = c] /\ UNCHANGED <<commits, index>>
     \/ \E f \in Files : index[f] # work[f] /\ index' = [index EXCEPT ![f] = work[f]] /\ UNCHANGED <<commits, work>>
     \/ index # Tree /\ CommitIndex(None) /\ UNCHANGED <<index, work>>
  /\ ask' = [p \in Callers |-> Aged(ask[p])]
  /\ UNCHANGED <<seen, staged, asks>>

GitNext ==
  \/ \E p \in Callers : Snapshot(p) \/ Request(p) \/ Check(p) \/ Add(p) \/ Commit(p) \/ Post(p) \/ MutationFails(p) \/ Return(p)
  \/ Others
GitSpec == GitInit /\ [][GitNext]_gitVars

-----------------------------------------------------------------------------
(* The type of the state. *)
GitTypeOK ==
  /\ index \in [Files -> Contents] /\ work \in [Files -> Contents] /\ HeadSha \in 1..MaxCommits
  /\ \A p \in Callers : ask[p] # None => ask[p].pc \in {"check", "mutate", "post", "end"}
  /\ \A p \in Callers : seen[p].pc = "whole" => DOMAIN seen[p].status = Files
  /\ asks \in 0..MaxAsks /\ edits \in 0..MaxEdits

(* _assert_preconditions and commit: unless others moved the head or the    *)
(* index after the adapter itself had read it, a commit is the staged diff  *)
(* that its caller saw, on the head that its caller saw, although a         *)
(* snapshot is three commands and the caller's own may be of three moments. *)
CommitIsObserved ==
  \A n \in 2..HeadSha :
    LET saw == commits[n].saw IN
    saw # None =>
      /\ "head" \notin saw.old => saw.head = n - 1
      /\ "cached" \notin saw.old => saw.cached = CachedOf(commits[n - 1].tree, commits[n].tree)

(* stage: unless others moved what the adapter had read, git add starts     *)
(* from the index that the caller saw, and what it changes are files that   *)
(* the caller named and saw as changed in the worktree (to which content,   *)
(* the short status does not say).                                          *)
StagedAsSeen ==
  \A s \in staged :
    /\ "cached" \notin s.saw.old => s.saw.cached = CachedOf(s.tree, s.before)
    /\ "status" \notin s.saw.old =>
         \A f \in Files : s.before[f] # s.after[f] => f \in s.files /\ s.saw.status[f][2]

=================================================================================
