--------------------------- MODULE WorktreeLifecycle ---------------------------
(***************************************************************************)
(* When may a worktree be cleaned up: the observation of a worktree         *)
(* (worktree_lifecycle_observation.WtlObservationService.collect), which    *)
(* asks one authority after the other, and the classification of what it    *)
(* found (worktree_lifecycle.classify_worktree_lifecycle).  Every authority *)
(* may fail to answer, and those of merge and remote may answer in part.    *)
(* Meanwhile workers take and release leases, edit,    *)
(* commit and run things in the worktree, and commits are merged.           *)
(* The order of equal reasons and the texts of reasons are left out.        *)
(***************************************************************************)
EXTENDS Naturals, Sequences, FiniteSets

CONSTANTS
  Worlds,    \* the states the worktree starts in
  Moves,     \* does anything happen to the worktree while it is observed
  MaxMoves,  \* bound on what happens
  MayFail,   \* the authorities that may fail to answer
  MaxMissing, \* bound on the answers of one observation that are missing or partial
  Unknown    \* no answer

LifecycleAssumption == Moves \in BOOLEAN /\ MaxMoves \in Nat /\ MaxMissing \in Nat

VARIABLES
  world,    \* the worktree and what the authorities know of it
  facts,    \* the answers so far
  asked,    \* how many authorities were asked
  moved     \* what happened since the start

lifecycleVars == <<world, facts, asked, moved>>

(* world: head, protected, dirty ("clean", "tracked", "untracked"), leases  *)
(* (records [id, state, bound]: bound to this worktree), executions and     *)
(* processes (sets of states), reviews (records [head, bound]), merge (the  *)
(* record of the goal, "none" when there is none), merged (the heads that   *)
(* are merged), published ("no", "branch", "pr").                           *)
Merge(f, r) == [known |-> TRUE, fold |-> f, release |-> r]
NoMerge == [known |-> FALSE, fold |-> FALSE, release |-> FALSE]

(* collect: the authorities in the order in which they are asked. *)
Authorities == <<"head", "status", "leases", "executions", "processes", "reviews", "merge", "remote", "recheck">>
NoFacts == [a \in {Authorities[i] : i \in DOMAIN Authorities} |-> Unknown]

Answer(a) ==
  CASE a \in {"head", "recheck"} -> world.head
    [] a = "status" -> world.dirty
    [] a = "leases" -> world.leases
    [] a = "executions" -> world.executions
    [] a = "processes" -> world.processes
    [] a = "reviews" -> world.reviews
    [] a = "merge" -> IF world.merge.known
                      THEN [merged |-> world.merged # {}, fold |-> world.merge.fold, release |-> world.merge.release]
                      ELSE Unknown
    [] a = "remote" -> [pr |-> world.published = "pr", branch |-> world.published # "no",
                        unmerged |-> facts.head \notin world.merged]

(* The facts of WtlMergeFoldFact and WtlRemoteEvidence are optional one by one. *)
PartsOf(answer) ==
  {[x \in DOMAIN answer |-> IF x \in hidden THEN Unknown ELSE answer[x]] : hidden \in SUBSET DOMAIN answer}
Answers(a) ==
  IF a \in {"merge", "remote"} /\ a \in MayFail /\ Answer(a) # Unknown THEN PartsOf(Answer(a)) ELSE {Answer(a)}
Partial(answer) == answer # Unknown /\ \E x \in DOMAIN answer : answer[x] = Unknown
Missing(f) ==
  {a \in DOMAIN f : f[a] = Unknown \/ (a \in {"merge", "remote"} /\ Partial(f[a]))}

--------------------------------------------------------------------------------
(* The classifier.  A finding is a reason code; each part contributes its   *)
(* findings.                                                                *)
If(cond, code) == IF cond THEN {code} ELSE {}

ClassifyRoot ==      \* _protected_root: one of the protected worktrees, or nobody can tell
  If(world.protected = TRUE, "PROTECTED_ROOT") \cup If(world.protected = Unknown, "PROTECTED_ROOT_UNKNOWN")

ClassifyHead(f) ==
  IF f.head = Unknown THEN {"HEAD_UNKNOWN"}
  ELSE IF f.recheck = Unknown THEN {"HEAD_RECHECK_UNKNOWN"}
  ELSE If(f.recheck # f.head, "HEAD_DRIFT")

ClassifyProcesses(f) ==
  IF f.processes = Unknown THEN {"PROCESS_EVIDENCE_UNKNOWN"}
  ELSE If("OWNED" \in f.processes, "LIVE_EXACT_PROCESS")
       \cup If(f.processes \ {"OWNED"} # {}, "PROCESS_IDENTITY_STALE")

ClassifyExecutions(f) ==
  IF f.executions = Unknown THEN {"EXECUTION_EVIDENCE_UNKNOWN"}
  ELSE If("live" \in f.executions, "LIVE_DURABLE_EXECUTION")
       \cup If("unresolved" \in f.executions, "EXECUTION_OUTCOME_UNRESOLVED")

(* Mutant: a lease that is not ACTIVE does not count. *)
ClassifyLeasesActive(f) ==
  IF f.leases = Unknown THEN {"LEASE_EVIDENCE_UNKNOWN"}
  ELSE LET active == {l \in f.leases : l.bound /\ l.state = "ACTIVE"}
       IN If(Cardinality(active) > 1, "LEASE_OWNER_CONFLICT")
          \cup If(Cardinality(active) = 1, "ACTIVE_LEASE_OWNED")
ClassifyLeases(f) ==
  IF f.leases = Unknown THEN {"LEASE_EVIDENCE_UNKNOWN"}
  ELSE LET bound == {l \in f.leases : l.bound}
           open == {l \in bound : l.state # "RELEASED"}
       IN If(bound # f.leases, "LEASE_BINDING_CONFLICT")
          \cup (IF Cardinality(open) > 1 THEN {"LEASE_OWNER_CONFLICT"}
                ELSE IF \E l \in open : l.state = "ACTIVE" THEN {"ACTIVE_LEASE_OWNED"}
                ELSE If(\E l \in open : l.state = "UNKNOWN", "LEASE_STATE_UNKNOWN")
                     \cup If(\E l \in open : l.state \in {"STALE", "QUARANTINED"}, "LEASE_RECONCILIATION_REQUIRED"))

ClassifyDirty(f) ==
  CASE f.status = Unknown -> {"DIRTY_STATE_UNKNOWN", "UNTRACKED_STATE_UNKNOWN"}
    [] f.status # Unknown -> If(f.status = "tracked", "TRACKED_DIRTY") \cup If(f.status = "untracked", "UNTRACKED_BYTES_PRESENT")

ClassifyReviews(f) ==
  IF f.reviews = Unknown THEN {"REVIEW_EVIDENCE_UNKNOWN"}
  ELSE {IF ~r.bound THEN "REVIEW_FREEZE_BINDING_CONFLICT"
        ELSE IF f.head # Unknown /\ r.head = f.head THEN "REVIEW_FREEZE_EXACT"
        ELSE "REVIEW_FREEZE_HEAD_CONFLICT" : r \in f.reviews}

ClassifyMerge(f) ==
  IF f.merge = Unknown THEN {}
  ELSE IF f.merge.merged = Unknown THEN {"MERGE_STATUS_UNKNOWN"}
  ELSE IF f.merge.merged = FALSE THEN {"UNMERGED_COMMITS_PRESENT"}
  ELSE UNION {If(f.merge.fold = Unknown, "FOLD_STATUS_UNKNOWN"),
              If(f.merge.fold = FALSE, "MERGED_FOLD_INCOMPLETE"),
              If(f.merge.release = Unknown, "RELEASE_STATUS_UNKNOWN"),
              If(f.merge.release = FALSE, "MERGED_RELEASE_INCOMPLETE")}

ClassifyRemote(f) ==
  IF f.remote = Unknown THEN {}
  ELSE UNION {If(f.remote.pr = Unknown, "OPEN_PR_STATUS_UNKNOWN"),
              If(f.remote.pr = TRUE, "OPEN_PR_PRESENT"),
              If(f.remote.branch = Unknown, "REMOTE_BRANCH_STATUS_UNKNOWN"),
              If(f.remote.branch = TRUE, "REMOTE_BRANCH_PRESENT"),
              If(f.remote.unmerged = Unknown, "UNMERGED_COMMIT_STATUS_UNKNOWN"),
              If(f.remote.unmerged = TRUE, "UNMERGED_COMMITS_PRESENT")}

(* _has_durable_linkage: something durable is known of the worktree. *)
Linked(f) ==
  \/ \E a \in {"leases", "executions", "processes", "reviews"} : f[a] # Unknown /\ f[a] # {}
  \/ f.merge # Unknown
  \/ f.remote # Unknown

Findings(f) ==
  LET seen == UNION {ClassifyHead(f), ClassifyRoot, ClassifyProcesses(f), ClassifyExecutions(f),
                     ClassifyLeases(f), ClassifyDirty(f), ClassifyReviews(f), ClassifyMerge(f), ClassifyRemote(f),
                     If(Linked(f) /\ f.merge = Unknown, "MERGE_EVIDENCE_MISSING"),
                     If(Linked(f) /\ f.remote = Unknown, "REMOTE_EVIDENCE_MISSING")}
  IN seen \cup If(seen = {} /\ Linked(f), "RELEASE_PROVEN") \cup If(~Linked(f), "NO_DURABLE_LINKAGE")

(* _REASON_RANK and _REASON_STATE: the reason of the lowest rank gives the  *)
(* state; reasons of one rank give the same one.                            *)
Ranked == <<
  [codes |-> {"PROTECTED_ROOT"}, state |-> "DIRTY_PROTECTED"],
  [codes |-> {"LIVE_EXACT_PROCESS", "LIVE_DURABLE_EXECUTION"}, state |-> "PROCESS_OR_EXECUTION_ACTIVE"],
  [codes |-> {"LEASE_OWNER_CONFLICT"}, state |-> "CLAIM_CONFLICT"],
  [codes |-> {"ACTIVE_LEASE_OWNED"}, state |-> "ACTIVE_OWNED"],
  [codes |-> {"TRACKED_DIRTY", "UNTRACKED_BYTES_PRESENT"}, state |-> "DIRTY_PROTECTED"],
  [codes |-> {"REVIEW_FREEZE_EXACT"}, state |-> "REVIEW_FROZEN"],
  [codes |-> {"OPEN_PR_PRESENT", "REMOTE_BRANCH_PRESENT", "UNMERGED_COMMITS_PRESENT"}, state |-> "REMOTE_UNMERGED"],
  [codes |-> {"MERGED_FOLD_INCOMPLETE", "MERGED_RELEASE_INCOMPLETE"}, state |-> "MERGED_NOT_FOLDED"],
  [codes |-> {"RELEASE_PROVEN"}, state |-> "RELEASED_SAFE_TO_ARCHIVE"]>>
States == {Ranked[i].state : i \in DOMAIN Ranked} \cup {"EVIDENCE_INCOMPLETE", "UNOWNED_UNKNOWN"}
Verdict(f) ==
  LET found == Findings(f)
      ranks == {i \in DOMAIN Ranked : Ranked[i].codes \cap found # {}}
  IN IF ranks # {} THEN Ranked[CHOOSE i \in ranks : \A j \in ranks : i <= j].state
     ELSE IF found \ {"NO_DURABLE_LINKAGE"} # {} THEN "EVIDENCE_INCOMPLETE"
     ELSE "UNOWNED_UNKNOWN"

--------------------------------------------------------------------------------
(* The observation. *)
Released(w) ==
  /\ w.protected = FALSE /\ w.dirty = "clean" /\ w.executions \subseteq {"done"} /\ w.processes = {} /\ w.reviews = {}
  /\ \A l \in w.leases : l.bound /\ l.state = "RELEASED"
  /\ w.merge.known /\ w.merge.fold /\ w.merge.release
  /\ w.head \in w.merged /\ w.published = "no"

LifecycleInit ==
  /\ world \in Worlds /\ facts = NoFacts /\ asked = 0 /\ moved = 0

Finished == asked = Len(Authorities)
Ask ==
  /\ ~Finished
  /\ LET a == Authorities[asked + 1]
     IN \E answer \in Answers(a) \cup (IF a \in MayFail THEN {Unknown} ELSE {}) :
          /\ facts' = [facts EXCEPT ![a] = answer]
          /\ answer # Answer(a) =>
               Cardinality({Authorities[i] : i \in 1..asked} \cap Missing(facts)) < MaxMissing
  /\ asked' = asked + 1
  /\ UNCHANGED <<world, moved>>

(* What happens meanwhile: the holder of an ACTIVE lease edits, commits,    *)
(* runs and releases; a commit that is published is merged; a new lease is  *)
(* taken when none is open.                                                 *)
Leased == \E l \in world.leases : l.bound /\ l.state = "ACTIVE"
Happens(w) ==
  /\ Moves /\ ~Finished /\ moved < MaxMoves
  /\ world' = w /\ moved' = moved + 1
  /\ UNCHANGED <<facts, asked>>
TakeLease ==
  /\ \A l \in world.leases : l.state = "RELEASED"
  /\ Happens([world EXCEPT !.leases = @ \cup {[id |-> Cardinality(@) + 1, state |-> "ACTIVE", bound |-> TRUE]}])
ReleaseLease ==
  /\ Leased
  /\ Happens([world EXCEPT !.leases = {[l EXCEPT !.state = "RELEASED"] : l \in @}])
EditFile == Leased /\ \E d \in {"tracked", "untracked"} : Happens([world EXCEPT !.dirty = d])
Commit ==
  /\ Leased /\ world.dirty # "clean"
  /\ Happens([world EXCEPT !.dirty = "clean", !.head = @ + 1])
Publish == world.head \notin world.merged /\ Happens([world EXCEPT !.published = "branch"])
Run == Leased /\ world.executions = {} /\ Happens([world EXCEPT !.executions = {"live"}])
EndRun == "live" \in world.executions /\ Happens([world EXCEPT !.executions = {"done"}])
MergeHead ==
  /\ world.published # "no"
  /\ Happens([world EXCEPT !.merged = @ \cup {world.head}, !.published = "no"])

LifecycleNext ==
  Ask \/ TakeLease \/ ReleaseLease \/ EditFile \/ Commit \/ Publish \/ Run \/ EndRun \/ MergeHead
LifecycleSpec == LifecycleInit /\ [][LifecycleNext]_lifecycleVars

--------------------------------------------------------------------------------
LifecycleTypeOK ==
  /\ asked \in 0..Len(Authorities) /\ moved \in 0..MaxMoves
  /\ DOMAIN facts = {Authorities[i] : i \in DOMAIN Authorities}
  /\ Finished => Verdict(facts) \in States

Safe == Finished /\ Verdict(facts) = "RELEASED_SAFE_TO_ARCHIVE"

(* A worktree is eligible for cleanup only when every authority answered in *)
(* full, no answer speaks against it and the head stood still; and a        *)
(* worktree that stands still and is released is found to be so when all    *)
(* answer (classify_worktree_lifecycle, _call_collector).                   *)
EligibleIsProven ==
  /\ Safe => /\ Missing(facts) = {}
             /\ facts.recheck = facts.head /\ facts.status = "clean"
             /\ world.protected = FALSE
             /\ facts.merge = [merged |-> TRUE, fold |-> TRUE, release |-> TRUE]
             /\ facts.remote = [pr |-> FALSE, branch |-> FALSE, unmerged |-> FALSE]
             /\ facts.executions \subseteq {"done"} /\ facts.processes = {} /\ facts.reviews = {}
             /\ \A l \in facts.leases : l.bound /\ l.state = "RELEASED"
  /\ (Finished /\ moved = 0 /\ Released(world) /\ Missing(facts) = {}) => Safe

(* "Protective evidence wins" (WO-P1-417:66): whatever is missing besides,  *)
(* a worktree in use is called so, in this order.                           *)
ProtectiveEvidenceWins ==
  Finished =>
    LET v == Verdict(facts)
        live == \/ facts.processes # Unknown /\ "OWNED" \in facts.processes
                \/ facts.executions # Unknown /\ "live" \in facts.executions
        held == facts.leases # Unknown /\ \E l \in facts.leases : l.bound /\ l.state = "ACTIVE"
        dirty == facts.status # Unknown /\ facts.status # "clean"
    IN /\ world.protected = TRUE => v = "DIRTY_PROTECTED"
       /\ (live /\ world.protected # TRUE) => v = "PROCESS_OR_EXECUTION_ACTIVE"
       /\ (held /\ ~live /\ world.protected # TRUE) => v \in {"ACTIVE_OWNED", "CLAIM_CONFLICT"}
       /\ dirty => v \in {"DIRTY_PROTECTED", "PROCESS_OR_EXECUTION_ACTIVE", "CLAIM_CONFLICT", "ACTIVE_OWNED"}

(* The commit a worktree is released with is merged, although the record of *)
(* the goal may be about an earlier commit and workers go on meanwhile.     *)
ReleasedHeadIsMerged == Safe => facts.head \in world.merged

================================================================================
