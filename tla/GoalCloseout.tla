------------------------------ MODULE GoalCloseout ------------------------------
(***************************************************************************)
(* The closeout of one job: next_stage of the production facade             *)
(* (goal_closeout_assembly.py) makes at most one durable stage per call from *)
(* the evidence that production_closeout_observation.py collects, the        *)
(* classification of continuity_guard.py and the plan of goal_closeout.py;   *)
(* the fold of continuity_projection.py publishes its documents through the  *)
(* change applier of agent_change_packets.py.  Several closers may work on   *)
(* the job, die at any step, and meet operators, expiring leases and the     *)
(* hosting service.                                                         *)
(***************************************************************************)
EXTENDS Naturals, Sequences

CONSTANTS
  Closers,         \* processes that hold a facade for the job
  NTargets,        \* documents a fold publishes, in the order of CANONICAL_TARGETS
  OwnVerification, \* the evidence provider verifies by itself; FALSE: by the journal
  Adverse,         \* reviews reject, merges and runs go wrong, rival leases appear
  MaxMarks         \* bound on the operator's checkpoints

CloseoutAssumption == NTargets \in Nat \ {0} /\ MaxMarks \in Nat
                             /\ OwnVerification \in BOOLEAN /\ Adverse \in BOOLEAN

VARIABLES
  job,      \* the durable job: state and version
  journal,  \* checkpoint refs of the job's CHECKPOINT events
  lease,    \* the job's own worker lease
  docs,     \* what is in the worktree for each target
  head,     \* what the worktree has checked out
  outside,  \* review, pull request, workflow run and the rival's lease
  calls,    \* the next_stage call each closer is in
  marks,    \* operator checkpoints made
  published \* targets that were ever folded (history)

closeoutVars == <<job, journal, lease, docs, head, outside, calls, marks, published>>
world == <<job, journal, lease, docs, head, outside, marks, published>>

Targets == 1..NTargets
Refs == {"verify", "fold", "release"}
JobStates == {"VERIFYING", "REVIEW_PENDING", "COMPLETE", "CANCELLED"}
LeaseStates == {"ACTIVE", "STALE", "QUARANTINED", "RELEASED"}
Reviews == {"none", "rejected", "stale", "accepted"}
Merges == {"open", "unrelated", "merged"}
WorkflowRuns == {"none", "running", "failed", "success"}
Decisions == {"ALREADY_COMPLETE", "REFUSED", "BLOCK", "RECOVERY_REQUIRED", "RELOAD_REPLAN",
              "VERIFY_CHECKPOINT_REQUIRED", "FOLD_REQUIRED", "RELEASE_REQUIRED",
              "COMPLETE_ALLOWED", "PROMOTED", "RAISED"}
Idle == [at |-> "idle"]

Goto(c, step) == calls' = [calls EXCEPT ![c].at = step]
End(c, decision) == calls' = [calls EXCEPT ![c] = [at |-> decision]]

-------------------------------------------------------------------------------
(* classify_continuity *)

Precedence == <<"UNKNOWN", "CLAIM_CONFLICT", "WORKTREE_DIRTY_OR_UNKNOWN", "HEAD_DRIFT",
                "STALE_LOCAL_CHECKOUT", "MERGED_NOT_FOLDED", "SSOT_DRIFT", "RECONCILE_REQUIRED">>

(* Findings of the leases: the rival's, when it fences the worktree, and the *)
(* own one, which list_active still returns when it is stale or quarantined. *)
LeaseFindings(s) ==
  (IF s.rival THEN {"CLAIM_CONFLICT"} ELSE {})
  \cup (IF s.lease \in {"STALE", "QUARANTINED"} THEN {"RECONCILE_REQUIRED"} ELSE {})

(* The findings of a snapshot: the lease is observed or unavailable, the    *)
(* candidate is the expected head and the head of the pull request.         *)
Findings(s) ==
  LeaseFindings(s)
  \cup (IF s.lease = "UNAVAILABLE" THEN {"UNKNOWN"} ELSE {})
  \cup (IF s.git.head # "candidate" THEN {"HEAD_DRIFT", "STALE_LOCAL_CHECKOUT"} ELSE {})
  \cup (IF s.git.dirty THEN {"WORKTREE_DIRTY_OR_UNKNOWN"} ELSE {})
  \cup (IF s.state \in {"COMPLETE", "CANCELLED"} THEN {"CLAIM_CONFLICT"} ELSE {})
  \cup (IF s.merge # "open"
           /\ ~("fold" \in s.refs /\ s.lease = "RELEASED" /\ "release" \in s.refs)
        THEN {"MERGED_NOT_FOLDED"} ELSE {})

Classification(kinds) ==
  IF kinds = {} THEN "FRESH"
  ELSE Precedence[CHOOSE i \in DOMAIN Precedence : Precedence[i] \in kinds /\
                    \A j \in 1..(i - 1) : Precedence[j] \notin kinds]

-------------------------------------------------------------------------------
(* plan_goal_closeout: the decision of the first rule that applies. *)

(* Mutant: a fold that has its checkpoint missing does not hold up the rest. *)
FoldRulesSkipped(f) == <<
  <<"fold" \notin f.refs /\ f.merge = "open", "FOLD_REQUIRED">> >>

(* The facade derives completion of the fold from its checkpoint. *)
FoldRules(f) == << <<"fold" \notin f.refs, "FOLD_REQUIRED">> >>

(* Mutant: a lease that is no longer active needs recovery. *)
LeaseRulesStrict(f) == <<
  <<f.lease # "ACTIVE", "RECOVERY_REQUIRED">>,
  <<f.lease = "ACTIVE", "RELEASE_REQUIRED">> >>

LeaseRules(f) == <<
  <<f.lease \in {"UNAVAILABLE", "STALE", "QUARANTINED"}, "RECOVERY_REQUIRED">>,
  <<f.lease = "ACTIVE" /\ "release" \in f.refs, "RECOVERY_REQUIRED">>,
  <<f.lease = "ACTIVE", "RELEASE_REQUIRED">>,
  <<"release" \notin f.refs, "RECOVERY_REQUIRED">> >>

EvidenceRules(f) == <<
  <<~f.ok, "BLOCK">>,
  <<"verify" \notin f.refs, "VERIFY_CHECKPOINT_REQUIRED">>,
  <<"UNKNOWN" \in f.kinds \/ "CLAIM_CONFLICT" \in f.kinds \/ "RECONCILE_REQUIRED" \in f.kinds,
    "BLOCK">>,
  <<Classification(f.kinds) \notin {"FRESH", "MERGED_NOT_FOLDED"}, "BLOCK">>,
  <<f.review # "accepted", "BLOCK">>,
  <<f.merge # "merged", "BLOCK">>,
  <<f.run # "success", "BLOCK">> >>

Rules(f) == EvidenceRules(f) \o FoldRules(f) \o LeaseRules(f) \o <<
  <<f.state # "REVIEW_PENDING", "BLOCK">>, <<TRUE, "COMPLETE_ALLOWED">> >>

Plan(f) ==
  LET rules == Rules(f)
      first == CHOOSE i \in DOMAIN rules : rules[i][1] /\ \A j \in 1..(i - 1) : ~rules[j][1]
  IN rules[first][2]

-------------------------------------------------------------------------------
(* next_stage: the evidence *)

Git == [head |-> head, dirty |-> \E t \in Targets : docs[t] # "committed"]

Begin(c) ==
  /\ calls[c].at \in {"idle"} \cup Decisions
  /\ calls' = [calls EXCEPT ![c] = [at |-> "observe"]]
  /\ UNCHANGED world

(* Journal, job, leases, review and the first look at git; any may fail. *)
Observe(c) ==
  /\ calls[c].at = "observe"
  /\ \/ End(c, "RAISED")
     \/ \E own \in {lease, "UNAVAILABLE"} :
          calls' = [calls EXCEPT ![c] =
            [at |-> "reobserve", refs |-> journal, state |-> job.state, lease |-> own,
             rival |-> outside.rival, review |-> outside.review, git |-> Git]]
  /\ UNCHANGED world

(* Pull request and workflow run, then the second look at journal and git:  *)
(* any drift raises.  The bundle of _compose is what remains.               *)
Reobserve(c) ==
  LET seen == calls[c] IN
  /\ seen.at = "reobserve"
  /\ \/ End(c, "RAISED")
     \/ /\ seen.refs = journal
        /\ seen.git = Git
        /\ calls' = [calls EXCEPT ![c] =
             [at |-> "getjob", ok |-> OwnVerification \/ "verify" \in seen.refs,
              review |-> seen.review, merge |-> outside.merge,
              run |-> IF outside.merge = "open" THEN "none" ELSE outside.run,
              kinds |-> Findings([refs |-> seen.refs, state |-> seen.state, lease |-> seen.lease,
                                  rival |-> seen.rival, git |-> seen.git,
                                  merge |-> outside.merge])]]
  /\ UNCHANGED world

(* The job is read after the evidence. *)
GetJob(c) ==
  /\ calls[c].at = "getjob"
  /\ CASE job.state = "COMPLETE" -> End(c, "ALREADY_COMPLETE")
       [] job.state = "CANCELLED" -> End(c, "REFUSED")
       [] job.state = "VERIFYING" /\ ~calls[c].ok -> End(c, "BLOCK")
       [] OTHER -> calls' = [calls EXCEPT ![c] =
            [at |-> "plan", ok |-> @.ok, review |-> @.review, merge |-> @.merge, run |-> @.run,
             kinds |-> @.kinds, state |-> job.state, ver |-> job.version]]
  /\ UNCHANGED world

(* The journal and the lease are read once more for the facts; a job in     *)
(* VERIFYING whose verification is journaled is promoted instead.           *)
Decide(c) ==
  LET e == calls[c]
      Facts(own) == [ok |-> e.ok, refs |-> journal, kinds |-> e.kinds, review |-> e.review,
                     merge |-> e.merge, run |-> e.run, lease |-> own, state |-> e.state]
      Working(step) == calls' = [calls EXCEPT ![c] = [at |-> step, ver |-> e.ver]] IN
  /\ e.at = "plan"
  /\ IF e.state = "VERIFYING" /\ "verify" \in journal THEN Working("promote")
     ELSE \E own \in {lease, "UNAVAILABLE"} :
            LET decision == Plan(Facts(own)) IN
            CASE decision = "VERIFY_CHECKPOINT_REQUIRED" -> Working("verify")
              [] decision = "FOLD_REQUIRED" -> Working("render")
              [] decision = "RELEASE_REQUIRED" -> Working("release")
              [] decision = "COMPLETE_ALLOWED" -> Working("complete")
              [] OTHER -> End(c, decision)
  /\ UNCHANGED world

-------------------------------------------------------------------------------
(* The durable stages *)

(* A write of the job with the version the call has read. *)
Checkpoint(c, ref, done, conflict) ==
  IF job.version = calls[c].ver
  THEN /\ job' = [job EXCEPT !.version = @ + 1]
       /\ journal' = journal \cup {ref}
       /\ End(c, done)
  ELSE End(c, conflict) /\ UNCHANGED <<job, journal>>

Transition(c, state, done) ==
  IF job.version = calls[c].ver
  THEN job' = [state |-> state, version |-> job.version + 1] /\ End(c, done)
  ELSE End(c, "RELOAD_REPLAN") /\ UNCHANGED job

Promote(c) ==
  /\ calls[c].at = "promote"
  /\ Transition(c, "REVIEW_PENDING", "PROMOTED")
  /\ UNCHANGED <<journal, lease, docs, head, outside, marks, published>>

VerifyCheckpoint(c) ==
  /\ calls[c].at = "verify"
  /\ Checkpoint(c, "verify", "VERIFY_CHECKPOINT_REQUIRED", "RELOAD_REPLAN")
  /\ UNCHANGED <<lease, docs, head, outside, marks, published>>

(* fold: every target is rendered and compared with the worktree before the *)
(* first write; the hash each write expects is that of this reading.        *)
Render(c) ==
  /\ calls[c].at = "render"
  /\ \/ End(c, "RAISED")
     \/ calls' = [calls EXCEPT ![c] = [at |-> "write", ver |-> @.ver, next |-> 1,
                                       expects |-> docs, wrote |-> FALSE]]
  /\ UNCHANGED world

(* The applier asks for the active lease and the expected hash. *)
Admitted(c, t) == lease = "ACTIVE" /\ docs[t] = calls[c].expects[t]

(* The gates before it classify a snapshot that a given provider takes.     *)
(* The repository has no such provider, so any verdict is possible; and the *)
(* file system may refuse as well.                                          *)
Denied(c) == End(c, "RECOVERY_REQUIRED") /\ UNCHANGED <<docs, published>>

(* One target: skipped when it is folded already, else applied. *)
WriteTarget(c) ==
  LET t == calls[c].next
      done == calls[c].expects[t] = "folded"
      after == IF t = NTargets THEN "readback" ELSE "write" IN
  /\ calls[c].at = "write"
  /\ \/ /\ done
        /\ calls' = [calls EXCEPT ![c].at = after, ![c].next = IF t = NTargets THEN @ ELSE t + 1]
        /\ UNCHANGED <<docs, published>>
     \/ /\ ~done /\ Admitted(c, t)
        /\ docs' = [docs EXCEPT ![t] = "folded"]
        /\ published' = published \cup {t}
        /\ calls' = [calls EXCEPT ![c].at = after, ![c].wrote = TRUE,
                                  ![c].next = IF t = NTargets THEN @ ELSE t + 1]
     \/ ~done /\ Denied(c)
  /\ UNCHANGED <<job, journal, lease, head, outside, marks>>

ReadBack(c) ==
  /\ calls[c].at = "readback"
  /\ \/ (\A t \in Targets : docs[t] = "folded") /\ Goto(c, "checkpoint")
     \/ End(c, "RECOVERY_REQUIRED")
  /\ UNCHANGED world

FoldCheckpoint(c) ==
  /\ calls[c].at = "checkpoint"
  /\ Checkpoint(c, "fold", "FOLD_REQUIRED", "RECOVERY_REQUIRED")
  /\ UNCHANGED <<lease, docs, head, outside, marks, published>>

(* The store releases an active lease, answers for a released one and raises *)
(* for a stale or quarantined one.                                           *)
Release(c) ==
  /\ calls[c].at = "release"
  /\ \/ lease = "ACTIVE" /\ lease' = "RELEASED" /\ Goto(c, "releasecheckpoint")
     \/ lease = "RELEASED" /\ Goto(c, "releasecheckpoint") /\ UNCHANGED lease
     \/ End(c, "RAISED") /\ UNCHANGED lease
  /\ UNCHANGED <<job, journal, docs, head, outside, marks, published>>

ReleaseCheckpoint(c) ==
  /\ calls[c].at = "releasecheckpoint"
  /\ Checkpoint(c, "release", "RELEASE_REQUIRED", "RECOVERY_REQUIRED")
  /\ UNCHANGED <<lease, docs, head, outside, marks, published>>

Complete(c) ==
  /\ calls[c].at = "complete"
  /\ Transition(c, "COMPLETE", "COMPLETE_ALLOWED")
  /\ UNCHANGED <<journal, lease, docs, head, outside, marks, published>>

(* The process dies; its call is never resumed. *)
Crash(c) ==
  /\ calls[c].at \notin {"idle"} \cup Decisions
  /\ calls' = [calls EXCEPT ![c] = Idle]
  /\ UNCHANGED world

-------------------------------------------------------------------------------
(* Operators, time and the hosting service *)

(* A verifier journals the verification of the attempt. *)
Verify ==
  /\ "verify" \notin journal /\ job.state \in {"VERIFYING", "REVIEW_PENDING"}
  /\ journal' = journal \cup {"verify"}
  /\ job' = [job EXCEPT !.version = @ + 1]
  /\ UNCHANGED <<lease, docs, head, outside, calls, marks, published>>

Mark ==
  /\ marks < MaxMarks /\ job.state \in {"VERIFYING", "REVIEW_PENDING"}
  /\ marks' = marks + 1
  /\ job' = [job EXCEPT !.version = @ + 1]
  /\ UNCHANGED <<journal, lease, docs, head, outside, calls, published>>

Cancel ==
  /\ marks < MaxMarks /\ job.state \in {"VERIFYING", "REVIEW_PENDING"}
  /\ job' = [state |-> "CANCELLED", version |-> job.version + 1]
  /\ UNCHANGED <<journal, lease, docs, head, outside, calls, marks, published>>

LeaseLapses ==
  /\ lease = "ACTIVE" /\ marks < MaxMarks
  /\ lease' \in {"STALE", "QUARANTINED"}
  /\ UNCHANGED <<job, journal, docs, head, outside, calls, marks, published>>

Reviewed ==
  /\ outside.review = "none"
  /\ \E r \in Reviews \ {"none"} :
       /\ Adverse \/ r = "accepted"
       /\ outside' = [outside EXCEPT !.review = r]
  /\ UNCHANGED <<job, journal, lease, docs, head, calls, marks, published>>

Merged ==
  /\ outside.merge = "open"
  /\ \E m \in {"unrelated", "merged"} :
       /\ Adverse \/ m = "merged"
       /\ outside' = [outside EXCEPT !.merge = m]
  /\ UNCHANGED <<job, journal, lease, docs, head, calls, marks, published>>

WorkflowRun ==
  /\ outside.merge # "open"
  /\ \/ outside.run = "none" /\ outside' = [outside EXCEPT !.run = "running"]
     \/ outside.run = "running" /\ outside' = [outside EXCEPT !.run = "success"]
     \/ outside.run = "running" /\ Adverse /\ outside' = [outside EXCEPT !.run = "failed"]
  /\ UNCHANGED <<job, journal, lease, docs, head, calls, marks, published>>

Rival ==
  /\ Adverse
  /\ outside' = [outside EXCEPT !.rival = ~@]
  /\ UNCHANGED <<job, journal, lease, docs, head, calls, marks, published>>

(* An operator discards what the fold left in the worktree, or commits it. *)
Discard ==
  /\ \E t \in Targets : docs[t] # "committed"
  /\ docs' = [t \in Targets |-> "committed"]
  /\ UNCHANGED <<job, journal, lease, head, outside, calls, marks, published>>

Commit ==
  /\ Git.dirty /\ marks < MaxMarks
  /\ head' = "later"
  /\ docs' = [t \in Targets |-> "committed"]
  /\ UNCHANGED <<job, journal, lease, outside, calls, marks, published>>

-------------------------------------------------------------------------------
CloseoutInit ==
  /\ job = [state |-> "VERIFYING", version |-> 1]
  /\ journal = {} /\ lease = "ACTIVE" /\ head = "candidate" /\ marks = 0 /\ published = {}
  /\ docs = [t \in Targets |-> "committed"]
  /\ outside = [review |-> "none", merge |-> "open", run |-> "none", rival |-> FALSE]
  /\ calls = [c \in Closers |-> Idle]

Step(c) ==
  \/ Observe(c) \/ Reobserve(c) \/ GetJob(c) \/ Decide(c) \/ Promote(c) \/ VerifyCheckpoint(c)
  \/ Render(c) \/ WriteTarget(c) \/ ReadBack(c) \/ FoldCheckpoint(c)
  \/ Release(c) \/ ReleaseCheckpoint(c) \/ Complete(c)

Operator == Verify \/ Mark \/ Cancel \/ LeaseLapses \/ Rival \/ Commit
Service == Reviewed \/ Merged \/ WorkflowRun

CloseoutNext ==
  \/ \E c \in Closers : Begin(c) \/ Step(c) \/ Crash(c)
  \/ Operator \/ Service \/ Discard

CloseoutSpec == CloseoutInit /\ [][CloseoutNext]_closeoutVars

(* The course of an undisturbed closeout: closers are called again and     *)
(* again, nothing fails or lapses, the review accepts, the pull request is  *)
(* merged and its run succeeds (with Adverse FALSE).                        *)
Undisturbed ==
  /\ \A c \in Closers :
       /\ calls[c].at = "reobserve" /\ calls'[c].at = "RAISED" => calls[c].refs # journal
       /\ calls[c].at \in {"observe", "render", "release"} => calls'[c].at # "RAISED"
       /\ calls[c].at \in {"plan", "write", "readback"} => calls'[c].at # "RECOVERY_REQUIRED"
       /\ calls'[c].at = "reobserve" => calls'[c].lease # "UNAVAILABLE"
SmoothNext ==
  /\ \/ \E c \in Closers : Begin(c) \/ Step(c)
     \/ Verify \/ Service
  /\ Undisturbed
SmoothFairness ==
  /\ \A c \in Closers : WF_closeoutVars((Begin(c) \/ Step(c)) /\ Undisturbed)
  /\ WF_closeoutVars(Verify) /\ WF_closeoutVars(Service /\ Undisturbed)

(* The same with an operator who discards the folded documents from the    *)
(* worktree between two calls, once they are journaled.                     *)
Tidy == Discard /\ "fold" \in journal /\ \A c \in Closers : calls[c].at \in {"idle"} \cup Decisions

-------------------------------------------------------------------------------
(* Properties *)

CloseoutTypeOK ==
  /\ job \in [state : JobStates, version : Nat]
  /\ journal \subseteq Refs /\ lease \in LeaseStates /\ head \in {"candidate", "later"}
  /\ docs \in [Targets -> {"committed", "folded"}] /\ published \subseteq Targets
  /\ outside \in [review : Reviews, merge : Merges, run : WorkflowRuns, rival : BOOLEAN]
  /\ DOMAIN calls = Closers

(* The safety of the closeout: a job is COMPLETE only with its verification, *)
(* its fold and its release journaled, its lease released, an accepted       *)
(* review of the candidate, a merge that contains it and a successful run on *)
(* the merge commit, however closers, crashes and operators interleaved.     *)
CompleteIsEarned ==
  job.state = "COMPLETE" =>
    /\ Refs \subseteq journal /\ lease = "RELEASED"
    /\ outside.review = "accepted" /\ outside.merge = "merged" /\ outside.run = "success"

(* The journal never runs ahead of the effects it stands for: a release     *)
(* checkpoint means that the lease is released, a fold checkpoint that every *)
(* document was published.                                                  *)
JournalAfterEffects ==
  /\ "release" \in journal => lease = "RELEASED"
  /\ "fold" \in journal => published = Targets

(* The stages keep their order across calls and processes: the lease is     *)
(* given back, and the release journaled, only after the fold was journaled. *)
(* (The fold writes under that lease.)                                       *)
ReleaseAfterFold == lease = "RELEASED" => "fold" \in journal /\ "verify" \in journal

================================================================================
