---------------------------- MODULE MCExecutions ----------------------------
(***************************************************************************)
(* Instances for TLC of the modules that run something and settle it:       *)
(* supervised runs, review executions, the closeout of a goal, ZCode's      *)
(* turns, dispatches and adapter, and, for the ends of their calls, batches *)
(* of the parallel executor and a connector's window.                       *)
(*                                                                          *)
(* They share no state, so each is checked apart from the others: a         *)
(* behaviour is one of a single part.  The variables of SupervisedRun are   *)
(* those of the parts "run" and "call"; v1 to v12 hold the variables of any *)
(* other, in the order of their declaration.                                *)
(***************************************************************************)
EXTENDS SupervisedRun, TLC

CONSTANTS
  Parts,  \* the parts a run is about
  e1, e2, a1, t1, t2, c1, c2, d1, d2, p1, ref, u1, x1, x2, k1, k2, b1

VARIABLES part, v1, v2, v3, v4, v5, v6, v7, v8, v9, v10, v11, v12

others == <<part, v1, v2, v3, v4, v5, v6, v7, v8, v9, v10, v11, v12>>
vars == <<runVars, others>>
From8 == <<v8, v9, v10, v11, v12>>
From9 == <<v9, v10, v11, v12>>
From10 == <<v10, v11, v12>>
From11 == <<v11, v12>>

No11 == v11 = None /\ v12 = None
No10 == v10 = None /\ No11
No9 == v9 = None /\ No10
No8 == v8 = None /\ No9
No1 == v1 = None /\ v2 = None /\ v3 = None /\ v4 = None /\ v5 = None /\ v6 = None /\ v7 = None /\ No8

-------------------------------------------------------------------------------
(* Two processes run a review, as two attempts of it or as two calls of one.*)
TwoAttempts == t1 :> {d1} @@ t2 :> {d2}
OneAttempt == c1 :> {d1} @@ c2 :> {d1}
AllFaults == {"crash", "drift", "error", "lost", "runner", "stale"}

Review == INSTANCE ReviewExecution WITH
  Callers <- {t1, t2}, Dispatches <- {d1, d2}, Target <- TwoAttempts,
  Reviewer <- [d \in {d1, d2} |-> "w1"], MaxLeases <- 3, MaxGeneration <- 2, MaxRequests <- 2,
  Prompt <- TRUE, Faults <- AllFaults,
  jobs <- v1, leases <- v2, admissions <- v3, records <- v4, generation <- v5, calls <- v6,
  requests <- v7
(* The same with a call that may outlive its lease. *)
Overtaken == INSTANCE ReviewExecution WITH
  Callers <- {t1, t2}, Dispatches <- {d1, d2}, Target <- TwoAttempts,
  Reviewer <- [d \in {d1, d2} |-> "w1"], MaxLeases <- 3, MaxGeneration <- 1, MaxRequests <- 2,
  Prompt <- FALSE, Faults <- {"crash", "runner", "stale"},
  jobs <- v1, leases <- v2, admissions <- v3, records <- v4, generation <- v5, calls <- v6,
  requests <- v7
Replay == INSTANCE ReviewExecution WITH
  Callers <- {c1, c2}, Dispatches <- {d1}, Target <- OneAttempt,
  Reviewer <- [d \in {d1} |-> "w1"], MaxLeases <- 3, MaxGeneration <- 2, MaxRequests <- 3,
  Prompt <- FALSE, Faults <- AllFaults,
  jobs <- v1, leases <- v2, admissions <- v3, records <- v4, generation <- v5, calls <- v6,
  requests <- v7

(* Two closers and an undisturbed world; one closer and a hostile one. *)
Closeout == INSTANCE GoalCloseout WITH
  Closers <- {c1, c2}, NTargets <- 2, OwnVerification <- FALSE, Adverse <- FALSE, MaxMarks <- 1,
  job <- v1, journal <- v2, lease <- v3, docs <- v4, head <- v5, outside <- v6, calls <- v7,
  marks <- v8, published <- v9
Hostile == INSTANCE GoalCloseout WITH
  Closers <- {c1}, NTargets <- 2, OwnVerification <- TRUE, Adverse <- TRUE, MaxMarks <- 1,
  job <- v1, journal <- v2, lease <- v3, docs <- v4, head <- v5, outside <- v6, calls <- v7,
  marks <- v8, published <- v9

(* A turn of the app server whose prompt does not fit the pipe. *)
Turn == INSTANCE ZCodeTurn WITH
  MaxPending <- 1, Budget <- 1, MaxFrames <- 4, PromptFits <- FALSE, MaxEdits <- 1,
  Frames <- {"create", "mismatch", "subscribe", "permission", "delta", "completed", "failed",
             "blank", "long"},
  child <- v1, pipe <- v2, reader <- v3, lines <- v4, overflowed <- v5, driver <- v6,
  helper <- v7, late <- v8, packet <- v9, files <- v10

(* A run that is dispatched while the world moves under it. *)
Dispatch == INSTANCE ZCodeDispatch WITH
  Guarded <- TRUE, Modes <- {"mutate", "review"}, MaxMoves <- 3,
  provider <- v1, lease <- v2, admission <- v3, tree <- v4, packet <- v5, call <- v6,
  lost <- v7, moves <- v8

(* A launch by one process that two processes observe. *)
Adapter == INSTANCE ZCodeAdapter WITH
  MaxVersion <- 4, record <- v1, child <- v2, files <- v3, step <- v4, known <- v5,
  cache <- v6, collected <- v7

ASSUME ExecutionInstances ==
  /\ Review!ReviewAssumption /\ Overtaken!ReviewAssumption /\ Replay!ReviewAssumption
  /\ Closeout!CloseoutAssumption /\ Hostile!CloseoutAssumption
  /\ Turn!TurnAssumption
  /\ Dispatch!DispatchAssumption
  /\ Adapter!AdapterAssumption

-------------------------------------------------------------------------------
Init ==
  /\ part \in Parts
  /\ RunInit
  /\ \/ part = "run" /\ No1
     \/ part = "review" /\ Review!ReviewInit /\ No8
     \/ part = "overtaken" /\ Overtaken!ReviewInit /\ No8
     \/ part = "replay" /\ Replay!ReviewInit /\ No8
     \/ part = "closeout" /\ Closeout!CloseoutInit /\ No10
     \/ part = "hostile" /\ Hostile!CloseoutInit /\ No10
     \/ part = "turn" /\ Turn!TurnInit /\ No11
     \/ part = "dispatch" /\ Dispatch!DispatchInit /\ No9
     \/ part = "adapter" /\ Adapter!AdapterInit /\ No8

RunStep == part = "run" /\ RunNext /\ UNCHANGED others
ReviewStep == part = "review" /\ Review!ReviewNext /\ UNCHANGED <<part, From8, runVars>>
OvertakenStep == part = "overtaken" /\ Overtaken!ReviewNext /\ UNCHANGED <<part, From8, runVars>>
ReplayStep == part = "replay" /\ Replay!ReviewNext /\ UNCHANGED <<part, From8, runVars>>
CloseoutStep == part = "closeout" /\ Closeout!CloseoutNext /\ UNCHANGED <<part, From10, runVars>>
HostileStep == part = "hostile" /\ Hostile!CloseoutNext /\ UNCHANGED <<part, From10, runVars>>
TurnStep == part = "turn" /\ Turn!TurnNext /\ UNCHANGED <<part, From11, runVars>>
DispatchStep == part = "dispatch" /\ Dispatch!DispatchNext /\ UNCHANGED <<part, From9, runVars>>
AdapterStep == part = "adapter" /\ Adapter!AdapterNext /\ UNCHANGED <<part, From8, runVars>>

Next ==
  \/ RunStep \/ ReviewStep \/ OvertakenStep \/ ReplayStep
  \/ CloseoutStep \/ HostileStep \/ TurnStep \/ DispatchStep \/ AdapterStep

Spec == Init /\ [][Next]_vars

(* The two executions of the command are alike, and so are the processes    *)
(* that replay a review or close a goal.                                    *)
Symmetry == Permutations({e1, e2}) \cup Permutations({c1, c2})

-------------------------------------------------------------------------------

(***************************************************************************)
(* A goal is COMPLETE only with every stage journaled, its lease returned   *)
(* and review, merge and workflow run good; the journal names only effects  *)
(* that happened, and the lease outlives the fold.                          *)
(***************************************************************************)
CloseoutSafety ==
  /\ part = "closeout" =>
       /\ Closeout!CloseoutTypeOK
       /\ Closeout!CompleteIsEarned
       /\ Closeout!JournalAfterEffects
       /\ Closeout!ReleaseAfterFold
  /\ part = "hostile" => Hostile!CompleteIsEarned

(***************************************************************************)
(* A result file means a completed turn of a dead child with its whole      *)
(* output; the prompt is sent once, to a known session and as authorized;   *)
(* a running turn is attached to only while it is alive.                    *)
(***************************************************************************)
TurnSafety ==
  part = "turn" =>
    /\ Turn!TurnTypeOK
    /\ Turn!ResultIsFinal
    /\ Turn!PromptOnceAndKnown
    /\ Turn!AttachIsOurs

(***************************************************************************)
(* No ZCode turn is prompted over a lease, a head or a packet that was lost *)
(* before the dispatch had its last look at it, however often they change   *)
(* between the evidence and the prompt; and none of a mutation whose        *)
(* worktree was leased to another before its lease guard.                   *)
(***************************************************************************)
AuthorityLostLate ==
  part = "dispatch" => Dispatch!DispatchTypeOK /\ Dispatch!AuthorityLostLate

(***************************************************************************)
(* A result the adapter has handed out is that of a completed turn of a     *)
(* dead child, and every process goes on finding it.                        *)
(***************************************************************************)
CollectedIsReal ==
  part = "adapter" =>
    /\ Adapter!AdapterTypeOK
    /\ Adapter!CollectedIsReal
    /\ Adapter!ResultStays
-------------------------------------------------------------------------------
(* The parts whose calls come to an end.  Their fairness is the one the     *)
(* modules justify: a process that was not killed goes on, a runner and a   *)
(* supervisor answer, time passes; nothing is assumed of a ZCode child.     *)

Task(x) == [execution |-> x, provider |-> p1]
Limit(max) == [endpoint |-> ref, max |-> max, enabled |-> TRUE]

(* Two batches for one provider, one of them elastic. *)
Batch == INSTANCE ParallelReady WITH
  ProviderIds <- {p1}, EndpointRefs <- {ref}, Urls <- {u1}, Profiles <- {Limit(1), Limit(2)},
  LegacyProfiles <- {Limit(1)}, Executions <- {x1, x2}, LegacyExecutions <- {},
  Batches <- {k1, k2}, AdmissionIds <- {a1}, Ttls <- {1}, Probers <- {b1}, Editors <- {},
  MaxGeneration <- 1, MaxTime <- 0, Calls <- {c1, c2},
  Plan <- c1 :> <<Task(x1)>> @@ c2 :> <<Task(x2)>>, BatchOf <- c1 :> k1 @@ c2 :> k2,
  Elastic <- {c2}, Denied <- {}, Ttl <- 1, MaxAge <- 1,
  now <- v1, endpoints <- v2, providers <- v3, observations <- v4, admissions <- v5,
  probes <- v6, edits <- v7, calls <- v8, running <- v9

(* Two attempts of a review by two reviewers; no process dies, no store fails. *)
Leasing == INSTANCE ReviewExecution WITH
  Callers <- {c1, c2}, Dispatches <- {d1, d2}, Target <- c1 :> {d1} @@ c2 :> {d2},
  Reviewer <- d1 :> "w1" @@ d2 :> "w2", MaxLeases <- 3, MaxGeneration <- 2, MaxRequests <- 2,
  Prompt <- TRUE, Faults <- {"drift"},
  jobs <- v1, leases <- v2, admissions <- v3, records <- v4, generation <- v5, calls <- v6,
  requests <- v7

(* One closer, and an operator who discards what was folded. *)
Goal == INSTANCE GoalCloseout WITH
  Closers <- {c1}, NTargets <- 2, OwnVerification <- FALSE, Adverse <- FALSE, MaxMarks <- 0,
  job <- v1, journal <- v2, lease <- v3, docs <- v4, head <- v5, outside <- v6, calls <- v7,
  marks <- v8, published <- v9

(* A helper whose prompt fits the pipe and whose child says anything, or    *)
(* nothing.                                                                 *)
Helper == INSTANCE ZCodeTurn WITH
  MaxPending <- 1, Budget <- 1, MaxFrames <- 4, PromptFits <- TRUE, MaxEdits <- 0,
  Frames <- {"create", "subscribe", "rejected", "delta", "completed", "garbage"},
  child <- v1, pipe <- v2, reader <- v3, lines <- v4, overflowed <- v5, driver <- v6,
  helper <- v7, late <- v8, packet <- v9, files <- v10

(* The background jobs and the window of one connector whose process dies or hangs. *)
Window == INSTANCE ConnectorRecovery WITH
  Jobs <- {"refresh", "start", "stop", "startall"}, UiActions <- {"close", "delete"},
  Autostart <- TRUE, FailureLimit <- 2, Window <- 3, Backoff <- <<1, 2>>, MaxTime <- 0,
  MaxQueued <- 1, MaxRestarts <- 0, Faults <- {"stop", "dies", "hangs"},
  proc <- v1, exists <- v2, autostart <- v3, rec <- v4, pending <- v5, cancel <- v6,
  intent <- v7, bg <- v8, queue <- v9, ui <- v10, now <- v11, failures <- v12

ASSUME EndingInstances ==
  /\ Batch!PlanAssumption
  /\ Leasing!ReviewAssumption
  /\ Goal!CloseoutAssumption
  /\ Helper!TurnAssumption
  /\ Window!RecoveryAssumption

OfBatch(A) == part = "batch" /\ A /\ UNCHANGED <<part, From10, runVars>>
OfCall(A) == part = "call" /\ A /\ UNCHANGED others
OfLeasing(A) == part = "leasing" /\ A /\ UNCHANGED <<part, From8, runVars>>
OfGoal(A) == part = "goal" /\ A /\ UNCHANGED <<part, From10, runVars>>
OfHelper(A) == part = "helper" /\ A /\ UNCHANGED <<part, From11, runVars>>
OfWindow(A) == part = "window" /\ A /\ UNCHANGED <<part, runVars>>

EndsInit ==
  /\ part \in Parts
  /\ RunInit
  /\ \/ part = "batch" /\ Batch!BatchInit /\ No10
     \/ part = "call" /\ No1
     \/ part = "leasing" /\ Leasing!ReviewInit /\ No8
     \/ part = "goal" /\ Goal!CloseoutInit /\ No10
     \/ part = "helper" /\ Helper!TurnInit /\ No11
     \/ part = "window" /\ Window!RecoveryInit

BatchStep == OfBatch(Batch!BatchNext)
CallStep == OfCall(RunNext)
LeasingStep == OfLeasing(Leasing!ReviewNext)
GoalStep == OfGoal(Goal!SmoothNext \/ Goal!Tidy)
HelperStep == OfHelper(Helper!TurnNext)
WindowStep == OfWindow(Window!RecoveryNext)

EndsNext == BatchStep \/ CallStep \/ LeasingStep \/ GoalStep \/ HelperStep \/ WindowStep

(* A behaviour is one of a single part, so that a disjunction of actions of *)
(* different parts is fair exactly when the action of that part is.         *)
EndsFairness ==
  /\ WF_vars(\/ OfBatch(Batch!CallStep(c1))
             \/ OfCall(Step("r1"))
             \/ OfLeasing(Leasing!CallStep(c1))
             \/ OfGoal((Goal!Begin(c1) \/ Goal!Step(c1)) /\ Goal!Undisturbed)
             \/ OfHelper(Helper!HelperStep)
             \/ OfWindow(Window!UiStep))
  /\ WF_vars(\/ OfBatch(Batch!CallStep(c2))
             \/ OfCall(Step("c1"))
             \/ OfLeasing(Leasing!CallStep(c2))
             \/ OfGoal(Goal!Verify)
             \/ OfHelper(Helper!ReaderReads)
             \/ OfWindow(Window!BgStep))
  /\ WF_vars(\/ OfBatch(Batch!RunnerStep(c1))
             \/ OfLeasing(\E r \in DOMAIN v4 : Leasing!RunEnds(r))
             \/ OfGoal(Goal!Service /\ Goal!Undisturbed)
             \/ OfHelper(Helper!DeadlinePasses))
  /\ WF_vars(OfBatch(Batch!RunnerStep(c2)))
  /\ SF_vars(OfGoal(Goal!Tidy))

EndsSpec == EndsInit /\ [][EndsNext]_vars /\ EndsFairness

(* What the first and the second caller of a part have to do. *)
FirstIsBusy ==
  \/ part = "batch" /\ v8[c1] # None /\ ~Batch!CallEnded(c1)
  \/ part = "call" /\ calls["r1"].at \in Steps
  \/ part = "helper" /\ v7 \notin Helper!Ended
  \/ part = "window" /\ v10.at \notin {"idle", "closed"}
SecondIsBusy ==
  \/ part = "batch" /\ v8[c2] # None /\ ~Batch!CallEnded(c2)
  \/ part = "call" /\ calls["c1"].at \in Steps

(***************************************************************************)
(* Every call of the parallel executor that is not killed ends with an      *)
(* outcome for every task; every run and every reconciliation ends, though  *)
(* the process it polls never does; ZCode's helper ends whatever its child  *)
(* says, and if it says nothing, once the prompt has been written (a prompt *)
(* larger than the pipe blocks for ever on a child that does not read, so   *)
(* the helper's part has prompts that fit); and closing or deleting a       *)
(* connector gets through whatever the background job is doing.             *)
(***************************************************************************)
CallsEnd ==
  /\ [](FirstIsBusy => <>~FirstIsBusy)
  /\ [](SecondIsBusy => <>~SecondIsBusy)

(***************************************************************************)
(* An undisturbed closeout completes the job, though the lease may be       *)
(* returned only from a clean worktree that the fold has just dirtied.      *)
(***************************************************************************)
CloseoutCompletes == <>(part = "goal" => v1.state = "COMPLETE")

(***************************************************************************)
(* When no process dies and no store fails, every lease a review took is    *)
(* given back, whatever the run's outcome and whatever configuration moves  *)
(* between its guards.                                                      *)
(***************************************************************************)
LeaseReturned == []<>(part = "leasing" => \A l \in DOMAIN v2 : ~v2[l].open)
===============================================================================
