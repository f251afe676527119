----------------------------- MODULE ParallelReady -----------------------------
(***************************************************************************)
(* ParallelReadyExecutor.execute of parallel_ready_execution.py, called by  *)
(* several schedulers at once on one ProviderConfigStore, and the provider  *)
(* side of ProductionElasticWorkerExecutor.execute_once in                  *)
(* elastic_worker_capacity.py, which reserves an admission before it        *)
(* provisions a worker.  Every transaction on the store is a step of its    *)
(* own, so configuration edits, probes and other calls come in between.     *)
(*                                                                         *)
(* The worker broker and the provisioner answer as they like; what they     *)
(* promise is the subject of WorkerLeaseStore.                              *)
(***************************************************************************)
EXTENDS ProviderConfigStore, Sequences

CONSTANTS
  Calls,    \* the execute calls
  Plan,     \* per call, the sequence of [execution, provider] it was given
  BatchOf,  \* per call, its batch_id
  Elastic,  \* the calls that come through execute_once for an extra worker
  Denied,   \* executions that evaluate_provider_policy or the gate refuses
  Ttl,      \* lease_ttl_seconds of the requests
  MaxAge    \* max_age_seconds of is_provider_ready

VARIABLES
  calls,    \* per call: None, or where it is and what it remembers
  running   \* the <<call, position>> pairs whose execution may be active

batchVars == <<calls, running>>
allVars == <<vars, batchVars>>

ASSUME PlanAssumption ==
  /\ Elastic \subseteq Calls
  /\ \A c \in Calls :
       /\ Plan[c] \in Seq([execution: Executions, provider: ProviderIds])
       /\ Len(Plan[c]) > 0
       /\ BatchOf[c] \in Batches
  /\ \A c \in Elastic : Len(Plan[c]) = 1
  /\ Ttl \in Ttls
  /\ MaxAge \in Nat

(***************************************************************************)
(* The outcome kinds by what they tell the caller: WAIT (nothing ran, try   *)
(* again), RECOVERY (somebody has to look), COMPLETED.  PENDING is a task   *)
(* not yet decided and RUNNABLE one with its lease.                         *)
(***************************************************************************)
Outcomes == {"PENDING", "RUNNABLE", "WAIT", "RECOVERY", "COMPLETED"}
Results == {"DONE", "REFUSED", "UNSURE"}
Places ==
  {"authorize", "reserve", "fenced", "provision", "check", "admit", "validate",
   "recheck", "lease", "return", "collect", "end", "dead"}

Positions(c) == 1..Len(Plan[c])

(* What execute keeps in its local variables. *)
CallState(c) ==
  [pc: Places, i: Positions(c), started: Nat, max: Nat,
   gens: [Positions(c) -> Generations],
   adm: [Positions(c) -> AdmissionIds \cup {None}],
   out: [Positions(c) -> Outcomes],
   res: [Positions(c) -> Results \cup {None}]]

ASSUME NoCallAssumption ==
  /\ \A c \in Calls : None \notin CallState(c)
  /\ None \notin AdmissionIds \cup Results

Live(c) == calls[c] # None /\ calls[c].pc \notin {"end", "dead"}
At(c, pc) == calls[c] # None /\ calls[c].pc = pc
Current(c) == Plan[c][calls[c].i]
Admission(c) == calls[c].adm[calls[c].i]
Runnable(c) == {i \in Positions(c) : calls[c].out[i] = "RUNNABLE"}

Goto(c, pc) == calls' = [calls EXCEPT ![c].pc = pc]

(* A task is decided: on to the next one, and after the last to the runners. *)
DecideFrom(c, i, out) ==
  [calls[c] EXCEPT !.out[i] = out,
                   !.i = IF i < Len(Plan[c]) THEN i + 1 ELSE 1,
                   !.pc = IF i < Len(Plan[c]) THEN "check" ELSE "collect"]
Decide(c, out) == calls' = [calls EXCEPT ![c] = DecideFrom(c, calls[c].i, out)]

(* execute_once returns without calling execute. *)
Finish(c, out) ==
  calls' = [calls EXCEPT ![c].out[1] = out, ![c].pc = "end"]

(* authorize: policy, generation, endpoint and a fresh healthy observation. *)
AuthorityAllows(x, p, gen) ==
  /\ x \notin Denied
  /\ providers[p].gen = gen
  /\ UrlOf(providers[p].profile.endpoint) # None
  /\ providers[p].profile.enabled
  /\ observations[p] # None
  /\ observations[p].health = "AVAILABLE"
  /\ observations[p].gen = gen
  /\ now - observations[p].at \in 0..MaxAge

Authorized(c) ==
  AuthorityAllows(Current(c).execution, Current(c).provider, calls[c].gens[calls[c].i])

-------------------------------------------------------------------------------
(* The plan was made under the generations that are current now. *)
Begin(c) ==
  /\ calls[c] = None
  /\ \A i \in Positions(c) : providers[Plan[c][i].provider] # None
  /\ calls' = [calls EXCEPT ![c] =
       [pc |-> IF c \in Elastic THEN "authorize" ELSE "check",
        i |-> 1, started |-> now, max |-> 0,
        gens |-> [i \in Positions(c) |-> providers[Plan[c][i].provider].gen],
        adm |-> [i \in Positions(c) |-> None],
        out |-> [i \in Positions(c) |-> "PENDING"],
        res |-> [i \in Positions(c) |-> None]]]
  /\ UNCHANGED <<vars, running>>

(* The two transactions of reserve_provider_admission. *)
Authorize(c) ==
  /\ At(c, "authorize")
  /\ \/ /\ Authorized(c)
        /\ calls' = [calls EXCEPT ![c].pc = "reserve",
                                  ![c].max = providers[Current(c).provider].profile.max]
     \/ ~Authorized(c) /\ Finish(c, "WAIT")
  /\ UNCHANGED <<vars, running>>

Verdict(c, t, id) ==
  AdmissionVerdict(Current(c).provider, Current(c).execution, BatchOf[c],
                   calls[c].max, calls[c].gens[calls[c].i], t, id)

(* The admission is granted, its record will be validated next. *)
Admitted(c, t, id, pc) ==
  /\ AcquireAdmission(Current(c).provider, Current(c).execution, BatchOf[c],
                      calls[c].max, calls[c].gens[calls[c].i], t, Ttl, id)
  /\ calls' = [calls EXCEPT ![c].pc = pc, ![c].adm[calls[c].i] = id]

Reserve(c) ==
  /\ At(c, "reserve")
  /\ \/ \E id \in AdmissionIds : Admitted(c, now, id, "fenced")
     \/ /\ \E id \in AdmissionIds : Verdict(c, now, id) = "CAPACITY_WAIT"
        /\ Finish(c, "WAIT")
        /\ UNCHANGED vars
     \/ /\ \E id \in AdmissionIds : Verdict(c, now, id) \notin {"ADMITTED", "CAPACITY_WAIT"}
        /\ Finish(c, "RECOVERY")
        /\ UNCHANGED vars
  /\ UNCHANGED running

(* _validate_provider_admission_record: all but the expiry agree by construction. *)
RecordExpired(c) == admissions[Admission(c)].expires <= now

Fenced(c) ==
  /\ At(c, "fenced")
  /\ \/ RecordExpired(c) /\ Finish(c, "RECOVERY")
     \/ ~RecordExpired(c) /\ Goto(c, "provision")
  /\ UNCHANGED <<vars, running>>

(* provision_ready, the second observation and the second schedule. *)
Provision(c) ==
  /\ At(c, "provision")
  /\ \/ Goto(c, "check")
     \/ Goto(c, "return")
     \/ Finish(c, "RECOVERY")
  /\ UNCHANGED <<vars, running>>

-------------------------------------------------------------------------------
(* The admission loop of execute *)

(* Gate, authority, and the caller's own count of what is in flight. *)
Check(c) ==
  /\ At(c, "check")
  /\ LET p == Current(c).provider
         taken == Cardinality({i \in Runnable(c) : Plan[c][i].provider = p})
     IN  \/ /\ ~Authorized(c)
            /\ Decide(c, "WAIT")
         \/ /\ Authorized(c)
            /\ \E inflight \in 0..1 :
                 IF inflight + taken >= providers[p].profile.max
                   THEN Decide(c, "WAIT")
                   ELSE calls' = [calls EXCEPT
                          ![c].pc = IF Admission(c) # None THEN "validate" ELSE "admit",
                          ![c].max = providers[p].profile.max]
  /\ UNCHANGED <<vars, running>>

(* acquire_admission with the time at which the batch started. *)
Admit(c) ==
  /\ At(c, "admit")
  /\ LET t == calls[c].started
     IN  \/ \E id \in AdmissionIds : Admitted(c, t, id, "validate")
         \/ /\ \E id \in AdmissionIds : Verdict(c, t, id) = "CAPACITY_WAIT"
            /\ Decide(c, "WAIT")
            /\ UNCHANGED vars
         \/ /\ \E id \in AdmissionIds : Verdict(c, t, id) \notin {"ADMITTED", "CAPACITY_WAIT"}
            /\ Decide(c, "RECOVERY")
            /\ UNCHANGED vars
  /\ UNCHANGED running

(* acquire_admission raises, before its commit or after it. *)
AdmitFails(c) ==
  /\ \/ At(c, "admit") /\ Decide(c, "RECOVERY")
     \/ At(c, "reserve") /\ Finish(c, "RECOVERY")
  /\ \/ UNCHANGED vars
     \/ \E id \in AdmissionIds :
          AcquireAdmission(Current(c).provider, Current(c).execution, BatchOf[c],
                           calls[c].max, calls[c].gens[calls[c].i],
                           IF At(c, "admit") THEN calls[c].started ELSE now, Ttl, id)
  /\ UNCHANGED running

Validate(c) ==
  /\ At(c, "validate")
  /\ \/ RecordExpired(c) /\ Decide(c, "RECOVERY")
     \/ ~RecordExpired(c) /\ Goto(c, "recheck")
  /\ UNCHANGED <<vars, running>>

Recheck(c) ==
  /\ At(c, "recheck")
  /\ Goto(c, IF Authorized(c) THEN "lease" ELSE "return")
  /\ UNCHANGED <<vars, running>>

(* The broker's answer: LEASED, no worker now, or anything else. *)
Lease(c) ==
  /\ At(c, "lease")
  /\ \/ Decide(c, "RUNNABLE")
     \/ Goto(c, "return")
     \/ Decide(c, "RECOVERY")
  /\ UNCHANGED <<vars, running>>

(* _release_provider_admission, its error raised before or after the commit. *)
Released(c) ==
  /\ admissions[Admission(c)].status \in {"ACTIVE", "EXPIRED"}
  /\ ReleaseAdmission(Admission(c))

ReleaseError(c) == Released(c) \/ UNCHANGED vars

(* The admission was not needed: give it back and wait. *)
Return(c) ==
  /\ At(c, "return")
  /\ LET step(out) == IF c \in Elastic THEN Finish(c, out) ELSE Decide(c, out)
     IN  \/ Released(c) /\ step("WAIT")
         \/ ReleaseError(c) /\ step("RECOVERY")
  /\ UNCHANGED running

-------------------------------------------------------------------------------
(* The thread pool *)

(* The runnable tasks start together; the answers are taken in plan order. *)
StartRunners(c) ==
  /\ At(c, "collect")
  /\ \A i \in Positions(c) : calls[c].res[i] = None
  /\ Runnable(c) # {} /\ \A i \in Runnable(c) : <<c, i>> \notin running
  /\ running' = running \cup {<<c, i>> : i \in Runnable(c)}
  /\ UNCHANGED <<vars, calls>>

(***************************************************************************)
(* _typed_dispatch_policy.  DONE: evidence of this job's success.  REFUSED: *)
(* evidence that it is not executing.  UNSURE: an exception, a foreign      *)
(* result or a contradictory one; the execution may go on.                  *)
(***************************************************************************)
RunnerAnswers(c, i, result) ==
  /\ At(c, "collect")
  /\ <<c, i>> \in running
  /\ calls[c].res[i] = None
  /\ calls' = [calls EXCEPT ![c].res[i] = result]
  /\ running' = IF result = "UNSURE" THEN running ELSE running \ {<<c, i>>}
  /\ UNCHANGED vars

(* Mutant: the admission is released whatever the runner said. *)
ReleasesUncertain(result) == TRUE

ReleasesAdmission(result) == result \in {"DONE", "REFUSED"}

DecideRun(c, out) ==
  calls' = [calls EXCEPT ![c].out[calls[c].i] = out,
                         ![c].i = IF calls[c].i < Len(Plan[c]) THEN @ + 1 ELSE @,
                         ![c].pc = IF calls[c].i < Len(Plan[c]) THEN "collect" ELSE "end"]

(* Mutant: only a result with evidence is waited for. *)
CollectEvidence(c) ==
  /\ At(c, "collect")
  /\ LET i == calls[c].i
         result == calls[c].res[i]
     IN  \/ /\ calls[c].out[i] # "RUNNABLE"
            /\ DecideRun(c, calls[c].out[i])
            /\ UNCHANGED vars
         \/ /\ result # None /\ result # "UNSURE"
            /\ Released(c)
            /\ DecideRun(c, IF result = "DONE" THEN "COMPLETED" ELSE "RECOVERY")
  /\ UNCHANGED running

Collect(c) ==
  /\ At(c, "collect")
  /\ LET i == calls[c].i
         result == calls[c].res[i]
     IN  \/ /\ calls[c].out[i] # "RUNNABLE"
            /\ DecideRun(c, calls[c].out[i])
            /\ UNCHANGED vars
         \/ /\ result # None /\ ReleasesAdmission(result)
            /\ \/ /\ Released(c)
                  /\ DecideRun(c, IF result = "DONE" THEN "COMPLETED" ELSE "RECOVERY")
               \/ ReleaseError(c) /\ DecideRun(c, "RECOVERY")
         \/ /\ result # None /\ ~ReleasesAdmission(result)
            /\ DecideRun(c, "RECOVERY")
            /\ UNCHANGED vars
  /\ UNCHANGED running

(* The process of a call dies; what it started may go on without it. *)
Crash(c) ==
  /\ Live(c)
  /\ Goto(c, "dead")
  /\ UNCHANGED <<vars, running>>

(* An execution nobody waits for any more ends by itself. *)
OrphanEnds(c, i) ==
  /\ <<c, i>> \in running
  /\ calls[c].pc = "dead" \/ calls[c].res[i] = "UNSURE"
  /\ running' = running \ {<<c, i>>}
  /\ UNCHANGED <<vars, calls>>

-------------------------------------------------------------------------------
CallStep(c) ==
  \/ Authorize(c) \/ Reserve(c) \/ Fenced(c) \/ Provision(c)
  \/ Check(c) \/ Admit(c) \/ AdmitFails(c) \/ Validate(c) \/ Recheck(c)
  \/ Lease(c) \/ Return(c) \/ StartRunners(c) \/ Collect(c)

RunnerStep(c) ==
  \E i \in Positions(c), result \in Results : RunnerAnswers(c, i, result)

BatchInit ==
  /\ Init
  /\ calls = [c \in Calls |-> None]
  /\ running = {}

StoreStep == (Tick \/ ConfigurationStep \/ ProbeStep) /\ UNCHANGED batchVars

BatchNext ==
  \/ StoreStep
  \/ \E c \in Calls :
       \/ Begin(c) \/ CallStep(c) \/ RunnerStep(c) \/ Crash(c)
       \/ \E i \in Positions(c) : OrphanEnds(c, i)

BatchSpec == BatchInit /\ [][BatchNext]_allVars

-------------------------------------------------------------------------------
BatchTypeOK ==
  /\ TypeOK
  /\ calls = [c \in Calls |-> calls[c]]
  /\ \A c \in Calls : calls[c] # None => calls[c] \in CallState(c)
  /\ running \subseteq UNION {{c} \X Positions(c) : c \in Calls}

ProviderOf(run) == Plan[run[1]][run[2]].provider
ExecutionOf(run) == Plan[run[1]][run[2]].execution
GenerationOf(run) == calls[run[1]].gens[run[2]]

(***************************************************************************)
(* The executions that may be active at a provider, those of dead calls and *)
(* those with an uncertain outcome included, never exceed its limit.        *)
(***************************************************************************)
RunningWithinLimit ==
  \A p \in ProviderIds :
    providers[p] # None =>
      Cardinality({r \in running : ProviderOf(r) = p}) <= providers[p].profile.max

(***************************************************************************)
(* No execution is active twice at a provider, whatever batches overlap,    *)
(* are repeated under their own batch_id, or are retried after a crash.     *)
(***************************************************************************)
NeverRunsTwice ==
  \A r, s \in running :
    (r # s /\ ProviderOf(r) = ProviderOf(s)) => ExecutionOf(r) # ExecutionOf(s)

(***************************************************************************)
(* An execution that may be active runs against the configuration it was    *)
(* planned and authorized for: the generation has not moved on.             *)
(***************************************************************************)
RunsUnderPlannedGeneration ==
  \A r \in running : providers[ProviderOf(r)].gen = GenerationOf(r)

(***************************************************************************)
(* A call that reports WAIT or COMPLETED has given back the admission it    *)
(* acquired; capacity stays consumed only where RECOVERY says so.           *)
(***************************************************************************)
NoSilentAdmission ==
  \A c \in Calls \ Elastic :
    calls[c] # None =>
      \A i \in Positions(c) :
        (calls[c].out[i] \in {"WAIT", "COMPLETED"} /\ calls[c].adm[i] # None) =>
          admissions[calls[c].adm[i]].status = "RELEASED"

(***************************************************************************)
(* Whatever batches overlap, are repeated under their own batch_id, crash   *)
(* or run out their admissions: a provider never runs an execution twice,   *)
(* nor more than its limit, nor under another configuration than the one    *)
(* that was planned, and no admission stays behind a settled outcome.       *)
(***************************************************************************)
BatchSafety ==
  /\ BatchTypeOK
  /\ NeverRunsTwice
  /\ RunningWithinLimit
  /\ NoSilentAdmission
  /\ RunsUnderPlannedGeneration

(* A call that was killed, or ended with an outcome for every task. *)
CallEnded(c) ==
  \/ At(c, "dead")
  \/ At(c, "end") /\ \A i \in Positions(c) :
       calls[c].out[i] \in {"WAIT", "RECOVERY", "COMPLETED"}

===============================================================================
