---------------------------- MODULE ParentSubmission ----------------------------
(***************************************************************************)
(* Requests for a parent agent's turn queue: ParentAdmission.inspect and    *)
(* ParentAudit of orchestration_parent.py, SignalReceiver of                *)
(* orchestration_receiver.py, which collects the evidence page by page, and *)
(* the duplicate guard of codex_queue_submission_guard.py.  The queue, the  *)
(* turns and the recovery evidence belong to the parent agent; a page is    *)
(* what follows its cursor.  inspect only reads.  checkpoint_before and     *)
(* record_observed bracket the submission of a writer, which sends one      *)
(* entry between the two.                                                   *)
(***************************************************************************)
EXTENDS Integers, Sequences, FiniteSets, SequencesExt

CONSTANTS
  Calls,     \* calls of inspect that can be under way
  Writers,   \* signal_id of the submissions that may be tried
  PageSize,  \* entries the queue puts on a page
  MaxPages,  \* max_pages of the receiver
  MaxEvents, \* bound on the events of the job, for model checking
  MaxIds,    \* bound on the entries ever queued, for model checking
  None

VARIABLES
  events,   \* the job's events; their number is its version
  claimed,  \* whether the job has left NEW and READY
  gen,      \* generation of what resolve_intent answers
  queue,    \* the parent's queue: submission_id and key of the entries
  ids,      \* submission_ids given out
  turn,     \* status of the parent's turn
  calls,    \* per call of inspect, how far it is
  writers,  \* per writer, how far it is
  stayed,   \* history: per call, the task's entries queued ever since it began
  sent      \* history: submission_ids of the writers' entries

parentVars == <<events, claimed, gen, queue, ids, turn, calls, writers, stayed, sent>>

(* The key of the task, of another task, or not a task's at all. *)
Keys == {"task", "other", "alien"}
Statuses == {"completed", "interrupted", "failed", "inProgress"}

ParentAssumption ==
  /\ PageSize \in Nat \ {0} /\ MaxPages \in Nat \ {0}
  /\ MaxEvents \in Nat /\ MaxIds \in Nat

NoCall == [at |-> "idle", kind |-> None, prior |-> None, version |-> 0, gen |-> 0,
           cursor |-> 0, pages |-> 0, seen |-> {}, second |-> FALSE, answer |-> None]

UnderWay(d) == calls[d].at \notin {"idle", "done"}
Go(d, step) == calls' = [calls EXCEPT ![d].at = step]
Answer(d, reason) ==
  calls' = [calls EXCEPT ![d] = [NoCall EXCEPT !.at = "done", !.answer = reason,
                                               !.kind = calls[d].kind, !.prior = calls[d].prior]]

parent == <<queue, ids, turn, stayed, sent>>
record == <<events, claimed, gen>>

Version == Len(events)
Ids(entries) == {e.id : e \in entries}
TaskIds == {e.id : e \in {x \in Range(queue) : x.key = "task"}}

-------------------------------------------------------------------------------
(* ParentAudit._job and _events *)

JobUsable(version) == ~claimed /\ Version = version

Prior == \E i \in DOMAIN events : events[i].tag \in {"pre", "post"}

-------------------------------------------------------------------------------
(* ParentAdmission.inspect *)

(* Request, credential and identity, then the intent: it names the version   *)
(* of the job.  A REPLAY names the submission it is about.                  *)
Inspect(d, kind, prior) ==
  /\ ~UnderWay(d)
  /\ (kind = "REPLAY") = (prior # None)
  /\ calls' = [calls EXCEPT ![d] =
       [NoCall EXCEPT !.at = "queue", !.kind = kind, !.prior = prior,
                      !.version = Version, !.gen = gen]]
  /\ stayed' = [stayed EXCEPT ![d] = TaskIds]
  /\ UNCHANGED <<record, queue, ids, turn, writers, sent>>

After(cursor) == SelectSeq(queue, LAMBDA e : e.id > cursor)
PageAt(cursor) == SubSeq(After(cursor), 1, IF Len(After(cursor)) < PageSize
                                             THEN Len(After(cursor)) ELSE PageSize)

(* evaluate_bootstrap_guard: the entries that are this task's *)
Duplicates(seen) == Ids({e \in seen : e.key = "task"})

(* listing: one page.  When the pages do not reach the end, or the binding   *)
(* of a page has gone stale, only a duplicate that was seen is reported.    *)
ListQueue(d) ==
  LET c == calls[d]  page == PageAt(c.cursor)
      seen == c.seen \cup Range(page)
      more == Len(After(c.cursor)) > PageSize
      partial == IF Duplicates(seen) # {} /\ c.kind = "ENQUEUE"
                   THEN "QUEUE_GUARD_DUPLICATE_PENDING" ELSE "EVIDENCE_INCOMPLETE" IN
  /\ c.at = "queue"
  /\ \/ /\ more /\ c.pages + 1 < MaxPages
        /\ calls' = [calls EXCEPT ![d].seen = seen, ![d].pages = @ + 1,
                                  ![d].cursor = Last(page).id]
     \/ more /\ c.pages + 1 = MaxPages /\ Answer(d, partial)
     \/ ~more /\ calls' = [calls EXCEPT ![d].at = "turns", ![d].seen = seen]
     \/ Answer(d, partial)
  /\ UNCHANGED <<record, parent, writers>>

(* The turns, what the evidence amounts to, and the utilization and          *)
(* authority guards, which may refuse.                                      *)
ListTurns(d) ==
  LET c == calls[d]  dup == Duplicates(c.seen) IN
  /\ c.at = "turns"
  /\ IF dup # {} /\ c.kind = "ENQUEUE" THEN Answer(d, "QUEUE_GUARD_DUPLICATE_PENDING")
     ELSE IF turn = "interrupted" THEN Answer(d, "QUEUE_GUARD_TURN_INTERRUPTED")
     ELSE IF turn = "inProgress" THEN Answer(d, "ORCH_PARENT_TURN_ACTIVE")
     ELSE IF \E e \in c.seen : e.key = "alien" THEN Answer(d, "ORCH_PARENT_IDENTITY_UNRESOLVED")
     ELSE Go(d, "job") \/ Answer(d, "GUARD_REFUSED")
  /\ UNCHANGED <<record, parent, writers>>

(* ParentAudit.inspect: the job, its events, and the job once more *)
AuditJob(d) ==
  LET c == calls[d] IN
  /\ c.at \in {"job", "again"}
  /\ IF claimed THEN Answer(d, "ORCH_PARENT_AUDIT_OWNER_REQUIRED")
     ELSE IF ~JobUsable(c.version) THEN Answer(d, "JOB_VERSION_CONFLICT")
     ELSE IF c.at = "job" THEN Go(d, "events")
     ELSE IF ~c.second THEN Go(d, IF c.kind = "REPLAY" THEN "proof" ELSE "resolve")
     ELSE Answer(d, IF c.kind = "REPLAY" THEN "ORCH_PARENT_RESULT_ATTACHED"
                                         ELSE "ORCH_QUEUE_SERIALIZATION_UNPROVEN")
  /\ UNCHANGED <<record, parent, writers>>

(* Mutant: a submission that was recorded as observed is settled. *)
AuditEventsSettled(d) ==
  LET c == calls[d] IN
  /\ c.at = "events"
  /\ IF c.kind = "ENQUEUE" /\ Prior /\ Last(events).tag # "post"
       THEN Answer(d, "ORCH_PARENT_PRIOR_SUBMISSION_UNRESOLVED")
       ELSE Go(d, "again")
  /\ UNCHANGED <<record, parent, writers>>

AuditEvents(d) ==
  LET c == calls[d] IN
  /\ c.at = "events"
  /\ IF c.kind = "ENQUEUE" /\ Prior
       THEN Answer(d, "ORCH_PARENT_PRIOR_SUBMISSION_UNRESOLVED")
       ELSE Go(d, "again")
  /\ UNCHANGED <<record, parent, writers>>

(* The recovery evidence says whether the submission is pending or over;    *)
(* it must agree with the queue as it was listed.                           *)
Prove(d) ==
  LET c == calls[d]  dup == Duplicates(c.seen)
      state == IF c.prior \in TaskIds THEN "PENDING" ELSE "TERMINAL"
      listed == {e \in c.seen : e.id = c.prior} IN
  /\ c.at = "proof"
  /\ IF /\ c.prior <= ids
        /\ state = "PENDING" => dup = {c.prior}
        /\ state = "TERMINAL" => dup = {} /\ listed = {}
        /\ \A e \in listed : e.key = "task"
       THEN Go(d, "resolve") ELSE Answer(d, "ORCH_PARENT_RECOVERY_UNRESOLVED")
  /\ UNCHANGED <<record, parent, writers>>

(* resolve_intent once more, then the audit once more *)
ResolveAgain(d) ==
  LET c == calls[d] IN
  /\ c.at = "resolve"
  /\ IF gen # c.gen \/ Version # c.version THEN Answer(d, "ORCH_PARENT_BINDING_DRIFT")
     ELSE calls' = [calls EXCEPT ![d].at = "job", ![d].second = TRUE]
  /\ UNCHANGED <<record, parent, writers>>

-------------------------------------------------------------------------------
(* A writer: checkpoint_before, one submission, record_observed *)

NoWriter == [at |-> "idle", version |-> 0, id |-> None]
WriterGo(w, step) == writers' = [writers EXCEPT ![w].at = step]

(* ParentAudit.inspect on behalf of the writer, in its three reads *)
Prepare(w) ==
  /\ writers[w].at = "idle"
  /\ writers' = [writers EXCEPT ![w] = [NoWriter EXCEPT !.at = "events", !.version = Version]]
  /\ ~claimed
  /\ UNCHANGED <<record, parent, calls>>

(* Mutant: only a preparation of the same signal is in the way. *)
PrepareEventsOwn(w) ==
  /\ writers[w].at = "events"
  /\ WriterGo(w, IF \E i \in DOMAIN events : events[i] = [tag |-> "pre", sig |-> w]
                   THEN "failed" ELSE "again")
  /\ UNCHANGED <<record, parent, calls>>

PrepareEvents(w) ==
  /\ writers[w].at = "events"
  /\ WriterGo(w, IF Prior THEN "failed" ELSE "again")
  /\ UNCHANGED <<record, parent, calls>>

PrepareAgain(w) ==
  /\ writers[w].at = "again"
  /\ WriterGo(w, IF JobUsable(writers[w].version) THEN "checkpoint" ELSE "failed")
  /\ UNCHANGED <<record, parent, calls>>

AppendEvent(tag, sig) == events' = Append(events, [tag |-> tag, sig |-> sig])

(* checkpoint "orch-parent-pre:<signal_id>" on the version that was read *)
CheckpointBefore(w) ==
  /\ writers[w].at = "checkpoint"
  /\ \/ /\ Version = writers[w].version /\ Version < MaxEvents
        /\ AppendEvent("pre", w)
        /\ writers' = [writers EXCEPT ![w].at = "confirm", ![w].version = Version + 1]
     \/ Version # writers[w].version /\ WriterGo(w, "failed") /\ UNCHANGED events
  /\ UNCHANGED <<claimed, gen, parent, calls>>

(* ... which must still be the job's when it is read back *)
Confirm(w) ==
  /\ writers[w].at = "confirm"
  /\ WriterGo(w, IF JobUsable(writers[w].version) THEN "submit" ELSE "failed")
  /\ UNCHANGED <<record, parent, calls>>

Enqueue(key) == queue' = Append(queue, [id |-> ids + 1, key |-> key]) /\ ids' = ids + 1

(* The writer's submission; its acknowledgement may be lost. *)
Submit(w) ==
  /\ writers[w].at = "submit" /\ ids < MaxIds
  /\ Enqueue("task")
  /\ sent' = sent \cup {ids + 1}
  /\ \/ writers' = [writers EXCEPT ![w].at = "observe", ![w].id = ids + 1]
     \/ WriterGo(w, "failed")
  /\ UNCHANGED <<record, turn, calls, stayed>>

(* record_observed: the job and its last event, which is the preparation ... *)
RecordObserved(w) ==
  /\ writers[w].at = "observe"
  /\ WriterGo(w, IF JobUsable(writers[w].version) /\ Last(events) = [tag |-> "pre", sig |-> w]
                   THEN "post" ELSE "reconcile")
  /\ UNCHANGED <<record, parent, calls>>

(* ... checkpoint "orch-parent-post:<signal_id>" on the version of the       *)
(* preparation ...                                                          *)
CheckpointAfter(w) ==
  /\ writers[w].at = "post"
  /\ \/ /\ Version = writers[w].version /\ Version < MaxEvents
        /\ AppendEvent("post", w)
        /\ writers' = [writers EXCEPT ![w].at = "reread", ![w].version = Version + 1]
     \/ Version # writers[w].version /\ WriterGo(w, "reconcile") /\ UNCHANGED events
  /\ UNCHANGED <<claimed, gen, parent, calls>>

(* ... and the job read back: it may have moved on, with the checkpoint made. *)
ReadBack(w) ==
  /\ writers[w].at = "reread"
  /\ WriterGo(w, IF JobUsable(writers[w].version) THEN "observed" ELSE "reconcile")
  /\ UNCHANGED <<record, parent, calls>>

-------------------------------------------------------------------------------
(* The parent, the job and its owner go on. *)

ParentMoves ==
  /\ \/ \E key \in Keys : ids < MaxIds /\ Enqueue(key) /\ UNCHANGED <<turn, stayed>>
     \/ /\ queue # <<>> /\ queue' = Tail(queue) /\ turn' = "inProgress"
        /\ stayed' = [d \in Calls |-> stayed[d] \ {Head(queue).id}]
        /\ UNCHANGED ids
     \/ \E s \in Statuses : turn = "inProgress" /\ turn' = s /\ UNCHANGED <<queue, ids, stayed>>
  /\ UNCHANGED <<record, calls, writers, sent>>

(* transition and checkpoint of the job's other owners: a claim is made, and  *)
(* given back.                                                              *)
JobMoves ==
  /\ Version < MaxEvents /\ AppendEvent("other", None)
  /\ claimed' \in BOOLEAN
  /\ UNCHANGED <<gen, parent, calls, writers>>

IntentDrifts ==
  /\ gen = 0 /\ gen' = 1
  /\ UNCHANGED <<events, claimed, parent, calls, writers>>

ParentInit ==
  /\ events = <<[tag |-> "other", sig |-> None]>> /\ claimed = FALSE /\ gen = 0
  /\ queue = <<>> /\ ids = 0 /\ turn = "completed"
  /\ calls = [d \in Calls |-> NoCall]
  /\ writers = [w \in Writers |-> NoWriter]
  /\ stayed = [d \in Calls |-> {}] /\ sent = {}

ParentNext ==
  \/ \E d \in Calls :
       \/ Inspect(d, "ENQUEUE", None)
       \/ \E prior \in 1..MaxIds : Inspect(d, "REPLAY", prior)
       \/ ListQueue(d) \/ ListTurns(d) \/ AuditJob(d) \/ AuditEvents(d)
       \/ Prove(d) \/ ResolveAgain(d)
  \/ \E w \in Writers :
       \/ Prepare(w) \/ PrepareEvents(w) \/ PrepareAgain(w) \/ CheckpointBefore(w)
       \/ Confirm(w) \/ Submit(w) \/ RecordObserved(w) \/ CheckpointAfter(w)
       \/ ReadBack(w)
  \/ ParentMoves \/ JobMoves \/ IntentDrifts

ParentSpec == ParentInit /\ [][ParentNext]_parentVars

-------------------------------------------------------------------------------
(* Type invariant of the parent's queue and of the job's audit. *)
ParentTypeOK ==
  /\ Version \in 1..MaxEvents /\ ids \in 0..MaxIds /\ turn \in Statuses
  /\ \A i, j \in DOMAIN queue : i < j => queue[i].id < queue[j].id
  /\ \A d \in Calls : calls[d].pages < MaxPages

(* For a job at most one submission is ever made, and the audit says so: a   *)
(* preparation is unique, what is recorded as observed follows its own      *)
(* preparation at once (checkpoint_before, record_observed).                *)
SubmittedOnce ==
  /\ Cardinality(sent) <= 1
  /\ \A i, j \in DOMAIN events : events[i].tag = "pre" /\ events[j].tag = "pre" => i = j
  /\ \A i \in DOMAIN events : events[i].tag = "post" =>
       i > 1 /\ events[i - 1] = [tag |-> "pre", sig |-> events[i].sig]

(* When an ENQUEUE is found free of conflicts, no entry of its task was in   *)
(* the queue all the time the evidence was collected.                       *)
ClearIsClear ==
  \A d \in Calls : calls[d].answer = "ORCH_QUEUE_SERIALIZATION_UNPROVEN" => stayed[d] = {}

(* An answer that attaches a submission to a REPLAY is about the only entry  *)
(* of the task that was pending, or about one that no longer was.           *)
AttachedIsAlone ==
  \A d \in Calls : calls[d].answer = "ORCH_PARENT_RESULT_ATTACHED" =>
    stayed[d] \subseteq {calls[d].prior}

(* A call that clears an ENQUEUE does not clear it against a submission that *)
(* the audit already had when the call began.                               *)
NoSecondChance ==
  \A d \in Calls :
    (/\ calls[d].answer # "ORCH_QUEUE_SERIALIZATION_UNPROVEN"
     /\ calls'[d].answer = "ORCH_QUEUE_SERIALIZATION_UNPROVEN") => ~Prior
===============================================================================
