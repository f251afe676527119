-------------------------- MODULE SupervisedRunProofs --------------------------
(***************************************************************************)
(* Proofs about SupervisedRun, for any number of callers, reconcilers,      *)
(* executions, calls, polls and transport marks.                            *)
(*                                                                          *)
(* The invariant says, for every execution, how its record and its process  *)
(* go together (RecordOK), and for every call what it may rely on at the    *)
(* step it has reached (CallOK).  Much of the latter holds only while the   *)
(* version the call knows is the stored one: this is what the compare and   *)
(* set of the store is for.  Both are predicates of one row, one process    *)
(* and one call, so that a step is a change of these three (Evolves), and   *)
(* what it does to the other calls is one lemma.                            *)
(***************************************************************************)
EXTENDS SupervisedRun, TLAPS

(* The steps of launch; those that a result file has led to; those at which *)
(* a reconciler goes by the state it read when it began.                    *)
Launching == {"starting", "start", "pidfile", "childpid", "setpid", "running"}
Unbound == {"assess", "fresh", "create"}
Collecting == {"get", "collect", "collectpid", "collectresult", "collectstate", "unreadable"}
Pinned == {"connect", "compare", "check", "observe", "recheck", "stillrunning", "marklost"}
Reported == Successes \cup {"VERIFY_RESULT", "REVIEW_FAILURE"}

ProcessOK(p) ==
  /\ p.sup = "none" => ~p.pidfile /\ p.child = None /\ p.result = None
  /\ p.result # None => p.child # None

(* A record before its process, with it and after it. *)
RecordOK(row, p, mark) ==
  /\ row.state = "QUEUED" => p.sup = "none"
  /\ p.sup = "alive" /\ ~p.pidfile /\ p.result = None => row.state \in {"STARTING", "RECOVERY_REQUIRED"}
  /\ row.exit # None => row.exit = p.result /\ row.pid = p.child
  /\ row.pid # None => row.pid = p.child
  /\ row.state \in {"VERIFICATION_REQUIRED", "SUCCEEDED"} => p.result = 0
  /\ row.state = "FAILED" => p.result = 1
  /\ mark = "lost" => p.sup # "alive" /\ p.result = None

(* A launch, up to the first inspection. *)
LaunchOK(c, row, p, mark) ==
  /\ c.at \in Launching =>
       /\ c.kind = "FRESH"
       /\ c.ver = row.version => row.exit = None
  /\ c.at = "starting" =>
       /\ p.sup = "none"
       /\ c.ver = row.version => mark # "lost"
  /\ c.at = "start" => p.sup = "none" /\ row.state = "STARTING" /\ mark # "lost"
  /\ c.at = "pidfile" => p.sup # "none"
  /\ c.at \in {"childpid", "setpid", "running"} => p.pidfile
  /\ c.at = "recover" => c.kind = "FRESH"

(* A collection; the pid of a result is always the recorded one. *)
CollectOK(c, row, p) ==
  /\ c.at \in Collecting => p.result # None
  /\ c.at # "mismatch"
  /\ c.ver = row.version =>
       /\ c.at = "collectresult" => row.pid = p.child
       /\ c.at = "collectstate" => row.pid = p.child /\ row.exit = p.result

(* What a reconciler has seen, as long as the record is what it was. *)
ObserveOK(c, row, p) ==
  /\ c.at = "stillrunning" => p.pidfile
  /\ c.at \in {"recheck", "marklost"} =>
       /\ c.seen \in {"LOST", "UNKNOWN", "INVALID"}
       /\ c.seen # "LOST" => p.pidfile
  /\ c.kind = None /\ c.ver = row.version =>
       /\ c.at \in Pinned => row.state = c.state
       /\ c.at \in {"observe", "stillrunning"} => row.exit = None
       /\ c.at = "observe" => c.seen = row.state
       /\ c.at = "recheck" /\ c.seen = "LOST" =>
            \/ p.sup = "dead"
            \/ /\ row.state # "STARTING"
               /\ p.sup = "none" \/ p.result # None \/ row.state = "RECOVERY_REQUIRED"
       /\ c.at = "marklost" /\ c.seen = "LOST" =>
            \/ p.sup = "dead" /\ p.result = None
            \/ row.state # "STARTING" /\ (p.sup = "none" \/ row.state = "RECOVERY_REQUIRED")

CallOK(c, row, p, mark) ==
  /\ c.at \in Steps =>
       /\ c.ver <= row.version
       /\ LaunchOK(c, row, p, mark)
       /\ CollectOK(c, row, p)
       /\ ObserveOK(c, row, p)
  /\ c.at \in Reported => row.exit # None

(* Which calls have an execution, and which of them are runs. *)
ShapeOK(c, a) ==
  /\ c.at \in (Steps \ Unbound) \cup Reported => c.exec # None
  /\ c.at \in Unbound => c.exec = None /\ c.ver = 0 /\ c.fp \in Fingerprints
  /\ c.at \in Steps /\ a \in Runners /\ c.exec # None => c.kind # None
  /\ a \notin Runners => c.kind = None /\ c.at \notin Unbound
  /\ c.at \in {"connect", "compare", "stillrunning", "marklost"} => a \notin Runners

Mark(e) == IF e \in lost THEN "lost" ELSE "open"

ExecOK(row, p, mark) ==
  /\ ProcessOK(p)
  /\ row = None => p.sup = "none" /\ mark # "lost"
  /\ row # None => RecordOK(row, p, mark)

OfExec(e) == ExecOK(records[e], procs[e], Mark(e))

OfCall(a) ==
  /\ ShapeOK(calls[a], a)
  /\ calls[a].exec # None =>
       /\ records[calls[a].exec] # None
       /\ CallOK(calls[a], records[calls[a].exec], procs[calls[a].exec], Mark(calls[a].exec))

(* An execution is created by one call. *)
Alone(a, b) ==
  a # b /\ calls[a].kind = "FRESH" /\ calls[b].kind = "FRESH" => calls[a].exec # calls[b].exec

RunInv ==
  /\ RunTypeOK
  /\ \A e \in Execs : OfExec(e)
  /\ \A a \in Actors : OfCall(a)
  /\ \A a, b \in Actors : Alone(a, b)

(* With one request after the other: one record for a command. *)
OneRecord ==
  OneAfterTheOther =>
    /\ \A e, f \in Execs :
         e # f /\ records[e] # None /\ records[f] # None => records[e].fp # records[f].fp
    /\ \A r \in Runners : calls[r].at \in {"fresh", "create"} =>
         \A e \in Execs : records[e] # None => records[e].fp # calls[r].fp

-------------------------------------------------------------------------------
(* What a step does to the calls that do not take it *)

(* A row changes with its version, a process goes on, a result and an exit  *)
(* code stay, and a supervisor is started only under a STARTING record.     *)
Evolves(row, p, mark, row2, p2, mark2) ==
  /\ row2 = row \/ row2.version = row.version + 1
  /\ row.exit # None => row2.exit # None
  /\ mark2 = mark \/ row2.version = row.version + 1
  /\ p2.result # p.result => p.result = None /\ p.sup = "alive"
  /\ p2.child # p.child => p.child = None
  /\ p.pidfile => p2.pidfile
  /\ p.sup = "dead" => p2.sup = "dead"
  /\ p.sup = "alive" => p2.sup # "none"
  /\ p.sup = "none" /\ p2.sup # "none" => row.state = "STARTING"

(* What only the creator of an execution does: start it, and give it up     *)
(* before it was started.                                                   *)
Undisturbed(row, p, mark, row2, p2, mark2) ==
  p.sup = "none" =>
    /\ p2.sup = "none"
    /\ row.state = "STARTING" => row2.state = "STARTING" /\ mark2 = mark

(* A call still has what it relies on after a step of another one. *)
LEMMA OthersKept ==
  ASSUME NEW c \in Call, NEW row \in ExecutionRecord, NEW row2 \in ExecutionRecord,
         NEW p \in Process, NEW p2 \in Process, NEW mark, NEW mark2,
         ProcessOK(p), CallOK(c, row, p, mark),
         Evolves(row, p, mark, row2, p2, mark2),
         c.kind = "FRESH" => Undisturbed(row, p, mark, row2, p2, mark2)
  PROVE  CallOK(c, row2, p2, mark2)
<1> row.version \in Nat /\ row2.version \in Nat /\ c.ver \in Nat
  BY RunAssumption DEF ExecutionRecord, Call
<1>1. ASSUME c.at \in Steps PROVE c.ver <= row2.version
  BY <1>1 DEF CallOK, Evolves
<1>2. ASSUME c.at \in Steps, c.ver = row2.version
      PROVE  row2 = row /\ mark2 = mark /\ c.ver = row.version
  BY <1>2 DEF CallOK, Evolves
<1>3. ASSUME c.at \in Steps PROVE LaunchOK(c, row2, p2, mark2)
  BY <1>2, <1>3 DEF CallOK, Evolves, LaunchOK, Undisturbed, Launching, Process
<1>4. ASSUME c.at \in Steps PROVE CollectOK(c, row2, p2)
  BY <1>2, <1>4 DEF CallOK, Evolves, CollectOK, ProcessOK, Collecting
<1>5. ASSUME c.at \in Steps PROVE ObserveOK(c, row2, p2)
  BY <1>2, <1>5 DEF CallOK, Evolves, ObserveOK, ProcessOK
<1> QED  BY <1>1, <1>3, <1>4, <1>5 DEF CallOK, Evolves

-------------------------------------------------------------------------------
(* What a step has to show: only its own call and its own execution *)

(* The step leaves the other executions, and the other calls, alone. *)
OnlyExec(e) ==
  \A f \in Execs \ {e} :
    /\ records'[f] = records[f] /\ procs'[f] = procs[f]
    /\ f \in lost' <=> f \in lost

OnlyCall(a, c) == calls' = [calls EXCEPT ![a] = c]

(* The change of one execution, for it and for the calls that do not take   *)
(* the step.                                                                *)
LEMMA ExecChanges ==
  ASSUME RunInv, NEW e \in Execs, records[e] # None, RunTypeOK', OnlyExec(e),
         records'[e] # None, NEW mark2, mark2 = Mark(e)',
         ExecOK(records'[e], procs'[e], mark2),
         Evolves(records[e], procs[e], Mark(e), records'[e], procs'[e], mark2),
         NEW b \in Actors, calls'[b] = calls[b],
         calls[b].kind = "FRESH" /\ calls[b].exec = e =>
           Undisturbed(records[e], procs[e], Mark(e), records'[e], procs'[e], mark2)
  PROVE  (\A f \in Execs : OfExec(f)') /\ OfCall(b)'
<1>1. \A f \in Execs : f # e => records'[f] = records[f] /\ procs'[f] = procs[f] /\ Mark(f)' = Mark(f)
  BY DEF OnlyExec, Mark
<1>2. \A f \in Execs : OfExec(f)'
  BY <1>1 DEF RunInv, OfExec
<1>3. CASE calls[b].exec = e
  <2>1. calls[b] \in Call /\ records[e] \in ExecutionRecord /\ records'[e] \in ExecutionRecord
        /\ procs[e] \in Process /\ procs'[e] \in Process
    BY DEF RunInv, RunTypeOK
  <2>2. ProcessOK(procs[e])
    BY DEF RunInv, OfExec, ExecOK
  <2>3. e # None
    BY RunAssumption
  <2>4. CallOK(calls[b], records[e], procs[e], Mark(e)) /\ ShapeOK(calls[b], b)
    BY <1>3, <2>3 DEF RunInv, OfCall
  <2>5. CallOK(calls[b], records'[e], procs'[e], mark2)
    BY <1>3, <2>1, <2>2, <2>4, OthersKept
  <2> QED  BY <1>2, <1>3, <2>4, <2>5 DEF OfCall
<1>4. CASE calls[b].exec # e
  <2>1. calls[b].exec \in Execs \cup {None} /\ OfCall(b)
    BY DEF RunInv, RunTypeOK, Call
  <2> QED  BY <1>1, <1>2, <1>4, <2>1 DEF OfCall
<1> QED  BY <1>2, <1>3, <1>4

(* The whole step of a call on its execution. *)
LEMMA CallChangesExec ==
  ASSUME RunInv, NEW a \in Actors, NEW e \in Execs, calls[a].exec = e,
         NEW c \in Call, OnlyCall(a, c), c.exec = e, c.kind \in {calls[a].kind, None},
         RunTypeOK', OnlyExec(e), records'[e] # None, NEW mark2, mark2 = Mark(e)',
         ExecOK(records'[e], procs'[e], mark2),
         Evolves(records[e], procs[e], Mark(e), records'[e], procs'[e], mark2),
         calls[a].kind # "FRESH" =>
           Undisturbed(records[e], procs[e], Mark(e), records'[e], procs'[e], mark2),
         ShapeOK(c, a), CallOK(c, records'[e], procs'[e], mark2)
  PROVE  RunInv'
<1>1. calls'[a] = c /\ \A b \in Actors : b # a => calls'[b] = calls[b]
  BY DEF OnlyCall, RunInv, RunTypeOK
<1>2. records[e] # None
  BY RunAssumption DEF RunInv, OfCall
<1>3. ASSUME NEW b \in Actors, b # a PROVE (\A f \in Execs : OfExec(f)') /\ OfCall(b)'
  BY <1>1, <1>2, <1>3, ExecChanges DEF RunInv, Alone
<1>4. \A f \in Execs : OfExec(f)'
  <2>1. \A f \in Execs : f # e => records'[f] = records[f] /\ procs'[f] = procs[f] /\ Mark(f)' = Mark(f)
    BY DEF OnlyExec, Mark
  <2> QED  BY <2>1 DEF RunInv, OfExec
<1>5. OfCall(a)'
  BY <1>1 DEF OfCall
<1>6. \A b1, b2 \in Actors : Alone(b1, b2)'
  BY <1>1, RunAssumption DEF RunInv, Alone, Successes
<1> QED  BY <1>3, <1>4, <1>5, <1>6 DEF RunInv

(* A step that moves nothing but its call. *)
LEMMA CallMoves ==
  ASSUME RunInv, NEW a \in Actors, NEW c \in Call, OnlyCall(a, c),
         UNCHANGED <<records, procs, lost>>,
         c.kind = "FRESH" => calls[a].kind = "FRESH" /\ c.exec = calls[a].exec,
         ShapeOK(c, a),
         c.exec # None =>
           /\ records[c.exec] # None
           /\ CallOK(c, records[c.exec], procs[c.exec], Mark(c.exec))
  PROVE  RunInv'
<1>1. calls'[a] = c /\ \A b \in Actors : b # a => calls'[b] = calls[b]
  BY DEF OnlyCall, RunInv, RunTypeOK
<1>2. calls' \in [Actors -> Call]
  BY DEF OnlyCall, RunInv, RunTypeOK
<1>3. RunTypeOK'
  BY <1>2 DEF RunInv, RunTypeOK
<1>4. \A e \in Execs : OfExec(e)'
  BY DEF RunInv, OfExec, Mark
<1>5. \A b \in Actors : OfCall(b)'
  <2>1. \A e : Mark(e)' = Mark(e)
    BY DEF Mark
  <2> QED  BY <1>1, <2>1 DEF RunInv, OfCall
<1>6. \A b1, b2 \in Actors : Alone(b1, b2)'
  BY <1>1 DEF RunInv, Alone
<1> QED  BY <1>3, <1>4, <1>5, <1>6 DEF RunInv

(* A step of the supervisor, of a marker or of a promoter. *)
LEMMA WorldMoves ==
  ASSUME RunInv, NEW e \in Execs, records[e] # None, UNCHANGED calls,
         RunTypeOK', OnlyExec(e), records'[e] # None, NEW mark2, mark2 = Mark(e)',
         ExecOK(records'[e], procs'[e], mark2),
         Evolves(records[e], procs[e], Mark(e), records'[e], procs'[e], mark2),
         Undisturbed(records[e], procs[e], Mark(e), records'[e], procs'[e], mark2)
  PROVE  RunInv'
<1>1. ASSUME NEW b \in Actors PROVE OfCall(b)'
  BY ExecChanges
<1>2. \A f \in Execs : OfExec(f)'
  <2>1. \A f \in Execs : f # e => records'[f] = records[f] /\ procs'[f] = procs[f] /\ Mark(f)' = Mark(f)
    BY DEF OnlyExec, Mark
  <2> QED  BY <2>1 DEF RunInv, OfExec
<1>3. \A b1, b2 \in Actors : Alone(b1, b2)'
  BY DEF RunInv, Alone
<1> QED  BY <1>1, <1>2, <1>3 DEF RunInv

-------------------------------------------------------------------------------
(* Ends, and writes by version *)

Ended(e, outcome) == [Idle EXCEPT !.at = outcome, !.exec = e]

(* A call that has ended keeps its execution and its outcome. *)
LEMMA EndedIsCall ==
  ASSUME NEW e \in Execs \cup {None}, NEW o \in Outcomes
  PROVE  /\ Ended(e, o) \in Call
         /\ Ended(e, o).at = o /\ Ended(e, o).exec = e /\ Ended(e, o).kind = None
<1> PICK i : i = Idle
  OBVIOUS
<1>1. i \in Call /\ i.kind = None
  BY RunAssumption DEF Idle, Call
<1> HIDE DEF Idle
<1>2. Ended(e, o) = [i EXCEPT !.at = o, !.exec = e]
  BY DEF Ended
<1> QED  BY <1>1, <1>2 DEF Call

(* The end of a call relies on nothing, unless a result was reported. *)
LEMMA EndedOK ==
  ASSUME NEW a, NEW e \in Execs \cup {None}, NEW o \in Outcomes, NEW row, NEW p, NEW mark,
         o \in Reported => e # None /\ row.exit # None
  PROVE  ShapeOK(Ended(e, o), a) /\ CallOK(Ended(e, o), row, p, mark)
<1> PICK c : c = Ended(e, o)
  OBVIOUS
<1>1. c \in Call /\ c.at = o /\ c.exec = e /\ c.kind = None
  BY EndedIsCall
<1>2. o \notin Steps /\ o \notin Unbound
        /\ o \notin {"connect", "compare", "stillrunning", "marklost"}
  BY DEF Outcomes, Successes, Steps, Unbound
<1>3. ShapeOK(c, a)
  BY <1>1, <1>2 DEF ShapeOK
<1>4. CallOK(c, row, p, mark)
  BY <1>1, <1>2 DEF CallOK
<1> QED  BY <1>3, <1>4

(* A call ends, with nothing written and nothing reported. *)
LEMMA EndKept ==
  ASSUME RunInv, NEW a \in Actors, NEW o \in Outcomes \ Reported, End(a, o),
         UNCHANGED <<records, procs, lost>>
  PROVE  RunInv'
<1> PICK e : e = calls[a].exec
  OBVIOUS
<1>1. e \in Execs \cup {None} /\ (e # None => records[e] # None)
  BY DEF RunInv, RunTypeOK, Call, OfCall
<1> PICK c : c = Ended(e, o)
  OBVIOUS
<1>2. c \in Call /\ c.exec = e /\ c.kind = None
  BY <1>1, EndedIsCall
<1>3. ShapeOK(c, a) /\ CallOK(c, records[e], procs[e], Mark(e))
  BY <1>1, EndedOK
<1>4. OnlyCall(a, c)
  BY DEF OnlyCall, End, Exec, Ended
<1>5. c.kind # "FRESH"
  BY <1>2, RunAssumption DEF Successes
<1> QED  BY <1>1, <1>2, <1>3, <1>4, <1>5, CallMoves

(* What a successful compare and set stores. *)
LEMMA Updated ==
  ASSUME RunTypeOK, NEW e \in Execs, NEW v, NEW row \in ExecutionRecord, Update(e, v, row)
  PROVE  /\ records[e] # None /\ v = records[e].version
         /\ records' \in [Execs -> ExecutionRecord \cup {None}]
         /\ \A f \in Execs : f # e => records'[f] = records[f]
         /\ records'[e] \in ExecutionRecord /\ records'[e] # None
         /\ records'[e].version = records[e].version + 1
         /\ records'[e].state = row.state /\ records'[e].exit = row.exit
         /\ records'[e].pid = row.pid /\ records'[e].fp = row.fp
<1>1. records[e] \in ExecutionRecord /\ v = records[e].version /\ v < MaxVersion
  BY DEF Update, CanUpdate, RunTypeOK
<1>2. v \in Nat /\ v + 1 \in 1..MaxVersion
  BY <1>1, RunAssumption DEF ExecutionRecord
<1>3. [row EXCEPT !.version = v + 1] \in ExecutionRecord
  BY <1>2 DEF ExecutionRecord
<1>4. records' = [records EXCEPT ![e] = [row EXCEPT !.version = v + 1]]
  BY DEF Update
<1>5. records'[e] = [row EXCEPT !.version = v + 1]
  BY <1>4 DEF RunTypeOK
<1>6. [row EXCEPT !.version = v + 1].version = v + 1
      /\ [row EXCEPT !.version = v + 1].state = row.state
      /\ [row EXCEPT !.version = v + 1].exit = row.exit
      /\ [row EXCEPT !.version = v + 1].pid = row.pid
      /\ [row EXCEPT !.version = v + 1].fp = row.fp
  BY DEF ExecutionRecord
<1>7. records' \in [Execs -> ExecutionRecord \cup {None}]
      /\ \A f \in Execs : f # e => records'[f] = records[f]
  BY <1>3, <1>4 DEF RunTypeOK
<1>8. records[e] # None /\ records'[e] # None
  BY <1>1, <1>3, <1>5, RunAssumption
<1> QED  BY <1>1, <1>3, <1>5, <1>6, <1>7, <1>8

(* A call writes a row with the version it knows. *)
LEMMA WriteKept ==
  ASSUME RunInv, NEW a \in Actors, NEW e \in Execs, calls[a].exec = e,
         NEW v, NEW row \in ExecutionRecord, Update(e, v, row),
         NEW c \in Call, OnlyCall(a, c), c.exec = e, c.kind \in {calls[a].kind, None},
         UNCHANGED <<procs, lost>>,
         RecordOK(row, procs[e], Mark(e)),
         records[e].exit # None => row.exit # None,
         \/ calls[a].kind = "FRESH"
         \/ procs[e].sup = "none" /\ records[e].state = "STARTING" => row.state = "STARTING",
         ShapeOK(c, a), CallOK(c, records'[e], procs[e], Mark(e))
  PROVE  RunInv'
<1>1. RunTypeOK
  BY DEF RunInv
<1>2. /\ records[e] # None
      /\ records' \in [Execs -> ExecutionRecord \cup {None}]
      /\ \A f \in Execs : f # e => records'[f] = records[f]
      /\ records'[e] # None
      /\ records'[e].version = records[e].version + 1
      /\ records'[e].state = row.state /\ records'[e].exit = row.exit
      /\ records'[e].pid = row.pid
  BY <1>1, Updated
<1>3. RunTypeOK'
  BY <1>1, <1>2 DEF RunTypeOK, OnlyCall
<1>4. OnlyExec(e) /\ Mark(e)' = Mark(e)
  BY <1>2 DEF OnlyExec, Mark
<1>5. ProcessOK(procs[e])
  BY DEF RunInv, OfExec, ExecOK
<1>6. RecordOK(records'[e], procs[e], Mark(e))
  BY <1>2 DEF RecordOK
<1>7. ExecOK(records'[e], procs[e], Mark(e))
  BY <1>2, <1>5, <1>6 DEF ExecOK
<1>8. Evolves(records[e], procs[e], Mark(e), records'[e], procs[e], Mark(e))
  BY <1>2 DEF Evolves
<1>9. calls[a].kind # "FRESH" =>
        Undisturbed(records[e], procs[e], Mark(e), records'[e], procs[e], Mark(e))
  BY <1>2 DEF Undisturbed
<1>10. procs'[e] = procs[e]
  OBVIOUS
<1> QED  BY <1>3, <1>2, <1>4, <1>7, <1>8, <1>9, <1>10, CallChangesExec

-------------------------------------------------------------------------------
(* The steps before an execution is known *)

(* The types of a call and of the execution it is about. *)
LEMMA Typed ==
  ASSUME RunInv, NEW a \in Actors
  PROVE  /\ calls[a] \in Call /\ ShapeOK(calls[a], a)
         /\ calls[a].exec \in Execs \cup {None}
         /\ calls[a].exec # None =>
              /\ calls[a].exec \in Execs
              /\ records[calls[a].exec] \in ExecutionRecord /\ records[calls[a].exec] # None
              /\ procs[calls[a].exec] \in Process
              /\ CallOK(calls[a], records[calls[a].exec], procs[calls[a].exec], Mark(calls[a].exec))
              /\ ProcessOK(procs[calls[a].exec])
              /\ RecordOK(records[calls[a].exec], procs[calls[a].exec], Mark(calls[a].exec))
<1>1. calls[a] \in Call /\ OfCall(a)
  BY DEF RunInv, RunTypeOK
<1>2. calls[a].exec \in Execs \cup {None}
  BY <1>1 DEF Call
<1>3. ASSUME calls[a].exec # None
      PROVE  /\ records[calls[a].exec] \in ExecutionRecord
             /\ procs[calls[a].exec] \in Process /\ OfExec(calls[a].exec)
  BY <1>1, <1>2, <1>3 DEF RunInv, RunTypeOK, OfCall
<1> QED  BY <1>1, <1>2, <1>3 DEF OfCall, OfExec, ExecOK

(* run_with_outcome begins with nothing but the request. *)
LEMMA BeginRunKept ==
  ASSUME RunInv, NEW r \in Runners, BeginRun(r)
  PROVE  RunInv'
<1>1. PICK fp \in Fingerprints : OnlyCall(r, [Idle EXCEPT !.at = "assess", !.fp = fp])
  BY DEF BeginRun, OnlyCall
<1> PICK i : i = Idle
  OBVIOUS
<1>2. i \in Call /\ i.exec = None /\ i.kind = None /\ i.ver = 0
  BY RunAssumption DEF Idle, Call
<1> PICK c : c = [i EXCEPT !.at = "assess", !.fp = fp]
  OBVIOUS
<1>3. c \in Call /\ c.at = "assess" /\ c.exec = None /\ c.kind = None /\ c.ver = 0
  BY <1>2 DEF Call, Steps
<1>4. c.kind # "FRESH"
  BY <1>3, RunAssumption DEF Successes
<1>5. ShapeOK(c, r)
  BY <1>3 DEF ShapeOK, Steps, Unbound, Reported, Successes
<1>6. r \in Actors /\ OnlyCall(r, c) /\ UNCHANGED <<records, procs, lost>>
  BY <1>1 DEF Actors, BeginRun, storeVars
<1> QED  BY <1>3, <1>4, <1>5, <1>6, CallMoves

(* An assessment attaches to, reuses or is blocked by a record there is.    *)
LEMMA AssessKept ==
  ASSUME RunInv, NEW r \in Runners, Assess(r)
  PROVE  RunInv'
<1> PICK c0 : c0 = calls[r]
  OBVIOUS
<1>1. r \in Actors /\ UNCHANGED <<records, procs, lost>> /\ c0.at = "assess"
  BY DEF Actors, Assess, storeVars
<1>2. c0 \in Call /\ ShapeOK(c0, r) /\ c0.exec = None /\ c0.ver = 0 /\ c0.fp \in Fingerprints
  BY <1>1, Typed DEF ShapeOK, Unbound
<1>3. CASE Goto(r, "fresh")
  <2> PICK c : c = [c0 EXCEPT !.at = "fresh"]
    OBVIOUS
  <2>1. c \in Call /\ c.at = "fresh" /\ c.exec = None /\ c.kind = c0.kind /\ c.ver = 0 /\ c.fp = c0.fp
    BY <1>2 DEF Call, Steps
  <2>2. OnlyCall(r, c)
    BY <1>3 DEF Goto, OnlyCall
  <2>3. ShapeOK(c, r)
    BY <1>2, <2>1 DEF ShapeOK, Steps, Unbound, Reported, Successes
  <2> QED  BY <1>1, <1>2, <2>1, <2>2, <2>3, CallMoves
<1>4. CASE End(r, "BLOCKED")
  BY <1>1, <1>4, EndKept DEF Outcomes, Reported, Successes
<1>5. ASSUME NEW e \in Execs, records[e] # None, NEW k \in {"ATTACH_RUNNING", "REUSE_COMPLETED"},
             OnlyCall(r, [c0 EXCEPT !.at = "check", !.exec = e, !.kind = k])
      PROVE  RunInv'
  <2> PICK c : c = [c0 EXCEPT !.at = "check", !.exec = e, !.kind = k]
    OBVIOUS
  <2>0. k \in Successes /\ "check" \in Steps
    BY DEF Successes, Steps
  <2>1. c \in Call /\ c.at = "check" /\ c.exec = e /\ c.kind = k /\ c.ver = 0
    BY <1>2, <2>0 DEF Call
  <2>2. ShapeOK(c, r)
    BY <2>1, RunAssumption DEF ShapeOK, Steps, Unbound, Reported, Successes
  <2>3. records[e].version \in Nat
    BY <1>5, RunAssumption DEF RunInv, RunTypeOK, ExecutionRecord
  <2>4. k # None
    BY RunAssumption DEF Successes
  <2>5. CallOK(c, records[e], procs[e], Mark(e))
    BY <2>1, <2>3, <2>4 DEF CallOK, LaunchOK, CollectOK, ObserveOK, Launching, Collecting, Reported,
       Successes
  <2> QED  BY <1>1, <1>5, <2>1, <2>2, <2>5, CallMoves
<1>6. \/ Goto(r, "fresh")
      \/ End(r, "BLOCKED")
      \/ \E e \in Execs : records[e] # None /\
           \E k \in {"ATTACH_RUNNING", "REUSE_COMPLETED"} :
              OnlyCall(r, [c0 EXCEPT !.at = "check", !.exec = e, !.kind = k])
  <2>1. CASE Equivalent(r) = {}
    BY <2>1 DEF Assess
  <2>2. CASE Equivalent(r) # {}
    <3> DEFINE Attach(e, k) ==
          calls' = [calls EXCEPT ![r].at = "check", ![r].exec = e, ![r].kind = k]
    <3>1. PICK e \in Equivalent(r) :
            \/ Attach(e, "ATTACH_RUNNING") \/ Attach(e, "REUSE_COMPLETED") \/ End(r, "BLOCKED")
      BY <2>2 DEF Assess
    <3>2. e \in Execs /\ records[e] # None
      BY DEF Equivalent, FindByFingerprint
    <3>3. ASSUME NEW k, Attach(e, k)
          PROVE  OnlyCall(r, [c0 EXCEPT !.at = "check", !.exec = e, !.kind = k])
      BY <3>3 DEF OnlyCall
    <3> HIDE DEF Attach
    <3> QED  BY <3>1, <3>2, <3>3
  <2> QED  BY <2>1, <2>2
<1> QED  BY <1>3, <1>4, <1>5, <1>6

(* The guards of a fresh launch. *)
LEMMA FreshKept ==
  ASSUME RunInv, NEW r \in Runners, Fresh(r)
  PROVE  RunInv'
<1> PICK c0 : c0 = calls[r]
  OBVIOUS
<1>1. r \in Actors /\ UNCHANGED <<records, procs, lost>> /\ c0.at = "fresh"
  BY DEF Actors, Fresh, storeVars
<1>2. c0 \in Call /\ ShapeOK(c0, r) /\ c0.exec = None /\ c0.ver = 0 /\ c0.fp \in Fingerprints
  BY <1>1, Typed DEF ShapeOK, Unbound
<1>3. CASE Goto(r, "create")
  <2> PICK c : c = [c0 EXCEPT !.at = "create"]
    OBVIOUS
  <2>1. c \in Call /\ c.at = "create" /\ c.exec = None /\ c.kind = c0.kind /\ c.ver = 0 /\ c.fp = c0.fp
    BY <1>2 DEF Call, Steps
  <2>2. OnlyCall(r, c)
    BY <1>3 DEF Goto, OnlyCall
  <2>3. ShapeOK(c, r)
    BY <1>2, <2>1 DEF ShapeOK, Steps, Unbound, Reported, Successes
  <2> QED  BY <1>1, <1>2, <2>1, <2>2, <2>3, CallMoves
<1>4. CASE End(r, "FAILED")
  BY <1>1, <1>4, EndKept DEF Outcomes, Reported, Successes
<1> QED  BY <1>3, <1>4 DEF Fresh

(* A new record belongs to no other call. *)
LEMMA CreateRecordKept ==
  ASSUME RunInv, NEW r \in Runners, CreateRecord(r)
  PROVE  RunInv'
<1> PICK c0 : c0 = calls[r]
  OBVIOUS
<1>1. PICK e \in Execs :
        /\ Create(e, NewRecord(c0.fp))
        /\ calls' = [calls EXCEPT ![r].at = "starting", ![r].exec = e,
                                  ![r].kind = "FRESH", ![r].ver = 1]
  BY DEF CreateRecord
<1>2. r \in Actors /\ UNCHANGED <<procs, lost>> /\ c0.at = "create"
  BY DEF Actors, CreateRecord
<1>3. c0 \in Call /\ ShapeOK(c0, r)
  BY <1>2, Typed
<1>4. c0.fp \in Fingerprints /\ c0.exec = None
  BY <1>2, <1>3 DEF ShapeOK, Unbound
<1> PICK row : row = NewRecord(c0.fp)
  OBVIOUS
<1>5. row \in ExecutionRecord /\ row.state = "QUEUED" /\ row.exit = None /\ row.pid = None /\ row.version = 1
  BY <1>4, RunAssumption DEF NewRecord, ExecutionRecord, TransportState, ExecutionProcessState
<1> PICK c : c = [c0 EXCEPT !.at = "starting", !.exec = e, !.kind = "FRESH", !.ver = 1]
  OBVIOUS
<1>6. c \in Call /\ c.at = "starting" /\ c.exec = e /\ c.kind = "FRESH" /\ c.ver = 1
  <2>1. "starting" \in Steps /\ "FRESH" \in Successes /\ 1 \in 0..MaxVersion
    BY RunAssumption DEF Steps, Successes
  <2> QED  BY <1>3, <2>1 DEF Call
<1>7. OnlyCall(r, c)
  BY <1>1 DEF OnlyCall
<1>8. records[e] = None /\ records' = [records EXCEPT ![e] = row]
  BY <1>1 DEF Create
<1>9. procs[e] \in Process /\ ProcessOK(procs[e]) /\ procs[e].sup = "none" /\ Mark(e) # "lost"
  BY <1>8 DEF RunInv, RunTypeOK, OfExec, ExecOK
<1>10. /\ records'[e] = row /\ \A f \in Execs : f # e => records'[f] = records[f]
       /\ calls'[r] = c /\ \A b \in Actors : b # r => calls'[b] = calls[b]
  BY <1>2, <1>7, <1>8 DEF RunInv, RunTypeOK, OnlyCall
<1>11. RunTypeOK'
  BY <1>2, <1>5, <1>6, <1>7, <1>8 DEF RunInv, RunTypeOK, OnlyCall
<1>12. \A f \in Execs : Mark(f)' = Mark(f)
  BY <1>2 DEF Mark
<1>13. RecordOK(row, procs[e], Mark(e))
  BY <1>5, <1>9 DEF RecordOK
<1>14. \A f \in Execs : OfExec(f)'
  BY <1>2, <1>5, <1>9, <1>10, <1>12, <1>13, RunAssumption DEF RunInv, OfExec, ExecOK
<1>15. \A b \in Actors : calls[b].exec \in Execs \cup {None} /\ calls[b].exec # e
  BY <1>8, RunAssumption DEF RunInv, RunTypeOK, Call, OfCall
<1>16. \A b \in Actors : b # r => OfCall(b)'
  BY <1>2, <1>10, <1>12, <1>15 DEF RunInv, OfCall
<1>17. ShapeOK(c, r)
  BY <1>2, <1>6, RunAssumption DEF ShapeOK, Steps, Unbound, Reported, Successes
<1>18. CallOK(c, row, procs[e], Mark(e))
  BY <1>5, <1>6, <1>9 DEF CallOK, LaunchOK, CollectOK, ObserveOK, Collecting, Reported, Successes, Pinned
<1>19. OfCall(r)'
  BY <1>2, <1>5, <1>6, <1>10, <1>12, <1>17, <1>18, RunAssumption DEF OfCall
<1>20. \A b1, b2 \in Actors : Alone(b1, b2)'
  <2> SUFFICES ASSUME NEW b1 \in Actors, NEW b2 \in Actors PROVE Alone(b1, b2)'
    OBVIOUS
  <2>1. Alone(b1, b2)
    BY DEF RunInv
  <2>2. b1 # r /\ b2 # r => calls'[b1] = calls[b1] /\ calls'[b2] = calls[b2]
    BY <1>10
  <2>3. b1 # r => calls'[b1].exec # e
    BY <1>10, <1>15
  <2>4. b2 # r => calls'[b2].exec # e
    BY <1>10, <1>15
  <2>5. calls'[r].exec = e
    BY <1>6, <1>10
  <2>6. CASE b1 # r /\ b2 # r
    BY <2>1, <2>2, <2>6 DEF Alone
  <2>7. CASE b1 = r
    BY <2>4, <2>5, <2>7 DEF Alone
  <2>8. CASE b2 = r
    BY <2>3, <2>5, <2>8 DEF Alone
  <2> QED  BY <2>6, <2>7, <2>8
<1> QED  BY <1>11, <1>14, <1>16, <1>19, <1>20 DEF RunInv

(* A write by version: a conflict ends the call, or the next step is taken. *)
LEMMA WriteSplit ==
  ASSUME RunInv, NEW a \in Actors, NEW e \in Execs, calls[a].exec = e,
         NEW row \in ExecutionRecord, NEW step \in Steps, NEW failure,
         Write(a, row, step, failure)
  PROVE  \/ End(a, failure) /\ UNCHANGED records
         \/ \E c \in Call :
              /\ OnlyCall(a, c) /\ Update(e, calls[a].ver, row)
              /\ calls[a].ver = records[e].version
              /\ c.at = step /\ c.ver = records[e].version + 1 /\ c.exec = e
              /\ c.kind = calls[a].kind /\ c.state = calls[a].state
<1> PICK c0 : c0 = calls[a]
  OBVIOUS
<1>1. c0 \in Call
  BY Typed
<1>2. CASE records[e].version # c0.ver
  BY <1>2 DEF Write, Exec
<1>3. CASE records[e].version = c0.ver
  <2>1. Update(e, c0.ver, row) /\ calls' = [calls EXCEPT ![a].at = step, ![a].ver = @ + 1]
    BY <1>3 DEF Write, Exec
  <2>2. c0.ver < MaxVersion
    BY <2>1 DEF Update, CanUpdate
  <2> PICK c : c = [c0 EXCEPT !.at = step, !.ver = @ + 1]
    OBVIOUS
  <2>3. c0.ver + 1 \in 0..MaxVersion
    BY <1>1, <2>2, RunAssumption DEF Call
  <2>4. c \in Call /\ c.at = step /\ c.ver = c0.ver + 1 /\ c.exec = c0.exec
        /\ c.kind = c0.kind /\ c.state = c0.state
    BY <1>1, <2>3 DEF Call
  <2>5. OnlyCall(a, c)
    BY <2>1 DEF OnlyCall
  <2> QED  BY <1>3, <2>1, <2>4, <2>5
<1> QED  BY <1>2, <1>3

(* A last write: a conflict ends the call, or the call ends with its outcome. *)
LEMMA WriteAndEndSplit ==
  ASSUME RunInv, NEW a \in Actors, NEW e \in Execs, calls[a].exec = e,
         NEW row \in ExecutionRecord, NEW outcome, NEW failure,
         WriteAndEnd(a, row, outcome, failure)
  PROVE  \/ End(a, failure) /\ UNCHANGED records
         \/ /\ OnlyCall(a, Ended(e, outcome)) /\ Update(e, calls[a].ver, row)
            /\ calls[a].ver = records[e].version
  BY DEF WriteAndEnd, Exec, End, OnlyCall, Ended

(* The launch intent is written over a record nobody has touched. *)
LEMMA SetStartingKept ==
  ASSUME RunInv, NEW r \in Runners, SetStarting(r)
  PROVE  RunInv'
<1> PICK e : e = calls[r].exec
  OBVIOUS
<1> PICK row0 : row0 = records[e]
  OBVIOUS
<1>1. r \in Actors /\ UNCHANGED <<procs, lost>> /\ calls[r].at = "starting"
  BY DEF Actors, SetStarting
<1>2. e # None
  BY <1>1, Typed DEF ShapeOK, Steps, Unbound
<1>3. /\ e \in Execs /\ row0 \in ExecutionRecord /\ ShapeOK(calls[r], r)
      /\ CallOK(calls[r], row0, procs[e], Mark(e)) /\ RecordOK(row0, procs[e], Mark(e))
  BY <1>1, <1>2, Typed
<1>4. /\ calls[r].kind = "FRESH" /\ procs[e].sup = "none"
      /\ calls[r].ver = row0.version => row0.exit = None /\ Mark(e) # "lost"
  BY <1>1, <1>3 DEF CallOK, LaunchOK, Steps, Launching
<1> PICK row : row = [row0 EXCEPT !.state = "STARTING"]
  OBVIOUS
<1>5. row \in ExecutionRecord /\ row.state = "STARTING" /\ row.exit = row0.exit /\ row.pid = row0.pid
  BY <1>3 DEF ExecutionRecord, ExecutionProcessState
<1>6. Write(r, row, "start", "RAISED")
  BY DEF SetStarting, Exec
<1>7. CASE End(r, "RAISED") /\ UNCHANGED records
  BY <1>1, <1>7, EndKept DEF Outcomes, Reported, Successes
<1>8. CASE ~(End(r, "RAISED") /\ UNCHANGED records)
  <2>1. PICK c \in Call :
          /\ OnlyCall(r, c) /\ Update(e, calls[r].ver, row) /\ calls[r].ver = row0.version
          /\ c.at = "start" /\ c.ver = row0.version + 1 /\ c.exec = e /\ c.kind = "FRESH"
    BY <1>1, <1>3, <1>4, <1>5, <1>6, <1>8, WriteSplit DEF Steps
  <2>2. records'[e].version = row0.version + 1 /\ records'[e].exit = None
        /\ records'[e].state = "STARTING"
    BY <1>3, <1>4, <1>5, <2>1, Updated DEF RunInv
  <2>3. RecordOK(row, procs[e], Mark(e))
    BY <1>3, <1>4, <1>5, <2>1 DEF RecordOK
  <2>4. ShapeOK(c, r)
    BY <1>2, <1>3, <1>4, <2>1, RunAssumption DEF ShapeOK, Steps, Unbound, Reported, Successes
  <2>5. row0.version \in Nat
    BY <1>3 DEF ExecutionRecord
  <2>6. CallOK(c, records'[e], procs[e], Mark(e))
    BY <1>4, <2>1, <2>2, <2>5 DEF CallOK, LaunchOK, CollectOK, ObserveOK, Collecting,
       Reported, Successes, Pinned
  <2> QED  BY <1>1, <1>3, <1>4, <1>5, <2>1, <2>3, <2>4, <2>6, WriteKept
<1> QED  BY <1>7, <1>8

-------------------------------------------------------------------------------
(* The steps of launch after the record *)

(* What the invariant says of a call that has an execution. *)
LEMMA Bound ==
  ASSUME RunInv, NEW a \in Actors, NEW e, e = calls[a].exec, calls[a].at \in Steps \ Unbound
  PROVE  /\ e \in Execs /\ calls[a] \in Call /\ ShapeOK(calls[a], a)
         /\ records[e] \in ExecutionRecord /\ records[e] # None /\ procs[e] \in Process
         /\ records[e].version \in Nat /\ calls[a].ver \in Nat
         /\ calls[a].ver <= records[e].version
         /\ LaunchOK(calls[a], records[e], procs[e], Mark(e))
         /\ CollectOK(calls[a], records[e], procs[e])
         /\ ObserveOK(calls[a], records[e], procs[e])
         /\ ProcessOK(procs[e]) /\ RecordOK(records[e], procs[e], Mark(e))
<1>1. calls[a].exec # None
  BY Typed DEF ShapeOK
<1>2. /\ e \in Execs /\ calls[a] \in Call /\ ShapeOK(calls[a], a)
      /\ records[e] \in ExecutionRecord /\ records[e] # None /\ procs[e] \in Process
      /\ CallOK(calls[a], records[e], procs[e], Mark(e))
      /\ ProcessOK(procs[e]) /\ RecordOK(records[e], procs[e], Mark(e))
  BY <1>1, Typed
<1>3. records[e].version \in Nat /\ calls[a].ver \in Nat
  BY <1>2, RunAssumption DEF ExecutionRecord, Call
<1> QED  BY <1>2, <1>3 DEF CallOK

(* A call goes on to another step with what it knows. *)
LEMMA GotoKept ==
  ASSUME RunInv, NEW a \in Actors, NEW e, e = calls[a].exec, calls[a].at \in Steps \ Unbound,
         NEW c \in Call, OnlyCall(a, c), c.at \in Steps \ Unbound,
         c.exec = e, c.kind = calls[a].kind, c.ver \in {calls[a].ver, records[e].version},
         c.at \in {"connect", "compare", "stillrunning", "marklost"} => a \notin Runners,
         UNCHANGED <<records, procs, lost>>,
         LaunchOK(c, records[e], procs[e], Mark(e)), CollectOK(c, records[e], procs[e]),
         ObserveOK(c, records[e], procs[e])
  PROVE  RunInv'
<1>1. /\ e \in Execs /\ records[e] # None /\ ShapeOK(calls[a], a)
      /\ records[e].version \in Nat /\ calls[a].ver \in Nat /\ calls[a].ver <= records[e].version
  BY Bound
<1>2. c.at \notin Reported
  BY DEF Steps, Reported, Successes
<1>3. CallOK(c, records[e], procs[e], Mark(e))
  BY <1>1, <1>2 DEF CallOK
<1>4. e # None
  BY <1>1, RunAssumption
<1>5. ShapeOK(c, a)
  BY <1>1, <1>2, <1>4 DEF ShapeOK
<1> QED  BY <1>1, <1>3, <1>4, <1>5, CallMoves

(* A call that takes the given step knows what it knew. *)
LEMMA GotoIs ==
  ASSUME RunInv, NEW a \in Actors, NEW s \in Steps, Goto(a, s)
  PROVE  \E c \in Call :
           /\ OnlyCall(a, c)
           /\ c.at = s /\ c.exec = calls[a].exec /\ c.kind = calls[a].kind /\ c.ver = calls[a].ver
           /\ c.state = calls[a].state /\ c.seen = calls[a].seen
<1> PICK c0 : c0 = calls[a]
  OBVIOUS
<1> PICK c : c = [c0 EXCEPT !.at = s]
  OBVIOUS
<1>1. c0 \in Call
  BY Typed
<1>2. /\ c \in Call /\ c.at = s /\ c.exec = c0.exec /\ c.kind = c0.kind /\ c.ver = c0.ver
      /\ c.state = c0.state /\ c.seen = c0.seen
  BY <1>1 DEF Call
<1>3. OnlyCall(a, c)
  BY DEF OnlyCall, Goto
<1> QED  BY <1>2, <1>3

(* A call changes the process of its execution, and not the record. *)
LEMMA ProcKept ==
  ASSUME RunInv, NEW a \in Actors, NEW e \in Execs, calls[a].exec = e, records[e] # None,
         NEW p \in Process, procs' = [procs EXCEPT ![e] = p], UNCHANGED <<records, lost>>,
         NEW c \in Call, OnlyCall(a, c), c.exec = e, c.kind = "FRESH", calls[a].kind = "FRESH",
         ProcessOK(p), RecordOK(records[e], p, Mark(e)),
         Evolves(records[e], procs[e], Mark(e), records[e], p, Mark(e)),
         ShapeOK(c, a), CallOK(c, records[e], p, Mark(e))
  PROVE  RunInv'
<1>1. procs'[e] = p /\ procs' \in [Execs -> Process] /\ OnlyExec(e)
  BY DEF RunInv, RunTypeOK, OnlyExec
<1>2. RunTypeOK'
  BY <1>1 DEF RunInv, RunTypeOK, OnlyCall
<1>3. Mark(e)' = Mark(e) /\ records'[e] # None
  BY DEF Mark
<1>4. ExecOK(records'[e], procs'[e], Mark(e))
  BY <1>1 DEF ExecOK
<1>5. Evolves(records[e], procs[e], Mark(e), records'[e], procs'[e], Mark(e))
  BY <1>1
<1>6. CallOK(c, records'[e], procs'[e], Mark(e))
  BY <1>1
<1> QED  BY <1>1, <1>2, <1>3, <1>4, <1>5, <1>6, CallChangesExec

(* A supervisor is started under a record that says STARTING, by its creator. *)
LEMMA StartKept ==
  ASSUME RunInv, NEW r \in Runners, Start(r)
  PROVE  RunInv'
<1> PICK e : e = calls[r].exec
  OBVIOUS
<1>1. r \in Actors /\ UNCHANGED <<records, lost>> /\ calls[r].at = "start"
  BY DEF Actors, Start, storeVars
<1>2. calls[r].at \in Steps \ Unbound
  BY <1>1 DEF Steps, Unbound
<1>3. /\ e \in Execs /\ calls[r] \in Call /\ ShapeOK(calls[r], r)
      /\ records[e] \in ExecutionRecord /\ records[e] # None /\ procs[e] \in Process
      /\ records[e].version \in Nat /\ calls[r].ver \in Nat /\ calls[r].ver <= records[e].version
      /\ LaunchOK(calls[r], records[e], procs[e], Mark(e))
      /\ ProcessOK(procs[e]) /\ RecordOK(records[e], procs[e], Mark(e))
  BY <1>1, <1>2, Bound
<1>4. /\ calls[r].kind = "FRESH" /\ procs[e].sup = "none" /\ records[e].state = "STARTING"
      /\ Mark(e) # "lost"
      /\ calls[r].ver = records[e].version => records[e].exit = None
  BY <1>1, <1>3 DEF LaunchOK, Launching
<1>5. "FRESH" # None
  BY RunAssumption DEF Successes
<1>6. CASE Goto(r, "recover") /\ UNCHANGED procs
  <2>1. PICK c \in Call :
          /\ OnlyCall(r, c)
          /\ c.at = "recover" /\ c.exec = e /\ c.kind = "FRESH" /\ c.ver = calls[r].ver
    BY <1>1, <1>4, <1>6, GotoIs DEF Steps
  <2>3. LaunchOK(c, records[e], procs[e], Mark(e)) /\ CollectOK(c, records[e], procs[e])
        /\ ObserveOK(c, records[e], procs[e])
    BY <1>5, <2>1 DEF LaunchOK, CollectOK, ObserveOK, Launching, Collecting
  <2> QED  BY <1>1, <1>2, <1>4, <1>6, <2>1, <2>3, GotoKept DEF Steps, Unbound
<1>7. CASE Goto(r, "pidfile") /\ procs' = [procs EXCEPT ![e].sup = "alive"]
  <2>1. PICK c \in Call :
          /\ OnlyCall(r, c)
          /\ c.at = "pidfile" /\ c.exec = e /\ c.kind = "FRESH" /\ c.ver = calls[r].ver
    BY <1>1, <1>4, <1>7, GotoIs DEF Steps
  <2> PICK p : p = [procs[e] EXCEPT !.sup = "alive"]
    OBVIOUS
  <2>3. p \in Process /\ p.sup = "alive" /\ p.pidfile = procs[e].pidfile
        /\ p.child = procs[e].child /\ p.result = procs[e].result
    BY <1>3 DEF Process
  <2>4. procs' = [procs EXCEPT ![e] = p]
    BY <1>7
  <2>5. ProcessOK(p) /\ RecordOK(records[e], p, Mark(e))
    BY <1>3, <1>4, <2>3 DEF ProcessOK, RecordOK
  <2>6. Evolves(records[e], procs[e], Mark(e), records[e], p, Mark(e))
    BY <1>4, <2>3 DEF Evolves
  <2>7. ShapeOK(c, r)
    BY <1>3, <1>5, <2>1, RunAssumption DEF ShapeOK, Steps, Unbound, Reported, Successes
  <2>8. CallOK(c, records[e], p, Mark(e))
    BY <1>3, <1>4, <1>5, <2>1, <2>3 DEF CallOK, LaunchOK, CollectOK, ObserveOK, Collecting, Reported,
       Successes, Launching
  <2> QED  BY <1>1, <1>3, <1>4, <2>1, <2>3, <2>4, <2>5, <2>6, <2>7, <2>8, ProcKept
<1> QED  BY <1>6, <1>7 DEF Start, Exec

(* The pid file is written, or the process just started is given up. *)
LEMMA WritePidFileKept ==
  ASSUME RunInv, NEW r \in Runners, WritePidFile(r)
  PROVE  RunInv'
<1> PICK e : e = calls[r].exec
  OBVIOUS
<1>1. r \in Actors /\ UNCHANGED <<records, lost>> /\ calls[r].at = "pidfile"
  BY DEF Actors, WritePidFile, storeVars
<1>2. calls[r].at \in Steps \ Unbound
  BY <1>1 DEF Steps, Unbound
<1>3. /\ e \in Execs /\ calls[r] \in Call /\ ShapeOK(calls[r], r)
      /\ records[e] \in ExecutionRecord /\ records[e] # None /\ procs[e] \in Process
      /\ records[e].version \in Nat /\ calls[r].ver \in Nat /\ calls[r].ver <= records[e].version
      /\ LaunchOK(calls[r], records[e], procs[e], Mark(e))
      /\ ProcessOK(procs[e]) /\ RecordOK(records[e], procs[e], Mark(e))
  BY <1>1, <1>2, Bound
<1>4. /\ calls[r].kind = "FRESH" /\ procs[e].sup # "none"
      /\ calls[r].ver = records[e].version => records[e].exit = None
  BY <1>1, <1>3 DEF LaunchOK, Launching
<1>5. "FRESH" # None
  BY RunAssumption DEF Successes
<1>6. ASSUME NEW s \in {"childpid", "recover"}, Goto(r, s), NEW p \in Process,
             procs' = [procs EXCEPT ![e] = p],
             p.child = procs[e].child, p.result = procs[e].result,
             p.sup = procs[e].sup \/ p.sup = "dead", procs[e].pidfile => p.pidfile,
             s = "childpid" => p.pidfile
      PROVE  RunInv'
  <2>1. PICK c \in Call :
          /\ OnlyCall(r, c)
          /\ c.at = s /\ c.exec = e /\ c.kind = "FRESH" /\ c.ver = calls[r].ver
    BY <1>1, <1>4, <1>6, GotoIs DEF Steps
  <2>2. ProcessOK(p) /\ RecordOK(records[e], p, Mark(e))
    BY <1>3, <1>4, <1>6 DEF ProcessOK, RecordOK
  <2>3. Evolves(records[e], procs[e], Mark(e), records[e], p, Mark(e))
    BY <1>4, <1>6 DEF Evolves
  <2>4. ShapeOK(c, r)
    BY <1>3, <1>5, <1>6, <2>1, RunAssumption DEF ShapeOK, Steps, Unbound, Reported, Successes
  <2>5. CallOK(c, records[e], p, Mark(e))
    BY <1>3, <1>4, <1>5, <1>6, <2>1 DEF CallOK, LaunchOK, CollectOK, ObserveOK, Collecting, Reported,
       Successes, Launching
  <2> QED  BY <1>1, <1>3, <1>4, <1>6, <2>1, <2>2, <2>3, <2>4, <2>5, ProcKept
<1>7. CASE Goto(r, "childpid") /\ procs' = [procs EXCEPT ![e].pidfile = TRUE]
  <2> PICK p : p = [procs[e] EXCEPT !.pidfile = TRUE]
    OBVIOUS
  <2>1. p \in Process /\ p.sup = procs[e].sup /\ p.pidfile
        /\ p.child = procs[e].child /\ p.result = procs[e].result
    BY <1>3 DEF Process
  <2>2. procs' = [procs EXCEPT ![e] = p]
    BY <1>7
  <2> QED  BY <1>6, <1>7, <2>1, <2>2
<1>8. CASE Goto(r, "recover") /\ procs' = [procs EXCEPT ![e].sup = "dead"]
  <2> PICK p : p = [procs[e] EXCEPT !.sup = "dead"]
    OBVIOUS
  <2>1. p \in Process /\ p.sup = "dead" /\ p.pidfile = procs[e].pidfile
        /\ p.child = procs[e].child /\ p.result = procs[e].result
    BY <1>3 DEF Process
  <2>2. procs' = [procs EXCEPT ![e] = p]
    BY <1>8
  <2> QED  BY <1>6, <1>8, <2>1, <2>2
<1>9. CASE Goto(r, "recover") /\ UNCHANGED procs
  <2>1. procs' = [procs EXCEPT ![e] = procs[e]]
    BY <1>3, <1>9 DEF RunInv, RunTypeOK
  <2> QED  BY <1>3, <1>6, <1>9, <2>1
<1> QED  BY <1>7, <1>8, <1>9 DEF WritePidFile, Exec

(* The child's pid is there, is not there yet, or cannot be read. *)
LEMMA ReadChildPidKept ==
  ASSUME RunInv, NEW r \in Runners, ReadChildPid(r)
  PROVE  RunInv'
<1> PICK e : e = calls[r].exec
  OBVIOUS
<1>1. r \in Actors /\ UNCHANGED <<records, procs, lost>> /\ calls[r].at = "childpid"
  BY DEF Actors, ReadChildPid, storeVars
<1>2. calls[r].at \in Steps \ Unbound
  BY <1>1 DEF Steps, Unbound
<1>3. LaunchOK(calls[r], records[e], procs[e], Mark(e))
  BY <1>1, <1>2, Bound
<1>4. /\ calls[r].kind = "FRESH" /\ procs[e].pidfile
      /\ calls[r].ver = records[e].version => records[e].exit = None
  BY <1>1, <1>3 DEF LaunchOK, Launching
<1>5. "FRESH" # None
  BY RunAssumption DEF Successes
<1>6. ASSUME NEW s \in {"setpid", "check", "recover"}, Goto(r, s) PROVE RunInv'
  <2>1. PICK c \in Call :
          /\ OnlyCall(r, c)
          /\ c.at = s /\ c.exec = e /\ c.kind = "FRESH" /\ c.ver = calls[r].ver
    BY <1>1, <1>4, <1>6, GotoIs DEF Steps
  <2>2. LaunchOK(c, records[e], procs[e], Mark(e)) /\ CollectOK(c, records[e], procs[e])
        /\ ObserveOK(c, records[e], procs[e])
    BY <1>4, <1>5, <1>6, <2>1 DEF LaunchOK, CollectOK, ObserveOK, Launching, Collecting
  <2>3. s \in Steps \ Unbound /\ s \notin {"connect", "compare", "stillrunning", "marklost"}
    BY <1>6 DEF Steps, Unbound
  <2> QED  BY <1>1, <1>2, <1>4, <2>1, <2>2, <2>3, GotoKept
<1> QED  BY <1>6 DEF ReadChildPid

(* The child's pid is recorded. *)
LEMMA SetPidKept ==
  ASSUME RunInv, NEW r \in Runners, SetPid(r)
  PROVE  RunInv'
<1> PICK e : e = calls[r].exec
  OBVIOUS
<1> PICK row0 : row0 = records[e]
  OBVIOUS
<1>1. r \in Actors /\ UNCHANGED <<procs, lost>> /\ calls[r].at = "setpid"
  BY DEF Actors, SetPid
<1>2. calls[r].at \in Steps \ Unbound
  BY <1>1 DEF Steps, Unbound
<1>3. /\ e \in Execs /\ row0 \in ExecutionRecord /\ procs[e] \in Process
      /\ row0.version \in Nat
      /\ LaunchOK(calls[r], row0, procs[e], Mark(e)) /\ RecordOK(row0, procs[e], Mark(e))
  BY <1>1, <1>2, Bound
<1>4. /\ calls[r].kind = "FRESH" /\ procs[e].pidfile
      /\ calls[r].ver = row0.version => row0.exit = None
  BY <1>1, <1>3 DEF LaunchOK, Launching
<1> PICK row : row = [row0 EXCEPT !.pid = procs[e].child]
  OBVIOUS
<1>5. row \in ExecutionRecord /\ row.state = row0.state /\ row.exit = row0.exit /\ row.pid = procs[e].child
  BY <1>3 DEF ExecutionRecord, Process
<1>6. Write(r, row, "running", "RAISED")
  BY DEF SetPid, Exec, SetProcessMetadata
<1>7. CASE End(r, "RAISED") /\ UNCHANGED records
  BY <1>1, <1>7, EndKept DEF Outcomes, Reported, Successes
<1>8. CASE ~(End(r, "RAISED") /\ UNCHANGED records)
  <2>1. PICK c \in Call :
          /\ OnlyCall(r, c) /\ Update(e, calls[r].ver, row) /\ calls[r].ver = row0.version
          /\ c.at = "running" /\ c.ver = row0.version + 1 /\ c.exec = e /\ c.kind = "FRESH"
    BY <1>1, <1>3, <1>4, <1>5, <1>6, <1>8, WriteSplit DEF Steps
  <2>2. records'[e].version = row0.version + 1 /\ records'[e].exit = None
    BY <1>3, <1>4, <1>5, <2>1, Updated DEF RunInv
  <2>3. RecordOK(row, procs[e], Mark(e))
    BY <1>3, <1>4, <1>5, <2>1 DEF RecordOK
  <2>4. "FRESH" # None /\ e # None
    BY <1>3, RunAssumption DEF Successes
  <2>5. ShapeOK(c, r)
    BY <2>1, <2>4 DEF ShapeOK, Steps, Unbound, Reported, Successes
  <2>6. CallOK(c, records'[e], procs[e], Mark(e))
    BY <1>3, <1>4, <2>1, <2>2, <2>4 DEF CallOK, LaunchOK, CollectOK, ObserveOK, Collecting,
       Reported, Successes, Launching
  <2> QED  BY <1>1, <1>3, <1>4, <1>5, <2>1, <2>3, <2>5, <2>6, WriteKept
<1> QED  BY <1>7, <1>8

(* The record goes RUNNING only if nothing was collected meanwhile. *)
LEMMA SetRunningKept ==
  ASSUME RunInv, NEW r \in Runners, SetRunning(r)
  PROVE  RunInv'
<1> PICK e : e = calls[r].exec
  OBVIOUS
<1> PICK row0 : row0 = records[e]
  OBVIOUS
<1>1. r \in Actors /\ UNCHANGED <<procs, lost>> /\ calls[r].at = "running"
  BY DEF Actors, SetRunning
<1>2. calls[r].at \in Steps \ Unbound
  BY <1>1 DEF Steps, Unbound
<1>3. /\ e \in Execs /\ row0 \in ExecutionRecord /\ procs[e] \in Process
      /\ row0.version \in Nat
      /\ LaunchOK(calls[r], row0, procs[e], Mark(e)) /\ RecordOK(row0, procs[e], Mark(e))
  BY <1>1, <1>2, Bound
<1>4. /\ calls[r].kind = "FRESH" /\ procs[e].pidfile
      /\ calls[r].ver = row0.version => row0.exit = None
  BY <1>1, <1>3 DEF LaunchOK, Launching
<1> PICK row : row = [row0 EXCEPT !.state = "RUNNING"]
  OBVIOUS
<1>5. row \in ExecutionRecord /\ row.state = "RUNNING" /\ row.exit = row0.exit /\ row.pid = row0.pid
  BY <1>3 DEF ExecutionRecord, ExecutionProcessState
<1>6. Write(r, row, "check", "RAISED")
  BY DEF SetRunning, Exec
<1>7. CASE End(r, "RAISED") /\ UNCHANGED records
  BY <1>1, <1>7, EndKept DEF Outcomes, Reported, Successes
<1>8. CASE ~(End(r, "RAISED") /\ UNCHANGED records)
  <2>1. PICK c \in Call :
          /\ OnlyCall(r, c) /\ Update(e, calls[r].ver, row) /\ calls[r].ver = row0.version
          /\ c.at = "check" /\ c.ver = row0.version + 1 /\ c.exec = e /\ c.kind = "FRESH"
    BY <1>1, <1>3, <1>4, <1>5, <1>6, <1>8, WriteSplit DEF Steps
  <2>2. records'[e].version = row0.version + 1 /\ records'[e].exit = None
    BY <1>3, <1>4, <1>5, <2>1, Updated DEF RunInv
  <2>3. RecordOK(row, procs[e], Mark(e))
    BY <1>3, <1>4, <1>5, <2>1 DEF RecordOK
  <2>4. "FRESH" # None /\ e # None
    BY <1>3, RunAssumption DEF Successes
  <2>5. ShapeOK(c, r)
    BY <2>1, <2>4 DEF ShapeOK, Steps, Unbound, Reported, Successes
  <2>6. CallOK(c, records'[e], procs[e], Mark(e))
    BY <1>3, <1>4, <2>1, <2>2, <2>4 DEF CallOK, LaunchOK, CollectOK, ObserveOK, Collecting,
       Reported, Successes, Launching
  <2> QED  BY <1>1, <1>3, <1>4, <1>5, <2>1, <2>3, <2>5, <2>6, WriteKept
<1> QED  BY <1>7, <1>8

(* Recovery is marked by the creator, or where a result was found. *)
LEMMA MarkRecoveryKept ==
  ASSUME RunInv, NEW a \in Actors, MarkRecovery(a)
  PROVE  RunInv'
<1> PICK e : e = calls[a].exec
  OBVIOUS
<1> PICK row0 : row0 = records[e]
  OBVIOUS
<1>1. UNCHANGED <<procs, lost>> /\ calls[a].at = "recover"
  BY DEF MarkRecovery
<1>2. calls[a].at \in Steps \ Unbound
  BY <1>1 DEF Steps, Unbound
<1>3. /\ e \in Execs /\ row0 \in ExecutionRecord /\ procs[e] \in Process /\ ProcessOK(procs[e])
      /\ LaunchOK(calls[a], row0, procs[e], Mark(e)) /\ RecordOK(row0, procs[e], Mark(e))
  BY <1>1, <1>2, Bound
<1>4. calls[a].kind = "FRESH" \/ procs[e].sup # "none"
  BY <1>1, <1>3 DEF LaunchOK, ProcessOK
<1> PICK row : row = [row0 EXCEPT !.state = "RECOVERY_REQUIRED"]
  OBVIOUS
<1>5. row \in ExecutionRecord /\ row.state = "RECOVERY_REQUIRED" /\ row.exit = row0.exit
      /\ row.pid = row0.pid
  BY <1>3 DEF ExecutionRecord, ExecutionProcessState
<1>6. WriteAndEnd(a, row, "RECOVERY_REQUIRED", "RAISED")
  BY DEF MarkRecovery, Exec
<1>7. CASE End(a, "RAISED") /\ UNCHANGED records
  BY <1>1, <1>7, EndKept DEF Outcomes, Reported, Successes
<1>8. CASE ~(End(a, "RAISED") /\ UNCHANGED records)
  <2> PICK c : c = Ended(e, "RECOVERY_REQUIRED")
    OBVIOUS
  <2>1. OnlyCall(a, c) /\ Update(e, calls[a].ver, row) /\ calls[a].ver = row0.version
    BY <1>3, <1>5, <1>6, <1>8, WriteAndEndSplit
  <2>2. "RECOVERY_REQUIRED" \in Outcomes /\ "RECOVERY_REQUIRED" \notin Reported
    BY DEF Outcomes, Reported, Successes
  <2>3. c \in Call /\ c.exec = e /\ c.kind = None
    BY <1>3, <2>2, EndedIsCall
  <2>4. ShapeOK(c, a) /\ CallOK(c, records'[e], procs[e], Mark(e))
    BY <1>3, <2>2, EndedOK
  <2>5. RecordOK(row, procs[e], Mark(e))
    BY <1>3, <1>5 DEF RecordOK
  <2> QED  BY <1>1, <1>3, <1>4, <1>5, <2>1, <2>3, <2>4, <2>5, WriteKept
<1> QED  BY <1>7, <1>8

-------------------------------------------------------------------------------
(* Inspection *)

(* A runner that gets a verdict collects, ends or polls again. *)
LEMMA RunnerResolvesKept ==
  ASSUME RunInv, NEW r \in Runners, NEW e, e = calls[r].exec,
         calls[r].at \in {"check", "observe", "recheck"},
         UNCHANGED <<records, procs, lost>>,
         NEW verdict, verdict = "RESULT" => procs[e].result # None, RunnerResolves(r, verdict)
  PROVE  RunInv'
<1> PICK c0 : c0 = calls[r]
  OBVIOUS
<1>1. r \in Actors /\ c0.at \in Steps \ Unbound
  BY DEF Actors, Steps, Unbound
<1>2. c0 \in Call /\ ShapeOK(c0, r) /\ c0.exec # None
  BY <1>1, Typed DEF ShapeOK
<1>3. c0.kind # None
  BY <1>1, <1>2 DEF ShapeOK
<1>4. CASE Goto(r, "get") /\ verdict = "RESULT"
  <2>1. PICK c \in Call :
          OnlyCall(r, c) /\ c.at = "get" /\ c.exec = e /\ c.kind = c0.kind /\ c.ver = c0.ver
    BY <1>1, <1>4, GotoIs DEF Steps
  <2>2. LaunchOK(c, records[e], procs[e], Mark(e)) /\ CollectOK(c, records[e], procs[e])
        /\ ObserveOK(c, records[e], procs[e])
    BY <1>3, <1>4, <2>1 DEF LaunchOK, CollectOK, ObserveOK, Launching
  <2>3. "get" \in Steps \ Unbound /\ "get" \notin {"connect", "compare", "stillrunning", "marklost"}
    BY DEF Steps, Unbound
  <2> QED  BY <1>1, <2>1, <2>2, <2>3, GotoKept
<1>5. CASE End(r, "TIMED_OUT") \/ End(r, "RECOVERY_REQUIRED")
  BY <1>1, <1>5, EndKept DEF Outcomes, Reported, Successes
<1>6. ASSUME NEW polls \in Nat, NEW unknown \in Nat,
             calls' = [calls EXCEPT ![r].at = "check", ![r].polls = polls, ![r].unknown = unknown]
      PROVE  RunInv'
  <2> PICK c : c = [c0 EXCEPT !.at = "check", !.polls = polls, !.unknown = unknown]
    OBVIOUS
  <2>1. c \in Call /\ c.at = "check" /\ c.exec = e /\ c.kind = c0.kind /\ c.ver = c0.ver
    <3>1. "check" \in Steps
      BY DEF Steps
    <3> QED  BY <1>2, <3>1 DEF Call
  <2>2. OnlyCall(r, c)
    BY <1>6 DEF OnlyCall
  <2>3. LaunchOK(c, records[e], procs[e], Mark(e)) /\ CollectOK(c, records[e], procs[e])
        /\ ObserveOK(c, records[e], procs[e])
    BY <1>3, <2>1 DEF LaunchOK, CollectOK, ObserveOK, Launching, Collecting
  <2>4. "check" \in Steps \ Unbound /\ "check" \notin {"connect", "compare", "stillrunning", "marklost"}
    BY DEF Steps, Unbound
  <2> QED  BY <1>1, <2>1, <2>2, <2>3, <2>4, GotoKept
<1> PICK n : n = c0.polls + 1
  OBVIOUS
<1> PICK u : u = IF verdict = "UNKNOWN" THEN c0.unknown + 1 ELSE 0
  OBVIOUS
<1>7. n \in Nat /\ u \in Nat
  BY <1>2 DEF Call
<1>8. \/ Goto(r, "get") /\ verdict = "RESULT"
      \/ End(r, "TIMED_OUT") \/ End(r, "RECOVERY_REQUIRED")
      \/ calls' = [calls EXCEPT ![r].at = "check", ![r].polls = n, ![r].unknown = u]
  BY DEF RunnerResolves
<1> QED  BY <1>4, <1>5, <1>6, <1>7, <1>8

(* A reconciler that gets a verdict collects, ends or goes to write it down. *)
LEMMA ReconcilerResolvesKept ==
  ASSUME RunInv, NEW a \in Actors, a \notin Runners, NEW e, e = calls[a].exec,
         calls[a].at \in {"check", "observe", "recheck"},
         UNCHANGED <<records, procs, lost>>,
         NEW verdict \in {"RESULT", "STARTING", "RUNNING", "LOST", "UNKNOWN", "INVALID"},
         verdict = "RESULT" => procs[e].result # None,
         verdict = "RUNNING" => calls[a].at = "observe" /\ procs[e].pidfile,
         verdict \in {"LOST", "UNKNOWN", "INVALID"} =>
           calls[a].at = "recheck" /\ calls[a].seen = verdict /\ procs[e].result = None,
         ReconcilerResolves(a, verdict)
  PROVE  RunInv'
<1> PICK c0 : c0 = calls[a]
  OBVIOUS
<1>1. c0.at \in Steps \ Unbound
  BY DEF Steps, Unbound
<1>2. /\ c0 \in Call /\ ShapeOK(c0, a) /\ ObserveOK(c0, records[e], procs[e]) /\ procs[e] \in Process
      /\ ProcessOK(procs[e])
  BY <1>1, Bound
<1>3. c0.kind = None
  BY <1>2 DEF ShapeOK
<1>4. CASE Goto(a, "collect") /\ verdict = "RESULT"
  <2>1. PICK c \in Call :
          OnlyCall(a, c) /\ c.at = "collect" /\ c.exec = e /\ c.kind = c0.kind /\ c.ver = c0.ver
    BY <1>1, <1>4, GotoIs DEF Steps
  <2>2. LaunchOK(c, records[e], procs[e], Mark(e)) /\ CollectOK(c, records[e], procs[e])
        /\ ObserveOK(c, records[e], procs[e])
    BY <1>4, <2>1 DEF LaunchOK, CollectOK, ObserveOK, Launching, Pinned
  <2>3. "collect" \in Steps \ Unbound
    BY DEF Steps, Unbound
  <2> QED  BY <1>1, <2>1, <2>2, <2>3, GotoKept
<1>5. CASE End(a, "MONITOR_ORIGINAL")
  BY <1>5, EndKept DEF Outcomes, Reported, Successes
<1>6. CASE Goto(a, "stillrunning") /\ verdict = "RUNNING"
  <2>1. PICK c \in Call :
          OnlyCall(a, c) /\ c.at = "stillrunning" /\ c.exec = e /\ c.kind = c0.kind /\ c.ver = c0.ver
          /\ c.state = c0.state
    BY <1>1, <1>6, GotoIs DEF Steps
  <2>2. LaunchOK(c, records[e], procs[e], Mark(e)) /\ CollectOK(c, records[e], procs[e])
    BY <1>6, <2>1 DEF LaunchOK, CollectOK, Launching, Collecting
  <2>3. ObserveOK(c, records[e], procs[e])
    BY <1>2, <1>3, <1>6, <2>1 DEF ObserveOK, Pinned
  <2>4. "stillrunning" \in Steps \ Unbound
    BY DEF Steps, Unbound
  <2> QED  BY <1>1, <2>1, <2>2, <2>3, <2>4, GotoKept
<1>7. CASE /\ verdict \in {"LOST", "UNKNOWN", "INVALID"}
           /\ calls' = [calls EXCEPT ![a].at = "marklost", ![a].seen = verdict]
  <2> PICK c : c = [c0 EXCEPT !.at = "marklost", !.seen = verdict]
    OBVIOUS
  <2>1. c \in Call /\ c.at = "marklost" /\ c.exec = e /\ c.kind = c0.kind /\ c.ver = c0.ver
        /\ c.state = c0.state /\ c.seen = verdict
    <3>1. "marklost" \in Steps
      BY DEF Steps
    <3> QED  BY <1>2, <1>7, <3>1 DEF Call
  <2>2. OnlyCall(a, c)
    BY <1>7 DEF OnlyCall
  <2>3. LaunchOK(c, records[e], procs[e], Mark(e)) /\ CollectOK(c, records[e], procs[e])
    BY <2>1 DEF LaunchOK, CollectOK, Launching, Collecting
  <2>4. ObserveOK(c, records[e], procs[e])
    BY <1>2, <1>3, <1>7, <2>1 DEF ObserveOK, Pinned
  <2>5. "marklost" \in Steps \ Unbound
    BY DEF Steps, Unbound
  <2> QED  BY <1>1, <2>1, <2>2, <2>3, <2>4, <2>5, GotoKept
<1>8. \/ Goto(a, "collect") /\ verdict = "RESULT"
      \/ End(a, "MONITOR_ORIGINAL")
      \/ Goto(a, "stillrunning") /\ verdict = "RUNNING"
      \/ /\ verdict \in {"LOST", "UNKNOWN", "INVALID"}
         /\ calls' = [calls EXCEPT ![a].at = "marklost", ![a].seen = verdict]
  BY DEF ReconcilerResolves
<1> QED  BY <1>4, <1>5, <1>6, <1>7, <1>8

(* What any caller does with a verdict. *)
LEMMA ResolveKept ==
  ASSUME RunInv, NEW a \in Actors, NEW e, e = calls[a].exec,
         calls[a].at \in {"check", "observe", "recheck"},
         UNCHANGED <<records, procs, lost>>,
         NEW verdict \in {"RESULT", "STARTING", "RUNNING", "LOST", "UNKNOWN", "INVALID"},
         verdict = "RESULT" => procs[e].result # None,
         verdict = "RUNNING" => calls[a].at = "observe" /\ procs[e].pidfile,
         verdict \in {"LOST", "UNKNOWN", "INVALID"} =>
           calls[a].at = "recheck" /\ calls[a].seen = verdict /\ procs[e].result = None,
         Resolve(a, verdict)
  PROVE  RunInv'
<1>1. CASE a \in Runners
  BY <1>1, RunnerResolvesKept DEF Resolve
<1>2. CASE a \notin Runners
  BY <1>2, ReconcilerResolvesKept DEF Resolve
<1> QED  BY <1>1, <1>2

(* The result file is there, or the state is read to go by. *)
LEMMA CheckKept ==
  ASSUME RunInv, NEW a \in Actors, Check(a)
  PROVE  RunInv'
<1> PICK e : e = calls[a].exec
  OBVIOUS
<1> PICK c0 : c0 = calls[a]
  OBVIOUS
<1>1. UNCHANGED <<records, procs, lost>> /\ c0.at = "check"
  BY DEF Check, storeVars
<1>2. c0.at \in Steps \ Unbound
  BY <1>1 DEF Steps, Unbound
<1>3. /\ e \in Execs /\ c0 \in Call /\ records[e] \in ExecutionRecord
      /\ ObserveOK(c0, records[e], procs[e]) /\ RecordOK(records[e], procs[e], Mark(e))
  BY <1>2, Bound
<1>4. CASE procs[e].result # None /\ Resolve(a, "RESULT")
  BY <1>1, <1>4, ResolveKept
<1>5. CASE /\ procs[e].result = None
           /\ calls' = [calls EXCEPT ![a].at = "observe", ![a].seen = records[e].state]
  <2> PICK s : s = records[e].state
    OBVIOUS
  <2> PICK c : c = [c0 EXCEPT !.at = "observe", !.seen = s]
    OBVIOUS
  <2>1. c \in Call /\ c.at = "observe" /\ c.exec = e /\ c.kind = c0.kind /\ c.ver = c0.ver
        /\ c.state = c0.state /\ c.seen = records[e].state
    <3>1. "observe" \in Steps /\ s \in ExecutionProcessState
      BY <1>3 DEF Steps, ExecutionRecord
    <3> QED  BY <1>3, <3>1 DEF Call
  <2>2. OnlyCall(a, c)
    BY <1>5 DEF OnlyCall
  <2>3. LaunchOK(c, records[e], procs[e], Mark(e)) /\ CollectOK(c, records[e], procs[e])
    BY <2>1 DEF LaunchOK, CollectOK, Launching, Collecting
  <2>4. records[e].exit = None
    BY <1>3, <1>5 DEF RecordOK
  <2>5. ObserveOK(c, records[e], procs[e])
    BY <1>1, <1>3, <2>1, <2>4 DEF ObserveOK, Pinned
  <2>6. "observe" \in Steps \ Unbound /\ "observe" \notin {"connect", "compare", "stillrunning", "marklost"}
    BY DEF Steps, Unbound
  <2> QED  BY <1>1, <1>2, <2>1, <2>2, <2>3, <2>5, <2>6, GotoKept
<1>6. CASE End(a, "RECOVERY_REQUIRED") \/ End(a, "RAISED")
  BY <1>1, <1>6, EndKept DEF Outcomes, Reported, Successes
<1> QED  BY <1>4, <1>5, <1>6 DEF Check, Exec

(* A process that was not found alive is looked at once more. *)
LEMMA ObserveKept ==
  ASSUME RunInv, NEW a \in Actors, Observe(a)
  PROVE  RunInv'
<1> PICK e : e = calls[a].exec
  OBVIOUS
<1> PICK c0 : c0 = calls[a]
  OBVIOUS
<1>1. UNCHANGED <<records, procs, lost>> /\ c0.at = "observe"
  BY DEF Observe, storeVars
<1>2. c0.at \in Steps \ Unbound
  BY <1>1 DEF Steps, Unbound
<1>3. /\ e \in Execs /\ c0 \in Call /\ records[e] \in ExecutionRecord /\ procs[e] \in Process
      /\ ObserveOK(c0, records[e], procs[e]) /\ RecordOK(records[e], procs[e], Mark(e))
  BY <1>2, Bound
<1>4. CASE Resolve(a, "STARTING")
  BY <1>1, <1>4, ResolveKept
<1>5. CASE procs[e].pidfile /\ Resolve(a, "RUNNING")
  BY <1>1, <1>5, ResolveKept
<1>6. ASSUME NEW verdict \in {"LOST", "UNKNOWN", "INVALID"},
             calls' = [calls EXCEPT ![a].at = "recheck", ![a].seen = verdict],
             verdict # "LOST" => procs[e].pidfile,
             verdict = "LOST" => procs[e].sup = "dead" \/ (~procs[e].pidfile /\ c0.seen # "STARTING")
      PROVE  RunInv'
  <2> PICK c : c = [c0 EXCEPT !.at = "recheck", !.seen = verdict]
    OBVIOUS
  <2>1. c \in Call /\ c.at = "recheck" /\ c.exec = e /\ c.kind = c0.kind /\ c.ver = c0.ver
        /\ c.state = c0.state /\ c.seen = verdict
    <3>1. "recheck" \in Steps
      BY DEF Steps
    <3> QED  BY <1>3, <1>6, <3>1 DEF Call
  <2>2. OnlyCall(a, c)
    BY <1>6 DEF OnlyCall
  <2>3. LaunchOK(c, records[e], procs[e], Mark(e)) /\ CollectOK(c, records[e], procs[e])
    BY <2>1 DEF LaunchOK, CollectOK, Launching, Collecting
  <2>4. ASSUME c0.kind = None, c0.ver = records[e].version
        PROVE  records[e].state = c0.state /\ c0.seen = records[e].state
    BY <1>1, <1>3, <2>4 DEF ObserveOK, Pinned
  <2>5. procs[e].sup \in {"none", "alive", "dead"}
    BY <1>3 DEF Process
  <2>6. ObserveOK(c, records[e], procs[e])
    BY <1>3, <1>6, <2>1, <2>4, <2>5 DEF ObserveOK, RecordOK
  <2>7. "recheck" \in Steps \ Unbound /\ "recheck" \notin {"connect", "compare", "stillrunning", "marklost"}
    BY DEF Steps, Unbound
  <2> QED  BY <1>1, <1>2, <2>1, <2>2, <2>3, <2>6, <2>7, GotoKept
<1>7. \/ Resolve(a, "STARTING")
      \/ procs[e].pidfile /\ Resolve(a, "RUNNING")
      \/ \E verdict \in {"LOST", "UNKNOWN", "INVALID"} :
           /\ calls' = [calls EXCEPT ![a].at = "recheck", ![a].seen = verdict]
           /\ verdict # "LOST" => procs[e].pidfile
           /\ verdict = "LOST" => procs[e].sup = "dead" \/ (~procs[e].pidfile /\ c0.seen # "STARTING")
  BY DEF Observe, Exec
<1> QED  BY <1>4, <1>5, <1>6, <1>7

(* A result that appeared meanwhile is what counts. *)
LEMMA RecheckKept ==
  ASSUME RunInv, NEW a \in Actors, Recheck(a)
  PROVE  RunInv'
<1> PICK e : e = calls[a].exec
  OBVIOUS
<1>1. UNCHANGED <<records, procs, lost>> /\ calls[a].at = "recheck"
  BY DEF Recheck, storeVars
<1>2. calls[a].at \in Steps \ Unbound
  BY <1>1 DEF Steps, Unbound
<1>3. ObserveOK(calls[a], records[e], procs[e])
  BY <1>2, Bound
<1>4. calls[a].seen \in {"LOST", "UNKNOWN", "INVALID"}
  BY <1>1, <1>3 DEF ObserveOK
<1>5. CASE procs[e].result # None
  <2>1. Resolve(a, "RESULT")
    BY <1>5 DEF Recheck, Exec
  <2> QED  BY <1>1, <1>5, <2>1, ResolveKept
<1>6. CASE procs[e].result = None
  <2>1. Resolve(a, calls[a].seen)
    BY <1>6 DEF Recheck, Exec
  <2> QED  BY <1>1, <1>4, <1>6, <2>1, ResolveKept
<1> QED  BY <1>5, <1>6

-------------------------------------------------------------------------------
(* Collection *)

(* A version conflict ends a collection without a result. *)
LEMMA ConflictEnds ==
  ASSUME RunInv, NEW a \in Actors, End(a, Conflict(a)), UNCHANGED <<records, procs, lost>>
  PROVE  RunInv'
<1>1. Conflict(a) \in Outcomes \ Reported
  BY DEF Conflict, Outcomes, Reported, Successes
<1> QED  BY <1>1, EndKept

(* The version to collect with is read after the result was seen. *)
LEMMA GetVersionKept ==
  ASSUME RunInv, NEW r \in Runners, GetVersion(r)
  PROVE  RunInv'
<1> PICK e : e = calls[r].exec
  OBVIOUS
<1> PICK c0 : c0 = calls[r]
  OBVIOUS
<1>1. r \in Actors /\ UNCHANGED <<records, procs, lost>> /\ c0.at = "get"
  BY DEF Actors, GetVersion, storeVars
<1>2. c0.at \in Steps \ Unbound
  BY <1>1 DEF Steps, Unbound
<1>3. /\ e \in Execs /\ c0 \in Call /\ records[e] \in ExecutionRecord /\ ShapeOK(c0, r)
      /\ CollectOK(c0, records[e], procs[e])
  BY <1>1, <1>2, Bound
<1> PICK v : v = records[e].version
  OBVIOUS
<1> PICK c : c = [c0 EXCEPT !.at = "collect", !.ver = v]
  OBVIOUS
<1>4. c \in Call /\ c.at = "collect" /\ c.exec = e /\ c.kind = c0.kind /\ c.ver = v
  <2>1. "collect" \in Steps /\ v \in 0..MaxVersion
    BY <1>3, RunAssumption DEF Steps, ExecutionRecord
  <2> QED  BY <1>3, <2>1 DEF Call
<1>5. OnlyCall(r, c)
  BY DEF OnlyCall, GetVersion, Exec
<1>6. c.kind # None
  BY <1>1, <1>2, <1>3, <1>4, RunAssumption DEF ShapeOK
<1>7. LaunchOK(c, records[e], procs[e], Mark(e)) /\ CollectOK(c, records[e], procs[e])
      /\ ObserveOK(c, records[e], procs[e])
  BY <1>1, <1>3, <1>4, <1>6 DEF LaunchOK, CollectOK, ObserveOK, Launching, Collecting
<1>8. "collect" \in Steps \ Unbound /\ "collect" \notin {"connect", "compare", "stillrunning", "marklost"}
  BY DEF Steps, Unbound
<1> QED  BY <1>1, <1>2, <1>4, <1>5, <1>7, <1>8, GotoKept

(* The result file is read and compared with the record. *)
LEMMA CollectKept ==
  ASSUME RunInv, NEW a \in Actors, Collect(a)
  PROVE  RunInv'
<1> PICK e : e = calls[a].exec
  OBVIOUS
<1> PICK row0 : row0 = records[e]
  OBVIOUS
<1>1. UNCHANGED <<procs, lost>> /\ calls[a].at = "collect"
  BY DEF Collect, storeVars
<1>2. calls[a].at \in Steps \ Unbound
  BY <1>1 DEF Steps, Unbound
<1>3. /\ e \in Execs /\ row0 \in ExecutionRecord /\ procs[e] \in Process /\ ProcessOK(procs[e])
      /\ row0.version \in Nat /\ calls[a] \in Call /\ ShapeOK(calls[a], a)
      /\ CollectOK(calls[a], row0, procs[e]) /\ RecordOK(row0, procs[e], Mark(e))
  BY <1>1, <1>2, Bound
<1>4. procs[e].result # None /\ procs[e].sup # "none"
  BY <1>1, <1>3 DEF CollectOK, Collecting, ProcessOK
<1>5. UNCHANGED records
  BY DEF Collect, storeVars
<1>6. ASSUME NEW s \in {"unreadable", "collectpid"}, Goto(a, s) PROVE RunInv'
  <2>1. PICK c \in Call :
          OnlyCall(a, c) /\ c.at = s /\ c.exec = e /\ c.kind = calls[a].kind /\ c.ver = calls[a].ver
    BY <1>6, GotoIs DEF Steps
  <2>2. LaunchOK(c, records[e], procs[e], Mark(e)) /\ CollectOK(c, records[e], procs[e])
        /\ ObserveOK(c, records[e], procs[e])
    BY <1>4, <1>6, <2>1 DEF LaunchOK, CollectOK, ObserveOK, Launching, Collecting, Pinned
  <2>3. s \in Steps \ Unbound /\ s \notin {"connect", "compare", "stillrunning", "marklost"}
    BY <1>6 DEF Steps, Unbound
  <2> QED  BY <1>1, <1>2, <1>5, <2>1, <2>2, <2>3, GotoKept
<1>7. CASE End(a, Conflict(a))
  BY <1>1, <1>5, <1>7, ConflictEnds
<1>8. row0.pid \in {None, ChildResult(e).pid}
  BY <1>3 DEF RecordOK, ChildResult
<1> QED  BY <1>6, <1>7, <1>8 DEF Collect, Exec

(* A result that cannot be read: the record is marked for recovery. *)
LEMMA MarkUncollectedKept ==
  ASSUME RunInv, NEW a \in Actors, MarkUncollected(a)
  PROVE  RunInv'
<1> PICK e : e = calls[a].exec
  OBVIOUS
<1> PICK row0 : row0 = records[e]
  OBVIOUS
<1>1. UNCHANGED <<procs, lost>> /\ calls[a].at \in {"unreadable", "mismatch"}
  BY DEF MarkUncollected
<1>2. calls[a].at \in Steps \ Unbound
  BY <1>1 DEF Steps, Unbound
<1>3. /\ e \in Execs /\ row0 \in ExecutionRecord /\ procs[e] \in Process /\ ProcessOK(procs[e])
      /\ CollectOK(calls[a], row0, procs[e]) /\ RecordOK(row0, procs[e], Mark(e))
  BY <1>1, <1>2, Bound
<1>4. calls[a].at = "unreadable" /\ procs[e].sup # "none"
  BY <1>1, <1>3 DEF CollectOK, Collecting, ProcessOK
<1> PICK row : row = [row0 EXCEPT !.state = "RECOVERY_REQUIRED"]
  OBVIOUS
<1>5. row \in ExecutionRecord /\ row.state = "RECOVERY_REQUIRED" /\ row.exit = row0.exit
      /\ row.pid = row0.pid
  BY <1>3 DEF ExecutionRecord, ExecutionProcessState
<1>6. WriteAndEnd(a, row, "RECOVERY_REQUIRED", Conflict(a))
  BY <1>4 DEF MarkUncollected, Exec, Uncollected
<1>7. CASE End(a, Conflict(a)) /\ UNCHANGED records
  BY <1>1, <1>7, ConflictEnds
<1>8. CASE ~(End(a, Conflict(a)) /\ UNCHANGED records)
  <2> PICK c : c = Ended(e, "RECOVERY_REQUIRED")
    OBVIOUS
  <2>1. OnlyCall(a, c) /\ Update(e, calls[a].ver, row) /\ calls[a].ver = row0.version
    BY <1>3, <1>5, <1>6, <1>8, WriteAndEndSplit
  <2>2. "RECOVERY_REQUIRED" \in Outcomes /\ "RECOVERY_REQUIRED" \notin Reported
    BY DEF Outcomes, Reported, Successes
  <2>3. c \in Call /\ c.exec = e /\ c.kind = None
    BY <1>3, <2>2, EndedIsCall
  <2>4. ShapeOK(c, a) /\ CallOK(c, records'[e], procs[e], Mark(e))
    BY <1>3, <2>2, EndedOK
  <2>5. RecordOK(row, procs[e], Mark(e))
    BY <1>3, <1>5 DEF RecordOK
  <2> QED  BY <1>1, <1>3, <1>4, <1>5, <2>1, <2>3, <2>4, <2>5, WriteKept
<1> QED  BY <1>7, <1>8

(* The pid of the result file is recorded. *)
LEMMA CollectPidKept ==
  ASSUME RunInv, NEW a \in Actors, CollectPid(a)
  PROVE  RunInv'
<1> PICK e : e = calls[a].exec
  OBVIOUS
<1> PICK row0 : row0 = records[e]
  OBVIOUS
<1>1. UNCHANGED <<procs, lost>> /\ calls[a].at = "collectpid"
  BY DEF CollectPid
<1>2. calls[a].at \in Steps \ Unbound
  BY <1>1 DEF Steps, Unbound
<1>3. /\ e \in Execs /\ row0 \in ExecutionRecord /\ procs[e] \in Process /\ ProcessOK(procs[e])
      /\ row0.version \in Nat /\ calls[a] \in Call /\ ShapeOK(calls[a], a)
      /\ CollectOK(calls[a], row0, procs[e]) /\ RecordOK(row0, procs[e], Mark(e))
  BY <1>1, <1>2, Bound
<1>4. procs[e].result # None /\ procs[e].sup # "none"
  BY <1>1, <1>3 DEF CollectOK, Collecting, ProcessOK
<1> PICK row : row = [row0 EXCEPT !.pid = procs[e].child]
  OBVIOUS
<1>5. row \in ExecutionRecord /\ row.state = row0.state /\ row.exit = row0.exit /\ row.pid = procs[e].child
  BY <1>3 DEF ExecutionRecord, Process
<1>6. Write(a, row, "collectresult", Conflict(a))
  BY DEF CollectPid, Exec, ChildResult, SetProcessMetadata
<1>7. CASE End(a, Conflict(a)) /\ UNCHANGED records
  BY <1>1, <1>7, ConflictEnds
<1>8. CASE ~(End(a, Conflict(a)) /\ UNCHANGED records)
  <2>1. PICK c \in Call :
          /\ OnlyCall(a, c) /\ Update(e, calls[a].ver, row) /\ calls[a].ver = row0.version
          /\ c.at = "collectresult" /\ c.ver = row0.version + 1 /\ c.exec = e /\ c.kind = calls[a].kind
    BY <1>3, <1>5, <1>6, <1>8, WriteSplit DEF Steps
  <2>2. records'[e].version = row0.version + 1 /\ records'[e].pid = procs[e].child
    BY <1>1, <1>3, <1>5, <2>1, Updated DEF RunInv
  <2>3. RecordOK(row, procs[e], Mark(e))
    BY <1>1, <1>3, <1>4, <1>5, <2>1 DEF RecordOK, CollectOK
  <2>4. e # None
    BY <1>3, RunAssumption
  <2>5. ShapeOK(c, a)
    BY <1>1, <1>3, <2>1, <2>4 DEF ShapeOK, Steps, Unbound, Reported, Successes
  <2>6. CallOK(c, records'[e], procs[e], Mark(e))
    BY <1>3, <1>4, <2>1, <2>2 DEF CallOK, LaunchOK, CollectOK, ObserveOK, Collecting,
       Reported, Successes, Launching, Pinned
  <2> QED  BY <1>1, <1>3, <1>4, <1>5, <2>1, <2>3, <2>5, <2>6, WriteKept
<1> QED  BY <1>7, <1>8

(* The exit code of the result file is recorded. *)
LEMMA CollectResultKept ==
  ASSUME RunInv, NEW a \in Actors, CollectResult(a)
  PROVE  RunInv'
<1> PICK e : e = calls[a].exec
  OBVIOUS
<1> PICK row0 : row0 = records[e]
  OBVIOUS
<1>1. UNCHANGED <<procs, lost>> /\ calls[a].at = "collectresult"
  BY DEF CollectResult
<1>2. calls[a].at \in Steps \ Unbound
  BY <1>1 DEF Steps, Unbound
<1>3. /\ e \in Execs /\ row0 \in ExecutionRecord /\ procs[e] \in Process /\ ProcessOK(procs[e])
      /\ row0.version \in Nat /\ calls[a] \in Call /\ ShapeOK(calls[a], a)
      /\ CollectOK(calls[a], row0, procs[e]) /\ RecordOK(row0, procs[e], Mark(e))
  BY <1>1, <1>2, Bound
<1>4. procs[e].result # None /\ procs[e].sup # "none"
  BY <1>1, <1>3 DEF CollectOK, Collecting, ProcessOK
<1> PICK row : row = [row0 EXCEPT !.exit = procs[e].result]
  OBVIOUS
<1>5. row \in ExecutionRecord /\ row.state = row0.state /\ row.exit = procs[e].result /\ row.pid = row0.pid
  BY <1>3 DEF ExecutionRecord, Process
<1>6. Write(a, row, "collectstate", Conflict(a))
  BY DEF CollectResult, Exec, ChildResult, SetResultMetadata
<1>7. CASE End(a, Conflict(a)) /\ UNCHANGED records
  BY <1>1, <1>7, ConflictEnds
<1>8. CASE ~(End(a, Conflict(a)) /\ UNCHANGED records)
  <2>1. PICK c \in Call :
          /\ OnlyCall(a, c) /\ Update(e, calls[a].ver, row) /\ calls[a].ver = row0.version
          /\ c.at = "collectstate" /\ c.ver = row0.version + 1 /\ c.exec = e /\ c.kind = calls[a].kind
    BY <1>3, <1>5, <1>6, <1>8, WriteSplit DEF Steps
  <2>2. records'[e].version = row0.version + 1 /\ records'[e].pid = procs[e].child
        /\ records'[e].exit = procs[e].result
    BY <1>1, <1>3, <1>5, <2>1, Updated DEF RunInv, CollectOK
  <2>3. RecordOK(row, procs[e], Mark(e))
    BY <1>1, <1>3, <1>4, <1>5, <2>1 DEF RecordOK, CollectOK
  <2>4. e # None
    BY <1>3, RunAssumption
  <2>5. ShapeOK(c, a)
    BY <1>1, <1>3, <2>1, <2>4 DEF ShapeOK, Steps, Unbound, Reported, Successes
  <2>6. CallOK(c, records'[e], procs[e], Mark(e))
    BY <1>3, <1>4, <2>1, <2>2 DEF CallOK, LaunchOK, CollectOK, ObserveOK, Collecting,
       Reported, Successes, Launching, Pinned
  <2> QED  BY <1>1, <1>3, <1>4, <1>5, <2>1, <2>3, <2>5, <2>6, WriteKept
<1> QED  BY <1>7, <1>8

(* The state follows from the exit code, and the call reports. *)
LEMMA CollectStateKept ==
  ASSUME RunInv, NEW a \in Actors, CollectState(a)
  PROVE  RunInv'
<1> PICK e : e = calls[a].exec
  OBVIOUS
<1> PICK row0 : row0 = records[e]
  OBVIOUS
<1>1. UNCHANGED <<procs, lost>> /\ calls[a].at = "collectstate"
  BY DEF CollectState
<1>2. calls[a].at \in Steps \ Unbound
  BY <1>1 DEF Steps, Unbound
<1>3. /\ e \in Execs /\ row0 \in ExecutionRecord /\ procs[e] \in Process /\ ProcessOK(procs[e])
      /\ row0.version \in Nat /\ calls[a] \in Call /\ ShapeOK(calls[a], a)
      /\ CollectOK(calls[a], row0, procs[e]) /\ RecordOK(row0, procs[e], Mark(e))
  BY <1>1, <1>2, Bound
<1>4. procs[e].result # None /\ procs[e].sup # "none"
  BY <1>1, <1>3 DEF CollectOK, Collecting, ProcessOK
<1> PICK s : s = CollectedState(procs[e].result)
  OBVIOUS
<1> PICK row : row = [row0 EXCEPT !.state = s]
  OBVIOUS
<1>5. s = (IF procs[e].result = 0 THEN "VERIFICATION_REQUIRED" ELSE "FAILED") /\ procs[e].result \in {0, 1}
  BY <1>3, <1>4 DEF CollectedState, Process
<1>6. row \in ExecutionRecord /\ row.state = s /\ row.exit = row0.exit /\ row.pid = row0.pid
  <2>1. s \in ExecutionProcessState
    BY <1>5 DEF ExecutionProcessState
  <2> QED  BY <1>3, <2>1 DEF ExecutionRecord
<1>7. PICK o \in Outcomes : WriteAndEnd(a, row, o, Conflict(a))
  <2>1. a \in Runners => calls[a].kind \in Outcomes
    <3>1. a \in Runners => calls[a].kind # None
      BY <1>2, <1>3, RunAssumption, Bound DEF ShapeOK
    <3> QED  BY <1>3, <3>1 DEF Call, Outcomes
  <2>2. PICK o \in IF a \in Runners THEN {calls[a].kind}
                   ELSE {"BLOCKED", IF procs[e].result = 0 THEN "VERIFY_RESULT" ELSE "REVIEW_FAILURE"} :
          WriteAndEnd(a, row, o, Conflict(a))
    BY DEF CollectState, Exec, ChildResult
  <2>3. o \in Outcomes
    BY <2>1, <2>2 DEF Outcomes
  <2> QED  BY <2>2, <2>3
<1>8. CASE End(a, Conflict(a)) /\ UNCHANGED records
  BY <1>1, <1>8, ConflictEnds
<1>9. CASE ~(End(a, Conflict(a)) /\ UNCHANGED records)
  <2> PICK c : c = Ended(e, o)
    OBVIOUS
  <2>1. OnlyCall(a, c) /\ Update(e, calls[a].ver, row) /\ calls[a].ver = row0.version
    BY <1>3, <1>6, <1>7, <1>9, WriteAndEndSplit
  <2>2. row0.exit = procs[e].result /\ row0.pid = procs[e].child
    BY <1>1, <1>3, <2>1 DEF CollectOK
  <2>3. c \in Call /\ c.exec = e /\ c.kind = None
    BY <1>3, EndedIsCall
  <2>4. e # None /\ records'[e].exit # None
    <3>1. RunTypeOK
      BY DEF RunInv
    <3>2. records'[e].exit = row.exit
      <4>1. e \in Execs /\ row \in ExecutionRecord /\ Update(e, calls[a].ver, row)
        BY <1>3, <1>6, <2>1
      <4>2. \A v, w : w \in ExecutionRecord /\ Update(e, v, w) => records'[e].exit = w.exit
        BY <3>1, <4>1, Updated
      <4> QED  BY <4>1, <4>2
    <3>3. e # None
      BY <1>3, RunAssumption
    <3> QED  BY <1>4, <1>6, <2>2, <3>2, <3>3
  <2>5. ShapeOK(c, a) /\ CallOK(c, records'[e], procs[e], Mark(e))
    BY <1>3, <2>4, EndedOK
  <2>6. RecordOK(row, procs[e], Mark(e))
    BY <1>3, <1>4, <1>5, <1>6 DEF RecordOK
  <2> QED  BY <1>1, <1>3, <1>4, <1>6, <2>1, <2>3, <2>5, <2>6, WriteKept
<1> QED  BY <1>8, <1>9

-------------------------------------------------------------------------------
(* The steps of reconciliation *)

(* A reconciliation begins with the version and the state of the record. *)
LEMMA BeginReconcileKept ==
  ASSUME RunInv, NEW r \in Reconcilers, BeginReconcile(r)
  PROVE  RunInv'
<1>1. r \in Actors /\ r \notin Runners /\ UNCHANGED <<records, procs, lost>>
  BY RunAssumption DEF Actors, BeginReconcile, storeVars
<1> PICK i : i = Idle
  OBVIOUS
<1>2. i \in Call /\ i.kind = None
  BY RunAssumption DEF Idle, Call
<1>3. PICK e \in Execs :
        /\ records[e] # None
        /\ calls' = [calls EXCEPT ![r] =
             [i EXCEPT !.at = "connect", !.exec = e, !.ver = records[e].version,
                       !.state = records[e].state]]
  BY DEF BeginReconcile
<1> PICK row : row = records[e]
  OBVIOUS
<1>4. row \in ExecutionRecord /\ row.version \in 0..MaxVersion /\ row.state \in ExecutionProcessState
      /\ row.version \in Nat
  BY <1>3 DEF RunInv, RunTypeOK, ExecutionRecord
<1> PICK c : c = [i EXCEPT !.at = "connect", !.exec = e, !.ver = row.version, !.state = row.state]
  OBVIOUS
<1>5. "connect" \in Steps
  BY DEF Steps
<1>6. c \in Call /\ c.at = "connect" /\ c.exec = e /\ c.kind = None /\ c.ver = row.version /\ c.state = row.state
  BY <1>2, <1>4, <1>5 DEF Call
<1>7. OnlyCall(r, c)
  BY <1>3 DEF OnlyCall
<1>8. ShapeOK(c, r)
  BY <1>1, <1>6, RunAssumption DEF ShapeOK, Unbound, Steps
<1>9. CallOK(c, row, procs[e], Mark(e))
  BY <1>4, <1>6 DEF CallOK, LaunchOK, CollectOK, ObserveOK, Launching, Collecting, Pinned, Reported, Successes
<1>10. c.kind # "FRESH"
  BY <1>6, RunAssumption DEF Successes
<1> QED  BY <1>1, <1>3, <1>6, <1>7, <1>8, <1>9, <1>10, CallMoves

(* What a reconciler at one of its own steps knows. *)
LEMMA ReconcilerBound ==
  ASSUME RunInv, NEW r \in Reconcilers, NEW e, e = calls[r].exec,
         calls[r].at \in {"connect", "compare", "stillrunning", "marklost"}
  PROVE  /\ r \in Actors /\ r \notin Runners /\ e \in Execs /\ e # None
         /\ calls[r].at \in Steps \ Unbound
         /\ calls[r] \in Call /\ calls[r].kind = None /\ records[e] \in ExecutionRecord
         /\ procs[e] \in Process /\ ProcessOK(procs[e])
         /\ records[e].version \in Nat
         /\ RecordOK(records[e], procs[e], Mark(e))
         /\ ObserveOK(calls[r], records[e], procs[e])
<1>1. r \in Actors /\ r \notin Runners
  BY RunAssumption DEF Actors
<1>2. calls[r].at \in Steps \ Unbound
  BY DEF Steps, Unbound
<1>3. /\ e \in Execs /\ calls[r] \in Call /\ ShapeOK(calls[r], r) /\ records[e] \in ExecutionRecord
      /\ procs[e] \in Process /\ ProcessOK(procs[e])
      /\ records[e].version \in Nat
      /\ RecordOK(records[e], procs[e], Mark(e))
      /\ ObserveOK(calls[r], records[e], procs[e])
  BY <1>1, <1>2, Bound
<1>4. calls[r].kind = None
  BY <1>1, <1>3 DEF ShapeOK
<1>5. e # None
  BY <1>3, RunAssumption
<1> QED  BY <1>1, <1>2, <1>3, <1>4, <1>5

(* The transport is marked connected, or found so. *)
LEMMA ConnectKept ==
  ASSUME RunInv, NEW r \in Reconcilers, Connect(r)
  PROVE  RunInv'
<1> PICK e : e = calls[r].exec
  OBVIOUS
<1> PICK row0 : row0 = records[e]
  OBVIOUS
<1>1. UNCHANGED <<procs, lost>> /\ calls[r].at = "connect"
  BY DEF Connect
<1>2. /\ r \in Actors /\ r \notin Runners /\ e \in Execs /\ e # None /\ calls[r].at \in Steps \ Unbound
      /\ calls[r].kind = None /\ row0 \in ExecutionRecord /\ row0.version \in Nat
      /\ RecordOK(row0, procs[e], Mark(e)) /\ ObserveOK(calls[r], row0, procs[e])
  BY <1>1, ReconcilerBound
<1>3. CASE End(r, "BLOCKED") /\ UNCHANGED records
  BY <1>1, <1>2, <1>3, EndKept DEF Outcomes, Reported, Successes
<1>4. CASE Goto(r, "compare") /\ UNCHANGED records
  <2>1. PICK c \in Call :
          /\ OnlyCall(r, c) /\ c.at = "compare" /\ c.exec = e /\ c.kind = calls[r].kind
          /\ c.ver = calls[r].ver /\ c.state = calls[r].state
    BY <1>2, <1>4, GotoIs DEF Steps
  <2>2. LaunchOK(c, row0, procs[e], Mark(e)) /\ CollectOK(c, row0, procs[e])
        /\ ObserveOK(c, row0, procs[e])
    BY <1>1, <1>2, <2>1 DEF LaunchOK, CollectOK, ObserveOK, Launching, Collecting, Pinned
  <2>3. "compare" \in Steps \ Unbound
    BY DEF Steps, Unbound
  <2> QED  BY <1>1, <1>2, <1>4, <2>1, <2>2, <2>3, GotoKept
<1>5. CASE Write(r, [row0 EXCEPT !.transport = "CONNECTED"], "compare", "BLOCKED")
           /\ ~(End(r, "BLOCKED") /\ UNCHANGED records)
  <2> PICK row : row = [row0 EXCEPT !.transport = "CONNECTED"]
    OBVIOUS
  <2>1. row \in ExecutionRecord /\ row.state = row0.state /\ row.exit = row0.exit /\ row.pid = row0.pid
    BY <1>2 DEF ExecutionRecord, TransportState
  <2>2. PICK c \in Call :
          /\ OnlyCall(r, c) /\ Update(e, calls[r].ver, row) /\ calls[r].ver = row0.version
          /\ c.at = "compare" /\ c.ver = row0.version + 1 /\ c.exec = e /\ c.kind = None
          /\ c.state = calls[r].state
    BY <1>2, <1>5, <2>1, WriteSplit DEF Steps
  <2>3. RunTypeOK
    BY DEF RunInv
  <2>4. records'[e].version = row0.version + 1 /\ records'[e].state = row0.state
    <3>1. records'[e].version = records[e].version + 1 /\ records'[e].state = row.state
      <4>1. e \in Execs /\ row \in ExecutionRecord /\ Update(e, calls[r].ver, row)
        BY <1>2, <2>1, <2>2
      <4>2. \A v, w : w \in ExecutionRecord /\ Update(e, v, w) =>
                          records'[e].version = records[e].version + 1 /\ records'[e].state = w.state
        BY <2>3, <4>1, Updated
      <4> QED  BY <4>1, <4>2
    <3> QED  BY <2>1, <3>1
  <2>5. RecordOK(row, procs[e], Mark(e))
    BY <1>2, <2>1 DEF RecordOK
  <2>6. ShapeOK(c, r)
    BY <1>2, <2>2 DEF ShapeOK, Steps, Unbound, Reported, Successes
  <2>7. row0.state = calls[r].state
    BY <1>1, <1>2, <2>2 DEF ObserveOK, Pinned
  <2>8. CallOK(c, records'[e], procs[e], Mark(e))
    BY <1>2, <2>2, <2>4, <2>7 DEF CallOK, LaunchOK, CollectOK, ObserveOK, Collecting,
       Reported, Successes, Launching, Pinned
  <2> QED  BY <1>1, <1>2, <2>1, <2>2, <2>5, <2>6, <2>8, WriteKept
<1> QED  BY <1>3, <1>4, <1>5 DEF Connect, Exec

(* The repository is compared with the record. *)
LEMMA CompareRepositoryKept ==
  ASSUME RunInv, NEW r \in Reconcilers, CompareRepository(r)
  PROVE  RunInv'
<1> PICK e : e = calls[r].exec
  OBVIOUS
<1>1. UNCHANGED <<records, procs, lost>> /\ calls[r].at = "compare"
  BY DEF CompareRepository, storeVars
<1>2. /\ r \in Actors /\ r \notin Runners /\ e \in Execs /\ e # None /\ calls[r].at \in Steps \ Unbound
      /\ calls[r].kind = None /\ ObserveOK(calls[r], records[e], procs[e])
  BY <1>1, ReconcilerBound
<1>3. CASE End(r, "BLOCKED")
  BY <1>1, <1>2, <1>3, EndKept DEF Outcomes, Reported, Successes
<1>4. CASE Goto(r, "check")
  <2>1. PICK c \in Call :
          /\ OnlyCall(r, c) /\ c.at = "check" /\ c.exec = e /\ c.kind = calls[r].kind
          /\ c.ver = calls[r].ver /\ c.state = calls[r].state
    BY <1>2, <1>4, GotoIs DEF Steps
  <2>2. LaunchOK(c, records[e], procs[e], Mark(e)) /\ CollectOK(c, records[e], procs[e])
        /\ ObserveOK(c, records[e], procs[e])
    BY <1>1, <1>2, <2>1 DEF LaunchOK, CollectOK, ObserveOK, Launching, Collecting, Pinned
  <2>3. "check" \in Steps \ Unbound
    BY DEF Steps, Unbound
  <2> QED  BY <1>1, <1>2, <2>1, <2>2, <2>3, GotoKept
<1> QED  BY <1>3, <1>4 DEF CompareRepository

(* A process is recorded as running over the record that was inspected. *)
LEMMA MarkStillRunningKept ==
  ASSUME RunInv, NEW r \in Reconcilers, MarkStillRunning(r)
  PROVE  RunInv'
<1> PICK e : e = calls[r].exec
  OBVIOUS
<1> PICK row0 : row0 = records[e]
  OBVIOUS
<1> PICK o : o = "MONITOR_ORIGINAL"
  OBVIOUS
<1>1. UNCHANGED <<procs, lost>> /\ calls[r].at = "stillrunning" /\ o \in Outcomes \ Reported
  BY DEF MarkStillRunning, Outcomes, Reported, Successes
<1>2. /\ r \in Actors /\ r \notin Runners /\ e \in Execs /\ e # None /\ calls[r].at \in Steps \ Unbound
      /\ calls[r].kind = None /\ row0 \in ExecutionRecord /\ row0.version \in Nat
      /\ ProcessOK(procs[e])
      /\ RecordOK(row0, procs[e], Mark(e)) /\ ObserveOK(calls[r], row0, procs[e])
  BY <1>1, ReconcilerBound
<1>3. CASE End(r, "MONITOR_ORIGINAL") /\ UNCHANGED records
  BY <1>1, <1>2, <1>3, EndKept
<1>4. CASE End(r, "BLOCKED") /\ UNCHANGED records
  BY <1>1, <1>2, <1>4, EndKept DEF Outcomes, Reported, Successes
<1>5. CASE WriteAndEnd(r, [row0 EXCEPT !.state = "PROCESS_STILL_RUNNING"], "MONITOR_ORIGINAL", "BLOCKED")
           /\ ~(End(r, "BLOCKED") /\ UNCHANGED records)
  <2> PICK row : row = [row0 EXCEPT !.state = "PROCESS_STILL_RUNNING"]
    OBVIOUS
  <2>1. row \in ExecutionRecord /\ row.state = "PROCESS_STILL_RUNNING" /\ row.exit = row0.exit
        /\ row.pid = row0.pid
    BY <1>2 DEF ExecutionRecord, ExecutionProcessState
  <2> PICK c : c = Ended(e, o)
    OBVIOUS
  <2>2. OnlyCall(r, c) /\ Update(e, calls[r].ver, row) /\ calls[r].ver = row0.version
    BY <1>2, <1>5, <2>1, WriteAndEndSplit
  <2>3. c \in Call /\ c.exec = e /\ c.kind = None
    BY <1>1, <1>2, EndedIsCall
  <2>4. ShapeOK(c, r) /\ CallOK(c, records'[e], procs[e], Mark(e))
    BY <1>1, <1>2, EndedOK
  <2>5. procs[e].pidfile /\ row0.exit = None
    BY <1>1, <1>2, <2>2 DEF ObserveOK
  <2>6. RecordOK(row, procs[e], Mark(e)) /\ procs[e].sup # "none"
    BY <1>2, <2>1, <2>5 DEF RecordOK, ProcessOK
  <2> QED  BY <1>1, <1>2, <2>1, <2>2, <2>3, <2>4, <2>5, <2>6, WriteKept
<1> QED  BY <1>3, <1>4, <1>5 DEF MarkStillRunning, Exec

(* A recovery mark: over the record that was inspected, and lost only when  *)
(* the process is over without a result or was never started.               *)
LEMMA MarkLostKept ==
  ASSUME RunInv, NEW r \in Reconcilers, MarkLost(r)
  PROVE  RunInv'
<1> PICK e : e = calls[r].exec
  OBVIOUS
<1> PICK row0 : row0 = records[e]
  OBVIOUS
<1> PICK o : o = "RECOVERY_REQUIRED"
  OBVIOUS
<1>1. procs' = procs /\ calls[r].at = "marklost" /\ o \in Outcomes \ Reported
  BY DEF MarkLost, Outcomes, Reported, Successes
<1>2. /\ r \in Actors /\ r \notin Runners /\ e \in Execs /\ e # None /\ calls[r].at \in Steps \ Unbound
      /\ calls[r].kind = None /\ row0 \in ExecutionRecord /\ row0.version \in Nat
      /\ procs[e] \in Process /\ ProcessOK(procs[e])
      /\ RecordOK(row0, procs[e], Mark(e)) /\ ObserveOK(calls[r], row0, procs[e])
  BY <1>1, ReconcilerBound
<1>3. CASE calls[r].state = "RECOVERY_REQUIRED"
  <2>1. End(r, o) /\ UNCHANGED <<records, procs, lost>>
    BY <1>1, <1>3 DEF MarkLost
  <2> QED  BY <1>1, <1>2, <2>1, EndKept
<1>4. CASE calls[r].state # "RECOVERY_REQUIRED"
  <2> PICK row : row = [row0 EXCEPT !.state = "RECOVERY_REQUIRED"]
    OBVIOUS
  <2>1. row \in ExecutionRecord /\ row.state = "RECOVERY_REQUIRED" /\ row.exit = row0.exit
        /\ row.pid = row0.pid
    BY <1>2 DEF ExecutionRecord, ExecutionProcessState
  <2>2. /\ WriteAndEnd(r, row, o, "BLOCKED")
        /\ lost' = IF row0.version = calls[r].ver /\ calls[r].seen = "LOST"
                   THEN lost \cup {e} ELSE lost
    BY <1>4 DEF MarkLost, Exec
  <2>3. CASE row0.version # calls[r].ver
    <3>1. End(r, "BLOCKED") /\ UNCHANGED <<records, procs, lost>>
      BY <1>1, <2>2, <2>3 DEF WriteAndEnd, Exec
    <3> QED  BY <1>2, <3>1, EndKept DEF Outcomes, Reported, Successes
  <2>4. CASE row0.version = calls[r].ver
    <3> PICK c : c = Ended(e, o)
      OBVIOUS
    <3>1. OnlyCall(r, c) /\ Update(e, calls[r].ver, row)
      BY <2>2, <2>4 DEF WriteAndEnd, Exec, End, OnlyCall, Ended
    <3>2. c \in Call /\ c.exec = e /\ c.kind = None
      BY <1>1, <1>2, EndedIsCall
    <3>3. RunTypeOK
      BY DEF RunInv
    <3>4. \A v, w : w \in ExecutionRecord /\ Update(e, v, w) =>
            /\ records' \in [Execs -> ExecutionRecord \cup {None}]
            /\ \A f \in Execs : f # e => records'[f] = records[f]
            /\ records'[e] # None
            /\ records'[e].version = records[e].version + 1
            /\ records'[e].state = w.state /\ records'[e].exit = w.exit /\ records'[e].pid = w.pid
      BY <1>2, <3>3, Updated
    <3>5. /\ records' \in [Execs -> ExecutionRecord \cup {None}]
          /\ \A f \in Execs : f # e => records'[f] = records[f]
          /\ records'[e] # None
          /\ records'[e].version = row0.version + 1
          /\ records'[e].state = "RECOVERY_REQUIRED" /\ records'[e].exit = row0.exit
          /\ records'[e].pid = row0.pid
      <4>1. row \in ExecutionRecord /\ Update(e, calls[r].ver, row)
        BY <2>1, <3>1
      <4>2. /\ records' \in [Execs -> ExecutionRecord \cup {None}]
            /\ \A f \in Execs : f # e => records'[f] = records[f]
            /\ records'[e] # None
            /\ records'[e].version = records[e].version + 1
            /\ records'[e].state = row.state /\ records'[e].exit = row.exit /\ records'[e].pid = row.pid
        BY <3>4, <4>1
      <4> QED  BY <2>1, <4>2
    <3>6. lost' \subseteq Execs /\ \A f \in Execs \ {e} : f \in lost' <=> f \in lost
      BY <1>2, <2>2, <3>3 DEF RunTypeOK
    <3>7. calls' \in [Actors -> Call]
      BY <1>2, <3>1, <3>2, <3>3 DEF RunTypeOK, OnlyCall
    <3>8. RunTypeOK' /\ OnlyExec(e)
      BY <1>1, <3>3, <3>5, <3>6, <3>7 DEF RunTypeOK, OnlyExec
    <3> PICK mark2 : mark2 = Mark(e)'
      OBVIOUS
    <3>9. IF calls[r].seen = "LOST" THEN mark2 = "lost" ELSE mark2 = Mark(e)
      BY <2>2, <2>4 DEF Mark
    <3>10. row0.state # "RECOVERY_REQUIRED"
      BY <1>1, <1>2, <1>4, <2>4 DEF ObserveOK, Pinned
    <3>11. calls[r].seen = "LOST" =>
             \/ procs[e].sup = "dead" /\ procs[e].result = None
             \/ row0.state # "STARTING" /\ procs[e].sup = "none" /\ procs[e].result = None
      BY <1>1, <1>2, <2>4, <3>10 DEF ObserveOK, ProcessOK
    <3>12. calls[r].seen # "LOST" => procs[e].sup # "none"
      BY <1>1, <1>2 DEF ObserveOK, ProcessOK
    <3>13. RecordOK(records'[e], procs[e], mark2)
      BY <1>2, <3>5, <3>9, <3>11 DEF RecordOK
    <3>14. ExecOK(records'[e], procs'[e], mark2)
      BY <1>1, <1>2, <3>5, <3>13 DEF ExecOK
    <3>15. Evolves(records[e], procs[e], Mark(e), records'[e], procs'[e], mark2)
      BY <1>1, <3>5 DEF Evolves
    <3>16. Undisturbed(records[e], procs[e], Mark(e), records'[e], procs'[e], mark2)
      BY <1>1, <3>5, <3>11, <3>12 DEF Undisturbed
    <3>17. ShapeOK(c, r) /\ CallOK(c, records'[e], procs'[e], mark2)
      BY <1>1, <1>2, EndedOK
    <3> QED  BY <1>2, <3>1, <3>2, <3>5, <3>8, <3>14, <3>15, <3>16, <3>17, CallChangesExec
  <2> QED  BY <2>3, <2>4
<1> QED  BY <1>3, <1>4

-------------------------------------------------------------------------------
(* Markers, promoters and supervisors *)

(* A record is changed by something that is no call. *)
LEMMA MarkedKept ==
  ASSUME RunInv, NEW e \in Execs, NEW v, NEW row \in ExecutionRecord, Update(e, v, row),
         UNCHANGED <<procs, calls, lost>>,
         RecordOK(row, procs[e], Mark(e)), records[e].exit # None => row.exit # None,
         procs[e].sup = "none" => row.state = records[e].state
  PROVE  RunInv'
<1>1. RunTypeOK
  BY DEF RunInv
<1>2. /\ records[e] # None
      /\ records' \in [Execs -> ExecutionRecord \cup {None}]
      /\ \A f \in Execs : f # e => records'[f] = records[f]
      /\ records'[e] # None
      /\ records'[e].version = records[e].version + 1
      /\ records'[e].state = row.state /\ records'[e].exit = row.exit
      /\ records'[e].pid = row.pid
  BY <1>1, Updated
<1>3. RunTypeOK' /\ OnlyExec(e) /\ Mark(e)' = Mark(e)
  BY <1>1, <1>2 DEF RunTypeOK, OnlyExec, Mark
<1>4. ProcessOK(procs[e]) /\ procs'[e] = procs[e]
  BY DEF RunInv, OfExec, ExecOK
<1>5. RecordOK(records'[e], procs[e], Mark(e))
  BY <1>2 DEF RecordOK
<1>6. ExecOK(records'[e], procs'[e], Mark(e))
  BY <1>2, <1>4, <1>5 DEF ExecOK
<1>7. Evolves(records[e], procs[e], Mark(e), records'[e], procs'[e], Mark(e))
  BY <1>2, <1>4 DEF Evolves
<1>8. Undisturbed(records[e], procs[e], Mark(e), records'[e], procs'[e], Mark(e))
  BY <1>2, <1>4 DEF Undisturbed
<1> QED  BY <1>2, <1>3, <1>6, <1>7, <1>8, WorldMoves

(* A transport mark changes the transport. *)
LEMMA MarkTransportKept ==
  ASSUME RunInv, NEW e \in Execs, NEW target \in TransportState, MarkTransport(e, target)
  PROVE  RunInv'
<1> PICK row0 : row0 = records[e]
  OBVIOUS
<1>1. UNCHANGED <<procs, calls, lost>> /\ row0 # None
  BY DEF MarkTransport
<1>2. row0 \in ExecutionRecord /\ RecordOK(row0, procs[e], Mark(e))
  BY <1>1 DEF RunInv, RunTypeOK, OfExec, ExecOK
<1> PICK row : row = [row0 EXCEPT !.transport = target]
  OBVIOUS
<1>3. row \in ExecutionRecord /\ row.state = row0.state /\ row.exit = row0.exit /\ row.pid = row0.pid
  BY <1>2 DEF ExecutionRecord
<1> PICK v : v = row0.version
  OBVIOUS
<1>4. Update(e, v, row)
  BY DEF MarkTransport, SetTransportState
<1>5. RecordOK(row, procs[e], Mark(e))
  BY <1>2, <1>3 DEF RecordOK
<1> QED  BY <1>1, <1>3, <1>4, <1>5, MarkedKept

(* A verified result is promoted. *)
LEMMA PromoteKept ==
  ASSUME RunInv, NEW e \in Execs, Promote(e)
  PROVE  RunInv'
<1> PICK row0 : row0 = records[e]
  OBVIOUS
<1>1. UNCHANGED <<procs, calls, lost>> /\ row0 # None /\ Promotable(row0)
  BY DEF Promote
<1>2. row0 \in ExecutionRecord /\ RecordOK(row0, procs[e], Mark(e)) /\ ProcessOK(procs[e])
  BY <1>1 DEF RunInv, RunTypeOK, OfExec, ExecOK
<1> PICK row : row = [row0 EXCEPT !.state = "SUCCEEDED"]
  OBVIOUS
<1>3. row \in ExecutionRecord /\ row.state = "SUCCEEDED" /\ row.exit = row0.exit /\ row.pid = row0.pid
  BY <1>2 DEF ExecutionRecord, ExecutionProcessState
<1> PICK v : v = row0.version
  OBVIOUS
<1>4. Update(e, v, row)
  BY DEF Promote, SetExecutionState
<1>5. procs[e].result = 0
  BY <1>1, <1>2 DEF RecordOK, Promotable
<1>6. procs[e].sup # "none"
  BY <1>2, <1>5, RunAssumption DEF ProcessOK
<1>7. RecordOK(row, procs[e], Mark(e))
  BY <1>2, <1>3, <1>5, <1>6, RunAssumption DEF RecordOK
<1> QED  BY <1>1, <1>3, <1>4, <1>6, <1>7, MarkedKept

(* A supervisor that runs goes on: its child, its result, its end. *)
LEMMA SupervisedKept ==
  ASSUME RunInv, NEW e \in Execs, procs[e].sup = "alive", NEW p \in Process,
         procs' = [procs EXCEPT ![e] = p], UNCHANGED <<records, calls, lost>>,
         p.sup # "none", p.pidfile = procs[e].pidfile,
         p.child # procs[e].child => procs[e].child = None,
         p.result # procs[e].result => procs[e].result = None /\ procs[e].child # None /\ p.sup = "alive"
  PROVE  RunInv'
<1>1. procs[e] \in Process /\ records[e] # None /\ ProcessOK(procs[e])
      /\ RecordOK(records[e], procs[e], Mark(e))
  BY DEF RunInv, RunTypeOK, OfExec, ExecOK
<1>2. procs'[e] = p /\ procs' \in [Execs -> Process] /\ OnlyExec(e)
  BY DEF RunInv, RunTypeOK, OnlyExec
<1>3. RunTypeOK' /\ records'[e] = records[e] /\ Mark(e)' = Mark(e)
  BY <1>2 DEF RunInv, RunTypeOK, Mark
<1>4. ProcessOK(p)
  BY <1>1 DEF ProcessOK
<1>5. records[e].exit # None => p.result = procs[e].result /\ p.child = procs[e].child
  BY <1>1 DEF RecordOK, ProcessOK
<1>6. records[e].state \in {"VERIFICATION_REQUIRED", "SUCCEEDED", "FAILED"} => p.result = procs[e].result
  BY <1>1, RunAssumption DEF RecordOK
<1>61. records[e].pid # None => p.child = procs[e].child
  BY <1>1 DEF RecordOK
<1>7. RecordOK(records[e], p, Mark(e))
  BY <1>1, <1>5, <1>6, <1>61 DEF RecordOK
<1>8. ExecOK(records'[e], procs'[e], Mark(e))
  BY <1>1, <1>2, <1>3, <1>4, <1>7 DEF ExecOK
<1>9. Evolves(records[e], procs[e], Mark(e), records'[e], procs'[e], Mark(e))
  BY <1>2, <1>3 DEF Evolves
<1>10. Undisturbed(records[e], procs[e], Mark(e), records'[e], procs'[e], Mark(e))
  BY DEF Undisturbed
<1> QED  BY <1>1, <1>2, <1>3, <1>8, <1>9, <1>10, WorldMoves

(* The child is spawned. *)
LEMMA SpawnChildKept ==
  ASSUME RunInv, NEW e \in Execs, SpawnChild(e)
  PROVE  RunInv'
<1>1. procs[e].sup = "alive" /\ procs[e].child = None /\ UNCHANGED <<records, calls, lost>>
      /\ procs[e] \in Process
  BY DEF SpawnChild, storeVars, RunInv, RunTypeOK
<1>2. PICK q \in Pids : procs' = [procs EXCEPT ![e].child = q]
  BY DEF SpawnChild
<1> PICK p : p = [procs[e] EXCEPT !.child = q]
  OBVIOUS
<1>3. p \in Process /\ p.sup = "alive" /\ p.pidfile = procs[e].pidfile /\ p.result = procs[e].result
  BY <1>1 DEF Process
<1>4. procs' = [procs EXCEPT ![e] = p]
  BY <1>2
<1> QED  BY <1>1, <1>3, <1>4, SupervisedKept

(* The result file is written. *)
LEMMA WriteResultKept ==
  ASSUME RunInv, NEW e \in Execs, WriteResult(e)
  PROVE  RunInv'
<1>1. procs[e].sup = "alive" /\ procs[e].child # None /\ procs[e].result = None
      /\ UNCHANGED <<records, calls, lost>> /\ procs[e] \in Process
  BY DEF WriteResult, storeVars, RunInv, RunTypeOK
<1>2. PICK q \in {0, 1} : procs' = [procs EXCEPT ![e].result = q]
  BY DEF WriteResult
<1> PICK p : p = [procs[e] EXCEPT !.result = q]
  OBVIOUS
<1>3. p \in Process /\ p.sup = "alive" /\ p.pidfile = procs[e].pidfile /\ p.child = procs[e].child
  BY <1>1, <1>2 DEF Process
<1>4. procs' = [procs EXCEPT ![e] = p]
  BY <1>2
<1> QED  BY <1>1, <1>3, <1>4, SupervisedKept

(* The supervisor ends, with or without a result. *)
LEMMA SupervisorExitsKept ==
  ASSUME RunInv, NEW e \in Execs, SupervisorExits(e)
  PROVE  RunInv'
<1>1. procs[e].sup = "alive" /\ UNCHANGED <<records, calls, lost>> /\ procs[e] \in Process
      /\ procs' = [procs EXCEPT ![e].sup = "dead"]
  BY DEF SupervisorExits, storeVars, RunInv, RunTypeOK
<1> PICK p : p = [procs[e] EXCEPT !.sup = "dead"]
  OBVIOUS
<1>2. p \in Process /\ p.sup = "dead" /\ p.pidfile = procs[e].pidfile /\ p.child = procs[e].child
      /\ p.result = procs[e].result
  BY <1>1 DEF Process
<1>3. procs' = [procs EXCEPT ![e] = p]
  BY <1>1
<1> QED  BY <1>1, <1>2, <1>3, SupervisedKept

(* A call is forgotten: it has returned, or its process died. *)
LEMMA ForgottenKept ==
  ASSUME RunInv, NEW a \in Actors, Return(a) \/ Crash(a)
  PROVE  RunInv'
<1>1. UNCHANGED <<records, procs, lost>> /\ OnlyCall(a, Idle)
  BY DEF Return, Crash, storeVars, OnlyCall
<1> PICK c : c = Idle
  OBVIOUS
<1>2. c \in Call /\ c.at = "idle" /\ c.exec = None /\ c.kind = None
  BY RunAssumption DEF Idle, Call
<1>3. "idle" \notin Steps \cup Unbound \cup Reported
  BY DEF Steps, Unbound, Reported, Successes
<1>4. ShapeOK(c, a)
  BY <1>2, <1>3 DEF ShapeOK, Unbound
<1>5. c.kind # "FRESH"
  BY <1>2, RunAssumption DEF Successes
<1> QED  BY <1>1, <1>2, <1>4, <1>5, CallMoves

-------------------------------------------------------------------------------
(* The invariant *)

(* Nothing is recorded, running or called at first. *)
LEMMA RunInitInv == RunInit => RunInv
<1> SUFFICES ASSUME RunInit PROVE RunInv
  OBVIOUS
<1> PICK i : i = Idle
  OBVIOUS
<1> PICK p : p = NoProcess
  OBVIOUS
<1>1. i \in Call /\ i.at = "idle" /\ i.exec = None /\ i.kind = None
  BY RunAssumption DEF Idle, Call
<1>2. p \in Process /\ p.sup = "none" /\ ~p.pidfile /\ p.child = None /\ p.result = None
  BY DEF NoProcess, Process
<1>3. /\ records = [e \in Execs |-> None] /\ procs = [e \in Execs |-> p]
      /\ calls = [a \in Actors |-> i] /\ lost = {}
  BY DEF RunInit, StoreInit
<1>4. RunTypeOK
  BY <1>1, <1>2, <1>3 DEF RunTypeOK
<1>5. ASSUME NEW e \in Execs PROVE OfExec(e)
  <2>1. records[e] = None /\ procs[e] = p /\ Mark(e) # "lost"
    BY <1>3 DEF Mark
  <2> QED  BY <1>2, <2>1 DEF OfExec, ExecOK, ProcessOK
<1>6. ASSUME NEW a \in Actors PROVE OfCall(a)
  <2>1. calls[a] = i
    BY <1>3
  <2>2. "idle" \notin Steps \cup Unbound \cup Reported
    BY DEF Steps, Unbound, Reported, Successes
  <2>3. ShapeOK(i, a)
    BY <1>1, <2>2 DEF ShapeOK, Unbound
  <2> QED  BY <1>1, <2>1, <2>3 DEF OfCall
<1>7. ASSUME NEW a \in Actors, NEW b \in Actors PROVE Alone(a, b)
  <2>1. calls[a].kind # "FRESH"
    BY <1>1, <1>3, RunAssumption DEF Successes
  <2> QED  BY <2>1 DEF Alone
<1> QED  BY <1>4, <1>5, <1>6, <1>7 DEF RunInv

(* A step in which nothing changes. *)
LEMMA RunStutterKept ==
  ASSUME RunInv, UNCHANGED runVars
  PROVE  RunInv'
<1>1. UNCHANGED <<records, procs, calls, lost>>
  BY DEF runVars
<1>2. \A e \in Execs : Mark(e)' = Mark(e)
  BY <1>1 DEF Mark
<1>3. RunTypeOK' /\ (\A e \in Execs : OfExec(e)') /\ (\A a, b \in Actors : Alone(a, b)')
  BY <1>1, <1>2 DEF RunInv, RunTypeOK, OfExec, Alone
<1>4. ASSUME NEW a \in Actors PROVE OfCall(a)'
  <2>1. OfCall(a) /\ calls[a].exec \in Execs \cup {None}
    BY DEF RunInv, RunTypeOK, Call
  <2> QED  BY <1>1, <1>2, <2>1 DEF OfCall
<1> QED  BY <1>3, <1>4 DEF RunInv

(* Every step keeps the invariant. *)
LEMMA RunStepKept ==
  ASSUME RunInv, [RunNext]_runVars
  PROVE  RunInv'
<1>1. CASE \E r \in Runners : BeginRun(r)
  BY <1>1, BeginRunKept
<1>2. CASE \E r \in Reconcilers : BeginReconcile(r)
  BY <1>2, BeginReconcileKept
<1>3. ASSUME NEW r \in Runners, RunnerStep(r) PROVE RunInv'
  BY <1>3, AssessKept, FreshKept, CreateRecordKept, SetStartingKept, StartKept, WritePidFileKept,
     ReadChildPidKept, SetPidKept, SetRunningKept, GetVersionKept DEF RunnerStep
<1>4. ASSUME NEW r \in Reconcilers, ReconcilerStep(r) PROVE RunInv'
  BY <1>4, ConnectKept, CompareRepositoryKept, MarkStillRunningKept, MarkLostKept DEF ReconcilerStep
<1>5. ASSUME NEW a \in Actors, SharedStep(a) PROVE RunInv'
  BY <1>5, MarkRecoveryKept, CheckKept, ObserveKept, RecheckKept, CollectKept, MarkUncollectedKept, CollectPidKept,
     CollectResultKept, CollectStateKept DEF SharedStep
<1>6. ASSUME NEW a \in Actors, Step(a) \/ Return(a) \/ Crash(a) PROVE RunInv'
  BY <1>3, <1>4, <1>5, <1>6, ForgottenKept DEF Step
<1>7. CASE \E e \in Execs : \E target \in TransportState \ {"CONNECTED"} : MarkTransport(e, target)
  BY <1>7, MarkTransportKept
<1>8. CASE \E e \in Execs : Promote(e) \/ SpawnChild(e) \/ WriteResult(e) \/ SupervisorExits(e)
  BY <1>8, PromoteKept, SpawnChildKept, WriteResultKept, SupervisorExitsKept
<1>9. CASE UNCHANGED runVars
  BY <1>9, RunStutterKept
<1> QED  BY <1>1, <1>2, <1>6, <1>7, <1>8, <1>9 DEF RunNext

(* The supervised run keeps its invariant: for every execution the record   *)
(* and the process agree, and every call, wherever it has been overtaken,   *)
(* relies only on what is still so when its version is the stored one.      *)
THEOREM RunInvariant == RunSpec => []RunInv
<1>1. RunInv /\ [RunNext]_runVars => RunInv'
  BY RunStepKept
<1> QED  BY <1>1, RunInitInv, PTL DEF RunSpec

-------------------------------------------------------------------------------
(* What the steps do to the records and to the questions being asked *)

(* The rows that may follow a row: the same command, and once there is an   *)
(* exit code the same code and no live state.                               *)
Follows(row0, row) ==
  /\ row \in ExecutionRecord
  /\ row.fp = row0.fp
  /\ row0.exit # None =>
       row.exit = row0.exit /\ (row.state = row0.state \/ row.state \notin LiveStates)

RowStep ==
  \/ records' = records
  \/ \E e \in Execs : \E v, row : Update(e, v, row) /\ Follows(records[e], row)

(* A call that is about to create a record has looked for one. *)
Asking == {"fresh", "create"}

Asks ==
  \A r \in Runners :
    calls'[r].at \in Asking => calls[r].at \in Asking /\ calls'[r].fp = calls[r].fp

(* A call is at another step than those. *)
LEMMA CallAsks ==
  ASSUME RunInv, NEW a \in Actors, NEW c, OnlyCall(a, c), c.at \notin Asking
  PROVE  Asks
  BY DEF RunInv, RunTypeOK, OnlyCall, Asks, Actors

(* A call ends. *)
LEMMA EndAsks ==
  ASSUME RunInv, NEW a \in Actors, NEW o \in Outcomes, End(a, o)
  PROVE  Asks
<1> PICK e : e = calls[a].exec
  OBVIOUS
<1>1. e \in Execs \cup {None}
  BY DEF RunInv, RunTypeOK, Call
<1> PICK c : c = Ended(e, o)
  OBVIOUS
<1>2. c.at = o
  BY <1>1, EndedIsCall
<1>3. OnlyCall(a, c)
  BY DEF OnlyCall, End, Exec, Ended
<1>4. o \notin Asking
  BY DEF Outcomes, Successes, Asking
<1> QED  BY <1>2, <1>3, <1>4, CallAsks

(* A call goes on. *)
LEMMA GotoAsks ==
  ASSUME RunInv, NEW a \in Actors, NEW s \in Steps \ Asking, Goto(a, s)
  PROVE  Asks
<1>1. PICK c \in Call : OnlyCall(a, c) /\ c.at = s
  BY GotoIs
<1> QED  BY <1>1, CallAsks

(* A write by version. *)
LEMMA WriteFollows ==
  ASSUME RunInv, NEW a \in Actors, NEW e \in Execs, calls[a].exec = e,
         NEW row \in ExecutionRecord, NEW step \in Steps \ Asking, NEW failure \in Outcomes,
         Write(a, row, step, failure),
         records[e].version = calls[a].ver => Follows(records[e], row)
  PROVE  RowStep /\ Asks
<1>1. CASE End(a, failure) /\ UNCHANGED records
  BY <1>1, EndAsks DEF RowStep
<1>2. CASE ~(End(a, failure) /\ UNCHANGED records)
  <2>1. PICK c \in Call :
          /\ OnlyCall(a, c) /\ Update(e, calls[a].ver, row)
          /\ calls[a].ver = records[e].version
          /\ c.at = step
    BY <1>2, WriteSplit
  <2>2. Asks
    BY <2>1, CallAsks
  <2>3. RowStep
    BY <2>1 DEF RowStep
  <2> QED  BY <2>2, <2>3
<1> QED  BY <1>1, <1>2

(* A last write by version. *)
LEMMA WriteAndEndFollows ==
  ASSUME RunInv, NEW a \in Actors, NEW e \in Execs, calls[a].exec = e,
         NEW row \in ExecutionRecord, NEW outcome \in Outcomes, NEW failure \in Outcomes,
         WriteAndEnd(a, row, outcome, failure),
         records[e].version = calls[a].ver => Follows(records[e], row)
  PROVE  RowStep /\ Asks
<1>1. CASE End(a, failure) /\ UNCHANGED records
  BY <1>1, EndAsks DEF RowStep
<1>2. CASE ~(End(a, failure) /\ UNCHANGED records)
  <2>1. Update(e, calls[a].ver, row) /\ End(a, outcome) /\ records[e].version = calls[a].ver
    BY <1>2 DEF WriteAndEnd, Exec
  <2>2. Asks
    BY <2>1, EndAsks
  <2>3. RowStep
    BY <2>1 DEF RowStep
  <2> QED  BY <2>2, <2>3
<1> QED  BY <1>1, <1>2

(* The writes of launch: an execution that its creator still holds the      *)
(* version of has no exit code.                                             *)
LEMMA LaunchFollows ==
  ASSUME RunInv, NEW r \in Runners, SetStarting(r) \/ SetPid(r) \/ SetRunning(r)
  PROVE  RowStep /\ Asks
<1> PICK e : e = calls[r].exec
  OBVIOUS
<1> PICK row0 : row0 = records[e]
  OBVIOUS
<1>1. r \in Actors /\ calls[r].at \in {"starting", "setpid", "running"}
  BY DEF Actors, SetStarting, SetPid, SetRunning
<1>2. calls[r].at \in Steps \ Unbound /\ calls[r].at \in Launching
  BY <1>1 DEF Steps, Unbound, Launching
<1>3. /\ e \in Execs /\ row0 \in ExecutionRecord /\ procs[e] \in Process
      /\ LaunchOK(calls[r], row0, procs[e], Mark(e))
  BY <1>1, <1>2, Bound
<1>4. row0.version = calls[r].ver => row0.exit = None
  BY <1>2, <1>3 DEF LaunchOK
<1>5. ASSUME NEW row \in ExecutionRecord, row.fp = row0.fp, NEW s \in {"start", "running", "check"},
             Write(r, row, s, "RAISED")
      PROVE  RowStep /\ Asks
  <2>1. s \in Steps \ Asking /\ "RAISED" \in Outcomes
    BY <1>5 DEF Steps, Asking, Outcomes
  <2>2. row0.version = calls[r].ver => Follows(row0, row)
    BY <1>4, <1>5 DEF Follows
  <2> QED  BY <1>1, <1>3, <1>5, <2>1, <2>2, WriteFollows
<1>6. CASE SetStarting(r)
  <2> PICK row : row = [row0 EXCEPT !.state = "STARTING"]
    OBVIOUS
  <2>1. row \in ExecutionRecord /\ row.fp = row0.fp
    BY <1>3 DEF ExecutionRecord, ExecutionProcessState
  <2>2. Write(r, row, "start", "RAISED")
    BY <1>6 DEF SetStarting, Exec
  <2> QED  BY <1>5, <2>1, <2>2
<1>7. CASE SetPid(r)
  <2> PICK row : row = [row0 EXCEPT !.pid = procs[e].child]
    OBVIOUS
  <2>1. row \in ExecutionRecord /\ row.fp = row0.fp
    BY <1>3 DEF ExecutionRecord, Process
  <2>2. Write(r, row, "running", "RAISED")
    BY <1>7 DEF SetPid, Exec, SetProcessMetadata
  <2> QED  BY <1>5, <2>1, <2>2
<1>8. CASE SetRunning(r)
  <2> PICK row : row = [row0 EXCEPT !.state = "RUNNING"]
    OBVIOUS
  <2>1. row \in ExecutionRecord /\ row.fp = row0.fp
    BY <1>3 DEF ExecutionRecord, ExecutionProcessState
  <2>2. Write(r, row, "check", "RAISED")
    BY <1>8 DEF SetRunning, Exec
  <2> QED  BY <1>5, <2>1, <2>2
<1> QED  BY <1>6, <1>7, <1>8

(* The writes of a collection and a recovery mark: the exit code is the one *)
(* of the result file, and no state they write is live.                     *)
LEMMA CollectFollows ==
  ASSUME RunInv, NEW a \in Actors,
         MarkRecovery(a) \/ MarkUncollected(a) \/ CollectPid(a) \/ CollectResult(a) \/ CollectState(a)
  PROVE  RowStep /\ Asks
<1> PICK e : e = calls[a].exec
  OBVIOUS
<1> PICK row0 : row0 = records[e]
  OBVIOUS
<1>1. calls[a].at \in {"recover", "unreadable", "mismatch", "collectpid", "collectresult", "collectstate"}
  BY DEF MarkRecovery, MarkUncollected, CollectPid, CollectResult, CollectState
<1>2. calls[a].at \in Steps \ Unbound
  BY <1>1 DEF Steps, Unbound
<1>3. /\ e \in Execs /\ row0 \in ExecutionRecord /\ procs[e] \in Process /\ calls[a] \in Call
      /\ ShapeOK(calls[a], a) /\ RecordOK(row0, procs[e], Mark(e))
  BY <1>2, Bound
<1>4. Conflict(a) \in Outcomes
  BY DEF Conflict, Outcomes
<1>41. a \in Runners => calls[a].kind \in Outcomes
  <2>1. calls[a].exec # None
    BY <1>3, RunAssumption
  <2>2. a \in Runners => calls[a].kind # None
    BY <1>2, <1>3, <2>1 DEF ShapeOK
  <2> QED  BY <1>3, <2>2 DEF Call, Outcomes
<1>5. CASE MarkRecovery(a) \/ MarkUncollected(a)
  <2> PICK row : row = [row0 EXCEPT !.state = "RECOVERY_REQUIRED"]
    OBVIOUS
  <2>1. row \in ExecutionRecord /\ row.fp = row0.fp /\ row.exit = row0.exit /\ row.state = "RECOVERY_REQUIRED"
    BY <1>3 DEF ExecutionRecord, ExecutionProcessState
  <2>2. \/ WriteAndEnd(a, row, "RECOVERY_REQUIRED", "RAISED")
        \/ WriteAndEnd(a, row, Uncollected(a), Conflict(a))
    BY <1>5 DEF MarkRecovery, MarkUncollected, Exec
  <2>3. /\ Follows(row0, row) /\ "RECOVERY_REQUIRED" \in Outcomes /\ "RAISED" \in Outcomes
        /\ Uncollected(a) \in Outcomes
    BY <1>41, <2>1 DEF Follows, LiveStates, Outcomes, Uncollected
  <2> QED  BY <1>3, <1>4, <2>1, <2>2, <2>3, WriteAndEndFollows
<1>6. CASE CollectPid(a)
  <2> PICK row : row = [row0 EXCEPT !.pid = procs[e].child]
    OBVIOUS
  <2>1. row \in ExecutionRecord /\ row.fp = row0.fp /\ row.exit = row0.exit /\ row.state = row0.state
    BY <1>3 DEF ExecutionRecord, Process
  <2>2. Write(a, row, "collectresult", Conflict(a))
    BY <1>6 DEF CollectPid, Exec, ChildResult, SetProcessMetadata
  <2>3. Follows(row0, row) /\ "collectresult" \in Steps \ Asking
    BY <2>1 DEF Follows, Steps, Asking
  <2> QED  BY <1>3, <1>4, <2>1, <2>2, <2>3, WriteFollows
<1>7. CASE CollectResult(a)
  <2> PICK row : row = [row0 EXCEPT !.exit = procs[e].result]
    OBVIOUS
  <2>1. row \in ExecutionRecord /\ row.fp = row0.fp /\ row.exit = procs[e].result /\ row.state = row0.state
    BY <1>3 DEF ExecutionRecord, Process
  <2>2. Write(a, row, "collectstate", Conflict(a))
    BY <1>7 DEF CollectResult, Exec, ChildResult, SetResultMetadata
  <2>3. Follows(row0, row) /\ "collectstate" \in Steps \ Asking
    BY <1>3, <2>1 DEF Follows, RecordOK, Steps, Asking
  <2> QED  BY <1>3, <1>4, <2>1, <2>2, <2>3, WriteFollows
<1>8. CASE CollectState(a)
  <2> PICK s : s = CollectedState(procs[e].result)
    OBVIOUS
  <2> PICK row : row = [row0 EXCEPT !.state = s]
    OBVIOUS
  <2>1. s \in ExecutionProcessState \ LiveStates
    BY DEF CollectedState, ExecutionProcessState, LiveStates
  <2>2. row \in ExecutionRecord /\ row.fp = row0.fp /\ row.exit = row0.exit /\ row.state = s
    BY <1>3, <2>1 DEF ExecutionRecord
  <2>3. PICK o \in IF a \in Runners THEN {calls[a].kind}
                   ELSE {"BLOCKED", IF procs[e].result = 0 THEN "VERIFY_RESULT" ELSE "REVIEW_FAILURE"} :
          WriteAndEnd(a, row, o, Conflict(a))
    BY <1>8 DEF CollectState, Exec, ChildResult
  <2>4. o \in Outcomes
    BY <1>41, <2>3 DEF Outcomes
  <2>5. Follows(row0, row)
    BY <2>1, <2>2 DEF Follows
  <2> QED  BY <1>3, <1>4, <2>2, <2>3, <2>4, <2>5, WriteAndEndFollows
<1> QED  BY <1>5, <1>6, <1>7, <1>8

(* The writes of a reconciliation: a record is made live over the version   *)
(* that was inspected, which has no exit code.                              *)
LEMMA ReconcileFollows ==
  ASSUME RunInv, NEW r \in Reconcilers, ReconcilerStep(r)
  PROVE  RowStep /\ Asks
<1> PICK e : e = calls[r].exec
  OBVIOUS
<1> PICK row0 : row0 = records[e]
  OBVIOUS
<1>1. calls[r].at \in {"connect", "compare", "stillrunning", "marklost"}
  BY DEF ReconcilerStep, Connect, CompareRepository, MarkStillRunning, MarkLost
<1>2. /\ r \in Actors /\ e \in Execs /\ row0 \in ExecutionRecord /\ calls[r].kind = None
      /\ ObserveOK(calls[r], row0, procs[e])
  BY <1>1, ReconcilerBound
<1>3. {"BLOCKED", "MONITOR_ORIGINAL", "RECOVERY_REQUIRED"} \subseteq Outcomes
      /\ {"compare", "check"} \subseteq Steps \ Asking
  BY DEF Outcomes, Steps, Asking
<1>4. ASSUME NEW o \in {"BLOCKED", "MONITOR_ORIGINAL", "RECOVERY_REQUIRED"}, End(r, o), UNCHANGED records
      PROVE  RowStep /\ Asks
  BY <1>2, <1>3, <1>4, EndAsks DEF RowStep
<1>5. ASSUME NEW s \in {"compare", "check"}, Goto(r, s), UNCHANGED records
      PROVE  RowStep /\ Asks
  BY <1>2, <1>3, <1>5, GotoAsks DEF RowStep
<1>6. CASE Connect(r)
  <2> PICK row : row = [row0 EXCEPT !.transport = "CONNECTED"]
    OBVIOUS
  <2>1. row \in ExecutionRecord /\ row.fp = row0.fp /\ row.exit = row0.exit /\ row.state = row0.state
    BY <1>2 DEF ExecutionRecord, TransportState
  <2>2. Follows(row0, row)
    BY <2>1 DEF Follows
  <2>3. CASE Write(r, row, "compare", "BLOCKED")
    BY <1>2, <1>3, <2>1, <2>2, <2>3, WriteFollows
  <2> QED  BY <1>4, <1>5, <1>6, <2>3 DEF Connect, Exec
<1>7. CASE CompareRepository(r)
  BY <1>4, <1>5, <1>7 DEF CompareRepository, storeVars
<1>8. CASE MarkStillRunning(r)
  <2> PICK row : row = [row0 EXCEPT !.state = "PROCESS_STILL_RUNNING"]
    OBVIOUS
  <2>1. row \in ExecutionRecord /\ row.fp = row0.fp /\ row.exit = row0.exit
    BY <1>2 DEF ExecutionRecord, ExecutionProcessState
  <2>2. row0.version = calls[r].ver => row0.exit = None
    BY <1>2, <1>8 DEF ObserveOK, MarkStillRunning
  <2>3. row0.version = calls[r].ver => Follows(row0, row)
    BY <2>1, <2>2 DEF Follows
  <2>4. CASE WriteAndEnd(r, row, "MONITOR_ORIGINAL", "BLOCKED")
    BY <1>2, <1>3, <2>1, <2>3, <2>4, WriteAndEndFollows
  <2> QED  BY <1>4, <1>8, <2>4 DEF MarkStillRunning, Exec
<1>9. CASE MarkLost(r)
  <2> PICK row : row = [row0 EXCEPT !.state = "RECOVERY_REQUIRED"]
    OBVIOUS
  <2>1. row \in ExecutionRecord /\ row.fp = row0.fp /\ row.exit = row0.exit /\ row.state = "RECOVERY_REQUIRED"
    BY <1>2 DEF ExecutionRecord, ExecutionProcessState
  <2>2. Follows(row0, row)
    BY <2>1 DEF Follows, LiveStates
  <2>3. CASE WriteAndEnd(r, row, "RECOVERY_REQUIRED", "BLOCKED")
    BY <1>2, <1>3, <2>1, <2>2, <2>3, WriteAndEndFollows
  <2> QED  BY <1>4, <1>9, <2>3 DEF MarkLost, Exec
<1> QED  BY <1>6, <1>7, <1>8, <1>9 DEF ReconcilerStep

(* A verdict moves a call, and no call goes back to asking. *)
LEMMA ResolveAsks ==
  ASSUME RunInv, NEW a \in Actors, NEW verdict, Resolve(a, verdict)
  PROVE  Asks
<1> PICK c0 : c0 = calls[a]
  OBVIOUS
<1>1. c0 \in Call
  BY DEF RunInv, RunTypeOK
<1>2. {"RECOVERY_REQUIRED", "TIMED_OUT", "MONITOR_ORIGINAL"} \subseteq Outcomes
      /\ {"get", "collect", "stillrunning"} \subseteq Steps \ Asking
      /\ "check" \notin Asking /\ "marklost" \notin Asking
  BY DEF Outcomes, Steps, Asking
<1>3. CASE \E o \in {"RECOVERY_REQUIRED", "TIMED_OUT", "MONITOR_ORIGINAL"} : End(a, o)
  BY <1>2, <1>3, EndAsks
<1>4. CASE \E s \in {"get", "collect", "stillrunning"} : Goto(a, s)
  BY <1>2, <1>4, GotoAsks
<1>5. ASSUME NEW polls, NEW unknown,
             calls' = [calls EXCEPT ![a].at = "check", ![a].polls = polls, ![a].unknown = unknown]
      PROVE  Asks
  <2> PICK c : c = [c0 EXCEPT !.at = "check", !.polls = polls, !.unknown = unknown]
    OBVIOUS
  <2>1. c.at = "check"
    BY <1>1 DEF Call
  <2>2. OnlyCall(a, c)
    BY <1>5 DEF OnlyCall
  <2> QED  BY <1>2, <2>1, <2>2, CallAsks
<1>6. CASE calls' = [calls EXCEPT ![a].at = "marklost", ![a].seen = verdict]
  <2> PICK c : c = [c0 EXCEPT !.at = "marklost", !.seen = verdict]
    OBVIOUS
  <2>1. c.at = "marklost"
    BY <1>1 DEF Call
  <2>2. OnlyCall(a, c)
    BY <1>6 DEF OnlyCall
  <2> QED  BY <1>2, <2>1, <2>2, CallAsks
<1>7. CASE RunnerResolves(a, verdict)
  <2> PICK p : p = calls[a].polls + 1
    OBVIOUS
  <2> PICK u : u = IF verdict = "UNKNOWN" THEN calls[a].unknown + 1 ELSE 0
    OBVIOUS
  <2>1. \/ Goto(a, "get") \/ End(a, "TIMED_OUT") \/ End(a, "RECOVERY_REQUIRED")
        \/ calls' = [calls EXCEPT ![a].at = "check", ![a].polls = p, ![a].unknown = u]
    BY <1>7, Zenon DEF RunnerResolves
  <2> QED  BY <1>3, <1>4, <1>5, <2>1
<1>8. CASE ReconcilerResolves(a, verdict)
  <2>1. \/ Goto(a, "collect") \/ End(a, "MONITOR_ORIGINAL") \/ Goto(a, "stillrunning")
        \/ calls' = [calls EXCEPT ![a].at = "marklost", ![a].seen = verdict]
    BY <1>8, Zenon DEF ReconcilerResolves
  <2> QED  BY <1>3, <1>4, <1>6, <2>1
<1> QED  BY <1>7, <1>8 DEF Resolve

(* An inspection. *)
LEMMA InspectAsks ==
  ASSUME RunInv, NEW a \in Actors, Check(a) \/ Observe(a) \/ Recheck(a)
  PROVE  Asks
<1> PICK c0 : c0 = calls[a]
  OBVIOUS
<1>1. c0 \in Call
  BY DEF RunInv, RunTypeOK
<1>2. {"RECOVERY_REQUIRED", "RAISED"} \subseteq Outcomes
      /\ "observe" \notin Asking /\ "recheck" \notin Asking
  BY DEF Outcomes, Asking
<1>3. ASSUME NEW s \in {"observe", "recheck"}, NEW seen,
             calls' = [calls EXCEPT ![a].at = s, ![a].seen = seen]
      PROVE  Asks
  <2> PICK c : c = [c0 EXCEPT !.at = s, !.seen = seen]
    OBVIOUS
  <2>1. c.at = s
    BY <1>1 DEF Call
  <2>2. OnlyCall(a, c)
    BY <1>3 DEF OnlyCall
  <2> QED  BY <1>2, <2>1, <2>2, CallAsks
<1>4. CASE \E verdict : Resolve(a, verdict)
  BY <1>4, ResolveAsks
<1>5. CASE End(a, "RECOVERY_REQUIRED") \/ End(a, "RAISED")
  BY <1>2, <1>5, EndAsks
<1>6. CASE Check(a)
  <2>1. (\E verdict : Resolve(a, verdict)) \/ End(a, "RECOVERY_REQUIRED") \/ End(a, "RAISED")
        \/ (\E seen : calls' = [calls EXCEPT ![a].at = "observe", ![a].seen = seen])
    BY <1>6, Zenon DEF Check
  <2> QED  BY <1>3, <1>4, <1>5, <2>1
<1>7. CASE Observe(a)
  <2>1. (\E verdict : Resolve(a, verdict))
        \/ (\E seen : calls' = [calls EXCEPT ![a].at = "recheck", ![a].seen = seen])
    BY <1>7, Zenon DEF Observe
  <2> QED  BY <1>3, <1>4, <2>1
<1>8. CASE Recheck(a)
  BY <1>4, <1>8 DEF Recheck
<1> QED  BY <1>6, <1>7, <1>8

(* The other steps of a run write nothing to the store. *)
LEMMA RunnerFollows ==
  ASSUME RunInv, NEW r \in Runners, Start(r) \/ WritePidFile(r) \/ ReadChildPid(r) \/ GetVersion(r)
  PROVE  RowStep /\ Asks
<1>1. r \in Actors /\ RowStep
  BY DEF Actors, RowStep, Start, WritePidFile, ReadChildPid, GetVersion, storeVars
<1>2. {"recover", "pidfile", "childpid", "setpid", "check"} \subseteq Steps \ Asking /\ "collect" \notin Asking
  BY DEF Steps, Asking
<1>3. CASE \E s \in {"recover", "pidfile", "childpid", "setpid", "check"} : Goto(r, s)
  BY <1>1, <1>2, <1>3, GotoAsks
<1>4. CASE GetVersion(r)
  <2> PICK c0 : c0 = calls[r]
    OBVIOUS
  <2> PICK v : v = records[Exec(r)].version
    OBVIOUS
  <2>1. c0 \in Call
    BY <1>1 DEF RunInv, RunTypeOK
  <2> PICK c : c = [c0 EXCEPT !.at = "collect", !.ver = v]
    OBVIOUS
  <2>2. c.at = "collect"
    BY <2>1 DEF Call
  <2>3. OnlyCall(r, c)
    BY <1>4 DEF OnlyCall, GetVersion
  <2> QED  BY <1>1, <1>2, <2>2, <2>3, CallAsks
<1> QED  BY <1>1, <1>3, <1>4 DEF Start, WritePidFile, ReadChildPid

(* The start of a collection. *)
LEMMA CollectAsks ==
  ASSUME RunInv, NEW a \in Actors, Collect(a)
  PROVE  Asks
<1>1. Conflict(a) \in Outcomes /\ {"unreadable", "mismatch", "collectpid"} \subseteq Steps \ Asking
  BY DEF Conflict, Outcomes, Steps, Asking
<1>2. CASE End(a, Conflict(a))
  BY <1>1, <1>2, EndAsks
<1>3. CASE \E s \in {"unreadable", "mismatch", "collectpid"} : Goto(a, s)
  BY <1>1, <1>3, GotoAsks
<1> QED  BY <1>2, <1>3 DEF Collect

(* A call begins, returns or dies. *)
LEMMA BeginAsks ==
  ASSUME RunInv, NEW a \in Actors, BeginRun(a) \/ BeginReconcile(a) \/ Return(a) \/ Crash(a)
  PROVE  RowStep /\ Asks
<1>1. RowStep
  BY DEF RowStep, BeginRun, BeginReconcile, Return, Crash, storeVars
<1> PICK i : i = Idle
  OBVIOUS
<1>2. i \in Call /\ i.at = "idle"
  BY RunAssumption DEF Idle, Call
<1>3. {"idle", "assess", "connect"} \cap Asking = {}
  BY DEF Asking
<1>4. CASE BeginRun(a)
  <2>1. PICK fp \in Fingerprints : calls' = [calls EXCEPT ![a] = [i EXCEPT !.at = "assess", !.fp = fp]]
    BY <1>4 DEF BeginRun
  <2> PICK c : c = [i EXCEPT !.at = "assess", !.fp = fp]
    OBVIOUS
  <2>2. c.at = "assess" /\ OnlyCall(a, c)
    BY <1>2, <2>1 DEF Call, OnlyCall
  <2> QED  BY <1>1, <1>3, <2>2, CallAsks
<1>5. CASE BeginReconcile(a)
  <2>1. PICK e \in Execs : calls' = [calls EXCEPT ![a] =
          [i EXCEPT !.at = "connect", !.exec = e, !.ver = records[e].version, !.state = records[e].state]]
    BY <1>5 DEF BeginReconcile
  <2> PICK v : v = records[e].version
    OBVIOUS
  <2> PICK s : s = records[e].state
    OBVIOUS
  <2> PICK c : c = [i EXCEPT !.at = "connect", !.exec = e, !.ver = v, !.state = s]
    OBVIOUS
  <2>2. c.at = "connect"
    BY <1>2 DEF Call
  <2>3. OnlyCall(a, c)
    BY <2>1 DEF OnlyCall
  <2> QED  BY <1>1, <1>3, <2>2, <2>3, CallAsks
<1>6. CASE Return(a) \/ Crash(a)
  <2>1. OnlyCall(a, i)
    BY <1>6 DEF OnlyCall, Return, Crash
  <2> QED  BY <1>1, <1>2, <1>3, <2>1, CallAsks
<1> QED  BY <1>4, <1>5, <1>6

(* What is no call. *)
LEMMA WorldFollows ==
  ASSUME RunInv, NEW e \in Execs,
         \/ \E target \in TransportState : MarkTransport(e, target)
         \/ Promote(e) \/ SpawnChild(e) \/ WriteResult(e) \/ SupervisorExits(e)
  PROVE  RowStep /\ Asks
<1>1. Asks
  BY DEF Asks, MarkTransport, Promote, SpawnChild, WriteResult, SupervisorExits
<1> PICK row0 : row0 = records[e]
  OBVIOUS
<1>2. row0 # None => row0 \in ExecutionRecord
  BY DEF RunInv, RunTypeOK
<1>3. CASE \E target \in TransportState : MarkTransport(e, target)
  <2>1. PICK target \in TransportState : MarkTransport(e, target)
    BY <1>3
  <2> PICK row : row = [row0 EXCEPT !.transport = target]
    OBVIOUS
  <2>2. Update(e, row0.version, row) /\ row0 # None
    BY <2>1 DEF MarkTransport, SetTransportState
  <2>3. row \in ExecutionRecord /\ row.fp = row0.fp /\ row.exit = row0.exit /\ row.state = row0.state
    BY <1>2, <2>2 DEF ExecutionRecord
  <2>4. Follows(row0, row)
    BY <2>3 DEF Follows
  <2> QED  BY <1>1, <2>2, <2>4 DEF RowStep
<1>4. CASE Promote(e)
  <2> PICK row : row = [row0 EXCEPT !.state = "SUCCEEDED"]
    OBVIOUS
  <2>1. Update(e, row0.version, row) /\ row0 # None
    BY <1>4 DEF Promote, SetExecutionState
  <2>2. row \in ExecutionRecord /\ row.fp = row0.fp /\ row.exit = row0.exit /\ row.state = "SUCCEEDED"
    BY <1>2, <2>1 DEF ExecutionRecord, ExecutionProcessState
  <2>3. Follows(row0, row)
    BY <2>2 DEF Follows, LiveStates
  <2> QED  BY <1>1, <2>1, <2>3 DEF RowStep
<1>5. CASE SpawnChild(e) \/ WriteResult(e) \/ SupervisorExits(e)
  BY <1>1, <1>5 DEF RowStep, SpawnChild, WriteResult, SupervisorExits, storeVars
<1> QED  BY <1>3, <1>4, <1>5

(* A step assesses a request, admits it, creates its record, or does        *)
(* neither to the records nor to the requests what these do.                *)
LEMMA StepCases ==
  ASSUME RunInv, [RunNext]_runVars
  PROVE  (RowStep /\ Asks) \/ \E r \in Runners : Assess(r) \/ Fresh(r) \/ CreateRecord(r)
<1>1. CASE \E r \in Runners : BeginRun(r)
  BY <1>1, BeginAsks DEF Actors
<1>2. CASE \E r \in Reconcilers : BeginReconcile(r)
  BY <1>2, BeginAsks DEF Actors
<1>3. ASSUME NEW r \in Runners, RunnerStep(r)
      PROVE  (RowStep /\ Asks) \/ Assess(r) \/ Fresh(r) \/ CreateRecord(r)
  BY <1>3, LaunchFollows, RunnerFollows DEF RunnerStep
<1>4. ASSUME NEW r \in Reconcilers, ReconcilerStep(r) PROVE RowStep /\ Asks
  BY <1>4, ReconcileFollows
<1>5. ASSUME NEW a \in Actors, SharedStep(a) PROVE RowStep /\ Asks
  <2>1. CASE Check(a) \/ Observe(a) \/ Recheck(a)
    BY <2>1, InspectAsks DEF Check, Observe, Recheck, storeVars, RowStep
  <2>2. CASE Collect(a)
    BY <2>2, CollectAsks DEF Collect, storeVars, RowStep
  <2> QED  BY <1>5, <2>1, <2>2, CollectFollows DEF SharedStep
<1>6. CASE \E a \in Actors : Step(a) \/ Return(a) \/ Crash(a)
  BY <1>3, <1>4, <1>5, <1>6, BeginAsks DEF Step
<1>7. CASE \E e \in Execs : \E target \in TransportState \ {"CONNECTED"} : MarkTransport(e, target)
  BY <1>7, WorldFollows
<1>8. CASE \E e \in Execs : Promote(e) \/ SpawnChild(e) \/ WriteResult(e) \/ SupervisorExits(e)
  BY <1>8, WorldFollows
<1>9. CASE UNCHANGED runVars
  BY <1>9 DEF runVars, RowStep, Asks
<1> QED  BY <1>1, <1>2, <1>6, <1>7, <1>8, <1>9 DEF RunNext

-------------------------------------------------------------------------------
(* What is collected is final *)

(* A row that follows keeps the exit code and does not come back to life. *)
LEMMA RowStepKeeps ==
  ASSUME RunInv, RowStep
  PROVE  /\ KeepsCollected
         /\ \A e \in Execs : records'[e] # None =>
              records[e] # None /\ records'[e].fp = records[e].fp
<1>1. CASE records' = records
  BY <1>1 DEF KeepsCollected
<1>2. CASE \E e \in Execs : \E v, row : Update(e, v, row) /\ Follows(records[e], row)
  <2>0. PICK e \in Execs : \E v, row : Update(e, v, row) /\ Follows(records[e], row)
    BY <1>2
  <2>1. PICK v, row : Update(e, v, row) /\ Follows(records[e], row)
    BY <2>0
  <2>2. RunTypeOK /\ row \in ExecutionRecord
    BY <2>1 DEF RunInv, Follows
  <2>3. /\ \A f \in Execs : f # e => records'[f] = records[f]
        /\ records[e] # None
        /\ records'[e].state = row.state /\ records'[e].exit = row.exit /\ records'[e].fp = row.fp
    BY <2>1, <2>2, Updated
  <2>4. /\ records'[e].fp = records[e].fp
        /\ records[e].exit # None =>
             /\ records'[e].exit = records[e].exit
             /\ records'[e].state = records[e].state \/ records'[e].state \notin LiveStates
    BY <2>1, <2>3 DEF Follows
  <2> QED  BY <2>3, <2>4 DEF KeepsCollected
<1> QED  BY <1>1, <1>2 DEF RowStep

(* A step keeps what was collected: the creation of a record is the only    *)
(* write of the store that is no update by version.                         *)
LEMMA StepKeepsCollected ==
  ASSUME RunInv, [RunNext]_runVars
  PROVE  KeepsCollected
<1>1. CASE RowStep
  BY <1>1, RowStepKeeps
<1>2. CASE \E r \in Runners : Assess(r) \/ Fresh(r)
  BY <1>2 DEF Assess, Fresh, storeVars, KeepsCollected
<1>3. CASE \E r \in Runners : CreateRecord(r)
  <2>1. PICK r \in Runners, e \in Execs : Create(e, NewRecord(calls[r].fp))
    BY <1>3 DEF CreateRecord
  <2> PICK row : row = NewRecord(calls[r].fp)
    OBVIOUS
  <2>2. records[e] = None /\ records' = [records EXCEPT ![e] = row]
    BY <2>1 DEF Create
  <2>3. \A f \in Execs : f # e => records'[f] = records[f]
    BY <2>2 DEF RunInv, RunTypeOK
  <2> QED  BY <2>2, <2>3 DEF KeepsCollected
<1> QED  BY <1>1, <1>2, <1>3, StepCases

(* What is collected is final: however long a launcher or a reconciler has  *)
(* been delayed, once the exit code is recorded no write changes it or      *)
(* brings a live state back (the compare and set of the store).             *)
THEOREM CollectedStaysFinal == RunSpec => CollectedIsFinal
<1>1. RunInv /\ [RunNext]_runVars => [KeepsCollected]_runVars
  BY StepKeepsCollected
<1> QED  BY <1>1, RunInvariant, PTL DEF RunSpec, CollectedIsFinal

-------------------------------------------------------------------------------
(* One request after the other *)

(* A call that has ended is at its outcome. *)
LEMMA EndIs ==
  ASSUME RunInv, NEW a \in Actors, NEW o \in Outcomes, End(a, o)
  PROVE  calls'[a].at = o
<1> PICK e : e = calls[a].exec
  OBVIOUS
<1>1. e \in Execs \cup {None}
  BY DEF RunInv, RunTypeOK, Call
<1> PICK c : c = Ended(e, o)
  OBVIOUS
<1>2. c.at = o
  BY <1>1, EndedIsCall
<1>3. calls' = [calls EXCEPT ![a] = c]
  BY DEF End, Exec, Ended
<1> QED  BY <1>2, <1>3 DEF RunInv, RunTypeOK

(* A request that is about to create a record has found none. *)
LEMMA AskedKept ==
  ASSUME RunInv, NEW r \in Runners, Assess(r) \/ Fresh(r),
         calls[r].at = "fresh" => \A e \in Execs : records[e] # None => records[e].fp # calls[r].fp,
         calls'[r].at \in {"fresh", "create"}
  PROVE  \A e \in Execs : records[e] # None => records[e].fp # calls'[r].fp
<1> PICK c0 : c0 = calls[r]
  OBVIOUS
<1>1. r \in Actors /\ c0 \in Call
  BY DEF Actors, RunInv, RunTypeOK
<1>2. ~End(r, "FAILED") /\ ~End(r, "BLOCKED")
  BY <1>1, EndIs DEF Outcomes
<1>3. ASSUME NEW s \in Steps, Goto(r, s) PROVE calls'[r].fp = c0.fp
  <2> PICK c : c = [c0 EXCEPT !.at = s]
    OBVIOUS
  <2> QED  BY <1>1, <1>3 DEF Goto, RunInv, RunTypeOK, Call
<1>4. "fresh" \in Steps /\ "create" \in Steps
  BY DEF Steps
<1>5. CASE Fresh(r)
  BY <1>2, <1>3, <1>4, <1>5 DEF Fresh
<1>6. CASE Assess(r) /\ Equivalent(r) = {}
  BY <1>3, <1>4, <1>6 DEF Assess, Equivalent, FindByFingerprint
<1>7. CASE Assess(r) /\ Equivalent(r) # {}
  <2>1. PICK e \in Equivalent(r) :
          \/ calls' = [calls EXCEPT ![r].at = "check", ![r].exec = e, ![r].kind = "ATTACH_RUNNING"]
          \/ calls' = [calls EXCEPT ![r].at = "check", ![r].exec = e, ![r].kind = "REUSE_COMPLETED"]
          \/ End(r, "BLOCKED")
    BY <1>7, Zenon DEF Assess
  <2> QED  BY <1>1, <1>2, <2>1 DEF RunInv, RunTypeOK, Call
<1> QED  BY <1>5, <1>6, <1>7

(* With one request after the other a command has one record. *)
LEMMA OneRecordKept ==
  ASSUME RunInv, OneRecord, [RunNext]_runVars
  PROVE  OneRecord'
<1> SUFFICES ASSUME OneAfterTheOther
             PROVE  /\ \A e, f \in Execs :
                         e # f /\ records'[e] # None /\ records'[f] # None => records'[e].fp # records'[f].fp
                    /\ \A r \in Runners : calls'[r].at \in {"fresh", "create"} =>
                         \A e \in Execs : records'[e] # None => records'[e].fp # calls'[r].fp
  BY DEF OneRecord, OneAfterTheOther
<1>1. /\ \A e, f \in Execs : e # f /\ records[e] # None /\ records[f] # None => records[e].fp # records[f].fp
      /\ \A r \in Runners : calls[r].at \in {"fresh", "create"} =>
           \A e \in Execs : records[e] # None => records[e].fp # calls[r].fp
  BY DEF OneRecord
<1>2. CASE RowStep /\ Asks
  <2>1. \A e \in Execs : records'[e] # None => records[e] # None /\ records'[e].fp = records[e].fp
    BY <1>2, RowStepKeeps
  <2> QED  BY <1>1, <1>2, <2>1 DEF Asks, Asking
<1>4. CASE \E r \in Runners : Assess(r) \/ Fresh(r)
  <2>1. PICK r \in Runners : Assess(r) \/ Fresh(r)
    BY <1>4
  <2>2. records' = records /\ \A s \in Runners : s = r
    BY <2>1 DEF Assess, Fresh, storeVars, OneAfterTheOther
  <2>3. calls'[r].at \in {"fresh", "create"} =>
          \A e \in Execs : records[e] # None => records[e].fp # calls'[r].fp
    BY <1>1, <2>1, AskedKept
  <2> QED  BY <1>1, <2>2, <2>3
<1>5. CASE \E r \in Runners : CreateRecord(r)
  <2>1. PICK r \in Runners, e \in Execs :
          /\ calls[r].at = "create" /\ Create(e, NewRecord(calls[r].fp))
          /\ calls' = [calls EXCEPT ![r].at = "starting", ![r].exec = e, ![r].kind = "FRESH", ![r].ver = 1]
    BY <1>5 DEF CreateRecord
  <2> PICK c0 : c0 = calls[r]
    OBVIOUS
  <2> PICK row : row = NewRecord(c0.fp)
    OBVIOUS
  <2>2. records[e] = None /\ records' = [records EXCEPT ![e] = row] /\ row.fp = c0.fp
    BY <2>1 DEF Create, NewRecord
  <2>3. records'[e] = row /\ \A f \in Execs : f # e => records'[f] = records[f]
    BY <2>2 DEF RunInv, RunTypeOK
  <2>4. \A f \in Execs : records[f] # None => records[f].fp # c0.fp
    BY <1>1, <2>1
  <2>5. r \in Actors /\ c0 \in Call
    BY DEF Actors, RunInv, RunTypeOK
  <2> PICK c : c = [c0 EXCEPT !.at = "starting", !.exec = e, !.kind = "FRESH", !.ver = 1]
    OBVIOUS
  <2>6. calls'[r] = c /\ c.at = "starting"
    BY <2>1, <2>5 DEF RunInv, RunTypeOK, Call
  <2>7. \A s \in Runners : s = r
    BY DEF OneAfterTheOther
  <2>8. \A s \in Runners : calls'[s].at \notin {"fresh", "create"}
    BY <2>6, <2>7
  <2>9. \A f \in Execs : f # e /\ records'[f] # None => records'[f].fp # row.fp
    BY <2>2, <2>3, <2>4
  <2>10. \A f, g \in Execs :
          f # g /\ records'[f] # None /\ records'[g] # None => records'[f].fp # records'[g].fp
    <3> SUFFICES ASSUME NEW f \in Execs, NEW g \in Execs, f # g, records'[f] # None, records'[g] # None
                 PROVE  records'[f].fp # records'[g].fp
      OBVIOUS
    <3>1. CASE f = e
      BY <2>3, <2>9, <3>1
    <3>2. CASE g = e
      BY <2>3, <2>9, <3>2
    <3>3. CASE f # e /\ g # e
      BY <1>1, <2>3, <3>3
    <3> QED  BY <3>1, <3>2, <3>3
  <2> QED  BY <2>8, <2>10
<1> QED  BY <1>2, <1>4, <1>5, StepCases

(* Nothing is recorded at first. *)
LEMMA OneRecordInit == RunInit => OneRecord
<1> SUFFICES ASSUME RunInit PROVE OneRecord
  OBVIOUS
<1>1. \A e \in Execs : records[e] = None
  BY DEF RunInit, StoreInit
<1> QED  BY <1>1 DEF OneRecord

(* The two invariants give the properties. *)
LEMMA RunInvSafe ==
  ASSUME RunInv, OneRecord
  PROVE  SupervisedSafety
<1>1. RunTypeOK
  BY DEF RunInv
<1>2. \A e \in Execs :
        /\ ProcessOK(procs[e])
        /\ records[e] = None => procs[e].sup = "none" /\ Mark(e) # "lost"
        /\ records[e] # None => RecordOK(records[e], procs[e], Mark(e))
  BY DEF RunInv, OfExec, ExecOK
<1>3. LaunchedOnce
  BY <1>2 DEF LaunchedOnce, OneRecord
<1>4. LostIsLost
  <2>1. \A e \in lost : e \in Execs /\ Mark(e) = "lost"
    BY <1>1 DEF RunTypeOK, Mark
  <2> QED  BY <1>2, <2>1 DEF LostIsLost, RecordOK
<1>5. EndStateMatchesResult
  BY <1>2 DEF EndStateMatchesResult, RecordOK
<1>6. SuccessIsDurable
  <2> SUFFICES ASSUME NEW a \in Actors, calls[a].at \in Reported
               PROVE  records[calls[a].exec].exit # None
    BY DEF SuccessIsDurable, Reported
  <2>1. calls[a].exec # None
    BY DEF RunInv, OfCall, ShapeOK
  <2> QED  BY <2>1 DEF RunInv, OfCall, CallOK
<1> QED  BY <1>1, <1>3, <1>4, <1>5, <1>6 DEF SupervisedSafety

(* A command is launched once by requests that follow each other, a record  *)
(* that claims an end has the code and the pid of the result file, what a   *)
(* call reported is durable, and what a reconciler called lost has neither  *)
(* a supervisor nor a result, now or later.  In particular the mismatch of  *)
(* pids, which a runner would report as a success, cannot come up.          *)
THEOREM SupervisedRunSafe == RunSpec => []SupervisedSafety
<1>1. RunInv /\ OneRecord /\ [RunNext]_runVars => OneRecord'
  BY OneRecordKept
<1>2. RunInv /\ OneRecord => SupervisedSafety
  BY RunInvSafe
<1> QED  BY <1>1, <1>2, OneRecordInit, RunInvariant, PTL DEF RunSpec

===============================================================================
