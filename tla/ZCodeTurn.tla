------------------------------- MODULE ZCodeTurn -------------------------------
(***************************************************************************)
(* One turn of a ZCode app server: the supervised helper process           *)
(* (zcode_supervised_helper.py) that starts the app server as its child,    *)
(* its reader thread with the bounded queue, the protocol driver            *)
(* (zcode_protocol.py), the files the helper leaves behind, and the         *)
(* inspection that decides from those files and from the process table      *)
(* whether a run without a result is still there (zcode_runner.py,          *)
(* zcode_child_recovery.py, zcode_process_truth.py).  The app server        *)
(* answers out of turn, floods, closes its output, stops reading or dies;   *)
(* the helper may die at any step.                                          *)
(***************************************************************************)
EXTENDS Naturals, Sequences, SequencesExt

CONSTANTS
  None,
  MaxPending,   \* _MAX_PENDING_LINES
  Budget,       \* output_budget, in deltas
  MaxFrames,    \* bound on the lines the child writes
  Frames,       \* the kinds of lines the child may write
  PromptFits,   \* whether the prompt fits the pipe of the child's stdin
  MaxEdits      \* bound on the edits of the packet file

TurnAssumption ==
  /\ MaxPending \in Nat \ {0} /\ Budget \in Nat /\ MaxFrames \in Nat /\ MaxEdits \in Nat
  /\ Frames \subseteq {"create", "mismatch", "subscribe", "prefs", "permission", "rejected",
                       "delta", "completed", "failed", "blank", "garbage", "long"}
  /\ PromptFits \in BOOLEAN

VARIABLES
  child,    \* the app server: alive or not, what it read and wrote, its place in the process table
  pipe,     \* lines in the pipe of its stdout
  reader,   \* the reader thread
  lines,    \* the bounded queue
  overflowed,
  driver,   \* run_turn: what it has sent and received, and its outcome
  helper,   \* the step the helper is at
  late,     \* the deadline of the turn has passed
  packet,   \* the bytes of the packet file, by version; 0 is what was authorized
  files     \* what the helper has written

turnVars == <<child, pipe, reader, lines, overflowed, driver, helper, late, packet, files>>

End == "END"      \* the None a reader puts at the end of the output
Sendable == {"session/create", "session/subscribe", "session/send", "preferences", "denied"}
Fatal == {"ZCODE_TASK_PACKET_TOCTOU", "CHILD_OUTPUT_OVERFLOW", "TURN_DEADLINE_EXCEEDED",
          "CHILD_EXITED", "PROTOCOL_LINE_MALFORMED", "SESSION_MODEL_MISMATCH",
          "PROMPT_SEND_REJECTED", "RESPONSE_BUDGET_EXCEEDED", "TURN_FAILED", "PROTOCOL_FAILED"}
Steps == {"metadata", "spawn", "observe", "identity", "pid", "packet", "loop", "read", "alive",
          "send", "shutdown", "pending", "output", "report", "result"}
Ended == {"done", "failed", "dead"}

(* What the process table says of a pid (observe_child_process).  A clock   *)
(* of seconds: another process may have the same created value.             *)
Process == [created : {0, 1}, executable : {"zcode", "other"}, parent : {"helper", "other"}]
OurChild == [created |-> 0, executable |-> "zcode", parent |-> "helper"]

NoChild == [alive |-> FALSE, said |-> <<>>, got |-> <<>>, reading |-> TRUE, stdin |-> "open",
            closed |-> FALSE, process |-> None]
NoDriver == [session |-> FALSE, subscribed |-> FALSE, sending |-> None, prompt |-> None,
             deltas |-> <<>>, turn |-> None]
NoFiles == [identity |-> None, pid |-> FALSE, output |-> None, report |-> None, result |-> FALSE]

TurnInit ==
  /\ child = NoChild /\ pipe = <<>> /\ reader = "none" /\ lines = <<>> /\ overflowed = FALSE
  /\ driver = NoDriver /\ helper = "metadata" /\ late = FALSE /\ packet = 0
  /\ files = NoFiles

streams == <<pipe, reader, lines, overflowed>>
Go(step) == helper' = step
(* A raised ZCodeProtocolError or OSError: the natural shutdown, then _fail. *)
Raise(code) == driver' = [driver EXCEPT !.turn = code] /\ Go("shutdown")

-----------------------------------------------------------------------------
(* The helper up to the first line it sends.                                *)

(* _load_runtime_metadata and _build_child_environment: the child is not    *)
(* started when a value is missing or malformed.                            *)
LoadMetadata ==
  /\ helper = "metadata"
  /\ Go("spawn") \/ Go("failed")
  /\ UNCHANGED <<child, streams, driver, late, packet, files>>

Spawn ==
  /\ helper = "spawn"
  /\ \/ child' = [NoChild EXCEPT !.alive = TRUE, !.process = OurChild] /\ Go("observe")
     \/ UNCHANGED child /\ Go("failed")
  /\ UNCHANGED <<streams, driver, late, packet, files>>

(* The identity is what the process table says of the child now: it is      *)
(* refused when the child is gone or the pid is not a child of this helper. *)
Observe ==
  /\ helper = "observe"
  /\ Go(IF child.process # None /\ child.process.parent = "helper" THEN "identity" ELSE "failed")
  /\ UNCHANGED <<child, streams, driver, late, packet, files>>

(* Written, read again and compared. *)
WriteIdentity ==
  /\ helper = "identity"
  /\ \/ files' = [files EXCEPT !.identity = OurChild] /\ Go("pid")
     \/ UNCHANGED files /\ Go("failed")
  /\ UNCHANGED <<child, streams, driver, late, packet>>

(* The pid file, and the start of the reader thread. *)
WritePid ==
  /\ helper = "pid"
  /\ files' = [files EXCEPT !.pid = TRUE] /\ reader' = "reading" /\ Go("packet")
  /\ UNCHANGED <<child, pipe, lines, overflowed, driver, late, packet>>

(* _verify_packet_bytes, immediately before the first send: the prompt is   *)
(* the bytes that were just hashed.                                         *)
VerifyPacket ==
  /\ helper = "packet"
  /\ IF packet = 0
     THEN driver' = [driver EXCEPT !.prompt = packet, !.sending = "session/create"] /\ Go("send")
     ELSE Raise("ZCODE_TASK_PACKET_TOCTOU")
  /\ UNCHANGED <<child, streams, late, packet, files>>

-----------------------------------------------------------------------------
(* The reader thread and the queue.                                         *)

(* _offer: a full queue is an overflow, and the end of reading. *)
Offer(line) ==
  IF Len(lines) < MaxPending
  THEN lines' = Append(lines, line) /\ reader' = (IF line = End THEN "ended" ELSE "reading")
       /\ UNCHANGED overflowed
  ELSE overflowed' = TRUE /\ reader' = "ended" /\ UNCHANGED lines

(* readline, with the cap on one line.  A reader that stops for an overflow *)
(* leaves a None if there is room for it.                                   *)
ReaderReads ==
  /\ reader = "reading" /\ helper \notin Ended
  /\ \/ /\ pipe # <<>> /\ Head(pipe) # "long"
        /\ Offer(Head(pipe)) /\ pipe' = Tail(pipe)
     \/ /\ pipe # <<>> /\ Head(pipe) = "long"
        /\ overflowed' = TRUE /\ reader' = "ended" /\ pipe' = Tail(pipe)
        /\ lines' = IF Len(lines) < MaxPending THEN Append(lines, End) ELSE lines
     \/ /\ pipe = <<>> /\ (child.closed \/ ~child.alive)
        /\ Offer(End) /\ UNCHANGED pipe
  /\ UNCHANGED <<child, driver, helper, late, packet, files>>

-----------------------------------------------------------------------------
(* run_turn.                                                                *)

(* send_line: a write to a closed pipe fails, one that does not fit waits   *)
(* for the child to read.                                                   *)
Send ==
  /\ helper = "send"
  /\ IF ~child.alive
     THEN Raise("PROTOCOL_FAILED") /\ UNCHANGED child
     ELSE /\ driver.sending = "session/send" /\ ~PromptFits => child.reading
          /\ child' = [child EXCEPT !.got = Append(@, <<driver.sending, driver.prompt>>)]
          /\ driver' = [driver EXCEPT !.sending = None] /\ Go("loop")
  /\ UNCHANGED <<streams, late, packet, files>>

CheckDeadline ==
  /\ helper = "loop"
  /\ IF late THEN Raise("TURN_DEADLINE_EXCEEDED") ELSE Go("read") /\ UNCHANGED driver
  /\ UNCHANGED <<child, streams, late, packet, files>>

(* Mutant: a second reply to the subscription sends the prompt again. *)
NextSendUnguarded(line) ==
  CASE line = "prefs" -> "preferences"
    [] line = "permission" -> "denied"
    [] line = "create" /\ ~driver.session -> "session/subscribe"
    [] line = "subscribe" /\ driver.session -> "session/send"
    [] OTHER -> None

(* What is sent in answer to a line: preferences, the refusal of a          *)
(* permission, the subscription once the session is there, the prompt once  *)
(* it is subscribed.                                                        *)
NextSend(line) ==
  CASE line = "prefs" -> "preferences"
    [] line = "permission" -> "denied"
    [] line = "create" /\ ~driver.session -> "session/subscribe"
    [] line = "subscribe" /\ driver.session /\ ~driver.subscribed -> "session/send"
    [] OTHER -> None

(* The ways a line ends the turn. *)
Failure(line) ==
  CASE line = "garbage" -> "PROTOCOL_LINE_MALFORMED"
    [] line = "mismatch" /\ ~driver.session -> "SESSION_MODEL_MISMATCH"
    [] line = "rejected" -> "PROMPT_SEND_REJECTED"
    [] line = "delta" /\ Len(driver.deltas) >= Budget -> "RESPONSE_BUDGET_EXCEEDED"
    [] line = "failed" -> "TURN_FAILED"
    [] OTHER -> None

Handle(line) ==
  CASE Failure(line) # None -> Raise(Failure(line))
    [] line = "completed" -> Raise("completed")
    [] OTHER ->
         /\ driver' = [driver EXCEPT
                         !.session = @ \/ line = "create",
                         !.subscribed = @ \/ (line = "subscribe" /\ driver.session),
                         !.sending = NextSend(line),
                         !.deltas = IF line = "delta" THEN Append(@, Len(@) + 1) ELSE @]
         /\ Go(IF NextSend(line) # None THEN "send" ELSE "loop")

(* read_line with something in the queue: a None, and a line that is only   *)
(* its newline, are "nothing"; the None of an overflow is an error.         *)
ReadLine ==
  /\ helper = "read" /\ lines # <<>>
  /\ lines' = Tail(lines)
  /\ CASE Head(lines) = End /\ overflowed -> Raise("CHILD_OUTPUT_OVERFLOW")
       [] Head(lines) \in {End, "blank"} -> Go("alive") /\ UNCHANGED driver
       [] OTHER -> Handle(Head(lines))
  /\ UNCHANGED <<child, pipe, reader, overflowed, late, packet, files>>

(* read_line with an empty queue: an overflow, or nothing within the        *)
(* timeout.                                                                 *)
ReadNothing ==
  /\ helper = "read" /\ lines = <<>>
  /\ IF overflowed THEN Raise("CHILD_OUTPUT_OVERFLOW") ELSE Go("alive") /\ UNCHANGED driver
  /\ UNCHANGED <<child, streams, late, packet, files>>

CheckAlive ==
  /\ helper = "alive"
  /\ IF child.alive THEN Go("loop") /\ UNCHANGED driver ELSE Raise("CHILD_EXITED")
  /\ UNCHANGED <<child, streams, late, packet, files>>

-----------------------------------------------------------------------------
(* The end of the helper.                                                   *)

(* _natural_shutdown: stdin is closed, and the exit is waited for within a  *)
(* bound.  Without a completed turn the helper fails either way; with one,  *)
(* a child that is still there leaves a report that says so.                *)
Shutdown ==
  /\ helper = "shutdown"
  /\ child' = [child EXCEPT !.stdin = "eof"]
  /\ Go(CASE driver.turn # "completed" -> "failed"
          [] child.alive -> "pending"
          [] OTHER -> "output")
  /\ UNCHANGED <<streams, driver, late, packet, files>>

(* The child of a completed turn exits while the helper waits. *)
ExitsInTime ==
  /\ helper = "shutdown" /\ driver.turn = "completed" /\ child.alive
  /\ child' = [child EXCEPT !.stdin = "eof", !.alive = FALSE, !.process = None]
  /\ Go("output")
  /\ UNCHANGED <<streams, driver, late, packet, files>>

WritePending ==
  /\ helper = "pending"
  /\ files' = [files EXCEPT !.report = "EXIT_PENDING"] /\ Go("failed")
  /\ UNCHANGED <<child, streams, driver, late, packet>>

(* The response on the helper's stdout, complete or an error. *)
WriteOutput ==
  /\ helper = "output"
  /\ \/ files' = [files EXCEPT !.output = driver.deltas] /\ Go("report")
     \/ /\ \E n \in 0..Len(driver.deltas) :
             files' = [files EXCEPT !.output = SubSeq(driver.deltas, 1, n)]
        /\ Go("failed")
  /\ UNCHANGED <<child, streams, driver, late, packet>>

WriteReport ==
  /\ helper = "report"
  /\ files' = [files EXCEPT !.report = "complete"] /\ Go("result")
  /\ UNCHANGED <<child, streams, driver, late, packet>>

WriteResult ==
  /\ helper = "result"
  /\ files' = [files EXCEPT !.result = TRUE] /\ Go("done")
  /\ UNCHANGED <<child, streams, driver, late, packet>>

-----------------------------------------------------------------------------
(* inspect of ZCodeServiceLifecycleLauncher.                                *)

(* reconcile_zcode_child: the process that has the recorded pid was created *)
(* at the recorded time, runs the recorded executable and has the recorded  *)
(* parent.                                                                  *)
ReconcileChild ==
  /\ files.identity # None /\ child.process # None
  /\ child.process.created = files.identity.created
  /\ child.process.executable = files.identity.executable
  /\ child.process.parent = files.identity.parent

(* The service's answer stands when there is a result or the helper is      *)
(* there; what it calls a recovery is one only if the child is gone too.    *)
Inspect ==
  CASE files.result -> "RESULT_AVAILABLE"
    [] helper \notin Ended -> "RUNNING"
    [] ReconcileChild -> "ATTACH_RUNNING"
    [] OTHER -> "RECOVERY_REQUIRED"

-----------------------------------------------------------------------------
(* The world around the helper.  What the child writes when nobody reads    *)
(* it any more, and edits of a packet that has been read, are left out.     *)

Got(what) == \E i \in 1..Len(child.got) : child.got[i][1] = what
Said(line) == \E i \in 1..Len(child.said) : child.said[i] = line

(* A line the child can write: replies follow what it was sent, events of   *)
(* a turn follow the prompt.  A reply may be repeated.  What follows a line *)
(* that ends the turn is left out.                                          *)
MayWrite(line) ==
  CASE \E l \in {"rejected", "failed", "garbage", "long"} : Said(l) -> FALSE
    [] line \in {"create", "mismatch"} -> Got("session/create")
    [] line = "subscribe" -> Got("session/subscribe")
    [] line \in {"rejected", "delta", "permission"} -> Got("session/send") /\ ~Said("completed")
    [] line \in {"completed", "failed"} ->
         Got("session/send") /\ ~Said("completed") /\ ~Said("failed")
    [] OTHER -> TRUE

ChildWrites ==
  /\ child.alive /\ ~child.closed /\ Len(child.said) < MaxFrames /\ helper \notin Ended
  /\ \E line \in Frames :
       /\ MayWrite(line)
       /\ child' = [child EXCEPT !.said = Append(@, line)]
       /\ pipe' = Append(pipe, line)
  /\ UNCHANGED <<reader, lines, overflowed, driver, helper, late, packet, files>>

ChildCloses ==
  /\ child.alive /\ ~child.closed /\ helper \notin Ended
  /\ child' = [child EXCEPT !.closed = TRUE]
  /\ UNCHANGED <<streams, driver, helper, late, packet, files>>

ChildStopsReading ==
  /\ child.alive /\ child.reading /\ ~PromptFits /\ helper \notin Ended
  /\ child' = [child EXCEPT !.reading = FALSE]
  /\ UNCHANGED <<streams, driver, helper, late, packet, files>>

ChildExits ==
  /\ child.alive
  /\ child' = [child EXCEPT !.alive = FALSE, !.process = None]
  /\ UNCHANGED <<streams, driver, helper, late, packet, files>>

(* The pid of a child that is gone is given to another process; it is not a *)
(* child of the helper, which starts only one.                              *)
PidReused ==
  /\ helper \in Ended \cup {"observe"} /\ child # NoChild /\ ~child.alive /\ child.process = None
  /\ \E p \in Process : p.parent = "other" /\ child' = [child EXCEPT !.process = p]
  /\ UNCHANGED <<streams, driver, helper, late, packet, files>>

(* The helper dies: the child sees the end of its stdin, and may get        *)
(* another parent.                                                          *)
HelperDies ==
  /\ helper \notin Ended
  /\ Go("dead")
  /\ \/ child' = [child EXCEPT !.stdin = "eof"]
     \/ /\ child.alive
        /\ child' = [child EXCEPT !.stdin = "eof", !.process.parent = "other"]
  /\ UNCHANGED <<streams, driver, late, packet, files>>

DeadlinePasses ==
  /\ ~late /\ helper \in {"loop", "read", "alive", "send"} /\ late' = TRUE
  /\ UNCHANGED <<child, streams, driver, helper, packet, files>>

PacketEdited ==
  /\ packet < MaxEdits /\ driver.prompt = None /\ packet' = packet + 1
  /\ UNCHANGED <<child, streams, driver, helper, late, files>>

HelperStep ==
  \/ LoadMetadata \/ Spawn \/ Observe \/ WriteIdentity \/ WritePid \/ VerifyPacket
  \/ Send \/ CheckDeadline \/ ReadLine \/ ReadNothing \/ CheckAlive
  \/ Shutdown \/ ExitsInTime \/ WritePending \/ WriteOutput \/ WriteReport \/ WriteResult

TurnNext ==
  \/ HelperStep \/ ReaderReads
  \/ ChildWrites \/ ChildCloses \/ ChildStopsReading \/ ChildExits \/ PidReused
  \/ HelperDies \/ DeadlinePasses \/ PacketEdited

TurnSpec == TurnInit /\ [][TurnNext]_turnVars

-----------------------------------------------------------------------------
TurnTypeOK ==
  /\ child.alive \in BOOLEAN /\ child.closed \in BOOLEAN /\ child.reading \in BOOLEAN
  /\ child.process = None \/ child.process \in Process
  /\ Len(child.said) <= MaxFrames /\ \A i \in 1..Len(child.said) : child.said[i] \in Frames
  /\ \A i \in 1..Len(child.got) : child.got[i][1] \in Sendable
  /\ reader \in {"none", "reading", "ended"} /\ overflowed \in BOOLEAN
  /\ Len(lines) <= MaxPending
  /\ helper \in Steps \cup Ended /\ late \in BOOLEAN /\ packet \in 0..MaxEdits
  /\ driver.turn \in Fatal \cup {None, "completed"}
  /\ driver.sending \in Sendable \cup {None}
  /\ files.report \in {None, "EXIT_PENDING", "complete"} /\ files.result \in BOOLEAN

(* The deltas the child wrote before it completed the turn. *)
Response ==
  LET before == SelectInSeq(child.said, LAMBDA l : l = "completed")
  IN  Len(SelectSeq(SubSeq(child.said, 1, before), LAMBDA l : l = "delta"))

(* A result file is completion authority (zcode_supervised_helper.py:607):  *)
(* there is one only if the child completed the turn and has exited, the    *)
(* whole response is on the output, whatever was repeated, refused or       *)
(* queued in between, and the complete report was written before it.        *)
ResultIsFinal ==
  files.result =>
    /\ Said("completed") /\ ~child.alive
    /\ files.output # None /\ Len(files.output) = Response
    /\ files.report = "complete"

(* The prompt reaches the child at most once, only with the bytes that were *)
(* authorized, only in a subscribed session of the authorized model, and    *)
(* only when the identity of that child is on disk: a run that was given    *)
(* work can always be found again.                                          *)
PromptOnceAndKnown ==
  LET prompts == {i \in 1..Len(child.got) : child.got[i][1] = "session/send"}
  IN  /\ \A i, j \in prompts : i = j
      /\ \A i \in prompts : /\ child.got[i][2] = 0
                            /\ Said("create") /\ Said("subscribe")
                            /\ files.identity # None

(* An inspection says ATTACH_RUNNING only while the child it found is the   *)
(* child of this run and alive, whoever has its pid.                        *)
AttachIsOurs ==
  Inspect = "ATTACH_RUNNING" => child.alive

=============================================================================
