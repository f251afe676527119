----------------------------- MODULE SidecarBridge ------------------------------
(***************************************************************************)
(* The relay of the sidecar (sidecar_relay.py): a log of events in a file,  *)
(* one line an event, that programs on the same machine append to and read. *)
(* append_event reads the whole file, looks for a torn tail and for the     *)
(* same event, and then writes; between the two another program may write,  *)
(* and a write may end in the middle of a line.                             *)
(* Texts, sizes and credentials are one question: is the envelope safe.     *)
(*                                                                          *)
(* The Codex bridge of the sidecar (sidecar_codex_bridge.py) over the relay *)
(* log.  A turn reads the log, recovers the checkpoint of its lane, chooses *)
(* a steer request, validates it against the live facts its caller gives,   *)
(* observes the target, submits the pointers and appends a receipt.  Other  *)
(* programs append meanwhile, the live claim and head move, the answer to a *)
(* submission may be lost, and the process of a turn may die.               *)
(* The transport and the caller are not part of the repository: the caller  *)
(* is the one the module's documentation describes, which appends a receipt *)
(* for what was delivered and finds out about an unknown delivery before it *)
(* goes on.                                                                 *)
(***************************************************************************)
EXTENDS Naturals, Sequences, FiniteSets, SequencesExt

CONSTANTS
  Payloads,  \* the events that programs ask to be appended
  Writers,   \* the programs that append
  Serial,    \* do the programs append one after the other
  MaxLines,  \* bound on the lines of the log
  MaxTorn,   \* bound on the writes that end in the middle of a line
  None       \* nothing

RelayAssumption == Serial \in BOOLEAN /\ MaxLines \in Nat /\ MaxTorn \in Nat

VARIABLES
  log,      \* the complete lines: an event, or Garbled
  torn,     \* does the file end in the middle of a line
  writer,   \* what each program appends: None, or [event, pc, code]
  stored,   \* the events that append_event returned for
  tears     \* the writes that ended in the middle of a line

relayVars == <<log, torn, writer, stored, tears>>

(* An event: its id, the surface in the id and the surface it names, the    *)
(* family, thread, time, binding (task, claim, worktree, head) or None, the *)
(* references, and whether its texts are safe.                              *)
Garbled == [id |-> 0]
Observability == {"GPT_WORK_LIMITED", "CONTEXT_PRESSURE_HIGH"}
Receipts == {"SIDECAR_RESULT_RECEIPT", "GLM_RESULT_RECEIPT"}
Families == Observability \union Receipts
            \union {"SIDECAR_HELP_REQUEST", "SIDECAR_CHECKPOINT", "CODEX_STEER_REQUEST", "GLM_DISPATCH_REQUEST",
                    "JEV_ADVISORY_REQUEST", "JEV_ADVISORY_RECEIPT", "HUMAN_GATE_REQUIRED"}

Envelope(e) ==
  CASE \/ e.family \notin Families
       \/ ~e.safe
       \/ e.named # e.surface
       \/ e.family \notin Observability /\ e.binding = None -> "RELAY_ENVELOPE_INVALID"
    [] e.family \in Receipts /\ e.refs = {} -> "RELAY_EVIDENCE_MISSING"
    [] OTHER -> "OK"

(* read_events: nothing can be read of a log with a malformed line; of the  *)
(* events with one id the first is read.                                    *)
Readable(lines) == \A i \in DOMAIN lines : lines[i] # Garbled
FirstOf(lines, i) == \A j \in 1..(i - 1) : lines[j].id # lines[i].id
ReadEvents(lines) ==
  LET first == {i \in DOMAIN lines : FirstOf(lines, i)}
  IN [k \in 1..Cardinality(first) |->
        lines[CHOOSE i \in first : Cardinality({j \in first : j <= i}) = k]]

(* order_events: per producer, by time. *)
Before(a, b) ==
  \/ a.surface < b.surface
  \/ a.surface = b.surface /\ a.thread < b.thread
  \/ a.surface = b.surface /\ a.thread = b.thread /\ a.at < b.at
  \/ a.surface = b.surface /\ a.thread = b.thread /\ a.at = b.at /\ a.id < b.id

(* What append_event finds in the file it read: the first line that is      *)
(* malformed, the same or has the same id decides.                          *)
Same(line, e) == line = Garbled \/ line.id = e.id
Found(e) ==
  LET same == {i \in DOMAIN log : Same(log[i], e)}
      first == log[CHOOSE i \in same : \A j \in same : i <= j]
  IN CASE torn -> "RELAY_IO_ERROR"
       [] ~torn /\ same = {} -> "NEW"
       [] OTHER -> IF first = Garbled THEN "RELAY_ENVELOPE_INVALID"
                   ELSE IF first = e THEN "STORED" ELSE "RELAY_EVENT_DUPLICATE"

RelayInit ==
  /\ log = <<>> /\ torn = FALSE /\ tears = 0 /\ stored = {}
  /\ writer = [p \in Writers |-> None]

(* append_event up to the write: the envelope is validated again and the    *)
(* whole file is read.                                                      *)
Append1(p, e) ==
  LET code == IF Envelope(e) # "OK" THEN Envelope(e) ELSE Found(e)
  IN /\ writer[p] = None
     /\ Serial => \A q \in Writers : writer[q] = None
     /\ writer' = [writer EXCEPT ![p] = IF code = "NEW" THEN [event |-> e, pc |-> "write", code |-> "NEW"]
                                        ELSE [event |-> e, pc |-> "done", code |-> code]]
     /\ stored' = IF code = "STORED" THEN stored \union {e} ELSE stored
     /\ UNCHANGED <<log, torn, tears>>

(* The write goes to the end that the file has then.  A line after the      *)
(* piece of another is one malformed line with it.                          *)
(* Mutant: the file is opened anew instead of for appending. *)
WriteOver(p) ==
  /\ writer[p] # None /\ writer[p].pc = "write" /\ Len(log) < MaxLines
  /\ log' = <<writer[p].event>>
  /\ torn' = FALSE
  /\ stored' = stored \union {writer[p].event}
  /\ writer' = [writer EXCEPT ![p].pc = "done", ![p].code = "STORED"]
  /\ UNCHANGED tears
Write(p) ==
  /\ writer[p] # None /\ writer[p].pc = "write" /\ Len(log) < MaxLines
  /\ log' = Append(log, IF torn THEN Garbled ELSE writer[p].event)
  /\ torn' = FALSE
  /\ stored' = stored \union {writer[p].event}
  /\ writer' = [writer EXCEPT ![p].pc = "done", ![p].code = "STORED"]
  /\ UNCHANGED tears

(* The disk is full or the program dies: a piece of the line, or nothing,   *)
(* is written.                                                              *)
WriteFails(p) ==
  /\ writer[p] # None /\ writer[p].pc = "write" /\ tears < MaxTorn
  /\ \E piece \in BOOLEAN : torn' = (torn \/ piece)
  /\ tears' = tears + 1
  /\ writer' = [writer EXCEPT ![p].pc = "done", ![p].code = "RELAY_IO_ERROR"]
  /\ UNCHANGED <<log, stored>>

(* The program goes on. *)
Return(p) ==
  /\ writer[p] # None /\ writer[p].pc = "done"
  /\ writer' = [writer EXCEPT ![p] = None]
  /\ UNCHANGED <<log, torn, stored, tears>>

(* Somebody removes the piece of a line at the end of the file. *)
Repair ==
  /\ torn /\ torn' = FALSE
  /\ UNCHANGED <<log, writer, stored, tears>>

RelayNext ==
  \/ \E p \in Writers, e \in Payloads : Len(log) < MaxLines /\ Append1(p, e)
  \/ \E p \in Writers : Write(p) \/ WriteFails(p) \/ Return(p)
  \/ Repair
RelaySpec == RelayInit /\ [][RelayNext]_relayVars

-----------------------------------------------------------------------------
(* The type of the state. *)
RelayTypeOK ==
  /\ \A i \in DOMAIN log : log[i] # Garbled =>
       /\ log[i].family \in Families /\ log[i].safe
       /\ log[i].family \in Receipts => log[i].refs # {}
       /\ log[i].binding = None => log[i].family \in Observability
  /\ torn \in BOOLEAN /\ tears \in 0..MaxTorn /\ Len(log) \in 0..MaxLines
  /\ \A p \in Writers : writer[p] # None => writer[p].pc \in {"write", "done"}

(* read_events: what was read once is read again, first and in the same     *)
(* order: no later line changes, reorders or removes an event.  Programs    *)
(* that append one after the other never make the log unreadable; of those  *)
(* that append at once only a write behind another's torn piece does, the   *)
(* piece being written after append_event looked for it.                    *)
ReadsOnlyGrow ==
  /\ Readable(log) => Readable(log') \/ (~Serial /\ torn /\ Len(log') > Len(log))
  /\ Readable(log') => Readable(log) /\ IsPrefix(ReadEvents(log), ReadEvents(log'))

(* append_event: an event it returned for is read by every later reader,    *)
(* also after torn writes, deliveries of it again and other events with its *)
(* id.                                                                      *)
StoredIsRead == stored # {} => Readable(log) /\ stored \subseteq {ReadEvents(log)[i] : i \in DOMAIN ReadEvents(log)}

-------------------------------------------------------------------------------
(* The turns of a bridge *)


CONSTANTS
  Bridges,   \* the processes that run turns, some of Writers
  Lane,      \* the task whose checkpoint a turn recovers
  MaxTurns,  \* bound on the turns
  MaxDrift,  \* bound on the changes of the live facts
  MayDie     \* may the process of a turn die

BridgeAssumption == Bridges \subseteq Writers /\ MaxTurns \in Nat /\ MaxDrift \in Nat /\ MayDie \in BOOLEAN

VARIABLES
  turn,       \* the turn of each bridge: None or a record
  facts,      \* the live claim and head
  turns,      \* the turns so far
  drifts,     \* the changes of the live facts so far
  arrived,    \* what reached the target: event ids, one for each arrival
  submitted,  \* every submission: [event, acked, unknown]
  lanes       \* the checkpoints the turns recovered, in their order

bridgeVars == <<relayVars, turn, facts, turns, drifts, arrived, submitted, lanes>>
EventsOf(s) == {s[i] : i \in DOMAIN s}

RecoverCheckpoint(events) ==
  LET of == {e \in EventsOf(events) : e.family = "SIDECAR_CHECKPOINT" /\ e.binding.task = Lane}
  IN IF of = {} THEN None
     ELSE CHOOSE e \in of : \A f \in of : f.at < e.at \/ (f.at = e.at /\ f.id <= e.id)

(* select_steer_candidate: the first in the order of the carrier, of all    *)
(* the steer requests of the log.                                           *)
SelectSteerCandidate(events) ==
  LET of == {e \in EventsOf(events) : e.family = "CODEX_STEER_REQUEST"}
  IN IF of = {} THEN None ELSE CHOOSE e \in of : \A f \in of \ {e} : Before(e, f)

(* projected_event_ids: the events that receipts point to. *)
ProjectedEventIds(events) == UNION {e.refs : e \in {r \in EventsOf(events) : r.family = "SIDECAR_RESULT_RECEIPT"}}

(* revalidate_candidate: given are the live facts the caller knows. *)
Revalidate(e, given) ==
  CASE given = {} -> "CONTEXT_DRIFT"
    [] "head" \in given /\ e.binding.head # facts.head -> "CONTEXT_DRIFT"
    [] "claim" \in given /\ e.binding.claim # facts.claim -> "CLAIM_CONFLICT"
    [] OTHER -> "OK"

(* project_steer_candidate up to the observation: the code of the first     *)
(* gate that refuses.  limit is what defers the turn, surface whether a     *)
(* surface with an accepted version and a transport are there.              *)
(* Mutant: a receipt that was stored is not looked for. *)
GatesBlind(t, given, limit, surface) ==
  LET e == SelectSteerCandidate(t.events)
  IN CASE e = None -> "NO_CANDIDATE"
       [] Revalidate(e, given) # "OK" -> Revalidate(e, given)
       [] limit # "OK" -> limit
       [] surface # "OK" -> surface
       [] e.refs = {} -> "BRIDGE_POINTER_INVALID"
       [] OTHER -> "OK"
Gates(t, given, limit, surface) ==
  LET e == SelectSteerCandidate(t.events)
  IN CASE e = None -> "NO_CANDIDATE"
       [] e.id \in ProjectedEventIds(t.events) -> "BRIDGE_DUPLICATE_PROJECTION"
       [] Revalidate(e, given) # "OK" -> Revalidate(e, given)
       [] limit # "OK" -> limit
       [] surface # "OK" -> surface
       [] e.refs = {} -> "BRIDGE_POINTER_INVALID"
       [] OTHER -> "OK"

(* validate_surface_version: no surface, or one of no accepted version. *)
SurfaceVersion == {"OK", "BRIDGE_SURFACE_UNAVAILABLE", "BRIDGE_SURFACE_VERSION_UNVERIFIED"}
Limits == {"OK", "BRIDGE_CONTEXT_PRESSURE", "BRIDGE_QUOTA_LIMITED"}

(* build_ack_receipt and the observability events: ids are minted. *)
Minted == 10 + turns
AckReceipt(e) ==
  [id |-> Minted, named |-> 1, surface |-> 1, family |-> "SIDECAR_RESULT_RECEIPT", thread |-> 1, at |-> Minted,
   binding |-> e.binding, refs |-> {e.id}, safe |-> TRUE]
ObservabilityEvent(limit) ==
  [id |-> Minted, named |-> 1, surface |-> 1, thread |-> 1, at |-> Minted, binding |-> None, refs |-> {}, safe |-> TRUE,
   family |-> IF limit = "BRIDGE_QUOTA_LIMITED" THEN "GPT_WORK_LIMITED" ELSE "CONTEXT_PRESSURE_HIGH"]

BridgeInit ==
  /\ RelayInit
  /\ turn = [b \in Bridges |-> None]
  /\ facts = [claim |-> 1, head |-> 1]
  /\ turns = 0 /\ drifts = 0 /\ arrived = <<>> /\ submitted = <<>> /\ lanes = <<>>

Acknowledged == UNION {e.refs : e \in {r \in stored : r.family = "SIDECAR_RESULT_RECEIPT"}}

(* The events of the log, deduplicated (read_events, dedupe_events), and    *)
(* the checkpoint of the lane.                                              *)
ReadLog(b) ==
  /\ turn[b] = None /\ writer[b] = None /\ turns < MaxTurns
  /\ turns' = turns + 1
  /\ turn' = [turn EXCEPT ![b] =
       [pc |-> IF Readable(log) THEN "gates" ELSE "end", events |-> IF Readable(log) THEN ReadEvents(log) ELSE <<>>,
        code |-> IF Readable(log) THEN "OK" ELSE "RELAY_ENVELOPE_INVALID", acked |-> Acknowledged, event |-> None]]
  /\ lanes' = IF Readable(log) /\ RecoverCheckpoint(ReadEvents(log)) # None
              THEN Append(lanes, RecoverCheckpoint(ReadEvents(log))) ELSE lanes
  /\ UNCHANGED <<relayVars, facts, drifts, arrived, submitted>>

(* project_steer_candidate up to the observation. *)
Project(b) ==
  \E given \in SUBSET {"claim", "head"}, limit \in Limits, surface \in SurfaceVersion :
    LET code == Gates(turn[b], given, limit, surface)
    IN /\ turn[b] # None /\ turn[b].pc = "gates"
       /\ turn' = [turn EXCEPT ![b] =
            [@ EXCEPT !.code = code,
                      !.event = IF code = "OK" THEN SelectSteerCandidate(turn[b].events)
                                ELSE IF code \in Limits THEN ObservabilityEvent(code) ELSE None,
                      !.pc = IF code = "OK" THEN "observe" ELSE IF code \in Limits THEN "defer" ELSE "end"]]
       /\ UNCHANGED <<relayVars, facts, turns, drifts, arrived, submitted, lanes>>

(* _classify_observation: what the transport says of the target. *)
Observe(b) ==
  /\ turn[b] # None /\ turn[b].pc = "observe"
  /\ \E code \in {"OK", "BRIDGE_SURFACE_OFFLINE", "BRIDGE_AMBIGUOUS_TARGET", "BRIDGE_ACTIVE_WRITER", "BRIDGE_NOT_STEERABLE"} :
       turn' = [turn EXCEPT ![b].code = code, ![b].pc = IF code = "OK" THEN "submit" ELSE "end"]
  /\ UNCHANGED <<relayVars, facts, turns, drifts, arrived, submitted, lanes>>

(* The submission and _submit_delivery: an exception or an answer that is   *)
(* none is an unknown delivery, of something that arrived or did not.       *)
Submit(b) ==
  /\ turn[b] # None /\ turn[b].pc = "submit"
  /\ \E delivery \in {"DELIVERED", "REJECTED", "DELIVERY_UNKNOWN"}, arrives \in BOOLEAN :
       /\ delivery = "DELIVERED" => arrives
       /\ delivery = "REJECTED" => ~arrives
       /\ arrived' = IF arrives THEN Append(arrived, turn[b].event.id) ELSE arrived
       /\ turn' = [turn EXCEPT ![b].code = delivery,
                               ![b].pc = CASE delivery = "DELIVERED" -> "receipt" [] delivery = "REJECTED" -> "end"
                                           [] OTHER -> "recover"]
  /\ submitted' = Append(submitted, [event |-> turn[b].event, acked |-> turn[b].acked])
  /\ UNCHANGED <<relayVars, facts, turns, drifts, lanes>>

(* The caller finds out whether the event of an unknown delivery arrived. *)
Recover(b) ==
  /\ turn[b] # None /\ turn[b].pc = "recover"
  /\ turn' = [turn EXCEPT ![b].pc = IF turn[b].event.id \in EventsOf(arrived) THEN "receipt" ELSE "end"]
  /\ UNCHANGED <<relayVars, facts, turns, drifts, arrived, submitted, lanes>>

(* emit_receipt, and the event of a turn that is deferred. *)
EmitReceipt(b) ==
  /\ turn[b] # None /\ turn[b].pc \in {"receipt", "defer"}
  /\ Len(log) < MaxLines
  /\ Append1(b, IF turn[b].pc = "receipt" THEN AckReceipt(turn[b].event) ELSE turn[b].event)
  /\ turn' = [turn EXCEPT ![b].pc = "end"]
  /\ UNCHANGED <<facts, turns, drifts, arrived, submitted, lanes>>

(* The turn ends when its receipt is written or refused. *)
EndTurn(b) ==
  /\ turn[b] # None /\ turn[b].pc = "end" /\ writer[b] = None
  /\ turn' = [turn EXCEPT ![b] = None]
  /\ UNCHANGED <<relayVars, facts, turns, drifts, arrived, submitted, lanes>>

(* The process of a turn dies. *)
Die(b) ==
  /\ MayDie /\ turn[b] # None /\ writer[b] = None
  /\ turn' = [turn EXCEPT ![b] = None]
  /\ UNCHANGED <<relayVars, facts, turns, drifts, arrived, submitted, lanes>>

(* The claim or the head of the task moves. *)
Drift ==
  /\ drifts < MaxDrift /\ drifts' = drifts + 1
  /\ \E f \in {"claim", "head"} : facts' = [facts EXCEPT ![f] = @ + 1]
  /\ UNCHANGED <<relayVars, turn, turns, arrived, submitted, lanes>>

(* The other programs, and the writes of everyone. *)
Produce ==
  /\ \/ \E p \in Writers \ Bridges, e \in Payloads : Len(log) < MaxLines /\ Append1(p, e)
     \/ \E p \in Writers : Write(p) \/ WriteFails(p) \/ Return(p)
     \/ Repair
  /\ UNCHANGED <<turn, facts, turns, drifts, arrived, submitted, lanes>>

BridgeNext ==
  \/ \E b \in Bridges : ReadLog(b) \/ Project(b) \/ Observe(b) \/ Submit(b) \/ Recover(b) \/ EmitReceipt(b) \/ EndTurn(b) \/ Die(b)
  \/ Drift
  \/ Produce
BridgeSpec == BridgeInit /\ [][BridgeNext]_bridgeVars

-----------------------------------------------------------------------------
(* The type of the state. *)
BridgeTypeOK ==
  /\ RelayTypeOK /\ turns \in 0..MaxTurns /\ drifts \in 0..MaxDrift
  /\ \A b \in Bridges : turn[b] # None =>
       turn[b].pc \in {"gates", "observe", "submit", "recover", "receipt", "defer", "end"}
  /\ Len(submitted) <= turns /\ Len(lanes) <= turns

(* projected_event_ids: an event whose receipt was stored before a turn     *)
(* began is not submitted by it: "replaying it must fail typed instead of   *)
(* double-submitting", also when other programs append and tear the log.    *)
AcknowledgedNeverAgain == \A i \in DOMAIN submitted : submitted[i].event.id \notin submitted[i].acked

(* dedupe_events: what was submitted is what every reader of the log finds  *)
(* under the id, although another event with that id may follow it.         *)
SubmittedIsRead == \A i \in DOMAIN submitted : Readable(log) => submitted[i].event \in EventsOf(ReadEvents(log))

(* recover_checkpoint: a later turn never recovers an older checkpoint of   *)
(* the lane than an earlier turn did, in whatever order checkpoints arrive. *)
LaneNeverGoesBack == \A i, j \in DOMAIN lanes : i < j => lanes[i].at <= lanes[j].at

=================================================================================
