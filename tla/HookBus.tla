-------------------------------- MODULE HookBus --------------------------------
(***************************************************************************)
(* The bounded event bus of hook_bus.py: per-stream queues in sequence     *)
(* order, a replay window of duplicate identities, shedding of OBSERVE and *)
(* ADVISORY events for GUARD and COMMAND ones, and the merge that drains   *)
(* the streams.  Envelopes are members of Events; what does not parse or   *)
(* validate never becomes one.  The bus has one owner and no threads.      *)
(***************************************************************************)
EXTENDS Naturals, Sequences, FiniteSets, TLC

CONSTANTS
  Events,          \* envelopes that producers send
  Streams,         \* ingress contexts
  StreamLimit,     \* max_streams
  QueueLimit,      \* max_stream_events
  QueueBytes,      \* max_stream_bytes
  TotalLimit,      \* max_events
  TotalBytes,      \* max_bytes
  DedupeLimit,     \* max_dedupe_entries
  Window,          \* replay_window_seconds
  MaxAccepted,     \* bound: events accepted
  MaxTime,         \* bound: the clock
  None

VARIABLES
  streams,    \* _Stream per context, or None
  dedupe,     \* identity -> when it was accepted
  clock,
  degraded,   \* HOOK_STREAM_DEGRADED
  accepted,   \* history: the entries admitted, in order
  emitted,    \* history: ordinals of the entries drained, in order
  session     \* history: how many sessions of a context have ended

busVars == <<streams, dedupe, clock, degraded, accepted, emitted, session>>

Classes == {"OBSERVE", "ADVISORY", "GUARD", "COMMAND"}
Envelope ==
  [id: Nat, key: Nat \cup {None}, cls: Classes, seq: Nat, at: Nat, size: Nat]

BusAssumption ==
  /\ Events \subseteq Envelope
  /\ {StreamLimit, QueueLimit, QueueBytes, TotalLimit, TotalBytes, DedupeLimit, Window,
      MaxAccepted, MaxTime} \subseteq Nat

NoStream == [queue |-> <<>>, high |-> 0, ended |-> FALSE]

(* dedupe_key, else event_id; the two never coincide. *)
Identity(e) == IF e.key = None THEN <<"id", e.id>> ELSE <<"key", e.key>>

Known == {k \in Streams : streams[k] # None}
InQueue(k) == {streams[k].queue[i] : i \in DOMAIN streams[k].queue}
Queued == UNION {InQueue(k) : k \in Known}

Bytes(S) ==
  LET size[T \in SUBSET S] ==
        IF T = {} THEN 0
        ELSE LET n == CHOOSE m \in T : TRUE IN accepted[n].size + size[T \ {n}]
  IN size[S]

-------------------------------------------------------------------------------
(* HookBus.accept *)

(* What a GUARD or a COMMAND may displace *)
Sheddable(S) == {n \in S : accepted[n].cls \in {"OBSERVE", "ADVISORY"}}

(* The oldest entries of S, as few as make "fits" true *)
Oldest(S, j) == {n \in S : Cardinality({x \in S : x <= n}) <= j}

LocalFits(e, mine) ==
  Cardinality(mine) + 1 <= QueueLimit /\ Bytes(mine) + e.size <= QueueBytes
GlobalFits(e, all) ==
  Cardinality(all) + 1 <= TotalLimit /\ Bytes(all) + e.size <= TotalBytes

(* First room is made in the event's own stream, then everywhere; {} when   *)
(* there is nothing to shed or the event itself may be refused.             *)
Victims(k, e) ==
  LET mine == IF streams[k] = None THEN {} ELSE InQueue(k)
      own == {j \in 0..Cardinality(mine) : LocalFits(e, mine \ Oldest(Sheddable(mine), j))}
      first == IF own = {} THEN {}
               ELSE Oldest(Sheddable(mine), CHOOSE j \in own : \A i \in own : j <= i)
      rest == Queued \ first
      more == {j \in 0..Cardinality(rest) : GlobalFits(e, rest \ Oldest(Sheddable(rest), j))}
  IN first \cup IF more = {} THEN {}
                ELSE Oldest(Sheddable(rest), CHOOSE j \in more : \A i \in more : j <= i)


Fits(k, e, victims) ==
  /\ LocalFits(e, (IF streams[k] = None THEN {} ELSE InQueue(k)) \ victims)
  /\ GlobalFits(e, Queued \ victims)

(* _ordered: events without a sequence keep their places, the others fill   *)
(* the remaining places by sequence and arrival.                            *)
Ordered(queue, seqs) ==
  LET before(m, n) == seqs[m] < seqs[n] \/ (seqs[m] = seqs[n] /\ m < n)
      sorted == SortSeq(SelectSeq(queue, LAMBDA n : seqs[n] # 0), before)
  IN [i \in DOMAIN queue |->
       IF seqs[queue[i]] = 0 THEN queue[i]
       ELSE sorted[Cardinality({j \in 1..i : seqs[queue[j]] # 0})]]

(* Identities inside the replay window *)
Fresh == {i \in DOMAIN dedupe : clock - dedupe[i] < Window}
Remembered == [i \in Fresh |-> dedupe[i]]

(* SEQUENCE_INVERSION: the stream has emitted this sequence or a later one. *)
Inverted(k, e) ==
  e.seq # 0 /\ streams[k] # None /\ streams[k].high > 0 /\ e.seq <= streams[k].high

(* _pressure: HOOK_BACKPRESSURE; nothing but the health changes. *)
Pressure ==
  /\ degraded' = TRUE
  /\ UNCHANGED <<streams, dedupe, clock, accepted, emitted, session>>

Enqueue(k, e, victims) ==
  LET n == Len(accepted) + 1
      mark == Inverted(k, e)
      seqs == [m \in 1..n |-> IF m = n THEN e.seq ELSE accepted[m].seq]
      keep(queue) == SelectSeq(queue, LAMBDA m : m \notin victims)
      mine == IF streams[k] = None THEN NoStream ELSE streams[k]
      shrunk == [x \in Streams |->
                  IF x = k THEN [mine EXCEPT !.queue =
                                   Ordered(Append(keep(mine.queue), n), seqs)]
                  ELSE IF streams[x] = None THEN None
                  ELSE [streams[x] EXCEPT !.queue = keep(streams[x].queue)]]
  IN /\ accepted' = Append(accepted,
          [id |-> e.id, cls |-> e.cls, seq |-> e.seq, at |-> e.at, size |-> e.size,
           stream |-> k, session |-> session[k], marked |-> mark, time |-> clock,
           identity |-> Identity(e)])
     /\ streams' = [x \in Streams |->
          IF shrunk[x] = None THEN None
          ELSE IF shrunk[x].ended /\ shrunk[x].queue = <<>> THEN None ELSE shrunk[x]]
     /\ dedupe' = (Identity(e) :> clock) @@ Remembered
     /\ degraded' = (degraded \/ mark \/ victims # {})
     /\ UNCHANGED <<clock, emitted, session>>

(* A duplicate is told so before anything else is looked at.  An ended      *)
(* stream that still holds entries takes no more (HOOK_INVALID, nothing     *)
(* changes); once it is drained the context may open another session.       *)
Accept(k, e) ==
  LET victims == IF e.cls \in {"GUARD", "COMMAND"} THEN Victims(k, e) ELSE {}
      room == /\ Cardinality(Fresh) + 1 <= DedupeLimit
              /\ streams[k] = None => Cardinality(Known) + 1 <= StreamLimit
  IN
  /\ Len(accepted) < MaxAccepted
  /\ IF Identity(e) \in Fresh
     THEN /\ dedupe' = Remembered
          /\ UNCHANGED <<streams, clock, degraded, accepted, emitted, session>>
     ELSE IF ~room THEN Pressure
     ELSE /\ streams[k] # None => ~streams[k].ended
          /\ IF Fits(k, e, victims) THEN Enqueue(k, e, victims) ELSE Pressure

-------------------------------------------------------------------------------
(* end_session; the stream of an ended session goes with its last entry. *)
EndSession(k) ==
  /\ streams[k] # None /\ ~streams[k].ended
  /\ session' = [session EXCEPT ![k] = @ + 1]
  /\ streams' = [streams EXCEPT ![k] =
       IF @.queue = <<>> THEN None ELSE [@ EXCEPT !.ended = TRUE]]
  /\ UNCHANGED <<dedupe, clock, degraded, accepted, emitted>>

(* The stream whose head is merged next: instant, then source and event id  *)
Next1 ==
  CHOOSE k \in Known : streams[k].queue # <<>> /\
    \A x \in Known : streams[x].queue # <<>> =>
      LET m == accepted[Head(streams[k].queue)]  n == accepted[Head(streams[x].queue)]
      IN m.at < n.at \/ (m.at = n.at /\ m.id <= n.id)

Raise(high, seq) == IF seq > high THEN seq ELSE high

(* One record of drain and dispatch; a consumer that raises degrades the    *)
(* bus and the record is not delivered again.                               *)
Emit(raises) ==
  /\ Queued # {}
  /\ LET k == Next1  s == streams[k]  n == Head(s.queue) IN
       /\ emitted' = Append(emitted, n)
       /\ streams' = [streams EXCEPT ![k] =
            IF s.ended /\ Tail(s.queue) = <<>> THEN None
            ELSE [s EXCEPT !.queue = Tail(s.queue), !.high = Raise(s.high, accepted[n].seq)]]
  /\ degraded' = (degraded \/ raises)
  /\ UNCHANGED <<dedupe, clock, accepted, session>>

Tick ==
  /\ clock < MaxTime
  /\ clock' = clock + 1
  /\ UNCHANGED <<streams, dedupe, degraded, accepted, emitted, session>>

BusInit ==
  /\ streams = [k \in Streams |-> None]
  /\ dedupe = <<>> /\ clock = 0 /\ degraded = FALSE
  /\ accepted = <<>> /\ emitted = <<>>
  /\ session = [k \in Streams |-> 0]

BusNext ==
  \/ \E k \in Streams, e \in Events : Accept(k, e)
  \/ \E k \in Streams : EndSession(k)
  \/ \E raises \in BOOLEAN : Emit(raises)
  \/ Tick

BusSpec == BusInit /\ [][BusNext]_busVars

-------------------------------------------------------------------------------
(* Properties *)

Emitted == {emitted[i] : i \in DOMAIN emitted}

(* The bus stays within every limit of its constructor, an entry is queued  *)
(* in its own stream, and no entry is queued and emitted.                   *)
BusBounds ==
  /\ Cardinality(Known) <= StreamLimit
  /\ \A k \in Known : /\ Cardinality(InQueue(k)) <= QueueLimit
                      /\ Bytes(InQueue(k)) <= QueueBytes
                      /\ \A n \in InQueue(k) : accepted[n].stream = k
  /\ Cardinality(Queued) <= TotalLimit /\ Bytes(Queued) <= TotalBytes
  /\ Cardinality(DOMAIN dedupe) <= DedupeLimit
  /\ Queued \cap Emitted = {}

(* What accept admitted is not lost: GUARD and COMMAND events are queued    *)
(* until they are emitted, and an event that was shed degrades the stream.  *)
NothingSilentlyLost ==
  \A n \in DOMAIN accepted : n \notin Queued \cup Emitted =>
    degraded /\ accepted[n].cls \in {"OBSERVE", "ADVISORY"}

(* Within one session of a stream a record without SEQUENCE_INVERSION never *)
(* follows a later sequence, however arrivals and drains interleave.        *)
OrderedOrMarked ==
  \A i, j \in DOMAIN emitted :
    LET m == accepted[emitted[i]]  n == accepted[emitted[j]] IN
    (/\ i < j /\ m.stream = n.stream /\ m.session = n.session
     /\ m.seq # 0 /\ n.seq # 0 /\ ~n.marked) => m.seq <= n.seq

(* An event is admitted again only when its replay window has ended. *)
OncePerWindow ==
  \A m, n \in DOMAIN accepted :
    (m < n /\ accepted[m].id = accepted[n].id) => accepted[n].time - accepted[m].time >= Window

(* An identity is remembered only for an event that was admitted: what was  *)
(* refused under pressure can be sent again.                                *)
RefusedIsRetryable ==
  \A i \in DOMAIN dedupe : \E n \in DOMAIN accepted : accepted[n].identity = i

===============================================================================
