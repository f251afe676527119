--------------------------- MODULE DexDispatchProofs ---------------------------
(***************************************************************************)
(* Proofs about the dispatch of dex_wire.py, for any number of processes,   *)
(* threads, executions, attempts and bindings: DexSafety, and that the      *)
(* dispatch implements DispatchOnce.                                        *)
(***************************************************************************)
EXTENDS DexDispatch, TLAPS

-------------------------------------------------------------------------------
(* The inductive invariant *)

Completed == {"COMPLETED", "DUPLICATE_ALREADY_COMPLETED"}

(* The steps of a call whose reservation of the fence was committed. *)
Holding == {"dispatch", "dispatched", "collect", "receipt", "identical", "fence", "retire"}

(* The steps before the dispatch, and those only a dispatch leads to. *)
Unsent == {"idle", "decide", "journal", "lock", "probe", "reserve", "dispatch"}
Sent == {"dispatched", "collect", "receipt", "identical", "retire"}

(* The journal admits a binding. *)
Admits(i, b) ==
  decisions[i] # None /\ decisions[i].admitted /\ decisions[i].binding = b

(* An admission has the generation of its binding, and what an issuer       *)
(* remembers is what the journal holds.                                     *)
JournalFine ==
  /\ \A i \in Identities :
       decisions[i] # None /\ decisions[i].admitted => decisions[i].gen = decisions[i].binding.gen
  /\ \A w \in Wires, i \in Identities : cache[w][i] # None => cache[w][i] = decisions[i]

(* A fence is that of the admitted binding, and guards the only start. *)
FencesFine ==
  \A i \in Identities :
    /\ fences[i] # None => Admits(i, fences[i].binding)
    /\ effects[i] \in {0, 1}
    /\ fences[i] = None => effects[i] = 0

(* A receipt is the only one of its attempt, which was started. *)
ReceiptsFine ==
  \A r \in receipts :
    /\ effects[AttemptOf(r)] = 1
    /\ Admits(AttemptOf(r), r.binding)
    /\ r.gen = r.binding.gen
    /\ log[r.binding.exec] # <<>>
    /\ \A s \in receipts : AttemptOf(s) = AttemptOf(r) => s = r

(* What a call may rely on at each of its steps. *)
CallFine(t) ==
  LET c == calls[t]
      i == Id(t) IN
  /\ c.at \in {"decide", "journal"} => c.view \in Views
  /\ c.at \in Steps \ {"decide", "journal"} => Admits(i, c.binding)
  /\ c.at \in Holding => fences[i] # None
  /\ c.at \in Unsent => ~c.sent
  /\ c.at \in Sent => c.sent
  /\ c.sent => effects[i] = 1
  /\ c.at = "dispatch" => effects[i] = 0
  /\ c.at \in {"dispatched", "collect", "receipt"} => \A r \in receipts : AttemptOf(r) # i
  /\ c.at \in {"receipt", "identical"} =>
       /\ c.receipt \in DurableExecutionReceipt
       /\ c.receipt.binding = c.binding
       /\ c.receipt.gen = c.binding.gen
  /\ c.at = "retire" => c.then \in Completed
  /\ c.at \in Completed \cup {"retire"} => log[c.binding.exec] # <<>>
  /\ c.at = "fence" => c.then \in Outcomes \ Completed /\ i \in fenced[Wire(t)]
  /\ c.at \in Outcomes \ Completed /\ c.sent /\ c.binding.gen >= 1 => i \in fenced[Wire(t)]

(* The fence has one holder, of all threads of all processes. *)
OneHolder ==
  \A t, u \in Threads :
    calls[t].at \in Holding /\ calls[u].at \in Holding /\ Id(t) = Id(u) => t = u

DexInv ==
  /\ DexTypeOK
  /\ JournalFine
  /\ FencesFine
  /\ ReceiptsFine
  /\ \A t \in Threads : CallFine(t)
  /\ OneHolder

(* The calls of the threads are calls, with a binding once they are begun. *)
CallsTyped ==
  /\ calls \in [Threads -> Call]
  /\ \A t \in Threads : calls[t].at # "idle" => calls[t].binding \in Bindings

-------------------------------------------------------------------------------
(* What a step does to its call *)

(* The identity and the wire of a call that was begun. *)
LEMMA CallOfThread ==
  ASSUME DexAssumption, DexTypeOK, NEW t \in Threads
  PROVE  /\ calls[t] \in Call /\ Wire(t) \in Wires
         /\ calls[t].at # "idle" => calls[t].binding \in Bindings /\ Id(t) \in Identities
<1>1. calls[t] \in Call /\ Wire(t) \in Wires
  BY DEF DexTypeOK, DexAssumption, Wire
<1>2. calls[t].at # "idle" => calls[t].binding \in Bindings
  BY DEF DexTypeOK
<1>3. calls[t].binding \in Bindings => Id(t) \in Identities
  BY DEF DexAssumption, Id, IdentityOf, Identities
<1> QED  BY <1>1, <1>2, <1>3

(* Goto moves one call, and changes nothing else of it. *)
LEMMA GotoCall ==
  ASSUME DexTypeOK, NEW t \in Threads, NEW step \in Steps, calls[t].at # "idle", Goto(t, step)
  PROVE  /\ CallsTyped' /\ \A u \in Threads \ {t} : calls'[u] = calls[u]
         /\ calls'[t].at = step /\ calls'[t].binding = calls[t].binding
         /\ calls'[t].view = calls[t].view /\ calls'[t].sent = calls[t].sent
         /\ calls'[t].receipt = calls[t].receipt
<1>1. calls \in [Threads -> Call] /\ calls[t] \in Call /\ calls[t].binding \in Bindings
  BY DEF DexTypeOK
<1>2. calls' = [calls EXCEPT ![t].at = step]
  BY DEF Goto
<1>3. calls'[t] = [calls[t] EXCEPT !.at = step] /\ \A u \in Threads \ {t} : calls'[u] = calls[u]
  BY <1>1, <1>2
<1>4. PICK c : c = calls[t]
  OBVIOUS
<1>5. [c EXCEPT !.at = step] \in Call /\ [c EXCEPT !.at = step].at = step
      /\ [c EXCEPT !.at = step].binding = c.binding /\ [c EXCEPT !.at = step].view = c.view
      /\ [c EXCEPT !.at = step].sent = c.sent /\ [c EXCEPT !.at = step].receipt = c.receipt
  BY <1>1, <1>4 DEF Call
<1>6. calls' \in [Threads -> Call]
  BY <1>1, <1>2, <1>3, <1>4, <1>5
<1> QED
  BY <1>1, <1>3, <1>4, <1>5, <1>6 DEF CallsTyped, DexTypeOK

(* So does Settle, which also forgets the view and the receipt. *)
LEMMA SettleCall ==
  ASSUME DexTypeOK, NEW t \in Threads, NEW step \in Steps \cup Outcomes, NEW sent \in BOOLEAN,
         NEW then \in Outcomes \cup {None}, calls[t].at # "idle", Settle(t, step, sent, then)
  PROVE  /\ CallsTyped' /\ \A u \in Threads \ {t} : calls'[u] = calls[u]
         /\ calls'[t].at = step /\ calls'[t].binding = calls[t].binding
         /\ calls'[t].sent = sent /\ calls'[t].then = then
<1>1. calls \in [Threads -> Call] /\ calls[t] \in Call /\ calls[t].binding \in Bindings
  BY DEF DexTypeOK
<1>2. PICK c : c = [at |-> step, binding |-> calls[t].binding, view |-> None, sent |-> sent,
                    receipt |-> None, then |-> then]
  OBVIOUS
<1>3. c \in Call /\ c.at = step /\ c.binding = calls[t].binding /\ c.sent = sent /\ c.then = then
  BY <1>1, <1>2 DEF Call
<1>4. calls' = [calls EXCEPT ![t] = c]
  BY <1>2 DEF Settle
<1>5. calls' \in [Threads -> Call] /\ calls'[t] = c /\ \A u \in Threads \ {t} : calls'[u] = calls[u]
  BY <1>1, <1>3, <1>4
<1> QED
  BY <1>1, <1>3, <1>5 DEF CallsTyped, DexTypeOK

(* And End, with one of the outcomes. *)
LEMMA EndCall ==
  ASSUME DexTypeOK, NEW t \in Threads, NEW outcome \in Outcomes, calls[t].at # "idle",
         End(t, outcome)
  PROVE  /\ CallsTyped' /\ \A u \in Threads \ {t} : calls'[u] = calls[u]
         /\ calls'[t].at = outcome /\ calls'[t].binding = calls[t].binding
         /\ calls'[t].sent = calls[t].sent
<1>1. calls[t].sent \in BOOLEAN
  BY DEF DexTypeOK, Call
<1>2. Settle(t, outcome, calls[t].sent, None)
  BY DEF End
<1>3. PICK sent \in BOOLEAN : sent = calls[t].sent
  BY <1>1
<1> QED
  BY <1>2, <1>3, SettleCall

(* An identity that a wire fences is fenced from then on. *)
LEMMA FenceGrows ==
  ASSUME DexAssumption, DexTypeOK, NEW t \in Threads, calls[t].at # "idle", FenceIdentity(t)
  PROVE  /\ fenced' \in [Wires -> SUBSET Identities]
         /\ \A w \in Wires : fenced[w] \subseteq fenced'[w]
         /\ Id(t) \in fenced'[Wire(t)]
<1>1. Wire(t) \in Wires /\ Id(t) \in Identities /\ fenced \in [Wires -> SUBSET Identities]
  BY CallOfThread DEF DexTypeOK
<1>2. PICK w \in Wires, i \in Identities : w = Wire(t) /\ i = Id(t)
  BY <1>1
<1>3. fenced' = [fenced EXCEPT ![w] = fenced[w] \cup {i}]
  BY <1>2 DEF FenceIdentity
<1> QED
  BY <1>1, <1>2, <1>3

(***************************************************************************)
(* What every step of a call keeps: decisions are final, a fence keeps its  *)
(* binding, fences and receipts stay, and only a call that holds its fence  *)
(* has an effect or a receipt, of its own identity.                         *)
(***************************************************************************)
Kept(t) ==
  /\ \A i \in Identities : decisions[i] # None => decisions'[i] = decisions[i]
  /\ \A i \in Identities : fences[i] # None =>
       fences'[i] # None /\ fences'[i].binding = fences[i].binding
  /\ \A w \in Wires : fenced[w] \subseteq fenced'[w]
  /\ \A e \in Execs : log[e] # <<>> => log'[e] # <<>>
  /\ \A i \in Identities : effects[i] = 1 => effects'[i] = 1
  /\ \/ effects' = effects /\ receipts' = receipts
     \/ /\ calls[t].at \in Holding
        /\ \A i \in Identities \ {Id(t)} : effects'[i] = effects[i]
        /\ \A r \in receipts' \ receipts : AttemptOf(r) = Id(t)

(* The step of one call leaves another one fine. *)
LEMMA OtherCallFine ==
  ASSUME DexAssumption, DexInv, NEW t \in Threads, NEW u \in Threads \ {t}, Kept(t),
         calls'[u] = calls[u]
  PROVE  CallFine(u)'
<1>1. CallFine(u) /\ calls[u] \in Call /\ Wire(u) \in Wires
      /\ (calls[u].at # "idle" => calls[u].binding \in Bindings /\ Id(u) \in Identities)
  BY CallOfThread DEF DexInv
<1>2. Id(u)' = Id(u)
  BY DEF Id
<1>3. calls[u].at = "idle" => CallFine(u)'
  BY <1>1 DEF CallFine, Steps, Holding, Unsent, Sent, Completed, Outcomes
<1>4. ASSUME calls[u].at # "idle" PROVE CallFine(u)'
  <2>1. calls[u].binding \in Bindings /\ Id(u) \in Identities /\ calls[u].binding.exec \in Execs
    BY <1>1, <1>4 DEF DexAssumption
  <2>2. Admits(Id(u), calls[u].binding) => Admits(Id(u), calls[u].binding)'
    BY <1>2, <2>1 DEF Admits, Kept
  <2>3. calls[u].at \in Holding /\ calls[t].at \in Holding => Id(u) # Id(t)
    BY DEF DexInv, OneHolder
  <2>4. calls[u].at = "dispatch" => effects'[Id(u)] = 0
    BY <1>1, <2>1, <2>3 DEF Kept, CallFine, Holding
  <2>5. calls[u].at \in {"dispatched", "collect", "receipt"} =>
          \A r \in receipts' : AttemptOf(r) # Id(u)
    BY <1>1, <2>1, <2>3 DEF Kept, CallFine, Holding
  <2>6. calls[u].sent => effects'[Id(u)] = 1
    BY <1>1, <2>1 DEF Kept, CallFine
  <2>7. calls[u].at \in Holding => fences'[Id(u)] # None
    BY <1>1, <2>1 DEF Kept, CallFine
  <2>8. calls[u].at \in Completed \cup {"retire"} => log'[calls[u].binding.exec] # <<>>
    BY <1>1, <2>1 DEF Kept, CallFine
  <2>9. Id(u) \in fenced[Wire(u)] => Id(u) \in fenced'[Wire(u)]
    BY <1>1, <2>1 DEF Kept
  <2>10. Wire(u)' = Wire(u)
    BY DEF Wire
  <2>11. calls[u].at \in Steps \ {"decide", "journal"} => Admits(Id(u), calls[u].binding)'
    BY <1>1, <2>2 DEF CallFine
  <2> QED
    BY <1>1, <1>2, <2>4, <2>5, <2>6, <2>7, <2>8, <2>9, <2>10, <2>11 DEF CallFine
<1> QED  BY <1>3, <1>4

(* The parts of the invariant that a step of a call has to see to. *)
LEMMA CallStep ==
  ASSUME DexAssumption, DexInv, NEW t \in Threads, DexTypeOK', Kept(t),
         \A u \in Threads \ {t} : calls'[u] = calls[u],
         JournalFine', FencesFine', ReceiptsFine', CallFine(t)',
         calls'[t].at \in Holding =>
           /\ calls'[t].binding = calls[t].binding
           /\ calls[t].at \in Holding \/ fences[Id(t)] = None
  PROVE  DexInv'
<1>1. \A u \in Threads : CallFine(u)'
  BY OtherCallFine
<1>2. OneHolder'
  <2> SUFFICES ASSUME NEW a \in Threads, NEW b \in Threads, calls'[a].at \in Holding,
                      calls'[b].at \in Holding, Id(a)' = Id(b)', a # b
               PROVE  FALSE
    BY DEF OneHolder
  <2>1. ASSUME NEW u \in Threads \ {t}, calls'[u].at \in Holding, calls'[t].at \in Holding,
               Id(u)' = Id(t)'
        PROVE  FALSE
    <3>1. Id(u)' = Id(u) /\ Id(t)' = Id(t)
      BY <2>1 DEF Id
    <3>2. calls[u].at \in Holding /\ CallFine(u)
      BY <2>1 DEF DexInv
    <3>3. fences[Id(u)] # None
      BY <3>2 DEF CallFine
    <3>4. calls[t].at \in Holding
      BY <2>1, <3>1, <3>3
    <3> QED  BY <2>1, <3>1, <3>2, <3>4 DEF DexInv, OneHolder
  <2>2. CASE a = t  BY <2>1, <2>2
  <2>3. CASE b = t  BY <2>1, <2>3
  <2>4. CASE a # t /\ b # t
    <3>1. calls'[a] = calls[a] /\ calls'[b] = calls[b]
      BY <2>4
    <3> QED  BY <3>1 DEF DexInv, OneHolder, Id
  <2> QED  BY <2>2, <2>3, <2>4
<1> QED  BY <1>1, <1>2 DEF DexInv

(* A step that leaves the store, the issuers and the substrate alone. *)
LEMMA QuietStep ==
  ASSUME DexAssumption, DexInv, NEW t \in Threads,
         UNCHANGED <<storeVars, cache, effects>>,
         fenced' \in [Wires -> SUBSET Identities],
         \A w \in Wires : fenced[w] \subseteq fenced'[w],
         CallsTyped', \A u \in Threads \ {t} : calls'[u] = calls[u], CallFine(t)',
         calls'[t].at \in Holding =>
           calls'[t].binding = calls[t].binding /\ calls[t].at \in Holding
  PROVE  DexInv'
<1>1. /\ records' = records /\ log' = log /\ receipts' = receipts /\ decisions' = decisions
      /\ fences' = fences /\ cache' = cache /\ effects' = effects
  BY DEF storeVars
<1>2. DexTypeOK'
  BY <1>1 DEF DexInv, DexTypeOK, CallsTyped
<1>3. Kept(t)
  BY <1>1 DEF Kept
<1>4. JournalFine' /\ FencesFine' /\ ReceiptsFine'
  BY <1>1 DEF DexInv, JournalFine, FencesFine, ReceiptsFine, Admits
<1> QED  BY <1>2, <1>3, <1>4, CallStep

-------------------------------------------------------------------------------
(* The steps that only move a call *)

(* A call that ends before it had the attempt started is fine. *)
LEMMA EndsUnsent ==
  ASSUME DexTypeOK, NEW t \in Threads, CallFine(t), NEW outcome \in Outcomes \ Completed,
         ~calls[t].sent, calls[t].at # "idle", End(t, outcome)
  PROVE  /\ CallsTyped' /\ \A u \in Threads \ {t} : calls'[u] = calls[u]
         /\ CallFine(t)' /\ calls'[t].at \notin Holding
<1>1. /\ CallsTyped' /\ \A u \in Threads \ {t} : calls'[u] = calls[u]
      /\ calls'[t].at = outcome /\ calls'[t].sent = calls[t].sent
  BY EndCall
<1> QED
  BY <1>1 DEF CallFine, Steps, Holding, Unsent, Sent, Completed, Outcomes

(* A call that begins has sent nothing and relies on nothing. *)
LEMMA BeginStep ==
  ASSUME DexAssumption, DexInv, NEW t \in Threads, NEW b \in Bindings, NEW v \in Views,
         Begin(t, b, v)
  PROVE  DexInv'
<1>1. PICK c : c = [at |-> "decide", binding |-> b, view |-> v, sent |-> FALSE,
                    receipt |-> None, then |-> None]
  OBVIOUS
<1>2. c \in Call /\ c.at = "decide" /\ c.binding = b /\ c.view = v /\ c.sent = FALSE
  BY <1>1 DEF Call, Steps
<1>3. calls' = [calls EXCEPT ![t] = c] /\ calls \in [Threads -> Call]
  BY <1>1 DEF Begin, DexInv, DexTypeOK
<1>4. /\ calls' \in [Threads -> Call] /\ calls'[t] = c
      /\ \A u \in Threads \ {t} : calls'[u] = calls[u]
  BY <1>2, <1>3
<1>5. CallsTyped'
  BY <1>2, <1>4 DEF CallsTyped, DexInv, DexTypeOK
<1>6. CallFine(t)' /\ calls'[t].at \notin Holding
  BY <1>2, <1>4 DEF CallFine, Steps, Holding, Unsent, Sent, Completed, Outcomes
<1>7. UNCHANGED <<storeVars, cache, effects>> /\ fenced' = fenced
  BY DEF Begin
<1> QED  BY <1>4, <1>5, <1>6, <1>7, QuietStep DEF DexInv, DexTypeOK

(* Taking the lock of the identity needs no more than the admission. *)
LEMMA LockStep ==
  ASSUME DexAssumption, DexInv, NEW t \in Threads, Lock(t)
  PROVE  DexInv'
<1>1. CallFine(t) /\ DexTypeOK /\ calls[t].at = "lock" /\ ~calls[t].sent
  BY DEF DexInv, Lock, CallFine, Unsent
<1>2. UNCHANGED <<storeVars, cache, effects>> /\ fenced' = fenced
      /\ fenced \in [Wires -> SUBSET Identities]
  BY <1>1 DEF Lock, DexTypeOK
<1>3. CASE End(t, "AMBIGUOUS")
  BY <1>1, <1>2, <1>3, EndsUnsent, QuietStep DEF Outcomes, Completed
<1>4. CASE Goto(t, "probe")
  <2>1. /\ CallsTyped' /\ \A u \in Threads \ {t} : calls'[u] = calls[u]
        /\ calls'[t].at = "probe" /\ calls'[t].binding = calls[t].binding
        /\ calls'[t].sent = calls[t].sent
    BY <1>1, <1>4, GotoCall DEF Steps
  <2>2. Admits(Id(t), calls[t].binding)'
    BY <1>1, <1>2, <2>1 DEF CallFine, Steps, Admits, Id, storeVars
  <2>3. CallFine(t)' /\ calls'[t].at \notin Holding
    BY <1>1, <2>1, <2>2 DEF CallFine, Steps, Holding, Unsent, Sent, Completed, Outcomes
  <2> QED  BY <1>2, <2>1, <2>3, QuietStep
<1> QED  BY <1>3, <1>4 DEF Lock

(* A duplicate is answered only when the log of the execution has a receipt. *)
LEMMA ProbeStep ==
  ASSUME DexAssumption, DexInv, NEW t \in Threads, Probe(t)
  PROVE  DexInv'
<1>1. CallFine(t) /\ DexTypeOK /\ calls[t].at = "probe" /\ ~calls[t].sent
  BY DEF DexInv, Probe, CallFine, Unsent
<1>2. UNCHANGED <<storeVars, cache, effects>> /\ fenced' = fenced
      /\ fenced \in [Wires -> SUBSET Identities]
  BY <1>1 DEF Probe, DexTypeOK
<1>3. CASE End(t, "RAISED")
  BY <1>1, <1>2, <1>3, EndsUnsent, QuietStep DEF Outcomes, Completed
<1>4. CASE End(t, "DUPLICATE_ALREADY_COMPLETED") /\ log[calls[t].binding.exec] # <<>>
  <2>1. /\ CallsTyped' /\ \A u \in Threads \ {t} : calls'[u] = calls[u]
        /\ calls'[t].at = "DUPLICATE_ALREADY_COMPLETED" /\ calls'[t].binding = calls[t].binding
        /\ calls'[t].sent = calls[t].sent
    BY <1>1, <1>4, EndCall DEF Outcomes
  <2>2. CallFine(t)' /\ calls'[t].at \notin Holding
    BY <1>1, <1>2, <1>4, <2>1
    DEF CallFine, Steps, Holding, Unsent, Sent, Completed, Outcomes, storeVars
  <2> QED  BY <1>2, <2>1, <2>2, QuietStep
<1>5. CASE Goto(t, "reserve")
  <2>1. /\ CallsTyped' /\ \A u \in Threads \ {t} : calls'[u] = calls[u]
        /\ calls'[t].at = "reserve" /\ calls'[t].binding = calls[t].binding
        /\ calls'[t].sent = calls[t].sent
    BY <1>1, <1>5, GotoCall DEF Steps
  <2>2. Admits(Id(t), calls[t].binding)'
    BY <1>1, <1>2, <2>1 DEF CallFine, Steps, Admits, Id, storeVars
  <2>3. CallFine(t)' /\ calls'[t].at \notin Holding
    BY <1>1, <2>1, <2>2 DEF CallFine, Steps, Holding, Unsent, Sent, Completed, Outcomes
  <2> QED  BY <1>2, <2>1, <2>3, QuietStep
<1> QED  BY <1>3, <1>4, <1>5 DEF Probe

(* A failing read ends a call that has sent nothing. *)
LEMMA StoreUnavailableStep ==
  ASSUME DexAssumption, DexInv, NEW t \in Threads, StoreUnavailable(t)
  PROVE  DexInv'
<1>1. CallFine(t) /\ DexTypeOK /\ calls[t].at \in {"decide", "probe"} /\ ~calls[t].sent
  BY DEF DexInv, StoreUnavailable, CallFine, Unsent
<1>2. UNCHANGED <<storeVars, cache, effects>> /\ fenced' = fenced
      /\ fenced \in [Wires -> SUBSET Identities] /\ End(t, "RAISED")
  BY <1>1 DEF StoreUnavailable, DexTypeOK
<1> QED
  BY <1>1, <1>2, EndsUnsent, QuietStep DEF Outcomes, Completed

(* A call that returned leaves nothing to rely on. *)
LEMMA ReturnStep ==
  ASSUME DexAssumption, DexInv, NEW t \in Threads, Return(t)
  PROVE  DexInv'
<1>1. PICK c : c = Idle
  OBVIOUS
<1>2. c \in Call /\ c.at = "idle" /\ c.sent = FALSE
  BY <1>1 DEF Call, Idle
<1>3. calls' = [calls EXCEPT ![t] = c] /\ calls \in [Threads -> Call]
  BY <1>1 DEF Return, DexInv, DexTypeOK
<1>4. /\ calls' \in [Threads -> Call] /\ calls'[t] = c
      /\ \A u \in Threads \ {t} : calls'[u] = calls[u]
  BY <1>2, <1>3
<1>5. CallsTyped'
  BY <1>2, <1>4 DEF CallsTyped, DexInv, DexTypeOK
<1>6. CallFine(t)' /\ calls'[t].at \notin Holding
  BY <1>2, <1>4 DEF CallFine, Steps, Holding, Unsent, Sent, Completed, Outcomes
<1>7. UNCHANGED <<storeVars, cache, effects>> /\ fenced' = fenced
  BY DEF Return
<1> QED  BY <1>4, <1>5, <1>6, <1>7, QuietStep DEF DexInv, DexTypeOK

(* A call that holds its fence and sent the attempt, and is to be fenced. *)
LEMMA FenceCall ==
  ASSUME DexAssumption, DexInv, NEW t \in Threads, calls[t].at \in {"collect", "identical"},
         NEW outcome \in Outcomes \ Completed, Fence(t, outcome),
         UNCHANGED <<storeVars, cache, effects>>
  PROVE  DexInv'
<1>1. CallFine(t) /\ DexTypeOK /\ calls[t].at # "idle" /\ calls[t].sent \in BOOLEAN
  BY CallOfThread DEF DexInv, Call
<1>2. Settle(t, "fence", calls[t].sent, outcome) /\ FenceIdentity(t)
  BY DEF Fence
<1>3. /\ CallsTyped' /\ \A u \in Threads \ {t} : calls'[u] = calls[u]
      /\ calls'[t].at = "fence" /\ calls'[t].binding = calls[t].binding
      /\ calls'[t].sent = calls[t].sent /\ calls'[t].then = outcome
  <2>1. PICK sent \in BOOLEAN : sent = calls[t].sent
    BY <1>1
  <2> QED  BY <1>1, <1>2, <2>1, SettleCall DEF Steps
<1>4. /\ fenced' \in [Wires -> SUBSET Identities] /\ Id(t) \in fenced'[Wire(t)]
      /\ \A w \in Wires : fenced[w] \subseteq fenced'[w]
  BY <1>1, <1>2, FenceGrows
<1>5. Id(t)' = Id(t) /\ Wire(t)' = Wire(t) /\ fences' = fences /\ effects' = effects
      /\ decisions' = decisions
  BY <1>3 DEF Id, Wire, storeVars
<1>6. Admits(Id(t), calls[t].binding)'
  BY <1>1, <1>3, <1>5 DEF CallFine, Steps, Admits
<1>7. CallFine(t)' /\ calls[t].at \in Holding
  BY <1>1, <1>3, <1>4, <1>5, <1>6
  DEF CallFine, Steps, Holding, Unsent, Sent, Completed, Outcomes
<1> QED  BY <1>3, <1>4, <1>7, QuietStep

(* What is collected is a receipt of the binding, or the identity is fenced. *)
LEMMA CollectStep ==
  ASSUME DexAssumption, DexInv, NEW t \in Threads, Collect(t)
  PROVE  DexInv'
<1>1. /\ CallFine(t) /\ DexTypeOK /\ calls[t].at = "collect" /\ calls[t] \in Call
      /\ calls[t].binding \in Bindings /\ fenced \in [Wires -> SUBSET Identities]
  BY CallOfThread DEF DexInv, Collect, DexTypeOK
<1>2. UNCHANGED <<storeVars, cache, effects>>
  BY DEF Collect
<1>3. CASE Fence(t, "RAISED") \/ Fence(t, "EVIDENCE_REJECTED")
  BY <1>1, <1>2, <1>3, FenceCall DEF Outcomes, Completed
<1>4. CASE calls[t].binding.gen = 0 /\ End(t, "RAISED") /\ UNCHANGED fenced
  <2>1. /\ CallsTyped' /\ \A u \in Threads \ {t} : calls'[u] = calls[u]
        /\ calls'[t].at = "RAISED" /\ calls'[t].binding = calls[t].binding
        /\ calls'[t].sent = calls[t].sent
    BY <1>1, <1>4, EndCall DEF Outcomes
  <2>2. calls[t].sent /\ effects'[Id(t)] = 1 /\ Id(t)' = Id(t) /\ ~(calls[t].binding.gen >= 1)
    BY <1>1, <1>2, <1>4, <2>1 DEF CallFine, Sent, Id
  <2>3. CallFine(t)' /\ calls'[t].at \notin Holding
    BY <2>1, <2>2 DEF CallFine, Steps, Holding, Unsent, Sent, Completed, Outcomes
  <2> QED  BY <1>1, <1>2, <1>4, <2>1, <2>3, QuietStep
<1>5. ASSUME calls[t].binding.gen >= 1, UNCHANGED fenced,
             NEW evidence \in CollectedEvidence(calls[t].binding),
             calls' = [calls EXCEPT ![t].at = "receipt", ![t].receipt =
               [binding |-> calls[t].binding, result |-> evidence.result, gen |-> evidence.gen,
                disposition |-> IF evidence.drift THEN "QUARANTINED" ELSE "ACCEPTED"]]
      PROVE  DexInv'
  <2>1. /\ evidence.result \in Results /\ evidence.gen = calls[t].binding.gen
        /\ calls[t].binding.gen \in Nat
    BY <1>1 DEF CollectedEvidence, DexAssumption
  <2>2. PICK d \in {"ACCEPTED", "QUARANTINED"} :
          d = IF evidence.drift THEN "QUARANTINED" ELSE "ACCEPTED"
    OBVIOUS
  <2>3. PICK r : r = [binding |-> calls[t].binding, result |-> evidence.result,
                      gen |-> evidence.gen, disposition |-> d]
    OBVIOUS
  <2>4. /\ r \in DurableExecutionReceipt /\ r.binding = calls[t].binding
        /\ r.gen = calls[t].binding.gen
    BY <1>1, <1>5, <2>1, <2>2, <2>3 DEF DurableExecutionReceipt
  <2>5. calls' = [calls EXCEPT ![t].at = "receipt", ![t].receipt = r]
    BY <1>5, <2>2, <2>3
  <2>6. PICK c : c = calls[t]
    OBVIOUS
  <2>7. PICK n : n = [c EXCEPT !.at = "receipt", !.receipt = r]
    OBVIOUS
  <2>8. /\ n \in Call /\ n.at = "receipt" /\ n.binding = c.binding /\ n.sent = c.sent
        /\ n.receipt = r
    BY <1>1, <2>4, <2>6, <2>7 DEF Call, Steps
  <2>9. calls \in [Threads -> Call]
    BY <1>1 DEF DexTypeOK
  <2>10. /\ calls'[t] = n /\ \A u \in Threads \ {t} : calls'[u] = calls[u]
         /\ calls' \in [Threads -> Call]
    <3>1. calls' = [calls EXCEPT ![t] = n]
      BY <2>5, <2>6, <2>7, <2>9
    <3> QED  BY <2>8, <2>9, <3>1
  <2>11. CallsTyped'
    BY <1>1, <2>6, <2>8, <2>10 DEF CallsTyped, DexTypeOK
  <2>12. /\ Id(t)' = Id(t) /\ fences' = fences /\ effects' = effects /\ receipts' = receipts
         /\ decisions' = decisions
    BY <1>2, <2>6, <2>8, <2>10 DEF Id, storeVars
  <2>13. Admits(Id(t), calls[t].binding)'
    BY <1>1, <2>6, <2>8, <2>10, <2>12 DEF CallFine, Steps, Admits
  <2>14. CallFine(t)' /\ calls[t].at \in Holding
    BY <1>1, <2>4, <2>6, <2>8, <2>10, <2>12, <2>13
    DEF CallFine, Steps, Holding, Unsent, Sent, Completed, Outcomes
  <2>15. calls'[t].binding = calls[t].binding
    BY <2>6, <2>8, <2>10
  <2> QED  BY <1>1, <1>2, <1>5, <2>10, <2>11, <2>14, <2>15, QuietStep
<1> QED  BY <1>3, <1>4, <1>5 DEF Collect

(* An identical receipt completes the call; without it the call fences. *)
LEMMA FindIdenticalStep ==
  ASSUME DexAssumption, DexInv, NEW t \in Threads, FindIdentical(t)
  PROVE  DexInv'
<1>1. /\ CallFine(t) /\ DexTypeOK /\ calls[t].at = "identical"
      /\ calls[t].sent \in BOOLEAN /\ fenced \in [Wires -> SUBSET Identities]
  BY CallOfThread DEF DexInv, FindIdentical, DexTypeOK, Call
<1>2. UNCHANGED <<storeVars, cache, effects>>
  BY DEF FindIdentical
<1>3. CASE Fence(t, "RAISED")
  BY <1>1, <1>2, <1>3, FenceCall DEF Outcomes, Completed
<1>4. CASE /\ calls[t].receipt \in receipts
           /\ Settle(t, "retire", calls[t].sent, "DUPLICATE_ALREADY_COMPLETED")
           /\ UNCHANGED fenced
  <2>1. /\ CallsTyped' /\ \A u \in Threads \ {t} : calls'[u] = calls[u]
        /\ calls'[t].at = "retire" /\ calls'[t].binding = calls[t].binding
        /\ calls'[t].sent = calls[t].sent /\ calls'[t].then = "DUPLICATE_ALREADY_COMPLETED"
    <3>1. PICK sent \in BOOLEAN : sent = calls[t].sent
      BY <1>1
    <3> QED  BY <1>1, <1>4, <3>1, SettleCall DEF Steps, Outcomes
  <2>2. log[calls[t].binding.exec] # <<>>
    BY <1>1, <1>4 DEF DexInv, ReceiptsFine, CallFine
  <2>3. /\ Id(t)' = Id(t) /\ fences' = fences /\ effects' = effects /\ log' = log
        /\ decisions' = decisions
    BY <1>2, <2>1 DEF Id, storeVars
  <2>4. Admits(Id(t), calls[t].binding)'
    BY <1>1, <2>1, <2>3 DEF CallFine, Steps, Admits
  <2>5. CallFine(t)' /\ calls[t].at \in Holding
    BY <1>1, <2>1, <2>2, <2>3, <2>4
    DEF CallFine, Steps, Holding, Unsent, Sent, Completed, Outcomes
  <2> QED  BY <1>1, <1>2, <1>4, <2>1, <2>5, QuietStep
<1> QED  BY <1>3, <1>4 DEF FindIdentical

-------------------------------------------------------------------------------
(* Decisions *)

(* A step of the issuer, which adds to the journal and to what it remembers. *)
LEMMA IssuerStep ==
  ASSUME DexAssumption, DexInv, NEW t \in Threads,
         UNCHANGED <<records, log, receipts, fences, fenced, effects>>,
         decisions' \in [Identities -> Decision \cup {None}],
         \A i \in Identities : decisions[i] # None => decisions'[i] = decisions[i],
         cache' \in [Wires -> [Identities -> Decision \cup {None}]],
         JournalFine', CallsTyped', \A u \in Threads \ {t} : calls'[u] = calls[u],
         CallFine(t)', calls'[t].at \notin Holding
  PROVE  DexInv'
<1>1. DexTypeOK'
  BY DEF DexInv, DexTypeOK, CallsTyped
<1>2. Kept(t)
  BY DEF Kept
<1>3. FencesFine'
  BY DEF DexInv, FencesFine, Admits
<1>4. ReceiptsFine'
  <2>1. \A r \in receipts : AttemptOf(r) \in Identities
    BY DEF DexInv, DexTypeOK, DurableExecutionReceipt, AttemptOf, IdentityOf, Identities,
           DexAssumption
  <2> QED  BY <2>1 DEF DexInv, ReceiptsFine, Admits
<1> QED  BY <1>1, <1>2, <1>3, <1>4, CallStep

(* After an admission a call waits for its lock. *)
LEMMA ToLock ==
  ASSUME DexTypeOK, NEW t \in Threads, CallFine(t), calls[t].at \in {"decide", "journal"},
         Goto(t, "lock"), Admits(Id(t), calls[t].binding)'
  PROVE  /\ CallsTyped' /\ \A u \in Threads \ {t} : calls'[u] = calls[u]
         /\ CallFine(t)' /\ calls'[t].at \notin Holding
<1>1. /\ CallsTyped' /\ \A u \in Threads \ {t} : calls'[u] = calls[u]
      /\ calls'[t].at = "lock" /\ calls'[t].binding = calls[t].binding
      /\ calls'[t].sent = calls[t].sent
  BY GotoCall DEF Steps
<1> QED
  BY <1>1 DEF CallFine, Steps, Holding, Unsent, Sent, Completed, Outcomes

(* A decision that is known is replayed as it was journaled. *)
LEMMA DecideStep ==
  ASSUME DexAssumption, DexInv, NEW t \in Threads, Decide(t)
  PROVE  DexInv'
<1>1. /\ CallFine(t) /\ DexTypeOK /\ calls[t].at = "decide" /\ ~calls[t].sent
      /\ calls[t].binding \in Bindings /\ Id(t) \in Identities /\ Wire(t) \in Wires
      /\ JournalFine
  BY CallOfThread DEF DexInv, Decide, CallFine, Unsent
<1>2. PICK w \in Wires, i \in Identities : w = Wire(t) /\ i = Id(t)
  BY <1>1
<1>3. PICK known : known = IF cache[w][i] # None THEN cache[w][i] ELSE decisions[i]
  OBVIOUS
<1>4. known = decisions[i] \/ known = None
  BY <1>1, <1>3 DEF JournalFine
<1>5. /\ UNCHANGED <<records, log, receipts, fences, fenced, effects>> /\ decisions' = decisions
      /\ decisions \in [Identities -> Decision \cup {None}]
      /\ cache \in [Wires -> [Identities -> Decision \cup {None}]]
  BY <1>1 DEF Decide, storeVars, DexTypeOK
<1>6. CASE known = None /\ Goto(t, "journal") /\ UNCHANGED cache
  <2>1. /\ CallsTyped' /\ \A u \in Threads \ {t} : calls'[u] = calls[u]
        /\ calls'[t].at = "journal" /\ calls'[t].view = calls[t].view
        /\ calls'[t].sent = calls[t].sent
    BY <1>1, <1>6, GotoCall DEF Steps
  <2>2. CallFine(t)' /\ calls'[t].at \notin Holding
    BY <1>1, <2>1 DEF CallFine, Steps, Holding, Unsent, Sent, Completed, Outcomes
  <2>3. JournalFine'
    BY <1>1, <1>5, <1>6 DEF JournalFine
  <2> QED  BY <1>5, <1>6, <2>1, <2>2, <2>3, IssuerStep
<1>7. CASE /\ known # None
           /\ cache' = [cache EXCEPT ![w][i] = known]
           /\ IF Replays(known, calls[t].binding, calls[t].view)
              THEN Goto(t, "lock") ELSE End(t, "DENIED")
  <2>1. known = decisions[i] /\ known \in Decision
    BY <1>4, <1>5, <1>7
  <2>2. /\ cache' \in [Wires -> [Identities -> Decision \cup {None}]]
        /\ \A x \in Wires, j \in Identities :
             cache'[x][j] = IF x = w /\ j = i THEN known ELSE cache[x][j]
    BY <1>5, <1>7, <2>1
  <2>3. JournalFine'
    BY <1>1, <1>5, <2>1, <2>2 DEF JournalFine
  <2>4. CASE Replays(known, calls[t].binding, calls[t].view) /\ Goto(t, "lock")
    <3>1. calls'[t].binding = calls[t].binding
      BY <1>1, <2>4, GotoCall DEF Steps
    <3>2. Id(t)' = i
      BY <1>2, <3>1 DEF Id
    <3>3. Admits(Id(t), calls[t].binding)'
      BY <1>5, <1>7, <2>1, <2>4, <3>1, <3>2 DEF Admits, Replays
    <3> QED  BY <1>1, <1>5, <2>2, <2>3, <2>4, <3>3, ToLock, IssuerStep
  <2>5. CASE End(t, "DENIED")
    BY <1>1, <1>5, <2>2, <2>3, <2>5, EndsUnsent, IssuerStep DEF Outcomes, Completed
  <2> QED  BY <1>7, <2>4, <2>5
<1> QED  BY <1>2, <1>3, <1>6, <1>7 DEF Decide

(* A fresh decision is journaled once, also when the write reports a failure. *)
LEMMA JournalStep ==
  ASSUME DexAssumption, DexInv, NEW t \in Threads, Journal(t)
  PROVE  DexInv'
<1>1. /\ CallFine(t) /\ DexTypeOK /\ calls[t].at = "journal" /\ ~calls[t].sent
      /\ calls[t].binding \in Bindings /\ Id(t) \in Identities /\ Wire(t) \in Wires
      /\ calls[t].view \in Views /\ JournalFine
  BY CallOfThread DEF DexInv, Journal, CallFine, Unsent
<1>2. PICK w \in Wires, i \in Identities : w = Wire(t) /\ i = Id(t)
  BY <1>1
<1>3. PICK row : row = DecideFresh(calls[t].binding, calls[t].view)
  OBVIOUS
<1>4. /\ row \in Decision /\ row # None /\ row.binding = calls[t].binding
      /\ row.admitted => row.gen = row.binding.gen
  <2>1. PICK b \in Bindings, v \in Views : b = calls[t].binding /\ v = calls[t].view
    BY <1>1
  <2>2. PICK yes \in BOOLEAN : yes = (v.live /\ v.ref = b.ref /\ v.gen = b.gen)
    OBVIOUS
  <2>3. row = [binding |-> b, gen |-> v.gen, admitted |-> yes] /\ (yes => v.gen = b.gen)
    BY <1>3, <2>1, <2>2 DEF DecideFresh
  <2>4. row \in Decision
    BY <2>3 DEF Decision
  <2> QED  BY <2>1, <2>3, <2>4 DEF DexAssumption
<1>5. /\ UNCHANGED <<records, log, receipts, fences, fenced, effects>>
      /\ decisions \in [Identities -> Decision \cup {None}]
      /\ cache \in [Wires -> [Identities -> Decision \cup {None}]]
  BY <1>1 DEF Journal, DexTypeOK
<1>6. ASSUME RecordDecision(i, row)
      PROVE  /\ decisions' \in [Identities -> Decision \cup {None}] /\ decisions'[i] = row
             /\ \A j \in Identities : decisions[j] # None => decisions'[j] = decisions[j]
             /\ \A j \in Identities \ {i} : decisions'[j] = decisions[j]
  BY <1>4, <1>5, <1>6 DEF RecordDecision
<1>7. CASE /\ RecordDecision(i, row)
           /\ cache' = [cache EXCEPT ![w][i] = row]
           /\ IF row.admitted THEN Goto(t, "lock") ELSE End(t, "DENIED")
  <2>1. /\ cache' \in [Wires -> [Identities -> Decision \cup {None}]]
        /\ \A x \in Wires, j \in Identities :
             cache'[x][j] = IF x = w /\ j = i THEN row ELSE cache[x][j]
    BY <1>4, <1>5, <1>7
  <2>2. JournalFine'
    BY <1>1, <1>4, <1>6, <1>7, <2>1 DEF JournalFine
  <2>3. CASE row.admitted /\ Goto(t, "lock")
    <3>1. calls'[t].binding = calls[t].binding
      BY <1>1, <2>3, GotoCall DEF Steps
    <3>2. Id(t)' = i
      BY <1>2, <3>1 DEF Id
    <3>3. Admits(Id(t), calls[t].binding)'
      BY <1>4, <1>6, <1>7, <2>3, <3>1, <3>2 DEF Admits
    <3> QED  BY <1>1, <1>5, <1>6, <1>7, <2>1, <2>2, <2>3, <3>3, ToLock, IssuerStep
  <2>4. CASE End(t, "DENIED")
    BY <1>1, <1>5, <1>6, <1>7, <2>1, <2>2, <2>4, EndsUnsent, IssuerStep DEF Outcomes, Completed
  <2> QED  BY <1>7, <2>3, <2>4
<1>8. CASE (RecordDecision(i, row) \/ UNCHANGED decisions) /\ End(t, "RAISED") /\ UNCHANGED cache
  <2>1. /\ decisions' \in [Identities -> Decision \cup {None}]
        /\ \A j \in Identities : decisions[j] # None => decisions'[j] = decisions[j]
    BY <1>5, <1>6, <1>8
  <2>2. JournalFine'
    <3>1. \A x \in Wires, j \in Identities : cache[x][j] # None => cache[x][j] = decisions'[j]
      BY <1>1, <2>1 DEF JournalFine
    <3>2. \A j \in Identities :
            decisions'[j] # None /\ decisions'[j].admitted
            => decisions'[j].gen = decisions'[j].binding.gen
      BY <1>1, <1>4, <1>6, <1>8 DEF JournalFine
    <3> QED  BY <1>8, <3>1, <3>2 DEF JournalFine
  <2> QED
    BY <1>1, <1>5, <1>8, <2>1, <2>2, EndsUnsent, IssuerStep DEF Outcomes, Completed
<1> QED  BY <1>2, <1>3, <1>7, <1>8 DEF Journal

-------------------------------------------------------------------------------
(* The durable fence *)

(* A step that changes the fences and moves the call that holds one. *)
LEMMA FenceStep ==
  ASSUME DexAssumption, DexInv, NEW t \in Threads,
         UNCHANGED <<records, log, receipts, decisions, cache, effects>>,
         fences' \in [Identities -> DispatchFenceRow \cup {None}],
         \A i \in Identities : fences[i] # None =>
           fences'[i] # None /\ fences'[i].binding = fences[i].binding,
         \A i \in Identities : fences[i] = None /\ fences'[i] # None =>
           Admits(i, fences'[i].binding),
         fenced' \in [Wires -> SUBSET Identities],
         \A w \in Wires : fenced[w] \subseteq fenced'[w],
         CallsTyped', \A u \in Threads \ {t} : calls'[u] = calls[u], CallFine(t)',
         calls'[t].at \in Holding =>
           /\ calls'[t].binding = calls[t].binding
           /\ calls[t].at \in Holding \/ fences[Id(t)] = None
  PROVE  DexInv'
<1>1. DexTypeOK'
  BY DEF DexInv, DexTypeOK, CallsTyped
<1>2. Kept(t)
  BY DEF Kept
<1>3. JournalFine' /\ ReceiptsFine'
  BY DEF DexInv, JournalFine, ReceiptsFine, Admits
<1>4. FencesFine'
  BY DEF DexInv, FencesFine, Admits
<1> QED  BY <1>1, <1>2, <1>3, <1>4, CallStep

(* A transition of a fence keeps it, and its binding. *)
LEMMA FenceMarked ==
  ASSUME DexAssumption, DexTypeOK, NEW i \in Identities, NEW state \in FenceStates,
         TransitionFence(i, state) \/ UNCHANGED fences
  PROVE  /\ fences' \in [Identities -> DispatchFenceRow \cup {None}]
         /\ \A j \in Identities : fences[j] # None =>
              fences'[j] # None /\ fences'[j].binding = fences[j].binding
         /\ \A j \in Identities : fences[j] = None => fences'[j] = None
<1>1. fences \in [Identities -> DispatchFenceRow \cup {None}]
  BY DEF DexTypeOK
<1>2. CASE UNCHANGED fences
  BY <1>1, <1>2
<1>3. CASE TransitionFence(i, state)
  <2>1. fences[i] \in DispatchFenceRow /\ fences' = [fences EXCEPT ![i].state = state]
    BY <1>1, <1>3 DEF TransitionFence, CanMark
  <2>2. PICK f : f = fences[i]
    OBVIOUS
  <2>3. PICK n : n = [f EXCEPT !.state = state]
    OBVIOUS
  <2>4. n \in DispatchFenceRow /\ n.binding = f.binding
    BY <2>1, <2>2, <2>3 DEF DispatchFenceRow
  <2>5. n # None
    BY <2>4 DEF DexAssumption
  <2>6. fences' = [fences EXCEPT ![i] = n]
    BY <1>1, <2>1, <2>2, <2>3
  <2> QED  BY <1>1, <2>1, <2>2, <2>4, <2>5, <2>6 DEF DexAssumption
<1> QED  BY <1>2, <1>3

(* A reservation that is committed has no holder yet, and one afterwards. *)
LEMMA ReserveStep ==
  ASSUME DexAssumption, DexInv, NEW t \in Threads, Reserve(t)
  PROVE  DexInv'
<1>1. /\ CallFine(t) /\ DexTypeOK /\ calls[t].at = "reserve" /\ ~calls[t].sent
      /\ calls[t].binding \in Bindings /\ Id(t) \in Identities /\ Wire(t) \in Wires
  BY CallOfThread DEF DexInv, Reserve, CallFine, Unsent
<1>2. /\ UNCHANGED <<records, log, receipts, decisions, cache, effects>>
      /\ fenced \in [Wires -> SUBSET Identities]
      /\ fences \in [Identities -> DispatchFenceRow \cup {None}]
      /\ Admits(Id(t), calls[t].binding)
  BY <1>1 DEF Reserve, DexTypeOK, CallFine, Steps
<1>3. CASE ReserveFence(Id(t), calls[t].binding) /\ (Goto(t, "dispatch") \/ End(t, "RAISED"))
           /\ UNCHANGED fenced
  <2>1. PICK i \in Identities, b \in Bindings : i = Id(t) /\ b = calls[t].binding
    BY <1>1
  <2>2. PICK f : f = [binding |-> b, state |-> "RESERVED"]
    OBVIOUS
  <2>3. f \in DispatchFenceRow /\ f.binding = b
    BY <2>2 DEF DispatchFenceRow, FenceStates
  <2>4. f # None
    BY <2>3 DEF DexAssumption
  <2>5. fences[i] = None /\ fences' = [fences EXCEPT ![i] = f]
    BY <1>3, <2>1, <2>2 DEF ReserveFence
  <2>6. /\ fences' \in [Identities -> DispatchFenceRow \cup {None}] /\ fences'[i] = f
        /\ \A j \in Identities \ {i} : fences'[j] = fences[j]
    BY <1>2, <2>3, <2>5
  <2>7. \A j \in Identities : fences[j] = None /\ fences'[j] # None => Admits(j, fences'[j].binding)
    BY <1>2, <2>1, <2>3, <2>6
  <2>8. CASE End(t, "RAISED")
    BY <1>1, <1>2, <1>3, <2>5, <2>6, <2>7, <2>8, EndsUnsent, FenceStep DEF Outcomes, Completed
  <2>9. CASE Goto(t, "dispatch")
    <3>1. /\ CallsTyped' /\ \A u \in Threads \ {t} : calls'[u] = calls[u]
          /\ calls'[t].at = "dispatch" /\ calls'[t].binding = calls[t].binding
          /\ calls'[t].sent = calls[t].sent
      BY <1>1, <2>9, GotoCall DEF Steps
    <3>2. Id(t)' = i /\ effects'[i] = 0
      BY <1>2, <2>1, <2>5, <3>1 DEF Id, DexInv, FencesFine
    <3>3. Admits(Id(t), calls[t].binding)'
      BY <1>2, <2>1, <3>1, <3>2 DEF Admits
    <3>4. CallFine(t)'
      BY <1>1, <2>4, <2>6, <3>1, <3>2, <3>3
      DEF CallFine, Steps, Holding, Unsent, Sent, Completed, Outcomes
    <3> QED  BY <1>2, <1>3, <2>1, <2>5, <2>6, <2>7, <3>1, <3>4, FenceStep
  <2> QED  BY <1>3, <2>8, <2>9
<1>4. CASE FenceIdentity(t) /\ End(t, "AMBIGUOUS") /\ UNCHANGED fences
  <2>1. /\ fenced' \in [Wires -> SUBSET Identities]
        /\ \A w \in Wires : fenced[w] \subseteq fenced'[w]
    BY <1>1, <1>4, FenceGrows
  <2> QED
    BY <1>1, <1>2, <1>4, <2>1, EndsUnsent, FenceStep DEF Outcomes, Completed
<1>5. CASE End(t, "RAISED") /\ UNCHANGED <<fences, fenced>>
  BY <1>1, <1>2, <1>5, EndsUnsent, FenceStep DEF Outcomes, Completed
<1> QED  BY <1>3, <1>4, <1>5 DEF Reserve

(* The holder marks its fence, or ends fenced. *)
LEMMA MarkDispatchedStep ==
  ASSUME DexAssumption, DexInv, NEW t \in Threads, MarkDispatched(t)
  PROVE  DexInv'
<1>1. /\ CallFine(t) /\ DexTypeOK /\ calls[t].at = "dispatched" /\ calls[t].at \in Holding
      /\ Id(t) \in Identities /\ fences[Id(t)] # None
  BY CallOfThread DEF DexInv, MarkDispatched, CallFine, Holding
<1>2. /\ UNCHANGED <<records, log, receipts, decisions, cache, effects>>
      /\ fenced \in [Wires -> SUBSET Identities]
      /\ TransitionFence(Id(t), "DISPATCHED") \/ UNCHANGED fences
  BY <1>1 DEF MarkDispatched, DexTypeOK
<1>3. /\ fences' \in [Identities -> DispatchFenceRow \cup {None}]
      /\ \A j \in Identities : fences[j] # None =>
           fences'[j] # None /\ fences'[j].binding = fences[j].binding
      /\ \A j \in Identities : fences[j] = None => fences'[j] = None
  BY <1>1, <1>2, FenceMarked DEF FenceStates
<1>4. CASE Goto(t, "collect") /\ UNCHANGED fenced
  <2>1. /\ CallsTyped' /\ \A u \in Threads \ {t} : calls'[u] = calls[u]
        /\ calls'[t].at = "collect" /\ calls'[t].binding = calls[t].binding
        /\ calls'[t].sent = calls[t].sent
    BY <1>1, <1>4, GotoCall DEF Steps
  <2>2. Id(t)' = Id(t)
    BY <2>1 DEF Id
  <2>3. Admits(Id(t), calls[t].binding)'
    BY <1>1, <1>2, <2>1, <2>2 DEF CallFine, Steps, Admits
  <2>4. CallFine(t)'
    BY <1>1, <1>2, <1>3, <2>1, <2>2, <2>3
    DEF CallFine, Steps, Holding, Unsent, Sent, Completed, Outcomes
  <2> QED  BY <1>1, <1>2, <1>3, <1>4, <2>1, <2>4, FenceStep
<1>5. CASE FenceIdentity(t) /\ End(t, "RAISED")
  <2>1. /\ CallsTyped' /\ \A u \in Threads \ {t} : calls'[u] = calls[u]
        /\ calls'[t].at = "RAISED" /\ calls'[t].binding = calls[t].binding
        /\ calls'[t].sent = calls[t].sent
    BY <1>1, <1>5, EndCall DEF Outcomes
  <2>2. /\ fenced' \in [Wires -> SUBSET Identities] /\ Id(t) \in fenced'[Wire(t)]
        /\ \A w \in Wires : fenced[w] \subseteq fenced'[w]
    BY <1>1, <1>5, FenceGrows
  <2>3. Id(t)' = Id(t) /\ Wire(t)' = Wire(t)
    BY <2>1 DEF Id, Wire
  <2>4. CallFine(t)' /\ calls'[t].at \notin Holding
    BY <1>1, <1>2, <2>1, <2>2, <2>3
    DEF CallFine, Steps, Holding, Unsent, Sent, Completed, Outcomes
  <2> QED  BY <1>2, <1>3, <2>1, <2>2, <2>4, FenceStep
<1> QED  BY <1>4, <1>5 DEF MarkDispatched

(* The durable mark changes the state of the fence only. *)
LEMMA MarkFencedStep ==
  ASSUME DexAssumption, DexInv, NEW t \in Threads, MarkFenced(t)
  PROVE  DexInv'
<1>1. /\ CallFine(t) /\ DexTypeOK /\ calls[t].at = "fence" /\ Id(t) \in Identities
      /\ calls[t].then \in Outcomes \ Completed
  BY CallOfThread DEF DexInv, MarkFenced, CallFine
<1>2. /\ UNCHANGED <<records, log, receipts, decisions, cache, effects, fenced>>
      /\ fenced \in [Wires -> SUBSET Identities]
      /\ TransitionFence(Id(t), "FENCED") \/ UNCHANGED fences
  BY <1>1 DEF MarkFenced, DexTypeOK
<1>3. /\ fences' \in [Identities -> DispatchFenceRow \cup {None}]
      /\ \A j \in Identities : fences[j] # None =>
           fences'[j] # None /\ fences'[j].binding = fences[j].binding
      /\ \A j \in Identities : fences[j] = None => fences'[j] = None
  BY <1>1, <1>2, FenceMarked DEF FenceStates
<1>4. PICK outcome \in Outcomes \ Completed : End(t, outcome)
  BY <1>1 DEF MarkFenced, Outcomes, Completed
<1>5. /\ CallsTyped' /\ \A u \in Threads \ {t} : calls'[u] = calls[u]
      /\ calls'[t].at = outcome /\ calls'[t].binding = calls[t].binding
      /\ calls'[t].sent = calls[t].sent
  BY <1>1, <1>4, EndCall
<1>6. Id(t)' = Id(t) /\ Wire(t)' = Wire(t)
  BY <1>5 DEF Id, Wire
<1>7. CallFine(t)' /\ calls'[t].at \notin Holding
  BY <1>1, <1>2, <1>5, <1>6
  DEF CallFine, Steps, Holding, Unsent, Sent, Completed, Outcomes
<1> QED  BY <1>2, <1>3, <1>5, <1>7, FenceStep

(* Retiring a fence keeps it, and the receipt is there. *)
LEMMA RetireStep ==
  ASSUME DexAssumption, DexInv, NEW t \in Threads, Retire(t)
  PROVE  DexInv'
<1>1. /\ CallFine(t) /\ DexTypeOK /\ calls[t].at = "retire" /\ Id(t) \in Identities
      /\ calls[t].then \in Completed
  BY CallOfThread DEF DexInv, Retire, CallFine
<1>2. /\ UNCHANGED <<records, log, receipts, decisions, cache, effects, fenced>>
      /\ fenced \in [Wires -> SUBSET Identities]
      /\ TransitionFence(Id(t), "RETIRED") \/ UNCHANGED fences
  BY <1>1 DEF Retire, DexTypeOK
<1>3. /\ fences' \in [Identities -> DispatchFenceRow \cup {None}]
      /\ \A j \in Identities : fences[j] # None =>
           fences'[j] # None /\ fences'[j].binding = fences[j].binding
      /\ \A j \in Identities : fences[j] = None => fences'[j] = None
  BY <1>1, <1>2, FenceMarked DEF FenceStates
<1>4. PICK outcome \in Completed : End(t, outcome)
  BY <1>1 DEF Retire
<1>5. /\ CallsTyped' /\ \A u \in Threads \ {t} : calls'[u] = calls[u]
      /\ calls'[t].at = outcome /\ calls'[t].binding = calls[t].binding
      /\ calls'[t].sent = calls[t].sent
  BY <1>1, <1>4, EndCall DEF Completed, Outcomes
<1>6. Id(t)' = Id(t) /\ Wire(t)' = Wire(t)
  BY <1>5 DEF Id, Wire
<1>7. CallFine(t)' /\ calls'[t].at \notin Holding
  BY <1>1, <1>2, <1>5, <1>6
  DEF CallFine, Steps, Holding, Unsent, Sent, Completed, Outcomes
<1> QED  BY <1>2, <1>3, <1>5, <1>7, FenceStep

-------------------------------------------------------------------------------
(* The effect and the receipt *)

(* The one start: the call that holds the fence finds the attempt unstarted. *)
LEMMA DispatchEffect ==
  ASSUME DexAssumption, DexInv, NEW t \in Threads, calls[t].at = "dispatch",
         NEW effect \in {0, 1}, effects' = [effects EXCEPT ![Id(t)] = @ + effect]
  PROVE  /\ Id(t) \in Identities /\ effects[Id(t)] = 0
         /\ \A r \in receipts : AttemptOf(r) # Id(t)
         /\ effects' \in [Identities -> Nat] /\ effects'[Id(t)] = effect
         /\ \A i \in Identities \ {Id(t)} : effects'[i] = effects[i]
         /\ effect = 0 => effects' = effects
<1>1. CallFine(t) /\ Id(t) \in Identities /\ effects \in [Identities -> Nat]
  BY CallOfThread DEF DexInv, DexTypeOK
<1>2. effects[Id(t)] = 0
  BY <1>1 DEF CallFine
<1>3. PICK i \in Identities : i = Id(t)
  BY <1>1
<1>4. effects' = [effects EXCEPT ![i] = effect]
  BY <1>1, <1>2, <1>3
<1>5. \A r \in receipts : AttemptOf(r) # Id(t)
  BY <1>2 DEF DexInv, ReceiptsFine
<1> QED  BY <1>1, <1>2, <1>3, <1>4, <1>5

(* Only the holder of the fence starts, and it does so once. *)
LEMMA DispatchStep ==
  ASSUME DexAssumption, DexInv, NEW t \in Threads, Dispatch(t)
  PROVE  DexInv'
<1>1. /\ CallFine(t) /\ DexTypeOK /\ calls[t].at = "dispatch" /\ calls[t].at \in Holding
      /\ Id(t) \in Identities /\ fences[Id(t)] # None
      /\ fenced \in [Wires -> SUBSET Identities]
  BY CallOfThread DEF DexInv, Dispatch, CallFine, Holding, DexTypeOK
<1>2. /\ records' = records /\ log' = log /\ receipts' = receipts /\ decisions' = decisions
      /\ fences' = fences /\ cache' = cache
  BY DEF Dispatch, storeVars
<1>3. PICK effect \in {0, 1} :
        /\ effects' = [effects EXCEPT ![Id(t)] = @ + effect]
        /\ \/ effect = 1 /\ Settle(t, "dispatched", TRUE, None) /\ UNCHANGED fenced
           \/ Settle(t, "fence", effect = 1, "AMBIGUOUS") /\ FenceIdentity(t)
  BY DEF Dispatch
<1>4. /\ effects[Id(t)] = 0 /\ effects' \in [Identities -> Nat] /\ effects'[Id(t)] = effect
      /\ \A r \in receipts : AttemptOf(r) # Id(t)
      /\ \A i \in Identities \ {Id(t)} : effects'[i] = effects[i]
  BY <1>1, <1>3, DispatchEffect
<1>5. PICK yes \in BOOLEAN : yes = (effect = 1)
  OBVIOUS
<1>6. /\ fenced' \in [Wires -> SUBSET Identities]
      /\ \A w \in Wires : fenced[w] \subseteq fenced'[w]
      /\ FenceIdentity(t) => Id(t) \in fenced'[Wire(t)]
  BY <1>1, <1>3, FenceGrows
<1>7. /\ CallsTyped' /\ \A u \in Threads \ {t} : calls'[u] = calls[u]
      /\ calls'[t].binding = calls[t].binding
      /\ \/ calls'[t].at = "dispatched" /\ calls'[t].sent = TRUE /\ effect = 1
         \/ calls'[t].at = "fence" /\ calls'[t].sent = yes /\ calls'[t].then = "AMBIGUOUS"
            /\ FenceIdentity(t)
  <2>1. CASE effect = 1 /\ Settle(t, "dispatched", TRUE, None)
    BY <1>1, <2>1, SettleCall DEF Steps
  <2>2. CASE Settle(t, "fence", effect = 1, "AMBIGUOUS") /\ FenceIdentity(t)
    <3>1. Settle(t, "fence", yes, "AMBIGUOUS")
      BY <1>5, <2>2
    <3> QED  BY <1>1, <2>2, <3>1, SettleCall DEF Steps, Outcomes
  <2> QED  BY <1>3, <2>1, <2>2
<1>8. Id(t)' = Id(t) /\ Wire(t)' = Wire(t)
  BY <1>7 DEF Id, Wire
<1>9. Admits(Id(t), calls[t].binding)'
  BY <1>1, <1>2, <1>7, <1>8 DEF CallFine, Steps, Admits
<1>10. CallFine(t)'
  <2>1. CASE calls'[t].at = "dispatched" /\ calls'[t].sent = TRUE /\ effect = 1
    BY <1>1, <1>2, <1>4, <1>8, <1>9, <2>1
    DEF CallFine, Steps, Holding, Unsent, Sent, Completed, Outcomes
  <2>2. CASE calls'[t].at = "fence" /\ calls'[t].sent = yes /\ calls'[t].then = "AMBIGUOUS"
             /\ FenceIdentity(t)
    BY <1>1, <1>2, <1>4, <1>5, <1>6, <1>8, <1>9, <2>2
    DEF CallFine, Steps, Holding, Unsent, Sent, Completed, Outcomes
  <2> QED  BY <1>7, <2>1, <2>2
<1>11. DexTypeOK'
  BY <1>1, <1>2, <1>4, <1>6, <1>7 DEF DexTypeOK, CallsTyped
<1>12. Kept(t)
  BY <1>1, <1>2, <1>4, <1>6 DEF Kept
<1>13. JournalFine' /\ FencesFine'
  BY <1>1, <1>2, <1>4 DEF DexInv, JournalFine, FencesFine, Admits
<1>14. ReceiptsFine'
  <2>1. \A r \in receipts : effects'[AttemptOf(r)] = effects[AttemptOf(r)]
    <3>1. \A r \in receipts : AttemptOf(r) \in Identities
      BY DEF DexInv, DexTypeOK, DurableExecutionReceipt, AttemptOf, IdentityOf, Identities,
             DexAssumption
    <3> QED  BY <1>4, <3>1
  <2> QED  BY <1>2, <2>1 DEF DexInv, ReceiptsFine, Admits
<1> QED  BY <1>1, <1>7, <1>10, <1>11, <1>12, <1>13, <1>14, CallStep

(* The one receipt: until it is stored its attempt has none. *)
LEMMA ReceiptRecorded ==
  ASSUME DexAssumption, DexInv, NEW t \in Threads, calls[t].at = "receipt",
         NEW r, r = calls[t].receipt, RecordReceipt(r)
  PROVE  /\ r \in DurableExecutionReceipt /\ r.binding = calls[t].binding
         /\ r.gen = r.binding.gen /\ AttemptOf(r) = Id(t) /\ r \notin receipts
         /\ \A s \in receipts : AttemptOf(s) # Id(t)
         /\ receipts' = receipts \cup {r}
         /\ log' \in [Execs -> Seq(DurableExecutionReceipt)]
         /\ \A e \in Execs : log[e] # <<>> => log'[e] # <<>>
         /\ log'[r.binding.exec] # <<>>
<1>1. CallFine(t) /\ log \in [Execs -> Seq(DurableExecutionReceipt)]
  BY DEF DexInv, DexTypeOK
<1>2. /\ r \in DurableExecutionReceipt /\ r.binding = calls[t].binding
      /\ r.gen = r.binding.gen /\ \A s \in receipts : AttemptOf(s) # Id(t)
  BY <1>1 DEF CallFine
<1>3. AttemptOf(r) = Id(t)
  BY <1>2 DEF AttemptOf, Id
<1>4. r \notin receipts /\ receipts' = receipts \cup {r} /\ r.binding.exec \in Execs
  BY <1>2, <1>3 DEF RecordReceipt, DurableExecutionReceipt, DexAssumption
<1>5. PICK e \in Execs : e = r.binding.exec
  BY <1>4
<1>6. log' = [log EXCEPT ![e] = Append(log[e], r)]
  BY <1>4, <1>5 DEF RecordReceipt
<1>7. Append(log[e], r) \in Seq(DurableExecutionReceipt) /\ Append(log[e], r) # <<>>
  BY <1>1, <1>2
<1> QED  BY <1>1, <1>2, <1>3, <1>4, <1>5, <1>6, <1>7

(* The holder stores the first receipt of its attempt. *)
LEMMA StoreReceiptStep ==
  ASSUME DexAssumption, DexInv, NEW t \in Threads, StoreReceipt(t)
  PROVE  DexInv'
<1>1. /\ CallFine(t) /\ DexTypeOK /\ calls[t].at = "receipt" /\ calls[t].at \in Holding
      /\ Id(t) \in Identities /\ fences[Id(t)] # None /\ calls[t].sent
      /\ fenced \in [Wires -> SUBSET Identities] /\ calls[t].sent \in BOOLEAN
  BY CallOfThread DEF DexInv, StoreReceipt, CallFine, Holding, Sent, DexTypeOK, Call
<1>2. UNCHANGED <<records, decisions, fences, cache, fenced, effects>>
  BY DEF StoreReceipt
<1>3. /\ CallsTyped' /\ \A u \in Threads \ {t} : calls'[u] = calls[u]
      /\ calls'[t].binding = calls[t].binding /\ calls'[t].sent = calls[t].sent
      /\ \/ calls'[t].at = "identical" /\ calls'[t].receipt = calls[t].receipt
         \/ calls'[t].at = "retire" /\ calls'[t].then = "COMPLETED"
            /\ RecordReceipt(calls[t].receipt)
  <2>1. CASE Goto(t, "identical")
    BY <1>1, <2>1, GotoCall DEF Steps
  <2>2. CASE Settle(t, "retire", calls[t].sent, "COMPLETED") /\ RecordReceipt(calls[t].receipt)
    <3>1. PICK sent \in BOOLEAN : sent = calls[t].sent
      BY <1>1
    <3> QED  BY <1>1, <2>2, <3>1, SettleCall DEF Steps, Outcomes
  <2> QED  BY <2>1, <2>2 DEF StoreReceipt
<1>4. Id(t)' = Id(t) /\ Wire(t)' = Wire(t)
  BY <1>3 DEF Id, Wire
<1>5. Admits(Id(t), calls[t].binding)' /\ Admits(Id(t), calls[t].binding)
  BY <1>1, <1>2, <1>3, <1>4 DEF CallFine, Steps, Admits
<1>6. CASE calls'[t].at = "identical" /\ calls'[t].receipt = calls[t].receipt
           /\ receipts' = receipts /\ log' = log
  <2>1. CallFine(t)'
    BY <1>1, <1>2, <1>3, <1>4, <1>5, <1>6
    DEF CallFine, Steps, Holding, Unsent, Sent, Completed, Outcomes
  <2> QED  BY <1>1, <1>2, <1>3, <1>6, <2>1, QuietStep DEF storeVars
<1>7. CASE RecordReceipt(calls[t].receipt)
  <2>1. PICK r : r = calls[t].receipt
    OBVIOUS
  <2>2. /\ r \in DurableExecutionReceipt /\ r.binding = calls[t].binding
        /\ r.gen = r.binding.gen /\ AttemptOf(r) = Id(t)
        /\ \A s \in receipts : AttemptOf(s) # Id(t)
        /\ receipts' = receipts \cup {r}
        /\ log' \in [Execs -> Seq(DurableExecutionReceipt)]
        /\ \A e \in Execs : log[e] # <<>> => log'[e] # <<>>
        /\ log'[r.binding.exec] # <<>>
    BY <1>1, <1>7, <2>1, ReceiptRecorded
  <2>3. DexTypeOK'
    BY <1>1, <1>2, <1>3, <2>2 DEF DexTypeOK, CallsTyped
  <2>4. Kept(t)
    BY <1>1, <1>2, <2>2 DEF Kept
  <2>5. JournalFine' /\ FencesFine'
    BY <1>2 DEF DexInv, JournalFine, FencesFine, Admits
  <2>6. effects[Id(t)] = 1
    BY <1>1 DEF CallFine
  <2>7. ReceiptsFine'
    <3>1. \A s \in receipts : s.binding.exec \in Execs
      BY DEF DexInv, DexTypeOK, DurableExecutionReceipt, DexAssumption
    <3>2. \A s \in receipts :
            /\ effects'[AttemptOf(s)] = 1
            /\ Admits(AttemptOf(s), s.binding)'
            /\ s.gen = s.binding.gen
            /\ log'[s.binding.exec] # <<>>
            /\ \A x \in receipts : AttemptOf(x) = AttemptOf(s) => x = s
      BY <1>2, <2>2, <3>1 DEF DexInv, ReceiptsFine, Admits
    <3>3. /\ effects'[AttemptOf(r)] = 1 /\ Admits(AttemptOf(r), r.binding)'
          /\ r.gen = r.binding.gen /\ log'[r.binding.exec] # <<>>
      BY <1>2, <1>5, <2>2, <2>6 DEF Admits
    <3>4. \A s \in receipts : AttemptOf(s) # AttemptOf(r)
      BY <2>2
    <3> QED  BY <2>2, <3>2, <3>3, <3>4 DEF ReceiptsFine
  <2>8. CallFine(t)'
    <3>1. CASE calls'[t].at = "identical" /\ calls'[t].receipt = calls[t].receipt
      BY <1>1, <1>2, <1>3, <1>4, <1>5, <2>1, <2>2, <2>6, <3>1
      DEF CallFine, Steps, Holding, Unsent, Sent, Completed, Outcomes
    <3>2. CASE calls'[t].at = "retire" /\ calls'[t].then = "COMPLETED"
      BY <1>1, <1>2, <1>3, <1>4, <1>5, <2>2, <2>6, <3>2
      DEF CallFine, Steps, Holding, Unsent, Sent, Completed, Outcomes
    <3> QED  BY <1>3, <3>1, <3>2
  <2> QED  BY <1>1, <1>3, <2>3, <2>4, <2>5, <2>7, <2>8, CallStep
<1>8. RecordReceipt(calls[t].receipt)
      \/ (Goto(t, "identical") /\ receipts' = receipts /\ log' = log)
  BY DEF StoreReceipt
<1>9. Goto(t, "identical") => calls'[t].at = "identical" /\ calls'[t].receipt = calls[t].receipt
  BY <1>1, GotoCall DEF Steps
<1> QED  BY <1>6, <1>7, <1>8, <1>9

-------------------------------------------------------------------------------
(* The process and the authority *)

(* The calls, the memory and the fences of a process that dies are gone. *)
LEMMA CrashStep ==
  ASSUME DexAssumption, DexInv, NEW w \in Wires, Crash(w)
  PROVE  DexInv'
<1>1. /\ records' = records /\ log' = log /\ receipts' = receipts /\ decisions' = decisions
      /\ fences' = fences /\ effects' = effects
  BY DEF Crash, storeVars
<1>2. PICK idle : idle = Idle
  OBVIOUS
<1>3. idle \in Call /\ idle.at = "idle" /\ idle.sent = FALSE
  BY <1>2 DEF Idle, Call
<1>4. calls' = [t \in Threads |-> IF Wire(t) = w THEN idle ELSE calls[t]]
  BY <1>2 DEF Crash
<1>5. /\ calls' \in [Threads -> Call]
      /\ \A t \in Threads :
            (Wire(t) = w /\ calls'[t] = idle) \/ (Wire(t) # w /\ calls'[t] = calls[t])
  BY <1>3, <1>4 DEF DexInv, DexTypeOK
<1>6. CallsTyped'
  BY <1>3, <1>5 DEF CallsTyped, DexInv, DexTypeOK
<1>7. /\ fenced' \in [Wires -> SUBSET Identities]
      /\ \A x \in Wires \ {w} : fenced'[x] = fenced[x]
  BY DEF Crash, DexInv, DexTypeOK
<1>8. PICK blank : blank = [i \in Identities |-> None]
  OBVIOUS
<1>9. /\ cache' \in [Wires -> [Identities -> Decision \cup {None}]]
      /\ \A x \in Wires, i \in Identities : cache'[x][i] = IF x = w THEN None ELSE cache[x][i]
  <2>1. blank \in [Identities -> Decision \cup {None}] /\ \A i \in Identities : blank[i] = None
    BY <1>8
  <2>2. cache' = [cache EXCEPT ![w] = blank]
    BY <1>8 DEF Crash
  <2> QED  BY <2>1, <2>2 DEF DexInv, DexTypeOK
<1>10. DexTypeOK'
  BY <1>1, <1>6, <1>7, <1>9 DEF DexInv, DexTypeOK, CallsTyped
<1>11. JournalFine' /\ FencesFine' /\ ReceiptsFine'
  BY <1>1, <1>9 DEF DexInv, JournalFine, FencesFine, ReceiptsFine, Admits
<1>12. ASSUME NEW t \in Threads PROVE CallFine(t)'
  <2>1. CASE calls'[t] = idle
    BY <1>3, <2>1 DEF CallFine, Steps, Holding, Unsent, Sent, Completed, Outcomes
  <2>2. CASE Wire(t) # w /\ calls'[t] = calls[t]
    <3>1. Id(t)' = Id(t) /\ Wire(t)' = Wire(t) /\ fenced'[Wire(t)] = fenced[Wire(t)]
      BY <1>7, <2>2, CallOfThread DEF Id, Wire, DexInv
    <3>2. CallFine(t) /\ (Admits(Id(t), calls[t].binding) => Admits(Id(t), calls[t].binding)')
      BY <1>1, <2>2, <3>1 DEF DexInv, Admits
    <3> QED  BY <1>1, <2>2, <3>1, <3>2 DEF CallFine
  <2> QED  BY <1>5, <2>1, <2>2
<1>13. OneHolder'
  BY <1>3, <1>5 DEF DexInv, OneHolder, Id, Holding
<1> QED  BY <1>10, <1>11, <1>12, <1>13 DEF DexInv

(* A new record of an execution is no concern of the calls. *)
LEMMA CreateExecutionStep ==
  ASSUME DexAssumption, DexInv, NEW e \in Execs, CreateExecution(e)
  PROVE  DexInv'
<1>1. UNCHANGED <<log, receipts, decisions, fences, cache, fenced, calls, effects>>
  BY DEF CreateExecution
<1>2. PICK fp \in Fingerprints : Create(e, NewRecord(fp))
  BY DEF CreateExecution
<1>3. NewRecord(fp) \in ExecutionRecord
  BY DEF NewRecord, ExecutionRecord, TransportState, ExecutionProcessState, DexAssumption
<1>4. PICK row \in ExecutionRecord : row = NewRecord(fp)
  BY <1>3
<1>5. records' = [records EXCEPT ![e] = row]
  BY <1>2, <1>4 DEF Create
<1>6. DexTypeOK'
  BY <1>1, <1>5 DEF DexInv, DexTypeOK
<1>7. JournalFine' /\ FencesFine' /\ ReceiptsFine' /\ OneHolder'
  BY <1>1 DEF DexInv, JournalFine, FencesFine, ReceiptsFine, OneHolder, Admits, Id
<1>8. \A t \in Threads : CallFine(t)'
  BY <1>1 DEF DexInv, CallFine, Admits, Id, Wire
<1> QED  BY <1>6, <1>7, <1>8 DEF DexInv

-------------------------------------------------------------------------------
(* The theorems *)

(* Nothing is journaled, fenced, started or received at first. *)
LEMMA DexInitFine ==
  ASSUME DexAssumption, DexInit
  PROVE  DexInv
<1>1. PICK idle : idle = Idle
  OBVIOUS
<1>2. idle \in Call /\ idle.at = "idle" /\ idle.sent = FALSE
  BY <1>1 DEF Idle, Call
<1>3. \A t \in Threads : calls[t] = idle
  BY <1>1 DEF DexInit
<1>4. calls \in [Threads -> Call]
  BY <1>1, <1>2 DEF DexInit
<1>5. DexTypeOK
  BY <1>2, <1>3, <1>4 DEF DexTypeOK, DexInit, StoreInit
<1>6. JournalFine /\ FencesFine /\ ReceiptsFine
  BY DEF DexInit, StoreInit, JournalFine, FencesFine, ReceiptsFine
<1>7. \A t \in Threads : CallFine(t)
  BY <1>2, <1>3 DEF CallFine, Steps, Holding, Unsent, Sent, Completed, Outcomes
<1>8. OneHolder
  BY <1>2, <1>3 DEF OneHolder, Holding
<1> QED  BY <1>5, <1>6, <1>7, <1>8 DEF DexInv

(* Every step keeps the invariant. *)
LEMMA DexStepFine ==
  ASSUME DexAssumption, DexInv, [DexNext]_dexVars
  PROVE  DexInv'
<1>1. ASSUME NEW t \in Threads, NEW b \in Bindings, NEW v \in Views, Begin(t, b, v)
      PROVE  DexInv'
  BY <1>1, BeginStep
<1>2. ASSUME NEW t \in Threads, Step(t) PROVE DexInv'
  BY <1>2, DecideStep, JournalStep, LockStep, ProbeStep, ReserveStep, DispatchStep,
     MarkDispatchedStep, CollectStep, StoreReceiptStep, FindIdenticalStep, MarkFencedStep,
     RetireStep, StoreUnavailableStep DEF Step
<1>3. ASSUME NEW t \in Threads, Return(t) PROVE DexInv'
  BY <1>3, ReturnStep
<1>4. ASSUME NEW w \in Wires, Crash(w) PROVE DexInv'
  BY <1>4, CrashStep
<1>5. ASSUME NEW e \in Execs, CreateExecution(e) PROVE DexInv'
  BY <1>5, CreateExecutionStep
<1>6. CASE UNCHANGED dexVars
  <2>1. UNCHANGED <<records, log, receipts, decisions, fences, cache, fenced, calls, effects>>
    BY <1>6 DEF dexVars
  <2>2. DexTypeOK' /\ JournalFine' /\ FencesFine' /\ ReceiptsFine' /\ OneHolder'
    BY <2>1 DEF DexInv, DexTypeOK, JournalFine, FencesFine, ReceiptsFine, OneHolder, Admits, Id
  <2>3. \A t \in Threads : CallFine(t)'
    BY <2>1 DEF DexInv, CallFine, Admits, Id, Wire
  <2> QED  BY <2>2, <2>3 DEF DexInv
<1> QED  BY <1>1, <1>2, <1>3, <1>4, <1>5, <1>6 DEF DexNext

(* The invariant of the dispatch holds from the start on. *)
THEOREM DexInvariant == ASSUME DexAssumption PROVE DexSpec => []DexInv
<1>1. DexInit => DexInv
  BY DexInitFine
<1>2. DexInv /\ [DexNext]_dexVars => DexInv'
  BY DexStepFine
<1> QED  BY <1>1, <1>2, PTL DEF DexSpec

(***************************************************************************)
(* DexSafety for every set of processes, threads and bindings: an attempt   *)
(* is started at most once and only as the journal admitted it, whatever    *)
(* processes die, whatever the transport answers and whatever transaction   *)
(* fails, before or after its commit; its one receipt is about that start;  *)
(* COMPLETED is durable; and any other answer after a start leaves the      *)
(* identity fenced.                                                         *)
(***************************************************************************)
THEOREM DexIsSafe == ASSUME DexAssumption PROVE DexSpec => []DexSafety
<1>1. DexInv => DexSafety
  <2> SUFFICES ASSUME DexInv PROVE DexSafety
    OBVIOUS
  <2>1. StartedOnce
    BY DEF DexInv, FencesFine, StartedOnce
  <2>2. OnlyAdmittedStarted
    BY DEF DexInv, FencesFine, OnlyAdmittedStarted, Admits
  <2>3. ReceiptOfTheEffect
    <3>1. \A r \in receipts : AttemptOf(r) \in Identities
      BY DEF DexInv, DexTypeOK, DurableExecutionReceipt, AttemptOf, IdentityOf, Identities,
             DexAssumption
    <3> QED  BY <3>1 DEF DexInv, ReceiptsFine, JournalFine, ReceiptOfTheEffect, Admits, AttemptOf
  <2>4. CompletionIsDurable
    BY DEF DexInv, CallFine, CompletionIsDurable, Completed
  <2>5. FencedAfterEffect
    BY DEF DexInv, CallFine, FencedAfterEffect, Completed
  <2> QED  BY <2>1, <2>2, <2>3, <2>4, <2>5 DEF DexSafety, DexInv
<1> QED  BY <1>1, DexInvariant, PTL

(* A step of the dispatch is a start, a receipt or a stutter of DispatchOnce. *)
LEMMA StepIsOnce ==
  ASSUME DexAssumption, DexInv, [DexNext]_dexVars
  PROVE  Once!Next \/ UNCHANGED <<effects, receipts>>
<1>1. ASSUME NEW t \in Threads, Dispatch(t)
      PROVE  Once!Next \/ UNCHANGED <<effects, receipts>>
  <2>1. PICK effect \in {0, 1} : effects' = [effects EXCEPT ![Id(t)] = @ + effect]
    BY <1>1 DEF Dispatch
  <2>2. /\ Id(t) \in Identities /\ effects[Id(t)] = 0
        /\ \A r \in receipts : AttemptOf(r) # Id(t)
        /\ effect = 0 => effects' = effects
    BY <1>1, <2>1, DispatchEffect DEF Dispatch
  <2>3. receipts' = receipts
    BY <1>1 DEF Dispatch, storeVars
  <2>4. CASE effect = 1
    <3>1. effects' = [effects EXCEPT ![Id(t)] = 1]
      BY <2>1, <2>2, <2>4
    <3>2. Once!Start(Id(t))
      BY <2>2, <2>3, <3>1 DEF Once!Start
    <3> QED  BY <2>2, <3>2 DEF Once!Next
  <2>5. CASE effect = 0
    BY <2>2, <2>3, <2>5
  <2> QED  BY <2>4, <2>5
<1>2. ASSUME NEW t \in Threads, StoreReceipt(t)
      PROVE  Once!Next \/ UNCHANGED <<effects, receipts>>
  <2>1. effects' = effects
    BY <1>2 DEF StoreReceipt
  <2>2. CASE RecordReceipt(calls[t].receipt)
    <3>1. PICK r : r = calls[t].receipt
      OBVIOUS
    <3>2. /\ AttemptOf(r) = Id(t) /\ receipts' = receipts \cup {r}
          /\ \A s \in receipts : AttemptOf(s) # Id(t)
      BY <1>2, <2>2, <3>1, ReceiptRecorded DEF StoreReceipt
    <3>3. effects[Id(t)] = 1 /\ Id(t) \in Identities
      BY <1>2, CallOfThread DEF DexInv, CallFine, StoreReceipt, Sent
    <3>4. Once!Finish(Id(t))
      BY <2>1, <3>2, <3>3 DEF Once!Finish
    <3> QED  BY <3>3, <3>4 DEF Once!Next
  <2> QED  BY <1>2, <2>1, <2>2 DEF StoreReceipt
<1>3. ASSUME NEW t \in Threads, Step(t), ~Dispatch(t), ~StoreReceipt(t)
      PROVE  UNCHANGED <<effects, receipts>>
  BY <1>3 DEF Step, Decide, Journal, Lock, Probe, Reserve, MarkDispatched, Collect,
              FindIdentical, MarkFenced, Retire, StoreUnavailable, storeVars
<1>4. ASSUME NEW t \in Threads, NEW b \in Bindings, NEW v \in Views, Begin(t, b, v)
      PROVE  UNCHANGED <<effects, receipts>>
  BY <1>4 DEF Begin, storeVars
<1>5. ASSUME NEW t \in Threads, Return(t) PROVE UNCHANGED <<effects, receipts>>
  BY <1>5 DEF Return, storeVars
<1>6. ASSUME NEW w \in Wires, Crash(w) PROVE UNCHANGED <<effects, receipts>>
  BY <1>6 DEF Crash, storeVars
<1>7. ASSUME NEW e \in Execs, CreateExecution(e) PROVE UNCHANGED <<effects, receipts>>
  BY <1>7 DEF CreateExecution
<1>8. CASE UNCHANGED dexVars
  BY <1>8 DEF dexVars
<1> QED  BY <1>1, <1>2, <1>3, <1>4, <1>5, <1>6, <1>7, <1>8 DEF DexNext

(***************************************************************************)
(* RefinesDispatchOnce: threads, processes and the store together are a     *)
(* dispatcher that starts an attempt once and then stores its one receipt.  *)
(***************************************************************************)
THEOREM DexDispatchesOnce == ASSUME DexAssumption PROVE DexSpec => RefinesDispatchOnce
<1>1. DexInit => Once!Init
  BY DEF DexInit, StoreInit, Once!Init
<1>2. DexInv /\ [DexNext]_dexVars => [Once!Next]_<<effects, receipts>>
  BY StepIsOnce
<1> QED  BY <1>1, <1>2, DexInvariant, PTL DEF DexSpec, RefinesDispatchOnce, Once!Spec
===============================================================================
