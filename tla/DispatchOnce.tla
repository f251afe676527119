----------------------------- MODULE DispatchOnce -----------------------------
(***************************************************************************)
(* What the dispatch of dex_wire.py promises: an attempt is started at most *)
(* once, and gets at most one receipt, after it was started.                *)
(***************************************************************************)
EXTENDS Integers

CONSTANTS
  Attempt,        \* identities of attempts
  AttemptOf(_)    \* the identity a receipt is about

VARIABLES started, receipts

Start(i) ==
  /\ started[i] = 0
  /\ \A r \in receipts : AttemptOf(r) # i
  /\ started' = [started EXCEPT ![i] = 1]
  /\ UNCHANGED receipts

Finish(i) ==
  /\ started[i] = 1
  /\ \A r \in receipts : AttemptOf(r) # i
  /\ \E r \in receipts' :
       /\ AttemptOf(r) = i
       /\ receipts' = receipts \cup {r}
  /\ UNCHANGED started

Init == started = [i \in Attempt |-> 0] /\ receipts = {}
Next == \E i \in Attempt : Start(i) \/ Finish(i)
Spec == Init /\ [][Next]_<<started, receipts>>

===============================================================================
