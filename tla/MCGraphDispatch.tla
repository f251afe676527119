--------------------------- MODULE MCGraphDispatch ---------------------------
(***************************************************************************)
(* The instance of GraphDispatch for TLC.                                   *)
(***************************************************************************)
EXTENDS GraphDispatch, TLC

CONSTANTS j1, w1, w2, t1, m1, m2, d1, d2

(* Two workers' requests for the same node: one pushed, one offered. *)
MCRequests ==
  {[job |-> j1, worker |-> w1, terms |-> t1, max |-> 2, ref |-> m1, pull |-> FALSE],
   [job |-> j1, worker |-> w2, terms |-> t1, max |-> 2, ref |-> m2, pull |-> TRUE]}

Symmetry == Permutations({d1, d2})
===============================================================================
