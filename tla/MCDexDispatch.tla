---------------------------- MODULE MCDexDispatch ----------------------------
(***************************************************************************)
(* The instance of DexDispatch for TLC.                                     *)
(***************************************************************************)
EXTENDS DexDispatch, TLC

CONSTANTS e1, a1, w1, w2, t1, t2, t3

(* Three threads of two processes dispatch one attempt, whose claim may     *)
(* have been handed on from generation 0 to generation 1.                   *)
MCWireOf == t1 :> w1 @@ t2 :> w1 @@ t3 :> w2
MCBindings == [exec: {e1}, attempt: {a1}, ref: {"claim"}, gen: {0, 1}, other: {"x"}]
View(gen, live) == [ref |-> "claim", gen |-> gen, live |-> live]
MCViews == {View(0, TRUE), View(1, TRUE), View(1, FALSE)}

ASSUME DexInstance == DexAssumption

Symmetry == Permutations({t1, t2})
===============================================================================
