---------------------------- MODULE LeaseAuthority ----------------------------
(***************************************************************************)
(* What worker_lease.py promises its callers, with nothing of how: every    *)
(* worker is granted to at most one owner, every owner has at most one      *)
(* worker, and an area of the disk (a set of <<hotspot, path>> pairs) is    *)
(* granted for mutation only while no other grant covers any of it.  Only   *)
(* grants inherited from before the authority existed may overlap.          *)
(***************************************************************************)
CONSTANTS Owners, Workers, Areas, NoGrant

VARIABLE granted  \* worker -> [owner, area], or NoGrant

Grants == [owner: Owners, area: Areas]

Taken == {w \in Workers : granted[w] # NoGrant}

Init ==
  /\ granted \in [Workers -> Grants \cup {NoGrant}]
  /\ \A v, w \in Taken : v # w => granted[v].owner # granted[w].owner

Grant(w, g) ==
  /\ granted[w] = NoGrant
  /\ \A v \in Taken : /\ granted[v].owner # g.owner
                      /\ granted[v].area \cap g.area = {}
  /\ granted' = [granted EXCEPT ![w] = g]

Free(w) ==
  /\ granted[w] # NoGrant
  /\ granted' = [granted EXCEPT ![w] = NoGrant]

Next == \E w \in Workers : Free(w) \/ \E g \in Grants : Grant(w, g)

Spec == Init /\ [][Next]_granted
===============================================================================
