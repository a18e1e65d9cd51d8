----------------------------- MODULE BoundedCache -----------------------------
(***************************************************************************)
(* What the plan cache promises: saving a plan is one atomic step, nothing *)
(* but a save changes the cache, a save keeps the plan it saves, replaces  *)
(* the one saved before under the same key, and drops others only to keep  *)
(* to the capacity, the oldest first.                                      *)
(***************************************************************************)
EXTENDS Integers, FiniteSets

CONSTANTS Keys, Plans, Times, Capacity

VARIABLE cache

Records == [key : Keys, plan : Plans, saved : Times]

\* all without its oldest records, as many as are too many; e was saved last.
Newest(all, e) ==
  IF Cardinality(all) <= Capacity THEN {all}
  ELSE {kept \in SUBSET all :
          /\ Cardinality(kept) = Capacity
          /\ e \in kept
          /\ \A old \in all \ kept, k \in kept : old.saved <= k.saved}

Replaced(e) == {f \in cache : f.key # e.key} \cup {e}

Init == cache = {}

Save(e) ==
  /\ \A f \in cache : f.saved <= e.saved
  /\ cache' \in Newest(Replaced(e), e)

Next == \E e \in Records : Save(e)

Spec == Init /\ [][Next]_cache
==============================================================================
