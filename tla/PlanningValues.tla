---------------------------- MODULE PlanningValues -----------------------------
(* The values that stand for what a planning project does not have. *)
CONSTANTS
    Absent,         \* a field or a file that is not there
    Nothing         \* no phase, no checkbox, no row, no name, no call

\* A map with one more entry, or with another value for one.
Put(map, key, value) ==
  [k \in {key} \cup DOMAIN map |-> IF k = key THEN value ELSE map[k]]
================================================================================
