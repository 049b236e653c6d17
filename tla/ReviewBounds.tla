----------------------------- MODULE ReviewBounds ----------------------------
(***************************************************************************)
(* The bound the reviewer DAG and the review command share: a response of  *)
(* the model may hold any number of findings, here at most MaxFindings.    *)
(***************************************************************************)
EXTENDS Naturals

CONSTANT MaxFindings        \* findings in one response
ASSUME DagAssumption == MaxFindings \in Nat
==============================================================================
