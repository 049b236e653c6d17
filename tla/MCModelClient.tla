--------------------------- MODULE MCModelClient ----------------------------
(* The model client with the two calls the review DAG has in flight at once.*)
EXTENDS ModelClient
CONSTANTS c1, c2
MCCalls == {c1, c2}
=============================================================================
