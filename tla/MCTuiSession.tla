---------------------------- MODULE MCTuiSession ----------------------------
(* Two findings and three results for TuiSession. *)
EXTENDS TuiSession

F1 == [id |-> "f1", severity |-> 5, score |-> 9, evidence |-> 2, blocking |-> TRUE]
F2 == [id |-> "f2", severity |-> 5, score |-> 8, evidence |-> 0, blocking |-> FALSE]
F3 == [id |-> "f3", severity |-> 2, score |-> 3, evidence |-> 1, blocking |-> TRUE]

MCResults == {{}, {F1, F3}, {F2, F3}}
=============================================================================
