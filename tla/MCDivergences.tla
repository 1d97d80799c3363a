--------------------------- MODULE MCDivergences ----------------------------
(* The analysis of programs on which the code departs from its comments.   *)
EXTENDS DivergentPrograms, Execution
=============================================================================
