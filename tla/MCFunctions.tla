---------------------------- MODULE MCFunctions -----------------------------
(* The analysis of functions with contracts and calls, and their execution. *)
EXTENDS FunctionPrograms, Execution
=============================================================================
