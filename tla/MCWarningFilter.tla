--------------------------- MODULE MCWarningFilter ---------------------------
(***************************************************************************)
(* Questions about graphs of three blocks besides entry and exit.          *)
(***************************************************************************)
EXTENDS WarningFilter

Blocks == {"entry", "a", "b", "c", "exit"}

Succs ==
  {[entry |-> e, a |-> a, b |-> b, c |-> c, exit |-> <<>>] :
     e \in {<<"a">>, <<"a", "b">>, <<"b", "a">>},
     a \in {<<"b">>, <<"b", "c">>, <<"exit", "b">>, <<None, "c">>},
     b \in {<<"c">>, <<"c", "a">>, <<"c", "exit">>, <<"exit">>},
     c \in {<<"exit">>, <<"a", "exit">>, <<"b", "b">>, <<"exit", "c">>}}

(* The variable is doubtful on entry to each block but one, where it does  *)
(* not exist yet; the cleaning blocks set it right.                        *)
Query(succs, source, dest, cleaning) ==
  [blocks |-> Blocks, entry |-> "entry", exit |-> "exit", succs |-> succs,
   source |-> source, dest |-> dest,
   before |-> [b \in Blocks \ {"entry"} |-> {Invalid}],
   after |-> [b \in Blocks |-> IF b \in cleaning THEN {} ELSE {Null}]]

MCQueries ==
  {Query(s, source, dest, cleaning) :
     s \in Succs, source \in {"entry", "a", "b"}, dest \in {"b", "c"},
     cleaning \in {{"a"}, {"b"}, {"c"}, {"a", "b"}, {"entry"}}}
=============================================================================
