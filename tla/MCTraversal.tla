----------------------------- MODULE MCTraversal -----------------------------
(***************************************************************************)
(* The engine on graphs of every shape, of three blocks besides entry and  *)
(* exit, with transfer functions that gain, lose, forget and swap members  *)
(* of one pset, monotone or not.                                           *)
(***************************************************************************)
EXTENDS Lifetime

MCTypeInfo == [t \in {"int"} |-> [category |-> "Value"]]
MCDeclInfo == [d \in {"v", "a", "b"} |-> [kind |-> "Local", type |-> "int", extending |-> NoDecl]]

V == Var("v")
A == Var("a")
B == Var("b")

(* What a block does to pset(v): <<its true outcome, its false outcome>>.  *)
Outcomes(kind, ps) ==
  CASE kind = "keep"   -> <<ps, NoPMap>>
    [] kind = "gain"   -> <<ps \cup {B}, NoPMap>>
    [] kind = "forget" -> <<{A}, NoPMap>>
    [] kind = "swap"   -> <<IF B \in ps THEN {A} ELSE {B}, NoPMap>>
    [] kind = "split"  -> <<ps \ {A}, {A}>>

PMapOf(ps) == V :> ps

(* A block that does nothing leaves the false psets it is given alone.     *)
MCVisitBlock(f, b, pmap, falseSet, exprSets) ==
  LET before == IF V \in DOMAIN pmap THEN pmap[V] ELSE {A}
      after == Outcomes(f.kind[b], before)
  IN  [pmap |-> PMapOf(after[1]),
       falseExit |-> IF after[2] = NoPMap THEN falseSet ELSE PMapOf(after[2]),
       exprs |-> exprSets, diags |-> <<>>]

Edge(b) == [to |-> b, reachable |-> TRUE]
EdgesTo(bs) == [i \in DOMAIN bs |-> Edge(bs[i])]
Pruned(edges) == [edges EXCEPT ![2].reachable = FALSE]
Inner == <<"b1", "b2", "b3">>

(* A noop block has no elements, the others one statement; b1 may also end *)
(* in a switch, or in a condition that never fails.                        *)
MCFunctionDecls ==
  [s1 : {EdgesTo(<<"b2">>), EdgesTo(<<"b2", "b3">>), EdgesTo(<<"b3", "b2">>), EdgesTo(<<"b2", "exit">>),
         EdgesTo(<<"b2", "b3", "exit">>), Pruned(EdgesTo(<<"b2", "b3">>))},
   s2 : {<<"b1">>, <<"b3">>, <<"b1", "b3">>, <<"b2", "b3">>, <<"b3", "exit">>},
   s3 : {<<"exit">>, <<"b1">>, <<"b1", "exit">>, <<"b2", "exit">>},
   k1 : {"keep", "split"}, k2 : {"gain", "swap", "split"}, k3 : {"forget", "split"},
   for : {{}, {"b1"}}, noop : {{}, {"b2"}}]

Graph(d) ==
  LET blocks == {"entry", "b1", "b2", "b3", "exit"}
      for == IF Len(d.s1) = 2 THEN d.for ELSE {}
  IN  [blocks |-> blocks, entry |-> "entry", exit |-> "exit",
       rank |-> [b \in blocks |-> CASE b = "entry" -> 0 [] b = "b1" -> 1 [] b = "b2" -> 2
                                    [] b = "b3" -> 3 [] b = "exit" -> 4],
       succs |-> [b \in blocks |-> CASE b = "entry" -> EdgesTo(<<"b1">>) [] b = "exit" -> <<>>
                                     [] b = "b1" -> d.s1 [] b = "b2" -> EdgesTo(d.s2)
                                     [] b = "b3" -> EdgesTo(d.s3)],
       elems |-> [b \in blocks |-> IF b \in d.noop THEN <<>> ELSE <<"stmt">>],
       nodes |-> [n \in {"stmt"} |-> [k |-> "OtherStmt", isBool |-> FALSE]],
       kind |-> [b \in blocks |-> CASE b \in d.noop -> "keep" [] b = "b1" -> d.k1
                                    [] b = "b2" -> d.k2 [] b = "b3" -> d.k3 [] OTHER -> "keep"],
       forBlocks |-> for, noReturn |-> {}, params |-> {}, this |-> NoDecl, members |-> {},
       pre |-> <<>>, post |-> <<>>, returnType |-> NoType, isDestructor |-> FALSE,
       suppressed |-> {}]

MCBody == [d \in MCFunctionDecls |-> Graph(d)]
=============================================================================
