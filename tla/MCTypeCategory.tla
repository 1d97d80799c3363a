--------------------------- MODULE MCTypeCategory ---------------------------
(***************************************************************************)
(* Programs for TypeCategory: an int, a pointer to it and three classes.   *)
(***************************************************************************)
EXTENDS TypeCategory, TLC

MCTypes == {"int", "int*", "int[]", "A", "B", "C"}

Scalar == [kind |-> "scalar"]
ArrayOf(t) == [kind |-> "array", to |-> t]
PointerTo(t) == [kind |-> "pointer", to |-> t]
Plain == [kind |-> "class", special |-> "none", methods |-> <<>>, valueType |-> NoType,
          targ |-> NoType, owner |-> Absent, pointer |-> Absent, ofTemplate |-> Absent,
          trivialDtor |-> TRUE, isAggregate |-> FALSE, bases |-> <<>>, early |-> FALSE]

World(a, b, c) ==
  ("int" :> Scalar) @@ ("int*" :> PointerTo("int")) @@ ("int[]" :> ArrayOf("int")) @@
  ("A" :> a) @@ ("B" :> b) @@ ("C" :> c)

-----------------------------------------------------------------------------
(* An iterator or a smart pointer A, a container or a view B that hands    *)
(* out an A, a pointer or an int, and a class C made from both.            *)

Iterator == [Plain EXCEPT !.methods = ("operator*" :> "int*") @@ ("operator++" :> "int")]
Iterators ==
  {Iterator,
   [Plain EXCEPT !.methods = "operator->" :> "int*", !.trivialDtor = FALSE],
   [Plain EXCEPT !.special = "closure"],
   [Plain EXCEPT !.special = "vectorBool"],
   [Plain EXCEPT !.pointer = Inferred],
   [Plain EXCEPT !.isAggregate = TRUE]}

Containers ==
  {[Plain EXCEPT !.methods = ("begin" :> t) @@ end, !.trivialDtor = trivial, !.targ = targ] :
     t \in {"A", "int*", "int"}, end \in {<<>>, "end" :> "int"}, trivial \in BOOLEAN,
     targ \in {NoType, "int"}}
  \cup {[Plain EXCEPT !.valueType = "A", !.owner = "int", !.methods = "begin" :> "A"],
        [Plain EXCEPT !.owner = Inferred, !.methods = "operator[]" :> "A"],
        [Plain EXCEPT !.ofTemplate = "Owner", !.targ = "int"]}

Combinations ==
  {[Plain EXCEPT !.bases = bases, !.isAggregate = TRUE] : bases \in {<<>>, <<"A">>, <<"B">>, <<"A", "B">>}}
  \cup {[Plain EXCEPT !.bases = <<"B">>, !.methods = "operator*" :> "B"]}

Layered == {World(a, b, c) : a \in Iterators, b \in Containers, c \in Combinations}

(* The same when an iterator is spoken of before it is defined. *)
MCForwardDeclared == {[w EXCEPT !["A"].early = TRUE] : w \in Layered}

-----------------------------------------------------------------------------
(* Classes whose begin() hands out one of them, C being derived from A and *)
(* B declared early: each of these programs has a class that asks for      *)
(* itself.                                                                 *)

Ranges(begins, targs, trivials, bases, early) ==
  {[Plain EXCEPT !.methods = ("begin" :> t) @@ ("end" :> t), !.targ = targ,
                 !.trivialDtor = trivial, !.bases = bases, !.early = early] :
     t \in begins, targ \in targs, trivial \in trivials}

Entangled(as, bs) ==
  {World(a, b, c) : a \in Ranges(as, {NoType, "int"}, BOOLEAN, <<>>, FALSE),
                    b \in Ranges(bs, {NoType, "int"}, {TRUE}, <<>>, TRUE),
                    c \in Ranges({"B", "C"}, {NoType}, {TRUE}, <<"A">>, FALSE)}

MCWorlds ==
  Layered \cup Entangled({"A", "B", "C"}, {"A", "B"}) \cup Entangled({"A", "C"}, {"int*"})
=============================================================================
