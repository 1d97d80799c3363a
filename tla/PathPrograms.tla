---------------------------- MODULE PathPrograms ----------------------------
(***************************************************************************)
(* Programs whose faults depend on the path taken: branches, loops whose   *)
(* psets need several visits to settle, and full expressions that span     *)
(* blocks.                                                                 *)
(***************************************************************************)
EXTENDS MCPrograms

Skip  == <<"skip">>
Tests == {<<"flag">>, <<"test", "p">>, <<"testNot", "q">>}

(* An if statement on a flag, on a pointer or on the conjunction or        *)
(* disjunction of two tests; one that chooses what pp points to before     *)
(* something is stored there; one that sets a pointer that was unset, to   *)
(* a local that is gone soon after the paths meet, or to null; and one     *)
(* where something may be stored through such a pointer then.              *)
PointerTests == {<<"test", "p">>, <<"testNot", "q">>, <<"test", "q">>}
Moves == {<<"null", "p">>, <<"addr", "p", "x">>, <<"copy", "p", "q">>, <<"copy", "q", "p">>}
Branches ==
  ({"branch"} \X Tests \X (Moves \cup {<<"addr", "p", "y">>, <<"addr", "q", "y">>})
     \X (Moves \cup {<<"deref", "q">>}) \X {Skip, <<"deref", "q">>})
  \cup ({"and", "or"} \X PointerTests \X PointerTests
     \X {<<"deref", "p">>, <<"deref", "q">>} \X {<<"deref", "p">>, <<"addr", "p", "x">>})
  \cup ({"through"} \X {<<"flag">>, <<"test", "q">>}
     \X {<<"addr", "pp", "p">>, <<"addr", "pp", "q">>} \X {<<"addr", "pp", "p">>, <<"addr", "pp", "q">>}
     \X {<<"store", "pp", "q">>, <<"store", "pp", "p">>, <<"load", "p", "pp">>})
  \cup ({"scoped"} \X {<<"flag">>, <<"test", "q">>}
     \X {<<"addr", "p", "y">>, <<"null", "p">>}
     \X {Skip, <<"addr", "p", "y">>, <<"null", "p">>} \X {Skip, <<"deref", "q">>})
  \cup ({"outlived"} \X {<<"flag">>, <<"test", "p">>}
     \X {<<"addr", "pp", "p">>, <<"addr", "pp", "q">>} \X {<<"store", "pp", "p">>, <<"load", "p", "pp">>})

(* Pointers handed on from one iteration to the next, to locals that are   *)
(* gone by then, or through a pointer to a pointer.                        *)
Loops ==
  ({"while"} \X Tests
     \X {<<"addr", "p", "y">>, <<"copy", "p", "q">>, <<"deref", "q">>}
     \X {<<"addr", "q", "y">>, <<"copy", "q", "p">>, <<"deref", "p">>} \X {Skip, <<"deref", "q">>})
  \cup ({"for"} \X Tests \X {<<"addr", "p", "x">>, <<"copy", "p", "q">>} \X {Skip, <<"deref", "q">>})
  \cup ({"do"} \X Tests \X Tests \X {<<"copy", "p", "q">>, <<"deref", "p">>}
     \X {<<"copy", "q", "p">>, <<"null", "q">>} \X {Skip})
  \cup ({"whileIf"} \X {Skip, <<"load", "q", "pp">>} \X Tests \X {<<"store", "pp", "q">>, <<"null", "q">>}
     \X {<<"addr", "pp", "q">>} \X {<<"load", "p", "pp">>, <<"deref", "q">>}
     \X {Skip, <<"store", "pp", "p">>} \X {Skip})

(* A conditional operator has its operands in two blocks and is itself in  *)
(* the block where they meet.  The psets of its operands wait there in     *)
(* between, in tables all blocks share, and in a loop a visit may find     *)
(* those of an earlier one.                                                *)
Uses  == {<<"choose", "p">>, <<"choose", "q">>, <<"derefChosen">>}
Conditionals ==
  ({"once"} \X {Skip} \X Tests \X {<<"arm", "p">>, <<"arm", "q">>} \X {<<"armNull">>, <<"arm", "q">>}
     \X Uses \X {Skip} \X {Skip, <<"deref", "q">>})
  \cup ({"once"} \X {<<"address", "x">>} \X Tests \X {<<"armVar", "p">>} \X {<<"armVar", "q">>}
     \X {<<"setChosen">>} \X {Skip} \X {Skip, <<"null", "q">>})
  \cup ({"again"} \X {Skip, <<"null", "q">>} \X Tests \X {<<"arm", "p">>} \X {<<"armNull">>, <<"arm", "q">>}
     \X Uses \X {<<"addr", "p", "x">>, <<"addr", "q", "y">>} \X {<<"deref", "q">>})

MCFunctionDecls == Branches \cup Loops \cup Conditionals
Bodies ==
  Table([d \in MCFunctionDecls |->
     CASE d[1] = "branch"         -> IfElse(Prologue, d[2], d[3], d[4], d[5])
       [] d[1] = "through"        -> IfElse(PrologueWithPP, d[2], d[3], d[4], d[5])
       [] d[1] = "scoped"         -> Scoped(d[2], d[3], d[4], d[5])
       [] d[1] = "outlived"       -> Outlived(d[2], d[3], d[4])
       [] d[1] \in {"and", "or"}  -> IfLogical(d[1], d[2], d[3], d[4], d[5], Skip)
       [] d[1] = "while"          -> While(d[2], d[3], d[4], d[5])
       [] d[1] = "for"            -> For(d[2], d[3], d[4])
       [] d[1] = "do"             -> DoWhile(d[2], d[3], d[4], d[5], d[6])
       [] d[1] = "whileIf"        -> WhileIf(d[2], d[3], d[4], d[5], d[6], d[7], d[8])
       [] d[1] = "once"           -> Conditionally(<<At("address", d[2])>>, d[3], d[4], d[5], d[6], d[8])
       [] d[1] = "again"          -> WhileConditionally(d[2], d[3], d[4], d[5], d[6], d[7], d[8])])
MCBody == LET body == Bodies IN body
=============================================================================
