------------------------- MODULE DivergentPrograms --------------------------
(***************************************************************************)
(* Small programs on which the code departs from what its comments say.    *)
(***************************************************************************)
EXTENDS MCPrograms

Skip == <<"skip">>

(* for (; c;) { *q; } *p;  The body leaves the psets as they are.          *)
ForStatements == {"for"} \X {<<"flag">>} \X {Skip, <<"deref", "q">>} \X {Skip}

(* while (c) { if ((bool)(p && !q)) ; else *q;  int y; q = &y; }  The true *)
(* outcome of the condition does not see q change.                         *)
NoopInLoop ==
  {"logical"} \X {<<"test", "p">>} \X {<<"testNot", "q">>} \X {<<"addr", "q", "y">>}

(* while (c) { int *&r = *pp; if (r) ; else *q;  q = nullptr; pp = &q; }   *)
(* r names one pointer on the first visit and two on the second.           *)
TestThroughReference ==
  {"through"} \X {<<"bind", "r", "pp">>} \X {<<"test", "r">>} \X {<<"null", "q">>} \X {<<"addr", "pp", "q">>}

(* while (c) { p = &x; } *p;  is first seen with p null.                   *)
SetInLoop == {"while"} \X {<<"flag">>} \X {<<"addr", "p", "x">>} \X {Skip}

(* if (c) { p = f(e, a); } *p;  where this is f(a, e) itself.              *)
SwappedCall == {"call"} \X {<<"call", "p", "f", "e", "a">>} \X {Skip} \X {Skip}

(* p = a; if (c) { p = o.get(); } o.reset(); *p;                           *)
MayDangle == {"call"} \X {<<"get", "p", "o">>} \X {Skip} \X {<<"reset", "o">>}

(* p1 = peek(5); *p1;  with no declaration in between.                     *)
Forgotten == {"temporary"} \X {<<"peek", "pc">>} \X {<<"deref", "pc">>}

(* A h, k; A *ph = c ? &h : &k; A g = *ph;                                 *)
CopyOneOf == {"copy"} \X {<<"addr", "ph", "h">>} \X {<<"addr", "ph", "k">>}

(* A h, k, g; h.s = nullptr; A *ph = c ? &h : &k; g.s = &x; *ph = g;       *)
(* p = h.s; *p;                                                            *)
AssignOneOf == {"assign"} \X {<<"addr", "ph", "h">>} \X {<<"addr", "ph", "k">>}

(* while (c) { int *q = p ? p : nullptr;  p = &x;  if (c) { *q; break; } } *)
(* On the second visit of the declaration the null operand is forgotten.   *)
ForgottenOperand == {"operand"} \X {<<"test", "p">>} \X {<<"arm", "p">>} \X {<<"addr", "p", "x">>}

(* { int y; pp = b; p = &y; *b = p; } if (c) b = nullptr;                  *)
(* if (b) ; else { q = *pp; *q; }  *pp dangles.                            *)
NullBranch == {"nullBranch"} \X {<<"null", "b">>} \X {<<"test", "b">>} \X {<<"load", "q", "pp">>}

Temporary(a, b) ==
  Program(<<"only", "exit">>,
          Block("only", <<At("d", <<"decl", "pc">>), At("a", a), At("b", b)>>, <<"exit">>), {})

StoreAndTest(a, t, l) ==
  Program(<<"start", "then", "if", "else", "after", "exit">>,
          Block("start", <<At("d1", <<"decl", "c">>), At("d2", <<"decl", "p">>), At("d3", <<"decl", "q">>),
                           At("d4", <<"decl", "pp">>), At("d5", <<"decl", "y">>),
                           At("e", <<"copy", "pp", "b">>), At("f", <<"addr", "p", "y">>),
                           At("g", <<"store", "b", "p">>), At("m", <<"end", "y", "end">>),
                           At("c", <<"flag">>)>>, <<"then", "if">>)
            @@ Block("then", <<At("a", a)>>, <<"if">>)
            @@ Block("if", <<At("t", t)>>, <<"after", "else">>)
            @@ Block("else", <<At("l", l), At("v", <<"deref", "q">>)>>, <<"after">>)
            @@ Block("after", <<At("z", <<"flag">>)>>, <<"exit">>),
          {})

OneOf(before, a, b, after) ==
  Program(<<"if", "else", "then", "after", "exit">>,
          Block("if", <<At("d1", <<"decl", "c">>), At("d2", <<"default", "h">>), At("d3", <<"default", "k">>),
                        At("d4", <<"decl", "ph">>)>> \o before \o <<At("c", <<"flag">>)>>, <<"then", "else">>)
            @@ Block("then", <<At("a", a)>>, <<"after">>)
            @@ Block("else", <<At("b", b)>>, <<"after">>)
            @@ Block("after", after, <<"exit">>),
          {})
Copying(a, b) == OneOf(<<>>, a, b, <<At("z", <<"cloneStar", "g", "ph">>)>>)
Assigning(a, b) ==
  OneOf(<<At("d5", <<"decl", "x">>), At("d6", <<"decl", "p">>), At("d7", <<"default", "g">>),
          At("n", <<"nullPart", "h", "s">>), At("g", <<"setPart", "g", "s", "x">>)>>, a, b,
        <<At("z", <<"assignStar", "ph", "g">>), At("s", <<"part", "p", "h", "s">>),
          At("v", <<"deref", "p">>)>>)

Bodies ==
  Table([d \in ForStatements \cup NoopInLoop \cup TestThroughReference \cup SetInLoop
                \cup SwappedCall \cup MayDangle
                \cup Forgotten \cup CopyOneOf \cup AssignOneOf \cup ForgottenOperand \cup NullBranch |->
     CASE d[1] = "for"     -> For(d[2], d[3], d[4])
       [] d[1] = "call"    -> Define(Free, Calling(Skip, <<"flag">>, d[2], d[3], d[4]))
       [] d[1] = "temporary" -> Temporary(d[2], d[3])
       [] d[1] = "copy"    -> Copying(d[2], d[3])
       [] d[1] = "assign"  -> Assigning(d[2], d[3])
       [] d[1] = "nullBranch" -> Define(MCDeclaration, StoreAndTest(d[2], d[3], d[4]))
       [] d[1] = "operand" ->
            BreakConditionally(d[2], d[3], <<"armNull">>, d[4])
       [] d[1] = "logical" -> WhileLogical(d[2], d[3], Skip, <<"deref", "q">>, d[4], Skip)
       [] d[1] = "through" -> WhileIf(d[2], d[3], Skip, <<"deref", "q">>, d[4], d[5], Skip)
       [] d[1] = "while"   -> While(d[2], d[3], Skip, d[4])])
MCBody == LET body == Bodies IN body
=============================================================================
