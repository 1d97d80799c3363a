-------------------------- MODULE FunctionPrograms --------------------------
(***************************************************************************)
(* Functions that rely on contracts, their own and those of what they      *)
(* call.                                                                   *)
(***************************************************************************)
EXTENDS MCPrograms

(* Methods int *f(int *a, int **b) that hand out pointers: by returning    *)
(* them, through the output parameter b and in the member m.               *)
Methods ==
  {"method"} \X {"plain", "annotated", "half annotated"}
    \X {<<"flag">>, <<"test", "p">>, <<"testMember">>}
    \X {<<"store", "b", "p">>, <<"null", "p">>, <<"keep", "p">>, <<"addr", "p", "x">>}
    \X {<<"addr", "p", "x">>, <<"fetch", "p">>, <<"keep", "a">>, <<"load", "p", "b">>}
    \X {<<"store", "b", "p">>, <<"store", "b", "a">>, <<"keep", "p">>, <<"deref", "p">>}
MethodDecl(annotation) ==
  CASE annotation = "plain"          -> MCDeclaration
    [] annotation = "annotated"      -> Annotated
    [] annotation = "half annotated" -> HalfAnnotated

(* Functions int *f(int *a, int *e) with two Owners, that call their       *)
(* methods, other functions and themselves;                                *)
Callers ==
  {"call"} \X {<<"skip">>} \X {<<"flag">>, <<"test", "p">>}
    \X {<<"get", "p", "o">>, <<"get", "p", "w">>, <<"call", "p", "pick", "q", "e">>,
        <<"set", "q", "p">>, <<"call", "p", "f", "p", "e">>}
    \X {<<"get", "q", "o">>, <<"reset", "o">>, <<"null", "p">>, <<"call", "q", "pick", "p", "a">>}
    \X {<<"use", "o">>, <<"reset", "o">>, <<"skip">>, <<"call", "p", "pick", "p", "q">>}

(* or move from them, use them and give them a new value.                  *)
Movers ==
  {"call"} \X {<<"skip">>, <<"take", "o">>, <<"get", "p", "o">>} \X {<<"flag">>}
    \X {<<"take", "o">>, <<"take", "w">>, <<"use", "o">>}
    \X {<<"get", "p", "o">>, <<"reset", "o">>, <<"use", "o">>}
    \X {<<"take", "o">>, <<"get", "p", "o">>, <<"reset", "o">>, <<"use", "o">>}

(* Those that do so in a loop, where what one iteration has taken from an  *)
(* Owner meets what the next does to it.                                   *)
Repeaters ==
  {"repeat"} \X {<<"flag">>, <<"test", "p">>}
    \X {<<"get", "p", "o">>, <<"get", "q", "w">>, <<"take", "o">>, <<"use", "o">>,
        <<"call", "p", "pick", "q", "e">>, <<"set", "q", "p">>}
    \X {<<"get", "q", "o">>, <<"reset", "o">>, <<"take", "o">>, <<"set", "p", "q">>, <<"deref", "q">>}
    \X {<<"use", "o">>, <<"get", "q", "o">>, <<"skip">>}

(* Functions A f(int *a, int *e) that build, copy, take apart and hand out *)
(* an aggregate of two pointers.                                           *)
Builders ==
  {"build"}
    \X {<<"setPart", "h", "s", "y">>, <<"setPart", "h", "t", "x">>, <<"addr", "p", "y">>,
        <<"partOf", "p", "q", "p", "s">>}
    \X {<<"assign", "h", "k">>, <<"assign", "k", "h">>, <<"init", "k", "q", "p">>, <<"clone", "k", "h">>}
    \X {<<"part", "p", "h", "s">>, <<"part", "p", "h", "t">>, <<"eat", "h">>, <<"null", "p">>}

MCFunctionDecls == Methods \cup Callers \cup Movers \cup Repeaters \cup Builders
Bodies ==
  Table([d \in MCFunctionDecls |->
     CASE d[1] = "method" -> Define(MethodDecl(d[2]), EarlyReturn(d[3], d[4], d[5], d[6]))
       [] d[1] = "call"   -> Define(Free, Calling(d[2], d[3], d[4], d[5], d[6]))
       [] d[1] = "repeat" -> Define(Free, CallingAgain(d[2], d[3], d[4], d[5]))
       [] d[1] = "build"  -> Define(FreeAggregate, Building(d[2], d[3], d[4]))])
MCBody == LET body == Bodies IN body
=============================================================================
