----------------------------- MODULE MCPrograms -----------------------------
(***************************************************************************)
(* The programs the model checker analyses.  A program is written as the   *)
(* blocks of its graph in reverse post order, the statements of each block *)
(* and the successors of each block; a statement is a short code such as   *)
(* <<"addr", "p", "x">> for "p = &x;", which stands for the nodes Clang    *)
(* puts into the graph for it.  Statements are named by their location.    *)
(***************************************************************************)
EXTENDS LifetimeContracts, ControlFlowGraph, TLC

(* f itself, which TLC tabulates once instead of computing it at every use. *)
Table(f) == f @@ <<>>

(* The types and the declarations of the programs:                         *)
(* int x, y; int *p, *q; int **pp; int *&r; bool c; an Owner O o, w; an    *)
(* aggregate of two pointers A h, k; in methods of M with a member int *m, *)
(* called with int *a, int **b, or in a function of int *a, int *e.        *)
Scalar == [category |-> "Value", pointee |-> NoType, isPointer |-> FALSE,
           isReference |-> FALSE, isRValueReference |-> FALSE, isRecord |-> FALSE,
           isArray |-> FALSE, size |-> 0, nullable |-> FALSE, bases |-> {},
           isIteratorOrContainer |-> FALSE, dtorHasPre |-> FALSE,
           fields |-> <<>>, isConst |-> FALSE, asConst |-> NoType, pointerTo |-> NoType]
PointerTo(t) == [Scalar EXCEPT !.category = "Pointer", !.pointee = t,
                               !.isPointer = TRUE, !.nullable = TRUE]
Types ==
  Table([t \in {"void", "int", "bool", "int*", "int**", "int*&", "M", "M*", "O", "O*", "O&", "O&&",
            "A", "const A", "A*", "A&", "const A&",
            "const int", "const int*", "const int&"} |->
           CASE t = "int*"  -> PointerTo("int")
             [] t = "int**" -> PointerTo("int*")
             [] t = "const int*" -> PointerTo("const int")
             [] t = "const int&" -> [PointerTo("const int") EXCEPT !.isPointer = FALSE, !.isReference = TRUE,
                                                                   !.nullable = FALSE]
             [] t = "O"     -> [Scalar EXCEPT !.category = "Owner", !.pointee = "int", !.isRecord = TRUE]
             [] t = "O*"    -> PointerTo("O")
             [] t = "O&"    -> [PointerTo("O") EXCEPT !.isPointer = FALSE, !.isReference = TRUE,
                                                      !.nullable = FALSE]
             [] t = "O&&"   -> [PointerTo("O") EXCEPT !.isPointer = FALSE, !.isReference = TRUE,
                                                      !.isRValueReference = TRUE, !.nullable = FALSE]
             [] t = "A"     -> [Scalar EXCEPT !.category = "Aggregate", !.isRecord = TRUE,
                                              !.fields = <<"s", "t">>]
             [] t = "const A" -> [Scalar EXCEPT !.category = "Aggregate", !.isRecord = TRUE,
                                                !.fields = <<"s", "t">>, !.isConst = TRUE]
             [] t = "A*"    -> PointerTo("A")
             [] t = "A&"    -> [PointerTo("A") EXCEPT !.isPointer = FALSE, !.isReference = TRUE,
                                                      !.nullable = FALSE]
             [] t = "const A&" -> [PointerTo("const A") EXCEPT !.isPointer = FALSE, !.isReference = TRUE,
                                                               !.nullable = FALSE]
             [] t = "int*&" -> [PointerTo("int*") EXCEPT !.isPointer = FALSE, !.isReference = TRUE,
                                                         !.nullable = FALSE]
             [] t = "M"     -> [Scalar EXCEPT !.isRecord = TRUE, !.fields = <<"m">>]
             [] t = "M*"    -> PointerTo("M")
             [] OTHER       -> Scalar])
MCFieldInfo == [m |-> [type |-> "int*", parent |-> "M", init |-> "none"],
                s |-> [type |-> "int*", parent |-> "A", init |-> "none"],
                t |-> [type |-> "int*", parent |-> "A", init |-> "none"]]
MCConvertible(t, u) == t = u
DeclsOfKind(k, type, names) == [d \in names |-> [kind |-> k, type |-> type, extending |-> NoDecl]]
Declarations ==
  Table(DeclsOfKind("Local", "int", {"x", "y"}) @@ DeclsOfKind("Local", "int*", {"p", "q"})
     @@ DeclsOfKind("Local", "int**", {"pp"})   @@ DeclsOfKind("Local", "int*&", {"r"})
     @@ DeclsOfKind("Local", "bool", {"c"})     @@ DeclsOfKind("Local", "O", {"o", "w"})
     @@ DeclsOfKind("Local", "A", {"g", "h", "k"})   @@ DeclsOfKind("Expr", "A", {"tmp1", "tmp2"})
     @@ DeclsOfKind("Temporary", "A", {"temp"})  @@ DeclsOfKind("This", "A*", {"thisA"})
     @@ DeclsOfKind("Param", "A", {"agg"})       @@ DeclsOfKind("Param", "const A&", {"other"})
     @@ DeclsOfKind("Temporary", "const int", {"five"}) @@ DeclsOfKind("Local", "const int*", {"pc"})
     @@ DeclsOfKind("Local", "A*", {"ph"})       @@ DeclsOfKind("Param", "const int&", {"num"})
     @@ DeclsOfKind("Global", "int", {"elsewhere"})
     @@ DeclsOfKind("Param", "int*", {"a", "e", "i", "j"})
     @@ DeclsOfKind("Param", "int**", {"b", "out"}) @@ DeclsOfKind("Param", "O&", {"owner"})
     @@ DeclsOfKind("Param", "O&&", {"from", "taken"})
     @@ DeclsOfKind("This", "M*", {"this"})     @@ DeclsOfKind("This", "O*", {"thisO"})
     @@ DeclsOfKind("Return", "int*", {"return"}))

(* TLC evaluates a definition once, but the one a constant is given at     *)
(* every use; and it opens up the latter at every use to count how often   *)
(* its parts are evaluated, unless it is a LET.  The programs of a run are *)
(* defined in a module that comes before Execution, for then TLC has their *)
(* values when it looks at the definitions that use them.                  *)
MCTypeInfo == LET types == Types IN types
MCDeclInfo == LET declarations == Declarations IN declarations

-----------------------------------------------------------------------------
(* The nodes of a statement; node i of the statement at loc is <<loc, i>>. *)

Expr(k, type, lvalue, loc) ==
  [k |-> k, type |-> type, lvalue |-> lvalue, xvalue |-> FALSE, isBool |-> type = "bool", loc |-> loc]
TypeOf(d) == IF Types[Declarations[d].type].isReference
             THEN PointeeType(Declarations[d].type) ELSE Declarations[d].type
Name(d, loc) ==
  Expr("DeclRefExpr", TypeOf(d), TRUE, loc) @@ [var |-> Var(d), holdingVar |-> NoDecl]
Load(i, type, loc)   == Expr("LValueToRValue", type, FALSE, loc) @@ [sub |-> <<loc, i>>]
AddrOf(i, type, loc) ==
  Expr("UnaryOperator", type, FALSE, loc) @@ [sub |-> <<loc, i>>, op |-> "AddrOf", generated |-> FALSE]
Star(i, type, loc) ==
  Expr("UnaryOperator", type, TRUE, loc) @@ [sub |-> <<loc, i>>, op |-> "Deref", generated |-> FALSE]
Not(i, loc) ==
  Expr("UnaryOperator", "bool", FALSE, loc) @@ [sub |-> <<loc, i>>, op |-> "LNot", generated |-> FALSE]
Assign(i, j, type, loc) ==
  Expr("BinaryOperator", type, TRUE, loc) @@ [lhs |-> <<loc, i>>, rhs |-> <<loc, j>>,
                                             op |-> "Assign", opLoc |-> loc]
ThisM(loc) ==
  <<Expr("CXXThisExpr", "M*", FALSE, loc) @@ [var |-> Var("this")],
    Expr("MemberExpr", "int*", TRUE, loc) @@ [base |-> <<loc, 1>>, member |-> "Field", field |-> "m"]>>
(* The operands of a conditional operator are in blocks of their own.      *)
Conditional(i, lvalue, loc) ==
  Expr("ConditionalOperator", "int*", lvalue, loc) @@ [ifTrue |-> <<"true", i>>, ifFalse |-> <<"false", i>>]
NullPtr(loc) == Expr("NullPtrLiteral", "int*", FALSE, loc)
ToNull(i, loc) == Expr("NullToPointer", "int*", FALSE, loc) @@ [sub |-> <<loc, i>>]
ToBool(i, loc) == Expr("BoolConversion", "bool", FALSE, loc) @@ [sub |-> <<loc, i>>]

Method(i, loc) ==
  Expr("MemberExpr", "void", FALSE, loc) @@ [base |-> <<loc, i>>, member |-> "Method", field |-> "none"]
CallOn(i, j, g, type, loc) ==
  Expr("CXXMemberCallExpr", type, FALSE, loc)
    @@ [implicitObject |-> <<loc, i>>, args |-> <<>>, callee |-> g]
CallOf(g, args, type, loc) ==
  Expr("CallExpr", type, FALSE, loc)
    @@ [args |-> [i \in DOMAIN args |-> <<loc, args[i]>>], callee |-> g, object |-> "tmp1"]

InitList(inits, loc) ==
  Expr("InitListExpr", "A", FALSE, loc)
    @@ [inits |-> [i \in DOMAIN inits |-> <<loc, inits[i]>>], object |-> "tmp2"]
Construct(args, loc) ==
  Expr("CXXConstructExpr", "A", FALSE, loc)
    @@ [args |-> [i \in DOMAIN args |-> <<loc, args[i]>>], callee |-> "A", object |-> "tmp2",
        isDefault |-> args = <<>>, isCopyOrMove |-> args # <<>>]
Member(i, fd, loc) ==
  Expr("MemberExpr", "int*", TRUE, loc) @@ [base |-> <<loc, i>>, member |-> "Field", field |-> fd]
DeclInit(d, init, loc) ==
  [k |-> "DeclStmt", isBool |-> FALSE, loc |-> loc, decls |-> <<[var |-> d, init |-> init, loc |-> loc]>>]

StmtNodes(s, loc) ==
  CASE s[1] = "addr" ->     \* s[2] = &s[3];
         <<Name(s[3], loc), AddrOf(1, TypeOf(s[2]), loc), Name(s[2], loc), Assign(3, 2, TypeOf(s[2]), loc)>>
    [] s[1] = "null" ->     \* s[2] = nullptr;
         <<NullPtr(loc), ToNull(1, loc), Name(s[2], loc), Assign(3, 2, "int*", loc)>>
    [] s[1] = "copy" ->     \* s[2] = s[3];
         <<Name(s[3], loc), Load(1, TypeOf(s[3]), loc), Name(s[2], loc), Assign(3, 2, TypeOf(s[2]), loc)>>
    [] s[1] = "deref" ->    \* *s[2];
         <<Name(s[2], loc), Load(1, TypeOf(s[2]), loc), Star(2, PointeeType(TypeOf(s[2])), loc)>>
    [] s[1] = "store" ->    \* *s[2] = s[3];
         <<Name(s[3], loc), Load(1, "int*", loc),
           Name(s[2], loc), Load(3, "int**", loc), Star(4, "int*", loc), Assign(5, 2, "int*", loc)>>
    [] s[1] = "load" ->     \* s[2] = *s[3];
         <<Name(s[3], loc), Load(1, "int**", loc), Star(2, "int*", loc), Load(3, "int*", loc),
           Name(s[2], loc), Assign(5, 4, "int*", loc)>>
    [] s[1] = "keep" ->     \* m = s[2];
         ThisM(loc) \o <<Name(s[2], loc), Load(3, "int*", loc), Assign(2, 4, "int*", loc)>>
    [] s[1] = "fetch" ->    \* s[2] = m;
         ThisM(loc) \o <<Load(2, "int*", loc), Name(s[2], loc), Assign(4, 3, "int*", loc)>>
    [] s[1] = "return" ->   \* return s[2];
         <<Name(s[2], loc), Load(1, TypeOf(s[2]), loc),
           [k |-> "ReturnStmt", isBool |-> FALSE, loc |-> loc, sub |-> <<loc, 2>>]>>
    [] s[1] = "testMember" ->  \* if (m)
         ThisM(loc) \o <<Load(2, "int*", loc), ToBool(3, loc)>>
    [] s[1] = "test" ->     \* if (s[2])
         <<Name(s[2], loc), Load(1, TypeOf(s[2]), loc), ToBool(2, loc)>>
    [] s[1] = "testNot" ->  \* if (!s[2])
         <<Name(s[2], loc), Load(1, TypeOf(s[2]), loc), ToBool(2, loc), Not(3, loc)>>
    [] s[1] = "flag" ->     \* if (c)
         <<Name("c", loc), Load(1, "bool", loc)>>
    [] s[1] = "logical" ->  \* (bool)(... && ...)
         <<Expr("LogicalOp", "bool", FALSE, loc),
           Expr("Transparent", "bool", FALSE, loc) @@ [sub |-> <<loc, 1>>]>>
    [] s[1] = "decl" ->     \* T s[2];
         <<[k |-> "DeclStmt", isBool |-> FALSE, loc |-> loc,
            decls |-> <<[var |-> s[2], init |-> NoExpr, loc |-> loc]>>]>>
    [] s[1] = "bind" ->     \* int *&s[2] = *s[3];
         <<Name(s[3], loc), Load(1, "int**", loc), Star(2, "int*", loc),
           [k |-> "DeclStmt", isBool |-> FALSE, loc |-> loc,
            decls |-> <<[var |-> s[2], init |-> <<loc, 3>>, loc |-> loc]>>]>>
    [] s[1] = "get" ->      \* s[2] = s[3].get();
         <<Name(s[3], loc), Method(1, loc), CallOn(1, 2, "get", "int*", loc), Name(s[2], loc), Assign(4, 3, "int*", loc)>>
    [] s[1] = "reset" ->    \* s[2].reset();
         <<Name(s[2], loc), Method(1, loc), CallOn(1, 2, "reset", "void", loc)>>
    [] s[1] = "use" ->      \* use(s[2]);
         <<Name(s[2], loc), CallOf("use", <<1>>, "void", loc)>>
    [] s[1] = "take" ->     \* take(std::move(s[2]));
         <<Name(s[2], loc), [CallOf("move", <<1>>, "O", loc) EXCEPT !.xvalue = TRUE],
           CallOf("take", <<2>>, "void", loc)>>
    [] s[1] = "call" ->     \* s[2] = s[3](s[4], s[5]);
         <<Name(s[4], loc), Load(1, "int*", loc), Name(s[5], loc), Load(3, "int*", loc),
           CallOf(s[3], <<2, 4>>, "int*", loc), Name(s[2], loc), Assign(6, 5, "int*", loc)>>
    [] s[1] = "peek" ->     \* s[2] = peek(5);
         <<Expr("IntegerLiteral", "int", FALSE, loc),
           Expr("MaterializeTemporaryExpr", "const int", TRUE, loc) @@ [sub |-> <<loc, 1>>, object |-> "five"],
           CallOf("peek", <<2>>, "const int*", loc), Name(s[2], loc), Assign(4, 3, "const int*", loc)>>
    [] s[1] = "set" ->      \* set(s[2], &s[3]);
         <<Name(s[2], loc), Load(1, "int*", loc), Name(s[3], loc), AddrOf(3, "int**", loc),
           CallOf("set", <<2, 4>>, "void", loc)>>
    [] s[1] = "init" ->     \* A s[2]{s[3], s[4]};
         <<Name(s[3], loc), Load(1, "int*", loc), Name(s[4], loc), Load(3, "int*", loc),
           InitList(<<2, 4>>, loc), DeclInit(s[2], <<loc, 5>>, loc)>>
    [] s[1] = "default" ->  \* A s[2];
         <<Construct(<<>>, loc), DeclInit(s[2], <<loc, 1>>, loc)>>
    [] s[1] = "clone" ->    \* A s[2] = s[3];
         <<Name(s[3], loc), Construct(<<1>>, loc), DeclInit(s[2], <<loc, 2>>, loc)>>
    [] s[1] = "cloneStar" -> \* A s[2] = *s[3];
         <<Name(s[3], loc), Load(1, "A*", loc), Star(2, "A", loc), Construct(<<3>>, loc), DeclInit(s[2], <<loc, 4>>, loc)>>
    [] s[1] = "make" ->     \* A s[2] = make(s[3], s[4]);
         <<Name(s[3], loc), Load(1, "int*", loc), Name(s[4], loc), Load(3, "int*", loc),
           CallOf("make", <<2, 4>>, "A", loc), DeclInit(s[2], <<loc, 5>>, loc)>>
    [] s[1] = "assign" ->   \* s[2] = s[3]; for aggregates
         <<Name(s[3], loc), Name(s[2], loc),
           Expr("CXXOperatorCallExpr", "A", TRUE, loc)
             @@ [args |-> <<<<loc, 2>>, <<loc, 1>>>>, callee |-> "operator=", op |-> "Assign",
                 object |-> "tmp2"]>>
    [] s[1] = "assignStar" -> \* *s[2] = s[3]; for aggregates
         <<Name(s[3], loc), Name(s[2], loc), Load(2, "A*", loc), Star(3, "A", loc),
           Expr("CXXOperatorCallExpr", "A", TRUE, loc)
             @@ [args |-> <<<<loc, 4>>, <<loc, 1>>>>, callee |-> "operator=", op |-> "Assign",
                 object |-> "tmp2"]>>
    [] s[1] = "part" ->     \* s[2] = s[3].s[4];
         <<Name(s[3], loc), Member(1, s[4], loc), Load(2, "int*", loc), Name(s[2], loc), Assign(4, 3, "int*", loc)>>
    [] s[1] = "partOf" ->   \* s[2] = make(s[3], s[4]).s[5];
         <<Name(s[3], loc), Load(1, "int*", loc), Name(s[4], loc), Load(3, "int*", loc),
           CallOf("make", <<2, 4>>, "A", loc),
           Expr("MaterializeTemporaryExpr", "A", TRUE, loc) @@ [sub |-> <<loc, 5>>, object |-> "temp"],
           Member(6, s[5], loc), Load(7, "int*", loc), Name(s[2], loc), Assign(9, 8, "int*", loc)>>
    [] s[1] = "setPart" ->  \* s[2].s[3] = &s[4];
         <<Name(s[4], loc), AddrOf(1, "int*", loc), Name(s[2], loc), Member(3, s[3], loc), Assign(4, 2, "int*", loc)>>
    [] s[1] = "nullPart" -> \* s[2].s[3] = nullptr;
         <<NullPtr(loc), ToNull(1, loc), Name(s[2], loc), Member(3, s[3], loc), Assign(4, 2, "int*", loc)>>
    [] s[1] = "eat" ->      \* eat(s[2]);
         <<Name(s[2], loc), Construct(<<1>>, loc), CallOf("eat", <<2>>, "void", loc)>>
    [] s[1] = "returnAll" -> \* return s[2];
         <<Name(s[2], loc), Construct(<<1>>, loc),
           [k |-> "ReturnStmt", isBool |-> FALSE, loc |-> loc, sub |-> <<loc, 2>>]>>
    [] s[1] = "arm" ->      \* ... ? s[2] : ...
         <<Name(s[2], loc), Load(1, TypeOf(s[2]), loc)>>
    [] s[1] = "armNull" ->  \* ... ? nullptr : ...
         <<NullPtr(loc), ToNull(1, loc)>>
    [] s[1] = "choose" ->   \* s[2] = ... ? ... : ...;
         <<Conditional(2, FALSE, loc), Name(s[2], loc), Assign(2, 1, "int*", loc)>>
    [] s[1] = "declChosen" -> \* int *s[2] = ... ? ... : ...;
         <<Conditional(2, FALSE, loc), DeclInit(s[2], <<loc, 1>>, loc)>>
    [] s[1] = "derefChosen" ->  \* *(... ? ... : ...);
         <<Conditional(2, FALSE, loc), Star(1, "int", loc)>>
    [] s[1] = "armVar" ->   \* ... ? s[2] : ...
         <<Name(s[2], loc)>>
    [] s[1] = "address" ->  \* the &s[2] below
         <<Name(s[2], loc), AddrOf(1, "int*", loc)>>
    [] s[1] = "setChosen" ->  \* (... ? ... : ...) = &s[2];
         <<Conditional(1, TRUE, loc),
           Expr("BinaryOperator", "int*", TRUE, loc)
             @@ [lhs |-> <<loc, 1>>, rhs |-> <<"address", 2>>, op |-> "Assign", opLoc |-> loc]>>
    [] s[1] = "end" ->      \* } of the scope of s[2], left at s[3]
         <<[k |-> "LifetimeEnds", isBool |-> FALSE, loc |-> loc, var |-> s[2], trigger |-> s[3]]>>
    [] OTHER -> <<>>        \* ;

-----------------------------------------------------------------------------
(* Programs *)

Function(params, returnType, this) ==
  [params |-> params, returnType |-> returnType, this |-> this, name |-> "", std |-> FALSE,
   stdClass |-> "none", isMain |-> FALSE, isConst |-> FALSE, reinitializes |-> FALSE, isAddressOf |-> FALSE,
   isDestructor |-> FALSE, isDereference |-> FALSE, toBool |-> FALSE,
   forwarding |-> {}, const |-> {}, in |-> {}, inout |-> {},
   preOf |-> <<>>, posts |-> <<>>, paramPre |-> <<>>, capture |-> <<>>]

(* int *M::f(int *a, int **b), and the same where f promises to return a   *)
MCDeclaration == Function(<<"a", "b">>, "int*", "this")
Annotated == [MCDeclaration EXCEPT !.posts = <<[var |-> Var("return"), deps |-> <<Var("a")>>]>>]

(* The second of its annotations makes no sense, so the third is dropped.  *)
HalfAnnotated ==
  [MCDeclaration EXCEPT !.posts = <<[var |-> Var("return"), deps |-> <<Var("a")>>],
                                    [var |-> DerefVar(Var("b")), deps |-> <<Var("elsewhere")>>],
                                    [var |-> DerefVar(Var("b")), deps |-> <<Var("a")>>]>>]

(* int *f(int *a, int *e)                                                  *)
Free == Function(<<"a", "e">>, "int*", NoDecl)

(* A f(int *a, int *e)                                                     *)
FreeAggregate == Function(<<"a", "e">>, "A", NoDecl)

(* int *O::get() const; void O::reset(); void use(O &); int *pick(int *i,  *)
(* int *j); void set(int *i, int **out); O &&std::move(O &&from);          *)
(* void take(O &&taken); A make(int *i, int *j); void eat(A agg); const    *)
(* int *peek(const int &num); how an aggregate is copied; and f itself     *)
Callees ==
  [get   |-> [Function(<<>>, "int*", "thisO") EXCEPT !.isConst = TRUE],
   reset |-> [Function(<<>>, "void", "thisO") EXCEPT !.reinitializes = TRUE],
   use   |-> Function(<<"owner">>, "void", NoDecl),
   pick  |-> Function(<<"i", "j">>, "int*", NoDecl),
   set   |-> Function(<<"i", "out">>, "void", NoDecl),
   move  |-> [Function(<<"from">>, "O&&", NoDecl) EXCEPT !.name = "move", !.std = TRUE],
   take  |-> Function(<<"taken">>, "void", NoDecl),
   make  |-> Function(<<"i", "j">>, "A", NoDecl),
   peek  |-> Function(<<"num">>, "const int*", NoDecl),
   eat   |-> Function(<<"agg">>, "void", NoDecl),
   A     |-> Function(<<"other">>, "void", NoDecl),
   f     |-> Free]
  @@ ("operator=" :> Function(<<"other">>, "A&", "thisA"))

Contracts == Table([fd \in {MCDeclaration, Annotated, HalfAnnotated, Free, FreeAggregate} \cup Range(Callees) |-> FillPSetsForDecl(fd)])
CalleesWithContracts == Table([g \in DOMAIN Callees |-> Callees[g] @@ Contracts[Callees[g]]])
MCCallee == LET callees == CalleesWithContracts IN callees

(* The function with the declaration fd and the body f. *)
Define(fd, f) ==
  LET Members == Range(Types[PointeeType(Declarations[fd.this].type)].fields)
  IN  [f EXCEPT !.params = Range(fd.params), !.this = fd.this,
                !.members = IF fd.this = NoDecl THEN {} ELSE Members,
                !.pre = Contracts[fd].pre, !.post = Contracts[fd].post,
                !.returnType = fd.returnType]

Edge(b) == [to |-> b, reachable |-> TRUE]
At(loc, s) == [at |-> loc, s |-> s]
Stmts(list) == SelectSeq(list, LAMBDA st : st.s # <<"skip">>)

(* code: block |-> [do, to], its statements and successors; order: the     *)
(* blocks in reverse post order; fors: the conditions of for statements;   *)
(* nodes: those of each statement.                                         *)
Graph(order, code, fors, nodes) ==
  LET B == {"entry", "exit"} \cup DOMAIN code
      first == CHOOSE b \in DOMAIN code : order[1] = b
      To(b) == IF b = "entry" THEN <<first>> ELSE IF b = "exit" THEN <<>> ELSE code[b].to
      ElemsOf(st) == [i \in DOMAIN nodes[st.at] |-> <<st.at, i>>]
      Elems(b) == IF b \in DOMAIN code
                  THEN LET do == Stmts(code[b].do) IN FlattenSeq([i \in DOMAIN do |-> ElemsOf(do[i])])
                  ELSE <<>>
      all == <<"entry">> \o order
  IN  [blocks |-> B, entry |-> "entry", exit |-> "exit",
       rank  |-> Table([b \in B |-> CHOOSE i \in DOMAIN all : all[i] = b]),
       succs |-> Table([b \in B |-> Table([i \in DOMAIN To(b) |-> Edge(To(b)[i])])]),
       elems |-> Table([b \in B |-> Table(Elems(b))]),
       nodes |-> Table([n \in UNION {{<<l, i>> : i \in DOMAIN nodes[l]} : l \in DOMAIN nodes}
                    |-> nodes[n[1]][n[2]]]),
       forBlocks |-> fors, noReturn |-> {}, params |-> {}, this |-> NoDecl, members |-> {},
       pre |-> <<>>, post |-> <<>>, returnType |-> NoType, isDestructor |-> FALSE,
       suppressed |-> {}]

Program(order, code, fors) ==
  LET placed == UNION {Range(Stmts(code[b].do)) : b \in DOMAIN code}
      Placed(l) == CHOOSE st \in placed : st.at = l
  IN  Graph(order, code, fors, [l \in {st.at : st \in placed} |-> StmtNodes(Placed(l).s, l)])

Block(b, do, to) == b :> [do |-> do, to |-> to]

(* bool c; int x; int *p = nullptr, *q = &x; *)
Prologue == <<At("d0", <<"decl", "c">>), At("d1", <<"decl", "x">>), At("d2", <<"decl", "p">>),
              At("d3", <<"decl", "q">>), At("d4", <<"null", "p">>), At("d5", <<"addr", "q", "x">>)>>
(* ... int **pp = &p; *)
PrologueWithPP == Prologue \o <<At("d6", <<"decl", "pp">>), At("d7", <<"addr", "pp", "p">>)>>

(* d; *p; } *)
Epilogue(d) == Block("after", <<At("d", d), At("z", <<"deref", "p">>)>>, <<"exit">>)

(* int *p; { int y; if (c) a else b; } *)
Scoped(c, a, b, d) ==
  Program(<<"if", "else", "then", "join", "after", "exit">>,
          Block("if", <<At("d0", <<"decl", "c">>), At("d1", <<"decl", "x">>), At("d2", <<"decl", "p">>),
                        At("d3", <<"decl", "q">>), At("d4", <<"addr", "q", "x">>), At("l", <<"decl", "y">>),
                        At("c", c)>>, <<"then", "else">>)
            @@ Block("then", <<At("a", a)>>, <<"join">>)
            @@ Block("else", <<At("b", b)>>, <<"join">>)
            @@ Block("join", <<At("m", <<"end", "y", "end">>)>>, <<"after">>)
            @@ Epilogue(d),
          {})

(* int *p = nullptr, **pp; { int *q; if (c) a } if (c) b *)
Outlived(c, a, b) ==
  Program(<<"if", "set", "leave", "use", "after", "exit">>,
          Block("if", <<At("d0", <<"decl", "c">>), At("d2", <<"decl", "p">>), At("d4", <<"null", "p">>),
                        At("d6", <<"decl", "pp">>), At("d3", <<"decl", "q">>), At("c", c)>>, <<"set", "leave">>)
            @@ Block("set", <<At("a", a)>>, <<"leave">>)
            @@ Block("leave", <<At("m", <<"end", "q", "end">>), At("k", c)>>, <<"use", "after">>)
            @@ Block("use", <<At("b", b)>>, <<"after">>)
            @@ Epilogue(<<"skip">>),
          {})

(* if (c) { int y; a } else b *)
IfElse(before, c, a, b, d) ==
  Program(<<"if", "else", "then", "after", "exit">>,
          Block("if", Append(before, At("c", c)), <<"then", "else">>)
            @@ Block("then", <<At("l", <<"decl", "y">>), At("a", a), At("m", <<"end", "y", "end">>)>>, <<"after">>)
            @@ Block("else", <<At("b", b)>>, <<"after">>)
            @@ Epilogue(d),
          {})

(* if ((bool)(c1 && c2)) a else b, and the same with ||: the outcomes meet *)
(* in a noop block before they part again.                                 *)
IfLogical(op, c1, c2, a, b, d) ==
  Program(<<"first", "second", "noop", "else", "then", "after", "exit">>,
          Block("first", Append(Prologue, At("c", c1)),
                IF op = "and" THEN <<"second", "noop">> ELSE <<"noop", "second">>)
            @@ Block("second", <<At("f", c2)>>, <<"noop">>)
            @@ Block("noop", <<At("n", <<"logical">>)>>, <<"then", "else">>)
            @@ Block("then", <<At("a", a)>>, <<"after">>)
            @@ Block("else", <<At("b", b)>>, <<"after">>)
            @@ Epilogue(d),
          {})

(* bool c; int x; int *p = a; if (c) { a1 return p; } a2 a3 return p; *)
EarlyReturn(c, a1, a2, a3) ==
  LET Leave(l) == <<At(l[1], <<"return", "p">>), At(l[2], <<"end", "p", l[1]>>),
                    At(l[3], <<"end", "x", l[1]>>), At(l[4], <<"end", "c", l[1]>>)>>
  IN  Program(<<"if", "after", "then", "exit">>,
        Block("if", <<At("d0", <<"decl", "c">>), At("d1", <<"decl", "x">>), At("d2", <<"decl", "p">>),
                      At("d3", <<"copy", "p", "a">>), At("c", c)>>, <<"then", "after">>)
          @@ Block("then", <<At("a", a1)>> \o Leave(<<"r", "e1", "e2", "e3">>), <<"exit">>)
          @@ Block("after", <<At("f", a2), At("g", a3)>> \o Leave(<<"s", "e4", "e5", "e6">>), <<"exit">>),
        {})

(* bool c; int x; O o; int *p = a; int *q = &x; ...  a *p; return p;       *)
CallPrologue == <<At("d0", <<"decl", "c">>), At("d1", <<"decl", "x">>), At("d2", <<"decl", "o">>),
                  At("d3", <<"decl", "p">>), At("d4", <<"copy", "p", "a">>),
                  At("d5", <<"decl", "q">>), At("d6", <<"addr", "q", "x">>)>>
CallEpilogue(a) ==
  Block("after",
        <<At("f", a), At("g", <<"deref", "p">>), At("r", <<"return", "p">>),
          At("e1", <<"end", "q", "r">>), At("e2", <<"end", "p", "r">>), At("e3", <<"end", "o", "r">>),
          At("e4", <<"end", "x", "r">>), At("e5", <<"end", "c", "r">>)>>, <<"exit">>)

(* before  if (c) { O w; a1 } else a2  a3 *)
Calling(before, c, a1, a2, a3) ==
  Program(<<"if", "else", "then", "after", "exit">>,
          Block("if", CallPrologue \o <<At("s", before), At("c", c)>>, <<"then", "else">>)
            @@ Block("then", <<At("l", <<"decl", "w">>), At("a", a1), At("m", <<"end", "w", "end">>)>>, <<"after">>)
            @@ Block("else", <<At("b", a2)>>, <<"after">>)
            @@ CallEpilogue(a3),
          {})

(* while (c) { O w; a1 a2 } a3 *)
CallingAgain(c, a1, a2, a3) ==
  Program(<<"start", "while", "after", "exit", "body", "back">>,
          Block("start", CallPrologue, <<"while">>)
            @@ Block("while", <<At("c", c)>>, <<"body", "after">>)
            @@ Block("body", <<At("l", <<"decl", "w">>), At("a", a1), At("b", a2), At("m", <<"end", "w", "end">>)>>,
                     <<"back">>)
            @@ Block("back", <<>>, <<"while">>)
            @@ CallEpilogue(a3),
          {})

(* bool c; int x; int *p = a; int *q = e; A h{p, q};                       *)
(* if (c) { int y; a1 } else a2  a3 *p; return h;                          *)
Building(a1, a2, a3) ==
  LET Leave == <<At("r", <<"returnAll", "h">>), At("e1", <<"end", "h", "r">>), At("e2", <<"end", "q", "r">>),
                 At("e3", <<"end", "p", "r">>), At("e4", <<"end", "x", "r">>), At("e5", <<"end", "c", "r">>)>>
  IN  Program(<<"if", "else", "then", "after", "exit">>,
        Block("if", <<At("d0", <<"decl", "c">>), At("d1", <<"decl", "x">>), At("d2", <<"decl", "p">>),
                      At("d3", <<"copy", "p", "a">>), At("d4", <<"decl", "q">>), At("d5", <<"copy", "q", "e">>),
                      At("d6", <<"init", "h", "p", "q">>), At("c", <<"flag">>)>>,
              <<"then", "else">>)
          @@ Block("then", <<At("l", <<"decl", "y">>), At("a", a1), At("m", <<"end", "y", "end">>)>>, <<"after">>)
          @@ Block("else", <<At("k", <<"default", "k">>), At("b", a2), At("g", <<"end", "k", "end">>)>>, <<"after">>)
          @@ Block("after", <<At("f", a3), At("z", <<"deref", "p">>)>> \o Leave, <<"exit">>),
        {})

(* while (c) { int y; a b } *)
While(c, a, b, d) ==
  Program(<<"start", "while", "after", "exit", "body", "back">>,
          Block("start", Prologue, <<"while">>)
            @@ Block("while", <<At("c", c)>>, <<"body", "after">>)
            @@ Block("body", <<At("l", <<"decl", "y">>), At("a", a), At("b", b), At("m", <<"end", "y", "end">>)>>,
                     <<"back">>)
            @@ Block("back", <<>>, <<"while">>)
            @@ Epilogue(d),
          {})

(* for (; c;) { a } *)
For(c, a, d) ==
  Program(<<"start", "for", "after", "exit", "body", "inc">>,
          Block("start", Prologue, <<"for">>)
            @@ Block("for", <<At("c", c)>>, <<"body", "after">>)
            @@ Block("body", <<At("a", a)>>, <<"inc">>)
            @@ Block("inc", <<>>, <<"for">>)
            @@ Epilogue(d),
          {"for"})

(* do { a if (c1) { b } } while (c2) *)
DoWhile(c1, c2, a, b, d) ==
  Program(<<"start", "do", "then", "while", "after", "exit", "back">>,
          Block("start", Prologue, <<"do">>)
            @@ Block("do", <<At("a", a), At("c", c1)>>, <<"then", "while">>)
            @@ Block("then", <<At("b", b)>>, <<"while">>)
            @@ Block("while", <<At("f", c2)>>, <<"back", "after">>)
            @@ Block("back", <<>>, <<"do">>)
            @@ Epilogue(d),
          {})

(* int **pp = &p; while (flag) { a  if (c) { b } else { e }  g h }         *)
(* The body may start with a reference: int *&r = *pp;                     *)
WhileIf(a, c, b, e, g, h, d) ==
  Program(<<"start", "while", "after", "exit", "if", "else", "then", "join", "back">>,
          Block("start", PrologueWithPP, <<"while">>)
            @@ Block("while", <<At("c", <<"flag">>)>>, <<"if", "after">>)
            @@ Block("if", <<At("a", a), At("f", c)>>, <<"then", "else">>)
            @@ Block("then", <<At("b", b)>>, <<"join">>)
            @@ Block("else", <<At("e", e)>>, <<"join">>)
            @@ Block("join",
                     <<At("g", g), At("h", h),
                       At("m", IF a[1] = "bind" THEN <<"end", a[2], "end">> ELSE <<"skip">>)>>, <<"back">>)
            @@ Block("back", <<>>, <<"while">>)
            @@ Epilogue(d),
          {})

(* while (c) { if ((bool)(c1 && c2)) a else b  int y; e } *)
WhileLogical(c1, c2, a, b, e, d) ==
  Program(<<"start", "while", "after", "exit", "first", "second", "noop", "else", "then", "join", "back">>,
          Block("start", Prologue, <<"while">>)
            @@ Block("while", <<At("c", <<"flag">>)>>, <<"first", "after">>)
            @@ Block("first", <<At("f", c1)>>, <<"second", "noop">>)
            @@ Block("second", <<At("g", c2)>>, <<"noop">>)
            @@ Block("noop", <<At("n", <<"logical">>)>>, <<"then", "else">>)
            @@ Block("then", <<At("a", a)>>, <<"join">>)
            @@ Block("else", <<At("b", b)>>, <<"join">>)
            @@ Block("join", <<At("l", <<"decl", "y">>), At("e", e), At("m", <<"end", "y", "end">>)>>, <<"back">>)
            @@ Block("back", <<>>, <<"while">>)
            @@ Epilogue(d),
          {})

(* before  use(c ? t : f) d  where use is a statement that uses it *)
Conditionally(before, c, t, f, use, d) ==
  Program(<<"pick", "false", "true", "join", "after", "exit">>,
          Block("pick", Prologue \o before \o <<At("c", c)>>, <<"true", "false">>)
            @@ Block("true", <<At("true", t)>>, <<"join">>)
            @@ Block("false", <<At("false", f)>>, <<"join">>)
            @@ Block("join", <<At("u", use)>>, <<"after">>)
            @@ Epilogue(d),
          {})

(* before  while (flag) { use(c ? t : f) int y; a } d *)
WhileConditionally(before, c, t, f, use, a, d) ==
  Program(<<"start", "while", "after", "exit", "pick", "false", "true", "join", "back">>,
          Block("start", Append(Prologue, At("s", before)), <<"while">>)
            @@ Block("while", <<At("w", <<"flag">>)>>, <<"pick", "after">>)
            @@ Block("pick", <<At("c", c)>>, <<"true", "false">>)
            @@ Block("true", <<At("true", t)>>, <<"join">>)
            @@ Block("false", <<At("false", f)>>, <<"join">>)
            @@ Block("join", <<At("u", use), At("l", <<"decl", "y">>), At("a", a), At("m", <<"end", "y", "end">>)>>,
                     <<"back">>)
            @@ Block("back", <<>>, <<"while">>)
            @@ Epilogue(d),
          {})

(* bool c; int x; int *p = nullptr;                                        *)
(* while (c) { int *q = (test ? t : f);  a  if (c) { *q; break; } }        *)
BreakConditionally(c, t, f, a) ==
  Program(<<"start", "while", "pick", "false", "true", "join", "back", "break", "after", "exit">>,
          Block("start", <<At("d0", <<"decl", "c">>), At("d1", <<"decl", "x">>), At("d2", <<"decl", "p">>),
                           At("d3", <<"null", "p">>)>>, <<"while">>)
            @@ Block("while", <<At("w", <<"flag">>)>>, <<"pick", "after">>)
            @@ Block("pick", <<At("c", c)>>, <<"true", "false">>)
            @@ Block("true", <<At("true", t)>>, <<"join">>)
            @@ Block("false", <<At("false", f)>>, <<"join">>)
            @@ Block("join", <<At("u", <<"declChosen", "q">>), At("a", a), At("g", <<"flag">>)>>,
                     <<"break", "back">>)
            @@ Block("back", <<At("m", <<"end", "q", "end">>)>>, <<"while">>)
            @@ Block("break", <<At("b", <<"deref", "q">>), At("n", <<"end", "q", "end">>)>>, <<"after">>)
            @@ Block("after", <<>>, <<"exit">>),
          {})
=============================================================================
