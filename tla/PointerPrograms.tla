--------------------------- MODULE PointerPrograms ---------------------------
(***************************************************************************)
(* A class of programs the analysis is proved right about: functions       *)
(* without parameters whose variables are numbers and pointers of any      *)
(* depth, declared, assigned, followed, tested and going out of scope, in  *)
(* graphs of any shape.  Everything here is about the program alone.       *)
(***************************************************************************)
EXTENDS Execution

(* The local variables a node names, and their locations.                  *)
NamedBy(n) ==
  CASE n.k = "DeclRefExpr"  -> {n.var.base}
    [] n.k = "DeclStmt"     -> {n.decls[1].var}
    [] n.k = "LifetimeEnds" -> {n.var}
    [] OTHER                -> {}
Locals(f) == UNION {NamedBy(f.nodes[e]) : e \in DOMAIN f.nodes}
Names(f)  == {Var(d) : d \in Locals(f)}

IsPlainType(t) ==
  /\ t # NoType
  /\ TypeInfo[t].category \in {"Pointer", "Value"}
  /\ TypeInfo[t].isPointer = IsPointerCategory(t)
  /\ ~TypeInfo[t].isReference
  /\ ~TypeInfo[t].dtorHasPre
IsPlainLocal(d) ==
  /\ d # NoDecl
  /\ DeclInfo[d].kind = "Local"
  /\ IsPlainType(DeclInfo[d].type)

-----------------------------------------------------------------------------
(* Nodes: an lvalue names or follows a pointer or is an assignment.        *)

IsLValueNode(f, e, t) ==
  /\ e \in DOMAIN f.nodes
  /\ f.nodes[e].k \in {"DeclRefExpr", "UnaryOperator", "BinaryOperator"}
  /\ f.nodes[e].lvalue
  /\ f.nodes[e].type = t
IsPointerNode(f, e, t) ==
  /\ e \in DOMAIN f.nodes
  /\ f.nodes[e].k \in {"LValueToRValue", "UnaryOperator", "NullPtrLiteral", "NullToPointer"}
  /\ ~f.nodes[e].lvalue
  /\ f.nodes[e].type = t
  /\ IsPointerCategory(t)

IsDeclRef(n) ==
  n.k = "DeclRefExpr" /\ n.lvalue /\ n.var = Var(n.var.base) /\ n.type = DeclInfo[n.var.base].type
IsLoad(f, n) ==
  n.k = "LValueToRValue" /\ ~n.lvalue /\ IsLValueNode(f, n.sub, n.type)
IsStar(f, n) ==
  /\ n.k = "UnaryOperator" /\ n.op = "Deref" /\ n.lvalue
  /\ IsPointerNode(f, n.sub, f.nodes[n.sub].type)
  /\ n.type = PointeeType(f.nodes[n.sub].type)
IsAddress(f, n) ==
  /\ n.k = "UnaryOperator" /\ n.op = "AddrOf" /\ ~n.lvalue
  /\ IsPointerCategory(n.type)
  /\ IsLValueNode(f, n.sub, PointeeType(n.type))
IsNullLiteral(n) ==
  n.k \in {"NullPtrLiteral", "NullToPointer"} /\ ~n.lvalue /\ IsPointerCategory(n.type)
IsAssign(f, n) ==
  /\ n.k = "BinaryOperator" /\ n.op = "Assign" /\ n.lvalue
  /\ IsPointerCategory(n.type)
  /\ IsLValueNode(f, n.lhs, n.type)
  /\ IsPointerNode(f, n.rhs, n.type)

(* A condition: a flag, a pointer, or the negation of one of them.         *)
IsTest(f, n) ==
  /\ n.k = "BoolConversion" /\ ~n.lvalue /\ ~IsPointerCategory(n.type)
  /\ n.sub \in DOMAIN f.nodes
  /\ f.nodes[n.sub].k = "LValueToRValue" /\ IsPointerCategory(f.nodes[n.sub].type)
IsNegation(f, n) ==
  /\ n.k = "UnaryOperator" /\ n.op = "LNot" /\ ~n.lvalue /\ ~IsPointerCategory(n.type)
  /\ n.sub \in DOMAIN f.nodes
  /\ f.nodes[n.sub].k \in {"BoolConversion", "LValueToRValue"}
  /\ ~IsPointerCategory(f.nodes[n.sub].type)

IsCondition(f, n) ==
  /\ n.isBool
  /\ \/ IsTest(f, n)
     \/ IsNegation(f, n)
     \/ IsLoad(f, n) /\ ~IsPointerCategory(n.type)

IsExpression(f, n) ==
  /\ \/ IsDeclRef(n) \/ IsLoad(f, n) \/ IsStar(f, n) \/ IsAddress(f, n) \/ IsNullLiteral(n)
     \/ IsAssign(f, n) \/ IsTest(f, n) \/ IsNegation(f, n)
  /\ IsPlainType(n.type)

(* Declarations of one variable, and the ends of scopes.                   *)
IsDeclaration(f, n) ==
  /\ n.k = "DeclStmt"
  /\ n.decls = <<n.decls[1]>>
  /\ LET d == n.decls[1] IN d.init # NoExpr => IsPointerNode(f, d.init, DeclInfo[d.var].type)
IsScopeEnd(n) == n.k = "LifetimeEnds"
EndsStatement(n) == n.k \in {"DeclStmt", "LifetimeEnds"}

IsNode(f, n) == IsExpression(f, n) \/ IsDeclaration(f, n) \/ IsScopeEnd(n)

-----------------------------------------------------------------------------
(* Blocks: an expression uses what was evaluated before in the same        *)
(* statement, a test and a negation what was evaluated last.               *)
UsedBy(n) ==
  CASE n.k \in {"LValueToRValue", "UnaryOperator", "BoolConversion"} -> {n.sub}
    [] n.k = "BinaryOperator" -> {n.lhs, n.rhs}
    [] n.k = "DeclStmt"       -> {n.decls[1].init} \ {NoExpr}
    [] OTHER                  -> {}

(* x was evaluated among the first i elements, in the statement under way. *)
IsFresh(f, elems, x, i) ==
  \E j \in 1..i : elems[j] = x /\ \A k \in j..i : ~EndsStatement(f.nodes[elems[k]])

IsOrdered(f, elems) ==
  \A i \in 1..Len(elems) :
    LET n == f.nodes[elems[i]]
    IN  /\ \A x \in UsedBy(n) : IsFresh(f, elems, x, i - 1)
        /\ IsTest(f, n) \/ IsNegation(f, n) => i > 1 /\ n.sub = elems[i - 1]

(* The locals in scope after i elements, of those in scope on entry and    *)
(* those declared since.                                                   *)
Ends(f, e, d)     == f.nodes[e].k = "LifetimeEnds" /\ f.nodes[e].var = d
Declares(f, e, d) == f.nodes[e].k = "DeclStmt" /\ f.nodes[e].decls[1].var = d
ScopeAt(f, elems, i, before) ==
  {d \in Locals(f) :
     \/ d \in before /\ \A k \in 1..i : ~Ends(f, elems[k], d)
     \/ \E j \in 1..i : Declares(f, elems[j], d) /\ \A k \in (j + 1)..i : ~Ends(f, elems[k], d)}
ScopeAfter(f, b, before) == ScopeAt(f, f.elems[b], Len(f.elems[b]), before)

(* What is in scope on entry to a block: what was where control comes from.*)
Scopes(f) ==
  LET scope[b \in f.blocks] ==
        LET earlier == {p \in Preds(f, b) : f.rank[p] < f.rank[b]}
            p == CHOOSE q \in earlier : TRUE
        IN  IF earlier = {} THEN {} ELSE ScopeAfter(f, p, scope[p])
  IN  scope

IsWellScoped(f, scope) ==
  /\ scope[f.entry] = {}
  /\ \A b \in f.blocks : \A c \in ReachableSuccs(f, b) \ {f.exit} :
       scope[c] \subseteq ScopeAfter(f, b, scope[b])
  /\ \A b \in f.blocks : \A i \in 1..Len(f.elems[b]) :
       LET n == f.nodes[f.elems[b][i]]
       IN  n.k = "DeclRefExpr" => n.var.base \in ScopeAt(f, f.elems[b], i - 1, scope[b])

(* Wherever control leaves the scope of a variable its lifetime ends: what *)
(* is in scope at the end of a block is where control goes.                *)
EndsItsScopes(f) ==
  \A b \in f.blocks : \A c \in ReachableSuccs(f, b) \ {f.exit} :
    ScopeAfter(f, b, Scopes(f)[b]) \subseteq Scopes(f)[c]

(* A branch is on a condition; nothing is suppressed.                      *)
IsPointerProgram(f) ==
  /\ f.params = {} /\ f.members = {}
  /\ DOMAIN f.pre = {} /\ DOMAIN f.post = {}
  /\ f.suppressed = {}
  /\ IsFiniteSet(DOMAIN f.nodes) /\ NoExpr \notin DOMAIN f.nodes
  /\ \A e \in DOMAIN f.nodes : IsNode(f, f.nodes[e])
  /\ \A d \in Locals(f) : IsPlainLocal(d)
  /\ f.elems \in [f.blocks -> Seq(DOMAIN f.nodes)]
  /\ f.elems[f.entry] = <<>> /\ SuccSize(f, f.entry) = 1
  /\ \A b \in f.blocks :
       /\ f.entry \notin ReachableSuccs(f, b)
       /\ SuccSize(f, b) = 2 =>
            /\ f.elems[b] # <<>>
            /\ IsCondition(f, f.nodes[Last(f.elems[b])])
            /\ ~IsNoopBlock(f, b)
       /\ IsOrdered(f, f.elems[b])
  /\ IsWellScoped(f, Scopes(f))

-----------------------------------------------------------------------------
(* The psets of such a program: of its locals, and holding nothing else.   *)
PSets(f) == SUBSET (Names(f) \cup Special)
PMapsOf(f) == UNION {[vs -> PSets(f)] : vs \in SUBSET Names(f)}

(* The markers are no locations, and they differ from each other.          *)
ASSUME MarkersAssumption ==
  /\ Cardinality({Null, Invalid, Global, Opaque}) = 4
  /\ Opaque \notin BOOLEAN
  /\ \A d \in FunctionDecls : IsPointerProgram(Body[d]) =>
       /\ Names(Body[d]) \cap {Null, Invalid, Global, Opaque} = {}
       /\ \A vs \in SUBSET Names(Body[d]) : NoPMap \notin [vs -> PSets(Body[d])]
=============================================================================
