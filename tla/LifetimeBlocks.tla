--------------------------- MODULE LifetimeBlocks ---------------------------
(***************************************************************************)
(* One visit of a basic block (PSetsBuilder::visitBlock): statements, the  *)
(* condition a block ends with and the end of the function.                *)
(***************************************************************************)
EXTENDS LifetimeCalls

-----------------------------------------------------------------------------
(* Statements *)

(* A pointer points to what it is initialised with, an Owner to what it    *)
(* owns, anything else to itself; an aggregate takes over the members of   *)
(* its initialiser.                                                        *)
VisitVariable(f, s, d) ==
  LET v == Var(d.var)
      t == DeclInfo[d.var].type
      init == PSetOf(f, s, d.init)
      uninitialised == IF Kind(v) = "Global" THEN {Global} ELSE {Invalid}
      mine == {w \in DOMAIN s.members : d.init # NoExpr /\ w.base = f.nodes[d.init].object}
      Member(st, w) ==
        SetPSet(st, Singleton(ReplaceExpr(w, v), 0), Adopt(s.members[w], v), d.loc)
  IN  CASE IsPointerCategory(t) ->
             IF d.init # NoExpr
             THEN SetPSet(HandlePointerAssign(s, t, init, d.loc), Singleton(v, 0), init, d.loc)
             ELSE SetPSet(s, Singleton(v, 0), uninitialised, d.loc)
        [] IsOwnerCategory(t) -> SetPSet(s, Singleton(v, 0), Singleton(v, 1), d.loc)
        [] IsAggregate(t) ->
             FoldLeft(Member, SetPSet(s, Singleton(v, 0), Singleton(v, 0), d.loc), SetToSeq(mine))
        [] OTHER -> SetPSet(s, Singleton(v, 0), Singleton(v, 0), d.loc)

Calls         == {"CallExpr", "CXXOperatorCallExpr", "CXXMemberCallExpr"}
Constructions == {"CXXConstructExpr", "CXXTemporaryObjectExpr"}

(* auto [a, b] = e; the call e is visited once more, and so is the member  *)
(* a binding stands for.                                                   *)
VisitDecompositionDecl(f, s, d) ==
  LET n == f.nodes[d.init]
      again == IF n.k \in Calls THEN VisitCallExpr(f, s, d.init) ELSE s
      whole == PSetOf(f, again, IF n.k \in Constructions THEN n.args[1] ELSE d.init)
      Bound(st, b) ==
        LET base == VisitDeclRefExpr(f, st, f.nodes[b.member].base)
            read == VisitMemberExpr(f, base, b.member)
        IN  IF ~IsPointerCategory(DeclInfo[b.var].type) \/ b.member = NoExpr THEN st
            ELSE SetPSet(read, Singleton(Var(b.var), 0), PSetOf(f, read, b.member), d.loc)
  IN  FoldLeft(Bound, SetPSet(again, Singleton(Var(d.var), 0), whole, d.loc), d.bindings)

VisitVarDecl(f, s, d) ==
  IF Kind(Var(d.var)) = "Decomposition" THEN VisitDecompositionDecl(f, s, d)
  ELSE VisitVariable(f, s, d)

VisitDeclStmt(f, s, e) ==
  LET Declare(st, d) == VisitVarDecl(f, st, d) IN FoldLeft(Declare, s, f.nodes[e].decls)

(* A member that is returned by reference stands for what it points to.    *)
DerefPSetForMemberIfNecessary(pmap, ps) ==
  IF Invalid \in ps THEN ps
  ELSE (ps \cap {Global})
         \cup UNION {IF v \in DOMAIN pmap THEN pmap[v] ELSE Singleton(v, 0) : v \in VarsOf(ps)}

(* Locals and temporaries do not outlive the return; *p does, for p is a   *)
(* parameter then.                                                         *)
InvalidateLocalVarsReferencedByReturn(ps) ==
  LET DiesHere(v) ==
        \/ IsTemporary(v)
        \/ /\ Kind(v) \in {"Local", "Param", "Decomposition"}
           /\ ~IsDeref(v) \/ IsOwnerCategory(DeclInfo[v.base].type)
  IN  IF \E v \in VarsOf(ps) : DiesHere(v) THEN {Invalid} ELSE ps

PostCondition(f, v) == IF v \in DOMAIN f.post THEN f.post[v] ELSE {}

(* A slip: the members are taken to be fine. *)
ReturnUnchecked(f, s, value, loc) == s

(* An aggregate is checked member by member; one no postcondition is about *)
(* must be null.                                                           *)
VisitAggregateReturn(f, s, value, loc) ==
  LET Member(st, path) ==
        LET v == ChainFields(NodeObject(f, value), path)
            promised == PostCondition(f, ChainFields(Var("return"), path))
        IN  CheckContract(Ensure(st, HasVarPSet(st, v)),
                          InvalidateLocalVarsReferencedByReturn(VarPSet(st, v)),
                          IF IsUnknown(promised) THEN {Null} ELSE promised, loc)
  IN  FoldLeft(Member, s, PointerPaths(f.nodes[value].type))

VisitReturnStmt(f, s, e) ==
  LET n == f.nodes[e]
      named == IgnoreTransparentExprs(f, n.sub)
      ps == PSetOf(f, s, n.sub)
      returned == IF IsLValue(f, n.sub) /\ f.nodes[named].k = "MemberExpr"
                  THEN DerefPSetForMemberIfNecessary(s.pmap, ps) ELSE ps
  IN  IF n.sub = NoExpr THEN s
      ELSE IF IsAggregate(f.returnType) THEN VisitAggregateReturn(f, s, named, n.loc)
      ELSE IF ~IsPointerCategory(f.returnType) /\ ~IsLValue(f, n.sub) THEN s
      ELSE CheckContract(s, InvalidateLocalVarsReferencedByReturn(returned),
                         PostCondition(f, Var("return")), n.loc)

-----------------------------------------------------------------------------
(* Conditions *)

(* The lvalue a condition tests for null, and whether the true branch is   *)
(* the one where it is not null.                                           *)
TestedLValue(f, s, e) ==
  LET none == [lvalue |-> NoExpr, positive |-> TRUE]
      Negated(test) == [lvalue |-> test.lvalue, positive |-> ~test.positive]
      tested[x \in DOMAIN f.nodes] ==
        LET c == IgnoreLValueToRValueToo(f, x)
            n == f.nodes[c]
            side(y) == IF n.op = "EQ" THEN Negated(tested[y]) ELSE tested[y]
        IN  CASE n.k \in {"BoolConversion", "BuiltinExpect"} -> tested[n.sub]
              [] n.k = "UnaryOperator" ->
                   IF n.op = "LNot" THEN Negated(tested[n.sub]) ELSE none
              [] n.k = "BinaryOperator" ->
                   IF n.op \notin {"EQ", "NE"} THEN none
                   ELSE IF ~(IsPointerExpr(f, n.lhs) /\ IsPointerExpr(f, n.rhs)) THEN none
                   ELSE IF IsNull(PSetOf(f, s, n.rhs)) THEN side(n.lhs)
                   ELSE IF IsNull(PSetOf(f, s, n.lhs)) THEN side(n.rhs)
                   ELSE none
              [] OTHER ->
                   IF n.k \notin Calls /\ n.lvalue /\ Category(n.type) \in {"Pointer", "Owner"}
                   THEN [lvalue |-> c, positive |-> TRUE] ELSE none
  IN  tested[e]

(* A slip: the outcomes the wrong way round. *)
UpdateNegated(f, s, e) ==
  LET test == TestedLValue(f, s, e)
      refs == VarsOf(PSetOf(f, s, test.lvalue))
      pset(isNull, v) == IF isNull THEN {Null} ELSE GetPSet(s.pmap, v) \ {Null}
  IN  IF test.lvalue = NoExpr \/ Cardinality(refs) # 1 THEN s
      ELSE LET v == CHOOSE w \in refs : TRUE
           IN  [s EXCEPT !.pmap = SetVars(@, {v}, pset(test.positive, v)),
                         !.falseExit = SetVars(s.pmap, {v}, pset(~test.positive, v))]

(* Splits the psets: the tested location is null on one branch and not     *)
(* null on the other.  Nothing changes, and the false branch keeps the map *)
(* it had, unless the lvalue refers to one location.                       *)
UpdatePSetsFromCondition(f, s, e) ==
  LET test == TestedLValue(f, s, e)
      refs == VarsOf(PSetOf(f, s, test.lvalue))
      v == CHOOSE w \in refs : TRUE
      pmap == Remember(s.pmap, {v})
      nonNull == GetPSet(s.pmap, v) \ {Null}
      Branch(isNull) ==
        SetVars(IF isNull THEN SetVars(pmap, {DerefVar(v)} \cap DOMAIN pmap, {}) ELSE pmap,
                {v}, IF isNull THEN {Null} ELSE nonNull)
  IN  IF test.lvalue = NoExpr \/ Cardinality(refs) # 1 THEN s
      ELSE [s EXCEPT !.pmap = Branch(~test.positive), !.falseExit = Branch(test.positive)]

Statements == {"DeclStmt", "ReturnStmt", "OtherStmt"}
NotExprs == Statements \cup {"LifetimeEnds", "TemporaryDtor", "CXXCtorInitializer"}

(* The condition the block ends with; for the last operand of an && or ||  *)
(* that converges in a noop block, the operand itself.                     *)
GetRealTerminator(f, b) ==
  LET elems == f.elems[b]
      isExpr == elems # <<>> /\ f.nodes[Last(elems)].k \notin NotExprs
      next == f.succs[b][1]
      feedsNoop == /\ SuccSize(f, b) = 1
                   /\ next.reachable
                   /\ IsNoopBlock(f, next.to)
                   /\ SuccSize(f, next.to) = 2
  IN  IF isExpr /\ (feedsNoop \/ SuccSize(f, b) >= 2) THEN Last(elems) ELSE NoExpr

-----------------------------------------------------------------------------
(* The end of the function *)

(* A slip: only what is returned is checked. *)
CheckReturnOnly(f, s, b) == s

(* Parameters held by value are gone; what is left must meet the contract. *)
OnFunctionFinish(f, s, b) ==
  LET last == f.nodes[Last(f.elems[b])]
      loc == IF f.elems[b] = <<>> THEN "end"
             ELSE IF last.k = "ReturnStmt" THEN last.loc
             ELSE IF last.k = "LifetimeEnds" THEN last.trigger
             ELSE "end"
      ByValue(d) == /\ DeclInfo[d].kind = "Param"
                    /\ ~TypeInfo[DeclInfo[d].type].isPointer
                    /\ ~TypeInfo[DeclInfo[d].type].isReference
      gone == {w.base : w \in {u \in DOMAIN s.pmap : ByValue(u.base)
                                                    /\ ~IsPointerCategory(GetType(u))}}
      erased == FoldLeft(EraseVariable, s, SetToSeq(gone))
      outs == {v \in DOMAIN f.post \cap DOMAIN erased.pmap : ~IsReturnVal(v)}
      Meets(st, v) ==
        LET Through(w) == LET held == IF IsField(w) /\ w \in DOMAIN st.pmap
                                      THEN VarsOf(st.pmap[w]) ELSE {}
                          IN  IF held = {} THEN w ELSE CHOOSE u \in held : TRUE
            ps == TransformVars(st.pmap[v], Through)
        IN  CheckContract([st EXCEPT !.pmap = SetVars(@, {v}, ps)], ps, f.post[v], loc)
      IsOutput(v) ==
        /\ IsField(v) \/ IsDeref(v)
        /\ IsThisPointer(v) \/ IsParameter(v)
        /\ IsDeref(v) \/ IsPointerCategory(GetType(v))
        /\ ~(IsParameter(v) /\ TypeInfo[DeclInfo[v.base].type].isRValueReference)
      checked == FoldLeft(Meets, erased, SetToSeq(outs))
      dangling == {v \in DOMAIN checked.pmap : /\ IsOutput(v)
                                               /\ Invalid \in checked.pmap[v]
                                               /\ Invalid \notin PostCondition(f, v)}
      Tell(st, v) == Diagnose(st, "Dangling", loc, ~IsInvalid(checked.pmap[v]))
  IN  IF f.isDestructor THEN checked ELSE FoldLeft(Tell, checked, SetToSeq(dangling))

-----------------------------------------------------------------------------
(* Blocks *)

VisitExprOrStmt(f, s, e) ==
  LET k == f.nodes[e].k
  IN  CASE k = "Global"                      -> VisitGlobal(f, s, e)
        [] k = "CXXDefaultArgExpr"           -> VisitCXXDefaultArgExpr(f, s, e)
        [] k = "CXXNewExpr"                  -> VisitCXXNewExpr(f, s, e)
        [] k = "CXXDeleteExpr"               -> VisitCXXDeleteExpr(f, s, e)
        [] k = "DeclRefExpr"                 -> VisitDeclRefExpr(f, s, e)
        [] k = "MemberExpr"                  -> VisitMemberExpr(f, s, e)
        [] k = "ArraySubscriptExpr"          -> VisitArraySubscriptExpr(f, s, e)
        [] k = "CXXThisExpr"                 -> VisitCXXThisExpr(f, s, e)
        [] k = "ConditionalOperator"         -> VisitAbstractConditionalOperator(f, s, e)
        [] k = "MaterializeTemporaryExpr"    -> VisitMaterializeTemporaryExpr(f, s, e)
        [] k = "InitListExpr"                -> VisitInitListExpr(f, s, e)
        [] k = "CXXScalarValueInitExpr"      -> VisitCXXScalarValueInitExpr(f, s, e)
        [] k \in CastsThatAreVisited \cup {"LValueToRValue"} -> VisitCastExpr(f, s, e)
        [] k = "BinaryOperator"              -> VisitBinaryOperator(f, s, e)
        [] k = "UnaryOperator"               -> VisitUnaryOperator(f, s, e)
        [] k \in Constructions               -> VisitCXXConstructExpr(f, s, e)
        [] k \in Calls                       -> VisitCallExpr(f, s, e)
        [] k = "Unknown"                     -> VisitUnknown(f, s, e)
        [] k = "SubstNonTypeTemplateParm"    -> VisitSubstNonTypeTemplateParmExpr(f, s, e)
        [] k = "Wrapper"                     -> VisitWrapper(f, s, e)
        [] k = "CXXThrowExpr"                -> VisitCXXThrowExpr(f, s, e)
        [] k = "LambdaExpr"                  -> VisitLambdaExpr(f, s, e)
        [] k = "DeclStmt"                    -> VisitDeclStmt(f, s, e)
        [] k = "ReturnStmt"                  -> VisitReturnStmt(f, s, e)
        [] OTHER                             -> s

(* Temporaries vanish after a declaration; every statement that is not an  *)
(* expression makes the builder forget the expressions seen so far.        *)
VisitStmt(f, s, e) ==
  LET k == f.nodes[e].k
      visited == VisitExprOrStmt(f, s, e)
      swept == IF k = "DeclStmt" THEN EraseVariable(visited, NoDecl) ELSE visited
  IN  IF k \in Statements THEN [swept EXCEPT !.exprs = EmptyPMap, !.members = EmptyPMap] ELSE swept

VisitLifetimeEnds(f, s, e) ==
  LET d == f.nodes[e].var
      checked == IF TypeInfo[DeclInfo[d].type].dtorHasPre
                 THEN CheckPSetValidity(s, GetPSet(s.pmap, Var(d)), f.nodes[e].loc) ELSE s
  IN  EraseVariable(checked, d)

VisitElement(f, s, e) ==
  LET k == f.nodes[e].k
  IN  CASE k = "LifetimeEnds"        -> VisitLifetimeEnds(f, s, e)
        [] k = "TemporaryDtor"       -> EraseVariable(s, NoDecl)
        [] k = "CXXCtorInitializer"  -> VisitCXXCtorInitializer(f, s, e)
        [] OTHER                     -> VisitStmt(f, s, e)

IsThrowingBlock(f, b) ==
  \E i \in DOMAIN f.elems[b] : f.nodes[f.elems[b][i]].k = "CXXThrowExpr"

(* One visit of block b: its elements up to the first one Clang could not  *)
(* make sense of, then its condition, then the end of the function.  Visit *)
(* is VisitElement: as the only member of a set it is evaluated once.      *)
VisitBlockOf(f, b, pmap, falseExit, exprs) ==
  LET elems == f.elems[b]
      bad == {i \in DOMAIN elems : f.nodes[elems[i]].k = "RecoveryExpr"}
      good == IF bad = {} THEN elems ELSE SubSeq(elems, 1, Min(bad) - 1)
      Visit(s, e) == CHOOSE t \in {VisitElement(f, s, e)} : t = t
      start == [pmap |-> pmap, exprs |-> exprs.psets, members |-> exprs.members,
                falseExit |-> falseExit, diags |-> <<>>, failed |-> exprs.failed]
      visited == FoldLeft(Visit, start, good)
      terminator == GetRealTerminator(f, b)
      split == IF terminator = NoExpr THEN visited
               ELSE UpdatePSetsFromCondition(f, visited, terminator)
      finished == /\ b \notin f.noReturn
                  /\ ~IsThrowingBlock(f, b)
                  /\ SuccSize(f, b) = 1
                  /\ f.exit \in ReachableSuccs(f, b)
      end == CASE bad # {} -> visited
               [] bad = {} /\ finished -> OnFunctionFinish(f, split, b)
               [] OTHER -> split
  IN  [pmap |-> end.pmap, falseExit |-> end.falseExit, diags |-> end.diags,
       exprs |-> [psets |-> end.exprs, members |-> end.members, failed |-> end.failed]]
=============================================================================
