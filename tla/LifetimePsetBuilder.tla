------------------------ MODULE LifetimePsetBuilder ------------------------
(***************************************************************************)
(* The transfer function: class PSetsBuilder visits the elements of one    *)
(* basic block in order and updates the psets.                             *)
(*                                                                         *)
(* The builder's state is a record s:                                      *)
(*   pmap       PMap, the psets of all memory locations,                   *)
(*   exprs      RefersTo and PSetsOfExpr: the first is keyed by lvalues,   *)
(*              the second by rvalues, so they are one map here,           *)
(*   members    ExprMemberPMap, the pointers in aggregates without a name, *)
(*   falseExit  FalseBranchExitPMap, NoPMap when it has no value,          *)
(*   diags      the diagnostics handed to the reporter, in order,          *)
(*   failed     an assertion has failed: the process ends there.           *)
(* A node of the body is named by e; f.nodes[e] is the Clang AST node, and *)
(* its object the Variable it is the base of.                              *)
(*                                                                         *)
(* This module holds what the visitors share and those for expressions;    *)
(* LifetimeAggregates, LifetimeCalls and LifetimeBlocks build on it.       *)
(***************************************************************************)
EXTENDS LifetimePset, ControlFlowGraph, FiniteSets, FiniteSetsExt, TLC

CONSTANTS
  MaxOrderDepth  \* longest chain of dereferences below an Owner

Diagnose(s, kind, loc, possibly) ==
  [s EXCEPT !.diags = Append(@, [kind |-> kind, loc |-> loc, possibly |-> possibly])]

-----------------------------------------------------------------------------
(* Reading and writing psets *)

Prefix(v, n) == [v EXCEPT !.path = SubSeq(@, 1, n)]

(* pset(v): what the map says, else what a location never seen points to.  *)
GetPSet(pmap, v) ==
  LET OfField(w, parentPSet) ==
        LET t == FieldInfo[GetField(w)].type
            Extend(u) == IF IsOwnerCategory(t)
                         THEN DerefVar(AddField(u, GetField(w)))
                         ELSE AddField(u, GetField(w))
        IN  IF IsPointerCategory(t) THEN {Global}
            ELSE IF IsUnknown(parentPSet) THEN Singleton(w, 0)
            ELSE TransformVars(parentPSet, Extend)
      get[n \in 0..Len(v.path)] ==
        LET w == Prefix(v, n)
            t == GetType(w)
        IN  IF HasStaticLifetime(w) THEN {Global}
            ELSE IF w \in DOMAIN pmap THEN pmap[w]
            ELSE IF IsField(w) THEN OfField(w, get[n - 1])
            ELSE IF t = NoType
                 THEN IF GetDerefNum(w) > MaxOrderDepth THEN {Global}
                      ELSE Singleton(w, 1)
            ELSE IF IsDeref(w)
                 THEN IF IsPointerCategory(t) THEN {Global}
                      ELSE Singleton(w, IF IsOwnerCategory(t) THEN 1 ELSE 0)
            ELSE IF TypeInfo[t].isArray THEN {}
            ELSE IF IsVarDecl(w) /\ ~IsParameter(w) THEN {Invalid}
            ELSE {}
  IN  get[Len(v.path)]

(* getPSet remembers the fields it had to make up in the map it reads.     *)
MadeUp(pmap, v) ==
  LET Unseen(w) == ~HasStaticLifetime(w) /\ w \notin DOMAIN pmap /\ IsField(w)
      Derived(w) == Unseen(w) /\ ~IsPointerCategory(FieldInfo[GetField(w)].type)
      n == Len(v.path)
  IN  {Prefix(v, k) : k \in {j \in 1..n : /\ Unseen(Prefix(v, j))
                                          /\ \A i \in (j + 1)..n : Derived(Prefix(v, i))}}

Remember(pmap, vs) ==
  Over(pmap, [w \in UNION {MadeUp(pmap, v) : v \in vs} |-> GetPSet(pmap, w)])

(* The pset of dereferencing a pset; Null is ignored, and an invalid one   *)
(* becomes unknown so that it is diagnosed once.                           *)
DerefPSet(pmap, ps) ==
  LET Target(v) ==
        IF GetOrder(v) = 0 THEN GetPSet(pmap, v)
        ELSE IF \/ GetOrder(v) > MaxOrderDepth
                \/ IsPointerCategory(GetType(v))
             THEN {Global}
             ELSE Insert({}, DerefVar(v))
  IN  IF Invalid \in ps THEN {}
      ELSE (ps \cap {Global}) \cup UNION {Target(v) : v \in VarsOf(ps)}

(* The locations DerefPSet looks up in the map. *)
Looked(ps) ==
  IF Invalid \in ps THEN {} ELSE {v \in VarsOf(ps) : GetOrder(v) = 0}

SetVars(pmap, vs, ps) == [w \in vs \cup DOMAIN pmap |-> IF w \in vs THEN ps ELSE pmap[w]]

(* A slip: a strong update of everything lhs may be. *)
SetPSetStrongly(s, lhs, rhs, loc) == [s EXCEPT !.pmap = SetVars(@, VarsOf(lhs), rhs)]

AddToVars(pmap, vs, ps) ==
  LET Added(w) == IF w \in vs THEN ps ELSE {}
      Old(w) == IF w \in DOMAIN pmap THEN pmap[w] ELSE {}
  IN  [w \in vs \cup DOMAIN pmap |-> Added(w) \cup Old(w)]

(* An assignment through lhs: a strong update when lhs holds one location, *)
(* a weak one otherwise.                                                   *)
SetPSet(s, lhs, rhs, loc) ==
  LET vs == VarsOf(lhs)
      escapes == IsGlobal(lhs) /\ rhs \notin {{}, {Global}, {Null}}
      told == IF escapes THEN Diagnose(s, "PsetOfGlobal", loc, FALSE) ELSE s
  IN  [told EXCEPT !.pmap = IF Cardinality(vs) = 1 THEN SetVars(@, vs, rhs)
                            ELSE AddToVars(@, vs, rhs)]

(* getPSet of a pset: what the locations it holds may point to. *)
MergedPSet(pmap, ps) ==
  IF Invalid \in ps THEN {Invalid}
  ELSE (ps \cap {Global, Null}) \cup UNION {GetPSet(pmap, v) : v \in VarsOf(ps)}

(* The psets of the members of an aggregate: those of an expression are    *)
(* kept apart, and there may be none.                                      *)
HasVarPSet(s, v) == IsExprVar(v) => v \in DOMAIN s.members
VarPSet(s, v) ==
  IF ~HasVarPSet(s, v) THEN {} ELSE IF IsExprVar(v) THEN s.members[v] ELSE GetPSet(s.pmap, v)
SetVarPSet(s, v, ps) ==
  IF IsExprVar(v) THEN [s EXCEPT !.members = SetVars(@, {v}, ps)]
  ELSE [s EXCEPT !.pmap = SetVars(@, {v}, ps)]
ClearVarPSet(s, v) ==
  IF IsExprVar(v) THEN [s EXCEPT !.members = Restrict(@, DOMAIN @ \ {v})]
  ELSE [s EXCEPT !.pmap = Restrict(@, DOMAIN @ \ {v})]

(* CPPSAFE_ASSERT *)
Ensure(s, condition) == [s EXCEPT !.failed = @ \/ ~condition]

(* A slip: null passes. *)
IsAlive(ps) == Invalid \notin ps

IsValid(ps) ==
  /\ Invalid \notin ps
  /\ Null \in ps => ~LifetimeNull /\ ~IsNull(ps)

(* Slips: diagnosing null only, and never doubting. *)
CheckNullOnly(s, ps, loc) ==
  IF ~IsValid(ps) /\ Null \in ps THEN Diagnose(s, "DerefNull", loc, ~IsNull(ps)) ELSE s
CheckWithoutDoubt(s, ps, loc) ==
  IF IsValid(ps) THEN s
  ELSE Diagnose(s, IF Invalid \in ps THEN "DerefDangling" ELSE "DerefNull", loc, FALSE)

CheckPSetValidity(s, ps, loc) ==
  IF Invalid \in ps
  THEN Diagnose(s, "DerefDangling", loc, ~IsInvalid(ps))
  ELSE IF ~IsValid(ps)
  THEN Diagnose(s, "DerefNull", loc, ~IsNull(ps))
  ELSE s

CheckContract(s, ps, allowed, loc) ==
  LET verdict == CheckSubstitutableFor(ps, allowed)
  IN  IF verdict = "ok" THEN s
      ELSE Diagnose(s, verdict, loc, \/ verdict = "Dangling" /\ ~IsInvalid(ps)
                                     \/ verdict = "Null" /\ ~IsNull(ps))

-----------------------------------------------------------------------------
(* Expressions *)

CastsThatAreVisited ==
  {"BitCast", "IntegralToPointer", "NullToPointer", "ArrayToPointerDecay", "Dynamic"}

(* Follow the sub-expression as long as a node has one of the kinds. *)
StripTo(f, e, kinds) ==
  LET strip[x \in DOMAIN f.nodes] ==
        IF f.nodes[x].k \in kinds THEN strip[f.nodes[x].sub] ELSE x
  IN  strip[e]

IgnoreTransparentExprs(f, e) == StripTo(f, e, {"Transparent"})
IgnoreLValueToRValueToo(f, e) == StripTo(f, e, {"Transparent", "LValueToRValue"})
IgnoreCasts(f, e) ==
  StripTo(f, e, {"Transparent", "LValueToRValue"} \cup CastsThatAreVisited)

IsLValue(f, e) == f.nodes[e].lvalue
IsPointerExpr(f, e) == IsPointerCategory(f.nodes[e].type)
HasPSet(f, e) ==
  IsLValue(f, e) \/ Category(f.nodes[e].type) \in {"Pointer", "Owner"}

(* The pset of an expression; it is an error when it was not visited.      *)
PSetOf(f, s, e) ==
  LET x == IgnoreTransparentExprs(f, e)
  IN  IF f.nodes[x].k = "NullPtrLiteral" THEN {Null} ELSE s.exprs[x]

PSetOfIfAny(f, s, e) ==
  LET x == IgnoreTransparentExprs(f, e)
  IN  IF f.nodes[x].k # "NullPtrLiteral" /\ x \notin DOMAIN s.exprs
      THEN {} ELSE PSetOf(f, s, e)

SetExpr(s, e, ps) == [s EXCEPT !.exprs = SetVars(@, {e}, ps)]

(* setPSet(E, derefPSet(ps)) *)
SetExprDeref(s, e, ps) ==
  [SetExpr(s, e, DerefPSet(s.pmap, ps)) EXCEPT !.pmap = Remember(@, Looked(ps))]

(* String literals, functions, typeid, static members, captures: all name  *)
(* something that lives as long as the program.                            *)
VisitGlobal(f, s, e) == SetExpr(s, e, {Global})

(* va_arg, a compound literal, a statement expression and the like: the    *)
(* code gives up on what they point to.                                    *)
VisitUnknown(f, s, e) == SetExpr(s, e, {})

(* A non-type template argument is a constant: what it points to is static *)
VisitSubstNonTypeTemplateParmExpr(f, s, e) ==
  IF HasPSet(f, e) THEN SetExpr(s, e, {Global}) ELSE s

(* A default member initialiser and an initializer_list stand for their    *)
(* sub-expression.                                                         *)
VisitWrapper(f, s, e) ==
  IF HasPSet(f, e) THEN SetExpr(s, e, PSetOf(f, s, f.nodes[e].sub)) ELSE s

VisitCXXDefaultArgExpr(f, s, e) ==
  IF HasPSet(f, e) THEN SetExpr(s, e, {Global}) ELSE s

VisitCXXNewExpr(f, s, e) ==
  SetExpr(Diagnose(s, "NakedNewDelete", f.nodes[e].loc, FALSE), e, {Global})

(* What naming a variable refers to: itself or, for a reference, what it   *)
(* was bound to.                                                           *)
VarRefersTo(s, v, loc) ==
  LET t  == GetType(v)
      ps == GetPSet(s.pmap, v)
      read == [s EXCEPT !.pmap = Remember(@, {v})]
  IN  IF ~(t # NoType /\ TypeInfo[t].isReference) /\ Kind(v) # "Decomposition"
      THEN [st |-> s, ps |-> Singleton(v, 0)]
      ELSE [st |-> CheckPSetValidity(read, ps, loc),
            ps |-> IF IsValid(ps) THEN ps ELSE {}]

VisitDeclRefExpr(f, s, e) ==
  LET n == f.nodes[e]
      refersTo == VarRefersTo(s, n.var, n.loc)
  IN  IF n.var.path = <<>> /\ Kind(n.var) = "Binding"
      THEN IF n.holdingVar # NoDecl
           THEN SetExpr(s, e, GetPSet(s.pmap, Var(n.holdingVar)))
           ELSE SetExprDeref(refersTo.st, e, refersTo.ps)
      ELSE SetExpr(refersTo.st, e, refersTo.ps)

(* A member function is checked when it is called.                         *)
VisitMemberExpr(f, s, e) ==
  LET n    == f.nodes[e]
      base == PSetOf(f, s, n.base)
      checked == IF TypeInfo[f.nodes[n.base].type].isPointer /\ n.member # "Method"
                 THEN CheckPSetValidity(s, base, n.loc) ELSE s
      field == AddFieldRefIfTypeMatch(base, n.field)
      target == DerefPSet(s.pmap, field)
      followed == [checked EXCEPT !.pmap = Remember(@, Looked(field))]
  IN  CASE n.member = "Method" -> checked
        [] n.member = "Static" -> SetExpr(checked, e, {Global})
        [] n.member = "Field"  ->
             IF TypeInfo[FieldInfo[n.field].type].isReference
             THEN SetExpr(CheckPSetValidity(followed, target, n.loc), e,
                          IF IsValid(target) THEN target ELSE {})
             ELSE SetExpr(checked, e, field)

VisitArraySubscriptExpr(f, s, e) ==
  LET n == f.nodes[e]
      array == IgnoreCasts(f, n.base)
      checked == IF TypeInfo[f.nodes[array].type].isArray THEN s
                 ELSE Diagnose(s, "PointerArithmetic", n.loc, FALSE)
  IN  SetExpr(checked, e, PSetOf(f, s, n.base))

VisitCXXThisExpr(f, s, e) == SetExpr(s, e, Singleton(f.nodes[e].var, 1))

(* A slip: the operand after the colon is left out. *)
TakeFirstOperand(f, s, e) ==
  IF HasPSet(f, e) THEN SetExpr(s, e, PSetOfIfAny(f, s, f.nodes[e].ifTrue)) ELSE s
(* An operand that is never evaluated, or not anew, has no pset.           *)
VisitAbstractConditionalOperator(f, s, e) ==
  LET n == f.nodes[e]
  IN  IF ~HasPSet(f, e) THEN s
      ELSE SetExpr(s, e, PSetOfIfAny(f, s, n.ifTrue) \cup PSetOfIfAny(f, s, n.ifFalse))

VisitCXXScalarValueInitExpr(f, s, e) ==
  IF TypeInfo[f.nodes[e].type].isPointer THEN SetExpr(s, e, {Null}) ELSE s

VisitCastExpr(f, s, e) ==
  LET n == f.nodes[e]
      sub == PSetOf(f, s, n.sub)
      unsafe == Diagnose(s, "UnsafeCast", n.loc, FALSE)
      downcast ==
        /\ TypeInfo[n.type].isPointer
        /\ PointeeType(n.type) # NoType
        /\ PointeeType(f.nodes[n.sub].type) \in TypeInfo[PointeeType(n.type)].bases
      pointees == (sub \cap Special)
                    \cup {v \in VarsOf(sub) : /\ GetType(v) # NoType
                                              /\ TypeInfo[GetType(v)].isPointer}
  IN  CASE n.k = "BitCast"             -> SetExpr(unsafe, e, sub)
        [] n.k = "IntegralToPointer"   -> SetExpr(unsafe, e, {})
        [] n.k = "NullToPointer"       -> SetExpr(s, e, {Null})
        [] n.k = "ArrayToPointerDecay" -> SetExprDeref(s, e, sub)
        [] n.k = "Dynamic" ->
             SetExpr(s, e, IF downcast THEN sub \cup {Null} ELSE sub)
        [] n.k = "LValueToRValue" ->
             IF ~HasPSet(f, e) THEN s
             ELSE SetExprDeref(s, e, IF IsPointerExpr(f, e) THEN pointees ELSE sub)

(* array + literal, with the element one past the end allowed              *)
IsArrayPlusIndex(f, n) ==
  LET array == f.nodes[f.nodes[n.lhs].sub]
  IN  /\ n.op = "Add"
      /\ f.nodes[n.lhs].k = "ArrayToPointerDecay"
      /\ array.k = "DeclRefExpr"
      /\ TypeInfo[array.type].isArray
      /\ f.nodes[n.rhs].k = "IntegerLiteral"
      /\ f.nodes[n.rhs].value \in 0..TypeInfo[array.type].size

HandlePointerAssign(s, type, ps, loc) ==
  IF Null \in ps /\ ~TypeInfo[type].nullable
  THEN Diagnose(s, "AssignNull", loc, ~IsNull(ps)) ELSE s

VisitAssign(f, s, e) ==
  LET n == f.nodes[e]
      lhs == PSetOf(f, s, n.lhs)
      rhs == PSetOf(f, s, n.rhs)
      loc == f.nodes[n.rhs].loc
      checked == HandlePointerAssign(s, f.nodes[n.lhs].type, rhs, loc)
  IN  SetExpr(IF IsPointerCategory(n.type) THEN SetPSet(checked, lhs, rhs, loc) ELSE s,
              e, lhs)

VisitBinaryOperator(f, s, e) ==
  LET n == f.nodes[e]
      arith == Diagnose(s, "PointerArithmetic", n.opLoc, FALSE)
      pointer == IF TypeInfo[f.nodes[n.lhs].type].isPointer THEN n.lhs ELSE n.rhs
  IN  IF n.op = "Assign" THEN VisitAssign(f, s, e)
      ELSE IF IsArrayPlusIndex(f, n) THEN SetExpr(s, e, PSetOf(f, s, n.lhs))
      ELSE IF TypeInfo[n.type].isPointer
      THEN SetExpr(arith, e,
                   IF n.op \in {"Add", "AddAssign", "Sub", "SubAssign"}
                   THEN PSetOf(f, s, pointer) ELSE {})
      ELSE IF n.lvalue /\ n.op \in {"AddAssign", "SubAssign", "OtherAssign"}
      THEN SetExpr(s, e, PSetOf(f, s, n.lhs))
      ELSE IF n.lvalue /\ n.op = "Comma" THEN SetExpr(s, e, PSetOf(f, s, n.rhs))
      ELSE IF n.op = "PtrMem" THEN SetExpr(s, e, {})
      ELSE s

VisitUnaryOperator(f, s, e) ==
  LET n == f.nodes[e]
      sub == PSetOf(f, s, n.sub)
      told == IF n.op # "AddrOf" /\ IsPointerExpr(f, e) /\ ~n.generated
              THEN Diagnose(s, "PointerArithmetic", n.loc, FALSE) ELSE s
      readsPointer == ~n.lvalue /\ IsPointerExpr(f, e) /\ n.op \in {"PostInc", "PostDec"}
  IN  IF n.op = "Deref" THEN SetExpr(CheckPSetValidity(s, sub, n.loc), e, sub)
      ELSE IF ~HasPSet(f, e) THEN told
      ELSE IF readsPointer THEN SetExprDeref(told, e, sub)
      ELSE SetExpr(told, e, sub)

VisitCXXThrowExpr(f, s, e) ==
  LET n == f.nodes[e]
  IN  IF n.sub = NoExpr THEN s
      ELSE IF IsPointerExpr(f, n.sub) /\ ~IsGlobal(PSetOf(f, s, n.sub))
      THEN Diagnose(s, "NonStaticThrow", n.loc, FALSE) ELSE s

(* A lambda points to what it captures by reference and to what the        *)
(* pointers it copies point to.                                            *)
VisitLambdaExpr(f, s, e) ==
  LET n == f.nodes[e]
      Captured(c) ==
        LET v == Var(c.var)
            own == IF c.init # NoExpr THEN PSetOf(f, s, c.init) ELSE GetPSet(s.pmap, v)
        IN  IF Kind(v) = "This" THEN Singleton(v, 1)
            ELSE IF c.byRef /\ ~TypeInfo[GetType(v)].isReference THEN Singleton(v, 0)
            ELSE IF c.byRef \/ IsPointerCategory(GetType(v)) THEN own
            ELSE {}
      ps == UNION {Captured(n.captures[i]) : i \in DOMAIN n.captures}
  IN  SetExpr(s, e, IF IsUnknown(ps) THEN {Global} ELSE ps \ {Null})

VisitCXXCtorInitializer(f, s, e) ==
  LET n == f.nodes[e]
      member == AddField(DerefVar(Var(n.this)), n.field)
  IN  IF IsPointerCategory(FieldInfo[n.field].type)
      THEN SetPSet(s, Singleton(member, 0), PSetOf(f, s, n.init), n.loc) ELSE s

-----------------------------------------------------------------------------
(* Invalidation and the end of scopes *)

Without(pmap, vs) == Restrict(pmap, DOMAIN pmap \ vs)

(* Whatever points into v is dangling; a container or an iterator is left  *)
(* alone when only what it holds goes away.                                *)
InvalidateVar(pmap, v) ==
  LET Dangles(w) ==
        /\ Invalid \notin pmap[w]
        /\ ContainsParent(pmap[w], v)
        /\ ~(/\ IsDeref(v)
             /\ GetType(w) # NoType
             /\ TypeInfo[GetType(w)].isIteratorOrContainer)
  IN  SetVars(pmap, {w \in DOMAIN pmap : Dangles(w)}, {Invalid})

(* What Owner v holds is gone, and with it what is known of v's members.   *)
InvalidateOwner(pmap, v) ==
  LET Dangles(w) ==
        /\ w \notin {v, DerefVar(v)}
        /\ Invalid \notin pmap[w]
        /\ ContainsParent(pmap[w], DerefVar(v))
      left == SetVars(pmap, {w \in DOMAIN pmap : Dangles(w)}, {Invalid})
  IN  Without(left, {w \in DOMAIN left : w # v /\ IsField(w) /\ IsParent(v, w)})

(* A slip: what points to d is invalidated, d itself is kept. *)
InvalidateOnly(s, d) ==
  IF d = NoDecl THEN s ELSE [s EXCEPT !.pmap = InvalidateVar(@, Var(d))]

(* Variable d (or, for NoDecl, every temporary nothing extends) is gone.   *)
EraseVariable(s, d) ==
  LET mine == {w \in DOMAIN s.pmap : IsParent(Var(d), w)}
      left == IF d = NoDecl THEN s.pmap
              ELSE InvalidateVar(Without(s.pmap, mine), Var(d))
      temps == {w \in DOMAIN left : IsTemporaryExtendedBy(w, d)}
      PointsToTemp(w) == \E v \in VarsOf(left[w]) : IsTemporaryExtendedBy(v, d)
      kept == Without(left, temps)
  IN  [s EXCEPT !.pmap = SetVars(kept, {w \in DOMAIN kept : PointsToTemp(w)}, {Invalid})]

VisitCXXDeleteExpr(f, s, e) ==
  LET n == f.nodes[e]
      told == Diagnose(s, "NakedNewDelete", n.loc, FALSE)
      ps == PSetOf(f, s, n.sub)
      Kill(pmap, v) ==
        LET gone == InvalidateVar(pmap, v)
        IN  IF LifetimeDisabled THEN SetVars(gone, {v}, {Invalid}) ELSE gone
      killed == [told EXCEPT !.pmap = FoldLeft(Kill, @, SetToSeq(VarsOf(ps)))]
      owner == IgnoreCasts(f, n.sub)
  IN  IF ~HasPSet(f, n.sub) THEN told
      ELSE IF ~IsValid(ps \ {Null}) THEN CheckPSetValidity(told, ps \ {Null}, n.loc)
      ELSE IF IsLValue(f, owner)
      THEN SetPSet(killed, PSetOf(f, s, owner), {Invalid}, n.loc)
      ELSE killed
=============================================================================
