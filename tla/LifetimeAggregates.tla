------------------------- MODULE LifetimeAggregates -------------------------
(***************************************************************************)
(* Objects of aggregate types: the pset of an aggregate is the aggregate   *)
(* itself; what its pointers point to is kept by member.  The members of   *)
(* an expression that makes an aggregate are those of its object until a   *)
(* variable or a temporary is initialised from it.                         *)
(***************************************************************************)
EXTENDS LifetimePsetBuilder, LifetimeContracts

NodeObject(f, e) == Var(f.nodes[e].object)

(* The members of v, an aggregate of type t, outermost first. *)
Subobjects(t) == MemberPaths(t, IsAggregate)
PointerPaths(t) ==
  SelectSeq(Subobjects(t), LAMBDA path : IsPointerCategory(FieldInfo[Last(path)].type))

(* An expression's own members are the members of what it initialises.     *)
Adopt(ps, object) ==
  TransformVars(ps, LAMBDA v : IF IsExprVar(v) THEN ReplaceExpr(v, object) ELSE v)

-----------------------------------------------------------------------------
(* Initialisation *)

(* What a pointer member that no initialiser is given for points to.       *)
DefaultMemberPSet(fd) ==
  LET t == TypeInfo[FieldInfo[fd].type]
  IN  CASE FieldInfo[fd].init = "new"     -> {Global}
        [] FieldInfo[fd].init = "nullptr" -> {Null}
        [] FieldInfo[fd].init = "other"   -> {}
        [] t.isPointer                    -> {Invalid}
        [] t.nullable                     -> {Null}
        [] OTHER                          -> {Global}

HandleAggregateDefaultInit(s, base, t) ==
  LET Member(st, path) ==
        LET fd == Last(path)
            told == IF FieldInfo[fd].init = "new"
                    THEN Diagnose(st, "NakedNewDelete", fd, FALSE) ELSE st
        IN  SetVarPSet(told, ChainFields(base, path), DefaultMemberPSet(fd))
  IN  FoldLeft(Member, s, PointerPaths(t))

(* A pointer member is given what init points to.  In the initialiser of a *)
(* member *this stands for the object, whose member must be meant then.    *)
InitPointerMember(f, s, object, t, fd, init) ==
  LET ps == PSetOf(f, s, init)
      IsSelf(v) == IsThisPointer(v) /\ PointeeType(DeclInfo[v.base].type) = t
      Rebase(v) == IF IsSelf(v) /\ IsField(v) THEN AddField(object, GetField(v)) ELSE v
  IN  SetVarPSet(Ensure(s, \A v \in VarsOf(ps) : IsSelf(v) => IsField(v)),
                 AddField(object, fd), TransformVars(ps, Rebase))

(* A member that is an aggregate is initialised from another expression:   *)
(* the paths are not chained (the result of chainFields is dropped), so    *)
(* the psets of all its members are given to the member itself in turn.    *)
InitAggregateMember(f, s, v, init) ==
  LET mine == {w \in DOMAIN s.members : w.base = f.nodes[init].object}
  IN  IF mine = {} THEN s ELSE SetVarPSet(s, v, s.members[CHOOSE w \in mine : TRUE])

(* T{a, {b, c}, ...}: what there is to do, in order, for a list and those  *)
(* nested in it; of is the field a step is about and path what it is in.   *)
InitSteps(f, list) ==
  LET Step(path, k, t, init) == <<[path |-> path, k |-> k, type |-> t, init |-> init]>>
      steps[e \in DOMAIN f.nodes] ==
        LET n == f.nodes[e]
            Nested(fd, init) ==
              [j \in DOMAIN steps[init] |-> [steps[init][j] EXCEPT !.path = <<fd>> \o @]]
            Field(i) ==
              LET fd == TypeInfo[n.type].fields[i]
                  t == FieldInfo[fd].type
                  init == IF i \in DOMAIN n.inits THEN n.inits[i] ELSE NoExpr
                  isGiven == init # NoExpr /\ f.nodes[init].k # "ImplicitValueInitExpr"
              IN  CASE IsAggregate(t) /\ init = NoExpr -> Step(<<fd>>, "default", t, NoExpr)
                    [] IsAggregate(t) /\ f.nodes[init].k = "InitListExpr" -> Nested(fd, init)
                    [] IsAggregate(t)         -> Step(<<fd>>, "copy", t, init)
                    [] IsPointerCategory(t)   -> Step(<<fd>>, IF isGiven THEN "pointer" ELSE "value", n.type, init)
                    [] OTHER                  -> <<>>
        IN  IF n.inits = <<>> THEN Step(<<>>, "default", n.type, NoExpr)
            ELSE FlattenSeq([i \in DOMAIN TypeInfo[n.type].fields |-> Field(i)])
  IN  steps[list]

HandleAggregateInit(f, s, object, list) ==
  LET Do(st, step) ==
        LET v == ChainFields(object, step.path)
            t == TypeInfo[GetType(v)]
        IN  CASE step.k = "default" -> HandleAggregateDefaultInit(st, v, step.type)
              [] step.k = "copy"    -> InitAggregateMember(f, st, v, step.init)
              [] step.k = "pointer" ->
                   InitPointerMember(f, st, GetParent(v), step.type, GetField(v), step.init)
              [] step.k = "value"   ->
                   SetVarPSet(st, v, IF t.nullable \/ ~t.isRecord THEN {Null} ELSE {Global})
  IN  FoldLeft(Do, s, InitSteps(f, list))

-----------------------------------------------------------------------------
(* Copies *)

(* The members of the object of e become those of the aggregate other      *)
(* refers to, or, when it refers to nothing, those of its own object.      *)
HandleAggregateCopy(f, s, e, other) ==
  LET refersTo == PSetOf(f, s, other)
      from == IF VarsOf(refersTo) = {} THEN NodeObject(f, IgnoreTransparentExprs(f, other))
              ELSE FirstVar(VarsOf(refersTo))
      object == NodeObject(f, e)
      Member(st, path) ==
        LET source == ChainFields(from, path)
            read == IF IsExprVar(source) THEN Ensure(st, HasVarPSet(st, source))
                    ELSE [st EXCEPT !.pmap = Remember(@, {source})]
        IN  IF Global \in refersTo THEN SetVarPSet(st, ChainFields(object, path), {Global})
            ELSE SetVarPSet(read, ChainFields(object, path), Adopt(VarPSet(st, source), object))
  IN  FoldLeft(Member, Ensure(s, Cardinality(VarsOf(refersTo)) <= 1), PointerPaths(f.nodes[e].type))

-----------------------------------------------------------------------------
(* Expressions that make an aggregate *)

VisitMaterializeTemporaryExpr(f, s, e) ==
  LET n == f.nodes[e]
      temp == NodeObject(f, e)
      named == SetExpr(s, e, {temp})
  IN  IF IsAggregate(n.type) THEN HandleAggregateCopy(f, named, e, n.sub)
      ELSE IF ~HasPSet(f, n.sub) THEN named
      ELSE SetPSet(named, {temp},
                   IF IsOwnerCategory(f.nodes[n.sub].type) THEN Singleton(temp, 1)
                   ELSE PSetOf(f, s, n.sub),
                   n.loc)

VisitInitListExpr(f, s, e) ==
  LET n == f.nodes[e]
      t == TypeInfo[n.type]
      ps == IF Len(n.inits) = 1 THEN PSetOf(f, s, n.inits[1])
            ELSE IF t.nullable \/ ~t.isRecord THEN {Null}
            ELSE {Global}
  IN  CASE t.category = "Pointer"   -> SetExpr(s, e, ps)
        [] t.category = "Aggregate" ->
             SetExpr(HandleAggregateInit(f, s, NodeObject(f, e), e), e, {NodeObject(f, e)})
        [] OTHER                    -> SetExpr(s, e, {})
=============================================================================
