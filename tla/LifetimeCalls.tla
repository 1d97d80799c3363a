---------------------------- MODULE LifetimeCalls ----------------------------
(***************************************************************************)
(* Calls: class CallVisitor checks the arguments of a call against the     *)
(* preconditions of the callee and gives its outputs the psets its         *)
(* postconditions promise.                                                 *)
(*                                                                         *)
(* A call n names its callee (NoDecl when it is called through a pointer), *)
(* its args and, for a member call, its implicitObject.  Callee[g] is the  *)
(* declaration of g with its contract, a record with pre and post.         *)
(***************************************************************************)
EXTENDS LifetimeAggregates

CONSTANT Callee  \* function |-> its declaration and contract

-----------------------------------------------------------------------------
(* Pairing arguments with parameters *)

IsOperatorOnObject(n) == n.k = "CXXOperatorCallExpr" /\ Callee[n.callee].this # NoDecl

(* The object a member function is called on. *)
ObjectArg(n) ==
  IF IsOperatorOnObject(n) THEN n.args[1]
  ELSE IF n.k = "CXXMemberCallExpr" THEN n.implicitObject
  ELSE NoExpr

(* The pairs of a call: a parameter and the argument it is given, NoDecl   *)
(* for an argument of a vararg; a pointer in an aggregate that is passed   *)
(* by value, and that member of the argument; last, the object.            *)
ArgParamPairs(f, n) ==
  LET fd == Callee[n.callee]
      args == IF IsOperatorOnObject(n) THEN Tail(n.args) ELSE n.args
      Pair(k, v, arg, path) == [k |-> k, v |-> v, arg |-> arg, path |-> path]
      Members(p, arg) ==
        LET paths == Subobjects(DeclInfo[p].type)
        IN  [i \in DOMAIN paths |-> Pair("member", ChainFields(Var(p), paths[i]), arg, paths[i])]
      OfArg(i) ==
        IF i > Len(fd.params) THEN <<Pair("vararg", Var(NoDecl), args[i], <<>>)>>
        ELSE IF IsAggregate(DeclInfo[fd.params[i]].type) THEN Members(fd.params[i], args[i])
        ELSE <<Pair("param", Var(fd.params[i]), args[i], <<>>)>>
      object == ObjectArg(n)
  IN  FlattenSeq([i \in DOMAIN args |-> OfArg(i)])
        \o IF object = NoExpr THEN <<>> ELSE <<Pair("this", Var(fd.this), object, <<>>)>>

(* What the argument of a pair points to.  An argument that is unknown is  *)
(* passed over, and so is a member nothing is known of.                    *)
MemberOfArg(f, pair) == ChainFields(NodeObject(f, pair.arg), pair.path)
ActualPSet(f, s, pair) ==
  CASE pair.k = "member" -> VarPSet(s, MemberOfArg(f, pair))
    [] pair.k = "this"   -> PSetOf(f, s, pair.arg)
    [] OTHER             -> PSetOfIfAny(f, s, pair.arg)
IsPassedOver(f, s, pair) ==
  CASE pair.k = "member" -> ~HasVarPSet(s, MemberOfArg(f, pair))
    [] pair.k = "this"   -> FALSE
    [] OTHER             -> IsUnknown(PSetOfIfAny(f, s, pair.arg))

-----------------------------------------------------------------------------
(* Binding: contracts speak of the parameters, callers of the arguments.   *)

(* Binds *v to what the argument points to and, if the preconditions       *)
(* mention *v, **v to what that points to.                                 *)
BindTwoDerefLevels(s, ps, v, actual, lookup, checking) ==
  LET bound == Bind(ps, DerefVar(v), actual, checking)
  IN  IF DerefVar(v) \notin DOMAIN lookup THEN bound
      ELSE Bind(bound, DerefN(v, 2), DerefPSet(s.pmap, actual), checking)

(* A slip: the object a method is called on is not bound. *)
BindArgumentsOnly(f, s, n, fill, lookup, checking) ==
  LET BindPair(psets, pair) ==
        IF pair.k \in {"vararg", "this"} \/ IsPassedOver(f, s, pair) THEN psets
        ELSE [v \in DOMAIN psets |->
                BindTwoDerefLevels(s, psets[v], pair.v, ActualPSet(f, s, pair), lookup, checking)]
  IN  FoldLeft(BindPair, fill, ArgParamPairs(f, n))

(* One pair after the other.  Postconditions do not make null: it comes    *)
(* from the arguments.                                                     *)
BindArguments(f, s, n, fill, lookup, checking) ==
  LET Stripped(ps) == IF checking \/ ps = {Global, Null} THEN ps ELSE ps \ {Null}
      BindPair(psets, pair) ==
        LET actual == ActualPSet(f, s, pair)
            Once(ps) == BindTwoDerefLevels(s, ps, pair.v, actual, lookup, checking)
        IN  IF pair.k = "vararg" \/ IsPassedOver(f, s, pair) THEN psets
            ELSE [v \in DOMAIN psets |->
                    IF IsReturnVal(v) /\ pair.k # "this" THEN Once(Once(psets[v])) ELSE Once(psets[v])]
  IN  FoldLeft(BindPair, [v \in DOMAIN fill |-> Stripped(fill[v])], ArgParamPairs(f, n))

-----------------------------------------------------------------------------
(* Preconditions *)

Moved(t, ps) == LifetimeMove /\ ~IsPointerCategory(t) /\ Invalid \in ps

(* Has what an argument leads to, at a level the preconditions mention as  *)
(* valid, been moved from?                                                 *)
UsesMoved(s, pre, p, ps) ==
  LET level[k \in 0..MaxOrderDepth] ==
        IF k = 0 THEN [type |-> DeclInfo[p].type, ps |-> ps]
        ELSE [type |-> PointeeType(level[k - 1].type), ps |-> DerefPSet(s.pmap, level[k - 1].ps)]
      Goes(k) ==
        LET v == DerefN(Var(p), k)
            t == level[k].type
        IN  /\ v \in DOMAIN pre
            /\ Invalid \notin pre[v]
            /\ t # NoType
            /\ TypeInfo[t].isPointer \/ TypeInfo[t].isReference
  IN  \E k \in 0..(MaxOrderDepth - 1) :
        (\A j \in 0..k : Goes(j)) /\ Moved(level[k + 1].type, level[k + 1].ps)

CheckIfMentioned(s, pre, v, ps, loc) ==
  IF v \in DOMAIN pre THEN CheckContract(s, ps, pre[v], loc) ELSE s

(* v and *v against their preconditions *)
CheckTwoDerefLevels(s, pre, v, ps, loc) ==
  LET read == [s EXCEPT !.pmap = Remember(@, Looked(ps))]
      checked == CheckIfMentioned(s, pre, v, ps, loc)
  IN  IF DerefVar(v) \notin DOMAIN pre THEN checked
      ELSE CheckIfMentioned([checked EXCEPT !.pmap = read.pmap], pre, DerefVar(v),
                            DerefPSet(s.pmap, ps), loc)

(* After a violation the argument is unknown, so that it is told once.     *)
CheckArgument(f, s, pre, pair) ==
  LET ps == ActualPSet(f, s, pair)
      loc == f.nodes[pair.arg].loc
      Silence(st) == SetExpr(st, pair.arg, {})
      moved == IF UsesMoved(s, pre, pair.v.base, ps)
               THEN Silence(Diagnose(s, "UseAfterMove", loc, FALSE)) ELSE s
  IN  CASE IsPassedOver(f, s, pair) -> s
        [] pair.k = "vararg" ->
             IF Invalid \in ps THEN Silence(Diagnose(s, "Dangling", loc, ~IsInvalid(ps))) ELSE s
        [] pair.k = "member" -> CheckTwoDerefLevels(s, pre, pair.v, ps, loc)
        [] pair.k = "param"  -> CheckTwoDerefLevels(moved, pre, pair.v, ps, loc)

(* The object must not have been moved from, and *this is valid.           *)
CheckObject(f, s, pre, pair) ==
  LET ps == PSetOf(f, s, pair.arg)
      this == pair.v
      loc == f.nodes[pair.arg].loc
      Silence(st) == SetExpr(st, pair.arg, {})
      moved == IF Moved(PointeeType(DeclInfo[this.base].type), DerefPSet(s.pmap, ps))
               THEN Silence(Diagnose(s, "UseAfterMove", loc, FALSE)) ELSE s
      read == [moved EXCEPT !.pmap = Remember(@, Looked(ps))]
      checked == IF this \notin DOMAIN pre THEN s
                 ELSE IF CheckSubstitutableFor(ps, pre[this]) = "ok" THEN read
                 ELSE Silence(CheckContract(read, ps, pre[this], loc))
  IN  CheckIfMentioned(checked, pre, DerefVar(this), DerefPSet(s.pmap, ps), loc)

CheckPreconditions(f, s, n, pre) ==
  LET Check(st, pair) == IF pair.k = "this" THEN CheckObject(f, st, pre, pair)
                         ELSE CheckArgument(f, st, pre, pair)
  IN  FoldLeft(Check, s, ArgParamPairs(f, n))

-----------------------------------------------------------------------------
(* Postconditions *)

(* What the callee leaves behind, in terms of the arguments.  A member of  *)
(* what is returned is taken to be null no more than the whole is.         *)
ActualPostConditions(f, s, n, fd) ==
  LET bound == BindArguments(f, s, n, fd.post, fd.pre, FALSE)
      OutputType(v) == IF IsReturnVal(v) THEN fd.returnType ELSE GetType(v)
      WithoutNull(v) ==
        IF ~TypeInfo[OutputType(v)].nullable THEN bound[v] \ {Null} ELSE bound[v]
      Known(ps) == IF IsUnknown(ps) THEN {Global} ELSE ps
  IN  [v \in DOMAIN bound |->
         IF LifetimeCallNull THEN Known(WithoutNull(v)) ELSE Known(WithoutNull(v)) \ {Null}]

(* A slip: whatever the callee may change counts as moved from. *)
MoveAll(f, s, arg, t) ==
  [s EXCEPT !.pmap = FoldSet(LAMBDA v, pmap : InvalidateVar(pmap, v), @, VarsOf(PSetOf(f, s, arg)))]

(* A slip: what is moved from is only emptied. *)
EmptyOnly(f, s, arg, t) ==
  IF ~IsOwnerCategory(t) THEN s
  ELSE [s EXCEPT !.pmap = FoldSet(LAMBDA v, pmap : InvalidateOwner(pmap, v), @, VarsOf(PSetOf(f, s, arg)))]

(* An argument that the callee may change: an Owner loses what it held and *)
(* what is moved from is gone.                                             *)
InvalidateVarOnNonConstUse(f, s, arg, t) ==
  LET isMovedFrom == LifetimeMove /\ f.nodes[arg].xvalue
      Use(st, v) ==
        LET emptied == IF IsOwnerCategory(t) THEN InvalidateOwner(st.pmap, v) ELSE st.pmap
        IN  [st EXCEPT !.pmap = IF isMovedFrom THEN InvalidateVar(emptied, v) ELSE emptied]
  IN  FoldSet(LAMBDA v, st : Use(st, v), s, VarsOf(PSetOf(f, s, arg)))

(* A slip: what the callee may change keeps what it held. *)
LeaveOwnersAlone(f, s, n) == s

InvalidateNonConstUse(f, s, n) ==
  LET fd == Callee[n.callee]
      Target(pair) == PointeeType(DeclInfo[pair.v.base].type)
      IsConst(pair) == IF pair.k = "this" THEN IsLifetimeConstMethod(fd)
                       ELSE IsLifetimeConst(fd, pair.v.base, Target(pair))
      MayChange(pair) ==
        /\ pair.k \in {"param", "this"}
        /\ Target(pair) # NoType
        /\ ~IsPointerCategory(Target(pair))
        /\ ~IsConst(pair)
      Use(st, pair) == IF MayChange(pair) THEN InvalidateVarOnNonConstUse(f, st, pair.arg, Target(pair))
                       ELSE st
  IN  FoldLeft(Use, s, ArgParamPairs(f, n))

(* The value of the call; that of an aggregate is the psets of its members *)
BindReturnValue(f, s, e, fd, post) ==
  LET Member(st, v) == SetVarPSet(st, ReplaceExpr(v, NodeObject(f, e)), post[v])
  IN  CASE IsPointerCategory(fd.returnType) -> SetExpr(s, e, post[Var("return")])
        [] IsAggregate(fd.returnType)       -> FoldLeft(Member, s, SetToSeq(DOMAIN post))
        [] OTHER                            -> s

(* A slip: what the callee stores is not taken in. *)
LeaveOutput(f, s, post, pair) == s

(* What the outputs point to; what a vararg can reach becomes global.      *)
BindOutput(f, s, post, pair) ==
  LET out == DerefVar(pair.v)
      loc == f.nodes[pair.arg].loc
      escapes == HasPSet(f, pair.arg) /\ VarsOf(PSetOf(f, s, pair.arg)) # {}
  IN  CASE pair.k = "vararg" ->
             IF escapes THEN SetPSet(s, PSetOf(f, s, pair.arg), {Global}, loc) ELSE s
        [] pair.k \in {"param", "this"} ->
             IF out \in DOMAIN post THEN SetPSet(s, PSetOf(f, s, pair.arg), post[out], loc) ELSE s
        [] OTHER -> s

(* When an aggregate is returned the first postcondition that is not about *)
(* it ends everything; those come first in the map.                        *)
EnforcePostconditions(f, s, e, fd, post) ==
  LET n == f.nodes[e]
      Output(st, pair) == BindOutput(f, st, post, pair)
      used == InvalidateNonConstUse(f, s, n)
      gaveUp == IsAggregate(fd.returnType) /\ \E v \in DOMAIN post : ~IsReturnVal(v)
  IN  IF gaveUp THEN used
      ELSE FoldLeft(Output, BindReturnValue(f, used, e, fd, post), ArgParamPairs(f, n))

EnforcePreAndPostConditions(f, s, e) ==
  LET n == f.nodes[e]
      fd == Callee[n.callee]
      checked == CheckPreconditions(f, s, n, BindArguments(f, s, n, fd.pre, fd.pre, TRUE))
  IN  EnforcePostconditions(f, checked, e, fd, ActualPostConditions(f, checked, n, fd))

-----------------------------------------------------------------------------
(* Calls *)

IsAssignment(n) == n.k = "CXXOperatorCallExpr" /\ n.op = "Assign" /\ Len(n.args) = 2

(* Assigning to a Pointer class copies what the other points to.           *)
IsPointerCopy(f, n) == IsAssignment(n) /\ IsPointerExpr(f, n.args[1])
HandlePointerCopy(f, s, e) ==
  LET n == f.nodes[e]
      lhs == PSetOf(f, s, n.args[1])
      follows == IsPointerExpr(f, n.args[2]) \/ f.nodes[n.args[2]].k = "NullPtrLiteral"
      rhs == IF follows THEN MergedPSet(s.pmap, PSetOf(f, s, n.args[2])) ELSE {Global}
      read == [s EXCEPT !.pmap = Remember(@, VarsOf(PSetOf(f, s, n.args[2])))]
      checked == IF follows THEN HandlePointerAssign(read, f.nodes[n.args[1]].type, rhs, n.loc) ELSE s
  IN  SetExpr(SetPSet(checked, lhs, rhs, n.loc), e, rhs)

(* A slip: only the first member is copied. *)
AssignFirst(f, s, e) ==
  LET n == f.nodes[e]
      path == Head(Subobjects(n.type))
      from == ChainFields(NodeObject(f, e), path)
      copied == HandleAggregateCopy(f, s, e, n.args[2])
      Assign(st, lhs) == SetVarPSet(st, ChainFields(lhs, path), Adopt(VarPSet(st, from), lhs))
  IN  FoldLeft(Assign, copied, SetToSeq(VarsOf(PSetOf(f, s, n.args[1]))))

(* Assigning to an aggregate copies its members, by way of the call's own. *)
IsAggregateCopy(f, n) == IsAssignment(n) /\ IsAggregate(f.nodes[n.args[1]].type)
HandleAggregateAssign(f, s, e) ==
  LET n == f.nodes[e]
      copied == HandleAggregateCopy(f, s, e, n.args[2])
      Member(lhs, st, path) ==
        LET to == ChainFields(lhs, path)
            from == ChainFields(NodeObject(f, e), path)
        IN  IF ~IsPointerCategory(FieldInfo[Last(path)].type) THEN ClearVarPSet(st, to)
            ELSE IF ~HasVarPSet(st, from) THEN st
            ELSE SetVarPSet(st, to, Adopt(VarPSet(st, from), lhs))
      Assign(st, lhs) ==
        FoldLeft(LAMBDA acc, path : Member(lhs, acc, path), SetVarPSet(st, lhs, Singleton(lhs, 0)),
                 Subobjects(n.type))
  IN  FoldLeft(Assign, copied, SetToSeq(VarsOf(PSetOf(f, s, n.args[1]))))

(* The object of an assignment, or of a method that gives it a new value.  *)
GetObjectNeedReset(n) ==
  IF n.k = "CXXOperatorCallExpr" /\ n.op = "Assign" THEN n.args[1]
  ELSE IF n.k = "CXXMemberCallExpr" /\ Callee[n.callee].reinitializes THEN n.implicitObject
  ELSE NoExpr

(* A Pointer may point to anything then, an Owner owns something again.    *)
TryResetPSet(f, s, n) ==
  LET obj == GetObjectNeedReset(n)
      t == f.nodes[obj].type
      class == IF TypeInfo[t].isPointer /\ IsRecord(PointeeType(t)) THEN PointeeType(t) ELSE t
      lhs == PSetOf(f, s, obj)
      own == IF IsOwnerCategory(t) \/ IsOwnerCategory(class)
             THEN IF VarsOf(lhs) = {} THEN lhs ELSE Singleton(FirstVar(VarsOf(lhs)), 1) ELSE lhs
  IN  IF obj = NoExpr THEN s
      ELSE IF IsPointerCategory(class) THEN SetPSet(s, lhs, GlobalVar(TypeInfo[class].nullable), n.loc)
      ELSE SetPSet(s, lhs, own, n.loc)

(* The value is unknown unless the callee is known.                        *)
VisitCallExpr(f, s, e) ==
  LET n == f.nodes[e]
      unknown == SetExpr(s, e, {})
  IN  CASE n.callee = NoDecl   -> unknown
        [] n.callee # NoDecl /\ Callee[n.callee].isAddressOf -> SetExpr(s, e, PSetOf(f, s, n.args[1]))
        [] n.callee # NoDecl /\ IsPointerCopy(f, n)   -> HandlePointerCopy(f, unknown, e)
        [] n.callee # NoDecl /\ IsAggregateCopy(f, n) ->
             EnforcePreAndPostConditions(f, HandleAggregateAssign(f, unknown, e), e)
        [] OTHER -> EnforcePreAndPostConditions(f, TryResetPSet(f, unknown, n), e)

-----------------------------------------------------------------------------
(* Constructors *)

(* A constructor of a Pointer class: from nothing, from a copy or an       *)
(* Owner, from another Pointer, or from something it is not tied to.       *)
VisitPointerConstructExpr(f, s, e) ==
  LET n == f.nodes[e]
      arg == n.args[1]
      copies == n.isCopyOrMove \/ n.takesConstRef \/ IsOwnerCategory(f.nodes[arg].type)
      follows == IsPointerExpr(f, arg) \/ f.nodes[arg].k = "NullPtrLiteral"
  IN  IF n.args = <<>>
      THEN SetExpr(s, e, IF TypeInfo[n.type].nullable THEN {Null} ELSE {Global})
      ELSE IF copies THEN SetExprDeref(s, e, PSetOf(f, s, arg))
      ELSE IF follows THEN SetExpr(s, e, PSetOf(f, s, arg))
      ELSE SetExpr(s, e, {Global})

(* An aggregate is default-initialised or copied, which calls for checking *)
(* the argument like any other; a constructor that is its own does nothing.*)
VisitAggregateConstructExpr(f, s, e) ==
  LET n == f.nodes[e]
      built == IF n.isDefault THEN HandleAggregateDefaultInit(s, NodeObject(f, e), n.type)
               ELSE IF n.isCopyOrMove
               THEN EnforcePreAndPostConditions(f, HandleAggregateCopy(f, s, e, n.args[1]), e)
               ELSE s
  IN  SetExpr(built, e, {NodeObject(f, e)})

(* T(a) written out names a temporary: its arguments are not checked.      *)
VisitCXXConstructExpr(f, s, e) ==
  LET n == f.nodes[e]
      unknown == SetExpr(s, e, {})
  IN  CASE IsAggregate(n.type)       -> VisitAggregateConstructExpr(f, s, e)
        [] IsPointerCategory(n.type) -> VisitPointerConstructExpr(f, s, e)
        [] n.k = "CXXTemporaryObjectExpr" -> unknown
        [] OTHER                     -> EnforcePreAndPostConditions(f, unknown, e)
=============================================================================
