------------------------- MODULE LifetimeContracts -------------------------
(***************************************************************************)
(* The contract of a function: the psets its parameters may have when it   *)
(* is called and those its outputs may have when it returns.  They come    *)
(* from the types of the declaration (class PSetCollector) and from its    *)
(* annotations (contract/Parser.cpp).                                      *)
(*                                                                         *)
(* A declaration fd is a record:                                           *)
(*   params      sequence of parameters,                                   *)
(*   returnType, isMain, isConst,                                          *)
(*   name        of a function or operator it matters for; std, whether it *)
(*               is in namespace std, and stdClass, of what kind of class, *)
(*   this        the this pointer of an instance method, else NoDecl,      *)
(*   isDestructor, isDereference, toBool  what kind of method it is,       *)
(*   forwarding  the parameters that are forwarding references,            *)
(*   const, in, inout  the parameters with such an annotation,             *)
(*   preOf, posts, paramPre, capture      lists of annotations.            *)
(***************************************************************************)
EXTENDS LifetimePset, TLC

CONSTANT Convertible(_, _)  \* IsConvertible: does a T* convert to a U*?

IsRecord(t)       == t # NoType /\ TypeInfo[t].isRecord
IsAggregate(t)    == Category(t) = "Aggregate"
IsIndirection(t)  == Category(t) \in {"Pointer", "Owner"}
MayBeNull(t)      == IF TypeInfo[t].nullable THEN {Null} ELSE {}
IsLValueReference(t) == TypeInfo[t].isReference /\ ~TypeInfo[t].isRValueReference

-----------------------------------------------------------------------------
(* The members of a class, outermost first *)

(* The paths to the members of type t, and to theirs where Into says so.   *)
MemberPaths(t, Into(_)) ==
  LET paths[u \in DOMAIN TypeInfo] ==
        LET Below(fd) == IF ~Into(FieldInfo[fd].type) THEN <<>>
                         ELSE LET sub == paths[FieldInfo[fd].type]
                              IN  [i \in DOMAIN sub |-> <<fd>> \o sub[i]]
            fields == TypeInfo[u].fields
        IN  FlattenSeq([i \in DOMAIN fields |-> <<<<fields[i]>>>> \o Below(fields[i])])
  IN  paths[t]

(* expandAggregate: the pointers among the subobjects of an aggregate. *)
PointersInAggregate(v, t) ==
  LET subobjects == MemberPaths(t, IsAggregate)
      locations == [i \in DOMAIN subobjects |-> ChainFields(v, subobjects[i])]
  IN  SelectSeq(locations, LAMBDA w : IsPointerCategory(FieldInfo[GetField(w)].type))

-----------------------------------------------------------------------------
(* Preconditions.  While they are collected a contract c has, besides pre  *)
(* and post, the locations outputs may be taken from and the outputs.      *)

NoContract == [pre |-> <<>>, post |-> <<>>, input |-> <<>>, inputWeak |-> <<>>, output |-> <<>>]

(* The first precondition given to a location is the one it keeps. *)
Require(c, v, ps) == [c EXCEPT !.pre = @ @@ (v :> ps)]
AddInput(c, v)     == [c EXCEPT !.input = Append(@, v)]
AddInputWeak(c, v) == [c EXCEPT !.inputWeak = Append(@, v)]
AddOutput(c, v)    == [c EXCEPT !.output = Append(@, v)]

DerefAll(ps) == TransformVars(ps, DerefVar)

(* A class is expanded into its members, unless they are pointers. *)
ExpandParameter(c, v, t, rootPSet) ==
  LET Into(u) == IsAggregate(u) \/ (IsPointerCategory(u) /\ TypeInfo[u].isRecord)
      Member(acc, path) ==
        LET m == ChainFields(v, path)
            u == FieldInfo[Last(path)].type
            owned == [w \in VarsOf(rootPSet) |-> {DerefVar(w)}]
            Input(st) == IF TypeInfo[t].isRValueReference THEN st ELSE AddInput(st, m)
        IN  CASE Into(u) \/ Category(u) = "Value" -> Input(Require(acc, m, rootPSet))
              [] IsPointerCategory(u) /\ ~Into(u) ->
                   IF IsPointerCategory(t) THEN Require(acc, m, DerefAll(rootPSet)) ELSE acc
              [] IsOwnerCategory(u) ->
                   LET kept == Require([acc EXCEPT !.pre = @ @@ owned], m, rootPSet)
                   IN  IF IsLValueReference(t) /\ TypeInfo[t].isConst
                       THEN AddInputWeak(kept, m) ELSE Input(kept)
  IN  FoldLeft(Member, c, MemberPaths(t, Into))

(* Does the callee leave what parameter p points to, or its object, alone? *)
(* Some functions and classes of the standard library are known.           *)
LeavesAllAlone(fd) == fd.std /\ fd.name \in {"begin", "end", "get", "forward", "move"}
IsLifetimeConst(fd, p, pointee) ==
  LeavesAllAlone(fd) \/ TypeInfo[pointee].isConst \/ p \in fd.const
IsLifetimeConstMethod(fd) ==
  \/ LeavesAllAlone(fd)
  \/ fd.this \in fd.const
  \/ fd.isConst
  \/ fd.name \in {"operator[]", "operator*", "operator->"}
  \/ fd.stdClass = "associative" /\ fd.name \in
       {"insert", "emplace", "emplace_hint", "find", "lower_bound", "upper_bound"}
  \/ fd.stdClass = "list" /\ fd.name \notin {"clear", "assign", "operator="}
  \/ fd.name \in {"at", "data", "begin", "end", "rbegin", "rend", "front", "back"}


(* What a parameter that points to a Pointer points to: an output, unset   *)
(* at first, or an input and output, or an input only.                     *)
PointerToPointer(c, fd, p, t, pointee, held) ==
  LET v == DerefVar(Var(p))
      isOutput == /\ ~IsLifetimeConst(fd, p, pointee)
                  /\ p \notin fd.in
                  /\ p \notin fd.forwarding
      isInput == TypeInfo[pointee].isRecord \/ p \in fd.inout
      isRValue == TypeInfo[t].isRValueReference
      before == IF isOutput
                THEN IF isInput THEN AddOutput(Require(AddInput(c, v), v, held), v)
                     ELSE AddOutput(Require(c, v, {Invalid}), v)
                ELSE IF isRValue THEN Require(c, v, held) ELSE AddInput(Require(c, v, held), v)
  IN  IF isRValue THEN before ELSE AddInput(before, Var(p))

(* What a reference to an Owner that cannot be changed refers to is only   *)
(* a weak input.                                                           *)
PointerToOwner(c, p, t, pointee, held) ==
  LET v == Var(p)
      both == Require(c, DerefVar(v), held)
      isWeak == \/ TypeInfo[t].isRValueReference
                \/ (IsLValueReference(t) /\ TypeInfo[pointee].isConst)
  IN  IF isWeak THEN AddInputWeak(AddInputWeak(both, v), DerefVar(v))
      ELSE AddInput(AddInput(both, v), DerefVar(v))

ParameterContract(c, fd, p) ==
  LET v == Var(p)
      t == DeclInfo[p].type
      pointee == PointeeType(t)
      held == {DerefN(v, 2)} \cup MayBeNull(pointee)
      valid == Require(c, v, {DerefVar(v)} \cup MayBeNull(t))
      isRValue == TypeInfo[t].isRValueReference
      Subobject(acc, w) ==
        AddInput(Require(acc, w, {DerefVar(w)} \cup MayBeNull(FieldInfo[GetField(w)].type)), w)
      expanded == IF TypeInfo[pointee].isRecord
                  THEN ExpandParameter(valid, DerefVar(v), pointee, valid.pre[v]) ELSE valid
  IN  CASE IsAggregate(t) -> FoldLeft(Subobject, c, PointersInAggregate(v, t))
        [] Category(t) = "Value" -> c
        [] IsOwnerCategory(t) -> valid
        [] IsPointerCategory(t) ->
             IF IsOwnerCategory(pointee) THEN PointerToOwner(valid, p, t, pointee, held)
             ELSE IF IsPointerCategory(pointee) THEN PointerToPointer(valid, fd, p, t, pointee, held)
             ELSE IF isRValue THEN expanded ELSE AddInput(expanded, v)

(* The this pointer is an input, and *this one when it is an indirection.  *)
ThisContract(c, fd) ==
  LET this == Var(fd.this)
      class == PointeeType(DeclInfo[fd.this].type)
      nullable == (IF fd.isDereference THEN {} ELSE MayBeNull(class))
                    \cup (IF fd.toBool THEN {Null} ELSE {})
      valid == AddInput(Require(c, this, {DerefVar(this)}), this)
      held == IF ~IsIndirection(class) THEN valid
              ELSE AddInput(Require(valid, DerefVar(this), {DerefN(this, 2)} \cup nullable),
                            DerefVar(this))
  IN  IF fd.this = NoDecl \/ fd.isDestructor THEN c
      ELSE IF IsOwnerCategory(class) THEN held
      ELSE ExpandParameter(held, DerefVar(this), class, {DerefVar(this)})

-----------------------------------------------------------------------------
(* Annotations.  One names a location and what it depends on; a dependency *)
(* is a special member, the return value or a location whose precondition  *)
(* is meant, and resolves to a pset or to nothing.                         *)

Nowhere    == Var(NoDecl)
Unresolved == [resolved |-> FALSE, ps |-> {}]
Resolve(pre, d) ==
  IF d \in Special \/ IsReturnVal(d)
  THEN [resolved |-> TRUE, ps |-> {d}]
  ELSE IF d \in DOMAIN pre THEN [resolved |-> TRUE, ps |-> pre[d]] ELSE Unresolved

(* An annotation that cannot be resolved, or names no location, ends the   *)
(* adjustment: those that follow are ignored too.                          *)
AdjustContracts(fill, lookup, annotations) ==
  LET Bad(a) == a.var = Nowhere \/ \E d \in Range(a.deps) : ~Resolve(lookup, d).resolved
      bad == {i \in DOMAIN annotations : Bad(annotations[i])}
      good == IF bad = {} THEN annotations
              ELSE SubSeq(annotations, 1, (CHOOSE i \in bad : \A j \in bad : i <= j) - 1)
      Adjust(acc, a) ==
        (a.var :> UNION {Resolve(lookup, d).ps : d \in Range(a.deps)}) @@ acc
  IN  FoldLeft(Adjust, fill, good)

(* The preconditions are both filled in and looked up. *)
AdjustPreconditions(pre, annotations) ==
  LET Adjust(acc, a) ==
        IF acc.stop \/ a.var = Nowhere \/ \E d \in Range(a.deps) : ~Resolve(acc.pre, d).resolved
        THEN [acc EXCEPT !.stop = TRUE]
        ELSE [acc EXCEPT !.pre = (a.var :> UNION {Resolve(acc.pre, d).ps : d \in Range(a.deps)}) @@ @]
  IN  FoldLeft(Adjust, [pre |-> pre, stop |-> FALSE], annotations).pre

(* gsl::lifetime_capture: what a method of a Pointer may make *this point  *)
(* to, besides what it points to already.                                  *)
AdjustCaptureContracts(post, fd, pre) ==
  LET this == DerefVar(Var(fd.this))
      deps == Range(fd.capture)
      isPointer == fd.this # NoDecl /\ IsPointerCategory(PointeeType(DeclInfo[fd.this].type))
  IN  IF \/ fd.capture = <<>>
         \/ ~isPointer
         \/ \E d \in deps : ~Resolve(pre, d).resolved
      THEN post
      ELSE (this :> ({DerefVar(this)} \cup UNION {Resolve(pre, d).ps \ {Null} : d \in deps})) @@ post

FillPreConditions(fd) ==
  LET Parameter(acc, p) == ParameterContract(acc, fd, p)
      OfParameter(pre, p) ==
        AdjustPreconditions(pre, SelectSeq(fd.paramPre, LAMBDA a : a.var = Var(p)))
      collected == ThisContract(FoldLeft(Parameter, NoContract, fd.params), fd)
  IN  [collected EXCEPT !.pre =
         FoldLeft(OfParameter, AdjustPreconditions(@, fd.preOf), fd.params)]

-----------------------------------------------------------------------------
(* Postconditions *)

(* May a pointer of type to be made from one of type from, or, but for     *)
(* *this, from a member of what it points to?                              *)
CanAssign(from, to, dontExpand) ==
  LET f == PointeeType(from)
      t == PointeeType(to)
      MemberType(fd) == IF TypeInfo[f].isConst THEN TypeInfo[FieldInfo[fd].type].asConst
                        ELSE FieldInfo[fd].type
  IN  /\ f # NoType
      /\ t # NoType
      /\ \/ Convertible(f, t)
         \/ /\ ~dontExpand
            /\ TypeInfo[f].isRecord
            /\ \E fd \in Range(TypeInfo[f].fields) : Convertible(MemberType(fd), t)

LocationType(fd, v) == IF v = Var("return") THEN fd.returnType ELSE GetType(v)

(* A member reached through a pointer or a reference can be pointed to. *)
MemberLocationType(fd, v) ==
  LET t == GetType(v)
      base == DeclInfo[v.base].type
      through == PointeeType(base)
      isConst == TypeInfo[through].isConst \/ (IsThisPointer(v) /\ fd.isConst)
  IN  IF \/ IsPointerCategory(t)
         \/ ~(TypeInfo[base].isPointer \/ TypeInfo[base].isReference)
      THEN t
      ELSE TypeInfo[IF isConst THEN TypeInfo[t].asConst ELSE t].pointerTo

(* All inputs that fit, members only when nothing else does before them;   *)
(* weak inputs only when no input does; and a global otherwise.            *)
ComputeOutput(c, fd, t) ==
  LET Fits(v) == CanAssign(LocationType(fd, v), t, IsThisPointer(v))
      FitsAsMember(v) == CanAssign(MemberLocationType(fd, v), t, IsThisPointer(v))
      Take(ps, v) ==
        LET takes == IF IsField(v) THEN ps = {} /\ (Fits(v) \/ FitsAsMember(v)) ELSE Fits(v)
        IN  IF takes THEN ps \cup c.pre[v] ELSE ps
      strong == FoldLeft(Take, {}, c.input)
      either == IF strong = {} THEN FoldLeft(Take, {}, c.inputWeak) ELSE strong
  IN  ((IF either = {} THEN {Global} ELSE either) \ {Null}) \cup MayBeNull(t)

FillPostConditions(c, fd) ==
  LET returned == Var("return")
      outputs == c.output \o
        IF IsPointerCategory(fd.returnType) THEN <<returned>>
        ELSE IF IsAggregate(fd.returnType) THEN PointersInAggregate(returned, fd.returnType)
        ELSE <<>>
      default == [v \in Range(outputs) |-> ComputeOutput(c, fd, LocationType(fd, v))]
  IN  [c EXCEPT !.post = AdjustCaptureContracts(AdjustContracts(default, c.pre, fd.posts), fd, c.pre)]

(* main is given its arguments and promises nothing. *)
MainContract(fd) ==
  LET argv == Var(fd.params[2])
  IN  IF Len(fd.params) < 2 THEN NoContract
      ELSE Require(Require(NoContract, argv, {DerefVar(argv)}), DerefVar(argv), {DerefN(argv, 2)})

FillPSetsForDecl(fd) ==
  IF fd.isMain THEN MainContract(fd) ELSE FillPostConditions(FillPreConditions(fd), fd)
=============================================================================
