---------------------------- MODULE LifetimePset ----------------------------
(***************************************************************************)
(* The abstract domain of the analysis: memory locations (class Variable)  *)
(* and points-to sets (class PSet).                                        *)
(*                                                                         *)
(* A Variable is a base declaration and a path of field accesses and       *)
(* dereferences, [base |-> d, path |-> <<...>>]; the null FieldDecl that   *)
(* stands for a dereference is the marker Deref.  A PSet is the set of its *)
(* Variables together with the three special members Null, Invalid and     *)
(* Global; the reasons that only feed notes are left out.  The unknown     *)
(* pset is the empty set.                                                  *)
(***************************************************************************)
EXTENDS CppsafeOptions, Integers, Sequences, SequencesExt

CONSTANTS
  Null, Invalid, Global,  \* the special members of a pset
  NoPMap,                 \* an optional<PSetsMap> without a value
  TypeInfo,               \* type name   |-> what the analysis asks of a type
  FieldInfo,              \* field name  |-> [type, parent, init]
  DeclInfo                \* declaration |-> [kind, type, extending]

Deref  == "*"
NoType == "none"          \* the null QualType
NoDecl == "nodecl"        \* the null ValueDecl

Category(t) == IF t = NoType THEN "Value" ELSE TypeInfo[t].category
IsPointerCategory(t) == Category(t) = "Pointer"
IsOwnerCategory(t)   == Category(t) = "Owner"
PointeeType(t) == IF t = NoType THEN NoType ELSE TypeInfo[t].pointee

-----------------------------------------------------------------------------
(* Variables *)

Var(d) == [base |-> d, path |-> <<>>]

DerefN(v, n)   == [v EXCEPT !.path = @ \o [i \in 1..n |-> Deref]]
DerefVar(v)    == DerefN(v, 1)
AddField(v, fd) == [v EXCEPT !.path = Append(@, fd)]
ChainFields(v, path) == [v EXCEPT !.path = @ \o path]
ReplaceExpr(v, w) == ChainFields(w, v.path)

IsField(v)   == v.path # <<>> /\ Last(v.path) # Deref
IsDeref(v)   == v.path # <<>> /\ Head(v.path) = Deref
GetField(v)  == Last(v.path)
GetParent(v) == [v EXCEPT !.path = Front(@)]

GetDerefNum(v) ==
  LET n == Len(v.path)
      Trailing(k) == \A i \in (n - k + 1)..n : v.path[i] = Deref
  IN  CHOOSE k \in 0..n : Trailing(k) /\ (k < n => ~Trailing(k + 1))

Kind(v)          == DeclInfo[v.base].kind
IsThisPointer(v) == Kind(v) = "This"
IsParameter(v)   == Kind(v) = "Param"
IsVarDecl(v)     == Kind(v) \in {"Local", "Param", "Global", "Decomposition"}
IsTemporary(v)   == Kind(v) = "Temporary"
IsExprVar(v)     == Kind(v) = "Expr"
IsReturnVal(v)   == Kind(v) = "Return"

(* Variables are ordered by the kind of their base first; of those of one  *)
(* kind any may be the first.                                              *)
KindOrder == <<{"Local", "Param", "Global", "Decomposition"}, {"Binding"},
               {"Expr", "Temporary"}, {"This"}, {"Return"}>>
Rank(v) == CHOOSE i \in DOMAIN KindOrder : Kind(v) \in KindOrder[i]
FirstVar(vs) == CHOOSE v \in vs : \A w \in vs : Rank(v) <= Rank(w)

IsTemporaryExtendedBy(v, d) == IsTemporary(v) /\ DeclInfo[v.base].extending = d

(* Once a pointer field is dereferenced the path has left the object. *)
StaysInObject(path) ==
  \A i, j \in DOMAIN path :
    /\ i < j
    /\ path[i] # Deref
    /\ IsPointerCategory(FieldInfo[path[i]].type)
    => path[j] # Deref

(* Is o a subobject of v? *)
IsParent(v, o) ==
  /\ v.base = o.base
  /\ IsPrefix(v.path, o.path)
  /\ StaysInObject(o.path)

HasStaticLifetime(v) ==
  \/ Kind(v) = "Global"
  \/ /\ IsThisPointer(v)
     /\ v.path # <<>>
     /\ \A i \in DOMAIN v.path : v.path[i] # Deref

(* The type of a location, and how many dereferences lie below the first   *)
(* Owner on its path (-1 when there is none).                              *)
TypeAndOrder(v) ==
  LET base == DeclInfo[v.base].type
      Step(acc, fd) ==
        IF fd = Deref
        THEN [type  |-> PointeeType(acc.type),
              order |-> IF acc.order >= 0 THEN acc.order + 1 ELSE acc.order]
        ELSE [type  |-> FieldInfo[fd].type,
              order |-> IF acc.order = -1 /\ IsOwnerCategory(FieldInfo[fd].type)
                        THEN 0 ELSE acc.order]
  IN  FoldLeft(Step,
               [type |-> base, order |-> IF IsOwnerCategory(base) THEN 0 ELSE -1],
               v.path)

GetType(v)  == TypeAndOrder(v).type
GetOrder(v) == LET order == TypeAndOrder(v).order IN IF order >= 0 THEN order ELSE 0

-----------------------------------------------------------------------------
(* Points-to sets; a PSetsMap is a function from Variables to psets. *)

EmptyPMap == <<>>

(* p, and what q says of anything p says nothing of. *)
Over(p, q) == [v \in DOMAIN p \cup DOMAIN q |-> IF v \in DOMAIN p THEN p[v] ELSE q[v]]

(* What the blocks of a function share: the psets of its expressions, the  *)
(* psets of the members of those that are aggregates, and whether an       *)
(* assertion has failed, which ends the process.                           *)
NothingSeen == [psets |-> EmptyPMap, members |-> EmptyPMap, failed |-> FALSE]

Special    == {Null, Invalid, Global}
VarsOf(ps) == ps \ Special

IsUnknown(ps) == ps = {}
IsInvalid(ps) == ps = {Invalid}
IsNull(ps)    == ps = {Null}
IsGlobal(ps)  == ps = {Global}

RemoveEverythingButNull(ps) == ps \cap {Null}
GlobalVar(nullable) == IF nullable THEN {Global, Null} ELSE {Global}
Singleton(v, n) == IF HasStaticLifetime(v) THEN {Global} ELSE {DerefN(v, n)}
Insert(ps, v)   == IF HasStaticLifetime(v) THEN ps \cup {Global} ELSE ps \cup {v}

(* We look for v and have v.field in the set. *)
ContainsParent(ps, v) == \E o \in VarsOf(ps) : IsParent(v, o)

TransformVars(ps, Fn(_)) == (ps \cap Special) \cup {Fn(v) : v \in VarsOf(ps)}

(* Actualises a pset of a contract with the argument of a call. *)
Bind(ps, toReplace, to, checking) ==
  IF toReplace \notin ps THEN ps
  ELSE (ps \ {toReplace}) \cup (IF checking THEN VarsOf(to) ELSE to)

(* A field access on every location the set holds: the field is appended   *)
(* where it belongs to the record; a pointer field read through any other  *)
(* type makes the location escape to Global.                               *)
AddFieldRefIfTypeMatch(ps, fd) ==
  LET parent == FieldInfo[fd].parent
      TypeMatches(v) ==
        LET t == GetType(v)
        IN  /\ t # NoType
            /\ TypeInfo[t].isRecord
            /\ \/ parent = t
               \/ parent \in TypeInfo[t].bases
               \/ t \in TypeInfo[parent].bases
      Escapes(v) == ~TypeMatches(v) /\ TypeInfo[FieldInfo[fd].type].isPointer
      kept == {v \in VarsOf(ps) : ~Escapes(v)}
  IN  (ps \cap Special)
        \cup (IF kept # VarsOf(ps) THEN {Global} ELSE {})
        \cup {IF TypeMatches(v) THEN AddField(v, fd) ELSE v : v \in kept}

(* A slip: any location is as good as another. *)
AnyLocation(ps, o) ==
  IF Invalid \in o THEN "ok"
  ELSE IF Invalid \in ps THEN "Dangling"
  ELSE IF Null \in ps /\ Null \notin o THEN "Null"
  ELSE "ok"

(* May a value with pset ps be handed out where the contract allows o?     *)
(* The answer is the kind of the diagnostic, "ok" when there is none.      *)
(* Variables are ordered by the kind of their base first, so the first one *)
(* is the this pointer only when no declaration or temporary comes before. *)
CheckSubstitutableFor(ps, o) ==
  LET thisAllowed == ~LifetimePost
      firstIsThis ==
        /\ \E v \in VarsOf(ps) : IsThisPointer(v)
        /\ \A v \in VarsOf(ps) : IsThisPointer(v) \/ IsReturnVal(v)
      Covered(v) ==
        \E c \in VarsOf(o) : IsParent(c, v) /\ GetOrder(c) <= GetOrder(v)
  IN  IF Invalid \in o THEN "ok"
      ELSE IF Invalid \in ps THEN "Dangling"
      ELSE IF Null \in ps /\ Null \notin o THEN "Null"
      ELSE IF /\ Global \in o
              /\ ~(thisAllowed /\ firstIsThis)
              /\ Global \notin ps
              /\ VarsOf(ps) # {}
           THEN "WrongPset"
      ELSE IF \E v \in VarsOf(ps) : ~Covered(v) /\ ~(thisAllowed /\ IsThisPointer(v))
           THEN "WrongPset"
      ELSE "ok"
=============================================================================
