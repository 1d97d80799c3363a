---------------------------- MODULE TypeCategory ----------------------------
(***************************************************************************)
(* classifyTypeCategory: is a type an Owner, a Pointer, an Aggregate or a  *)
(* Value, and what does an indirection point to?  The classification of a  *)
(* class asks for what it points to and for the categories of its bases;   *)
(* what it points to may depend on the category of what begin() returns.   *)
(* Both questions are answered from a cache once they have been answered,  *)
(* and the second from a guard against asking it of itself, so the order   *)
(* of the steps matters: the calls under way are kept on a stack.          *)
(*                                                                         *)
(* A type t of the program is described by world[t]:                       *)
(*   kind       "scalar", "pointer" (and reference), "array" or "class",   *)
(*   to         what a pointer or an array is made from,                   *)
(*   special    "closure" (a lambda or std::function), "vectorBool" (its   *)
(*              reference) or "none",                                      *)
(*   methods    the member functions that matter and what they return,     *)
(*   valueType, targ   the member typedef and the first template argument, *)
(*   owner, pointer    the attributes: absent, inferred or a type,         *)
(*   ofTemplate        the attribute of the template it is made from,      *)
(*   trivialDtor, isAggregate, bases,                                      *)
(*   early      the class may be spoken of before it is defined.           *)
(***************************************************************************)
EXTENDS Naturals, Sequences, SequencesExt, FiniteSets

CONSTANTS
  Types,     \* the types of the program
  NoType,    \* the null QualType
  Void,      \* the type void
  Asked,     \* those the analysis asks about
  StackLimit, \* the number of calls the thread's stack has room for
  Worlds     \* the programs: how each type is described

VARIABLES
  world,     \* the program
  complete,  \* the classes the parser has seen the definition of
  stack,     \* the calls under way, the innermost last
  result,    \* what the call that ended last has returned
  cache,     \* the categories found so far
  pointees,  \* what types were found to point to, NoType while it is looked for
  answers,   \* the answers each type was given
  failed     \* a null type was used

vars == <<world, complete, stack, result, cache, pointees, answers, failed>>

Classes == {t \in Types : world[t].kind = "class"}

Absent   == "absent"
Inferred == "inferred"
Classification(tc, p) == [tc |-> tc, pointee |-> p]
IsIndirection(c) == c.tc \in {"Owner", "Pointer"}

-----------------------------------------------------------------------------
(* Looking at a class *)

(* The bases in the order forallBases visits them. *)
AllBases(w, c) ==
  LET visit[t \in Types] ==
        w[t].bases \o FlattenSeq([i \in DOMAIN w[t].bases |-> visit[Reverse(w[t].bases)[i]]])
  IN  visit[c]

(* A method is looked for in the bases first. *)
Declaring(w, c, method) ==
  SelectSeq(Append(AllBases(w, c), c), LAMBDA t : method \in DOMAIN w[t].methods)
ReturnTypeIn(w, c, method) == w[Declaring(w, c, method)[1]].methods[method]
HasMethodLike(c, method) == Declaring(world, c, method) # <<>>
ReturnType(c, method) == ReturnTypeIn(world, c, method)

(* What a type is made from are types of the program. *)
ASSUME WorldsAssumption ==
  /\ Void # NoType
  /\ Asked \subseteq Types
  /\ \A w \in Worlds : \A t \in Types :
       /\ w[t].kind \in {"scalar", "pointer", "array", "class"}
       /\ w[t].kind \in {"pointer", "array"} => w[t].to # NoType
       /\ w[t].kind = "class" =>
            /\ NoType \notin {w[t].owner, w[t].pointer}
            /\ w[t].bases \in Seq(Types)
            /\ Declaring(w, t, "begin") # <<>> => ReturnTypeIn(w, t, "begin") \in Types

HasDerefOperations(c) == HasMethodLike(c, "operator*") \/ HasMethodLike(c, "operator->")
IsIterable(c) == HasMethodLike(c, "begin") /\ HasMethodLike(c, "end")
SatisfiesContainerRequirements(c) == IsIterable(c) /\ ~world[c].trivialDtor
SatisfiesRangeConcept(c) == IsIterable(c) /\ world[c].trivialDtor
SatisfiesIteratorRequirements(c) ==
  HasMethodLike(c, "operator*") /\ HasMethodLike(c, "operator++")

(* Well known classes of the standard library. *)
IsVectorBoolReference(c) == world[c].special = "vectorBool"
ClassifyStd(c) == IF IsVectorBoolReference(c) THEN {"Pointer"} ELSE {}

(* The operators a class is dereferenced with, the first one that is there *)
Operators == <<"operator*", "operator->", "operator[]">>
OperatorOf(w, c) == SelectSeq(Operators, LAMBDA op : Declaring(w, c, op) # <<>>)
Stripped(t) == IF world[t].kind = "pointer" THEN world[t].to ELSE t

(* What t points to, when that can be told without looking at begin(). *)
FallBack(t) == IF world[t].kind = "class" THEN world[t].targ ELSE NoType
PointeeOfClass(t) ==
  IF IsVectorBoolReference(t) THEN "bool"
  ELSE IF world[t].valueType # NoType THEN world[t].valueType
  ELSE IF OperatorOf(world, t) # <<>> THEN Stripped(ReturnType(t, OperatorOf(world, t)[1]))
  ELSE FallBack(t)
DirectPointee(t) ==
  CASE world[t].kind \in {"pointer", "array"} -> world[t].to
    [] world[t].kind = "scalar"                -> NoType
    [] world[t].kind = "class"                 -> PointeeOfClass(t)
AsksBegin(t) ==
  /\ world[t].kind = "class"
  /\ ~IsVectorBoolReference(t)
  /\ world[t].valueType = NoType
  /\ OperatorOf(world, t) = <<>>
  /\ HasMethodLike(t, "begin")

(* A category that is clear at once: none of these has a pointee to infer. *)
IsKnownAtOnce(t) ==
  \/ world[t].kind = "scalar"
  \/ world[t].kind = "class" /\ (t \notin complete \/ world[t].special = "closure")
KnownAtOnce(t) ==
  IF world[t].kind = "class" /\ t \in complete
  THEN Classification("Pointer", Void) ELSE Classification("Value", NoType)

ResolvePointerOrOwnerType(attribute, inferred) ==
  IF attribute # Inferred THEN attribute
  ELSE IF inferred # NoType THEN inferred ELSE Void

Undecided == Classification("Undecided", NoType)

(* The category of a class whose pointee p is known, by its structure.     *)
Infer(t, p) ==
  IF world[t].ofTemplate # Absent THEN Classification(world[t].ofTemplate, p)
  ELSE IF ClassifyStd(t) # {} THEN Classification(CHOOSE tc \in ClassifyStd(t) : TRUE, p)
  ELSE IF \/ SatisfiesContainerRequirements(t)
          \/ HasDerefOperations(t) /\ ~world[t].trivialDtor THEN Classification("Owner", p)
  ELSE IF \/ SatisfiesRangeConcept(t)
          \/ SatisfiesIteratorRequirements(t)
          \/ HasDerefOperations(t) THEN Classification("Pointer", p)
  ELSE Undecided

(* A slip: a category is inferred even when the pointee is not known. *)
InferAlways(p) == TRUE
CanInfer(p) == p # NoType

(* The category of t by its own declaration, p being what it points to;    *)
(* it is undecided when only its bases can tell.                           *)
Decide(t, p) ==
  LET c == world[t]
  IN  IF c.kind = "array" THEN Classification("Owner", p)
      ELSE IF c.kind = "pointer" THEN Classification("Pointer", p)
      ELSE IF c.owner # Absent THEN Classification("Owner", ResolvePointerOrOwnerType(c.owner, p))
      ELSE IF c.pointer # Absent THEN Classification("Pointer", ResolvePointerOrOwnerType(c.pointer, p))
      ELSE IF CanInfer(p) THEN Infer(t, p)
      ELSE Undecided

(* The indirections among the bases must agree. *)
OfBases(t, seen) ==
  LET indirections == {c \in Range(seen) : IsIndirection(c)}
  IN  IF Cardinality(indirections) = 1 THEN CHOOSE c \in indirections : TRUE
      ELSE IF indirections = {} /\ world[t].isAggregate THEN Classification("Aggregate", NoType)
      ELSE Classification("Value", NoType)

-----------------------------------------------------------------------------
(* The calls *)

(* A map with a value given to a key, and with one it gets if it has none. *)
Assigned(m, k, value) == [x \in DOMAIN m \cup {k} |-> IF x = k THEN value ELSE m[x]]
Emplaced(m, k, value) == IF k \in DOMAIN m THEN m ELSE Assigned(m, k, value)

Frame(fn, t) == [fn |-> fn, t |-> t, at |-> "start", seen |-> <<>>]
Top == Last(stack)
IsAt(fn, at) == ~failed /\ stack # <<>> /\ Top.fn = fn /\ Top.at = at

Continued(top) == Append(Front(stack), top)
Call(top, fn, t) ==
  /\ Len(stack) < StackLimit
  /\ stack' = Append(Continued(top), Frame(fn, t))
  /\ UNCHANGED <<result, answers>>

Return(value) ==
  /\ stack' = Front(stack)
  /\ result' = value
  /\ answers' = IF Len(stack) = 1 THEN [answers EXCEPT ![Top.t] = @ \cup {value}] ELSE answers

Init ==
  /\ world \in Worlds
  /\ \E declared \in SUBSET {t \in Classes : world[t].early} : complete = Classes \ declared
  /\ stack = <<>>
  /\ result = Undecided
  /\ cache = <<>>
  /\ pointees = <<>>
  /\ answers = [t \in Types |-> {}]
  /\ failed = FALSE

(* The analysis of some declaration wants to know the category of t. *)
Ask(t) ==
  /\ stack = <<>>
  /\ ~failed
  /\ stack' = <<Frame("classify", t)>>
  /\ UNCHANGED <<world, complete, result, cache, pointees, answers, failed>>

(* The parser comes to the definition of class t; it has seen its bases.   *)
Define(t) ==
  /\ stack = <<>>
  /\ ~failed
  /\ t \notin complete
  /\ Range(world[t].bases) \subseteq complete
  /\ complete' = complete \cup {t}
  /\ UNCHANGED <<world, stack, result, cache, pointees, answers, failed>>

(* The cache keeps what it holds: a call for the same type that has ended  *)
(* in between has the last word.                                           *)
Conclude(c) ==
  /\ cache' = Emplaced(cache, Top.t, c)
  /\ Return(c)

Classify ==
  /\ IsAt("classify", "start")
  /\ \/ /\ Top.t \in DOMAIN cache
        /\ Return(cache[Top.t])
        /\ UNCHANGED cache
     \/ /\ Top.t \notin DOMAIN cache
        /\ IsKnownAtOnce(Top.t)
        /\ Conclude(KnownAtOnce(Top.t))
     \/ /\ Top.t \notin DOMAIN cache
        /\ ~IsKnownAtOnce(Top.t)
        /\ Call([Top EXCEPT !.at = "pointee"], "pointee", Top.t)
        /\ UNCHANGED cache
  /\ UNCHANGED <<world, complete, pointees, failed>>

(* Attributes and requirements decide first, then the bases. *)
ClassifyByPointee ==
  /\ IsAt("classify", "pointee")
  /\ LET decided == Decide(Top.t, result.pointee)
     IN  IF decided # Undecided THEN Conclude(decided)
         ELSE /\ stack' = Continued([Top EXCEPT !.at = "bases"])
              /\ UNCHANGED <<cache, result, answers>>
  /\ UNCHANGED <<world, complete, pointees, failed>>

(* A slip: only the first base is looked at. *)
FirstBaseOnly(t, seen) == seen = <<>> /\ world[t].bases # <<>>
MoreBases(t, seen) == Len(seen) < Len(world[t].bases)

GetBaseClassification ==
  /\ IsAt("classify", "bases")
  /\ IF MoreBases(Top.t, Top.seen)
     THEN /\ Call([Top EXCEPT !.at = "base"], "classify", world[Top.t].bases[Len(Top.seen) + 1])
          /\ UNCHANGED cache
     ELSE Conclude(OfBases(Top.t, Top.seen))
  /\ UNCHANGED <<world, complete, pointees, failed>>

NoteBase ==
  /\ IsAt("classify", "base")
  /\ stack' = Continued([Top EXCEPT !.at = "bases", !.seen = Append(@, result)])
  /\ UNCHANGED <<world, complete, result, cache, pointees, answers, failed>>

(* A slip: a class that asks for itself asks for ever. *)
Unguarded(t) == pointees
Guarded(t) == Assigned(pointees, t, NoType)

Settle(p) ==
  /\ pointees' = Assigned(pointees, Top.t, p)
  /\ Return(Classification("Undecided", p))

GetPointeeType ==
  /\ IsAt("pointee", "start")
  /\ \/ /\ Top.t \in DOMAIN pointees
        /\ Return(Classification("Undecided", pointees[Top.t]))
        /\ UNCHANGED pointees
     \/ /\ Top.t \notin DOMAIN pointees
        /\ AsksBegin(Top.t)
        /\ pointees' = Guarded(Top.t)
        /\ Call([Top EXCEPT !.at = "begin"], "classify", ReturnType(Top.t, "begin"))
     \/ /\ Top.t \notin DOMAIN pointees
        /\ ~AsksBegin(Top.t)
        /\ Settle(DirectPointee(Top.t))
  /\ UNCHANGED <<world, complete, cache, failed>>

(* What begin() returns must be a Pointer; it is classified once more to   *)
(* learn what it points to.                                                *)
ClassifyBegin ==
  /\ IsAt("pointee", "begin")
  /\ IF result.tc = "Pointer"
     THEN /\ Call([Top EXCEPT !.at = "element"], "classify", ReturnType(Top.t, "begin"))
          /\ UNCHANGED pointees
     ELSE Settle(FallBack(Top.t))
  /\ UNCHANGED <<world, complete, cache, failed>>

(* The element type is made canonical, which a null type cannot be. *)
GetElementType ==
  /\ IsAt("pointee", "element")
  /\ Settle(result.pointee)
  /\ failed' = (result.pointee = NoType)
  /\ UNCHANGED <<world, complete, cache>>

Step ==
  \/ Classify
  \/ ClassifyByPointee
  \/ GetBaseClassification
  \/ NoteBase
  \/ GetPointeeType
  \/ ClassifyBegin
  \/ GetElementType
Question == \/ \E t \in Asked : Ask(t)
            \/ \E t \in Classes : Define(t)
Next == Step \/ Question

Spec == Init /\ [][Next]_vars

(* One thread runs a call to its end; questions come as they come. *)
FairSpec == Spec /\ WF_vars(Step)
-----------------------------------------------------------------------------
(* Properties *)

(* The category of every type by the rules alone, without caches, guards   *)
(* and calls; it has a meaning when no class asks for itself.              *)
PointeeBy(category, t) ==
  LET begin == category[ReturnType(t, "begin")]
  IN  IF ~AsksBegin(t) THEN DirectPointee(t)
      ELSE IF begin.tc = "Pointer" THEN begin.pointee ELSE FallBack(t)
CategoryBy(category, t) ==
  LET p == PointeeBy(category, t)
      bases == world[t].bases
  IN  IF IsKnownAtOnce(t) THEN KnownAtOnce(t)
      ELSE IF Decide(t, p) # Undecided THEN Decide(t, p)
      ELSE OfBases(t, [i \in DOMAIN bases |-> category[bases[i]]])
Category ==
  LET category[t \in Types] == CategoryBy(category, t)
  IN  category

(* Does no class ask for its own category in the end?                      *)
AsksFor(t) == (IF AsksBegin(t) THEN {ReturnType(t, "begin")} ELSE {}) \cup Range(world[t].bases)
IsLayered == \A S \in SUBSET Classes \ {{}} : \E t \in S : AsksFor(t) \cap S = {}

(* Whatever was asked before, and in whichever order, every answer is the  *)
(* category the rules give to the type as it is defined now               *)
(* (LifetimeTypeCategory.h:66 "Returns the type category of the given      *)
(* type").                                                                 *)
AnswersAreCurrent == IsLayered => \A t \in Types : \A c \in answers[t] : c = Category[t]

(* The caller of getPointeeType, which asks for the category once more,    *)
(* finds the pointee of what was classified as an Owner or a Pointer       *)
(* (LifetimeTypeCategory.h:68-69 "If the returned TypeCategory is Owner or *)
(* Pointer, then getPointeeType() will return non-null for the same QT").  *)
PointeeStaysKnown ==
  \A t \in Types : (\E c \in answers[t] : IsIndirection(c))
                     => \A c \in answers[t] : IsIndirection(c)

(* The same of the caller that has just classified what begin() returns    *)
(* and goes on with its pointee (LifetimeTypeCategory.cpp:522-526): it     *)
(* never makes a null type canonical.                                      *)
NoNullTypeIsUsed == ~failed

(* No classification is made with a null pointee, in the constructor of    *)
(* TypeClassification (LifetimeTypeCategory.h:34) or in the cache, even    *)
(* while the pointee of a class that asks for itself is not yet known.     *)
IndirectionsHavePointees ==
  /\ \A t \in DOMAIN cache : IsIndirection(cache[t]) => cache[t].pointee # NoType
  /\ \A t \in Types : \A c \in answers[t] : IsIndirection(c) => c.pointee # NoType

(* Every question is answered, also about classes that ask for each other, *)
(* and before the stack is exhausted: the guard in getPointeeType          *)
(* (LifetimeTypeCategory.cpp:585-587 "to stop a possible                   *)
(* classifyTypeCategory -> getPointeeType infinite recursion") ends every  *)
(* cycle.  The process may end before that, by using a null type.          *)
Answered == stack # <<>> ~> stack = <<>> \/ failed
=============================================================================
