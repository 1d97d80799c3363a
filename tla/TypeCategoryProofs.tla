------------------------- MODULE TypeCategoryProofs -------------------------
(***************************************************************************)
(* Theorems about the classification of types, for every program. The      *)
(* answers of classifyTypeCategory are those of its rules: the cache, the  *)
(* guard against asking of oneself and the order of the questions make no  *)
(* difference, for every program in which no class asks for itself and     *)
(* none is spoken of before it is defined.                                 *)
(***************************************************************************)
EXTENDS TypeCategory, Recursion, SequenceTheorems, FiniteSetTheorems, TLAPS

(* A classification as the constructor of TypeClassification wants it.     *)
Sound(c) == IsIndirection(c) => c.pointee # NoType

Kind(t) == world[t].kind
IsMadeFromOne(t) == Kind(t) \in {"pointer", "array"}

-----------------------------------------------------------------------------
(* The invariant *)

(* The calls that can be under way when the bases looked at were found to  *)
(* be in S.                                                                *)
Calls(S) ==
  [fn : {"classify", "pointee"}, t : Types,
   at : {"start", "pointee", "bases", "base", "begin", "element"}, seen : Seq(S)]

(* A call for the pointee is at its beginning or looks at begin(), one for *)
(* the category waits for the pointee or looks at the bases; what has      *)
(* begin() or bases is a class.                                            *)
IsWellPlaced(f) ==
  /\ f.at \in {"pointee", "bases", "base"} => f.fn = "classify" /\ Kind(f.t) # "scalar"
  /\ f.at \in {"begin", "element"} => f.fn = "pointee" /\ ReturnType(f.t, "begin") \in Types
  /\ f.at \in {"bases", "base", "begin", "element"} => Kind(f.t) = "class"

(* What has been found is sound: the results of calls that have ended and  *)
(* of those for bases;                                                     *)
Findings ==
  /\ IndirectionsHavePointees
  /\ Sound(result)
  /\ answers = [t \in Types |-> answers[t]]
  /\ \A t \in DOMAIN pointees \cap Types : IsMadeFromOne(t) => pointees[t] # NoType

(* and a call that waits for the pointee of its type waits for that of     *)
(* nothing else, and then has it.                                          *)
IsChained(s) ==
  \A i \in 1..(Len(s) - 1) :
    s[i].at = "pointee" => s[i + 1].fn = "pointee" /\ s[i + 1].t = s[i].t
HasPointee == (stack # <<>> /\ Top.at = "pointee" /\ IsMadeFromOne(Top.t)) => result.pointee # NoType

IsStack(s, S) ==
  /\ s \in Seq(Calls(S))
  /\ \A i \in 1..Len(s) : IsWellPlaced(s[i])
  /\ IsChained(s)

IInv ==
  /\ world \in Worlds
  /\ \E S : IsStack(stack, S) /\ \A c \in S : Sound(c)
  /\ Findings
  /\ HasPointee

-----------------------------------------------------------------------------
(* Categories *)

(* What is known at once is sound, *)
LEMMA KnownIsSound == ASSUME NEW t PROVE Sound(KnownAtOnce(t))
BY WorldsAssumption DEF Sound, KnownAtOnce, Classification, IsIndirection

(* what is decided by the declaration is sound, when the pointee of what   *)
(* is made from one type is known,                                         *)
LEMMA DecisionIsSound ==
  ASSUME world \in Worlds, NEW t \in Types, Kind(t) # "scalar",
         NEW p, IsMadeFromOne(t) => p # NoType
  PROVE  Sound(Decide(t, p))
<1>1. \A tc, o : o # NoType => Sound(Classification(tc, o))
  BY DEF Sound, Classification
<1>2. Sound(Undecided)
  BY DEF Sound, IsIndirection, Undecided, Classification
<1>3. CASE IsMadeFromOne(t)
  <2>1. Decide(t, p) \in {Classification("Owner", p), Classification("Pointer", p)}
    BY <1>3 DEF Decide, IsMadeFromOne, Kind
  <2> QED
    BY <2>1, <1>1, <1>3
<1>4. CASE ~IsMadeFromOne(t)
  <2>1. Kind(t) = "class" /\ NoType \notin {world[t].owner, world[t].pointer}
    BY <1>4, WorldsAssumption DEF Kind, IsMadeFromOne
  <2>2. /\ ResolvePointerOrOwnerType(world[t].owner, p) # NoType
        /\ ResolvePointerOrOwnerType(world[t].pointer, p) # NoType
    BY <2>1, WorldsAssumption DEF ResolvePointerOrOwnerType
  <2>3. \/ Decide(t, p) = Undecided
        \/ \E tc : Decide(t, p) = Classification(tc, ResolvePointerOrOwnerType(world[t].owner, p))
        \/ \E tc : Decide(t, p) = Classification(tc, ResolvePointerOrOwnerType(world[t].pointer, p))
        \/ p # NoType /\ \E tc : Decide(t, p) = Classification(tc, p)
    BY <2>1 DEF Decide, CanInfer, Infer, Kind
  <2> QED
    BY <2>2, <2>3, <1>1, <1>2
<1> QED
  BY <1>3, <1>4

(* and so is what the bases agree on, when they are.                       *)
LEMMA AgreementIsSound ==
  ASSUME NEW t, NEW S, NEW seen \in Seq(S), \A c \in S : Sound(c)
  PROVE  Sound(OfBases(t, seen))
<1> DEFINE indirections == {c \in Range(seen) : IsIndirection(c)}
<1>1. \A c \in indirections : Sound(c)
  BY DEF Range
<1>2. Cardinality(indirections) = 1 => (CHOOSE c \in indirections : TRUE) \in indirections
<2> SUFFICES ASSUME Cardinality(indirections) = 1
              PROVE  indirections # {}
  OBVIOUS
<2> QED
  BY FS_EmptySet, SMT
<1>3. Sound(Classification("Value", NoType)) /\ Sound(Classification("Aggregate", NoType))
  BY DEF Sound, Classification, IsIndirection
<1> QED
  BY <1>1, <1>2, <1>3 DEF OfBases

-----------------------------------------------------------------------------
(* The stack *)

(* The call on top of the stack. *)
LEMMA TopIsCall ==
  ASSUME NEW S, IsStack(stack, S), stack # <<>>
  PROVE  /\ Len(stack) \in Nat \ {0}
         /\ Top = stack[Len(stack)]
         /\ Top \in Calls(S)
         /\ IsWellPlaced(Top)
<1>1. stack \in Seq(Calls(S)) /\ Len(stack) \in Nat /\ Len(stack) # 0
  BY EmptySeq DEF IsStack
<1>2. Top = stack[Len(stack)] /\ Len(stack) \in 1..Len(stack)
  BY <1>1 DEF Top, Last
<1> QED
  BY <1>1, <1>2, ElementOfSeq DEF IsStack

(* What is left when it is gone is a stack, *)
LEMMA FrontIsStack ==
  ASSUME NEW S, IsStack(stack, S), stack # <<>>
  PROVE  /\ IsStack(Front(stack), S)
         /\ Len(Front(stack)) = Len(stack) - 1
         /\ \A i \in 1..(Len(stack) - 1) : Front(stack)[i] = stack[i]
<1>1. stack \in Seq(Calls(S)) /\ Len(stack) \in Nat \ {0}
  BY TopIsCall DEF IsStack
<1>2. /\ Front(stack) \in Seq(Calls(S))
      /\ Len(Front(stack)) = Len(stack) - 1
      /\ \A i \in 1..(Len(stack) - 1) : Front(stack)[i] = stack[i]
  <2> DEFINE n == Len(stack) - 1
  <2>1. n \in Nat /\ \A i \in 1..n : stack[i] \in Calls(S)
    BY <1>1
  <2> HIDE DEF n
  <2>2. /\ SubSeq(stack, 1, n) \in Seq(Calls(S))
        /\ Len(SubSeq(stack, 1, n)) = IF 1 <= n THEN n - 1 + 1 ELSE 0
        /\ \A i \in 1..(n - 1 + 1) : SubSeq(stack, 1, n)[i] = stack[1 + i - 1]
    BY <2>1, SubSeqProperties
  <2>3. Front(stack) = SubSeq(stack, 1, n)
    BY DEF Front, n
  <2>4. Len(Front(stack)) = n /\ \A i \in 1..n : Front(stack)[i] = stack[i]
    BY <2>1, <2>2, <2>3
  <2> QED
    BY <2>2, <2>3, <2>4 DEF n
<1> QED
  BY <1>1, <1>2 DEF IsStack, IsChained

(* and it is one with a call on top that the call below it waits for.      *)
LEMMA PushIsStack ==
  ASSUME NEW S, NEW s, IsStack(s, S), NEW f \in Calls(S), IsWellPlaced(f),
         s # <<>> => (s[Len(s)].at = "pointee" => f.fn = "pointee" /\ f.t = s[Len(s)].t)
  PROVE  /\ IsStack(Append(s, f), S)
         /\ Append(s, f) # <<>>
         /\ Last(Append(s, f)) = f
         /\ Len(Append(s, f)) = Len(s) + 1
<1>1. s \in Seq(Calls(S)) /\ Len(s) \in Nat
  BY DEF IsStack
<1>2. /\ Append(s, f) \in Seq(Calls(S))
      /\ Len(Append(s, f)) = Len(s) + 1
      /\ \A i \in 1..Len(s) : Append(s, f)[i] = s[i]
      /\ Append(s, f)[Len(s) + 1] = f
  BY <1>1, AppendProperties
<1>3. \A i \in 1..Len(Append(s, f)) : IsWellPlaced(Append(s, f)[i])
  BY <1>1, <1>2 DEF IsStack
<1>4. IsChained(Append(s, f))
  <2> SUFFICES ASSUME NEW i \in 1..Len(s), Append(s, f)[i].at = "pointee"
               PROVE  /\ Append(s, f)[i + 1].fn = "pointee"
                      /\ Append(s, f)[i + 1].t = Append(s, f)[i].t
    BY <1>1, <1>2 DEF IsChained
  <2>1. CASE i = Len(s)
    BY <2>1, <1>1, <1>2, EmptySeq
  <2>2. CASE i # Len(s)
    BY <2>2, <1>1, <1>2 DEF IsStack, IsChained
  <2> QED
    BY <2>1, <2>2
<1>5. Append(s, f) # <<>>
  BY <1>1, <1>2, EmptySeq
<1>6. Last(Append(s, f)) = f
  BY <1>2 DEF Last
<1> QED
  BY <1>2, <1>3, <1>4, <1>5, <1>6 DEF IsStack

(* A call goes on. *)
LEMMA ContinuedIsStack ==
  ASSUME NEW S, IsStack(stack, S), stack # <<>>, NEW f \in Calls(S), IsWellPlaced(f),
         f.fn = Top.fn, f.t = Top.t
  PROVE  /\ IsStack(Continued(f), S)
         /\ Continued(f) # <<>>
         /\ Last(Continued(f)) = f
<1>1. Front(stack) # <<>> =>
        (Front(stack)[Len(Front(stack))].at = "pointee"
           => f.fn = "pointee" /\ f.t = Front(stack)[Len(Front(stack))].t)
  <2> SUFFICES ASSUME Front(stack) # <<>>, Front(stack)[Len(Front(stack))].at = "pointee"
               PROVE  f.fn = "pointee" /\ f.t = Front(stack)[Len(Front(stack))].t
    OBVIOUS
  <2>1. Len(Front(stack)) \in 1..(Len(stack) - 1) /\ Len(Front(stack)) + 1 = Len(stack)
    BY TopIsCall, FrontIsStack, EmptySeq DEF IsStack
  <2> QED
    BY <2>1, TopIsCall, FrontIsStack DEF IsStack, IsChained
<1> QED
  BY <1>1, FrontIsStack, PushIsStack DEF Continued

-----------------------------------------------------------------------------
(* The steps *)

LEMMA InitEstablishes == Init => IInv
<1> SUFFICES ASSUME Init PROVE IInv
  OBVIOUS
<1>1. IsStack(stack, {})
  BY EmptySeq DEF Init, IsStack, IsChained
<1>2. Findings
  BY DEF Init, Findings, IndirectionsHavePointees, Sound, Undecided, Classification, IsIndirection
<1> QED
  BY <1>1, <1>2 DEF Init, IInv, HasPointee

(* A question is put when nothing is under way. *)
LEMMA QuestionKeeps == IInv /\ Question => IInv'
<1> SUFFICES ASSUME IInv, Question PROVE IInv'
  OBVIOUS
<1> PICK S : IsStack(stack, S) /\ \A c \in S : Sound(c)
  BY DEF IInv
<1>1. ASSUME NEW t \in Asked, Ask(t) PROVE IInv'
  <2>1. Frame("classify", t) \in Calls(S) /\ IsWellPlaced(Frame("classify", t))
    BY WorldsAssumption, EmptySeq DEF Frame, Calls, IsWellPlaced
  <2>2. stack' = <<Frame("classify", t)>> /\ world' = world
    BY <1>1 DEF Ask
  <2>3. IsStack(stack, S)' /\ HasPointee'
    BY <2>1, <2>2 DEF IsStack, IsChained, IsWellPlaced, Kind, ReturnType, HasPointee, Frame, Top, Last
  <2>4. Findings'
    BY <1>1 DEF IInv, Ask, Findings, IndirectionsHavePointees, IsMadeFromOne, Kind
  <2> QED
    BY <2>2, <2>3, <2>4 DEF IInv
<1>2. ASSUME NEW t \in Classes, Define(t) PROVE IInv'
  <2>1. UNCHANGED <<world, stack, result, cache, pointees, answers>>
    BY <1>2 DEF Define
  <2> QED
    BY <2>1 DEF IInv, IsStack, IsChained, IsWellPlaced, Kind, ReturnType, HasPointee, Top, Findings,
                IndirectionsHavePointees, IsMadeFromOne
<1> QED
  BY <1>1, <1>2 DEF Question

(* A call goes on to its next stretch, *)
LEMMA GoingOn ==
  ASSUME NEW S, IsStack(stack, S), stack # <<>>, world' = world,
         NEW f \in Calls(S), IsWellPlaced(f), f.fn = Top.fn, f.t = Top.t, f.at # "pointee",
         stack' = Continued(f)
  PROVE  IsStack(stack, S)' /\ HasPointee'
<1>1. IsStack(Continued(f), S) /\ Last(Continued(f)) = f
  BY ContinuedIsStack
<1>2. IsStack(stack, S)'
  BY <1>1 DEF IsStack, IsChained, IsWellPlaced, Kind, ReturnType
<1> QED
  BY <1>1, <1>2 DEF HasPointee, Top

(* calls, *)
LEMMA Calling ==
  ASSUME NEW S, IsStack(stack, S), stack # <<>>, world' = world,
         NEW f \in Calls(S), IsWellPlaced(f), f.fn = Top.fn, f.t = Top.t,
         NEW fn \in {"classify", "pointee"}, NEW t \in Types,
         f.at = "pointee" => fn = "pointee" /\ t = f.t,
         Call(f, fn, t)
  PROVE  /\ IsStack(stack, S)' /\ HasPointee'
         /\ UNCHANGED <<result, answers>>
<1>1. IsStack(Continued(f), S) /\ Last(Continued(f)) = f
  BY ContinuedIsStack
<1>2. Frame(fn, t) \in Calls(S) /\ IsWellPlaced(Frame(fn, t))
  BY EmptySeq DEF Frame, Calls, IsWellPlaced
<1>3. /\ IsStack(Append(Continued(f), Frame(fn, t)), S)
      /\ Last(Append(Continued(f), Frame(fn, t))) = Frame(fn, t)
  <2>1. Continued(f)[Len(Continued(f))].at = "pointee"
          => Frame(fn, t).fn = "pointee" /\ Frame(fn, t).t = Continued(f)[Len(Continued(f))].t
    BY <1>1 DEF Last, Frame
  <2> QED
    BY <2>1, <1>1, <1>2, PushIsStack
<1>4. stack' = Append(Continued(f), Frame(fn, t)) /\ UNCHANGED <<result, answers>>
  BY DEF Call
<1>5. IsStack(stack, S)'
  BY <1>3, <1>4 DEF IsStack, IsChained, IsWellPlaced, Kind, ReturnType
<1>6. HasPointee'
  BY <1>3, <1>4 DEF HasPointee, Top, Frame
<1> QED
  BY <1>4, <1>5, <1>6

(* or returns to the one that waits for it. *)
LEMMA Returning ==
  ASSUME IInv, NEW S, IsStack(stack, S), stack # <<>>, world' = world,
         NEW value, Return(value), Sound(value),
         Top.fn = "pointee" /\ IsMadeFromOne(Top.t) => value.pointee # NoType
  PROVE  /\ IsStack(stack, S)' /\ HasPointee'
         /\ Sound(result)'
         /\ answers' = [t \in Types |-> answers'[t]]
         /\ \A t \in Types : \A c \in answers'[t] : Sound(c)
<1>1. stack' = Front(stack) /\ result' = value
  BY DEF Return
<1>2. IsStack(stack, S)'
  BY <1>1, FrontIsStack DEF IsStack, IsChained, IsWellPlaced, Kind, ReturnType
<1>3. HasPointee'
  <2> SUFFICES ASSUME Front(stack) # <<>>, Last(Front(stack)).at = "pointee",
                      IsMadeFromOne(Last(Front(stack)).t)
               PROVE  value.pointee # NoType
    BY <1>1 DEF HasPointee, Top, IsMadeFromOne, Kind
  <2>1. Len(Front(stack)) \in 1..(Len(stack) - 1) /\ Len(Front(stack)) + 1 = Len(stack)
    BY TopIsCall, FrontIsStack, EmptySeq DEF IsStack
  <2>2. Last(Front(stack)) = stack[Len(stack) - 1]
    BY <2>1, FrontIsStack DEF Last
  <2>3. Top.fn = "pointee" /\ Top.t = Last(Front(stack)).t
    BY <2>1, <2>2, TopIsCall DEF IsStack, IsChained
  <2> QED
    BY <2>3
<1>4. Sound(result)'
  BY <1>1 DEF Sound, IsIndirection
<1>5. answers' = IF Len(stack) = 1 THEN [answers EXCEPT ![Top.t] = @ \cup {value}] ELSE answers
  BY DEF Return
<1>6. /\ answers = [t \in Types |-> answers[t]]
      /\ \A t \in Types : \A c \in answers[t] : Sound(c)
  BY DEF IInv, Findings, IndirectionsHavePointees, Sound
<1>7. /\ answers' = [t \in Types |-> answers'[t]]
      /\ \A t \in Types : answers'[t] \subseteq answers[t] \cup {value}
  BY <1>5, <1>6
<1> QED
  BY <1>2, <1>3, <1>4, <1>6, <1>7

(* A call that is concluded leaves a sound category in the cache. *)
LEMMA Concluding ==
  ASSUME IInv, NEW S, IsStack(stack, S), \A c \in S : Sound(c), stack # <<>>, world' = world,
         NEW value, Conclude(value), Sound(value), Top.fn = "classify", pointees' = pointees
  PROVE  IInv'
<1>1. /\ IsStack(stack, S)' /\ HasPointee' /\ Sound(result)'
      /\ answers' = [t \in Types |-> answers'[t]]
      /\ \A t \in Types : \A c \in answers'[t] : Sound(c)
  BY Returning DEF Conclude
<1>2. cache' = Emplaced(cache, Top.t, value)
  BY DEF Conclude
<1>3. \A t \in DOMAIN cache : Sound(cache[t])
  BY DEF IInv, Findings, IndirectionsHavePointees, Sound
<1>4. \A t \in DOMAIN cache' : Sound(cache'[t])
  BY <1>2, <1>3 DEF Emplaced, Assigned
<1>5. Findings'
  BY <1>1, <1>4 DEF IInv, Findings, IndirectionsHavePointees, Sound, IsMadeFromOne, Kind
<1> QED
  BY <1>1, <1>5 DEF IInv

(* A call that settles what its type points to leaves that in the table.   *)
LEMMA Settling ==
  ASSUME IInv, NEW S, IsStack(stack, S), \A c \in S : Sound(c), stack # <<>>, world' = world,
         NEW p, Settle(p), IsMadeFromOne(Top.t) => p # NoType, cache' = cache
  PROVE  IInv'
<1>1. Sound(Classification("Undecided", p))
  BY DEF Sound, IsIndirection, Classification
<1>2. /\ IsStack(stack, S)' /\ HasPointee' /\ Sound(result)'
      /\ answers' = [t \in Types |-> answers'[t]]
      /\ \A t \in Types : \A c \in answers'[t] : Sound(c)
  BY <1>1, Returning DEF Settle, Classification
<1>3. pointees' = Assigned(pointees, Top.t, p)
  BY DEF Settle
<1>4. \A t \in DOMAIN pointees' \cap Types : IsMadeFromOne(t) => pointees'[t] # NoType
  BY <1>3 DEF Assigned, IInv, Findings
<1>5. Findings'
  BY <1>2, <1>4 DEF IInv, Findings, IndirectionsHavePointees, Sound, IsMadeFromOne, Kind
<1> QED
  BY <1>2, <1>5 DEF IInv

(* A call that stays or calls finds nothing new. *)
LEMMA FindingNothing ==
  ASSUME IInv, NEW S, IsStack(stack, S)', HasPointee', \A c \in S : Sound(c),
         UNCHANGED <<world, result, cache, answers>>,
         \A t \in DOMAIN pointees' \cap Types : IsMadeFromOne(t) => pointees'[t] # NoType
  PROVE  IInv'
<1>1. Findings'
  BY DEF IInv, Findings, IndirectionsHavePointees, Sound, IsMadeFromOne, Kind
<1> QED
  BY <1>1 DEF IInv

LEMMA ClassifyKeeps == IInv /\ Classify => IInv'
<1> SUFFICES ASSUME IInv, Classify PROVE IInv'
  OBVIOUS
<1> PICK S : IsStack(stack, S) /\ \A c \in S : Sound(c)
  BY DEF IInv
<1>1. /\ stack # <<>> /\ Top.fn = "classify" /\ Top.at = "start"
      /\ UNCHANGED <<world, pointees>>
  BY DEF Classify, IsAt
<1>2. Top \in Calls(S) /\ IsWellPlaced(Top) /\ Top.t \in Types
  BY <1>1, TopIsCall DEF Calls
<1>3. CASE Top.t \in DOMAIN cache /\ Return(cache[Top.t]) /\ UNCHANGED cache
  <2>1. Sound(cache[Top.t])
    BY <1>3 DEF IInv, Findings, IndirectionsHavePointees, Sound
  <2>2. /\ IsStack(stack, S)' /\ HasPointee' /\ Sound(result)'
        /\ answers' = [t \in Types |-> answers'[t]]
        /\ \A t \in Types : \A c \in answers'[t] : Sound(c)
    BY <1>1, <1>3, <2>1, Returning
  <2>3. Findings'
    BY <1>1, <1>3, <2>2 DEF IInv, Findings, IndirectionsHavePointees, Sound, IsMadeFromOne, Kind
  <2> QED
    BY <1>1, <2>2, <2>3 DEF IInv
<1>4. CASE Conclude(KnownAtOnce(Top.t))
  BY <1>1, <1>4, KnownIsSound, Concluding
<1>5. CASE /\ ~IsKnownAtOnce(Top.t)
           /\ Call([Top EXCEPT !.at = "pointee"], "pointee", Top.t)
           /\ UNCHANGED cache
  <2> DEFINE f == [Top EXCEPT !.at = "pointee"]
  <2>1. Kind(Top.t) # "scalar"
    BY <1>5 DEF IsKnownAtOnce, Kind
  <2>2. f \in Calls(S) /\ f.fn = Top.fn /\ f.t = Top.t /\ f.at = "pointee"
    BY <1>2 DEF Calls
  <2>3. IsWellPlaced(f)
    BY <2>1, <2>2, <1>1 DEF IsWellPlaced
  <2>4. IsStack(stack, S)' /\ HasPointee' /\ UNCHANGED <<result, answers>>
    BY <1>1, <1>2, <1>5, <2>2, <2>3, Calling
  <2> QED
    BY <1>1, <1>5, <2>4, FindingNothing DEF IInv, Findings
<1> QED
  BY <1>3, <1>4, <1>5 DEF Classify

LEMMA ClassifyByPointeeKeeps == IInv /\ ClassifyByPointee => IInv'
<1> SUFFICES ASSUME IInv, ClassifyByPointee PROVE IInv'
  OBVIOUS
<1> PICK S : IsStack(stack, S) /\ \A c \in S : Sound(c)
  BY DEF IInv
<1> DEFINE decided == Decide(Top.t, result.pointee)
<1>1. /\ stack # <<>> /\ Top.fn = "classify" /\ Top.at = "pointee"
      /\ UNCHANGED <<world, pointees>>
  BY DEF ClassifyByPointee, IsAt
<1>2. Top \in Calls(S) /\ IsWellPlaced(Top) /\ Top.t \in Types
  BY <1>1, TopIsCall DEF Calls
<1>3. CASE Conclude(decided)
  <2>1. Kind(Top.t) # "scalar" /\ (IsMadeFromOne(Top.t) => result.pointee # NoType)
    BY <1>1, <1>2 DEF IInv, HasPointee, IsWellPlaced
  <2>2. Sound(decided)
    BY <1>2, <2>1, DecisionIsSound DEF IInv
  <2> QED
    BY <1>1, <1>3, <2>2, Concluding
<1>4. CASE /\ decided = Undecided
           /\ stack' = Continued([Top EXCEPT !.at = "bases"])
           /\ UNCHANGED <<cache, result, answers>>
  <2> DEFINE f == [Top EXCEPT !.at = "bases"]
  <2>1. Kind(Top.t) \notin {"array", "pointer"}
    BY <1>4 DEF Decide, Undecided, Classification, Kind
  <2>2. Kind(Top.t) = "class"
    BY <1>1, <1>2, <2>1, WorldsAssumption DEF IsWellPlaced, IInv, Kind
  <2>3. f \in Calls(S) /\ f.fn = Top.fn /\ f.t = Top.t /\ f.at = "bases"
    BY <1>2 DEF Calls
  <2>4. IsWellPlaced(f)
    BY <2>2, <2>3, <1>1 DEF IsWellPlaced
  <2>5. IsStack(stack, S)' /\ HasPointee'
    BY <1>1, <1>4, <2>3, <2>4, GoingOn
  <2> QED
    BY <1>1, <1>4, <2>5, FindingNothing DEF IInv, Findings
<1> QED
  BY <1>3, <1>4 DEF ClassifyByPointee

LEMMA GetBaseClassificationKeeps == IInv /\ GetBaseClassification => IInv'
<1> SUFFICES ASSUME IInv, GetBaseClassification PROVE IInv'
  OBVIOUS
<1> PICK S : IsStack(stack, S) /\ \A c \in S : Sound(c)
  BY DEF IInv
<1>1. /\ stack # <<>> /\ Top.fn = "classify" /\ Top.at = "bases"
      /\ UNCHANGED <<world, pointees>>
  BY DEF GetBaseClassification, IsAt
<1>2. Top \in Calls(S) /\ IsWellPlaced(Top) /\ Top.t \in Types /\ Top.seen \in Seq(S)
  BY <1>1, TopIsCall DEF Calls
<1>3. CASE /\ MoreBases(Top.t, Top.seen)
           /\ Call([Top EXCEPT !.at = "base"], "classify", world[Top.t].bases[Len(Top.seen) + 1])
           /\ UNCHANGED cache
  <2> DEFINE f == [Top EXCEPT !.at = "base"]
             base == world[Top.t].bases[Len(Top.seen) + 1]
  <2>1. world[Top.t].bases \in Seq(Types)
    BY <1>1, <1>2, WorldsAssumption DEF IInv, IsWellPlaced, Kind
  <2>2. Len(Top.seen) + 1 \in 1..Len(world[Top.t].bases)
    BY <1>2, <1>3, <2>1 DEF MoreBases
  <2>3. base \in Types
    BY <2>1, <2>2
  <2>4. f \in Calls(S) /\ f.fn = Top.fn /\ f.t = Top.t /\ f.at = "base"
    BY <1>2 DEF Calls
  <2>5. IsWellPlaced(f)
    BY <1>1, <1>2, <2>4 DEF IsWellPlaced
  <2>6. IsStack(stack, S)' /\ HasPointee' /\ UNCHANGED <<result, answers>>
    BY <1>1, <1>3, <2>3, <2>4, <2>5, Calling
  <2> QED
    BY <1>1, <1>3, <2>6, FindingNothing DEF IInv, Findings
<1>4. CASE Conclude(OfBases(Top.t, Top.seen))
  BY <1>1, <1>2, <1>4, AgreementIsSound, Concluding
<1> QED
  BY <1>3, <1>4 DEF GetBaseClassification

LEMMA NoteBaseKeeps == IInv /\ NoteBase => IInv'
<1> SUFFICES ASSUME IInv, NoteBase PROVE IInv'
  OBVIOUS
<1> PICK R : IsStack(stack, R) /\ \A c \in R : Sound(c)
  BY DEF IInv
<1> PICK S : S = R \cup {result}
  OBVIOUS
<1> DEFINE f == [Top EXCEPT !.at = "bases", !.seen = Append(@, result)]
<1>1. /\ stack # <<>> /\ Top.fn = "classify" /\ Top.at = "base"
      /\ UNCHANGED <<world, result, cache, pointees, answers>>
      /\ stack' = Continued(f)
  BY DEF NoteBase, IsAt
<1>2. \A c \in S : Sound(c)
  BY DEF IInv, Findings
<1>3. IsStack(stack, S)
  <2>1. Seq(R) \subseteq Seq(S)
    BY SeqMonotonic
  <2>2. Calls(R) \subseteq Calls(S)
    BY <2>1 DEF Calls
  <2>3. Seq(Calls(R)) \subseteq Seq(Calls(S))
    BY <2>2, SeqMonotonic
  <2> QED
    BY <2>3 DEF IsStack
<1>4. Top \in Calls(S) /\ IsWellPlaced(Top)
  BY <1>1, <1>3, TopIsCall
<1>5. Append(Top.seen, result) \in Seq(S)
  BY <1>4, AppendProperties DEF Calls
<1>6. f \in Calls(S) /\ f.fn = Top.fn /\ f.t = Top.t /\ f.at = "bases"
  BY <1>4, <1>5 DEF Calls
<1>7. IsWellPlaced(f)
  BY <1>1, <1>4, <1>6 DEF IsWellPlaced
<1> HIDE DEF f
<1>8. IsStack(stack, S)' /\ HasPointee'
  BY <1>1, <1>3, <1>6, <1>7, GoingOn
<1> QED
  BY <1>1, <1>2, <1>8, FindingNothing DEF IInv, Findings

(* What begin() returns is a type of the program. *)
LEMMA BeginIsType ==
  ASSUME IInv, NEW t \in Types, AsksBegin(t)
  PROVE  Kind(t) = "class" /\ ReturnType(t, "begin") \in Types
BY WorldsAssumption DEF IInv, AsksBegin, HasMethodLike, ReturnType, Kind

LEMMA GetPointeeTypeKeeps == IInv /\ GetPointeeType => IInv'
<1> SUFFICES ASSUME IInv, GetPointeeType PROVE IInv'
  OBVIOUS
<1> PICK S : IsStack(stack, S) /\ \A c \in S : Sound(c)
  BY DEF IInv
<1>1. /\ stack # <<>> /\ Top.fn = "pointee" /\ Top.at = "start"
      /\ UNCHANGED <<world, cache>>
  BY DEF GetPointeeType, IsAt
<1>2. Top \in Calls(S) /\ IsWellPlaced(Top) /\ Top.t \in Types
  BY <1>1, TopIsCall DEF Calls
<1>3. CASE /\ Top.t \in DOMAIN pointees
           /\ Return(Classification("Undecided", pointees[Top.t]))
           /\ UNCHANGED pointees
  <2>1. IsMadeFromOne(Top.t) => pointees[Top.t] # NoType
    BY <1>2, <1>3 DEF IInv, Findings
  <2>2. /\ Sound(Classification("Undecided", pointees[Top.t]))
        /\ Classification("Undecided", pointees[Top.t]).pointee = pointees[Top.t]
    BY DEF Sound, IsIndirection, Classification
  <2>3. /\ IsStack(stack, S)' /\ HasPointee' /\ Sound(result)'
        /\ answers' = [t \in Types |-> answers'[t]]
        /\ \A t \in Types : \A c \in answers'[t] : Sound(c)
    BY <1>1, <1>3, <2>1, <2>2, Returning
  <2>4. Findings'
    BY <1>1, <1>3, <2>3 DEF IInv, Findings, IndirectionsHavePointees, Sound, IsMadeFromOne, Kind
  <2> QED
    BY <1>1, <2>3, <2>4 DEF IInv
<1>4. CASE /\ AsksBegin(Top.t)
           /\ pointees' = Guarded(Top.t)
           /\ Call([Top EXCEPT !.at = "begin"], "classify", ReturnType(Top.t, "begin"))
  <2> DEFINE f == [Top EXCEPT !.at = "begin"]
  <2>1. Kind(Top.t) = "class" /\ ReturnType(Top.t, "begin") \in Types
    BY <1>2, <1>4, BeginIsType
  <2>2. f \in Calls(S) /\ f.fn = Top.fn /\ f.t = Top.t /\ f.at = "begin"
    BY <1>2 DEF Calls
  <2>3. IsWellPlaced(f)
    BY <1>1, <2>1, <2>2 DEF IsWellPlaced
  <2>4. IsStack(stack, S)' /\ HasPointee' /\ UNCHANGED <<result, answers>>
    BY <1>1, <1>4, <2>1, <2>2, <2>3, Calling
  <2>5. \A t \in DOMAIN pointees' \cap Types : IsMadeFromOne(t) => pointees'[t] # NoType
    BY <1>4, <2>1 DEF Guarded, Assigned, IInv, Findings, IsMadeFromOne
  <2> QED
    BY <1>1, <2>4, <2>5, FindingNothing
<1>5. CASE ~AsksBegin(Top.t) /\ Settle(DirectPointee(Top.t))
  <2>1. IsMadeFromOne(Top.t) => DirectPointee(Top.t) # NoType
    BY <1>2, WorldsAssumption DEF IInv, IsMadeFromOne, Kind, DirectPointee
  <2> QED
    BY <1>1, <1>5, <2>1, Settling
<1> QED
  BY <1>3, <1>4, <1>5 DEF GetPointeeType

LEMMA ClassifyBeginKeeps == IInv /\ ClassifyBegin => IInv'
<1> SUFFICES ASSUME IInv, ClassifyBegin PROVE IInv'
  OBVIOUS
<1> PICK S : IsStack(stack, S) /\ \A c \in S : Sound(c)
  BY DEF IInv
<1>1. /\ stack # <<>> /\ Top.fn = "pointee" /\ Top.at = "begin"
      /\ UNCHANGED <<world, cache>>
  BY DEF ClassifyBegin, IsAt
<1>2. Top \in Calls(S) /\ IsWellPlaced(Top) /\ Top.t \in Types
  BY <1>1, TopIsCall DEF Calls
<1>3. Kind(Top.t) = "class" /\ ~IsMadeFromOne(Top.t)
  BY <1>1, <1>2 DEF IsWellPlaced, IsMadeFromOne
<1>4. CASE /\ Call([Top EXCEPT !.at = "element"], "classify", ReturnType(Top.t, "begin"))
           /\ UNCHANGED pointees
  <2> DEFINE f == [Top EXCEPT !.at = "element"]
  <2>1. ReturnType(Top.t, "begin") \in Types
    BY <1>1, <1>2 DEF IsWellPlaced
  <2>2. f \in Calls(S) /\ f.fn = Top.fn /\ f.t = Top.t /\ f.at = "element"
    BY <1>2 DEF Calls
  <2>3. IsWellPlaced(f)
    BY <1>1, <1>3, <2>1, <2>2 DEF IsWellPlaced
  <2>4. IsStack(stack, S)' /\ HasPointee' /\ UNCHANGED <<result, answers>>
    BY <1>1, <1>4, <2>1, <2>2, <2>3, Calling
  <2> QED
    BY <1>1, <1>4, <2>4, FindingNothing DEF IInv, Findings
<1>5. CASE Settle(FallBack(Top.t))
  BY <1>1, <1>3, <1>5, Settling
<1> QED
  BY <1>4, <1>5 DEF ClassifyBegin

LEMMA GetElementTypeKeeps == IInv /\ GetElementType => IInv'
<1> SUFFICES ASSUME IInv, GetElementType PROVE IInv'
  OBVIOUS
<1> PICK S : IsStack(stack, S) /\ \A c \in S : Sound(c)
  BY DEF IInv
<1>1. /\ stack # <<>> /\ Top.at = "element" /\ Settle(result.pointee)
      /\ UNCHANGED <<world, cache>>
  BY DEF GetElementType, IsAt
<1>2. ~IsMadeFromOne(Top.t)
  BY <1>1, TopIsCall DEF IsWellPlaced, IsMadeFromOne
<1> QED
  BY <1>1, <1>2, Settling

LEMMA NextKeeps == IInv /\ [Next]_vars => IInv'
<1> SUFFICES ASSUME IInv, [Next]_vars PROVE IInv'
  OBVIOUS
<1>1. CASE UNCHANGED vars
  BY <1>1 DEF vars, IInv, IsStack, IsChained, IsWellPlaced, Kind, ReturnType, HasPointee, Top, Findings,
              IndirectionsHavePointees, IsMadeFromOne
<1>2. CASE Step
  BY <1>2, ClassifyKeeps, ClassifyByPointeeKeeps, GetBaseClassificationKeeps, NoteBaseKeeps,
     GetPointeeTypeKeeps, ClassifyBeginKeeps, GetElementTypeKeeps DEF Step
<1>3. CASE Question
  BY <1>3, QuestionKeeps
<1> QED
  BY <1>1, <1>2, <1>3 DEF Next

-----------------------------------------------------------------------------
(* No type is ever taken for an Owner or a Pointer without a pointee       *)
(* (LifetimeTypeCategory.h:34), however its classes ask for each other and *)
(* in whatever order questions and definitions come.                       *)
THEOREM PointeesAreKnown == Spec => []IndirectionsHavePointees
<1>1. IInv => IndirectionsHavePointees
  BY DEF IInv, Findings
<1> QED
  BY <1>1, InitEstablishes, NextKeeps, PTL DEF Spec

-----------------------------------------------------------------------------
(* The answers are those of the rules.                                     *)

-----------------------------------------------------------------------------
(* The rules *)

(* What classes ask for are types. *)
LEMMA AsksForTypes ==
  ASSUME world \in Worlds, NEW t \in Types, Kind(t) = "class"
  PROVE  /\ AsksFor(t) \subseteq Types
         /\ world[t].bases \in Seq(Types) /\ Range(world[t].bases) \subseteq Types
         /\ AsksBegin(t) => ReturnType(t, "begin") \in Types
<1>1. /\ world[t].bases \in Seq(Types)
      /\ Declaring(world, t, "begin") # <<>> => ReturnTypeIn(world, t, "begin") \in Types
  BY WorldsAssumption DEF Kind
<1>2. Range(world[t].bases) \subseteq Types
  BY <1>1 DEF Range
<1>3. AsksBegin(t) => ReturnType(t, "begin") \in Types
  BY <1>1 DEF AsksBegin, HasMethodLike, ReturnType
<1> QED
  BY <1>1, <1>2, <1>3 DEF AsksFor

(* The categories there can be. *)
PointedTo ==
  {NoType, Void} \cup UNION {{DirectPointee(t), FallBack(t), world[t].owner, world[t].pointer} : t \in Types}
Tags ==
  {"Owner", "Pointer", "Aggregate", "Value", "Undecided"} \cup {world[t].ofTemplate : t \in Types}
Classifications == [tc : Tags, pointee : PointedTo]

LEMMA RulesClassify ==
  ASSUME world \in Worlds, NEW f \in [Types -> Classifications], NEW t \in Types
  PROVE  CategoryBy(f, t) \in Classifications
<1> DEFINE p == PointeeBy(f, t)
           bases == world[t].bases
           seen == [i \in DOMAIN bases |-> f[bases[i]]]
<1>1. \A tc \in Tags, o \in PointedTo : Classification(tc, o) \in Classifications
  BY DEF Classifications, Classification
<1>2. /\ {"Owner", "Pointer", "Aggregate", "Value", "Undecided", world[t].ofTemplate} \subseteq Tags
      /\ {NoType, Void, DirectPointee(t), FallBack(t), world[t].owner, world[t].pointer} \subseteq PointedTo
  BY DEF Tags, PointedTo
<1>3. p \in PointedTo
  <2>1. CASE ~AsksBegin(t)
    BY <1>2, <2>1 DEF PointeeBy
  <2>2. CASE AsksBegin(t)
    <3>1. f[ReturnType(t, "begin")] \in Classifications
      BY <2>2, AsksForTypes DEF AsksBegin, Kind
    <3> QED
      BY <1>2, <2>2, <3>1 DEF PointeeBy, Classifications
  <2> QED
    BY <2>1, <2>2
<1>4. KnownAtOnce(t) \in Classifications
  BY <1>1, <1>2 DEF KnownAtOnce
<1>5. Infer(t, p) \in Classifications
  <2>1. ClassifyStd(t) # {} => (CHOOSE tc \in ClassifyStd(t) : TRUE) = "Pointer"
    BY DEF ClassifyStd
  <2> HIDE DEF p
  <2> QED
    BY <1>1, <1>2, <1>3, <2>1 DEF Infer, Undecided
<1>6. Decide(t, p) \in Classifications
  <2>1. /\ ResolvePointerOrOwnerType(world[t].owner, p) \in PointedTo
        /\ ResolvePointerOrOwnerType(world[t].pointer, p) \in PointedTo
    BY <1>2, <1>3 DEF ResolvePointerOrOwnerType
  <2> HIDE DEF p
  <2> QED
    BY <1>1, <1>2, <1>3, <1>5, <2>1 DEF Decide, Undecided
<1>7. CASE Kind(t) = "class"
  <2>1. \A i \in DOMAIN bases : f[bases[i]] \in Classifications
    BY <1>7, AsksForTypes DEF Range
  <2>2. Range(seen) \subseteq Classifications
    <3> HIDE DEF bases
    <3> QED
      BY <2>1 DEF Range
  <2>3. OfBases(t, seen) \in Classifications
    <3> DEFINE indirections == {c \in Range(seen) : IsIndirection(c)}
    <3>1. Cardinality(indirections) = 1 => indirections # {}
      BY FS_EmptySet, SMT
    <3>2. Cardinality(indirections) = 1 => (CHOOSE c \in indirections : TRUE) \in indirections
      BY <3>1
    <3> HIDE DEF seen
    <3>3. indirections \subseteq Classifications
      BY <2>2
    <3> QED
      BY <1>1, <1>2, <3>2, <3>3 DEF OfBases
  <2> QED
    BY <1>4, <1>6, <2>3 DEF CategoryBy
<1>8. CASE Kind(t) # "class"
  <2>1. Kind(t) \in {"scalar", "pointer", "array"}
    BY <1>8, WorldsAssumption DEF Kind
  <2>2. IsKnownAtOnce(t) \/ Decide(t, p) # Undecided
    BY <2>1 DEF IsKnownAtOnce, Decide, Kind, Undecided, Classification
  <2> QED
    BY <1>4, <1>6, <2>2 DEF CategoryBy
<1> QED
  BY <1>7, <1>8

(* The rules for a type look at what it asks for. *)
AsksBefore == [t \in Types |-> IF Kind(t) = "class" THEN AsksFor(t) ELSE {}]

LEMMA RulesLookBack ==
  ASSUME world \in Worlds, NEW f, NEW g, NEW t \in Types, Agree(f, g, AsksBefore[t])
  PROVE  CategoryBy(f, t) = CategoryBy(g, t)
<1> DEFINE bases == world[t].bases
<1>1. PointeeBy(f, t) = PointeeBy(g, t)
  <2>1. CASE AsksBegin(t)
    <3>1. ReturnType(t, "begin") \in AsksBefore[t]
      BY <2>1 DEF AsksBefore, AsksFor, AsksBegin, Kind
    <3>2. f[ReturnType(t, "begin")] = g[ReturnType(t, "begin")]
      BY <3>1 DEF Agree
    <3> QED
      BY <3>2 DEF PointeeBy
  <2>2. CASE ~AsksBegin(t)
    BY <2>2 DEF PointeeBy
  <2> QED
    BY <2>1, <2>2
<1>2. CASE Kind(t) = "class"
  <2>1. \A i \in DOMAIN bases : bases[i] \in AsksBefore[t]
    BY <1>2 DEF AsksBefore, AsksFor, Range
  <2>2. [i \in DOMAIN bases |-> f[bases[i]]] = [i \in DOMAIN bases |-> g[bases[i]]]
    BY <2>1 DEF Agree
  <2> QED
    BY <1>1, <2>2 DEF CategoryBy
<1>3. CASE Kind(t) # "class"
  <2>1. Kind(t) \in {"scalar", "pointer", "array"}
    BY <1>3, WorldsAssumption DEF Kind
  <2>2. IsKnownAtOnce(t) \/ Decide(t, PointeeBy(f, t)) # Undecided
    BY <2>1 DEF IsKnownAtOnce, Decide, Kind, Undecided, Classification
  <2> QED
    BY <1>1, <2>2 DEF CategoryBy
<1> QED
  BY <1>2, <1>3

(* Layers are a well founded order. *)
LEMMA LayersAreWellFounded ==
  ASSUME IsLayered
  PROVE  IsWellFounded(Types, AsksBefore)
<1> SUFFICES ASSUME NEW T \in SUBSET Types, T # {}
             PROVE  \E t \in T : AsksBefore[t] \cap T = {}
  BY DEF IsWellFounded
<1>1. CASE T \subseteq Classes
  <2>1. PICK t \in T : AsksFor(t) \cap T = {}
    BY <1>1 DEF IsLayered
  <2> QED
    BY <1>1, <2>1 DEF AsksBefore, Classes, Kind
<1>2. CASE ~(T \subseteq Classes)
  BY <1>2 DEF AsksBefore, Classes, Kind
<1> QED
  BY <1>1, <1>2

(* The rules determine the categories. *)
IsByRules(C) == \A t \in Types : C[t] = CategoryBy(C, t)

LEMMA CategoryIsByRules ==
  ASSUME world \in Worlds, IsLayered
  PROVE  IsByRules(Category)
<1> DEFINE Step1 == [f \in [Types -> Classifications] |-> [t \in Types |-> CategoryBy(f, t)]]
           category[t \in Types] == CategoryBy(category, t)
<1>1. IsRecursion(Types, Classifications, AsksBefore, Step1)
  <2>1. AsksBefore \in [Types -> SUBSET Types]
    BY AsksForTypes DEF AsksBefore
  <2>2. Step1 \in [[Types -> Classifications] -> [Types -> Classifications]]
    BY RulesClassify
  <2>3. LooksBack(Types, Classifications, AsksBefore, Step1)
    <3> SUFFICES ASSUME NEW f \in [Types -> Classifications], NEW g \in [Types -> Classifications],
                        NEW t \in Types, Agree(f, g, AsksBefore[t])
                 PROVE  Step1[f][t] = Step1[g][t]
      BY DEF LooksBack
    <3> QED
      BY RulesLookBack
  <2>4. Classifications # {}
    <3>1. Classification("Value", NoType) \in Classifications
      BY DEF Classifications, Classification, Tags, PointedTo
    <3> QED
      BY <3>1
  <2> HIDE DEF Step1
  <2> QED
    BY <2>1, <2>2, <2>3, <2>4, LayersAreWellFounded DEF IsRecursion
<1>2. \E f : f = [t \in Types |-> CategoryBy(f, t)]
  <2>1. HasSolution(Types, Classifications, Step1)
    BY <1>1, RecursionHasSolution
  <2> QED
    BY <2>1 DEF HasSolution
<1>3. category = [t \in Types |-> CategoryBy(category, t)]
  BY <1>2, Zenon
<1>4. Category = category
  BY DEF Category
<1> HIDE DEF category
<1> QED
  BY <1>3, <1>4 DEF IsByRules

-----------------------------------------------------------------------------
(* The invariant *)

(* A call that waits for another waits for an answer it is asking for.     *)
Awaits(f, g) ==
  \/ f.at = "pointee" /\ g.fn = "pointee" /\ g.t = f.t
  \/ /\ f.at = "base" /\ g.fn = "classify"
     /\ g.t = world[f.t].bases[Len(f.seen) + 1]
  \/ f.at \in {"begin", "element"} /\ g.fn = "classify" /\ g.t = ReturnType(f.t, "begin")
IsChain(s) == \A i \in 1..(Len(s) - 1) : Awaits(s[i], s[i + 1])

(* Where a call has got to, C being the categories by the rules.           *)
IsUnderWay(C, f) ==
  /\ f.at \in {"pointee", "bases", "base"} => ~IsKnownAtOnce(f.t)
  /\ f.at \in {"bases", "base"} =>
       /\ Decide(f.t, PointeeBy(C, f.t)) = Undecided
       /\ Len(f.seen) <= Len(world[f.t].bases)
       /\ \A i \in 1..Len(f.seen) : f.seen[i] = C[world[f.t].bases[i]]
  /\ f.at = "base" => Len(f.seen) + 1 \in DOMAIN world[f.t].bases
  /\ f.at = "start" => f.seen = <<>>
  /\ f.at = "pointee" => f.seen = <<>>
  /\ f.at \in {"begin", "element"} => AsksBegin(f.t)
  /\ f.at = "element" => C[ReturnType(f.t, "begin")].tc = "Pointer"

(* What the call f finds in result is what it has asked for.               *)
HasAnswer(C, f, r) ==
  /\ f.at = "pointee" => r.pointee = PointeeBy(C, f.t)
  /\ f.at = "base" => r = C[world[f.t].bases[Len(f.seen) + 1]]
  /\ f.at \in {"begin", "element"} => r = C[ReturnType(f.t, "begin")]

(* A pointee that is not right is being looked for.                        *)
IsLookedFor(s, t) ==
  \E i \in 1..Len(s) : s[i].fn = "pointee" /\ s[i].at \in {"begin", "element"} /\ s[i].t = t

StackIsRight(C, s) ==
  /\ s # <<>> => s[1].fn = "classify"
  /\ IsChain(s)
  /\ \A i \in 1..Len(s) : IsUnderWay(C, s[i])
TablesAreRight(C, s, known, ps, given) ==
  /\ \A t \in DOMAIN known : known[t] = C[t]
  /\ \A t \in DOMAIN ps : ps[t] = PointeeBy(C, t) \/ IsLookedFor(s, t)
  /\ \A t \in Types : \A c \in given[t] : c = C[t]

AllIsRight(C, s, r, known, ps, given) ==
  /\ StackIsRight(C, s)
  /\ s # <<>> => HasAnswer(C, Last(s), r)
  /\ TablesAreRight(C, s, known, ps, given)
IsRight(C) == AllIsRight(C, stack, result, cache, pointees, answers)

(* No class is spoken of before it is defined. *)
NoneIsEarly == \A t \in Classes : ~world[t].early

CInv ==
  /\ IInv
  /\ NoneIsEarly => complete = Classes
  /\ NoneIsEarly /\ IsLayered => \A C : IsByRules(C) => IsRight(C)

-----------------------------------------------------------------------------
(* The stack *)

LEMMA ContinuedShape ==
  ASSUME NEW S, IsStack(stack, S), stack # <<>>, NEW f \in Calls(S)
  PROVE  /\ Continued(f) \in Seq(Calls(S))
         /\ Len(Continued(f)) = Len(stack)
         /\ \A i \in 1..(Len(stack) - 1) : Continued(f)[i] = stack[i]
         /\ Continued(f)[Len(stack)] = f
<1>1. Front(stack) \in Seq(Calls(S)) /\ Len(stack) \in Nat \ {0} /\ Len(Front(stack)) = Len(stack) - 1
      /\ \A i \in 1..(Len(stack) - 1) : Front(stack)[i] = stack[i]
  BY FrontIsStack, TopIsCall DEF IsStack
<1>2. /\ Append(Front(stack), f) \in Seq(Calls(S))
      /\ Len(Append(Front(stack), f)) = Len(Front(stack)) + 1
      /\ \A i \in 1..Len(Front(stack)) : Append(Front(stack), f)[i] = Front(stack)[i]
      /\ Append(Front(stack), f)[Len(Front(stack)) + 1] = f
  BY <1>1, AppendProperties
<1> QED
  BY <1>1, <1>2 DEF Continued

LEMMA CalledShape ==
  ASSUME NEW S, IsStack(stack, S), stack # <<>>, NEW f \in Calls(S), NEW g \in Calls(S)
  PROVE  /\ Append(Continued(f), g) \in Seq(Calls(S))
         /\ Len(Append(Continued(f), g)) = Len(stack) + 1
         /\ \A i \in 1..(Len(stack) - 1) : Append(Continued(f), g)[i] = stack[i]
         /\ Append(Continued(f), g)[Len(stack)] = f
         /\ Append(Continued(f), g)[Len(stack) + 1] = g
<1>1. Len(stack) \in Nat \ {0}
  BY TopIsCall
<1>2. /\ Append(Continued(f), g) \in Seq(Calls(S))
      /\ Len(Append(Continued(f), g)) = Len(Continued(f)) + 1
      /\ \A i \in 1..Len(Continued(f)) : Append(Continued(f), g)[i] = Continued(f)[i]
      /\ Append(Continued(f), g)[Len(Continued(f)) + 1] = g
  BY ContinuedShape, AppendProperties
<1> QED
  BY <1>1, <1>2, ContinuedShape

(* What a call waits for is asked for by its type, unless it is for the    *)
(* type itself.                                                            *)
LEMMA AwaitedIsAskedFor ==
  ASSUME world \in Worlds, NEW S, IsStack(stack, S), NEW C, StackIsRight(C, stack),
         NEW i \in 1..(Len(stack) - 1)
  PROVE  /\ stack[i].t \in Types
         /\ \/ /\ stack[i].at = "pointee"
               /\ stack[i + 1].fn = "pointee" /\ stack[i + 1].t = stack[i].t
            \/ /\ stack[i].at # "pointee"
               /\ stack[i + 1].t \in AsksBefore[stack[i].t]
<1>1. stack[i] \in Calls(S) /\ IsWellPlaced(stack[i]) /\ IsUnderWay(C, stack[i])
  BY DEF IsStack, StackIsRight
<1>2. Awaits(stack[i], stack[i + 1])
  BY DEF StackIsRight, IsChain
<1>3. stack[i].t \in Types
  BY <1>1 DEF Calls
<1>4. CASE stack[i].at = "base"
  <2> DEFINE bases == world[stack[i].t].bases
             k == Len(stack[i].seen) + 1
  <2>1. Kind(stack[i].t) = "class" /\ k \in DOMAIN bases /\ stack[i + 1].t = bases[k]
    BY <1>1, <1>2, <1>4 DEF IsWellPlaced, IsUnderWay, Awaits
  <2>2. stack[i + 1].t \in Range(bases)
    <3> HIDE DEF bases, k
    <3> QED
      BY <2>1 DEF Range
  <2> QED
    BY <1>3, <1>4, <2>1, <2>2 DEF AsksBefore, AsksFor
<1>5. CASE stack[i].at \in {"begin", "element"}
  <2>1. Kind(stack[i].t) = "class" /\ AsksBegin(stack[i].t)
        /\ stack[i + 1].t = ReturnType(stack[i].t, "begin")
    BY <1>1, <1>2, <1>5 DEF IsWellPlaced, IsUnderWay, Awaits
  <2> QED
    BY <1>3, <1>5, <2>1 DEF AsksBefore, AsksFor
<1> QED
  BY <1>2, <1>3, <1>4, <1>5 DEF Awaits

(* A type whose pointee is looked for is not asked about again meanwhile.  *)
LEMMA NothingRecurs ==
  ASSUME world \in Worlds, IsLayered, NEW S, IsStack(stack, S), NEW C, StackIsRight(C, stack),
         NEW i \in 1..(Len(stack) - 1), stack[i].at \in {"begin", "element"}
  PROVE  stack[Len(stack)].t # stack[i].t
<1> DEFINE n == Len(stack)
           T == {stack[k].t : k \in i..n}
<1>1. n \in Nat /\ i \in 1..(n - 1) /\ \A k \in 1..n : stack[k] \in Calls(S) /\ IsWellPlaced(stack[k])
  BY DEF IsStack
<1>2. T \in SUBSET Types /\ T # {}
  BY <1>1 DEF Calls
<1>3. PICK k \in i..n : AsksBefore[stack[k].t] \cap T = {}
  <2>1. \E x \in T : AsksBefore[x] \cap T = {}
    <3> HIDE DEF T
    <3> QED
      BY <1>2, LayersAreWellFounded DEF IsWellFounded
  <2> QED
    BY <2>1
<1>4. ASSUME NEW l \in i..(n - 1), stack[l].t = stack[k].t
      PROVE  stack[l].at = "pointee" /\ stack[l + 1].fn = "pointee" /\ stack[l + 1].t = stack[k].t
  <2>1. l \in 1..(n - 1) /\ l + 1 \in i..n
    BY <1>1
  <2>2. stack[l + 1].t \notin AsksBefore[stack[l].t]
    BY <1>3, <1>4, <2>1
  <2> QED
    BY <1>4, <2>1, <2>2, AwaitedIsAskedFor
<1>5. stack[n].t = stack[k].t
  <2> SUFFICES ASSUME k # n PROVE stack[n].t = stack[k].t
    OBVIOUS
  <2>1. k \in i..(n - 1) /\ k + 1 \in i..n /\ k + 1 \in 1..n
    BY <1>1
  <2>2. stack[k + 1].fn = "pointee" /\ stack[k + 1].t = stack[k].t
    BY <1>4, <2>1
  <2>3. k + 1 \notin i..(n - 1)
    <3> SUFFICES ASSUME k + 1 \in i..(n - 1) PROVE FALSE
      OBVIOUS
    <3>1. stack[k + 1].at = "pointee"
      BY <1>4, <2>2
    <3>2. stack[k + 1].fn = "classify"
      BY <1>1, <2>1, <3>1 DEF IsWellPlaced
    <3> QED
      BY <2>2, <3>2
  <2>4. k + 1 = n
    BY <1>1, <2>1, <2>3
  <2> QED
    BY <2>2, <2>4
<1>6. stack[i].at # "pointee"
  OBVIOUS
<1>7. i \in i..(n - 1)
  BY <1>1
<1> QED
  BY <1>4, <1>5, <1>6, <1>7

-----------------------------------------------------------------------------
(* Calls and returns *)

StepIsRight(C) == AllIsRight(C, stack', result', cache', pointees', answers')

(* A call that waits and the one it makes; *)
LEMMA CallingIsRight ==
  ASSUME NEW S, IsStack(stack, S), stack # <<>>, NEW C, IsRight(C),
         NEW f \in Calls(S), f.fn = Top.fn, f.t = Top.t, IsUnderWay(C, f),
         Top.at \in {"begin", "element"} => f.at \in {"begin", "element"},
         NEW fn \in {"classify", "pointee"}, NEW t \in Types, Call(f, fn, t), Awaits(f, Frame(fn, t)),
         cache' = cache,
         \A x \in DOMAIN pointees' : \/ x \in DOMAIN pointees /\ pointees'[x] = pointees[x]
                                     \/ x = Top.t /\ f.fn = "pointee" /\ f.at \in {"begin", "element"}
  PROVE  StepIsRight(C)
<1> DEFINE g == Frame(fn, t)
           s == Append(Continued(f), g)
           n == Len(stack)
<1>1. g \in Calls(S) /\ IsUnderWay(C, g) /\ HasAnswer(C, g, result)
  BY EmptySeq DEF Frame, Calls, IsUnderWay, HasAnswer
<1>2. stack' = s /\ result' = result /\ answers' = answers
  BY DEF Call
<1>3. /\ n \in Nat \ {0} /\ Len(s) = n + 1
      /\ \A i \in 1..(n - 1) : s[i] = stack[i]
      /\ s[n] = f /\ s[n + 1] = g
  BY <1>1, TopIsCall, CalledShape
<1>4. stack[n] = Top
  BY TopIsCall
<1>5. StackIsRight(C, stack)
  BY DEF IsRight, AllIsRight
<1> HIDE DEF s, g
<1>6. IsChain(s)
  <2> SUFFICES ASSUME NEW i \in 1..n PROVE Awaits(s[i], s[i + 1])
    BY <1>3 DEF IsChain
  <2>1. CASE i = n
    BY <1>3, <2>1 DEF g
  <2>2. CASE i = n - 1
    <3>1. Awaits(stack[i], Top)
      BY <1>3, <1>4, <1>5, <2>2 DEF StackIsRight, IsChain
    <3> QED
      BY <1>3, <2>2, <3>1 DEF Awaits
  <2>3. CASE i \in 1..(n - 2)
    <3>1. Awaits(stack[i], stack[i + 1])
      BY <1>3, <1>5, <2>3 DEF StackIsRight, IsChain
    <3> QED
      BY <1>3, <2>3, <3>1
  <2> QED
    BY <1>3, <2>1, <2>2, <2>3
<1>7. StackIsRight(C, s)
  <2>1. \A i \in 1..Len(s) : IsUnderWay(C, s[i])
    BY <1>1, <1>3, <1>5 DEF StackIsRight
  <2>2. s[1].fn = "classify"
    BY <1>3, <1>4, <1>5 DEF StackIsRight
  <2> QED
    BY <1>6, <2>1, <2>2 DEF StackIsRight
<1>8. \A x : IsLookedFor(stack, x) => IsLookedFor(s, x)
  <2> SUFFICES ASSUME NEW x, NEW i \in 1..n,
                      stack[i].fn = "pointee", stack[i].at \in {"begin", "element"}, stack[i].t = x
               PROVE  IsLookedFor(s, x)
    BY DEF IsLookedFor
  <2>1. s[i].fn = "pointee" /\ s[i].at \in {"begin", "element"} /\ s[i].t = x
    BY <1>3, <1>4
  <2> QED
    BY <1>3, <2>1 DEF IsLookedFor
<1>9. f.fn = "pointee" /\ f.at \in {"begin", "element"} => IsLookedFor(s, Top.t)
  BY <1>3 DEF IsLookedFor
<1>10. TablesAreRight(C, s, cache', pointees', answers')
  BY <1>2, <1>8, <1>9 DEF IsRight, AllIsRight, TablesAreRight
<1>11. Last(s) = g
  BY <1>3 DEF Last
<1> QED
  BY <1>1, <1>2, <1>7, <1>10, <1>11 DEF StepIsRight, AllIsRight

(* a call that goes on; *)
LEMMA GoingOnIsRight ==
  ASSUME NEW S, IsStack(stack, S), stack # <<>>, NEW C, IsRight(C),
         NEW f \in Calls(S), f.fn = Top.fn, f.t = Top.t, IsUnderWay(C, f),
         f.at = "bases", Top.at \notin {"begin", "element"},
         stack' = Continued(f), UNCHANGED <<result, cache, pointees, answers>>
  PROVE  StepIsRight(C)
<1> DEFINE s == Continued(f)
           n == Len(stack)
<1>1. /\ n \in Nat \ {0} /\ Len(s) = n
      /\ \A i \in 1..(n - 1) : s[i] = stack[i]
      /\ s[n] = f
  BY TopIsCall, ContinuedShape
<1>2. stack[n] = Top
  BY TopIsCall
<1>3. StackIsRight(C, stack)
  BY DEF IsRight, AllIsRight
<1> HIDE DEF s
<1>4. IsChain(s)
  <2> SUFFICES ASSUME NEW i \in 1..(n - 1) PROVE Awaits(s[i], s[i + 1])
    BY <1>1 DEF IsChain
  <2>1. Awaits(stack[i], stack[i + 1])
    BY <1>3 DEF StackIsRight, IsChain
  <2>2. CASE i = n - 1
    BY <1>1, <1>2, <2>1, <2>2 DEF Awaits
  <2>3. CASE i \in 1..(n - 2)
    BY <1>1, <2>1, <2>3
  <2> QED
    BY <1>1, <2>2, <2>3
<1>5. StackIsRight(C, s)
  <2>1. \A i \in 1..Len(s) : IsUnderWay(C, s[i])
    BY <1>1, <1>3 DEF StackIsRight
  <2>2. s[1].fn = "classify"
    BY <1>1, <1>2, <1>3 DEF StackIsRight
  <2> QED
    BY <1>4, <2>1, <2>2 DEF StackIsRight
<1>6. \A x : IsLookedFor(stack, x) => IsLookedFor(s, x)
  <2> SUFFICES ASSUME NEW x, NEW i \in 1..n,
                      stack[i].fn = "pointee", stack[i].at \in {"begin", "element"}, stack[i].t = x
               PROVE  IsLookedFor(s, x)
    BY DEF IsLookedFor
  <2>1. i # n
    BY <1>2
  <2>2. s[i] = stack[i] /\ i \in 1..Len(s)
    BY <1>1, <2>1
  <2> QED
    BY <2>2 DEF IsLookedFor
<1>7. TablesAreRight(C, s, cache', pointees', answers')
  BY <1>6 DEF IsRight, AllIsRight, TablesAreRight
<1>8. Last(s) = f /\ HasAnswer(C, f, result')
  BY <1>1 DEF Last, HasAnswer
<1> QED
  BY <1>5, <1>7, <1>8 DEF StepIsRight, AllIsRight, s

(* a call that ends: of the others none is lost.                           *)
LEMMA StillLookedFor ==
  ASSUME NEW S, IsStack(stack, S), stack # <<>>,
         NEW t, IsLookedFor(stack, t), Top.fn = "classify" \/ t # Top.t
  PROVE  IsLookedFor(Front(stack), t)
<1>1. Top = stack[Len(stack)] /\ Len(stack) \in Nat \ {0}
  BY TopIsCall
<1>2. PICK i \in 1..Len(stack) :
        stack[i].fn = "pointee" /\ stack[i].at \in {"begin", "element"} /\ stack[i].t = t
  BY DEF IsLookedFor
<1>3. i \in 1..(Len(stack) - 1)
  BY <1>1, <1>2
<1>4. Front(stack)[i] = stack[i] /\ i \in 1..Len(Front(stack))
  BY <1>1, <1>3, FrontIsStack
<1> QED
  BY <1>2, <1>4 DEF IsLookedFor

LEMMA ReturningIsRight ==
  ASSUME IInv, NEW S, IsStack(stack, S), stack # <<>>, NEW C, IsRight(C),
         NEW value, Return(value),
         Top.fn = "classify" => value = C[Top.t],
         Top.fn = "pointee" => value.pointee = PointeeBy(C, Top.t),
         \A t \in DOMAIN cache' : cache'[t] = C[t],
         \A t \in DOMAIN pointees' : pointees'[t] = PointeeBy(C, t) \/ IsLookedFor(Front(stack), t)
  PROVE  StepIsRight(C)
<1> DEFINE s == Front(stack)
           n == Len(stack)
<1>1. /\ n \in Nat \ {0} /\ Len(s) = n - 1
      /\ \A i \in 1..(n - 1) : s[i] = stack[i]
      /\ s \in Seq(Calls(S))
  BY TopIsCall, FrontIsStack DEF IsStack
<1>2. stack[n] = Top /\ Top.t \in Types /\ Top.fn \in {"classify", "pointee"}
  BY TopIsCall DEF Calls
<1>3. StackIsRight(C, stack)
  BY DEF IsRight, AllIsRight
<1>4. /\ stack' = s /\ result' = value
      /\ answers' = IF n = 1 THEN [answers EXCEPT ![Top.t] = @ \cup {value}] ELSE answers
  BY DEF Return
<1> HIDE DEF s
<1>5. StackIsRight(C, s)
  <2>1. IsChain(s)
    BY <1>1, <1>3 DEF StackIsRight, IsChain
  <2>2. s # <<>> => Len(s) # 0
    BY <1>1, EmptySeq
  <2>3. s # <<>> => s[1].fn = "classify"
    BY <1>1, <1>3, <2>2, EmptySeq DEF StackIsRight
  <2> QED
    BY <1>1, <1>3, <2>1, <2>3 DEF StackIsRight
<1>6. s # <<>> => HasAnswer(C, Last(s), value)
  <2> SUFFICES ASSUME s # <<>> PROVE HasAnswer(C, Last(s), value)
    OBVIOUS
  <2>1. n - 1 \in 1..(n - 1)
    BY <1>1, EmptySeq
  <2>2. Last(s) = stack[n - 1]
    BY <1>1, <2>1 DEF Last
  <2>3. Awaits(stack[n - 1], Top)
    BY <1>1, <1>2, <1>3, <2>1 DEF StackIsRight, IsChain
  <2> QED
    BY <2>2, <2>3 DEF Awaits, HasAnswer
<1>7. \A t \in Types : \A c \in answers'[t] : c = C[t]
  <2>1. \A t \in Types : \A c \in answers[t] : c = C[t]
    BY DEF IsRight, AllIsRight, TablesAreRight
  <2>2. CASE n = 1
    <3>1. value = C[Top.t]
      BY <1>2, <1>3, <2>2, EmptySeq DEF StackIsRight
    <3>2. answers = [t \in Types |-> answers[t]]
      BY DEF IInv, Findings
    <3>3. \A t \in Types : answers'[t] = IF t = Top.t THEN answers[t] \cup {value} ELSE answers[t]
      BY <1>4, <2>2, <3>2
    <3>4. ASSUME NEW t \in Types, NEW c \in answers'[t] PROVE c = C[t]
      <4>1. c \in answers[t] \/ (t = Top.t /\ c = value)
        BY <3>3, <3>4
      <4> QED
        BY <2>1, <3>1, <4>1
    <3> QED
      BY <3>4
  <2>3. CASE n # 1
    BY <1>4, <2>1, <2>3
  <2> QED
    BY <2>2, <2>3
<1>8. TablesAreRight(C, s, cache', pointees', answers')
  BY <1>7 DEF TablesAreRight, s
<1> QED
  BY <1>4, <1>5, <1>6, <1>8 DEF StepIsRight, AllIsRight

(* A call for a category that ends leaves the pointees alone, *)
LEMMA AnsweringIsRight ==
  ASSUME IInv, stack # <<>>, NEW C, IsRight(C),
         Return(C[Top.t]), Top.fn = "classify",
         \A t \in DOMAIN cache' : cache'[t] = C[t], UNCHANGED pointees
  PROVE  StepIsRight(C)
<1> PICK S : IsStack(stack, S)
  BY DEF IInv
<1>1. Top = stack[Len(stack)] /\ Len(stack) \in Nat \ {0} /\ IsWellPlaced(Top)
  BY TopIsCall
<1>2. \A t \in DOMAIN pointees : pointees[t] = PointeeBy(C, t) \/ IsLookedFor(stack, t)
  BY DEF IsRight, AllIsRight, TablesAreRight
<1>3. \A t : IsLookedFor(stack, t) => IsLookedFor(Front(stack), t)
  BY StillLookedFor
<1> QED
  BY <1>2, <1>3, ReturningIsRight

LEMMA ConcludingIsRight ==
  ASSUME IInv, stack # <<>>, NEW C, IsRight(C), Conclude(C[Top.t]), Top.fn = "classify",
         UNCHANGED pointees
  PROVE  StepIsRight(C)
<1>1. cache' = Emplaced(cache, Top.t, C[Top.t]) /\ Return(C[Top.t])
  BY DEF Conclude
<1>2. \A t \in DOMAIN cache : cache[t] = C[t]
  BY DEF IsRight, AllIsRight, TablesAreRight
<1>3. \A t \in DOMAIN cache' : cache'[t] = C[t]
  BY <1>1, <1>2 DEF Emplaced, Assigned
<1> QED
  BY <1>1, <1>3, AnsweringIsRight

(* and one for a pointee that ends settles it.                             *)
LEMMA SettlingIsRight ==
  ASSUME IInv, stack # <<>>, NEW C, IsRight(C), Settle(PointeeBy(C, Top.t)), Top.fn = "pointee",
         UNCHANGED cache
  PROVE  StepIsRight(C)
<1> PICK S : IsStack(stack, S)
  BY DEF IInv
<1>1. \A t \in DOMAIN pointees : pointees[t] = PointeeBy(C, t) \/ IsLookedFor(stack, t)
  BY DEF IsRight, AllIsRight, TablesAreRight
<1>2. \A t : IsLookedFor(stack, t) /\ t # Top.t => IsLookedFor(Front(stack), t)
  BY StillLookedFor
<1> DEFINE p == PointeeBy(C, Top.t)
           value == Classification("Undecided", p)
<1>3. pointees' = Assigned(pointees, Top.t, p) /\ Return(value) /\ value.pointee = p
  BY DEF Settle, Classification
<1>4. \A t \in DOMAIN pointees' : pointees'[t] = PointeeBy(C, t) \/ IsLookedFor(Front(stack), t)
  BY <1>1, <1>2, <1>3 DEF Assigned
<1>5. \A t \in DOMAIN cache' : cache'[t] = C[t]
  BY DEF IsRight, AllIsRight, TablesAreRight
<1> HIDE DEF value, p
<1> QED
  BY <1>3, <1>4, <1>5, ReturningIsRight DEF p

-----------------------------------------------------------------------------
(* The steps *)

LEMMA ClassifyIsRight ==
  ASSUME IInv, NEW C, IsByRules(C), IsRight(C), Classify
  PROVE  StepIsRight(C)
<1> PICK S : IsStack(stack, S)
  BY DEF IInv
<1>1. stack # <<>> /\ Top.fn = "classify" /\ Top.at = "start" /\ UNCHANGED pointees
  BY DEF Classify, IsAt
<1>2. Top \in Calls(S) /\ Top.t \in Types /\ IsUnderWay(C, Top)
  BY <1>1, TopIsCall DEF Calls, IsRight, AllIsRight, StackIsRight
<1>3. \A t \in DOMAIN cache : cache[t] = C[t]
  BY DEF IsRight, AllIsRight, TablesAreRight
<1>4. CASE Top.t \in DOMAIN cache /\ Return(cache[Top.t]) /\ UNCHANGED cache
  BY <1>1, <1>3, <1>4, AnsweringIsRight
<1>5. CASE IsKnownAtOnce(Top.t) /\ Conclude(KnownAtOnce(Top.t))
  <2>1. C[Top.t] = KnownAtOnce(Top.t)
    BY <1>2, <1>5 DEF IsByRules, CategoryBy
  <2> QED
    BY <1>1, <1>5, <2>1, ConcludingIsRight
<1>6. CASE /\ ~IsKnownAtOnce(Top.t)
           /\ Call([Top EXCEPT !.at = "pointee"], "pointee", Top.t)
           /\ UNCHANGED cache
  <2> DEFINE f == [Top EXCEPT !.at = "pointee"]
  <2>1. f \in Calls(S) /\ f.fn = Top.fn /\ f.t = Top.t /\ f.at = "pointee" /\ f.seen = Top.seen
    BY <1>2 DEF Calls
  <2> HIDE DEF f
  <2>2. IsUnderWay(C, f)
    BY <1>1, <1>2, <1>6, <2>1 DEF IsUnderWay
  <2>3. Awaits(f, Frame("pointee", Top.t))
    BY <2>1 DEF Awaits, Frame
  <2>4. Call(f, "pointee", Top.t)
    BY <1>6 DEF f
  <2> QED
    BY <1>1, <1>2, <1>6, <2>1, <2>2, <2>3, <2>4, CallingIsRight
<1> QED
  BY <1>4, <1>5, <1>6 DEF Classify

LEMMA ClassifyByPointeeIsRight ==
  ASSUME IInv, NEW C, IsByRules(C), IsRight(C), ClassifyByPointee
  PROVE  StepIsRight(C)
<1> PICK S : IsStack(stack, S)
  BY DEF IInv
<1> DEFINE decided == Decide(Top.t, result.pointee)
<1>1. stack # <<>> /\ Top.fn = "classify" /\ Top.at = "pointee" /\ UNCHANGED pointees
  BY DEF ClassifyByPointee, IsAt
<1>2. Top \in Calls(S) /\ Top.t \in Types /\ IsUnderWay(C, Top)
  BY <1>1, TopIsCall DEF Calls, IsRight, AllIsRight, StackIsRight
<1>3. result.pointee = PointeeBy(C, Top.t)
  BY <1>1 DEF IsRight, AllIsRight, HasAnswer, Top
<1>4. ~IsKnownAtOnce(Top.t) /\ Top.seen = <<>>
  BY <1>1, <1>2 DEF IsUnderWay
<1>5. CASE decided # Undecided /\ Conclude(decided)
  <2>1. C[Top.t] = decided
    BY <1>2, <1>3, <1>4, <1>5 DEF IsByRules, CategoryBy
  <2> QED
    BY <1>1, <1>5, <2>1, ConcludingIsRight
<1>6. CASE /\ decided = Undecided
           /\ stack' = Continued([Top EXCEPT !.at = "bases"])
           /\ UNCHANGED <<cache, result, answers>>
  <2> DEFINE f == [Top EXCEPT !.at = "bases"]
  <2>1. f \in Calls(S) /\ f.fn = Top.fn /\ f.t = Top.t /\ f.at = "bases" /\ f.seen = <<>>
    BY <1>2, <1>4 DEF Calls
  <2>2. Kind(Top.t) = "class"
    <3>1. Kind(Top.t) \notin {"array", "pointer", "scalar"}
      BY <1>4, <1>6 DEF Decide, Undecided, Classification, Kind, IsKnownAtOnce
    <3> QED
      BY <1>2, <3>1, WorldsAssumption DEF IInv, Kind
  <2>3. Len(world[Top.t].bases) \in Nat
    BY <1>2, <2>2, AsksForTypes DEF IInv
  <2> HIDE DEF f
  <2>4. IsUnderWay(C, f)
    <3>1. Len(f.seen) = 0
      BY <2>1
    <3>2. ~IsKnownAtOnce(f.t) /\ Decide(f.t, PointeeBy(C, f.t)) = Undecided
      BY <1>3, <1>4, <1>6, <2>1
    <3>3. Len(f.seen) <= Len(world[f.t].bases) /\ \A i \in 1..Len(f.seen) : FALSE
      BY <2>1, <2>3, <3>1
    <3> QED
      BY <2>1, <3>2, <3>3 DEF IsUnderWay
  <2> QED
    BY <1>1, <1>6, <2>1, <2>4, GoingOnIsRight DEF f
<1> QED
  BY <1>5, <1>6 DEF ClassifyByPointee

LEMMA GetBaseClassificationIsRight ==
  ASSUME IInv, NEW C, IsByRules(C), IsRight(C), GetBaseClassification
  PROVE  StepIsRight(C)
<1> PICK S : IsStack(stack, S)
  BY DEF IInv
<1>1. stack # <<>> /\ Top.fn = "classify" /\ Top.at = "bases" /\ UNCHANGED pointees
  BY DEF GetBaseClassification, IsAt
<1>2. Top \in Calls(S) /\ Top.t \in Types /\ IsUnderWay(C, Top) /\ Top.seen \in Seq(S) /\ IsWellPlaced(Top)
  BY <1>1, TopIsCall DEF Calls, IsRight, AllIsRight, StackIsRight
<1> DEFINE bases == world[Top.t].bases
<1>3. bases \in Seq(Types) /\ Len(bases) \in Nat /\ DOMAIN bases = 1..Len(bases) /\ Len(Top.seen) \in Nat
  BY <1>1, <1>2, AsksForTypes DEF IInv, IsWellPlaced
<1>4. /\ ~IsKnownAtOnce(Top.t)
      /\ Decide(Top.t, PointeeBy(C, Top.t)) = Undecided
      /\ Len(Top.seen) <= Len(bases)
      /\ \A i \in 1..Len(Top.seen) : Top.seen[i] = C[bases[i]]
  BY <1>1, <1>2 DEF IsUnderWay
<1>5. CASE /\ MoreBases(Top.t, Top.seen)
           /\ Call([Top EXCEPT !.at = "base"], "classify", bases[Len(Top.seen) + 1])
           /\ UNCHANGED cache
  <2> DEFINE f == [Top EXCEPT !.at = "base"]
             base == bases[Len(Top.seen) + 1]
  <2>1. f \in Calls(S) /\ f.fn = Top.fn /\ f.t = Top.t /\ f.at = "base" /\ f.seen = Top.seen
    BY <1>2 DEF Calls
  <2>2. Len(Top.seen) + 1 \in 1..Len(bases)
    BY <1>3, <1>5 DEF MoreBases
  <2>3. base \in Types
    BY <1>3, <2>2
  <2> HIDE DEF f, base
  <2>4. IsUnderWay(C, f)
    BY <1>3, <1>4, <2>1, <2>2 DEF IsUnderWay
  <2>5. Awaits(f, Frame("classify", base))
    BY <1>3, <2>1, <2>2 DEF Awaits, Frame, base
  <2>6. Call(f, "classify", base)
    BY <1>5 DEF f, base
  <2> QED
    BY <1>1, <1>5, <2>1, <2>3, <2>4, <2>5, <2>6, CallingIsRight
<1>6. CASE ~MoreBases(Top.t, Top.seen) /\ Conclude(OfBases(Top.t, Top.seen))
  <2>1. Len(Top.seen) = Len(bases)
    BY <1>3, <1>4, <1>6 DEF MoreBases
  <2>2. Top.seen = [i \in DOMAIN bases |-> C[bases[i]]]
    BY <1>2, <1>3, <1>4, <2>1
  <2>3. C[Top.t] = OfBases(Top.t, Top.seen)
    BY <1>2, <1>4, <2>2 DEF IsByRules, CategoryBy
  <2> QED
    BY <1>1, <1>6, <2>3, ConcludingIsRight
<1> QED
  BY <1>5, <1>6 DEF GetBaseClassification

LEMMA NoteBaseIsRight ==
  ASSUME IInv, NEW C, IsByRules(C), IsRight(C), NoteBase
  PROVE  StepIsRight(C)
<1> PICK R : IsStack(stack, R)
  BY DEF IInv
<1> PICK S : S = R \cup {result}
  OBVIOUS
<1> DEFINE f == [Top EXCEPT !.at = "bases", !.seen = Append(@, result)]
<1>1. /\ stack # <<>> /\ Top.fn = "classify" /\ Top.at = "base"
      /\ UNCHANGED <<world, result, cache, pointees, answers>>
      /\ stack' = Continued(f)
  BY DEF NoteBase, IsAt
<1>2. IsStack(stack, S)
  <2>1. Seq(R) \subseteq Seq(S)
    BY SeqMonotonic
  <2>2. Calls(R) \subseteq Calls(S)
    BY <2>1 DEF Calls
  <2>3. Seq(Calls(R)) \subseteq Seq(Calls(S))
    BY <2>2, SeqMonotonic
  <2> QED
    BY <2>3 DEF IsStack
<1>3. Top \in Calls(S) /\ Top.t \in Types /\ IsUnderWay(C, Top) /\ IsWellPlaced(Top) /\ Top.seen \in Seq(S)
  BY <1>1, <1>2, TopIsCall DEF Calls, IsRight, AllIsRight, StackIsRight
<1> DEFINE bases == world[Top.t].bases
           seen == Append(Top.seen, result)
<1>4. /\ seen \in Seq(S) /\ Len(seen) = Len(Top.seen) + 1 /\ Len(Top.seen) \in Nat
      /\ \A i \in 1..Len(Top.seen) : seen[i] = Top.seen[i]
      /\ seen[Len(Top.seen) + 1] = result
  BY <1>3, AppendProperties
<1>5. f \in Calls(S) /\ f.fn = Top.fn /\ f.t = Top.t /\ f.at = "bases" /\ f.seen = seen
  BY <1>3, <1>4 DEF Calls
<1> HIDE DEF f, seen
<1>6. result = C[bases[Len(Top.seen) + 1]]
  BY <1>1 DEF IsRight, AllIsRight, HasAnswer, Top
<1>7. Len(bases) \in Nat /\ DOMAIN bases = 1..Len(bases)
  BY <1>1, <1>3, AsksForTypes DEF IInv, IsWellPlaced
<1>8. IsUnderWay(C, f)
  <2>1. ~IsKnownAtOnce(Top.t) /\ Decide(Top.t, PointeeBy(C, Top.t)) = Undecided
    BY <1>1, <1>3 DEF IsUnderWay
  <2>2. Len(seen) <= Len(bases)
    BY <1>1, <1>3, <1>4, <1>7 DEF IsUnderWay
  <2>3. \A i \in 1..Len(seen) : seen[i] = C[bases[i]]
    <3>1. \A i \in 1..Len(Top.seen) : Top.seen[i] = C[bases[i]]
      BY <1>1, <1>3 DEF IsUnderWay
    <3> QED
      BY <1>4, <1>6, <3>1
  <2> QED
    BY <1>5, <2>1, <2>2, <2>3 DEF IsUnderWay
<1> QED
  BY <1>1, <1>2, <1>5, <1>8, GoingOnIsRight

LEMMA GetPointeeTypeIsRight ==
  ASSUME IInv, IsLayered, NEW C, IsByRules(C), IsRight(C), GetPointeeType
  PROVE  StepIsRight(C)
<1> PICK S : IsStack(stack, S)
  BY DEF IInv
<1>1. stack # <<>> /\ Top.fn = "pointee" /\ Top.at = "start" /\ UNCHANGED cache
  BY DEF GetPointeeType, IsAt
<1>2. Top \in Calls(S) /\ Top.t \in Types /\ IsUnderWay(C, Top)
  BY <1>1, TopIsCall DEF Calls, IsRight, AllIsRight, StackIsRight
<1>3. Top = stack[Len(stack)] /\ Len(stack) \in Nat \ {0}
  BY <1>1, TopIsCall
<1>4. /\ \A t \in DOMAIN pointees : pointees[t] = PointeeBy(C, t) \/ IsLookedFor(stack, t)
      /\ \A t \in DOMAIN cache : cache[t] = C[t]
      /\ StackIsRight(C, stack)
  BY DEF IsRight, AllIsRight, TablesAreRight
<1>5. CASE /\ Top.t \in DOMAIN pointees
           /\ Return(Classification("Undecided", pointees[Top.t]))
           /\ UNCHANGED pointees
  <2>1. ~IsLookedFor(stack, Top.t)
    <3> SUFFICES ASSUME NEW i \in 1..Len(stack), stack[i].at \in {"begin", "element"}, stack[i].t = Top.t
                 PROVE  FALSE
      BY DEF IsLookedFor
    <3>1. i \in 1..(Len(stack) - 1)
      BY <1>1, <1>3
    <3> QED
      BY <1>3, <1>4, <3>1, NothingRecurs DEF IInv
  <2>2. pointees[Top.t] = PointeeBy(C, Top.t)
    BY <1>4, <1>5, <2>1
  <2>3. \A t \in DOMAIN pointees : IsLookedFor(stack, t) => IsLookedFor(Front(stack), t)
    BY <1>1, <2>1, StillLookedFor
  <2>4. \A t \in DOMAIN pointees' : pointees'[t] = PointeeBy(C, t) \/ IsLookedFor(Front(stack), t)
    BY <1>4, <1>5, <2>3
  <2> DEFINE value == Classification("Undecided", pointees[Top.t])
  <2>5. value.pointee = PointeeBy(C, Top.t) /\ Return(value)
    BY <1>5, <2>2 DEF Classification
  <2> HIDE DEF value
  <2> QED
    BY <1>1, <1>4, <2>4, <2>5, ReturningIsRight
<1>6. CASE /\ AsksBegin(Top.t)
           /\ Top.t \notin DOMAIN pointees
           /\ pointees' = Guarded(Top.t)
           /\ Call([Top EXCEPT !.at = "begin"], "classify", ReturnType(Top.t, "begin"))
  <2> DEFINE f == [Top EXCEPT !.at = "begin"]
             begin == ReturnType(Top.t, "begin")
  <2>1. f \in Calls(S) /\ f.fn = Top.fn /\ f.t = Top.t /\ f.at = "begin"
    BY <1>2 DEF Calls
  <2>2. begin \in Types
    BY <1>2, <1>6, AsksForTypes DEF IInv, AsksBegin, Kind
  <2> HIDE DEF f, begin
  <2>3. IsUnderWay(C, f)
    BY <1>6, <2>1 DEF IsUnderWay
  <2>4. Awaits(f, Frame("classify", begin))
    BY <2>1 DEF Awaits, Frame, begin
  <2>5. Call(f, "classify", begin)
    BY <1>6 DEF f, begin
  <2>6. \A x \in DOMAIN pointees' : \/ x \in DOMAIN pointees /\ pointees'[x] = pointees[x]
                                   \/ x = Top.t
    BY <1>6 DEF Guarded, Assigned
  <2> QED
    BY <1>1, <2>1, <2>2, <2>3, <2>4, <2>5, <2>6, CallingIsRight
<1>7. CASE ~AsksBegin(Top.t) /\ Settle(DirectPointee(Top.t))
  <2>1. PointeeBy(C, Top.t) = DirectPointee(Top.t)
    BY <1>7 DEF PointeeBy
  <2> QED
    BY <1>1, <1>7, <2>1, SettlingIsRight
<1> QED
  BY <1>5, <1>6, <1>7 DEF GetPointeeType

LEMMA ClassifyBeginIsRight ==
  ASSUME IInv, NEW C, IsByRules(C), IsRight(C), ClassifyBegin
  PROVE  StepIsRight(C)
<1> PICK S : IsStack(stack, S)
  BY DEF IInv
<1> DEFINE begin == ReturnType(Top.t, "begin")
<1>1. stack # <<>> /\ Top.fn = "pointee" /\ Top.at = "begin" /\ UNCHANGED cache
  BY DEF ClassifyBegin, IsAt
<1>2. Top \in Calls(S) /\ Top.t \in Types /\ IsUnderWay(C, Top) /\ IsWellPlaced(Top)
  BY <1>1, TopIsCall DEF Calls, IsRight, AllIsRight, StackIsRight
<1>3. AsksBegin(Top.t) /\ begin \in Types
  BY <1>1, <1>2 DEF IsUnderWay, IsWellPlaced
<1>4. result = C[begin]
  BY <1>1 DEF IsRight, AllIsRight, HasAnswer, Top
<1>5. CASE /\ result.tc = "Pointer"
           /\ Call([Top EXCEPT !.at = "element"], "classify", begin)
           /\ UNCHANGED pointees
  <2> DEFINE f == [Top EXCEPT !.at = "element"]
  <2>1. f \in Calls(S) /\ f.fn = Top.fn /\ f.t = Top.t /\ f.at = "element"
    BY <1>2 DEF Calls
  <2> HIDE DEF f
  <2>2. IsUnderWay(C, f)
    BY <1>3, <1>4, <1>5, <2>1 DEF IsUnderWay
  <2>3. Awaits(f, Frame("classify", begin))
    BY <2>1 DEF Awaits, Frame
  <2>4. Call(f, "classify", begin)
    BY <1>5 DEF f
  <2> HIDE DEF begin
  <2> QED
    BY <1>1, <1>3, <1>5, <2>1, <2>2, <2>3, <2>4, CallingIsRight
<1>6. CASE result.tc # "Pointer" /\ Settle(FallBack(Top.t))
  <2>1. PointeeBy(C, Top.t) = FallBack(Top.t)
    BY <1>3, <1>4, <1>6 DEF PointeeBy
  <2> QED
    BY <1>1, <1>6, <2>1, SettlingIsRight
<1> QED
  BY <1>5, <1>6 DEF ClassifyBegin

LEMMA GetElementTypeIsRight ==
  ASSUME IInv, NEW C, IsByRules(C), IsRight(C), GetElementType
  PROVE  StepIsRight(C)
<1> PICK S : IsStack(stack, S)
  BY DEF IInv
<1>1. stack # <<>> /\ Top.fn = "pointee" /\ Top.at = "element" /\ UNCHANGED cache
      /\ Settle(result.pointee)
  BY DEF GetElementType, IsAt
<1>2. IsUnderWay(C, Top)
  BY <1>1, TopIsCall DEF IsRight, AllIsRight, StackIsRight
<1>3. result = C[ReturnType(Top.t, "begin")]
  BY <1>1 DEF IsRight, AllIsRight, HasAnswer, Top
<1>4. PointeeBy(C, Top.t) = result.pointee
  BY <1>1, <1>2, <1>3 DEF IsUnderWay, PointeeBy
<1> QED
  BY <1>1, <1>4, SettlingIsRight

(* A question begins where nothing is under way. *)
LEMMA AskIsRight ==
  ASSUME NEW C, IsRight(C), NEW t, Ask(t)
  PROVE  StepIsRight(C)
<1> DEFINE f == Frame("classify", t)
<1>1. stack = <<>> /\ stack' = <<f>> /\ UNCHANGED <<result, cache, pointees, answers>>
  BY DEF Ask
<1>2. f.fn = "classify" /\ f.at = "start" /\ f.seen = <<>>
  BY DEF Frame
<1> HIDE DEF f
<1>3. IsUnderWay(C, f) /\ HasAnswer(C, f, result)
  BY <1>2 DEF IsUnderWay, HasAnswer
<1>4. StackIsRight(C, <<f>>) /\ Last(<<f>>) = f
  BY <1>2, <1>3 DEF StackIsRight, IsChain, Last
<1>5. \A x : ~IsLookedFor(stack, x)
  BY <1>1 DEF IsLookedFor
<1>6. TablesAreRight(C, <<f>>, cache, pointees, answers)
  BY <1>5 DEF IsRight, AllIsRight, TablesAreRight
<1> QED
  BY <1>1, <1>3, <1>4, <1>6 DEF StepIsRight, AllIsRight

-----------------------------------------------------------------------------
(* The rules stay the same while the program does. *)

LEMMA RulesStay ==
  ASSUME world' = world, complete' = complete
  PROVE  /\ \A t : IsKnownAtOnce(t)' <=> IsKnownAtOnce(t)
         /\ \A t : AsksBegin(t)' <=> AsksBegin(t)
         /\ \A t : ReturnType(t, "begin")' = ReturnType(t, "begin")
         /\ \A t, p : Decide(t, p)' = Decide(t, p)
         /\ \A C, t : PointeeBy(C, t)' = PointeeBy(C, t)
         /\ \A C, t : CategoryBy(C, t)' = CategoryBy(C, t)
<1>1. \A t : IsKnownAtOnce(t)' <=> IsKnownAtOnce(t)
  BY DEF IsKnownAtOnce
<1>2. \A t : AsksBegin(t)' <=> AsksBegin(t)
  BY DEF AsksBegin, IsVectorBoolReference, HasMethodLike
<1>3. \A t, m : ReturnType(t, m)' = ReturnType(t, m)
  BY DEF ReturnType
<1>4. \A t, p : Decide(t, p)' = Decide(t, p)
  <2>1. \A t, p : Infer(t, p)' = Infer(t, p)
    <3>1. \A t : /\ SatisfiesContainerRequirements(t)' <=> SatisfiesContainerRequirements(t)
                 /\ HasDerefOperations(t)' <=> HasDerefOperations(t)
                 /\ SatisfiesRangeConcept(t)' <=> SatisfiesRangeConcept(t)
                 /\ SatisfiesIteratorRequirements(t)' <=> SatisfiesIteratorRequirements(t)
      BY DEF SatisfiesContainerRequirements, HasDerefOperations, SatisfiesRangeConcept,
             SatisfiesIteratorRequirements, IsIterable, HasMethodLike
    <3>2. \A t : ClassifyStd(t)' = ClassifyStd(t)
      BY DEF ClassifyStd, IsVectorBoolReference
    <3> SUFFICES ASSUME NEW t, NEW p PROVE Infer(t, p)' = Infer(t, p)
      OBVIOUS
    <3>3. CASE world[t].ofTemplate # Absent
      BY <3>3 DEF Infer
    <3>4. CASE world[t].ofTemplate = Absent /\ ClassifyStd(t) # {}
      <4>1. ClassifyStd(t) = {"Pointer"} /\ ClassifyStd(t)' = {"Pointer"}
        BY <3>2, <3>4 DEF ClassifyStd
      <4>2. Infer(t, p) = Classification(CHOOSE tc \in {"Pointer"} : TRUE, p)
        BY <3>4, <4>1, Zenon DEF Infer
      <4>3. Infer(t, p)' = Classification(CHOOSE tc \in {"Pointer"} : TRUE, p)
        BY <3>4, <4>1, Zenon DEF Infer
      <4> QED
        BY <4>2, <4>3
    <3>5. CASE world[t].ofTemplate = Absent /\ ClassifyStd(t) = {}
      BY <3>1, <3>2, <3>5 DEF Infer
    <3> QED
      BY <3>3, <3>4, <3>5
  <2> QED
    BY <2>1 DEF Decide
<1>5. \A t : DirectPointee(t)' = DirectPointee(t) /\ FallBack(t)' = FallBack(t)
  <2>1. \A t : FallBack(t)' = FallBack(t)
    BY DEF FallBack
  <2>2. \A t : PointeeOfClass(t)' = PointeeOfClass(t)
    BY <2>1, <1>3 DEF PointeeOfClass, IsVectorBoolReference, Stripped
  <2> QED
    BY <2>1, <2>2 DEF DirectPointee
<1>6. \A C, t : PointeeBy(C, t)' = PointeeBy(C, t)
  BY <1>2, <1>3, <1>5 DEF PointeeBy
<1>7. \A C, t : CategoryBy(C, t)' = CategoryBy(C, t)
  <2>1. \A t, seen : OfBases(t, seen)' = OfBases(t, seen)
    BY DEF OfBases
  <2>2. \A t : KnownAtOnce(t)' = KnownAtOnce(t)
    BY DEF KnownAtOnce
  <2> QED
    BY <1>1, <1>4, <1>6, <2>1, <2>2 DEF CategoryBy
<1> QED
  BY <1>1, <1>2, <1>3, <1>4, <1>6, <1>7

LEMMA RightStays ==
  ASSUME world' = world, complete' = complete, NEW C, StepIsRight(C)
  PROVE  IsRight(C)'
<1>1. \A f : IsUnderWay(C, f)' <=> IsUnderWay(C, f)
  BY RulesStay DEF IsUnderWay
<1>2. \A f, g : Awaits(f, g)' <=> Awaits(f, g)
  BY RulesStay DEF Awaits
<1>3. \A f, r : HasAnswer(C, f, r)' <=> HasAnswer(C, f, r)
  BY RulesStay DEF HasAnswer
<1>4. StackIsRight(C, stack)'
  BY <1>1, <1>2 DEF StepIsRight, AllIsRight, StackIsRight, IsChain
<1>5. TablesAreRight(C, stack, cache, pointees, answers)'
  BY RulesStay DEF StepIsRight, AllIsRight, TablesAreRight, IsLookedFor
<1>6. (stack # <<>> => HasAnswer(C, Last(stack), result))'
  BY <1>3 DEF StepIsRight, AllIsRight
<1> QED
  BY <1>4, <1>5, <1>6 DEF IsRight, AllIsRight

-----------------------------------------------------------------------------
(* The theorem *)

LEMMA InitIsRight == Init => CInv
<1> SUFFICES ASSUME Init PROVE CInv
  OBVIOUS
<1>1. IInv
  BY InitEstablishes
<1>2. NoneIsEarly => complete = Classes
  BY DEF Init, NoneIsEarly
<1>3. ASSUME NEW C PROVE IsRight(C)
  <2>1. StackIsRight(C, stack)
    BY DEF Init, StackIsRight, IsChain
  <2>2. TablesAreRight(C, stack, cache, pointees, answers)
    BY DEF Init, TablesAreRight
  <2> QED
    BY <2>1, <2>2 DEF Init, IsRight, AllIsRight
<1> QED
  BY <1>1, <1>2, <1>3 DEF CInv

LEMMA NextIsRight == CInv /\ [Next]_vars => CInv'
<1> SUFFICES ASSUME CInv, [Next]_vars PROVE CInv'
  OBVIOUS
<1>1. IInv /\ IInv'
  BY NextKeeps DEF CInv
<1>2. world' = world
  BY DEF Next, Step, Question, Classify, ClassifyByPointee, GetBaseClassification, NoteBase, GetPointeeType,
         ClassifyBegin, GetElementType, Ask, Define, vars
<1>3. Classes' = Classes /\ (NoneIsEarly' <=> NoneIsEarly)
  BY <1>2 DEF Classes, NoneIsEarly
<1>4. IsLayered' <=> IsLayered
  <2>1. \A t : AsksFor(t)' = AsksFor(t)
    BY <1>2 DEF AsksFor, AsksBegin, IsVectorBoolReference, HasMethodLike, ReturnType
  <2> QED
    BY <1>3, <2>1 DEF IsLayered
<1>5. NoneIsEarly => complete' = complete
  BY DEF CInv, Next, Step, Question, Classify, ClassifyByPointee, GetBaseClassification, NoteBase, GetPointeeType,
         ClassifyBegin, GetElementType, Ask, Define, vars
<1>6. ASSUME NoneIsEarly, IsLayered, NEW C, IsByRules(C)'
      PROVE  IsRight(C)'
  <2>1. complete' = complete
    BY <1>5, <1>6
  <2>2. IsByRules(C)
    BY <1>2, <1>6, <2>1, RulesStay DEF IsByRules
  <2>3. IsRight(C)
    BY <1>6, <2>2 DEF CInv
  <2>4. StepIsRight(C)
    <3>1. CASE UNCHANGED vars
      BY <2>3, <3>1 DEF vars, StepIsRight, IsRight
    <3>2. CASE Step
      BY <1>1, <1>6, <2>2, <2>3, <3>2, ClassifyIsRight, ClassifyByPointeeIsRight,
         GetBaseClassificationIsRight, NoteBaseIsRight, GetPointeeTypeIsRight, ClassifyBeginIsRight,
         GetElementTypeIsRight DEF Step
    <3>3. CASE \E t \in Asked : Ask(t)
      BY <2>3, <3>3, AskIsRight
    <3>4. CASE \E t \in Classes : Define(t)
      BY <1>6, <3>4 DEF Define, CInv
    <3> QED
      BY <3>1, <3>2, <3>3, <3>4 DEF Next, Question
  <2> QED
    BY <1>2, <2>1, <2>4, RightStays
<1> QED
  BY <1>1, <1>3, <1>4, <1>5, <1>6 DEF CInv

(* Whatever the analysis asks for, and in whichever order, each answer of  *)
(* classifyTypeCategory (LifetimeTypeCategory.cpp:303) is the category     *)
(* that the rules give to the type, when no class of the program is spoken *)
(* of before it is defined.                                                *)
THEOREM CategoriesAreCurrent == Spec => [](NoneIsEarly => AnswersAreCurrent)
<1>1. CInv => (NoneIsEarly => AnswersAreCurrent)
  <2> SUFFICES ASSUME CInv, NoneIsEarly, IsLayered
               PROVE  \A t \in Types : \A c \in answers[t] : c = Category[t]
    BY DEF AnswersAreCurrent
  <2>1. world \in Worlds
    BY DEF CInv, IInv
  <2>2. IsRight(Category)
    BY <2>1, CategoryIsByRules DEF CInv
  <2> QED
    BY <2>2 DEF IsRight, AllIsRight, TablesAreRight
<1> QED
  BY <1>1, InitIsRight, NextIsRight, PTL DEF Spec

=============================================================================
