----------------------------- MODULE Recursion -----------------------------
(***************************************************************************)
(* Recursive definitions over a well founded order.  A function f that is  *)
(* defined by recursion is one with f = Step[f]; there is one when the     *)
(* value of Step[f] at x depends on the values of f at Before[x] only, and *)
(* every set has a member with none of the others before it.               *)
(***************************************************************************)
EXTENDS TLAPS

IsWellFounded(S, Before) == \A T \in SUBSET S : T # {} => \E x \in T : Before[x] \cap T = {}

Agree(f, g, T) == \A x \in T : f[x] = g[x]
LooksBack(S, V, Before, Step) ==
  \A f, g \in [S -> V] : \A x \in S : Agree(f, g, Before[x]) => Step[f][x] = Step[g][x]

IsRecursion(S, V, Before, Step) ==
  /\ V # {}
  /\ Before \in [S -> SUBSET S]
  /\ Step \in [[S -> V] -> [S -> V]]
  /\ IsWellFounded(S, Before)
  /\ LooksBack(S, V, Before, Step)
HasSolution(S, V, Step) == \E f \in [S -> V] : f = Step[f]

(* f is right on a set that is closed under going back. *)
IsRightOn(f, D, Before, Step) ==
  \A x \in D : Before[x] \subseteq D /\ f[x] = Step[f][x]

(* Two such functions agree where both are right. *)
LEMMA RightAgree ==
  ASSUME NEW S, NEW V, NEW Before, NEW Step,
         IsWellFounded(S, Before), LooksBack(S, V, Before, Step),
         NEW f \in [S -> V], NEW D \in SUBSET S, IsRightOn(f, D, Before, Step),
         NEW g \in [S -> V], NEW E \in SUBSET S, IsRightOn(g, E, Before, Step)
  PROVE  Agree(f, g, D \cap E)
<1> DEFINE T == {x \in D \cap E : f[x] # g[x]}
<1> SUFFICES ASSUME T # {} PROVE FALSE
  BY DEF Agree
<1>1. PICK x \in T : Before[x] \cap T = {}
  BY DEF IsWellFounded
<1>2. Agree(f, g, Before[x])
  BY <1>1 DEF Agree, IsRightOn
<1>3. Step[f][x] = Step[g][x]
  BY <1>2 DEF LooksBack
<1> QED
  BY <1>3 DEF IsRightOn

(* A recursive definition is a definition: all functions that are right    *)
(* somewhere make up one that is right everywhere.                         *)
THEOREM RecursionHasSolution ==
  ASSUME NEW S, NEW V, NEW Before, NEW Step, IsRecursion(S, V, Before, Step)
  PROVE  HasSolution(S, V, Step)
<1> USE DEF IsRecursion
<1> DEFINE Right(f, D) == IsRightOn(f, D, Before, Step)
           Settled(x, v) == \E g \in [S -> V] : \E D \in SUBSET S : Right(g, D) /\ x \in D /\ v = g[x]
           U == {x \in S : \E v \in V : Settled(x, v)}
           h == [x \in S |-> IF x \in U THEN CHOOSE v \in V : Settled(x, v) ELSE CHOOSE v \in V : TRUE]
<1>1. h \in [S -> V]
  OBVIOUS
<1>2. ASSUME NEW g \in [S -> V], NEW D \in SUBSET S, Right(g, D)
      PROVE  D \subseteq U /\ Agree(h, g, D)
  <2> SUFFICES ASSUME NEW x \in D PROVE x \in U /\ h[x] = g[x]
    BY DEF Agree
  <2>1. x \in S /\ g[x] \in V /\ Settled(x, g[x])
    BY <1>2
  <2>2. x \in U
    BY <2>1
  <2>3. h[x] \in V /\ Settled(x, h[x])
    <3> HIDE DEF Settled
    <3> QED
      BY <2>1, <2>2
  <2>4. PICK f \in [S -> V], E \in SUBSET S : Right(f, E) /\ x \in E /\ h[x] = f[x]
    BY <2>3
  <2>5. Agree(f, g, E \cap D)
    BY <1>2, <2>4, RightAgree
  <2> QED
    BY <2>2, <2>4, <2>5 DEF Agree
<1>3. Right(h, U)
  <2> SUFFICES ASSUME NEW x \in U PROVE Before[x] \subseteq U /\ h[x] = Step[h][x]
    BY DEF IsRightOn
  <2>1. PICK g \in [S -> V], D \in SUBSET S : Right(g, D) /\ x \in D
    OBVIOUS
  <2>2. D \subseteq U /\ Agree(h, g, D)
    BY <1>2, <2>1
  <2>3. Before[x] \subseteq D /\ g[x] = Step[g][x]
    BY <2>1 DEF IsRightOn
  <2>4. Agree(h, g, Before[x])
    BY <2>2, <2>3 DEF Agree
  <2> HIDE DEF h, U
  <2>5. x \in S
    BY <2>1
  <2>6. Step[h][x] = Step[g][x]
    BY <1>1, <2>4, <2>5 DEF LooksBack
  <2> QED
    BY <2>1, <2>2, <2>3, <2>6 DEF Agree
<1>4. U = S
  <2> SUFFICES ASSUME S \ U # {} PROVE FALSE
    OBVIOUS
  <2>1. PICK x \in S \ U : Before[x] \cap (S \ U) = {}
    BY DEF IsWellFounded
  <2> DEFINE g == [h EXCEPT ![x] = Step[h][x]]
             D == U \cup {x}
  <2> HIDE DEF h, U
  <2>2. h \in [S -> V] /\ g \in [S -> V] /\ U \subseteq S
    BY <1>1, <1>2 DEF U
  <2>3. Agree(g, h, U)
    BY <2>1, <2>2 DEF Agree
  <2>4. Before[x] \subseteq U
    BY <2>1
  <2>5. ASSUME NEW y \in D PROVE Before[y] \subseteq D /\ g[y] = Step[g][y]
    <3>1. Before[y] \subseteq U
      BY <1>3, <2>4 DEF IsRightOn
    <3>2. Step[g][y] = Step[h][y]
      <4>1. Agree(g, h, Before[y])
        BY <2>3, <3>1 DEF Agree
      <4>2. y \in S
        BY <2>1, <2>2
      <4> HIDE DEF g
      <4> QED
        BY <2>2, <4>1, <4>2 DEF LooksBack
    <3>3. g[y] = Step[h][y]
      <4>1. CASE y = x
        BY <2>2, <4>1
      <4>2. CASE y # x
        BY <1>3, <2>2, <2>3, <4>2 DEF IsRightOn, Agree
      <4> QED
        BY <4>1, <4>2
    <3> QED
      BY <3>1, <3>2, <3>3
  <2>6. Right(g, D)
    BY <2>5 DEF IsRightOn
  <2>7. D \in SUBSET S
    BY <2>1, <2>2
  <2>8. D \subseteq U
    <3> HIDE DEF g, D, Right
    <3> QED
      BY <1>2, <2>2, <2>6, <2>7
  <2> QED
    BY <2>1, <2>8
<1>5. h = Step[h]
  <2> HIDE DEF h, U
  <2>1. Step[h] \in [S -> V]
    BY <1>1
  <2>2. \A x \in S : h[x] = Step[h][x]
    BY <1>3, <1>4 DEF IsRightOn
  <2> QED
    BY <1>1, <2>1, <2>2
<1> QED
  BY <1>1, <1>5 DEF HasSolution
=============================================================================
