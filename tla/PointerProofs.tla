--------------------------- MODULE PointerProofs ----------------------------
(***************************************************************************)
(* Blocks of a pointer program, visited by the analysis and run: whatever  *)
(* the analysis knows of the variables on entry holds of them on the edge  *)
(* that control leaves by, or else what goes wrong has been told of.       *)
(***************************************************************************)
EXTENDS TransferProofs

-----------------------------------------------------------------------------
(* Folds over the elements of a block, one step at a time.                 *)

(* What the elements of a block make of the state on entry to it.          *)
VisitElements(f, start, elems) ==
  LET Take(s, e) == CHOOSE t \in {VisitElement(f, s, e)} : t = t
  IN  FoldLeft(Take, start, elems)

(* The states on the way.                                                  *)
InOrder(f, start, elems, n, r) ==
  /\ r[0] = start
  /\ r[n] = VisitElements(f, start, elems)
  /\ \A i \in 0..(n - 1) : r[i + 1] = VisitElement(f, r[i], elems[i + 1])

(* A visit takes the elements one after the other.                         *)
LEMMA VisitsInOrder ==
  ASSUME NEW f, NEW start, NEW n \in Nat, NEW elems, DOMAIN elems = 1..n
  PROVE  \E r : InOrder(f, start, elems, n, r)
<1> DEFINE Take(s, e) == CHOOSE t \in {VisitElement(f, s, e)} : t = t
           Folded(it, s) == IF s = {} THEN start
                          ELSE LET x == Max(s) IN Take(it[s \ {x}], elems[x])
           Right(it, k) == it = [s \in SUBSET (1..k) |-> Folded(it, s)]
           T == {k \in 0..n : \E it : Right(it, k)}
<1>1. 0 \in T
  <2> DEFINE it == [s \in SUBSET (1..0) |-> start]
  <2>1. Right(it, 0)
    OBVIOUS
  <2> HIDE DEF Right, it
  <2> QED
    BY <2>1
<1>2. ASSUME NEW k \in 0..(n - 1), k \in T PROVE k + 1 \in T
  <2>1. PICK it : Right(it, k)
    BY <1>2
  <2> DEFINE next == [s \in SUBSET (1..(k + 1)) |-> Folded(it, s)]
  <2>2. ASSUME NEW s \in SUBSET (1..k) PROVE next[s] = it[s]
    <3>1. it[s] = Folded(it, s)
      BY <2>1
    <3>2. s \in SUBSET (1..(k + 1))
      OBVIOUS
    <3> HIDE DEF Folded
    <3> QED
      BY <3>1, <3>2
  <2>3. ASSUME NEW s \in SUBSET (1..(k + 1)) PROVE Folded(next, s) = Folded(it, s)
    <3>1. CASE s = {}
      BY <3>1
    <3>2. CASE s # {}
      <4>1. s \ {Max(s)} \in SUBSET (1..k)
        BY <3>2, MaxOfSubset
      <4>2. next[s \ {Max(s)}] = it[s \ {Max(s)}]
        BY <2>2, <4>1
      <4> HIDE DEF next, Take
      <4> QED
        BY <4>2
    <3> QED
      BY <3>1, <3>2
  <2>4. Right(next, k + 1)
    <3> HIDE DEF Folded
    <3> QED
      BY <2>3
  <2> HIDE DEF Right
  <2> QED
    BY <2>4
<1>3. PICK it : Right(it, n)
  <2> HIDE DEF Right
  <2>1. 0..n \subseteq T
    <3> HIDE DEF T
    <3> QED
      BY <1>1, <1>2, UpTo
  <2> QED
    BY <2>1
<1> DEFINE iter == CHOOSE g : Right(g, n)
           r == [i \in 0..n |-> iter[1..i]]
<1>4. Right(iter, n)
  <2> HIDE DEF Right
  <2> QED
    BY <1>3
<1>5. VisitElements(f, start, elems) = iter[1..n]
  <2>1. FoldLeft(Take, start, elems) = iter[1..n]
    <3> HIDE DEF Take
    <3> QED
      BY DEF FoldLeft, MapThenFoldSet
  <2>2. VisitElements(f, start, elems) = FoldLeft(Take, start, elems)
    BY DEF VisitElements
  <2> HIDE DEF Take, iter
  <2> QED
    BY <2>1, <2>2
<1>6. r[0] = start /\ r[n] = iter[1..n]
  <2>1. 1..0 = {} /\ {} \in SUBSET (1..n)
    OBVIOUS
  <2>2. iter[{}] = Folded(iter, {})
    <3> HIDE DEF iter, Folded
    <3> QED
      BY <1>4, <2>1
  <2> HIDE DEF iter
  <2> QED
    BY <2>1, <2>2
<1>7. ASSUME NEW i \in 0..(n - 1) PROVE r[i + 1] = VisitElement(f, r[i], elems[i + 1])
  <2>1. 1..(i + 1) \in SUBSET (1..n) /\ 1..(i + 1) # {}
    <3>1. i + 1 \in 1..(i + 1) /\ i + 1 <= n
      OBVIOUS
    <3>2. \A x \in 1..(i + 1) : x \in 1..n
      BY <3>1
    <3> QED
      BY <3>1, <3>2
  <2>2. Max(1..(i + 1)) = i + 1 /\ (1..(i + 1)) \ {i + 1} = 1..i
    BY MaxOfInterval
  <2>3. iter[1..(i + 1)] = Folded(iter, 1..(i + 1))
    <3> HIDE DEF iter, Folded
    <3> QED
      BY <1>4, <2>1
  <2>4. Folded(iter, 1..(i + 1)) = Take(iter[1..i], elems[i + 1])
    <3> HIDE DEF iter, Take
    <3> QED
      BY <2>1, <2>2
  <2>5. Take(iter[1..i], elems[i + 1]) = VisitElement(f, iter[1..i], elems[i + 1])
    OBVIOUS
  <2> HIDE DEF iter, Take, Folded
  <2> QED
    BY <2>3, <2>4, <2>5
<1> HIDE DEF r, iter
<1>8. InOrder(f, start, elems, n, r)
  BY <1>5, <1>6, <1>7 DEF InOrder
<1> QED
  BY <1>8

(* What element i of block b makes of machine m (RunBlock).                *)
RunElement(b, m, i) ==
  LET elems == F.elems[b]
      n == F.nodes[elems[i]]
      Outcomes == IF n.k \in {"CallExpr", "CXXMemberCallExpr"} THEN CallOutcomes(m, elems[i], n)
                  ELSE {Element(m, elems[i])}
      AtEnd == i = Len(elems) \/ F.nodes[elems[i + 1]].loc # n.loc
  IN  IF m.outcome # "running" THEN {m}
      ELSE {IF AtEnd THEN EndStatement(st) ELSE st : st \in Outcomes}

RunElements(b, ms, i) == UNION {RunElement(b, m, i) : m \in ms}

StartOfBlock == [store |-> store, vals |-> vals, test |-> test, outcome |-> "running", at |-> at]

(* RunBlock goes through them in order. *)
Runs(b, r) ==
  LET n == Len(F.elems[b])
  IN  /\ r[0] = {StartOfBlock}
      /\ r[n] = RunBlock(b)
      /\ \A i \in 0..(n - 1) : r[i + 1] = RunElements(b, r[i], i + 1)

(* A fold over the elements of a block takes them one by one.              *)
LEMMA RunsInOrder ==
  ASSUME NEW b, NEW n \in Nat, n = Len(F.elems[b]), DOMAIN F.elems[b] = 1..n
  PROVE  \E r : Runs(b, r)
<1> DEFINE start == {StartOfBlock}
           seq == [i \in DOMAIN F.elems[b] |-> i]
           Step(ms, i) == UNION {RunElement(b, m, i) : m \in ms}
           Folded(it, s) == IF s = {} THEN start
                          ELSE LET x == Max(s) IN Step(it[s \ {x}], seq[x])
           Right(it, k) == it = [s \in SUBSET (1..k) |-> Folded(it, s)]
           T == {k \in 0..n : \E it : Right(it, k)}
<1>1. 0 \in T
  <2> DEFINE it == [s \in SUBSET (1..0) |-> start]
  <2>1. Right(it, 0)
    OBVIOUS
  <2> HIDE DEF Right, it
  <2> QED
    BY <2>1
<1>2. ASSUME NEW k \in 0..(n - 1), k \in T PROVE k + 1 \in T
  <2>1. PICK it : Right(it, k)
    BY <1>2
  <2> DEFINE next == [s \in SUBSET (1..(k + 1)) |-> Folded(it, s)]
  <2>2. ASSUME NEW s \in SUBSET (1..k) PROVE next[s] = it[s]
    <3>1. it[s] = Folded(it, s)
      BY <2>1
    <3>2. s \in SUBSET (1..(k + 1))
      OBVIOUS
    <3> HIDE DEF Folded
    <3> QED
      BY <3>1, <3>2
  <2>3. ASSUME NEW s \in SUBSET (1..(k + 1)) PROVE Folded(next, s) = Folded(it, s)
    <3>1. CASE s = {}
      BY <3>1
    <3>2. CASE s # {}
      <4>1. s \ {Max(s)} \in SUBSET (1..k)
        BY <3>2, MaxOfSubset
      <4>2. next[s \ {Max(s)}] = it[s \ {Max(s)}]
        BY <2>2, <4>1
      <4> HIDE DEF next, Step
      <4> QED
        BY <4>2
    <3> QED
      BY <3>1, <3>2
  <2>4. Right(next, k + 1)
    <3> HIDE DEF Folded
    <3> QED
      BY <2>3
  <2> HIDE DEF Right
  <2> QED
    BY <2>4
<1>3. PICK it : Right(it, n)
  <2> HIDE DEF Right
  <2>1. 0..n \subseteq T
    <3> HIDE DEF T
    <3> QED
      BY <1>1, <1>2, UpTo
  <2> QED
    BY <2>1
<1> DEFINE iter == CHOOSE g : Right(g, n)
           r == [i \in 0..n |-> iter[1..i]]
<1>4. Right(iter, n)
  <2> HIDE DEF Right
  <2> QED
    BY <1>3
<1>5. RunBlock(b) = iter[1..n]
  BY DEF RunBlock, RunElement, StartOfBlock, FoldLeft, MapThenFoldSet
<1>6. r[0] = start /\ r[n] = iter[1..n]
  <2>1. 1..0 = {} /\ {} \in SUBSET (1..n)
    OBVIOUS
  <2>2. iter[{}] = Folded(iter, {})
    <3> HIDE DEF iter, Folded
    <3> QED
      BY <1>4, <2>1
  <2> HIDE DEF iter
  <2> QED
    BY <2>1, <2>2
<1>7. ASSUME NEW i \in 0..(n - 1) PROVE r[i + 1] = Step(r[i], i + 1)
  <2>1. 1..(i + 1) \in SUBSET (1..n) /\ 1..(i + 1) # {}
    <3>1. i + 1 \in 1..(i + 1) /\ i + 1 <= n
      OBVIOUS
    <3>2. \A x \in 1..(i + 1) : x \in 1..n
      BY <3>1
    <3> QED
      BY <3>1, <3>2
  <2>2. Max(1..(i + 1)) = i + 1 /\ (1..(i + 1)) \ {i + 1} = 1..i
    BY MaxOfInterval
  <2>3. iter[1..(i + 1)] = Folded(iter, 1..(i + 1))
    <3> HIDE DEF iter, Folded
    <3> QED
      BY <1>4, <2>1
  <2>4. Folded(iter, 1..(i + 1)) = Step(iter[1..i], i + 1)
    <3> HIDE DEF iter, Step
    <3>1. i + 1 \in DOMAIN F.elems[b]
      OBVIOUS
    <3> QED
      BY <2>1, <2>2, <3>1
  <2> HIDE DEF iter, Step, Folded
  <2> QED
    BY <2>3, <2>4
<1>8. \A i \in 0..(n - 1) : r[i + 1] = RunElements(b, r[i], i + 1)
  BY <1>7 DEF RunElements
<1> HIDE DEF r, iter
<1> QED
  BY <1>5, <1>6, <1>8 DEF Runs

(* The reporter is handed the diagnostics in order. *)
Reports(start, suppressed, diags, r) ==
  LET n == Len(diags)
  IN  /\ r[0] = start
      /\ r[n] = ReportAll(start, suppressed, diags)
      /\ \A i \in 0..(n - 1) : r[i + 1] = Report(r[i], suppressed, diags[i + 1])

(* A fold over diagnostics takes them one by one.                          *)
LEMMA ReportsInOrder ==
  ASSUME NEW start, NEW suppressed, NEW diags, NEW n \in Nat, n = Len(diags), DOMAIN diags = 1..n
  PROVE  \E r : Reports(start, suppressed, diags, r)
<1> DEFINE One(s, e) == Report(s, suppressed, e)
           Folded(it, s) == IF s = {} THEN start
                          ELSE LET x == Max(s) IN One(it[s \ {x}], diags[x])
           Right(it, k) == it = [s \in SUBSET (1..k) |-> Folded(it, s)]
           T == {k \in 0..n : \E it : Right(it, k)}
<1>1. 0 \in T
  <2> DEFINE it == [s \in SUBSET (1..0) |-> start]
  <2>1. Right(it, 0)
    OBVIOUS
  <2> HIDE DEF Right, it
  <2> QED
    BY <2>1
<1>2. ASSUME NEW k \in 0..(n - 1), k \in T PROVE k + 1 \in T
  <2>1. PICK it : Right(it, k)
    BY <1>2
  <2> DEFINE next == [s \in SUBSET (1..(k + 1)) |-> Folded(it, s)]
  <2>2. ASSUME NEW s \in SUBSET (1..k) PROVE next[s] = it[s]
    <3>1. it[s] = Folded(it, s)
      BY <2>1
    <3>2. s \in SUBSET (1..(k + 1))
      OBVIOUS
    <3> HIDE DEF Folded
    <3> QED
      BY <3>1, <3>2
  <2>3. ASSUME NEW s \in SUBSET (1..(k + 1)) PROVE Folded(next, s) = Folded(it, s)
    <3>1. CASE s = {}
      BY <3>1
    <3>2. CASE s # {}
      <4>1. s \ {Max(s)} \in SUBSET (1..k)
        BY <3>2, MaxOfSubset
      <4>2. next[s \ {Max(s)}] = it[s \ {Max(s)}]
        BY <2>2, <4>1
      <4> HIDE DEF next, One
      <4> QED
        BY <4>2
    <3> QED
      BY <3>1, <3>2
  <2>4. Right(next, k + 1)
    <3> HIDE DEF Folded
    <3> QED
      BY <2>3
  <2> HIDE DEF Right
  <2> QED
    BY <2>4
<1>3. PICK it : Right(it, n)
  <2> HIDE DEF Right
  <2>1. 0..n \subseteq T
    <3> HIDE DEF T
    <3> QED
      BY <1>1, <1>2, UpTo
  <2> QED
    BY <2>1
<1> DEFINE iter == CHOOSE g : Right(g, n)
           r == [i \in 0..n |-> iter[1..i]]
<1>4. Right(iter, n)
  <2> HIDE DEF Right
  <2> QED
    BY <1>3
<1>5. ReportAll(start, suppressed, diags) = iter[1..n]
  <2> QED
    BY DEF ReportAll, FoldLeft, MapThenFoldSet
<1>6. r[0] = start /\ r[n] = iter[1..n]
  <2>1. 1..0 = {} /\ {} \in SUBSET (1..n)
    OBVIOUS
  <2>2. iter[{}] = Folded(iter, {})
    <3> HIDE DEF iter, Folded
    <3> QED
      BY <1>4, <2>1
  <2> HIDE DEF iter
  <2> QED
    BY <2>1, <2>2
<1>7. ASSUME NEW i \in 0..(n - 1) PROVE r[i + 1] = Report(r[i], suppressed, diags[i + 1])
  <2>1. 1..(i + 1) \in SUBSET (1..n) /\ 1..(i + 1) # {}
    <3>1. i + 1 \in 1..(i + 1) /\ i + 1 <= n
      OBVIOUS
    <3>2. \A x \in 1..(i + 1) : x \in 1..n
      BY <3>1
    <3> QED
      BY <3>1, <3>2
  <2>2. Max(1..(i + 1)) = i + 1 /\ (1..(i + 1)) \ {i + 1} = 1..i
    BY MaxOfInterval
  <2>3. iter[1..(i + 1)] = Folded(iter, 1..(i + 1))
    <3> HIDE DEF iter, Folded
    <3> QED
      BY <1>4, <2>1
  <2>4. Folded(iter, 1..(i + 1)) = One(iter[1..i], diags[i + 1])
    <3> HIDE DEF iter, One
    <3> QED
      BY <2>1, <2>2
  <2>5. One(iter[1..i], diags[i + 1]) = Report(iter[1..i], suppressed, diags[i + 1])
    OBVIOUS
  <2> HIDE DEF iter, One, Folded
  <2> QED
    BY <2>3, <2>4, <2>5
<1> HIDE DEF r, iter
<1> QED
  BY <1>5, <1>6, <1>7 DEF Reports

-----------------------------------------------------------------------------
(* The visit of a block, element by element.                               *)

(* An element that ends no statement leaves what was evaluated before it.  *)
LEMMA FreshNext ==
  ASSUME NEW f, NEW elems, NEW i \in Nat, NEW x, IsFresh(f, elems, x, i),
         ~EndsStatement(f.nodes[elems[i + 1]])
  PROVE  IsFresh(f, elems, x, i + 1)
<1>1. PICK j \in 1..i : elems[j] = x /\ \A k \in j..i : ~EndsStatement(f.nodes[elems[k]])
  BY DEF IsFresh
<1>2. \A k \in j..(i + 1) : ~EndsStatement(f.nodes[elems[k]])
  <2> TAKE k \in j..(i + 1)
  <2>1. k \in j..i \/ k = i + 1
    OBVIOUS
  <2> QED
    BY <1>1, <2>1
<1>3. j \in 1..(i + 1)
  OBVIOUS
<1> QED
  BY <1>1, <1>2, <1>3 DEF IsFresh

(* An element that ends no statement was evaluated.                        *)
LEMMA LastIsFresh ==
  ASSUME NEW f, NEW elems, NEW i \in Nat, ~EndsStatement(f.nodes[elems[i + 1]])
  PROVE  IsFresh(f, elems, elems[i + 1], i + 1)
<1>1. i + 1 \in 1..(i + 1) /\ \A k \in (i + 1)..(i + 1) : k = i + 1
  OBVIOUS
<1> QED
  BY <1>1 DEF IsFresh

(* What element i uses is still fresh after it. *)
LEMMA UsedIsFresh ==
  ASSUME NEW f, NEW elems, IsBlock(f, elems), NEW i \in 0..(Len(elems) - 1),
         ~EndsStatement(f.nodes[elems[i + 1]]), NEW x \in UsedBy(f.nodes[elems[i + 1]])
  PROVE  IsFresh(f, elems, x, i + 1)
BY ElementsAreNodes, FreshNext

(* The load a condition rests on and what it reads are fresh. *)
LEMMA LoadIsFresh ==
  ASSUME NEW f, IsAnalysed(f), NEW elems, IsBlock(f, elems), NEW i \in 0..(Len(elems) - 1),
         IsCondition(f, f.nodes[elems[i + 1]])
  PROVE  /\ IsFresh(f, elems, LoadOf(f, elems[i + 1]), i + 1)
         /\ LoadOf(f, elems[i + 1]) \in DOMAIN f.nodes
         /\ f.nodes[LoadOf(f, elems[i + 1])].k = "LValueToRValue"
         /\ IsFresh(f, elems, f.nodes[LoadOf(f, elems[i + 1])].sub, i + 1)
<1>1. ASSUME NEW k \in 0..(Len(elems) - 1), f.nodes[elems[k + 1]].k = "LValueToRValue"
      PROVE  /\ IsFresh(f, elems, elems[k + 1], k + 1) /\ elems[k + 1] \in DOMAIN f.nodes
             /\ IsFresh(f, elems, f.nodes[elems[k + 1]].sub, k + 1)
             /\ k \in Nat
  <2>1. f.nodes[elems[k + 1]].sub \in UsedBy(f.nodes[elems[k + 1]]) /\ ~EndsStatement(f.nodes[elems[k + 1]])
    BY <1>1 DEF UsedBy, EndsStatement
  <2>2. k \in Nat
    OBVIOUS
  <2>3. IsFresh(f, elems, elems[k + 1], k + 1)
    BY <2>1, <2>2, LastIsFresh
  <2>4. IsFresh(f, elems, f.nodes[elems[k + 1]].sub, k + 1)
    BY <2>1, UsedIsFresh
  <2> QED
    BY <2>2, <2>3, <2>4, ElementsAreNodes
(* One element before a test or a negation. *)
<1>2. ASSUME NEW k \in 0..(Len(elems) - 1), f.nodes[elems[k + 1]].k = "BoolConversion" \/
                                            IsNegation(f, f.nodes[elems[k + 1]])
      PROVE  /\ k - 1 \in 0..(Len(elems) - 1) /\ (k - 1) + 1 = k /\ f.nodes[elems[k + 1]].sub = elems[k] /\ k \in Nat
             /\ ~EndsStatement(f.nodes[elems[k + 1]])
             /\ f.nodes[elems[k + 1]].k = "BoolConversion" => f.nodes[elems[k]].k = "LValueToRValue"
             /\ f.nodes[elems[k + 1]].k # "BoolConversion" => f.nodes[elems[k]].k \in {"BoolConversion", "LValueToRValue"}
  <2>1. Len(elems) \in Nat /\ k + 1 \in 1..Len(elems) /\ (k + 1) - 1 = k /\ elems[k + 1] \in DOMAIN f.nodes
    <3>1. k \in Nat /\ (k + 1) - 1 = k
      OBVIOUS
    <3> QED
      BY <3>1, ElementsAreNodes
  <2>2. IsTest(f, f.nodes[elems[k + 1]]) \/ IsNegation(f, f.nodes[elems[k + 1]])
    BY <1>2, <2>1, NodeCases
  <2>3. k + 1 > 1 /\ f.nodes[elems[k + 1]].sub = elems[k]
    BY <2>1, <2>2 DEF IsBlock, IsOrdered
  <2> QED
    BY <1>2, <2>1, <2>2, <2>3 DEF IsTest, IsNegation, EndsStatement
<1> DEFINE e == elems[i + 1]
           n == f.nodes[e]
<1>3. CASE n.k = "LValueToRValue"
  <2>1. LoadOf(f, e) = e
    BY <1>3 DEF LoadOf
  <2> QED
    BY <1>1, <1>3, <2>1
<1>4. CASE n.k = "BoolConversion"
  <2>1. LoadOf(f, e) = n.sub
    BY <1>4 DEF LoadOf
  <2>2. i - 1 \in 0..(Len(elems) - 1) /\ (i - 1) + 1 = i /\ n.sub = elems[i] /\ f.nodes[elems[i]].k = "LValueToRValue"
        /\ i \in Nat /\ ~EndsStatement(n)
    BY <1>2, <1>4
  <2> DEFINE k == i - 1
  <2> HIDE DEF k
  <2>3. k \in 0..(Len(elems) - 1) /\ k + 1 = i
    BY <2>2 DEF k
  <2>4. /\ IsFresh(f, elems, elems[i], i) /\ elems[i] \in DOMAIN f.nodes
        /\ IsFresh(f, elems, f.nodes[elems[i]].sub, i)
    BY <1>1, <2>2, <2>3
  <2> QED
    BY <2>1, <2>2, <2>4, FreshNext
<1>5. CASE n.k \notin {"LValueToRValue", "BoolConversion"}
  <2>1. IsNegation(f, n) /\ n.k = "UnaryOperator"
    BY <1>5 DEF IsCondition, IsTest, IsLoad, IsNegation
  <2>2. LoadOf(f, e) = IF f.nodes[n.sub].k = "BoolConversion" THEN f.nodes[n.sub].sub ELSE n.sub
    BY <1>5 DEF LoadOf
  <2>3. i - 1 \in 0..(Len(elems) - 1) /\ (i - 1) + 1 = i /\ n.sub = elems[i]
        /\ f.nodes[elems[i]].k \in {"BoolConversion", "LValueToRValue"}
        /\ i \in Nat /\ ~EndsStatement(n)
    BY <1>2, <2>1
  <2> DEFINE k == i - 1
  <2> HIDE DEF k
  <2>4. k \in 0..(Len(elems) - 1) /\ k + 1 = i
    BY <2>3 DEF k
  <2>5. CASE f.nodes[elems[i]].k = "LValueToRValue"
    <3>1. /\ IsFresh(f, elems, elems[i], i) /\ elems[i] \in DOMAIN f.nodes
          /\ IsFresh(f, elems, f.nodes[elems[i]].sub, i)
      BY <1>1, <2>4, <2>5
    <3>2. LoadOf(f, e) = elems[i]
      BY <2>2, <2>3, <2>5
    <3> QED
      BY <2>3, <2>5, <3>1, <3>2, FreshNext
  <2>6. CASE f.nodes[elems[i]].k = "BoolConversion"
    <3>1. /\ k - 1 \in 0..(Len(elems) - 1) /\ (k - 1) + 1 = k /\ f.nodes[elems[i]].sub = elems[k] /\ k \in Nat
          /\ ~EndsStatement(f.nodes[elems[i]]) /\ f.nodes[elems[k]].k = "LValueToRValue"
      BY <1>2, <2>4, <2>6
    <3> DEFINE j == k - 1
    <3> HIDE DEF j
    <3>2. j \in 0..(Len(elems) - 1) /\ j + 1 = k
      BY <3>1 DEF j
    <3>3. /\ IsFresh(f, elems, elems[k], k) /\ elems[k] \in DOMAIN f.nodes
          /\ IsFresh(f, elems, f.nodes[elems[k]].sub, k)
      BY <1>1, <3>1, <3>2
    <3>4. IsFresh(f, elems, elems[k], i) /\ IsFresh(f, elems, f.nodes[elems[k]].sub, i)
      BY <2>4, <3>1, <3>3, FreshNext
    <3>5. LoadOf(f, e) = elems[k]
      BY <2>2, <2>3, <2>6, <3>1
    <3> QED
      BY <2>3, <3>1, <3>3, <3>4, <3>5, FreshNext
  <2> QED
    BY <2>3, <2>5, <2>6
<1> QED
  BY <1>3, <1>4, <1>5

(* What the condition of a block tests, and how: the outcomes of a block   *)
(* that tests no pointer by name are not told apart.                       *)
Splits(f, b) == SuccSize(f, b) = 2 /\ TestsPointer(f, Last(f.elems[b]))
TestedVar(f, b) == f.nodes[f.nodes[LoadOf(f, Last(f.elems[b]))].sub].var
Positive(f, b) == f.nodes[Last(f.elems[b])].k # "UnaryOperator"

(* A block of a pointer program, and the condition of one that branches.   *)
LEMMA BlockOfProgram ==
  ASSUME NEW f, IsAnalysed(f), NEW b \in f.blocks
  PROVE  /\ IsBlock(f, f.elems[b]) /\ Len(f.elems[b]) \in Nat /\ DOMAIN f.elems[b] = 1..Len(f.elems[b])
         /\ SuccSize(f, b) = 2 =>
              /\ Len(f.elems[b]) # 0 /\ Len(f.elems[b]) - 1 \in 0..(Len(f.elems[b]) - 1)
              /\ Last(f.elems[b]) = f.elems[b][Len(f.elems[b])]
              /\ Last(f.elems[b]) = f.elems[b][(Len(f.elems[b]) - 1) + 1]
              /\ IsCondition(f, f.nodes[Last(f.elems[b])])
              /\ Last(f.elems[b]) \in DOMAIN f.nodes
              /\ ~IsNoopBlock(f, b)
<1>1. f.elems[b] \in Seq(DOMAIN f.nodes)
  BY DEF IsAnalysed, IsPointerProgram
<1> DEFINE elems == f.elems[b]
           n == Len(elems)
<1>2. n \in Nat /\ DOMAIN elems = 1..n
  BY <1>1
<1>3. IsBlock(f, elems)
  BY <1>1 DEF IsAnalysed, IsPointerProgram, IsBlock
<1>4. ASSUME SuccSize(f, b) = 2
      PROVE  elems # <<>> /\ IsCondition(f, f.nodes[Last(elems)]) /\ ~IsNoopBlock(f, b)
  BY <1>4 DEF IsAnalysed, IsPointerProgram
<1>5. ASSUME elems # <<>>
      PROVE  n # 0 /\ n - 1 \in 0..(n - 1) /\ (n - 1) + 1 = n /\ elems[n] \in DOMAIN f.nodes /\ Last(elems) = elems[n]
  <2>1. n # 0
    BY <1>1, <1>5
  <2>2. n - 1 \in 0..(n - 1) /\ (n - 1) + 1 = n /\ n \in 1..n
    BY <1>2, <2>1
  <2> QED
    BY <1>1, <2>1, <2>2 DEF Last
<1> QED
  BY <1>2, <1>3, <1>4, <1>5

(* The block ends in its condition. *)
LEMMA Terminators ==
  ASSUME NEW f, IsAnalysed(f), NEW b \in f.blocks, SuccSize(f, b) \in {1, 2}
  PROVE  GetRealTerminator(f, b) = IF SuccSize(f, b) = 2 THEN Last(f.elems[b]) ELSE NoExpr
<1>1. CASE SuccSize(f, b) = 2
  <2>1. f.elems[b] # <<>> /\ IsCondition(f, f.nodes[Last(f.elems[b])])
    BY <1>1 DEF IsAnalysed, IsPointerProgram
  <2>2. f.nodes[Last(f.elems[b])].k \notin NotExprs
    BY <2>1 DEF IsCondition, IsTest, IsNegation, IsLoad, NotExprs, Statements
  <2> QED
    BY <1>1, <2>1, <2>2 DEF GetRealTerminator
<1>2. CASE SuccSize(f, b) = 1
  <2>1. f.succs[b] \in Seq([to : f.blocks, reachable : BOOLEAN])
    BY LifetimeAssumption DEF IsAnalysed, IsCFG
  <2>2. f.succs[b][1].to \in f.blocks
    <3>1. Len(f.succs[b]) = 1
      BY <1>2 DEF SuccSize
    <3> DEFINE edges == f.succs[b]
               E == [to : f.blocks, reachable : BOOLEAN]
    <3> HIDE DEF edges, E
    <3>4. edges \in Seq(E)
      BY <2>1 DEF edges, E
    <3>5. Len(edges) = 1
      BY <3>1 DEF edges
    <3>2. edges[1] \in E
      BY <3>4, <3>5
    <3>3. f.succs[b][1] \in [to : f.blocks, reachable : BOOLEAN]
      BY <3>2 DEF edges, E
    <3> QED
      BY <3>3
  <2>3. ~(IsNoopBlock(f, f.succs[b][1].to) /\ SuccSize(f, f.succs[b][1].to) = 2)
    BY <2>2, BlockOfProgram
  <2> QED
    BY <1>2, <2>3 DEF GetRealTerminator
<1> QED
  BY <1>1, <1>2

(* What its condition makes of a state after the elements of a block.      *)
AfterCondition(f, b, s) ==
  IF SuccSize(f, b) = 2 THEN UpdatePSetsFromCondition(f, s, Last(f.elems[b])) ELSE s

StartOfVisit(pmap, fe, seen) ==
  [pmap |-> pmap, exprs |-> seen.psets, members |-> seen.members,
   falseExit |-> fe, diags |-> <<>>, failed |-> seen.failed]

(* After the condition of a block the map is as before, or narrowed by the *)
(* test: as true on one edge and as false on the other.                    *)
LEMMA SplitIsSound ==
  ASSUME NEW f, IsAnalysed(f), NEW b \in f.blocks, SuccSize(f, b) \in {1, 2},
         NEW s, BlockInv(f, f.elems[b], Len(f.elems[b]), s),
         NEW t, t = AfterCondition(f, b, s)
  PROVE  /\ IsState(t) /\ t.diags = s.diags /\ t.pmap \in PMapsOf(f)
         /\ Splits(f, b) => /\ TestedVar(f, b) \in Names(f)
                            /\ t.pmap = Narrowed(s.pmap, TestedVar(f, b), ~Positive(f, b))
                            /\ t.falseExit = Narrowed(s.pmap, TestedVar(f, b), Positive(f, b))
                            /\ t.falseExit \in PMapsOf(f)
         /\ ~Splits(f, b) => t = s
<1>1. IsState(s) /\ s.pmap \in PMapsOf(f)
  BY DEF BlockInv
<1>2. CASE SuccSize(f, b) # 2
  BY <1>1, <1>2 DEF AfterCondition, Splits
<1>3. CASE SuccSize(f, b) = 2
  <2> DEFINE elems == f.elems[b]
             n == Len(elems)
             i == n - 1
             e == Last(elems)
             l == LoadOf(f, e)
             c == f.nodes[l].sub
  <2>1. IsBlock(f, elems) /\ i \in 0..(n - 1) /\ e = elems[i + 1] /\ IsCondition(f, f.nodes[e]) /\ e \in DOMAIN f.nodes
        /\ n \in Nat /\ i + 1 = n
    BY <1>3, BlockOfProgram
  <2> HIDE DEF i, e
  <2>2. IsFresh(f, elems, c, n) /\ l \in DOMAIN f.nodes /\ f.nodes[l].k = "LValueToRValue"
    BY <2>1, LoadIsFresh
  <2>3. IsKnown(f, s, c)
    BY <2>2 DEF BlockInv
  <2>4. c \in DOMAIN f.nodes
    BY <2>2, LoadNode
  <2>5. t = UpdatePSetsFromCondition(f, s, e)
    BY <1>3 DEF AfterCondition, e
  <2>6. CASE TestsPointer(f, e)
    <3>1. Splits(f, b) /\ TestedVar(f, b) = f.nodes[c].var /\ Positive(f, b) = (f.nodes[e].k # "UnaryOperator")
      BY <1>3, <2>6 DEF Splits, TestedVar, Positive, e
    <3>2. TestedLValue(f, s, e).lvalue = c /\ f.nodes[c].k = "DeclRefExpr"
      BY <2>1, <2>6, WhatIsTested DEF TestsPointer
    <3>3. TestedLValue(f, s, e).positive = IF f.nodes[e].k = "UnaryOperator" THEN FALSE ELSE TRUE
      BY <2>1, <2>6, WhatIsTested
    <3> DEFINE x == f.nodes[c].var
               positive == Positive(f, b)
    <3>4. positive \in BOOLEAN /\ TestedLValue(f, s, e).positive = positive
      <4>1. CASE f.nodes[e].k = "UnaryOperator"
        BY <3>1, <3>3, <4>1
      <4>2. CASE f.nodes[e].k # "UnaryOperator"
        BY <3>1, <3>3, <4>2
      <4> QED
        BY <4>1, <4>2
    <3>5. x \in Names(f) /\ x = f.nodes[c].var
      BY <2>4, <3>2, NamedNode
    <3> HIDE DEF x, positive, c
    <3>6. /\ IsState(t) /\ t.diags = s.diags
          /\ t.pmap = Narrowed(s.pmap, x, ~positive) /\ t.falseExit = Narrowed(s.pmap, x, positive)
      BY <1>1, <2>3, <2>4, <2>5, <3>2, <3>4, <3>5, SplitOfTest
    <3>7. t.pmap \in PMapsOf(f) /\ t.falseExit \in PMapsOf(f)
      BY <1>1, <3>5, <3>6, NarrowedTyped
    <3>8. x = TestedVar(f, b) /\ positive = Positive(f, b)
      BY <3>1 DEF x, positive
    <3> QED
      BY <3>1, <3>5, <3>6, <3>7, <3>8
  <2>7. CASE ~TestsPointer(f, e)
    <3>1. TestedLValue(f, s, e).lvalue = NoExpr
      BY <2>1, <2>7, WhatIsTested
    <3>2. t = s
      BY <2>5, <3>1 DEF UpdatePSetsFromCondition
    <3>3. ~Splits(f, b)
      BY <2>7 DEF Splits, e
    <3> QED
      BY <1>1, <3>2, <3>3
  <2> QED
    BY <2>6, <2>7
<1> QED
  BY <1>2, <1>3
(* What the visit of a block hands back is what it has after the condition *)
(* (VisitBlock).                                                           *)
LEMMA VisitedBlock ==
  ASSUME NEW f, IsAnalysed(f), NEW b \in f.blocks, SuccSize(f, b) \in {1, 2},
         NEW pmap \in PMapsOf(f), NEW fe, NEW seen,
         NEW v, v = VisitBlockOf(f, b, pmap, fe, seen),
         NEW start, start = StartOfVisit(pmap, fe, seen)
  PROVE  LET s == VisitElements(f, start, f.elems[b])
             t == AfterCondition(f, b, s)
         IN  s.pmap \in PMapsOf(f) /\ t.pmap \in PMapsOf(f) => v.pmap = t.pmap /\ v.falseExit = t.falseExit /\ v.diags = t.diags
<1> DEFINE elems == f.elems[b]
           bad == {i \in DOMAIN elems : f.nodes[elems[i]].k = "RecoveryExpr"}
           s == VisitElements(f, start, f.elems[b])
           t == AfterCondition(f, b, s)
<1> SUFFICES ASSUME s.pmap \in PMapsOf(f), t.pmap \in PMapsOf(f)
             PROVE  v.pmap = t.pmap /\ v.falseExit = t.falseExit /\ v.diags = t.diags
  OBVIOUS
<1>1. bad = {}
  <2>1. ASSUME NEW i \in DOMAIN elems PROVE f.nodes[elems[i]].k # "RecoveryExpr"
    <3>1. elems[i] \in DOMAIN f.nodes
      BY DEF IsAnalysed, IsPointerProgram
    <3> QED
      BY <3>1, NodeKinds DEF Kinds
  <2> QED
    BY <2>1
<1>2. GetRealTerminator(f, b) = IF SuccSize(f, b) = 2 THEN Last(elems) ELSE NoExpr
  BY Terminators
<1>3. SuccSize(f, b) = 2 => Last(elems) # NoExpr
  <2>1. NoExpr \notin DOMAIN f.nodes
    BY DEF IsAnalysed, IsPointerProgram
  <2> QED
    BY <2>1, BlockOfProgram
<1>4. t = IF GetRealTerminator(f, b) = NoExpr THEN s
          ELSE UpdatePSetsFromCondition(f, s, GetRealTerminator(f, b))
  BY <1>2, <1>3 DEF AfterCondition
<1>5. OnFunctionFinish(f, t, b) = t
  BY FinishDoesNothing
<1> DEFINE Take(st, e) == CHOOSE u \in {VisitElement(f, st, e)} : u = u
           finished == /\ b \notin f.noReturn
                       /\ ~IsThrowingBlock(f, b)
                       /\ SuccSize(f, b) = 1
                       /\ f.exit \in ReachableSuccs(f, b)
<1>6. s = FoldLeft(Take, start, IF bad = {} THEN elems ELSE SubSeq(elems, 1, Min(bad) - 1))
  BY <1>1 DEF VisitElements
<1> DEFINE end == CASE bad # {} -> s
                    [] bad = {} /\ finished -> OnFunctionFinish(f, t, b)
                    [] OTHER -> t
<1>7. v = [pmap |-> end.pmap, falseExit |-> end.falseExit, diags |-> end.diags,
           exprs |-> [psets |-> end.exprs, members |-> end.members, failed |-> end.failed]]
  BY <1>4, <1>6 DEF VisitBlockOf, StartOfVisit
<1>8. end = t
  BY <1>1, <1>5
<1> HIDE DEF end, s, t
<1> QED
  BY <1>7, <1>8

(* The states a visit of b goes through.                                   *)
Visits(f, b, pmap, fe, seen, r) ==
  LET elems == f.elems[b]
  IN  /\ r[0] = StartOfVisit(pmap, fe, seen)
      /\ \A i \in 0..(Len(elems) - 1) : r[i + 1] = VisitElement(f, r[i], elems[i + 1])
      /\ r[Len(elems)] = VisitElements(f, StartOfVisit(pmap, fe, seen), elems)

(* A visit of a block takes its elements one by one.                       *)
LEMMA VisitsExist ==
  ASSUME NEW f, IsAnalysed(f), NEW b \in f.blocks, NEW pmap, NEW fe, NEW seen
  PROVE  \E r : Visits(f, b, pmap, fe, seen, r)
<1> DEFINE elems == f.elems[b]
           n == Len(elems)
           start == StartOfVisit(pmap, fe, seen)
<1>1. n \in Nat /\ DOMAIN elems = 1..n
  BY BlockOfProgram
<1> HIDE DEF start, elems, n
<1>2. PICK r : InOrder(f, start, elems, n, r)
  BY <1>1, VisitsInOrder
<1>3. Visits(f, b, pmap, fe, seen, r)
  BY <1>2 DEF InOrder, Visits, start, elems, n
<1> QED
  BY <1>3

(* What is told at the end was told on the way, and whatever is said stays said. *)
LEMMA VisitsAreSound ==
  ASSUME NEW f, IsAnalysed(f), NEW b \in f.blocks,
         NEW pmap \in PMapsOf(f), NEW fe, NEW seen, NEW r, Visits(f, b, pmap, fe, seen, r)
  PROVE  \A i \in 0..Len(f.elems[b]) :
           /\ BlockInv(f, f.elems[b], i, r[i])
           /\ r[i].falseExit = fe
           /\ Told(r[i].diags) \subseteq Told(r[Len(f.elems[b])].diags)
<1> DEFINE elems == f.elems[b]
           n == Len(elems)
           T == {i \in 0..n : BlockInv(f, elems, i, r[i]) /\ r[i].falseExit = fe
                              /\ \A j \in 0..i : Told(r[j].diags) \subseteq Told(r[i].diags)}
<1>1. IsBlock(f, elems) /\ n \in Nat
  BY BlockOfProgram
<1>2. 0 \in T
  <2>1. r[0] = StartOfVisit(pmap, fe, seen)
    BY DEF Visits
  <2>2. IsState(r[0]) /\ r[0].pmap = pmap /\ r[0].falseExit = fe
    <3>1. <<>> \in Seq({})
      OBVIOUS
    <3> QED
      BY <2>1, <3>1 DEF StartOfVisit, IsState, IsLog
  <2>3. \A x : ~IsFresh(f, elems, x, 0)
    BY DEF IsFresh
  <2>4. 0 \in 0..n /\ 0..0 = {0}
    BY <1>1
  <2> QED
    BY <2>2, <2>3, <2>4 DEF BlockInv
<1>3. ASSUME NEW i \in 0..(n - 1), i \in T PROVE i + 1 \in T
  <2>1. BlockInv(f, elems, i, r[i]) /\ r[i].falseExit = fe
        /\ \A j \in 0..i : Told(r[j].diags) \subseteq Told(r[i].diags)
    BY <1>3
  <2>2. r[i + 1] = VisitElement(f, r[i], elems[i + 1])
    BY DEF Visits
  <2> DEFINE t == r[i + 1]
  <2> HIDE DEF t, elems
  <2>3. t = VisitElement(f, r[i], elems[i + 1])
    BY <2>2 DEF t
  <2>4. Extends(r[i], t) /\ BlockInv(f, elems, i + 1, t)
    BY <1>1, <2>1, <2>3, BlockStep
  <2>5. i + 1 \in 0..n /\ \A j \in 0..(i + 1) : j \in 0..i \/ j = i + 1
    BY <1>1
  <2>6. \A j \in 0..(i + 1) : Told(r[j].diags) \subseteq Told(t.diags)
    BY <2>1, <2>4, <2>5 DEF Extends, t
  <2> QED
    BY <2>1, <2>4, <2>5, <2>6 DEF Extends, t
<1> HIDE DEF T
<1>4. 0..n \subseteq T
  BY <1>1, <1>2, <1>3, UpTo
<1>5. n \in T
  BY <1>1, <1>4
<1> QED
  BY <1>4, <1>5 DEF T

-----------------------------------------------------------------------------
(* The run of a block, element by element.                                 *)

(* Executions of a block *)

(* An assignment is an expression, and changes the store.                  *)
Assigning(m, e, l, x) == [Give(m, e, l) EXCEPT !.store[l] = x]

(* What an element does when it is run, by its kind.                       *)
LEMMA ElementOfKind ==
  ASSUME NEW m, NEW e, NEW n, n = F.nodes[e]
  PROVE  /\ n.k = "DeclRefExpr" => Element(m, e) =
              Give(m, e, IF TypeInfo[GetType(n.var)].isReference THEN m.store[n.var] ELSE n.var)
         /\ n.k = "LValueToRValue" => Element(m, e) = Give(m, e, m.store[m.vals[n.sub]])
         /\ n.k \in {"NullPtrLiteral", "NullToPointer"} => Element(m, e) = Give(m, e, Null)
         /\ n.k = "BoolConversion" => Element(m, e) = Give(m, e, m.vals[n.sub] # Null)
         /\ n.k = "BinaryOperator" => Element(m, e) =
              Assigning(m, e, m.vals[n.lhs], m.vals[n.rhs])
         /\ n.k = "DeclStmt" => Element(m, e) = Declare(m, n.decls[1])
         /\ n.k = "LifetimeEnds" => Element(m, e) = EndScope(m, n.var)
         /\ n.k = "UnaryOperator" /\ n.op = "Deref" => Element(m, e) = Dereference(m, e, n)
         /\ n.k = "UnaryOperator" /\ n.op = "AddrOf" => Element(m, e) = Give(m, e, m.vals[n.sub])
         /\ n.k = "UnaryOperator" /\ n.op = "LNot" => Element(m, e) =
              Give(m, e, IF m.vals[n.sub] = Opaque THEN Opaque ELSE ~m.vals[n.sub])
<1>1. n.k = "DeclRefExpr" => Element(m, e) =
              Give(m, e, IF TypeInfo[GetType(n.var)].isReference THEN m.store[n.var] ELSE n.var)
  BY DEF Element
<1>2. n.k = "LValueToRValue" => Element(m, e) = Give(m, e, m.store[m.vals[n.sub]])
  BY DEF Element
<1>3. n.k \in {"NullPtrLiteral", "NullToPointer"} => Element(m, e) = Give(m, e, Null)
  BY DEF Element
<1>4. n.k = "BoolConversion" => Element(m, e) = Give(m, e, m.vals[n.sub] # Null)
  BY DEF Element
<1>5. n.k = "BinaryOperator" => Element(m, e) =
        Assigning(m, e, m.vals[n.lhs], m.vals[n.rhs])
  BY DEF Element, Assigning
<1>6. n.k = "DeclStmt" => Element(m, e) = Declare(m, n.decls[1])
  BY DEF Element
<1>7. n.k = "LifetimeEnds" => Element(m, e) = EndScope(m, n.var)
  BY DEF Element
<1>8. n.k = "UnaryOperator" /\ n.op = "Deref" => Element(m, e) = Dereference(m, e, n)
  BY DEF Element
<1>9. n.k = "UnaryOperator" /\ n.op = "AddrOf" => Element(m, e) = Give(m, e, m.vals[n.sub])
  BY DEF Element
<1>10. n.k = "UnaryOperator" /\ n.op = "LNot" => Element(m, e) =
              Give(m, e, IF m.vals[n.sub] = Opaque THEN Opaque ELSE ~m.vals[n.sub])
  BY DEF Element
<1> QED
  BY <1>1, <1>2, <1>3, <1>4, <1>5, <1>6, <1>7, <1>8, <1>9, <1>10

(* A machine, and one that has evaluated e to x. *)
IsMachine(m) == {"store", "vals", "test", "outcome", "at"} \subseteq DOMAIN m

Gives(m, o, e, x) ==
  /\ IsMachine(o)
  /\ o.outcome = m.outcome
  /\ e \in DOMAIN o.vals /\ o.vals[e] = x
  /\ \A y \in DOMAIN m.vals \ {e} : y \in DOMAIN o.vals /\ o.vals[y] = m.vals[y]

(* To give an expression its value leaves the store alone.                 *)
LEMMA GiveGives ==
  ASSUME NEW m, IsMachine(m), NEW e, NEW x, NEW o, o = Give(m, e, x)
  PROVE  Gives(m, o, e, x) /\ o.store = m.store
BY DEF Give, Put, Gives, IsMachine

(* What a pointer of type t can hold, and a store of locals of f.          *)
Holdable(st, t) ==
  {Null, Invalid} \cup {w \in DOMAIN st : DeclInfo[w.base].type = PointeeType(t)}

IsTypedStore(f, st) ==
  /\ st = [v \in DOMAIN st |-> st[v]]
  /\ DOMAIN st \subseteq Names(f)
  /\ \A v \in DOMAIN st :
       IF IsPointerCategory(DeclInfo[v.base].type)
       THEN st[v] \in Holdable(st, DeclInfo[v.base].type) ELSE st[v] = Opaque

(* An assignment gives its left side as its value, and writes to it.       *)
LEMMA AssignGives ==
  ASSUME NEW m, IsMachine(m), NEW e, NEW l \in DOMAIN m.store, NEW x,
         NEW o, o = Assigning(m, e, l, x)
  PROVE  Gives(m, o, e, l) /\ o.store = Put(m.store, l, x)
<1> DEFINE g == Give(m, e, l)
<1>1. Gives(m, g, e, l) /\ g.store = m.store
  BY GiveGives
<1> HIDE DEF g
<1>2. o = [g EXCEPT !.store[l] = x]
  BY DEF g, Assigning
<1>3. /\ IsMachine(o) /\ o.outcome = g.outcome /\ o.vals = g.vals
      /\ o.store = [g.store EXCEPT ![l] = x]
  BY <1>1, <1>2 DEF Gives, IsMachine
<1>4. o.store = [v \in DOMAIN m.store |-> IF v = l THEN x ELSE m.store[v]]
  BY <1>1, <1>3
<1>5. o.store = Put(m.store, l, x)
  <2>1. {l} \cup DOMAIN m.store = DOMAIN m.store
    OBVIOUS
  <2> QED
    BY <1>4, <2>1 DEF Put
<1> QED
  BY <1>1, <1>3, <1>5 DEF Gives

(* A typed store after an assignment. *)
LEMMA PutTyped ==
  ASSUME NEW f, IsAnalysed(f), NEW st, IsTypedStore(f, st), NEW l \in Names(f), NEW x,
         IF IsPointerCategory(DeclInfo[l.base].type)
         THEN x \in Holdable(Put(st, l, x), DeclInfo[l.base].type) ELSE x = Opaque
  PROVE  /\ IsTypedStore(f, Put(st, l, x))
         /\ DOMAIN Put(st, l, x) = {l} \cup DOMAIN st
<1> DEFINE new == Put(st, l, x)
<1>1. DOMAIN new = {l} \cup DOMAIN st /\ new = [v \in DOMAIN new |-> new[v]]
      /\ new[l] = x /\ \A v \in DOMAIN st \ {l} : new[v] = st[v]
  BY DEF Put
<1> HIDE DEF new
<1>2. \A t : Holdable(st, t) \subseteq Holdable(new, t)
  BY <1>1 DEF Holdable
<1>3. \A v \in DOMAIN new :
       IF IsPointerCategory(DeclInfo[v.base].type)
       THEN new[v] \in Holdable(new, DeclInfo[v.base].type) ELSE new[v] = Opaque
  <2> TAKE v \in DOMAIN new
  <2>1. CASE v = l
    BY <1>1, <2>1 DEF new
  <2>2. CASE v # l
    <3>1. v \in DOMAIN st /\ new[v] = st[v]
      BY <1>1, <2>2
    <3> QED
      BY <1>2, <3>1 DEF IsTypedStore
  <2> QED
    BY <2>1, <2>2
<1> QED
  BY <1>1, <1>3 DEF IsTypedStore, new

(* A value in a typed store. *)
LEMMA HoldableValue ==
  ASSUME NEW f, IsAnalysed(f), NEW st, IsTypedStore(f, st), NEW t, NEW x \in Holdable(st, t)
  PROVE  /\ x # Opaque /\ x # Global
         /\ x \notin {Null, Invalid} => x \in Names(f) /\ Kind(x) = "Local" /\ x.path = <<>> /\ ~IsTemporary(x)
BY MarkersDiffer, NamesAreNoMarkers, NameIsPlain DEF Holdable, IsTypedStore

(* Of two values written to the same location the last one stays.          *)
LEMMA PutTwice ==
  ASSUME NEW st, NEW v, NEW x, NEW y PROVE Put(Put(st, v, x), v, y) = Put(st, v, y)
<1>1. DOMAIN Put(st, v, x) = {v} \cup DOMAIN st /\ \A z \in DOMAIN st \ {v} : Put(st, v, x)[z] = st[z]
  BY DEF Put
<1> DEFINE p == Put(st, v, x)
<1>2. Put(p, v, y) = [z \in {v} \cup DOMAIN p |-> IF z = v THEN y ELSE p[z]]
  BY DEF Put
<1>3. Put(st, v, y) = [z \in {v} \cup DOMAIN st |-> IF z = v THEN y ELSE st[z]]
  BY DEF Put
<1> HIDE DEF p
<1> QED
  BY <1>1, <1>2, <1>3 DEF p

(* The first value of a variable. *)
FirstValue(m, d) ==
  IF IsPointerCategory(DeclInfo[d.var].type)
  THEN IF d.init = NoExpr THEN Invalid ELSE m.vals[d.init]
  ELSE Opaque

(* A declaration stores the first value of its variable.                   *)
LEMMA DeclareStores ==
  ASSUME NEW f, IsAnalysed(f), NEW e \in DOMAIN f.nodes, f.nodes[e].k = "DeclStmt",
         NEW d, d = f.nodes[e].decls[1], NEW m, IsMachine(m), NEW o, o = Declare(m, d),
         NEW v, v = Var(d.var)
  PROVE  /\ IsMachine(o) /\ o.outcome = m.outcome /\ v \in Names(f) /\ v.base = d.var
         /\ o.store = Put(m.store, v, FirstValue(m, d))
<1>1. v \in Names(f) /\ v.base = d.var
  BY NamedNode DEF Var
<1>2. IsPlainType(DeclInfo[d.var].type)
  BY <1>1, NameIsPlain
<1>3. d.init # NoExpr => IsPointerCategory(DeclInfo[d.var].type)
  BY NodeCases DEF IsDeclaration, IsPointerNode
<1> DEFINE t == DeclInfo[d.var].type
           y == IF IsPointerCategory(t) THEN Invalid ELSE Opaque
           named == [m EXCEPT !.store = Put(@, v, y)]
<1>4. IsMachine(named) /\ named.outcome = m.outcome /\ named.store = Put(m.store, v, y) /\ named.vals = m.vals
  BY DEF IsMachine
<1>5. o = IF d.init = NoExpr THEN named ELSE Store(named, v, t, m.vals[d.init])
  BY DEF Declare
<1>6. ~IsAggregate(t)
  BY <1>2 DEF IsPlainType, IsAggregate, Category
<1> HIDE DEF named, t
<1>7. CASE d.init = NoExpr
  BY <1>1, <1>4, <1>5, <1>7 DEF t, FirstValue
<1>8. CASE d.init # NoExpr
  <2>1. o = [named EXCEPT !.store = Put(@, v, m.vals[d.init])]
    BY <1>5, <1>6, <1>8 DEF Store
  <2>2. IsMachine(o) /\ o.outcome = named.outcome /\ o.store = Put(named.store, v, m.vals[d.init])
    BY <1>4, <2>1 DEF IsMachine
  <2>3. o.store = Put(m.store, v, m.vals[d.init])
    BY <1>4, <2>2, PutTwice
  <2> QED
    BY <1>1, <1>3, <1>4, <1>8, <2>2, <2>3 DEF t, FirstValue
<1> QED
  BY <1>7, <1>8

(* The end of a scope takes the variable out of the store, and a store     *)
(* that was typed stays so.                                                *)
LEMMA ScopeEndTyped ==
  ASSUME NEW f, IsAnalysed(f), NEW d \in Locals(f), NEW m, IsMachine(m), IsTypedStore(f, m.store),
         NEW o, o = EndScope(m, d)
  PROVE  /\ IsMachine(o) /\ o.outcome = m.outcome
         /\ IsTypedStore(f, o.store) /\ DOMAIN o.store = {w \in DOMAIN m.store : w.base # d}
<1> DEFINE left == {w \in DOMAIN m.store : w.base # d}
           rest == [w \in left |-> m.store[w]]
           ended == [m EXCEPT !.store = [w \in {z \in DOMAIN @ : z.base # d} |-> @[w]]]
<1>1. IsMachine(ended) /\ ended.outcome = m.outcome /\ ended.store = rest
  BY DEF IsMachine
<1>2. o = Kill(ended, Var(d))
  BY DEF EndScope
<1> HIDE DEF ended
<1>3. /\ IsMachine(o) /\ o.outcome = m.outcome
      /\ o.store = [w \in DOMAIN rest |-> IF PointsInto(rest[w], Var(d)) THEN Invalid ELSE rest[w]]
  BY <1>1, <1>2 DEF IsMachine, Kill
<1>4. o.store = [w \in left |-> IF PointsInto(m.store[w], Var(d)) THEN Invalid ELSE m.store[w]]
  BY <1>3
<1>5. ASSUME NEW v \in left, IsPointerCategory(DeclInfo[v.base].type)
      PROVE  o.store[v] \in Holdable(o.store, DeclInfo[v.base].type)
  <2>1. m.store[v] \in Holdable(m.store, DeclInfo[v.base].type)
    BY <1>5 DEF IsTypedStore
  <2>2. CASE PointsInto(m.store[v], Var(d)) \/ m.store[v] \in {Null, Invalid}
    BY <1>4, <2>2 DEF Holdable
  <2>3. CASE ~PointsInto(m.store[v], Var(d)) /\ m.store[v] \notin {Null, Invalid}
    <3>1. m.store[v] \in DOMAIN m.store /\ m.store[v].path = <<>> /\ m.store[v] # Opaque
      BY <2>1, <2>3, HoldableValue DEF Holdable
    <3>2. m.store[v].base # d
      BY <2>3, <3>1 DEF PointsInto, Var, IsPrefix
    <3> QED
      BY <1>4, <2>1, <2>3, <3>1, <3>2 DEF Holdable
  <2> QED
    BY <2>2, <2>3
<1>6. ASSUME NEW v \in left, ~IsPointerCategory(DeclInfo[v.base].type)
      PROVE  o.store[v] = Opaque
  <2>1. m.store[v] = Opaque
    BY <1>6 DEF IsTypedStore
  <2> QED
    BY <1>4, <2>1 DEF PointsInto
<1> QED
  BY <1>3, <1>4, <1>5, <1>6 DEF IsTypedStore

(* The account is kept at the end of a scope. *)
LEMMA ScopeEndAccounts ==
  ASSUME NEW f, IsAnalysed(f), NEW d \in Locals(f), NEW m, IsMachine(m), IsTypedStore(f, m.store),
         NEW s, IsState(s), AccountsFor(s.pmap, m.store)
  PROVE  AccountsFor(EraseVariable(s, d).pmap, EndScope(m, d).store)
<1>1. Var(d) \in Names(f) /\ Var(d).base = d
  BY DEF Names, Var
<1>2. d # NoDecl /\ Kind(Var(d)) = "Local"
  BY <1>1, NameIsPlain
<1>3. \A v \in DOMAIN m.store : ~IsTemporaryExtendedBy(v, d)
  BY NameIsPlain DEF IsTypedStore, IsTemporaryExtendedBy
<1>4. IsStore(m.store)
  <2> SUFFICES ASSUME NEW v \in DOMAIN m.store
               PROVE  m.store[v] # Global
                      /\ (m.store[v] \notin {Null, Invalid, Opaque} => StaysInObject(m.store[v].path))
    BY DEF IsStore
  <2>1. CASE m.store[v] = Opaque
    BY <2>1, MarkersDiffer
  <2>2. CASE m.store[v] # Opaque
    <3>1. m.store[v] \in Holdable(m.store, DeclInfo[v.base].type)
      BY <2>2 DEF IsTypedStore
    <3>2. m.store[v] # Global /\ (m.store[v] \notin {Null, Invalid} => m.store[v].path = <<>>)
      BY <3>1, HoldableValue
    <3>3. StaysInObject(<<>>)
      BY DEF StaysInObject
    <3> QED
      BY <3>2, <3>3
  <2> QED
    BY <2>1, <2>2
<1>5. IsBuilder(s)
  BY DEF IsBuilder, IsState
<1>6. "store" \in DOMAIN m
  BY DEF IsMachine
<1> QED
  BY <1>2, <1>3, <1>4, <1>5, <1>6, ScopeEndIsSound

(* What the analysis knows of expression e goes with what it has evaluated *)
(* to: the location of an lvalue is in its pset, what a pointer holds is   *)
(* described by it.                                                        *)
Agrees(f, s, m, e) ==
  LET n == f.nodes[e]
      x == m.vals[e]
  IN  /\ e \in DOMAIN m.vals
      /\ n.lvalue => /\ x \in DOMAIN m.store /\ DeclInfo[x.base].type = n.type
                     /\ x \in s.exprs[e] /\ Invalid \notin s.exprs[e]
                     /\ n.k = "DeclRefExpr" => x = n.var
      /\ ~n.lvalue /\ IsPointerCategory(n.type) =>
           x \in Holdable(m.store, n.type) /\ Describes(PSetOf(f, s, e), x)

(* A condition evaluated last tells what it tests.                         *)
Truth(f, m, e) ==
  LET n == f.nodes[e]
      read == f.nodes[f.nodes[LoadOf(f, e)].sub]
      named == read.k = "DeclRefExpr"
  IN  /\ n.k = "LValueToRValue" =>
           /\ named => m.vals[e] = m.store[read.var]
           /\ ~IsPointerCategory(n.type) => m.vals[e] = Opaque
      /\ n.k = "BoolConversion" =>
           /\ m.vals[e] \in BOOLEAN
           /\ named => m.vals[e] = (m.store[read.var] # Null)
      /\ n.k = "UnaryOperator" /\ n.op = "LNot" =>
           IF f.nodes[n.sub].k = "BoolConversion"
           THEN /\ m.vals[e] \in BOOLEAN
                /\ named => m.vals[e] = (m.store[read.var] = Null)
           ELSE m.vals[e] = Opaque

(* Machine o is m with e evaluated. *)
Evaluates(f, t, m, o, e) ==
  /\ IsMachine(o) /\ o.outcome = "running"
  /\ IsTypedStore(f, o.store) /\ DOMAIN o.store = DOMAIN m.store
  /\ \A y \in DOMAIN m.vals \ {e} : y \in DOMAIN o.vals /\ o.vals[y] = m.vals[y]
  /\ Agrees(f, t, o, e) /\ AccountsFor(t.pmap, o.store) /\ Truth(f, o, e)

(* What an expression starts from. *)
Starts(f, s, m, n) ==
  /\ IsState(s) /\ s.pmap \in PMapsOf(f)
  /\ IsMachine(m) /\ m.outcome = "running" /\ IsTypedStore(f, m.store)
  /\ AccountsFor(s.pmap, m.store)
  /\ \A x \in UsedBy(n) : IsKnown(f, s, x) /\ Agrees(f, s, m, x)

(* A name evaluates to the location of its variable, as its pset says.     *)
LEMMA RunName ==
  ASSUME NEW f, IsAnalysed(f), f = F, NEW e \in DOMAIN f.nodes, f.nodes[e].k = "DeclRefExpr",
         NEW s, NEW m, Starts(f, s, m, f.nodes[e]), f.nodes[e].var \in DOMAIN m.store,
         NEW t, t = VisitElement(f, s, e), NEW o, o = Element(m, e)
  PROVE  Evaluates(f, t, m, o, e)
<1> DEFINE n == f.nodes[e]
           v == n.var
<1>1. IsDeclRef(n) /\ v \in Names(f) /\ v = Var(v.base) /\ n.type = DeclInfo[v.base].type /\ n.lvalue
  BY NodeCases, NamedNode DEF IsDeclRef
<1>2. ~TypeInfo[GetType(v)].isReference
  BY <1>1, NameIsPlain DEF IsPlainType
<1>3. o = Give(m, e, v)
  BY <1>2, ElementOfKind
<1>4. IsMachine(m) /\ IsState(s) /\ m.outcome = "running"
  BY DEF Starts
<1> HIDE DEF v
<1>5. Gives(m, o, e, v) /\ o.store = m.store
  BY <1>3, <1>4, GiveGives
<1>6. Records(s, t, e, {v}) /\ t.pmap = s.pmap
  BY <1>4, VisitName DEF v
<1>7. Agrees(f, t, o, e)
  BY <1>1, <1>5, <1>6, NamesAreNoMarkers DEF Agrees, Gives, Records, v
<1>8. Truth(f, o, e)
  BY DEF Truth
<1> QED
  BY <1>4, <1>5, <1>6, <1>7, <1>8 DEF Evaluates, Gives, Starts

(* A load of an lvalue reads what the store has there. *)
LEMMA RunLoad ==
  ASSUME NEW f, IsAnalysed(f), f = F, NEW e \in DOMAIN f.nodes, f.nodes[e].k = "LValueToRValue",
         NEW s, NEW m, Starts(f, s, m, f.nodes[e]),
         NEW t, t = VisitElement(f, s, e), NEW o, o = Element(m, e)
  PROVE  Evaluates(f, t, m, o, e)
<1> DEFINE n == f.nodes[e]
           c == n.sub
           w == m.vals[c]
           x == m.store[w]
<1>1. IsMachine(m) /\ IsState(s) /\ m.outcome = "running" /\ s.pmap \in PMapsOf(f) /\ IsTypedStore(f, m.store)
      /\ AccountsFor(s.pmap, m.store) /\ IsKnown(f, s, c) /\ Agrees(f, s, m, c)
  BY DEF Starts, UsedBy
<1>2. /\ IsLoad(f, n) /\ c \in DOMAIN f.nodes /\ f.nodes[c].lvalue /\ f.nodes[c].type = n.type
      /\ f.nodes[c].k \in {"DeclRefExpr", "UnaryOperator", "BinaryOperator"} /\ ~n.lvalue
  BY LoadNode DEF IsLoad
<1>3. /\ w \in DOMAIN m.store /\ DeclInfo[w.base].type = n.type /\ w \in s.exprs[c] /\ Invalid \notin s.exprs[c]
      /\ f.nodes[c].k = "DeclRefExpr" => w = f.nodes[c].var
  BY <1>1, <1>2 DEF Agrees
<1>4. o = Give(m, e, x)
  BY ElementOfKind
<1> HIDE DEF w, x, c
<1>5. Gives(m, o, e, x) /\ o.store = m.store
  BY <1>1, <1>4, GiveGives
<1>6. IF IsPointerCategory(n.type) THEN x \in Holdable(m.store, n.type) ELSE x = Opaque
  BY <1>1, <1>3 DEF IsTypedStore, x
<1>7. LoadOf(f, e) = e
  BY DEF LoadOf
<1>8. Truth(f, o, e)
  BY <1>3, <1>5, <1>6, <1>7 DEF Truth, Gives, x, c
<1>9. CASE ~IsPointerCategory(n.type)
  <2>1. t = s
    BY <1>1, <1>9, VisitNothing
  <2>2. Agrees(f, t, o, e)
    BY <1>2, <1>5, <1>9 DEF Agrees, Gives
  <2> QED
    BY <1>1, <1>5, <1>8, <2>1, <2>2 DEF Evaluates, Gives
<1>10. CASE IsPointerCategory(n.type)
  <2>1. s.exprs[c] \in PSets(f)
    <3>1. HasPSet(f, c) /\ f.nodes[c].k # "NullPtrLiteral"
      BY <1>2, HasPSetOfNode DEF EndsStatement
    <3> QED
      BY <1>1, <3>1 DEF IsKnown
  <2>2. t.pmap = s.pmap /\ \E ps : /\ ArePointersOf(ps, s.exprs[c])
                                  /\ Records(s, t, e, DerefPSet(s.pmap, ps))
    BY <1>1, <1>10, <2>1, VisitLoad DEF c
  <2>3. PICK ps : ArePointersOf(ps, s.exprs[c]) /\ Records(s, t, e, DerefPSet(s.pmap, ps))
    BY <2>2
  <2>4. w \in Names(f) /\ GetType(w) = n.type
    BY <1>1, <1>3, NameIsPlain DEF IsTypedStore
  <2>5. w \in ps /\ ps \subseteq s.exprs[c] /\ ps \in PSets(f) /\ Invalid \notin ps
    BY <1>3, <1>10, <2>1, <2>3, <2>4 DEF ArePointersOf, PSets
  <2>6. GetPSet(s.pmap, w) \subseteq DerefPSet(s.pmap, ps)
    BY <1>1, <2>4, <2>5, DerefOfNames
  <2>7. x # Opaque
    BY <1>1, <1>6, <1>10, HoldableValue
  <2>8. w \in DOMAIN s.pmap /\ Describes(s.pmap[w], x)
    BY <1>1, <1>3, <2>7 DEF AccountsFor, x
  <2>9. Describes(DerefPSet(s.pmap, ps), x)
    BY <2>4, <2>6, <2>8, GetPSetOfName, MoreDescribesAsMuch
  <2>10. PSetOf(f, t, e) = DerefPSet(s.pmap, ps)
    BY <2>3, PSetOfNode DEF Records
  <2>11. Agrees(f, t, o, e)
    BY <1>2, <1>5, <1>6, <1>10, <2>9, <2>10 DEF Agrees, Gives
  <2> QED
    BY <1>1, <1>5, <1>8, <2>2, <2>11 DEF Evaluates, Gives
<1> QED
  BY <1>9, <1>10

-----------------------------------------------------------------------------
(* What an expression evaluates to.                                        *)

(* Past a dereference goes only what points somewhere; what does not is    *)
(* reported.                                                               *)
LEMMA RunStar ==
  ASSUME NEW f, IsAnalysed(f), f = F, LifetimeNull, NEW e \in DOMAIN f.nodes,
         f.nodes[e].k = "UnaryOperator", f.nodes[e].op = "Deref",
         NEW s, NEW m, Starts(f, s, m, f.nodes[e]),
         NEW t, t = VisitElement(f, s, e), Told(t.diags) \subseteq DOMAIN reports,
         NEW o, o = Element(m, e)
  PROVE  /\ IsMachine(o)
         /\ IF o.outcome = "running" THEN Evaluates(f, t, m, o, e)
            ELSE o.outcome = "fault" => o.at \in DOMAIN reports
<1> DEFINE n == f.nodes[e]
           c == n.sub
           w == m.vals[c]
           ps == PSetOf(f, s, c)
<1>1. IsMachine(m) /\ IsState(s) /\ m.outcome = "running" /\ s.pmap \in PMapsOf(f) /\ IsTypedStore(f, m.store)
      /\ AccountsFor(s.pmap, m.store) /\ IsKnown(f, s, c) /\ Agrees(f, s, m, c)
  BY DEF Starts, UsedBy
<1>2. /\ n.lvalue /\ c \in DOMAIN f.nodes /\ ~f.nodes[c].lvalue /\ IsPointerCategory(f.nodes[c].type)
      /\ n.type = PointeeType(f.nodes[c].type) /\ IsPointerNode(f, c, f.nodes[c].type)
  BY NodeCases DEF IsStar, IsPointerNode
<1>3. w \in Holdable(m.store, f.nodes[c].type) /\ Describes(ps, w)
  BY <1>1, <1>2 DEF Agrees
<1>4. ps \in PSets(f)
  BY <1>1, <1>2, OperandPSet
<1>5. /\ Records(s, t, e, ps) /\ t.pmap = s.pmap
      /\ ~IsValid(ps) => n.loc \in DOMAIN reports
  BY <1>1, VisitStar
<1>6. o = Dereference(m, e, n)
  BY ElementOfKind
<1>7. o = IF w \in {Null, Invalid} \/ n.loc \in DOMAIN reports
          THEN End(m, w \in {Null, Invalid}, n.loc) ELSE Give(m, e, w)
  BY <1>6 DEF Dereference
<1> HIDE DEF w, ps, c
<1>8. w \in {Null, Invalid} => n.loc \in DOMAIN reports
  <2> SUFFICES ASSUME w \in {Null, Invalid} PROVE ~IsValid(ps)
    BY <1>5
  <2>1. Invalid \in ps \/ w \in ps
    BY <1>3 DEF Describes
  <2> QED
    BY <2>1 DEF IsValid
<1>9. CASE w \in {Null, Invalid} \/ n.loc \in DOMAIN reports
  <2>1. n.loc \in DOMAIN reports
    BY <1>8, <1>9
  <2>2. o = [m EXCEPT !.outcome = IF w \in {Null, Invalid} THEN "fault" ELSE "survived", !.at = n.loc]
    BY <1>7, <1>9 DEF End
  <2>3. IsMachine(o) /\ o.at = n.loc /\ o.outcome = IF w \in {Null, Invalid} THEN "fault" ELSE "survived"
    BY <1>1, <2>2 DEF IsMachine
  <2> QED
    BY <2>1, <2>3
<1>10. CASE ~(w \in {Null, Invalid} \/ n.loc \in DOMAIN reports)
  <2>1. Gives(m, o, e, w) /\ o.store = m.store
    BY <1>1, <1>7, <1>10, GiveGives
  <2>2. IsValid(ps)
    BY <1>5, <1>10
  <2>3. w \in DOMAIN m.store /\ DeclInfo[w.base].type = n.type
    BY <1>2, <1>3, <1>10 DEF Holdable
  <2>4. w \in ps /\ Invalid \notin ps
    <3>1. Kind(w) = "Local"
      BY <1>1, <2>3, NameIsPlain DEF IsTypedStore
    <3> QED
      BY <1>3, <2>2, <3>1 DEF Describes, IsValid
  <2>5. Agrees(f, t, o, e)
    BY <1>2, <1>5, <2>1, <2>3, <2>4 DEF Agrees, Gives, Records
  <2>6. Truth(f, o, e)
    BY DEF Truth
  <2>7. Evaluates(f, t, m, o, e)
    BY <1>1, <1>5, <2>1, <2>5, <2>6 DEF Evaluates, Gives
  <2> QED
    BY <2>7 DEF Evaluates
<1> QED
  BY <1>9, <1>10

(* An address evaluates to the location it is taken of, as its pset says.  *)
LEMMA RunAddress ==
  ASSUME NEW f, IsAnalysed(f), f = F, NEW e \in DOMAIN f.nodes,
         f.nodes[e].k = "UnaryOperator", f.nodes[e].op = "AddrOf",
         NEW s, NEW m, Starts(f, s, m, f.nodes[e]),
         NEW t, t = VisitElement(f, s, e), NEW o, o = Element(m, e)
  PROVE  Evaluates(f, t, m, o, e)
<1> DEFINE n == f.nodes[e]
           c == n.sub
           w == m.vals[c]
<1>1. IsMachine(m) /\ IsState(s) /\ m.outcome = "running" /\ s.pmap \in PMapsOf(f) /\ IsTypedStore(f, m.store)
      /\ AccountsFor(s.pmap, m.store) /\ IsKnown(f, s, c) /\ Agrees(f, s, m, c)
  BY DEF Starts, UsedBy
<1>2. /\ ~n.lvalue /\ c \in DOMAIN f.nodes /\ f.nodes[c].lvalue /\ IsPointerCategory(n.type)
      /\ f.nodes[c].type = PointeeType(n.type) /\ f.nodes[c].k # "NullPtrLiteral"
  BY NodeCases DEF IsAddress, IsLValueNode
<1>3. w \in DOMAIN m.store /\ DeclInfo[w.base].type = PointeeType(n.type) /\ w \in s.exprs[c]
  BY <1>1, <1>2 DEF Agrees
<1>4. PSetOf(f, s, c) = s.exprs[c]
  BY <1>2, PSetOfNode
<1>5. o = Give(m, e, w)
  BY ElementOfKind
<1>6. Records(s, t, e, s.exprs[c]) /\ t.pmap = s.pmap
  BY <1>1, <1>4, VisitAddress
<1> HIDE DEF w, c
<1>7. Gives(m, o, e, w) /\ o.store = m.store
  BY <1>1, <1>5, GiveGives
<1>8. PSetOf(f, t, e) = s.exprs[c]
  BY <1>6, PSetOfNode DEF Records
<1>9. Agrees(f, t, o, e)
  BY <1>2, <1>3, <1>7, <1>8 DEF Agrees, Gives, Holdable, Describes
<1>10. Truth(f, o, e)
  BY DEF Truth
<1> QED
  BY <1>1, <1>6, <1>7, <1>9, <1>10 DEF Evaluates, Gives

(* A null pointer evaluates to null, as its pset says.                     *)
LEMMA RunNull ==
  ASSUME NEW f, IsAnalysed(f), f = F, NEW e \in DOMAIN f.nodes,
         f.nodes[e].k \in {"NullPtrLiteral", "NullToPointer"},
         NEW s, NEW m, Starts(f, s, m, f.nodes[e]),
         NEW t, t = VisitElement(f, s, e), NEW o, o = Element(m, e)
  PROVE  Evaluates(f, t, m, o, e)
<1> DEFINE n == f.nodes[e]
<1>1. IsMachine(m) /\ IsState(s) /\ m.outcome = "running" /\ s.pmap \in PMapsOf(f) /\ IsTypedStore(f, m.store)
      /\ AccountsFor(s.pmap, m.store)
  BY DEF Starts
<1>2. ~n.lvalue
  BY NodeCases DEF IsNullLiteral
<1>3. o = Give(m, e, Null)
  BY ElementOfKind
<1>4. Gives(m, o, e, Null) /\ o.store = m.store
  BY <1>1, <1>3, GiveGives
<1>5. t.pmap = s.pmap /\ PSetOf(f, t, e) = {Null}
  <2>1. CASE n.k = "NullPtrLiteral"
    BY <1>1, <2>1, VisitNothing, PSetOfNode
  <2>2. CASE n.k = "NullToPointer"
    <3>1. PICK ps : ps = {Null} /\ Records(s, t, e, ps)
      BY <1>1, <2>2, VisitNullCast
    <3>2. t.pmap = s.pmap
      BY <1>1, <2>2, VisitNullCast
    <3> QED
      BY <2>2, <3>1, <3>2, PSetOfNode DEF Records
  <2> QED
    BY <2>1, <2>2
<1>6. Agrees(f, t, o, e)
  BY <1>2, <1>4, <1>5 DEF Agrees, Gives, Holdable, Describes
<1>7. Truth(f, o, e)
  BY DEF Truth
<1> QED
  BY <1>1, <1>4, <1>5, <1>6, <1>7 DEF Evaluates, Gives

(* An assignment stores what the psets say. *)
LEMMA RunAssignment ==
  ASSUME NEW f, IsAnalysed(f), f = F, NEW e \in DOMAIN f.nodes, f.nodes[e].k = "BinaryOperator",
         NEW s, NEW m, Starts(f, s, m, f.nodes[e]),
         NEW t, t = VisitElement(f, s, e), NEW o, o = Element(m, e)
  PROVE  Evaluates(f, t, m, o, e)
<1> DEFINE n == f.nodes[e]
           a == n.lhs
           b == n.rhs
           l == m.vals[a]
           x == m.vals[b]
           lhs == PSetOf(f, s, a)
           rhs == PSetOf(f, s, b)
<1>1. IsMachine(m) /\ IsState(s) /\ m.outcome = "running" /\ s.pmap \in PMapsOf(f) /\ IsTypedStore(f, m.store)
      /\ AccountsFor(s.pmap, m.store) /\ IsKnown(f, s, a) /\ Agrees(f, s, m, a)
      /\ IsKnown(f, s, b) /\ Agrees(f, s, m, b)
  BY DEF Starts, UsedBy
<1>2. /\ n.lvalue /\ IsPointerCategory(n.type) /\ IsLValueNode(f, a, n.type) /\ IsPointerNode(f, b, n.type)
  BY NodeCases DEF IsAssign
<1>3. l \in DOMAIN m.store /\ DeclInfo[l.base].type = n.type /\ l \in s.exprs[a] /\ Invalid \notin s.exprs[a]
  BY <1>1, <1>2 DEF Agrees, IsLValueNode
<1>4. lhs = s.exprs[a]
  BY <1>2, PSetOfNode DEF IsLValueNode
<1>5. x \in Holdable(m.store, n.type) /\ Describes(rhs, x)
  BY <1>1, <1>2 DEF Agrees, IsPointerNode
<1>6. o = Assigning(m, e, l, x)
  BY ElementOfKind
<1>7. lhs \in PSets(f)
  BY <1>1, <1>2, OperandPSet
<1> HIDE DEF lhs, rhs, l, x
<1>8. Records(s, t, e, lhs) /\ t.pmap = Assigned(s.pmap, lhs, rhs)
  BY <1>1, VisitAssignment DEF lhs, rhs
<1>9. Gives(m, o, e, l) /\ o.store = Put(m.store, l, x)
  BY <1>1, <1>3, <1>6, AssignGives
<1>10. l \in Names(f) /\ l \in VarsOf(lhs)
  BY <1>1, <1>3, <1>4, NamesAreNoMarkers DEF IsTypedStore, VarsOf
<1>11. DOMAIN Put(m.store, l, x) = DOMAIN m.store
  BY <1>3 DEF Put
<1>12. IsTypedStore(f, o.store) /\ DOMAIN o.store = DOMAIN m.store
  <2>1. x \in Holdable(Put(m.store, l, x), DeclInfo[l.base].type)
    BY <1>3, <1>5, <1>11 DEF Holdable
  <2>2. IsPointerCategory(DeclInfo[l.base].type)
    BY <1>2, <1>3
  <2>3. IsTypedStore(f, Put(m.store, l, x))
    BY <1>1, <1>10, <2>1, <2>2, PutTyped
  <2> QED
    BY <1>9, <1>11, <2>3
<1>13. AccountsFor(t.pmap, o.store)
  BY <1>1, <1>5, <1>7, <1>8, <1>9, <1>10, NamesAreFinite, AssignedIsSound
<1>14. Agrees(f, t, o, e)
  BY <1>2, <1>3, <1>4, <1>8, <1>9, <1>11 DEF Agrees, Gives, Records
<1>15. Truth(f, o, e)
  BY DEF Truth
<1> QED
  BY <1>1, <1>9, <1>12, <1>13, <1>14, <1>15 DEF Evaluates, Gives

(* Tests and negations. *)
LEMMA RunTest ==
  ASSUME NEW f, IsAnalysed(f), f = F, NEW e \in DOMAIN f.nodes, f.nodes[e].k = "BoolConversion",
         NEW s, NEW m, Starts(f, s, m, f.nodes[e]), Truth(f, m, f.nodes[e].sub),
         NEW t, t = VisitElement(f, s, e), NEW o, o = Element(m, e)
  PROVE  Evaluates(f, t, m, o, e)
<1> DEFINE n == f.nodes[e]
           c == n.sub
           read == f.nodes[f.nodes[c].sub]
           x == m.vals[c]
           b == x # Null
<1>1. IsMachine(m) /\ IsState(s) /\ m.outcome = "running" /\ s.pmap \in PMapsOf(f) /\ IsTypedStore(f, m.store)
      /\ AccountsFor(s.pmap, m.store)
  BY DEF Starts
<1>2. /\ ~n.lvalue /\ ~IsPointerCategory(n.type)
      /\ c \in DOMAIN f.nodes /\ f.nodes[c].k = "LValueToRValue"
  BY NodeCases DEF IsTest
<1>3. LoadOf(f, e) = c /\ LoadOf(f, c) = c
  BY <1>2 DEF LoadOf
<1>4. read.k = "DeclRefExpr" => x = m.store[read.var]
  BY <1>2, <1>3 DEF Truth
<1>5. o = Give(m, e, b)
  BY ElementOfKind
<1>6. b \in BOOLEAN
  OBVIOUS
<1>7. b = (x # Null)
  OBVIOUS
<1> HIDE DEF b
<1>8. Gives(m, o, e, b) /\ o.store = m.store
  BY <1>1, <1>5, GiveGives
<1>9. t = s
  BY <1>1, VisitNothing
<1>10. Agrees(f, t, o, e)
  BY <1>2, <1>8 DEF Agrees, Gives
<1>11. Truth(f, o, e)
  <2>1. o.vals[e] = b
    BY <1>8 DEF Gives
  <2>2. o.vals[e] \in BOOLEAN
    BY <1>6, <2>1
  <2>3. read.k = "DeclRefExpr" => b = (m.store[read.var] # Null)
    BY <1>4, <1>7
  <2>4. read.k = "DeclRefExpr" => o.vals[e] = (o.store[read.var] # Null)
    BY <1>8, <2>1, <2>3
  <2> HIDE DEF read
  <2>5. read = f.nodes[f.nodes[LoadOf(f, e)].sub]
    BY <1>3 DEF read
  <2> QED
    BY <2>2, <2>4, <2>5 DEF Truth
<1> QED
  BY <1>1, <1>8, <1>9, <1>10, <1>11 DEF Evaluates, Gives

(* A negation evaluates to the opposite of what was evaluated before it.   *)
LEMMA RunNegation ==
  ASSUME NEW f, IsAnalysed(f), f = F, NEW e \in DOMAIN f.nodes,
         f.nodes[e].k = "UnaryOperator", f.nodes[e].op = "LNot",
         NEW s, NEW m, Starts(f, s, m, f.nodes[e]), Truth(f, m, f.nodes[e].sub),
         NEW t, t = VisitElement(f, s, e), NEW o, o = Element(m, e)
  PROVE  Evaluates(f, t, m, o, e)
<1> DEFINE n == f.nodes[e]
           c == n.sub
           read == f.nodes[f.nodes[LoadOf(f, c)].sub]
           x == m.vals[c]
           b == IF x = Opaque THEN Opaque ELSE ~x
<1>1. IsMachine(m) /\ IsState(s) /\ m.outcome = "running" /\ s.pmap \in PMapsOf(f) /\ IsTypedStore(f, m.store)
      /\ AccountsFor(s.pmap, m.store)
  BY DEF Starts
<1>2. /\ IsNegation(f, n) /\ ~n.lvalue /\ ~IsPointerCategory(n.type)
      /\ c \in DOMAIN f.nodes /\ f.nodes[c].k \in {"BoolConversion", "LValueToRValue"}
      /\ ~IsPointerCategory(f.nodes[c].type)
  BY NodeCases DEF IsNegation
<1>3. LoadOf(f, e) = LoadOf(f, c)
  BY <1>2 DEF LoadOf
<1>4. /\ f.nodes[c].k = "LValueToRValue" => x = Opaque
      /\ f.nodes[c].k = "BoolConversion" =>
           x \in BOOLEAN /\ (read.k = "DeclRefExpr" => x = (m.store[read.var] # Null))
  BY <1>2 DEF Truth
<1>5. o = Give(m, e, b)
  BY ElementOfKind
<1> HIDE DEF b, x, read
<1>6. Gives(m, o, e, b) /\ o.store = m.store
  BY <1>1, <1>5, GiveGives
<1>7. t = s
  BY <1>1, VisitNothing
<1>8. Agrees(f, t, o, e)
  BY <1>2, <1>6 DEF Agrees, Gives
<1>9. o.vals[e] = b /\ n.k # "LValueToRValue" /\ n.k # "BoolConversion"
  BY <1>6 DEF Gives
<1>10. Truth(f, o, e)
  <2>1. CASE f.nodes[c].k = "LValueToRValue"
    <3>1. b = Opaque
      BY <1>4, <2>1 DEF b
    <3> QED
      BY <1>9, <2>1, <3>1 DEF Truth
  <2>2. CASE f.nodes[c].k = "BoolConversion"
    <3>1. x \in BOOLEAN /\ x # Opaque
      BY <1>4, <2>2, MarkersAssumption
    <3>2. b = ~x
      BY <3>1 DEF b
    <3>3. b \in BOOLEAN
      BY <3>1, <3>2
    <3>4. read.k = "DeclRefExpr" => b = (m.store[read.var] = Null)
      <4>1. read.k = "DeclRefExpr" => x = (m.store[read.var] # Null)
        BY <1>4, <2>2
      <4> DEFINE isNull == m.store[read.var] = Null
      <4>2. isNull \in BOOLEAN /\ (read.k = "DeclRefExpr" => x = ~isNull)
        BY <4>1
      <4> HIDE DEF isNull
      <4>3. read.k = "DeclRefExpr" => b = isNull
        BY <3>2, <4>2
      <4> QED
        BY <4>3 DEF isNull
    <3>5. o.vals[e] \in BOOLEAN
      BY <1>9, <3>3
    <3>6. read.k = "DeclRefExpr" => o.vals[e] = (o.store[read.var] = Null)
      BY <1>6, <1>9, <3>4
    <3>7. read = f.nodes[f.nodes[LoadOf(f, e)].sub]
      BY <1>3 DEF read
    <3> QED
      BY <1>9, <2>2, <3>5, <3>6, <3>7 DEF Truth
  <2> QED
    BY <1>2, <2>1, <2>2
<1> QED
  BY <1>1, <1>6, <1>7, <1>8, <1>10 DEF Evaluates, Gives

(* Any expression *)
LEMMA RunExpression ==
  ASSUME NEW f, IsAnalysed(f), f = F, LifetimeNull, NEW e \in DOMAIN f.nodes, ~EndsStatement(f.nodes[e]),
         NEW s, NEW m, Starts(f, s, m, f.nodes[e]),
         f.nodes[e].k = "DeclRefExpr" => f.nodes[e].var \in DOMAIN m.store,
         IsTest(f, f.nodes[e]) \/ IsNegation(f, f.nodes[e]) => Truth(f, m, f.nodes[e].sub),
         NEW t, t = VisitElement(f, s, e), Told(t.diags) \subseteq DOMAIN reports,
         NEW o, o = Element(m, e)
  PROVE  /\ IsMachine(o)
         /\ IF o.outcome = "running" THEN Evaluates(f, t, m, o, e)
            ELSE o.outcome = "fault" => o.at \in DOMAIN reports
<1> DEFINE n == f.nodes[e]
<1>8. CASE n.k = "UnaryOperator" /\ n.op = "Deref"
  BY <1>8, RunStar
<1>9. SUFFICES ASSUME ~(n.k = "UnaryOperator" /\ n.op = "Deref") PROVE Evaluates(f, t, m, o, e)
  <2>1. Evaluates(f, t, m, o, e) => IsMachine(o) /\ o.outcome = "running"
    BY DEF Evaluates
  <2> QED
    BY <1>8, <1>9, <2>1
<1>2. CASE n.k = "DeclRefExpr"
  BY <1>2, RunName
<1>3. CASE n.k = "LValueToRValue"
  BY <1>3, RunLoad
<1>4. CASE n.k \in {"NullPtrLiteral", "NullToPointer"}
  BY <1>4, RunNull
<1>5. CASE n.k = "BinaryOperator"
  BY <1>5, RunAssignment
<1>6. CASE n.k = "BoolConversion"
  <2>1. IsTest(f, n)
    BY <1>6, NodeCases
  <2> QED
    BY <1>6, <2>1, RunTest
<1>7. CASE n.k = "UnaryOperator"
  <2>1. CASE n.op = "AddrOf"
    BY <1>7, <2>1, RunAddress
  <2>2. CASE n.op = "LNot"
    <3>1. IsNegation(f, n)
      BY <1>7, <2>2, NodeCases
    <3> QED
      BY <1>7, <2>2, <3>1, RunNegation
  <2> QED
    BY <1>7, <1>9, <2>1, <2>2, NodeCases
<1> QED
  BY <1>2, <1>3, <1>4, <1>5, <1>6, <1>7, NodeKinds DEF Kinds, EndsStatement

(* All but what e maps to is kept. *)
Keeps(old, new, e) == \A y \in DOMAIN old \ {e} : y \in DOMAIN new /\ new[y] = old[y]

(* What is known of another expression stays known. *)
LEMMA StillAgrees ==
  ASSUME NEW f, IsAnalysed(f), NEW x \in DOMAIN f.nodes, ~EndsStatement(f.nodes[x]),
         NEW s, NEW t, NEW m, NEW o, NEW e, x # e, IsKnown(f, s, x), Agrees(f, s, m, x),
         Keeps(s.exprs, t.exprs, e), Keeps(m.vals, o.vals, e), DOMAIN o.store = DOMAIN m.store
  PROVE  Agrees(f, t, o, x)
<1> DEFINE n == f.nodes[x]
<1>1. x \in DOMAIN m.vals /\ x \in DOMAIN o.vals /\ o.vals[x] = m.vals[x]
  BY DEF Agrees, Keeps
<1>2. \A a : Holdable(m.store, a) = Holdable(o.store, a)
  BY DEF Holdable
<1>3. HasPSet(f, x) /\ n.k # "NullPtrLiteral" => t.exprs[x] = s.exprs[x]
  BY DEF IsKnown, Keeps
<1>4. n.lvalue => HasPSet(f, x) /\ n.k # "NullPtrLiteral"
  BY HasPSetOfNode, NodeCases DEF IsNullLiteral
<1>5. IsPointerCategory(n.type) => HasPSet(f, x)
  BY HasPSetOfNode
<1>6. IsPointerCategory(n.type) => PSetOf(f, t, x) = PSetOf(f, s, x)
  <2>1. PSetOf(f, t, x) = IF n.k = "NullPtrLiteral" THEN {Null} ELSE t.exprs[x]
    BY PSetOfNode
  <2>2. PSetOf(f, s, x) = IF n.k = "NullPtrLiteral" THEN {Null} ELSE s.exprs[x]
    BY PSetOfNode
  <2>3. CASE n.k = "NullPtrLiteral"
    BY <2>1, <2>2, <2>3
  <2>4. CASE n.k # "NullPtrLiteral"
    BY <1>3, <1>5, <2>1, <2>2, <2>4
  <2> QED
    BY <2>3, <2>4
<1> QED
  BY <1>1, <1>2, <1>3, <1>4, <1>6 DEF Agrees

(* The scope after one more element. *)
LEMMA ScopeStep ==
  ASSUME NEW f, NEW elems, NEW i \in Nat, NEW before, NEW d \in ScopeAt(f, elems, i + 1, before)
  PROVE  /\ d \in Locals(f)
         /\ \/ d \in ScopeAt(f, elems, i, before) /\ ~Ends(f, elems[i + 1], d)
            \/ Declares(f, elems[i + 1], d)
<1>1. d \in Locals(f)
  BY DEF ScopeAt
<1>2. i + 1 \in 1..(i + 1) /\ \A k \in 1..i : k \in 1..(i + 1)
  OBVIOUS
<1>3. CASE d \in before /\ \A k \in 1..(i + 1) : ~Ends(f, elems[k], d)
  BY <1>1, <1>2, <1>3 DEF ScopeAt
<1>4. CASE \E j \in 1..(i + 1) : Declares(f, elems[j], d) /\ \A k \in (j + 1)..(i + 1) : ~Ends(f, elems[k], d)
  <2>1. PICK j \in 1..(i + 1) : Declares(f, elems[j], d) /\ \A k \in (j + 1)..(i + 1) : ~Ends(f, elems[k], d)
    BY <1>4
  <2>2. CASE j = i + 1
    BY <1>1, <2>1, <2>2
  <2>3. CASE j # i + 1
    <3>1. j \in 1..i /\ i + 1 \in (j + 1)..(i + 1) /\ \A k \in (j + 1)..i : k \in (j + 1)..(i + 1)
      BY <2>3
    <3>2. \A k \in (j + 1)..i : ~Ends(f, elems[k], d)
      BY <2>1, <3>1
    <3> QED
      BY <1>1, <2>1, <3>1, <3>2 DEF ScopeAt
  <2> QED
    BY <2>2, <2>3
<1> QED
  BY <1>3, <1>4 DEF ScopeAt

(* What holds of a machine after the first i elements of a block, when s   *)
(* is what a visit has made of them and the locals before were in scope.   *)
MachineInv(f, elems, i, before, s, m) ==
  /\ IsMachine(m) /\ IsTypedStore(f, m.store)
  /\ \A d \in ScopeAt(f, elems, i, before) : Var(d) \in DOMAIN m.store
  /\ AccountsFor(s.pmap, m.store)
  /\ \A x : IsFresh(f, elems, x, i) => Agrees(f, s, m, x)
  /\ i > 0 => Truth(f, m, elems[i])

(* An expression run after its visit: what it evaluates to is what its     *)
(* pset says, or the program stops where the visit has told of it.         *)
LEMMA RunsExpression ==
  ASSUME NEW f, IsAnalysed(f), f = F, LifetimeNull,
         NEW elems, IsBlock(f, elems), NEW i \in 0..(Len(elems) - 1), NEW before,
         f.nodes[elems[i + 1]].k = "DeclRefExpr" =>
           f.nodes[elems[i + 1]].var.base \in ScopeAt(f, elems, i, before),
         ~EndsStatement(f.nodes[elems[i + 1]]),
         NEW s, BlockInv(f, elems, i, s),
         NEW m, MachineInv(f, elems, i, before, s, m), m.outcome = "running",
         NEW t, t = VisitElement(f, s, elems[i + 1]), Told(t.diags) \subseteq DOMAIN reports,
         NEW o, o = Element(m, elems[i + 1])
  PROVE  /\ IsMachine(o)
         /\ IF o.outcome = "running" THEN MachineInv(f, elems, i + 1, before, t, o)
            ELSE o.outcome = "fault" => o.at \in DOMAIN reports
<1> DEFINE e == elems[i + 1]
           n == f.nodes[e]
<1>1. i \in Nat /\ e \in DOMAIN f.nodes /\ i + 1 \in 1..Len(elems) /\ \A x \in UsedBy(n) : IsFresh(f, elems, x, i)
  BY ElementsAreNodes
<1>2. Starts(f, s, m, n)
  BY <1>1 DEF Starts, BlockInv, MachineInv
<1>3. n.k = "DeclRefExpr" => n.var \in DOMAIN m.store
  <2> SUFFICES ASSUME n.k = "DeclRefExpr" PROVE n.var \in DOMAIN m.store
    OBVIOUS
  <2>1. n.var = Var(n.var.base)
    BY <1>1, NodeCases DEF IsDeclRef
  <2> QED
    BY <2>1 DEF MachineInv
<1>4. IsTest(f, n) \/ IsNegation(f, n) => Truth(f, m, n.sub)
  <2> SUFFICES ASSUME IsTest(f, n) \/ IsNegation(f, n) PROVE Truth(f, m, n.sub)
    OBVIOUS
  <2>1. (i + 1) - 1 = i
    BY <1>1
  <2>2. i + 1 > 1 /\ n.sub = elems[i]
    BY <1>1, <2>1 DEF IsBlock, IsOrdered
  <2>3. i > 0
    BY <1>1, <2>2
  <2> QED
    BY <2>2, <2>3 DEF MachineInv
<1> HIDE DEF e
<1>5. t = VisitElement(f, s, e) /\ o = Element(m, e) /\ e = elems[i + 1]
  BY DEF e
<1>6. /\ IsMachine(o)
      /\ IF o.outcome = "running" THEN Evaluates(f, t, m, o, e)
         ELSE o.outcome = "fault" => o.at \in DOMAIN reports
  BY <1>1, <1>2, <1>3, <1>4, <1>5, RunExpression DEF e
<1>7. SUFFICES ASSUME o.outcome = "running" PROVE MachineInv(f, elems, i + 1, before, t, o)
  BY <1>6
<1>8. Evaluates(f, t, m, o, e)
  BY <1>6, <1>7
<1>9. Keeps(s.exprs, t.exprs, e)
  BY <1>1, <1>2, <1>5, VisitExpression DEF Starts, Keeps, e
<1>10. \A d \in ScopeAt(f, elems, i + 1, before) : Var(d) \in DOMAIN o.store
  <2> TAKE d \in ScopeAt(f, elems, i + 1, before)
  <2>1. ~Declares(f, e, d)
    BY <1>5 DEF Declares, EndsStatement
  <2>2. d \in ScopeAt(f, elems, i, before)
    BY <1>1, <1>5, <2>1, ScopeStep
  <2> QED
    BY <1>8, <2>2 DEF MachineInv, Evaluates
<1>11. ASSUME NEW x, IsFresh(f, elems, x, i + 1) PROVE Agrees(f, t, o, x)
  <2>1. CASE x = e
    BY <1>8, <2>1 DEF Evaluates
  <2>2. CASE x # e
    <3>1. IsFresh(f, elems, x, i)
      BY <1>1, <1>5, <1>11, <2>2, FreshStep
    <3>2. x \in DOMAIN f.nodes /\ ~EndsStatement(f.nodes[x])
      BY <1>1, <3>1, FreshAreNodes, ElementsAreNodes
    <3>3. IsKnown(f, s, x) /\ Agrees(f, s, m, x)
      BY <3>1 DEF BlockInv, MachineInv
    <3>4. /\ DOMAIN o.store = DOMAIN m.store
          /\ Keeps(m.vals, o.vals, e)
      BY <1>8 DEF Evaluates, Keeps
    <3> HIDE DEF n
    <3> QED
      BY <1>9, <2>2, <3>2, <3>3, <3>4, StillAgrees
  <2> QED
    BY <2>1, <2>2
<1> QED
  BY <1>5, <1>8, <1>10, <1>11 DEF MachineInv, Evaluates

-----------------------------------------------------------------------------
(* What a statement stores.                                                *)

(* To store what is no pointer takes nothing. *)
LEMMA AssignedOpaque ==
  ASSUME NEW p, NEW v, v \notin Special, NEW ps, NEW st, AccountsFor(p, st)
  PROVE  AccountsFor(Assigned(p, {v}, ps), Put(st, v, Opaque))
<1>1. VarsOf({v}) = {v}
  BY DEF VarsOf
<1>2. Cardinality({v}) = 1
  BY FS_Singleton
<1>3. Assigned(p, {v}, ps) = SetVars(p, {v}, ps)
  BY <1>1, <1>2 DEF Assigned
<1> DEFINE new == SetVars(p, {v}, ps)
           stored == Put(st, v, Opaque)
<1>4. DOMAIN new = {v} \cup DOMAIN p /\ \A w \in DOMAIN p \ {v} : new[w] = p[w]
  BY DEF SetVars
<1>5. DOMAIN stored = {v} \cup DOMAIN st /\ stored[v] = Opaque /\ \A w \in DOMAIN st \ {v} : stored[w] = st[w]
  BY DEF Put
<1> HIDE DEF new, stored
<1>6. AccountsFor(new, stored)
  BY <1>4, <1>5 DEF AccountsFor
<1> QED
  BY <1>3, <1>6 DEF new, stored

(* A declaration run after its visit: the map accounts for the store with  *)
(* the new variable.                                                       *)
LEMMA RunsDeclaration ==
  ASSUME NEW f, IsAnalysed(f), f = F,
         NEW elems, IsBlock(f, elems), NEW i \in 0..(Len(elems) - 1), NEW before,
         f.nodes[elems[i + 1]].k = "DeclStmt",
         NEW s, BlockInv(f, elems, i, s),
         NEW m, MachineInv(f, elems, i, before, s, m), m.outcome = "running",
         NEW t, t = VisitElement(f, s, elems[i + 1]),
         NEW o, o = Element(m, elems[i + 1])
  PROVE  /\ IsMachine(o) /\ o.outcome = "running"
         /\ MachineInv(f, elems, i + 1, before, t, o)
<1> DEFINE e == elems[i + 1]
           n == f.nodes[e]
           d == n.decls[1]
           v == Var(d.var)
           type == DeclInfo[d.var].type
<1>1. i \in Nat /\ e \in DOMAIN f.nodes /\ \A x \in UsedBy(n) : IsFresh(f, elems, x, i)
  BY ElementsAreNodes
<1>2. d.init # NoExpr => d.init \in UsedBy(n) /\ IsPointerNode(f, d.init, type)
  BY <1>1, NodeCases DEF UsedBy, IsDeclaration
<1>3. d.init # NoExpr => /\ IsKnown(f, s, d.init)
                        /\ m.vals[d.init] \in Holdable(m.store, type)
                        /\ Describes(PSetOf(f, s, d.init), m.vals[d.init])
  <2> SUFFICES ASSUME d.init # NoExpr
               PROVE  /\ IsKnown(f, s, d.init)
                      /\ m.vals[d.init] \in Holdable(m.store, type)
                      /\ Describes(PSetOf(f, s, d.init), m.vals[d.init])
    OBVIOUS
  <2>1. IsFresh(f, elems, d.init, i) /\ IsPointerNode(f, d.init, type)
    BY <1>1, <1>2
  <2>2. IsKnown(f, s, d.init) /\ Agrees(f, s, m, d.init)
    BY <2>1 DEF BlockInv, MachineInv
  <2> QED
    BY <2>1, <2>2 DEF Agrees, IsPointerNode
<1>4. IsState(s) /\ s.pmap \in PMapsOf(f) /\ IsMachine(m) /\ IsTypedStore(f, m.store) /\ AccountsFor(s.pmap, m.store)
  BY DEF BlockInv, MachineInv
<1>5. o = Declare(m, d)
  BY ElementOfKind
<1> HIDE DEF e, d, v
<1>6. t = VisitElement(f, s, e) /\ d = f.nodes[e].decls[1] /\ v = Var(d.var) /\ n.k = "DeclStmt" /\ e = elems[i + 1]
  BY DEF e, d, v
<1> DEFINE x == FirstValue(m, d)
<1>7. /\ IsMachine(o) /\ o.outcome = m.outcome /\ v \in Names(f) /\ v.base = d.var
      /\ o.store = Put(m.store, v, x)
  <2>1. e \in DOMAIN f.nodes /\ f.nodes[e].k = "DeclStmt" /\ d = f.nodes[e].decls[1] /\ IsMachine(m)
        /\ o = Declare(m, d) /\ v = Var(d.var)
    BY <1>1, <1>4, <1>5, <1>6
  <2> HIDE DEF n
  <2> QED
    BY <2>1, DeclareStores
<1>8. x = IF IsPointerCategory(type)
          THEN IF d.init = NoExpr THEN Invalid ELSE m.vals[d.init]
          ELSE Opaque
  BY DEF FirstValue
<1> HIDE DEF x
<1>9. PICK ps \in PSets(f) :
        /\ t.pmap = Assigned(s.pmap, Singleton(v, 0), ps)
        /\ IsPointerCategory(type) => ps = InitialPSet(f, s, d)
  <2>1. e \in DOMAIN f.nodes /\ f.nodes[e].k = "DeclStmt" /\ d = f.nodes[e].decls[1]
        /\ IsState(s) /\ s.pmap \in PMapsOf(f) /\ (d.init # NoExpr => IsKnown(f, s, d.init))
        /\ t = VisitElement(f, s, e) /\ v = Var(d.var)
    BY <1>1, <1>3, <1>4, <1>6
  <2>2. \E ps \in PSets(f) :
          /\ t.pmap = Assigned(s.pmap, Singleton(Var(d.var), 0), ps)
          /\ IsPointerCategory(DeclInfo[d.var].type) => ps = InitialPSet(f, s, d)
    <3> HIDE DEF n, type
    <3> QED
      BY <2>1, VisitDeclaration
  <2> QED
    BY <2>1, <2>2
<1>10. Singleton(v, 0) = {v} /\ v \notin Special
  BY <1>7, NameIsPlain, NamesAreNoMarkers
<1>11. DOMAIN o.store = {v} \cup DOMAIN m.store
  BY <1>7 DEF Put
<1>12. IsTypedStore(f, o.store)
  <2>1. IF IsPointerCategory(DeclInfo[v.base].type)
        THEN x \in Holdable(Put(m.store, v, x), DeclInfo[v.base].type) ELSE x = Opaque
    BY <1>3, <1>7, <1>8, <1>11 DEF Holdable
  <2>2. IsTypedStore(f, Put(m.store, v, x))
    BY <1>4, <1>7, <2>1, PutTyped
  <2> QED
    BY <1>7, <2>2
<1>13. AccountsFor(t.pmap, o.store)
  <2>1. CASE IsPointerCategory(type)
    <3>1. Describes(ps, x)
      BY <1>3, <1>8, <1>9, <2>1 DEF Describes, InitialPSet
    <3> DEFINE lhs == {v}
    <3>2. IsFiniteSet(lhs) /\ v \in VarsOf(lhs)
      BY <1>10, FS_Singleton DEF VarsOf
    <3>3. t.pmap = Assigned(s.pmap, lhs, ps)
      BY <1>9, <1>10
    <3> HIDE DEF lhs
    <3> QED
      BY <1>4, <1>7, <3>1, <3>2, <3>3, AssignedIsSound
  <2>2. CASE ~IsPointerCategory(type)
    <3>1. x = Opaque
      BY <1>8, <2>2
    <3> QED
      BY <1>4, <1>7, <1>9, <1>10, <3>1, AssignedOpaque
  <2> QED
    BY <2>1, <2>2
<1>14. ASSUME NEW c \in ScopeAt(f, elems, i + 1, before) PROVE Var(c) \in DOMAIN o.store
  <2>1. c \in ScopeAt(f, elems, i, before) \/ Declares(f, e, c)
    BY <1>1, <1>6, <1>14, ScopeStep
  <2>2. Declares(f, e, c) => Var(c) = v
    BY <1>6 DEF Declares
  <2> QED
    BY <1>11, <2>1, <2>2 DEF MachineInv
<1>15. \A x_ : ~IsFresh(f, elems, x_, i + 1)
  BY <1>1, <1>6, FreshStep DEF EndsStatement
<1>16. Truth(f, o, elems[i + 1])
  BY <1>6 DEF Truth
<1> QED
  BY <1>7, <1>12, <1>13, <1>14, <1>15, <1>16 DEF MachineInv

(* The end of a scope run after its visit: what pointed to the variable is *)
(* no longer held to point anywhere.                                       *)
LEMMA RunsScopeEnd ==
  ASSUME NEW f, IsAnalysed(f), f = F,
         NEW elems, IsBlock(f, elems), NEW i \in 0..(Len(elems) - 1), NEW before,
         f.nodes[elems[i + 1]].k = "LifetimeEnds",
         NEW s, BlockInv(f, elems, i, s),
         NEW m, MachineInv(f, elems, i, before, s, m), m.outcome = "running",
         NEW t, t = VisitElement(f, s, elems[i + 1]),
         NEW o, o = Element(m, elems[i + 1])
  PROVE  /\ IsMachine(o) /\ o.outcome = "running"
         /\ MachineInv(f, elems, i + 1, before, t, o)
<1> DEFINE e == elems[i + 1]
           n == f.nodes[e]
           d == n.var
<1>1. i \in Nat /\ e \in DOMAIN f.nodes
  BY ElementsAreNodes
<1>2. IsState(s) /\ s.pmap \in PMapsOf(f) /\ IsMachine(m) /\ IsTypedStore(f, m.store) /\ AccountsFor(s.pmap, m.store)
  BY DEF BlockInv, MachineInv
<1>3. d \in Locals(f)
  BY <1>1 DEF Locals, NamedBy
<1>4. o = EndScope(m, d)
  BY ElementOfKind
<1>5. t = EraseVariable(s, d)
  BY <1>1, <1>2, VisitScopeEnd
<1> HIDE DEF e, d
<1>6. /\ IsMachine(o) /\ o.outcome = m.outcome
      /\ IsTypedStore(f, o.store) /\ DOMAIN o.store = {w \in DOMAIN m.store : w.base # d}
  BY <1>2, <1>3, <1>4, ScopeEndTyped
<1>7. AccountsFor(t.pmap, o.store)
  BY <1>2, <1>3, <1>4, <1>5, ScopeEndAccounts
<1>8. ASSUME NEW c \in ScopeAt(f, elems, i + 1, before) PROVE Var(c) \in DOMAIN o.store
  <2>1. c \in ScopeAt(f, elems, i, before) /\ ~Ends(f, e, c)
    BY <1>1, <1>8, ScopeStep DEF Declares, e
  <2>2. c # d /\ Var(c).base = c
    BY <2>1 DEF Ends, Var, e, d
  <2> QED
    BY <1>6, <2>1, <2>2 DEF MachineInv
<1>9. \A x : ~IsFresh(f, elems, x, i + 1)
  BY <1>1, FreshStep DEF EndsStatement
<1>10. Truth(f, o, elems[i + 1])
  BY DEF Truth
<1> QED
  BY <1>6, <1>7, <1>8, <1>9, <1>10 DEF MachineInv

(* The end of a statement leaves a store of locals alone. *)
LEMMA EndOfStatement ==
  ASSUME NEW f, IsAnalysed(f), NEW m, IsMachine(m), NEW o, o = EndStatement(m)
  PROVE  /\ IsMachine(o) /\ o.vals = m.vals /\ o.outcome = m.outcome /\ o.at = m.at
         /\ IsTypedStore(f, m.store) => o.store = m.store
<1> DEFINE InTemporary(value) == value \notin {Null, Invalid, Opaque} /\ IsTemporary(value)
           st == m.store
           new == [w \in {z \in DOMAIN st : ~IsTemporary(z)} |->
                     IF InTemporary(st[w]) THEN Invalid ELSE st[w]]
<1>1. o = [m EXCEPT !.store = new]
  BY DEF EndStatement
<1> HIDE DEF new
<1>2. IsMachine(o) /\ o.vals = m.vals /\ o.outcome = m.outcome /\ o.at = m.at /\ o.store = new
  BY <1>1 DEF IsMachine
<1>3. ASSUME IsTypedStore(f, st) PROVE new = st
  <2>1. ASSUME NEW w \in DOMAIN st PROVE ~IsTemporary(w) /\ ~InTemporary(st[w])
    <3>1. w \in Names(f)
      BY <1>3 DEF IsTypedStore
    <3>2. ~IsTemporary(w)
      BY <3>1, NameIsPlain DEF IsTemporary
    <3>3. st[w] = Opaque \/ st[w] \in Holdable(st, DeclInfo[w.base].type)
      BY <1>3 DEF IsTypedStore
    <3>4. ~InTemporary(st[w])
      <4>1. CASE st[w] = Opaque
        BY <4>1
      <4>2. CASE st[w] \in Holdable(st, DeclInfo[w.base].type)
        BY <1>3, <4>2, HoldableValue
      <4> QED
        BY <3>3, <4>1, <4>2
    <3> QED
      BY <3>2, <3>4
  <2>2. {z \in DOMAIN st : ~IsTemporary(z)} = DOMAIN st
    BY <2>1
  <2>3. st = [w \in DOMAIN st |-> st[w]]
    BY <1>3 DEF IsTypedStore
  <2> HIDE DEF InTemporary, st
  <2>4. new = [w \in DOMAIN st |-> IF InTemporary(st[w]) THEN Invalid ELSE st[w]]
    BY <2>2 DEF new
  <2>5. new = [w \in DOMAIN st |-> st[w]]
    BY <2>1, <2>4
  <2> QED
    BY <2>3, <2>5
<1> QED
  BY <1>2, <1>3

(* The invariant of a block depends on the store and the values of the     *)
(* machine.                                                                *)
LEMMA SameMachine ==
  ASSUME NEW f, NEW elems, NEW i, NEW before, NEW s, NEW m, MachineInv(f, elems, i, before, s, m),
         NEW o, IsMachine(o), o.store = m.store, o.vals = m.vals
  PROVE  MachineInv(f, elems, i, before, s, o)
BY DEF MachineInv, Agrees, Truth

(* Every element of a block keeps the account, or faults where it is told. *)
LEMMA RunStep ==
  ASSUME NEW f, IsAnalysed(f), f = F, LifetimeNull,
         NEW b \in f.blocks, NEW elems, elems = f.elems[b], NEW i \in 0..(Len(elems) - 1), NEW before,
         f.nodes[elems[i + 1]].k = "DeclRefExpr" =>
           f.nodes[elems[i + 1]].var.base \in ScopeAt(f, elems, i, before),
         NEW s, BlockInv(f, elems, i, s),
         NEW m, MachineInv(f, elems, i, before, s, m), m.outcome = "running",
         NEW t, t = VisitElement(f, s, elems[i + 1]), Told(t.diags) \subseteq DOMAIN reports,
         NEW o \in RunElement(b, m, i + 1)
  PROVE  /\ IsMachine(o)
         /\ IF o.outcome = "running" THEN MachineInv(f, elems, i + 1, before, t, o)
            ELSE o.outcome = "fault" => o.at \in DOMAIN reports
<1> DEFINE e == elems[i + 1]
           n == f.nodes[e]
           u == Element(m, e)
<1>1. IsBlock(f, elems)
  BY BlockOfProgram
<1>2. e \in DOMAIN f.nodes
  BY <1>1, ElementsAreNodes
<1>3. n.k \notin {"CallExpr", "CXXMemberCallExpr"}
  BY <1>2, NodeKinds DEF Kinds
<1>4. o = EndStatement(u) \/ o = u
  BY <1>3 DEF RunElement
<1>5. /\ IsMachine(u)
      /\ IF u.outcome = "running" THEN MachineInv(f, elems, i + 1, before, t, u)
         ELSE u.outcome = "fault" => u.at \in DOMAIN reports
  <2> HIDE DEF u
  <2>0. u = Element(m, elems[i + 1])
    BY DEF u
  <2>1. CASE n.k = "DeclStmt"
    BY <1>1, <2>0, <2>1, RunsDeclaration
  <2>2. CASE n.k = "LifetimeEnds"
    BY <1>1, <2>0, <2>2, RunsScopeEnd
  <2>3. CASE ~EndsStatement(n)
    BY <1>1, <2>0, <2>3, RunsExpression
  <2> QED
    BY <2>1, <2>2, <2>3 DEF EndsStatement
<1> HIDE DEF u, e
<1>6. CASE o = u
  BY <1>5, <1>6
<1>7. CASE o = EndStatement(u)
  <2>1. /\ IsMachine(o) /\ o.vals = u.vals /\ o.outcome = u.outcome /\ o.at = u.at
        /\ IsTypedStore(f, u.store) => o.store = u.store
    BY <1>5, <1>7, EndOfStatement
  <2>2. CASE u.outcome = "running"
    <3>1. MachineInv(f, elems, i + 1, before, t, u) /\ IsTypedStore(f, u.store)
      BY <1>5, <2>2 DEF MachineInv
    <3>2. MachineInv(f, elems, i + 1, before, t, o)
      BY <2>1, <3>1, SameMachine
    <3> QED
      BY <2>1, <2>2, <3>2
  <2>3. CASE u.outcome # "running"
    BY <1>5, <2>1, <2>3
  <2> QED
    BY <2>2, <2>3
<1> QED
  BY <1>4, <1>6, <1>7

-----------------------------------------------------------------------------
(* The two side by side.                                                   *)

(* What the engine hands a block, and the store it starts from.            *)
StartsBlock(f, b, before, pmap, st) ==
  /\ IsTypedStore(f, st)
  /\ \A d \in before : Var(d) \in DOMAIN st
  /\ AccountsFor(pmap, st)
  /\ \A i \in 1..Len(f.elems[b]) :
       f.nodes[f.elems[b][i]].k = "DeclRefExpr" =>
         f.nodes[f.elems[b][i]].var.base \in ScopeAt(f, f.elems[b], i - 1, before)

(* A block that runs goes along with a visit of it. *)
LEMMA BlockRuns ==
  ASSUME NEW f, IsAnalysed(f), f = F, LifetimeNull, NEW b \in f.blocks, NEW before,
         NEW pmap \in PMapsOf(f), NEW fe, NEW seen, NEW r, Visits(f, b, pmap, fe, seen, r),
         Told(r[Len(f.elems[b])].diags) \subseteq DOMAIN reports,
         StartsBlock(f, b, before, pmap, store),
         NEW m \in RunBlock(b)
  PROVE  /\ IsMachine(m)
         /\ IF m.outcome = "running"
            THEN MachineInv(f, f.elems[b], Len(f.elems[b]), before, r[Len(f.elems[b])], m)
            ELSE m.outcome = "fault" => m.at \in DOMAIN reports
<1> DEFINE elems == f.elems[b]
           n == Len(elems)
           Good(i, o) == /\ IsMachine(o)
                         /\ IF o.outcome = "running" THEN MachineInv(f, elems, i, before, r[i], o)
                            ELSE o.outcome = "fault" => o.at \in DOMAIN reports
<1>1. IsBlock(f, elems) /\ n \in Nat /\ DOMAIN F.elems[b] = 1..n
  BY BlockOfProgram
<1>2. PICK q : Runs(b, q)
  BY <1>1, RunsInOrder
<1> DEFINE T == {i \in 0..n : \A o \in q[i] : Good(i, o)}
<1>3. 0 \in T
  <2> DEFINE o == StartOfBlock
  <2>1. IsMachine(o) /\ o.outcome = "running" /\ o.store = store /\ o.vals = vals
    BY DEF StartOfBlock, IsMachine
  <2> HIDE DEF o
  <2>2. \A x : ~IsFresh(f, elems, x, 0)
    BY DEF IsFresh
  <2>3. \A d \in ScopeAt(f, elems, 0, before) : d \in before
    BY DEF ScopeAt
  <2>4. r[0].pmap = pmap
    BY DEF Visits, StartOfVisit
  <2>5. MachineInv(f, elems, 0, before, r[0], o)
    BY <2>1, <2>2, <2>3, <2>4 DEF MachineInv, StartsBlock
  <2>6. q[0] = {o}
    BY <1>2 DEF o, Runs
  <2> QED
    BY <1>1, <2>1, <2>5, <2>6
<1>4. ASSUME NEW i \in 0..(n - 1), i \in T PROVE i + 1 \in T
  <2> SUFFICES ASSUME NEW o \in q[i + 1] PROVE Good(i + 1, o)
    <3>1. i + 1 \in 0..n
      BY <1>1
    <3> QED
      BY <3>1
  <2>1. PICK u \in q[i] : o \in RunElement(b, u, i + 1)
    <3>1. q[i + 1] = RunElements(b, q[i], i + 1)
      BY <1>2 DEF Runs
    <3> QED
      BY <3>1 DEF RunElements
  <2>2. Good(i, u)
    BY <1>4
  <2>3. CASE u.outcome # "running"
    <3>1. o = u
      BY <2>1, <2>3 DEF RunElement
    <3> QED
      BY <2>2, <2>3, <3>1
  <2>4. CASE u.outcome = "running"
    <3>1. i \in 0..n /\ i + 1 \in 0..n /\ i + 1 \in 1..n /\ (i + 1) - 1 = i
      BY <1>1
    <3>2. BlockInv(f, elems, i, r[i]) /\ Told(r[i + 1].diags) \subseteq DOMAIN reports
      BY <3>1, VisitsAreSound
    <3>3. r[i + 1] = VisitElement(f, r[i], elems[i + 1])
      BY DEF Visits
    <3>4. f.nodes[elems[i + 1]].k = "DeclRefExpr" =>
            f.nodes[elems[i + 1]].var.base \in ScopeAt(f, elems, i, before)
      BY <3>1 DEF StartsBlock
    <3>5. MachineInv(f, elems, i, before, r[i], u)
      BY <2>2, <2>4
    <3> HIDE DEF elems
    <3>6. elems = f.elems[b] /\ i \in 0..(Len(elems) - 1)
      BY DEF elems
    <3> DEFINE s == r[i]
               t == r[i + 1]
    <3>7. BlockInv(f, elems, i, s) /\ Told(t.diags) \subseteq DOMAIN reports /\ t = VisitElement(f, s, elems[i + 1])
          /\ MachineInv(f, elems, i, before, s, u)
      BY <3>2, <3>3, <3>5
    <3>8. Good(i + 1, o) = (/\ IsMachine(o)
                            /\ IF o.outcome = "running" THEN MachineInv(f, elems, i + 1, before, t, o)
                               ELSE o.outcome = "fault" => o.at \in DOMAIN reports)
      OBVIOUS
    <3> HIDE DEF Good, s, t, n
    <3>9. /\ IsMachine(o)
          /\ IF o.outcome = "running" THEN MachineInv(f, elems, i + 1, before, t, o)
             ELSE o.outcome = "fault" => o.at \in DOMAIN reports
      BY <2>1, <2>4, <3>4, <3>6, <3>7, RunStep
    <3> QED
      BY <3>8, <3>9
  <2> QED
    BY <2>3, <2>4
<1> HIDE DEF T
<1>5. 0..n \subseteq T
  BY <1>1, <1>3, <1>4, UpTo
<1>6. n \in T
  BY <1>1, <1>5
<1>7. Good(n, m)
  BY <1>2, <1>6 DEF T, Runs
<1> QED
  BY <1>7

(* What comes out of a visit: maps of psets, told apart if a pointer is tested. *)
LEMMA VisitTyped ==
  ASSUME NEW f, IsAnalysed(f), NEW b \in f.blocks, SuccSize(f, b) \in {1, 2},
         NEW pmap \in PMapsOf(f), NEW fe, NEW seen,
         NEW v, v = VisitBlockOf(f, b, pmap, fe, seen)
  PROVE  /\ v.pmap \in PMapsOf(f) /\ IsLog(v.diags)
         /\ v.falseExit = fe \/ Splits(f, b)
         /\ Splits(f, b) => v.falseExit \in PMapsOf(f)
<1> DEFINE start == StartOfVisit(pmap, fe, seen)
           elems == f.elems[b]
           s == VisitElements(f, start, elems)
           t == AfterCondition(f, b, s)
<1>1. PICK r : Visits(f, b, pmap, fe, seen, r)
  BY VisitsExist
<1>2. Len(elems) \in 0..Len(elems)
  BY BlockOfProgram
<1>3. r[Len(elems)] = s
  BY <1>1 DEF Visits
<1>4. BlockInv(f, elems, Len(elems), s) /\ s.falseExit = fe
  BY <1>1, <1>2, <1>3, VisitsAreSound
<1> HIDE DEF s, t
<1>5. /\ IsState(t) /\ t.diags = s.diags /\ t.pmap \in PMapsOf(f)
      /\ Splits(f, b) => t.falseExit \in PMapsOf(f)
      /\ ~Splits(f, b) => t = s
  BY <1>4, SplitIsSound DEF t
<1>6. s.pmap \in PMapsOf(f)
  BY <1>4 DEF BlockInv
<1>7. v.pmap = t.pmap /\ v.falseExit = t.falseExit /\ v.diags = t.diags
  BY <1>5, <1>6, VisitedBlock DEF s, t
<1> QED
  BY <1>4, <1>5, <1>7 DEF IsState

(* What a test has found is what its branch goes by. *)
LEMMA BranchIsTaken ==
  ASSUME NEW f, IsAnalysed(f), f = F, NEW b \in f.blocks, Splits(f, b),
         NEW m, Truth(f, m, Last(f.elems[b])), NEW value \in Decided(b, m)
  PROVE  value \in BOOLEAN /\ (m.store[TestedVar(f, b)] = Null) = (value # Positive(f, b))
<1> DEFINE e == Last(f.elems[b])
           n == f.nodes[e]
           l == LoadOf(f, e)
           c == f.nodes[l].sub
<1>1. e \in DOMAIN f.nodes /\ IsCondition(f, n) /\ f.elems[b] # <<>>
  BY BlockOfProgram DEF Splits, IsAnalysed, IsPointerProgram
<1>2. TestsPointer(f, e) /\ n.isBool
  BY <1>1 DEF Splits, IsCondition
<1>3. Tested(b, m) = m.vals[e]
  BY <1>1, <1>2 DEF Tested
<1>4. Opaque \notin BOOLEAN
  BY MarkersAssumption
<1>5. f.nodes[c].k = "DeclRefExpr" /\ IsPointerCategory(f.nodes[l].type) /\ TestedVar(f, b) = f.nodes[c].var
  BY <1>2 DEF TestsPointer, TestedVar
<1>6. n.k = "BoolConversion" \/ (n.k = "UnaryOperator" /\ n.op = "LNot")
  <2>1. IsTest(f, n) \/ IsNegation(f, n) \/ (IsLoad(f, n) /\ ~IsPointerCategory(n.type))
    BY <1>1 DEF IsCondition
  <2>2. n.k = "LValueToRValue" => l = e
    BY DEF LoadOf
  <2> QED
    BY <1>5, <2>1, <2>2 DEF IsTest, IsNegation, IsLoad
<1>7. CASE n.k = "BoolConversion"
  <2>1. m.vals[e] \in BOOLEAN /\ m.vals[e] = (m.store[f.nodes[c].var] # Null)
    BY <1>5, <1>7 DEF Truth
  <2>2. Positive(f, b) = TRUE
    BY <1>7 DEF Positive
  <2>3. value = m.vals[e]
    BY <1>3, <1>4, <2>1 DEF Decided
  <2> HIDE DEF e, n, l, c
  <2> QED
    BY <1>5, <2>1, <2>2, <2>3
<1>8. CASE n.k = "UnaryOperator" /\ n.op = "LNot"
  <2>1. IsNegation(f, n)
    BY <1>1, <1>8, NodeCases
  <2>2. f.nodes[n.sub].k = "BoolConversion"
    <3>1. l = IF f.nodes[n.sub].k = "BoolConversion" THEN f.nodes[n.sub].sub ELSE n.sub
      BY <1>8 DEF LoadOf
    <3> QED
      BY <1>5, <2>1, <3>1 DEF IsNegation
  <2>3. m.vals[e] \in BOOLEAN /\ m.vals[e] = (m.store[f.nodes[c].var] = Null)
    BY <1>5, <1>8, <2>2 DEF Truth
  <2>4. Positive(f, b) = FALSE
    BY <1>8 DEF Positive
  <2>5. value = m.vals[e]
    BY <1>3, <1>4, <2>3 DEF Decided
  <2> HIDE DEF e, n, l, c
  <2> QED
    BY <1>5, <2>3, <2>4, <2>5
<1> QED
  BY <1>6, <1>7, <1>8

(* A visit (visitBlock) is right about its block: it faults where that is  *)
(* told, or leaves a store the psets account for on the branch it takes.   *)
THEOREM BlockIsSound ==
  ASSUME NEW f, IsAnalysed(f), f = F, LifetimeNull, NEW b \in f.blocks, SuccSize(f, b) \in {1, 2},
         NEW before, NEW pmap \in PMapsOf(f), NEW fe, NEW seen,
         NEW v, v = VisitBlockOf(f, b, pmap, fe, seen), Told(v.diags) \subseteq DOMAIN reports,
         StartsBlock(f, b, before, pmap, store),
         NEW m \in RunBlock(b)
  PROVE  IF m.outcome = "running"
         THEN /\ IsTypedStore(f, m.store)
              /\ \A d \in ScopeAfter(f, b, before) : Var(d) \in DOMAIN m.store
              /\ \A value \in Decided(b, m) :
                   AccountsFor(IF Splits(f, b) /\ ~value THEN v.falseExit ELSE v.pmap, m.store)
         ELSE m.outcome = "fault" => m.at \in DOMAIN reports
<1> DEFINE start == StartOfVisit(pmap, fe, seen)
           elems == f.elems[b]
           n == Len(elems)
           s == VisitElements(f, start, elems)
           t == AfterCondition(f, b, s)
<1>1. PICK r : Visits(f, b, pmap, fe, seen, r)
  BY VisitsExist
<1>2. n \in 0..n /\ n \in Nat /\ (n = 0 \/ n > 0)
  BY BlockOfProgram
<1>3. r[n] = s
  BY <1>1 DEF Visits
<1>4. BlockInv(f, elems, n, s)
  BY <1>1, <1>2, <1>3, VisitsAreSound
<1> HIDE DEF s, t
<1>5. /\ t.diags = s.diags /\ t.pmap \in PMapsOf(f)
      /\ Splits(f, b) => /\ TestedVar(f, b) \in Names(f)
                         /\ t.pmap = Narrowed(s.pmap, TestedVar(f, b), ~Positive(f, b))
                         /\ t.falseExit = Narrowed(s.pmap, TestedVar(f, b), Positive(f, b))
      /\ ~Splits(f, b) => t = s
  BY <1>4, SplitIsSound DEF t
<1>6. s.pmap \in PMapsOf(f)
  BY <1>4 DEF BlockInv
<1>7. v.pmap = t.pmap /\ v.falseExit = t.falseExit /\ v.diags = t.diags
  BY <1>5, <1>6, VisitedBlock DEF s, t
<1>8. Told(r[n].diags) \subseteq DOMAIN reports
  BY <1>3, <1>5, <1>7
<1>9. IF m.outcome = "running" THEN MachineInv(f, elems, n, before, s, m)
      ELSE m.outcome = "fault" => m.at \in DOMAIN reports
  BY <1>1, <1>3, <1>8, BlockRuns
<1> SUFFICES ASSUME m.outcome = "running"
             PROVE  /\ IsTypedStore(f, m.store)
                    /\ \A d \in ScopeAfter(f, b, before) : Var(d) \in DOMAIN m.store
                    /\ \A value \in Decided(b, m) :
                         AccountsFor(IF Splits(f, b) /\ ~value THEN v.falseExit ELSE v.pmap, m.store)
  BY <1>9
<1>10. MachineInv(f, elems, n, before, s, m)
  BY <1>9
<1>11. IsTypedStore(f, m.store) /\ \A d \in ScopeAfter(f, b, before) : Var(d) \in DOMAIN m.store
  BY <1>10 DEF MachineInv, ScopeAfter
<1>12. AccountsFor(s.pmap, m.store)
  BY <1>10 DEF MachineInv
<1>13. CASE ~Splits(f, b)
  BY <1>5, <1>7, <1>11, <1>12, <1>13
<1>14. ASSUME Splits(f, b), NEW value \in Decided(b, m)
       PROVE  AccountsFor(IF ~value THEN v.falseExit ELSE v.pmap, m.store)
  <2>1. n > 0 /\ Last(elems) = elems[n]
    BY <1>2, <1>14, BlockOfProgram DEF Splits
  <2>2. Truth(f, m, Last(elems))
    BY <1>10, <2>1 DEF MachineInv
  <2> DEFINE x == TestedVar(f, b)
             positive == Positive(f, b)
  <2>3. value \in BOOLEAN /\ (m.store[x] = Null) = (value # positive)
    BY <1>14, <2>2, BranchIsTaken
  <2>4. positive \in BOOLEAN
    BY DEF Positive
  <2>5. x \in Names(f) /\ t.pmap = Narrowed(s.pmap, x, ~positive) /\ t.falseExit = Narrowed(s.pmap, x, positive)
    BY <1>5, <1>14
  <2> HIDE DEF x, positive
  <2>6. CASE value = TRUE
    <3> DEFINE isNull == ~positive
    <3>1. isNull \in BOOLEAN /\ (m.store[x] = Null) = isNull
      BY <2>3, <2>4, <2>6
    <3> HIDE DEF isNull
    <3>2. AccountsFor(Narrowed(s.pmap, x, isNull), m.store)
      BY <1>12, <2>5, <3>1, NarrowedAccounts
    <3> QED
      BY <1>7, <2>5, <2>6, <3>2 DEF isNull
  <2>7. CASE value = FALSE
    <3>1. (m.store[x] = Null) = positive
      BY <2>3, <2>4, <2>7
    <3>2. AccountsFor(Narrowed(s.pmap, x, positive), m.store)
      BY <1>12, <2>4, <2>5, <3>1, NarrowedAccounts
    <3> QED
      BY <1>7, <2>5, <2>7, <3>2
  <2> QED
    BY <2>3, <2>6, <2>7
<1> QED
  BY <1>11, <1>13, <1>14

-----------------------------------------------------------------------------
(* What is in scope.                                                       *)

(* What ps says names locals in D only, unless it is invalid.              *)
InScope(ps, D) == Invalid \notin ps => \A v \in VarsOf(ps) : v.base \in D
AreInScope(p, D) == \A v \in DOMAIN p : InScope(p[v], D)
HasNoOthers(p, D) == \A v \in DOMAIN p : v.base \in D

(* The scope after an element: what it declares enters, what it ends       *)
(* leaves.                                                                 *)
LEMMA ScopeOfNext ==
  ASSUME NEW f, NEW elems, NEW i \in Nat, NEW before, NEW d
  PROVE  /\ d \in ScopeAt(f, elems, i, before) /\ ~Ends(f, elems[i + 1], d) =>
              d \in ScopeAt(f, elems, i + 1, before)
         /\ d \in Locals(f) /\ Declares(f, elems[i + 1], d) => d \in ScopeAt(f, elems, i + 1, before)
<1>1. \A k \in 1..(i + 1) : k \in 1..i \/ k = i + 1
  OBVIOUS
<1>2. \A j \in 1..i : j \in 1..(i + 1) /\ \A k \in (j + 1)..(i + 1) : k \in (j + 1)..i \/ k = i + 1
  OBVIOUS
<1>3. i + 1 \in 1..(i + 1) /\ \A k \in ((i + 1) + 1)..(i + 1) : FALSE
  OBVIOUS
<1>4. ASSUME d \in ScopeAt(f, elems, i, before), ~Ends(f, elems[i + 1], d)
      PROVE  d \in ScopeAt(f, elems, i + 1, before)
  <2>1. d \in Locals(f)
    BY <1>4 DEF ScopeAt
  <2>2. CASE d \in before /\ \A k \in 1..i : ~Ends(f, elems[k], d)
    BY <1>1, <1>4, <2>1, <2>2 DEF ScopeAt
  <2>3. ASSUME NEW j \in 1..i, Declares(f, elems[j], d), \A k \in (j + 1)..i : ~Ends(f, elems[k], d)
        PROVE  d \in ScopeAt(f, elems, i + 1, before)
    BY <1>2, <1>4, <2>1, <2>3 DEF ScopeAt
  <2> QED
    BY <1>4, <2>2, <2>3 DEF ScopeAt
<1>5. ASSUME d \in Locals(f), Declares(f, elems[i + 1], d) PROVE d \in ScopeAt(f, elems, i + 1, before)
  BY <1>3, <1>5 DEF ScopeAt
<1> QED
  BY <1>4, <1>5

(* Following pointers in scope leads to what is in scope. *)
LEMMA DerefStaysInScope ==
  ASSUME NEW f, IsAnalysed(f), NEW p \in PMapsOf(f), NEW D, AreInScope(p, D), NEW ps \in PSets(f)
  PROVE  InScope(DerefPSet(p, ps), D)
<1>1. VarsOf(ps) \subseteq Names(f)
  BY DEF PSets, VarsOf
<1>2. CASE Invalid \in ps
  BY <1>2 DEF DerefPSet, InScope, VarsOf
<1>3. CASE Invalid \notin ps
  <2>1. \A v \in VarsOf(ps) : GetOrder(v) = 0
    BY <1>1, NameIsPlain
  <2>2. DerefPSet(p, ps) = (ps \cap {Global}) \cup UNION {GetPSet(p, v) : v \in VarsOf(ps)}
    BY <1>3, <2>1 DEF DerefPSet
  <2>3. ASSUME NEW v \in VarsOf(ps), NEW x \in GetPSet(p, v), Invalid \notin GetPSet(p, v), x \notin Special
        PROVE  x.base \in D
    <3>1. v \in Names(f)
      BY <1>1
    <3>2. v \in DOMAIN p
      BY <2>3, <3>1, GetPSetOfName DEF Special
    <3>3. GetPSet(p, v) = p[v]
      BY <3>1, <3>2, GetPSetOfName
    <3> QED
      BY <2>3, <3>2, <3>3 DEF AreInScope, InScope, VarsOf
  <2> SUFFICES ASSUME Invalid \notin DerefPSet(p, ps), NEW x \in VarsOf(DerefPSet(p, ps))
               PROVE  x.base \in D
    BY DEF InScope
  <2>4. x \notin Special /\ x # Global
    BY DEF VarsOf, Special
  <2>5. PICK v \in VarsOf(ps) : x \in GetPSet(p, v)
    BY <2>2, <2>4 DEF VarsOf
  <2>6. Invalid \notin GetPSet(p, v)
    BY <2>2
  <2> QED
    BY <2>3, <2>4, <2>5, <2>6
<1> QED
  BY <1>2, <1>3

(* An assignment of what is in scope. *)
LEMMA AssignedInScope ==
  ASSUME NEW f, NEW p \in PMapsOf(f), NEW D, AreInScope(p, D), NEW lhs \in PSets(f), NEW rhs, InScope(rhs, D)
  PROVE  /\ AreInScope(Assigned(p, lhs, rhs), D)
         /\ HasNoOthers(p, D) /\ (\A v \in VarsOf(lhs) : v.base \in D) => HasNoOthers(Assigned(p, lhs, rhs), D)
<1> DEFINE vs == VarsOf(lhs)
           q == Assigned(p, lhs, rhs)
<1>1. DOMAIN q = vs \cup DOMAIN p
  BY DEF Assigned, SetVars, AddToVars
<1>2. ASSUME NEW w \in DOMAIN q
      PROVE  q[w] \in {rhs} \cup {p[w]} \cup {rhs \cup p[w]} /\ (w \notin DOMAIN p => q[w] = rhs)
  <2>1. CASE Cardinality(vs) = 1
    BY <1>1, <2>1 DEF Assigned, SetVars
  <2>2. CASE Cardinality(vs) # 1
    BY <1>1, <2>2 DEF Assigned, AddToVars
  <2> QED
    BY <2>1, <2>2
<1> HIDE DEF q, vs
<1>3. ASSUME NEW w \in DOMAIN q PROVE InScope(q[w], D)
  <2>1. CASE w \in DOMAIN p
    <3>1. InScope(p[w], D)
      BY <2>1 DEF AreInScope
    <3>2. InScope(rhs \cup p[w], D)
      BY <3>1 DEF InScope, VarsOf
    <3> QED
      BY <1>2, <3>1, <3>2
  <2>2. CASE w \notin DOMAIN p
    BY <1>2, <2>2
  <2> QED
    BY <2>1, <2>2
<1>4. AreInScope(q, D)
  BY <1>3 DEF AreInScope
<1>5. HasNoOthers(p, D) /\ (\A v \in vs : v.base \in D) => HasNoOthers(q, D)
  BY <1>1 DEF HasNoOthers
<1> QED
  BY <1>4, <1>5 DEF q, vs

(* So is what a condition leaves. *)
LEMMA NarrowedInScope ==
  ASSUME NEW f, IsAnalysed(f), NEW p \in PMapsOf(f), NEW D, AreInScope(p, D), NEW x \in Names(f), NEW isNull
  PROVE  /\ AreInScope(Narrowed(p, x, isNull), D)
         /\ HasNoOthers(p, D) /\ x.base \in D => HasNoOthers(Narrowed(p, x, isNull), D)
<1> DEFINE q == Narrowed(p, x, isNull)
           new == IF isNull THEN {Null} ELSE GetPSet(p, x) \ {Null}
<1>1. DOMAIN q = {x} \cup DOMAIN p /\ q[x] = new /\ \A w \in DOMAIN p \ {x} : q[w] = p[w]
  BY DEF Narrowed, SetVars
<1>2. InScope({Null}, D)
  BY DEF InScope, VarsOf, Special
<1>3. InScope(GetPSet(p, x), D)
  <2>1. x \in DOMAIN p => InScope(GetPSet(p, x), D)
    BY GetPSetOfName DEF AreInScope
  <2>2. x \notin DOMAIN p => InScope(GetPSet(p, x), D)
    BY GetPSetOfName DEF InScope, VarsOf, Special
  <2> QED
    BY <2>1, <2>2
<1>4. InScope(GetPSet(p, x) \ {Null}, D)
  BY <1>3, MarkersDiffer DEF InScope, VarsOf
<1>5. InScope(new, D)
  BY <1>2, <1>4
<1> HIDE DEF q, new
<1>6. AreInScope(q, D)
  BY <1>1, <1>5 DEF AreInScope
<1>7. HasNoOthers(p, D) /\ x.base \in D => HasNoOthers(q, D)
  BY <1>1 DEF HasNoOthers
<1> QED
  BY <1>6, <1>7 DEF q

-----------------------------------------------------------------------------
(* A visit keeps to what is in scope.                                      *)

(* After i elements of a block the psets of the variables, and those of    *)
(* the expressions of the statement under way, name what is in scope; and  *)
(* as long as nothing was told nothing else has a pset or can be assigned  *)
(* to, if that was so before (clean).                                      *)
IsTidy(clean, f, elems, i, before, s) ==
  LET D == ScopeAt(f, elems, i, before)
  IN  /\ AreInScope(s.pmap, D)
      /\ \A x : IsFresh(f, elems, x, i) /\ HasPSet(f, x) => InScope(PSetOf(f, s, x), D)
      /\ clean /\ Told(s.diags) = {} =>
           /\ HasNoOthers(s.pmap, D)
           /\ \A x : IsFresh(f, elems, x, i) /\ f.nodes[x].lvalue => Invalid \notin PSetOf(f, s, x)

(* An expression that gives e the pset ps, and changes the map to what is  *)
(* in scope, keeps that.                                                   *)
Tidies(clean, f, D, s, t, e) ==
  /\ Told(s.diags) \subseteq Told(t.diags)
  /\ \A x \in DOMAIN s.exprs \ {e} : x \in DOMAIN t.exprs /\ t.exprs[x] = s.exprs[x]
  /\ AreInScope(t.pmap, D)
  /\ HasPSet(f, e) => InScope(PSetOf(f, t, e), D)
  /\ clean /\ Told(t.diags) = {} =>
       /\ HasNoOthers(t.pmap, D)
       /\ f.nodes[e].lvalue => Invalid \notin PSetOf(f, t, e)

(* An expression whose pset is in scope if all was before, and which       *)
(* leaves the map in scope then, keeps to what is in scope.                *)
LEMMA TidyExpression ==
  ASSUME NEW f, IsAnalysed(f), NEW elems, IsBlock(f, elems), NEW i \in 0..(Len(elems) - 1), NEW before,
         NEW clean, NEW s, BlockInv(f, elems, i, s), IsTidy(clean, f, elems, i, before, s),
         ~EndsStatement(f.nodes[elems[i + 1]]),
         NEW t, Tidies(clean, f, ScopeAt(f, elems, i, before), s, t, elems[i + 1])
  PROVE  IsTidy(clean, f, elems, i + 1, before, t)
<1> DEFINE e == elems[i + 1]
           D == ScopeAt(f, elems, i, before)
           E == ScopeAt(f, elems, i + 1, before)
<1>1. i \in Nat /\ i \in 0..Len(elems) /\ e \in DOMAIN f.nodes
  BY ElementsAreNodes
<1>2. D \subseteq E
  <2>1. \A d : ~Ends(f, e, d)
    BY DEF EndsStatement, Ends
  <2> QED
    BY <1>1, <2>1, ScopeOfNext
<1> HIDE DEF D, E, e
<1>3. ASSUME NEW ps, InScope(ps, D) PROVE InScope(ps, E)
  BY <1>2, <1>3 DEF InScope
<1>4. /\ Told(s.diags) \subseteq Told(t.diags)
      /\ \A x \in DOMAIN s.exprs \ {e} : x \in DOMAIN t.exprs /\ t.exprs[x] = s.exprs[x]
      /\ AreInScope(t.pmap, D)
      /\ HasPSet(f, e) => InScope(PSetOf(f, t, e), D)
      /\ clean /\ Told(t.diags) = {} =>
           /\ HasNoOthers(t.pmap, D)
           /\ f.nodes[e].lvalue => Invalid \notin PSetOf(f, t, e)
  BY DEF Tidies, D, e
<1>5. /\ AreInScope(s.pmap, D)
      /\ \A x : IsFresh(f, elems, x, i) /\ HasPSet(f, x) => InScope(PSetOf(f, s, x), D)
      /\ clean /\ Told(s.diags) = {} =>
           \A x : IsFresh(f, elems, x, i) /\ f.nodes[x].lvalue => Invalid \notin PSetOf(f, s, x)
  BY DEF IsTidy, D
<1>6. ASSUME NEW x, IsFresh(f, elems, x, i + 1), x # e, HasPSet(f, x)
      PROVE  IsFresh(f, elems, x, i) /\ PSetOf(f, t, x) = PSetOf(f, s, x)
  <2>1. IsFresh(f, elems, x, i)
    BY <1>1, <1>6, FreshStep DEF e
  <2>2. x \in DOMAIN f.nodes
    BY <1>1, <2>1, FreshAreNodes
  <2>3. f.nodes[x].k # "NullPtrLiteral" => x \in DOMAIN s.exprs
    BY <1>6, <2>1 DEF BlockInv, IsKnown
  <2>4. f.nodes[x].k # "NullPtrLiteral" => t.exprs[x] = s.exprs[x]
    BY <1>4, <1>6, <2>3
  <2>5. PSetOf(f, t, x) = PSetOf(f, s, x)
    BY <2>2, <2>4, PSetOfNode
  <2> QED
    BY <2>1, <2>5
<1>7. AreInScope(t.pmap, E)
  BY <1>3, <1>4 DEF AreInScope
<1>8. ASSUME NEW x, IsFresh(f, elems, x, i + 1), HasPSet(f, x) PROVE InScope(PSetOf(f, t, x), E)
  BY <1>3, <1>4, <1>5, <1>6, <1>8
<1>9. ASSUME clean, Told(t.diags) = {} PROVE HasNoOthers(t.pmap, E)
  BY <1>2, <1>4, <1>9 DEF HasNoOthers
<1>10. ASSUME clean, Told(t.diags) = {}, NEW x, IsFresh(f, elems, x, i + 1), f.nodes[x].lvalue
       PROVE  Invalid \notin PSetOf(f, t, x)
  <2>1. CASE x = e
    BY <1>4, <1>10, <2>1
  <2>2. CASE x # e
    <3>1. IsFresh(f, elems, x, i)
      BY <1>1, <1>10, <2>2, FreshStep DEF e
    <3>2. HasPSet(f, x)
      BY <1>1, <1>10, <3>1, FreshAreNodes, HasPSetOfNode
    <3> QED
      BY <1>4, <1>5, <1>6, <1>10, <2>2, <3>1, <3>2
  <2> QED
    BY <2>1, <2>2
<1> QED
  BY <1>7, <1>8, <1>9, <1>10 DEF IsTidy, E

(* What is recorded for e is its pset from then on. *)
LEMMA RecordedIsTidy ==
  ASSUME NEW clean, NEW f, IsAnalysed(f), NEW D, NEW s, NEW t, NEW e \in DOMAIN f.nodes,
         f.nodes[e].k # "NullPtrLiteral",
         NEW ps, Records(s, t, e, ps), InScope(ps, D), AreInScope(t.pmap, D),
         clean /\ Told(t.diags) = {} => HasNoOthers(t.pmap, D) /\ (f.nodes[e].lvalue => Invalid \notin ps)
  PROVE  Tidies(clean, f, D, s, t, e)
<1>1. PSetOf(f, t, e) = ps
  BY PSetOfNode DEF Records
<1> QED
  BY <1>1 DEF Tidies, Records, Extends

(* A name of a variable in scope.                                          *)
LEMMA NameIsTidy ==
  ASSUME NEW clean, NEW f, IsAnalysed(f), NEW D, NEW s, IsState(s), NEW e \in DOMAIN f.nodes,
         f.nodes[e].k = "DeclRefExpr", f.nodes[e].var.base \in D, AreInScope(s.pmap, D),
         clean /\ Told(s.diags) = {} => HasNoOthers(s.pmap, D),
         NEW t, t = VisitElement(f, s, e)
  PROVE  Tidies(clean, f, D, s, t, e)
<1> DEFINE ps == {f.nodes[e].var}
<1>1. Records(s, t, e, ps) /\ t.pmap = s.pmap /\ t.diags = s.diags
  BY VisitName
<1>2. f.nodes[e].var \in Names(f)
  BY NamedNode
<1>3. InScope(ps, D) /\ Invalid \notin ps
  BY <1>2, NamesAreNoMarkers DEF InScope, VarsOf
<1> HIDE DEF ps
<1> QED
  BY <1>1, <1>3, RecordedIsTidy

(* Every expression keeps to what is in scope. *)
LEMMA ExpressionIsTidy ==
  ASSUME NEW f, IsAnalysed(f), NEW elems, IsBlock(f, elems), NEW i \in 0..(Len(elems) - 1), NEW before,
         NEW clean, NEW s, BlockInv(f, elems, i, s), IsTidy(clean, f, elems, i, before, s),
         ~EndsStatement(f.nodes[elems[i + 1]]),
         f.nodes[elems[i + 1]].k = "DeclRefExpr" =>
           f.nodes[elems[i + 1]].var.base \in ScopeAt(f, elems, i, before),
         NEW t, t = VisitElement(f, s, elems[i + 1])
  PROVE  Tidies(clean, f, ScopeAt(f, elems, i, before), s, t, elems[i + 1])
<1> DEFINE e == elems[i + 1]
           n == f.nodes[e]
           D == ScopeAt(f, elems, i, before)
<1>1. /\ i \in Nat /\ i \in 0..Len(elems) /\ e \in DOMAIN f.nodes
      /\ \A x \in UsedBy(n) : IsFresh(f, elems, x, i) /\ IsKnown(f, s, x)
  BY ElementsAreNodes DEF BlockInv
<1>2. IsState(s) /\ s.pmap \in PMapsOf(f)
  BY DEF BlockInv
<1>3. AreInScope(s.pmap, D) /\ (clean /\ Told(s.diags) = {} => HasNoOthers(s.pmap, D))
  BY DEF IsTidy
<1>4. ASSUME NEW x \in UsedBy(n), NEW type, IsLValueNode(f, x, type) \/ IsPointerNode(f, x, type)
      PROVE  /\ PSetOf(f, s, x) \in PSets(f) /\ InScope(PSetOf(f, s, x), D)
             /\ f.nodes[x].lvalue /\ clean /\ Told(s.diags) = {} => Invalid \notin PSetOf(f, s, x)
  <2>1. x \in DOMAIN f.nodes /\ ~EndsStatement(f.nodes[x])
    BY <1>1, FreshAreNodes
  <2>2. HasPSet(f, x)
    BY <1>4, <2>1, HasPSetOfNode DEF IsLValueNode, IsPointerNode
  <2>3. PSetOf(f, s, x) \in PSets(f)
    BY <1>1, <1>4, OperandPSet
  <2> QED
    BY <1>1, <2>2, <2>3 DEF IsTidy
<1>5. t = VisitElement(f, s, e) /\ ~EndsStatement(n) /\ (n.k = "DeclRefExpr" => n.var.base \in D)
  OBVIOUS
<1> SUFFICES Tidies(clean, f, D, s, t, e)
  OBVIOUS
<1> HIDE DEF D, e
<1>6. CASE n.k = "DeclRefExpr"
  BY <1>1, <1>2, <1>3, <1>5, <1>6, NameIsTidy
<1>7. CASE n.k = "LValueToRValue" /\ IsPointerCategory(n.type)
  <2>1. IsLValueNode(f, n.sub, n.type) /\ n.sub \in UsedBy(n) /\ ~n.lvalue
    BY <1>1, <1>7, LoadNode DEF IsLoad, UsedBy
  <2>2. PSetOf(f, s, n.sub) \in PSets(f)
    BY <1>4, <2>1
  <2>3. s.exprs[n.sub] \in PSets(f)
    BY <1>1, <1>7, <2>2, LoadNode, PSetOfNode
  <2>4. PICK ps : ArePointersOf(ps, s.exprs[n.sub]) /\ Records(s, t, e, DerefPSet(s.pmap, ps))
    BY <1>1, <1>2, <1>5, <1>7, <2>3, VisitLoad
  <2>5. t.pmap = s.pmap /\ t.diags = s.diags
    BY <1>1, <1>2, <1>5, <1>7, <2>3, VisitLoad
  <2>6. ps \in PSets(f)
    BY <2>3, <2>4 DEF ArePointersOf, PSets
  <2> DEFINE new == DerefPSet(s.pmap, ps)
  <2>7. InScope(new, D) /\ Records(s, t, e, new)
    BY <1>2, <1>3, <2>4, <2>6, DerefStaysInScope
  <2> HIDE DEF new
  <2> QED
    BY <1>1, <1>3, <1>7, <2>1, <2>5, <2>7, RecordedIsTidy
<1>8. CASE n.k = "UnaryOperator" /\ n.op = "Deref"
  <2> DEFINE ps == PSetOf(f, s, n.sub)
  <2>1. n.sub \in UsedBy(n) /\ IsPointerNode(f, n.sub, f.nodes[n.sub].type)
    BY <1>1, <1>8, NodeCases DEF IsStar, UsedBy
  <2>2. InScope(ps, D)
    BY <1>4, <2>1
  <2>3. Records(s, t, e, ps) /\ t.pmap = s.pmap /\ (~IsValid(ps) => n.loc \in Told(t.diags))
    BY <1>1, <1>2, <1>5, <1>8, VisitStar
  <2> HIDE DEF ps
  <2>4. Told(t.diags) = {} => Told(s.diags) = {} /\ Invalid \notin ps
    BY <2>3 DEF Records, Extends, IsValid
  <2> QED
    BY <1>1, <1>3, <1>8, <2>2, <2>3, <2>4, RecordedIsTidy
<1>9. CASE n.k = "UnaryOperator" /\ n.op = "AddrOf"
  <2> DEFINE ps == PSetOf(f, s, n.sub)
  <2>1. n.sub \in UsedBy(n) /\ IsLValueNode(f, n.sub, PointeeType(n.type)) /\ ~n.lvalue
    BY <1>1, <1>9, NodeCases DEF IsAddress, UsedBy
  <2>2. InScope(ps, D)
    BY <1>4, <2>1
  <2>3. Records(s, t, e, ps) /\ t.pmap = s.pmap /\ t.diags = s.diags
    BY <1>1, <1>2, <1>5, <1>9, VisitAddress
  <2> HIDE DEF ps
  <2> QED
    BY <1>1, <1>3, <1>9, <2>1, <2>2, <2>3, RecordedIsTidy
<1>10. CASE n.k = "NullToPointer"
  <2>1. PICK ps : ps = {Null} /\ Records(s, t, e, ps)
    BY <1>2, <1>5, <1>10, VisitNullCast
  <2>2. t.pmap = s.pmap /\ t.diags = s.diags
    BY <1>2, <1>5, <1>10, VisitNullCast
  <2>3. InScope(ps, D) /\ Invalid \notin ps
    BY <2>1, MarkersDiffer DEF InScope, VarsOf, Special
  <2> QED
    BY <1>1, <1>3, <1>10, <2>1, <2>2, <2>3, RecordedIsTidy
<1>11. CASE n.k = "BinaryOperator"
  <2> DEFINE lhs == PSetOf(f, s, n.lhs)
             rhs == PSetOf(f, s, n.rhs)
  <2>1. n.lhs \in UsedBy(n) /\ n.rhs \in UsedBy(n) /\ IsLValueNode(f, n.lhs, n.type) /\ IsPointerNode(f, n.rhs, n.type)
    BY <1>1, <1>11, NodeCases DEF IsAssign, UsedBy
  <2>2. /\ lhs \in PSets(f) /\ InScope(lhs, D) /\ InScope(rhs, D)
        /\ clean /\ Told(s.diags) = {} => Invalid \notin lhs
    BY <1>4, <2>1 DEF IsLValueNode
  <2>3. Records(s, t, e, lhs) /\ t.pmap = Assigned(s.pmap, lhs, rhs)
    BY <1>1, <1>2, <1>5, <1>11, VisitAssignment
  <2> HIDE DEF lhs, rhs
  <2>4. /\ AreInScope(t.pmap, D)
        /\ HasNoOthers(s.pmap, D) /\ (\A v \in VarsOf(lhs) : v.base \in D) => HasNoOthers(t.pmap, D)
    BY <1>2, <1>3, <2>2, <2>3, AssignedInScope
  <2>5. Told(t.diags) = {} => Told(s.diags) = {}
    BY <2>3 DEF Records, Extends
  <2>6. clean /\ Told(t.diags) = {} => HasNoOthers(t.pmap, D) /\ Invalid \notin lhs
    BY <1>3, <2>2, <2>4, <2>5 DEF InScope
  <2> QED
    BY <1>1, <1>11, <2>2, <2>3, <2>4, <2>6, RecordedIsTidy
<1>12. CASE \/ n.k \in {"NullPtrLiteral", "BoolConversion"}
            \/ n.k = "LValueToRValue" /\ ~IsPointerCategory(n.type)
            \/ n.k = "UnaryOperator" /\ n.op = "LNot"
  <2>1. t = s
    BY <1>1, <1>2, <1>5, <1>12, VisitNothing
  <2>2. ~n.lvalue
    BY <1>1, <1>12, NodeCases DEF IsNullLiteral, IsTest, IsLoad, IsNegation
  <2>3. ~HasPSet(f, e) \/ n.k = "NullPtrLiteral"
    BY <1>1, <1>5, <1>12, NodeCases, HasPSetOfNode DEF IsLoad, IsTest, IsNegation
  <2>4. n.k = "NullPtrLiteral" => InScope(PSetOf(f, t, e), D)
    BY <1>1, PSetOfNode, MarkersDiffer DEF InScope, VarsOf, Special
  <2> QED
    BY <1>3, <2>1, <2>2, <2>3, <2>4 DEF Tidies
<1>13. n.k \in Kinds \ {"DeclStmt", "LifetimeEnds"}
  BY <1>1, <1>5, NodeKinds DEF EndsStatement
<1>14. n.k = "UnaryOperator" => n.op \in {"Deref", "AddrOf", "LNot"}
  BY <1>1, NodeCases
<1> QED
  BY <1>6, <1>7, <1>8, <1>9, <1>10, <1>11, <1>12, <1>13, <1>14 DEF Kinds

(* A declaration adds the variable, to scope and map. *)
LEMMA DeclarationIsTidy ==
  ASSUME NEW f, IsAnalysed(f), NEW elems, IsBlock(f, elems), NEW i \in 0..(Len(elems) - 1), NEW before,
         NEW clean, NEW s, BlockInv(f, elems, i, s), IsTidy(clean, f, elems, i, before, s),
         f.nodes[elems[i + 1]].k = "DeclStmt",
         NEW t, t = VisitElement(f, s, elems[i + 1])
  PROVE  IsTidy(clean, f, elems, i + 1, before, t)
<1> DEFINE e == elems[i + 1]
           n == f.nodes[e]
           d == n.decls[1]
           v == Var(d.var)
           D == ScopeAt(f, elems, i, before)
           E == ScopeAt(f, elems, i + 1, before)
<1>1. /\ i \in Nat /\ i \in 0..Len(elems) /\ e \in DOMAIN f.nodes
      /\ \A x \in UsedBy(n) : IsFresh(f, elems, x, i) /\ IsKnown(f, s, x)
  BY ElementsAreNodes DEF BlockInv
<1>2. IsState(s) /\ s.pmap \in PMapsOf(f)
  BY DEF BlockInv
<1>3. v \in Names(f) /\ v.base = d.var /\ d.var \in Locals(f) /\ Singleton(v, 0) = {v}
  <2>1. v \in Names(f)
    BY <1>1, NamedNode
  <2>2. v.base = d.var
    BY DEF Var
  <2> QED
    BY <2>1, <2>2, NameIsPlain
<1>4. D \subseteq E /\ d.var \in E
  <2>1. \A c : ~Ends(f, e, c)
    BY DEF Ends
  <2>2. Declares(f, e, d.var)
    BY DEF Declares
  <2> QED
    BY <1>1, <1>3, <2>1, <2>2, ScopeOfNext
<1>5. \A x : ~IsFresh(f, elems, x, i + 1)
  BY <1>1, FreshStep DEF EndsStatement
<1>6. d.init # NoExpr => IsKnown(f, s, d.init) /\ IsFresh(f, elems, d.init, i)
  BY <1>1 DEF UsedBy
<1>7. AreInScope(s.pmap, D) /\ (clean /\ Told(s.diags) = {} => HasNoOthers(s.pmap, D))
  BY DEF IsTidy
<1>8. d.init # NoExpr => InScope(PSetOf(f, s, d.init), D)
  <2>1. IsDeclaration(f, n)
    BY <1>1, NodeCases
  <2>2. d.init # NoExpr => IsPointerNode(f, d.init, DeclInfo[d.var].type)
    BY <2>1 DEF IsDeclaration
  <2>3. d.init # NoExpr => d.init \in DOMAIN f.nodes /\ ~EndsStatement(f.nodes[d.init])
    BY <1>1, <1>6, FreshAreNodes
  <2>4. d.init # NoExpr => HasPSet(f, d.init)
    BY <2>2, <2>3, HasPSetOfNode DEF IsPointerNode
  <2> QED
    BY <1>6, <2>4 DEF IsTidy
<1>9. t = VisitElement(f, s, e) /\ n.k = "DeclStmt"
  OBVIOUS
<1> SUFFICES IsTidy(clean, f, elems, i + 1, before, t)
  OBVIOUS
<1> HIDE DEF D, e, d
<1>10. d = f.nodes[e].decls[1]
  BY DEF d
<1>11. Extends(s, t)
  BY <1>1, <1>2, <1>6, <1>9, <1>10, VisitDeclaration
<1>12. PICK ps \in PSets(f) :
         /\ t.pmap = Assigned(s.pmap, Singleton(Var(d.var), 0), ps)
         /\ IsPointerCategory(DeclInfo[d.var].type) => ps = InitialPSet(f, s, d)
         /\ ~IsPointerCategory(DeclInfo[d.var].type) => ps = Singleton(Var(d.var), 0)
  BY <1>1, <1>2, <1>6, <1>9, <1>10, VisitDeclaration
<1> DEFINE lhs == Singleton(v, 0)
<1>13. lhs \in PSets(f) /\ InScope(lhs, E) /\ \A x \in VarsOf(lhs) : x.base \in E
  <2>1. lhs = {v}
    BY <1>3
  <2> HIDE DEF lhs, v
  <2> QED
    BY <1>3, <1>4, <2>1 DEF PSets, InScope, VarsOf
<1>14. InScope(ps, E)
  <2>1. CASE IsPointerCategory(DeclInfo[d.var].type)
    <3>1. ps = IF d.init = NoExpr THEN {Invalid} ELSE PSetOf(f, s, d.init)
      BY <1>12, <2>1 DEF InitialPSet
    <3> QED
      BY <1>4, <1>8, <3>1 DEF InScope
  <2>2. CASE ~IsPointerCategory(DeclInfo[d.var].type)
    BY <1>12, <1>13, <2>2
  <2> QED
    BY <2>1, <2>2
<1>15. t.pmap = Assigned(s.pmap, lhs, ps)
  BY <1>12
<1> HIDE DEF lhs, v
<1>16. AreInScope(s.pmap, E) /\ (HasNoOthers(s.pmap, D) => HasNoOthers(s.pmap, E))
  BY <1>4, <1>7 DEF AreInScope, InScope, HasNoOthers
<1> HIDE DEF E
<1>17. AreInScope(t.pmap, E) /\ (HasNoOthers(s.pmap, E) => HasNoOthers(t.pmap, E))
  BY <1>2, <1>13, <1>14, <1>15, <1>16, AssignedInScope
<1>18. Told(t.diags) = {} => Told(s.diags) = {}
  BY <1>11 DEF Extends
<1>19. clean /\ Told(t.diags) = {} => HasNoOthers(t.pmap, E)
  BY <1>7, <1>16, <1>17, <1>18
<1> QED
  BY <1>5, <1>17, <1>19 DEF IsTidy, E

(* What has left its scope is gone. *)
LEMMA ScopeEndIsTidy ==
  ASSUME NEW f, IsAnalysed(f), NEW elems, IsBlock(f, elems), NEW i \in 0..(Len(elems) - 1), NEW before,
         NEW clean, NEW s, BlockInv(f, elems, i, s), IsTidy(clean, f, elems, i, before, s),
         f.nodes[elems[i + 1]].k = "LifetimeEnds",
         NEW t, t = VisitElement(f, s, elems[i + 1])
  PROVE  IsTidy(clean, f, elems, i + 1, before, t)
<1> DEFINE e == elems[i + 1]
           d == f.nodes[e].var
           D == ScopeAt(f, elems, i, before)
           E == ScopeAt(f, elems, i + 1, before)
           p == s.pmap
           q == t.pmap
<1>1. i \in Nat /\ i \in 0..Len(elems) /\ e \in DOMAIN f.nodes
  BY ElementsAreNodes
<1>2. IsState(s) /\ p \in PMapsOf(f)
  BY DEF BlockInv
<1>3. Var(d) \in Names(f) /\ d # NoDecl
  <2>1. Var(d) \in Names(f)
    BY <1>1, NamedNode
  <2>2. Var(d).base = d
    BY DEF Var
  <2> QED
    BY <2>1, <2>2, NameIsPlain
<1>4. \A c \in D : c # d => c \in E
  <2>1. \A c : c # d => ~Ends(f, e, c)
    BY DEF Ends
  <2> QED
    BY <1>1, <2>1, ScopeOfNext
<1>5. \A x : ~IsFresh(f, elems, x, i + 1)
  BY <1>1, FreshStep DEF EndsStatement
<1>6. AreInScope(p, D) /\ (clean /\ Told(s.diags) = {} => HasNoOthers(p, D))
  BY DEF IsTidy
<1>7. t = EraseVariable(s, d) /\ Extends(s, t)
  BY <1>1, <1>2, VisitScopeEnd
<1>8. /\ DOMAIN q \subseteq DOMAIN p
      /\ \A w \in DOMAIN q : ~IsParent(Var(d), w)
      /\ \A w \in DOMAIN q : q[w] \in {Invalidated(p[w], Var(d)), {Invalid}}
  <2>1. "pmap" \in DOMAIN s /\ q = EraseVariable(s, d).pmap
    BY <1>2, <1>7 DEF IsState
  <2> HIDE DEF d, q
  <2>2. /\ DOMAIN q = {w \in DOMAIN p : ~IsParent(Var(d), w) /\ ~IsTemporaryExtendedBy(w, d)}
        /\ \A w \in DOMAIN q : q[w] \in {Invalidated(p[w], Var(d)), {Invalid}}
    BY <1>3, <2>1, WhatErasingLeaves
  <2> QED
    BY <2>2
<1>9. \A w \in DOMAIN q : Invalid \in q[w] \/ ~ContainsParent(q[w], Var(d))
  BY <1>2, <1>3, <1>7, ScopeEndErases DEF IsState, IsBuilder
<1>10. DOMAIN p \subseteq Names(f) /\ \A w \in DOMAIN p : p[w] \in PSets(f)
  BY <1>2, PMap
<1>11. \A x \in Names(f) : x.base = d => IsParent(Var(d), x)
  <2> SUFFICES ASSUME NEW x \in Names(f), x.base = d PROVE IsParent(Var(d), x)
    OBVIOUS
  <2>1. x = Var(d) /\ x.path = <<>>
    BY NameIsPlain
  <2> QED
    BY <2>1, <1>3, NameIsPlain DEF IsParent, IsPrefix, StaysInObject
<1> SUFFICES IsTidy(clean, f, elems, i + 1, before, t)
  OBVIOUS
<1> HIDE DEF D, E, d, e, p, q
<1>12. ASSUME NEW w \in DOMAIN q PROVE InScope(q[w], E)
  <2> SUFFICES ASSUME Invalid \notin q[w], NEW x \in VarsOf(q[w]) PROVE x.base \in E
    BY DEF InScope
  <2>1. q[w] = p[w]
    BY <1>8 DEF Invalidated
  <2>2. x \in Names(f) /\ x.base \in D
    BY <1>6, <1>8, <1>10, <2>1 DEF AreInScope, InScope, VarsOf, PSets
  <2>3. x.base # d
    BY <1>9, <1>11, <2>2 DEF ContainsParent
  <2> QED
    BY <1>4, <2>2, <2>3
<1>13. HasNoOthers(p, D) => HasNoOthers(q, E)
  BY <1>4, <1>8, <1>10, <1>11 DEF HasNoOthers
<1>14. Told(t.diags) = {} => Told(s.diags) = {}
  BY <1>7 DEF Extends
<1>15. AreInScope(q, E) /\ (clean /\ Told(t.diags) = {} => HasNoOthers(q, E))
  BY <1>6, <1>12, <1>13, <1>14 DEF AreInScope
<1> QED
  BY <1>5, <1>15 DEF IsTidy, E, q

(* The names a block uses are in scope where it uses them. *)
NamesInScope(f, elems, before) ==
  \A i \in 1..Len(elems) :
    f.nodes[elems[i]].k = "DeclRefExpr" => f.nodes[elems[i]].var.base \in ScopeAt(f, elems, i - 1, before)

(* A visit starts with the psets on entry.                                 *)
LEMMA StartIsTidy ==
  ASSUME NEW f, IsAnalysed(f), NEW elems, NEW before, NEW clean, NEW s,
         s.pmap \in PMapsOf(f), AreInScope(s.pmap, before), clean => HasNoOthers(s.pmap, before)
  PROVE  IsTidy(clean, f, elems, 0, before, s)
<1> DEFINE p == s.pmap
           D == ScopeAt(f, elems, 0, before)
<1>1. DOMAIN p \subseteq Names(f) /\ \A w \in DOMAIN p : p[w] \in PSets(f)
  BY PMap
<1>2. \A x \in Names(f) : x.base \in Locals(f)
  BY NameIsPlain
<1>3. \A d \in Locals(f) : d \in before => d \in D
  BY DEF ScopeAt
<1>4. \A x : ~IsFresh(f, elems, x, 0)
  BY DEF IsFresh
<1> HIDE DEF D
<1>5. ASSUME NEW w \in DOMAIN p PROVE InScope(p[w], D)
  <2>1. InScope(p[w], before)
    BY DEF AreInScope
  <2>2. \A x \in VarsOf(p[w]) : x.base \in Locals(f)
    BY <1>1, <1>2 DEF VarsOf, PSets
  <2> QED
    BY <1>3, <2>1, <2>2 DEF InScope
<1>6. clean => HasNoOthers(p, D)
  BY <1>1, <1>2, <1>3 DEF HasNoOthers
<1>7. AreInScope(p, D)
  BY <1>5 DEF AreInScope
<1> QED
  BY <1>4, <1>6, <1>7 DEF IsTidy, D

(* Every element keeps to what is in scope.                                *)
LEMMA StepIsTidy ==
  ASSUME NEW f, IsAnalysed(f), NEW elems, IsBlock(f, elems), NEW i \in 0..(Len(elems) - 1), NEW before,
         NEW clean, NEW s, BlockInv(f, elems, i, s), IsTidy(clean, f, elems, i, before, s),
         NamesInScope(f, elems, before),
         NEW t, t = VisitElement(f, s, elems[i + 1])
  PROVE  IsTidy(clean, f, elems, i + 1, before, t)
<1>1. CASE f.nodes[elems[i + 1]].k = "DeclStmt"
  BY <1>1, DeclarationIsTidy
<1>2. CASE f.nodes[elems[i + 1]].k = "LifetimeEnds"
  BY <1>2, ScopeEndIsTidy
<1>3. CASE ~EndsStatement(f.nodes[elems[i + 1]])
  <2>1. i \in Nat /\ i + 1 \in 1..Len(elems) /\ (i + 1) - 1 = i
    BY ElementsAreNodes
  <2>2. f.nodes[elems[i + 1]].k = "DeclRefExpr" =>
          f.nodes[elems[i + 1]].var.base \in ScopeAt(f, elems, i, before)
    BY <2>1 DEF NamesInScope
  <2>3. Tidies(clean, f, ScopeAt(f, elems, i, before), s, t, elems[i + 1])
    BY <1>3, <2>2, ExpressionIsTidy
  <2> QED
    BY <1>3, <2>3, TidyExpression
<1> QED
  BY <1>1, <1>2, <1>3 DEF EndsStatement

(* So does a whole visit, element by element.                              *)
LEMMA VisitIsTidy ==
  ASSUME NEW f, IsAnalysed(f), NEW b \in f.blocks, NEW before, NEW clean,
         NEW pmap \in PMapsOf(f), NEW fe, NEW seen, NEW r, Visits(f, b, pmap, fe, seen, r),
         AreInScope(pmap, before), clean => HasNoOthers(pmap, before),
         NamesInScope(f, f.elems[b], before)
  PROVE  IsTidy(clean, f, f.elems[b], Len(f.elems[b]), before, r[Len(f.elems[b])])
<1> DEFINE elems == f.elems[b]
           n == Len(elems)
           T == {i \in 0..n : IsTidy(clean, f, elems, i, before, r[i])}
<1>1. IsBlock(f, elems) /\ n \in Nat
  BY BlockOfProgram
<1>2. 0 \in T
  <2>1. r[0].pmap = pmap
    BY DEF Visits, StartOfVisit
  <2>2. IsTidy(clean, f, elems, 0, before, r[0])
    BY <2>1, StartIsTidy
  <2> QED
    BY <1>1, <2>2
<1>3. ASSUME NEW i \in 0..(n - 1), i \in T PROVE i + 1 \in T
  <2>1. IsTidy(clean, f, elems, i, before, r[i])
    BY <1>3
  <2>2. r[i + 1] = VisitElement(f, r[i], elems[i + 1])
    BY DEF Visits
  <2>3. i \in 0..n /\ i + 1 \in 0..n
    BY <1>1
  <2>4. BlockInv(f, elems, i, r[i])
    BY <2>3, VisitsAreSound
  <2> DEFINE s == r[i]
             t == r[i + 1]
  <2> HIDE DEF s, t, elems
  <2>5. BlockInv(f, elems, i, s) /\ IsTidy(clean, f, elems, i, before, s) /\ t = VisitElement(f, s, elems[i + 1])
    BY <2>1, <2>2, <2>4 DEF s, t
  <2>6. NamesInScope(f, elems, before)
    BY DEF elems
  <2>7. IsTidy(clean, f, elems, i + 1, before, t)
    BY <1>1, <2>5, <2>6, StepIsTidy
  <2> QED
    BY <2>3, <2>7 DEF t
<1> HIDE DEF T
<1>4. 0..n \subseteq T
  BY <1>1, <1>2, <1>3, UpTo
<1>5. n \in T
  BY <1>1, <1>4
<1> QED
  BY <1>5 DEF T

(* What a visit leaves is in scope at the end of its block; and nothing    *)
(* else is known of if nothing else was and nothing was told.              *)
LEMMA VisitStaysInScope ==
  ASSUME NEW f, IsAnalysed(f), NEW b \in f.blocks, SuccSize(f, b) \in {1, 2}, NEW before, NEW clean,
         NEW pmap \in PMapsOf(f), NEW fe, NEW seen,
         NEW v, v = VisitBlockOf(f, b, pmap, fe, seen),
         AreInScope(pmap, before), clean => HasNoOthers(pmap, before),
         NamesInScope(f, f.elems[b], before),
         NEW D, D = ScopeAfter(f, b, before)
  PROVE  /\ AreInScope(v.pmap, D)
         /\ Splits(f, b) => AreInScope(v.falseExit, D)
         /\ clean /\ Told(v.diags) = {} =>
              HasNoOthers(v.pmap, D) /\ (Splits(f, b) => HasNoOthers(v.falseExit, D))
<1> DEFINE start == StartOfVisit(pmap, fe, seen)
           elems == f.elems[b]
           n == Len(elems)
           s == VisitElements(f, start, elems)
           t == AfterCondition(f, b, s)
<1>1. PICK r : Visits(f, b, pmap, fe, seen, r)
  BY VisitsExist
<1>2. n \in 0..n /\ n \in Nat
  BY BlockOfProgram
<1>3. r[n] = s
  BY <1>1 DEF Visits
<1>4. BlockInv(f, elems, n, s)
  BY <1>1, <1>2, <1>3, VisitsAreSound
<1>5. IsTidy(clean, f, elems, n, before, s)
  BY <1>1, <1>3, VisitIsTidy
<1> HIDE DEF s, t
<1>6. /\ t.diags = s.diags /\ t.pmap \in PMapsOf(f)
      /\ Splits(f, b) => /\ TestedVar(f, b) \in Names(f)
                         /\ t.pmap = Narrowed(s.pmap, TestedVar(f, b), ~Positive(f, b))
                         /\ t.falseExit = Narrowed(s.pmap, TestedVar(f, b), Positive(f, b))
      /\ ~Splits(f, b) => t = s
  BY <1>4, SplitIsSound DEF t
<1>7. s.pmap \in PMapsOf(f)
  BY <1>4 DEF BlockInv
<1>8. v.pmap = t.pmap /\ v.falseExit = t.falseExit /\ v.diags = t.diags
  BY <1>6, <1>7, VisitedBlock DEF s, t
<1>9. AreInScope(s.pmap, D) /\ (clean /\ Told(s.diags) = {} => HasNoOthers(s.pmap, D))
  BY <1>5 DEF IsTidy, ScopeAfter
<1>10. CASE ~Splits(f, b)
  BY <1>6, <1>8, <1>9, <1>10
<1>11. CASE Splits(f, b)
  <2> DEFINE x == TestedVar(f, b)
             c == f.nodes[LoadOf(f, Last(elems))].sub
  <2>1. n - 1 \in 0..(n - 1) /\ (n - 1) + 1 = n /\ Last(elems) = elems[(n - 1) + 1]
        /\ IsCondition(f, f.nodes[Last(elems)]) /\ IsBlock(f, elems)
    BY <1>2, <1>11, BlockOfProgram DEF Splits
  <2>2. IsFresh(f, elems, c, n)
    BY <2>1, LoadIsFresh
  <2>3. f.nodes[c].k = "DeclRefExpr" /\ x = f.nodes[c].var
    BY <1>11 DEF Splits, TestsPointer, TestedVar
  <2>4. c \in DOMAIN f.nodes /\ ~EndsStatement(f.nodes[c])
    BY <1>2, <2>1, <2>2, FreshAreNodes
  <2>5. IsKnown(f, s, c)
    BY <1>4, <2>2 DEF BlockInv
  <2>6. PSetOf(f, s, c) = {x}
    <3> HIDE DEF c, x
    <3>1. PSetOf(f, s, c) = s.exprs[c]
      BY <2>3, <2>4, PSetOfNode
    <3>2. s.exprs[c] = {x}
      BY <2>3, <2>5 DEF IsKnown
    <3> QED
      BY <3>1, <3>2
  <2>7. HasPSet(f, c)
    BY <2>3, <2>4, NodeCases, HasPSetOfNode DEF IsDeclRef
  <2>8. InScope({x}, D)
    BY <1>5, <2>2, <2>6, <2>7 DEF IsTidy, ScopeAfter
  <2>9. x \in Names(f) /\ x \notin Special
    BY <1>6, <1>11, NamesAreNoMarkers
  <2>10. x.base \in D
    BY <2>8, <2>9 DEF InScope, VarsOf, Special
  <2> HIDE DEF x
  <2>11. \A isNull : /\ AreInScope(Narrowed(s.pmap, x, isNull), D)
                     /\ HasNoOthers(s.pmap, D) => HasNoOthers(Narrowed(s.pmap, x, isNull), D)
    BY <1>7, <1>9, <2>9, <2>10, NarrowedInScope
  <2> QED
    BY <1>6, <1>8, <1>9, <1>11, <2>11 DEF x
<1> QED
  BY <1>10, <1>11

=============================================================================
