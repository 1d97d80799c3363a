--------------------------- MODULE LifetimeProofs ---------------------------
(***************************************************************************)
(* Theorems about the fixed point engine, for every control flow graph and *)
(* every transfer function.                                                *)
(***************************************************************************)
EXTENDS Lifetime, SequenceTheorems, FiniteSetTheorems, TLAPS

-----------------------------------------------------------------------------
(* Maps of psets *)

(* Leq is reflexive, *)
LEMMA LeqReflexive == ASSUME NEW p PROVE Leq(p, p)
BY DEF Leq

(* and transitive, *)
LEMMA LeqTransitive ==
  ASSUME NEW p, NEW q, NEW r, Leq(p, q), Leq(q, r) PROVE Leq(p, r)
BY DEF Leq

(* and merging maps gives an upper bound of each of them. *)
LEMMA MergeIsUpperBound ==
  ASSUME NEW maps, NEW m \in maps PROVE Leq(m, Merge(maps))
<1> SUFFICES ASSUME NEW v \in DOMAIN m
             PROVE  v \in DOMAIN Merge(maps) /\ m[v] \subseteq Merge(maps)[v]
  BY DEF Leq
<1>1. v \in UNION {DOMAIN n : n \in maps}
  OBVIOUS
<1>2. Merge(maps)[v] = UNION {n[v] : n \in {k \in maps : v \in DOMAIN k}}
  BY <1>1 DEF Merge
<1> QED
  BY <1>1, <1>2 DEF Merge
-----------------------------------------------------------------------------
(* The successors of a block are blocks of the graph.                      *)
LEMMA SuccessorsAreBlocks ==
  ASSUME fn \in FunctionDecls, NEW b \in F.blocks
  PROVE  ReachableSuccs(F, b) \subseteq F.blocks
<1> DEFINE Edges == [to : F.blocks, reachable : BOOLEAN]
<1>1. F.succs[b] \in Seq(Edges)
  BY LifetimeAssumption DEF IsCFG, F
<1>2. \A i \in DOMAIN F.succs[b] : F.succs[b][i] \in Edges
  <2> HIDE DEF Edges
  <2> QED  BY <1>1, ElementOfSeq
<1>3. \A i \in DOMAIN F.succs[b] : F.succs[b][i].to \in F.blocks
  BY <1>2
<1> QED
  BY <1>3 DEF ReachableSuccs

(* The entry is one of them.                                               *)
LEMMA EntryIsABlock == ASSUME fn \in FunctionDecls PROVE F.entry \in F.blocks
BY LifetimeAssumption DEF IsCFG, F

(* A step never changes the function under analysis.                       *)
LEMMA SameGraph == ASSUME [Next]_vars PROVE fn' = fn /\ F' = F
BY DEF Next, vars, SkipExit, SkipUnchanged, Visit, GiveUp, Finish, Terminated, F
-----------------------------------------------------------------------------
(* Type correctness *)

(* The engine starts with well formed tables, *)
LEMMA InitTypeOK == ASSUME Init PROVE TypeOK
<1>1. IsCFG(F)
  BY LifetimeAssumption DEF Init, F
<1>2. ReachableSuccs(F, F.entry) \subseteq F.blocks
  BY <1>1, SuccessorsAreBlocks DEF Init, IsCFG
<1>3. /\ entryPMap = [b \in F.blocks |-> entryPMap[b]]
      /\ exitPMap = [b \in F.blocks |-> exitPMap[b]]
      /\ falseExit = [b \in F.blocks |-> falseExit[b]]
  BY DEF Init
<1>4. iterationCount \in 0..IterationLimit
  BY LifetimeAssumption DEF Init
<1> QED
  BY <1>2, <1>3, <1>4 DEF Init, TypeOK

(* and every step keeps them so.                                           *)
LEMMA StepTypeOK == ASSUME TypeOK, [Next]_vars PROVE TypeOK'
<1>1. fn' = fn /\ F' = F
  BY SameGraph
<1>2. CASE UNCHANGED vars
  BY <1>1, <1>2 DEF TypeOK, vars
<1>3. ASSUME NEW b \in F.blocks, SkipExit(b) PROVE TypeOK'
  BY <1>1, <1>3 DEF SkipExit, TypeOK
<1>4. ASSUME NEW b \in F.blocks, SkipUnchanged(b) PROVE TypeOK'
  BY <1>1, <1>4 DEF SkipUnchanged, TypeOK
<1>5. ASSUME NEW b \in F.blocks, Visit(b) PROVE TypeOK'
  <2>1. Enqueued(b) \subseteq F.blocks
    BY SuccessorsAreBlocks DEF TypeOK, Enqueued
  <2>2. worklist' \subseteq F.blocks
    BY <1>5, <2>1 DEF Visit, TypeOK
  <2>3. visited' \subseteq F.blocks \ {F.exit}
    BY <1>5 DEF Visit, TypeOK
  <2>4. iterationCount' \in 0..IterationLimit
    BY <1>5, LifetimeAssumption DEF Visit, WithinLimit, TypeOK
  <2>5. /\ entryPMap' = [c \in F.blocks |-> entryPMap'[c]]
        /\ exitPMap' = [c \in F.blocks |-> exitPMap'[c]]
        /\ falseExit' = [c \in F.blocks |-> falseExit'[c]]
    BY <1>5 DEF Visit, TypeOK
  <2> QED
    BY <1>1, <1>5, <2>2, <2>3, <2>4, <2>5 DEF Visit, TypeOK
<1>6. ASSUME NEW b \in F.blocks, GiveUp(b) PROVE TypeOK'
  BY <1>1, <1>6 DEF GiveUp, TypeOK
<1>7. CASE Finish
  BY <1>1, <1>7 DEF Finish, TypeOK
<1>8. CASE Terminated
  BY <1>2, <1>8 DEF Terminated
<1> QED
  BY <1>2, <1>3, <1>4, <1>5, <1>6, <1>7, <1>8 DEF Next

(* LifetimeContext keeps a context for every block, analyses blocks of the *)
(* graph only and never its exit (Lifetime.cpp:244, 419-460).              *)
THEOREM Typing == Spec => []TypeOK
<1>1. Init => TypeOK
  BY InitTypeOK
<1>2. TypeOK /\ [Next]_vars => TypeOK'
  BY StepTypeOK
<1> QED
  BY <1>1, <1>2, PTL DEF Spec

-----------------------------------------------------------------------------
(* Monotonicity *)

(* What is computed for the entry of a block includes what was there.      *)
LEMMA EntryIsKept == ASSUME NEW b PROVE Leq(entryPMap[b], ComputedEntry(b))
BY MergeIsUpperBound DEF ComputedEntry

(* A step takes nothing from the entry of any block.                       *)
LEMMA StepEntriesGrow ==
  ASSUME TypeOK, [Next]_vars
  PROVE  \A b \in F.blocks : Leq(entryPMap[b], entryPMap'[b])
<1> SUFFICES ASSUME NEW b \in F.blocks PROVE Leq(entryPMap[b], entryPMap'[b])
  OBVIOUS
<1>1. CASE entryPMap' = entryPMap
  BY <1>1, LeqReflexive
<1>2. ASSUME NEW c \in F.blocks, Visit(c) PROVE Leq(entryPMap[b], entryPMap'[b])
  <2>1. entryPMap' = [entryPMap EXCEPT ![c] = ComputedEntry(c)]
    BY <1>2 DEF Visit
  <2>2. CASE b = c
    BY <2>1, <2>2, EntryIsKept DEF TypeOK
  <2>3. CASE b # c
    BY <2>1, <2>3, LeqReflexive DEF TypeOK
  <2> QED
    BY <2>2, <2>3
<1> QED
  BY <1>1, <1>2
     DEF Next, vars, SkipExit, SkipUnchanged, GiveUp, Finish, Terminated

(* The psets on entry to a block only grow (computeEntryPSets merges into  *)
(* EntryPMap and nothing else writes it), whatever the transfer function   *)
(* does.                                                                   *)
THEOREM EntriesOnlyGrow == Spec => EntriesGrow
<1>1. TypeOK /\ [Next]_vars => \A b \in F.blocks : Leq(entryPMap[b], entryPMap'[b])
  BY StepEntriesGrow
<1> QED
  BY <1>1, Typing, PTL DEF Spec, EntriesGrow

-----------------------------------------------------------------------------
(* The worklist *)

(* The inductive invariant: no change is forgotten, and the loop ends with *)
(* an empty worklist unless it gives up.                                   *)
IInv ==
  /\ TypeOK
  /\ NothingForgotten
  /\ done /\ ~Exhausted => worklist = {}

(* Computing the entry of a block takes in what each promised edge brings. *)
LEMMA EdgeIsTakenIn ==
  ASSUME NEW b, NEW p \in F.blocks, b \in ReachableSuccs(F, p), Promised(p, b)
  PROVE  Leq(EdgePMap(p, b), ComputedEntry(b))
<1>1. p \in ReachablePreds(b)
  BY DEF ReachablePreds, Preds, IsReachablePred, ReachableSuccs
<1>2. CASE PropagateFalseSet(b)
  <2>1. IsSplit(b)
    BY <1>2 DEF PropagateFalseSet, IsSplit
  <2>2. ~IsFalseEdge(F, p, b) /\ SuccSize(F, p) \in {1, 2}
    BY <2>1 DEF Promised
  <2>3. p \in TruePreds(b)
    BY <1>1, <2>2 DEF TruePreds
  <2>4. EdgePMap(p, b) = exitPMap[p]
    BY <2>2 DEF EdgePMap
  <2> QED
    BY <1>2, <2>3, <2>4, MergeIsUpperBound DEF ComputedEntry
<1>3. CASE ~PropagateFalseSet(b)
  BY <1>1, <1>3, MergeIsUpperBound DEF ComputedEntry
<1> QED
  BY <1>2, <1>3

(* Initially only the entry block has run, and all its successors wait.    *)
LEMMA InitIInv == ASSUME Init PROVE IInv
BY InitTypeOK DEF Init, IInv, NothingForgotten

(* A visit takes in what all predecessors left behind, and enqueues the    *)
(* successors that do not know what it leaves behind itself.               *)
LEMMA VisitIInv ==
  ASSUME IInv, NEW b \in F.blocks, Visit(b) PROVE NothingForgotten'
<1>1. fn' = fn /\ F' = F
  BY DEF Visit, F
<1>2. /\ entryPMap' = [entryPMap EXCEPT ![b] = ComputedEntry(b)]
      /\ \A c \in F.blocks \ {b} : exitPMap'[c] = exitPMap[c] /\ falseExit'[c] = falseExit[c]
      /\ visited' = visited \cup {b}
      /\ worklist' = (worklist \ {b}) \cup Enqueued(b)
      /\ ~Exhausted
  BY DEF Visit, IInv, TypeOK, Dequeue, Exhausted
<1> SUFFICES ASSUME NEW p \in visited' \cup {F.entry},
                    NEW c \in ReachableSuccs(F, p) \ {F.exit},
                    Promised(p, c)
             PROVE  c \in worklist' \/ UpToDate(p, c)'
  BY <1>1 DEF NothingForgotten, Promised, IsSplit
<1>3. CASE p = b
  <2>1. c \in Enqueued(b)
    BY <1>3 DEF Enqueued, Promised
  <2> QED
    BY <1>2, <2>1
<1>4. CASE p # b
  <2>1. p \in F.blocks /\ p \in visited \cup {F.entry}
    BY <1>2, <1>4, EntryIsABlock DEF IInv, TypeOK
  <2>2. c \in F.blocks
    BY <2>1, SuccessorsAreBlocks DEF IInv, TypeOK
  <2>3. EdgePMap(p, c)' = EdgePMap(p, c)
    BY <1>1, <1>2, <1>4, <2>1 DEF EdgePMap
  <2>4. c \in worklist \/ UpToDate(p, c)
    BY <1>2, <2>1 DEF IInv, NothingForgotten
  <2>5. CASE c = b
    <3>1. Leq(EdgePMap(p, b), ComputedEntry(b))
      BY <2>1, <2>5, EdgeIsTakenIn
    <3> QED
      BY <1>2, <2>3, <2>5, <3>1 DEF UpToDate, IInv, TypeOK
  <2>6. CASE c # b
    BY <1>2, <2>2, <2>3, <2>4, <2>6 DEF UpToDate, IInv, TypeOK
  <2> QED
    BY <2>5, <2>6
<1> QED
  BY <1>3, <1>4

(* Only a noop block has its false psets changed without another visit,    *)
(* and nothing is promised along its false edge.                           *)
LEMMA SkipUnchangedIInv ==
  ASSUME IInv, NEW b \in F.blocks, SkipUnchanged(b) PROVE NothingForgotten'
<1>1. fn' = fn /\ F' = F
  BY DEF SkipUnchanged, F
<1>2. /\ UNCHANGED <<entryPMap, exitPMap, visited>>
      /\ worklist' = worklist \ {b}
      /\ b \in visited
      /\ ComputedEntry(b) = entryPMap[b]
      /\ \A c \in F.blocks \ {b} : falseExit'[c] = falseExit[c]
      /\ falseExit'[b] = ComputedFalseExit(b)
      /\ ~Exhausted
  BY DEF SkipUnchanged, Changed, IInv, TypeOK, Dequeue, Exhausted
<1> SUFFICES ASSUME NEW p \in visited \cup {F.entry},
                    NEW c \in ReachableSuccs(F, p) \ {F.exit},
                    Promised(p, c)
             PROVE  c \in worklist' \/ UpToDate(p, c)'
  BY <1>1, <1>2 DEF NothingForgotten, Promised, IsSplit
<1>3. p \in F.blocks
  BY <1>2, EntryIsABlock DEF IInv, TypeOK
<1>4. IsFalseEdge(F, p, c) => falseExit'[p] = falseExit[p]
  BY <1>2, <1>3 DEF Promised, IsSplit, ComputedFalseExit, PropagateFalseSet
<1>5. EdgePMap(p, c)' = EdgePMap(p, c)
  BY <1>1, <1>2, <1>4 DEF EdgePMap
<1>6. c \in worklist \/ UpToDate(p, c)
  BY <1>2 DEF IInv, NothingForgotten
<1>7. CASE c = b
  <2>1. Leq(EdgePMap(p, b), ComputedEntry(b))
    BY <1>3, <1>7, EdgeIsTakenIn
  <2> QED
    BY <1>2, <1>5, <1>7, <2>1 DEF UpToDate
<1>8. CASE c # b
  BY <1>2, <1>5, <1>6, <1>8 DEF UpToDate
<1> QED
  BY <1>7, <1>8

(* Every step preserves the invariant,                                     *)
LEMMA StepIInv == ASSUME IInv, [Next]_vars PROVE IInv'
<1>1. fn' = fn /\ F' = F
  BY SameGraph
<1>2. TypeOK'
  BY StepTypeOK DEF IInv
<1>3. ASSUME UNCHANGED <<worklist, visited, entryPMap, exitPMap, falseExit,
                         iterationCount, done>>
      PROVE  IInv'
  BY <1>1, <1>2, <1>3
     DEF IInv, NothingForgotten, Promised, IsSplit, UpToDate, EdgePMap, Exhausted, WithinLimit
<1>4. ASSUME NEW b \in F.blocks, SkipExit(b) PROVE IInv'
  BY <1>1, <1>2, <1>4
     DEF SkipExit, Dequeue, IInv, NothingForgotten, Promised, IsSplit, UpToDate, EdgePMap, Exhausted, WithinLimit
<1>5. ASSUME NEW b \in F.blocks, SkipUnchanged(b) PROVE IInv'
  BY <1>2, <1>5, SkipUnchangedIInv DEF SkipUnchanged, Dequeue, IInv
<1>6. ASSUME NEW b \in F.blocks, Visit(b) PROVE IInv'
  BY <1>2, <1>6, VisitIInv DEF Visit, Dequeue, IInv
<1>7. ASSUME NEW b \in F.blocks, GiveUp(b) PROVE IInv'
  BY <1>2, <1>7 DEF GiveUp, WithinLimit, IInv, NothingForgotten, Exhausted
<1>8. CASE Finish
  BY <1>1, <1>2, <1>8
     DEF Finish, IInv, NothingForgotten, Promised, IsSplit, UpToDate, EdgePMap, Exhausted, WithinLimit
<1> QED
  BY <1>3, <1>4, <1>5, <1>6, <1>7, <1>8 DEF Next, Terminated, vars

(* so it holds throughout.                                                 *)
LEMMA Inductive == Spec => []IInv
<1>1. Init => IInv
  BY InitIInv
<1>2. IInv /\ [Next]_vars => IInv'
  BY StepIInv
<1> QED
  BY <1>1, <1>2, PTL DEF Spec

(* No change is forgotten: after any number of visits, in any graph, each  *)
(* block that has not seen what a predecessor left behind is waiting.      *)
THEOREM NothingIsForgotten == Spec => []NothingForgotten
<1>1. IInv => NothingForgotten
  BY DEF IInv
<1> QED
  BY <1>1, Inductive, PTL

(* traverseBlocks stops in a steady state (Lifetime.cpp:365), but for the  *)
(* edges Promised leaves out.                                              *)
THEOREM StopsInSteadyState == Spec => []SteadyState
<1>1. IInv => SteadyState
  BY DEF IInv, NothingForgotten, SteadyState
<1> QED
  BY <1>1, Inductive, PTL

(* Whatever control can reach over promised edges has been analysed.       *)
THEOREM ReachableCodeIsAnalysed == Spec => []UnvisitedIsUnreachable
<1>1. IInv => UnvisitedIsUnreachable
  <2> SUFFICES ASSUME IInv, done, ~Exhausted,
                      NEW b \in F.blocks \ (visited \cup {F.entry, F.exit})
               PROVE  \E S \in SUBSET F.blocks : Closed(S) /\ b \notin S
    BY DEF UnvisitedIsUnreachable
  <2> DEFINE S == visited \cup {F.entry, F.exit}
  <2>1. /\ F.entry \in F.blocks
        /\ F.exit \in F.blocks
        /\ F.succs[F.exit] = <<>>
    BY LifetimeAssumption DEF IInv, TypeOK, IsCFG, F
  <2>2. S \in SUBSET F.blocks /\ b \notin S
    BY <2>1 DEF IInv, TypeOK
  <2>3. ReachableSuccs(F, F.exit) = {}
    BY <2>1 DEF ReachableSuccs
  <2>4. ASSUME NEW p \in S, NEW c \in ReachableSuccs(F, p), Promised(p, c)
        PROVE  c \in S
    <3>1. p \in visited \cup {F.entry}
      BY <2>3, <2>4
    <3> QED
      BY <2>4, <3>1 DEF IInv, NothingForgotten, UpToDate
  <2>5. Closed(S)
    BY <2>4 DEF Closed
  <2> QED
    BY <2>2, <2>5
<1> QED
  BY <1>1, Inductive, PTL
-----------------------------------------------------------------------------
(* Refinement *)

(* Control comes to each waiting block from the entry or a visited block.  *)
ControlArrives ==
  \A b \in worklist : \E p \in visited \cup {F.entry} : b \in ReachableSuccs(F, p)

LEMMA StepControlArrives ==
  ASSUME TypeOK, ControlArrives, [Next]_vars PROVE ControlArrives'
<1>1. fn' = fn /\ F' = F
  BY SameGraph
<1>2. visited \subseteq visited'
  BY DEF Next, vars, SkipExit, SkipUnchanged, Visit, GiveUp, Finish, Terminated
<1>3. CASE worklist' \subseteq worklist
  BY <1>1, <1>2, <1>3 DEF ControlArrives
<1>4. ASSUME NEW b \in F.blocks, Visit(b) PROVE ControlArrives'
  <2>1. worklist' \subseteq worklist \cup ReachableSuccs(F, b) /\ b \in visited'
    BY <1>4 DEF Visit, Enqueued
  <2> QED
    BY <1>1, <1>2, <2>1 DEF ControlArrives
<1> QED
  BY <1>3, <1>4 DEF Next, vars, SkipExit, SkipUnchanged, GiveUp, Finish, Terminated

LEMMA ControlAlwaysArrives == Spec => []ControlArrives
<1>1. Init => ControlArrives
  BY DEF Init, ControlArrives
<1>2. TypeOK /\ ControlArrives /\ [Next]_vars => ControlArrives'
  BY StepControlArrives
<1> QED
  BY <1>1, <1>2, Typing, PTL DEF Spec

(* A block that is not visited again tells what it told before. *)
LEMMA SkippingTellsNothing ==
  ASSUME IInv, NEW b \in F.blocks, SkipUnchanged(b), NEW e \in PromisedEdges
  PROVE  EdgePMap(e[1], e[2])' = EdgePMap(e[1], e[2])
<1>1. fn' = fn /\ F' = F
  BY DEF SkipUnchanged, F
<1>2. e[1] \in F.blocks /\ Promised(e[1], e[2])
  BY DEF PromisedEdges
<1>3. exitPMap' = exitPMap
  BY DEF SkipUnchanged
<1>4. IsFalseEdge(F, e[1], e[2]) => falseExit'[e[1]] = falseExit[e[1]]
  BY <1>2 DEF SkipUnchanged, IInv, TypeOK, ComputedFalseExit, PropagateFalseSet, Promised, IsSplit
<1> QED
  BY <1>1, <1>3, <1>4 DEF EdgePMap

(* A visit takes in all that is told, and there is a reason for it. *)
LEMMA VisitProcesses ==
  ASSUME IInv, ControlArrives, NEW b \in F.blocks, Visit(b) PROVE Search!Process(b)
<1>1. fn' = fn /\ F' = F
  BY DEF Visit, F
<1>2. /\ ~done /\ ~done'
      /\ b \in worklist
      /\ iterationCount < IterationLimit
      /\ Changed(b)
      /\ entryPMap' = [entryPMap EXCEPT ![b] = ComputedEntry(b)]
      /\ visited' = visited \cup {b}
      /\ iterationCount' = iterationCount + 1
  BY DEF Visit, Dequeue, WithinLimit
<1>3. PromisedEdges' = PromisedEdges
  BY <1>1 DEF PromisedEdges, Promised, IsSplit
<1>4. \E p \in F.blocks :
        p \in visited \cup {F.entry} /\ <<p, b>> \in {e \in F.blocks \X F.blocks : e[2] \in ReachableSuccs(F, e[1])}
  BY <1>2, EntryIsABlock DEF ControlArrives, IInv, TypeOK
<1>5. b \in visited => entryPMap'[b] # entryPMap[b]
  BY <1>2 DEF Changed, IInv, TypeOK
<1>6. \A c \in F.blocks \ {b} : entryPMap'[c] = entryPMap[c]
  BY <1>2 DEF IInv, TypeOK
<1>7. entryPMap'[b] = ComputedEntry(b)
  BY <1>2 DEF IInv, TypeOK
<1>8. Leq(entryPMap[b], entryPMap'[b])
  BY <1>7, EntryIsKept
<1> DEFINE told == [e \in PromisedEdges |-> EdgePMap(e[1], e[2])]
<1>9. ASSUME NEW e \in PromisedEdges, e[2] = b PROVE Leq(told[e], entryPMap'[b])
  BY <1>7, <1>9, EdgeIsTakenIn DEF PromisedEdges
<1>10. ASSUME NEW e \in PromisedEdges, e[1] # b PROVE told'[e] = told[e]
  <2>1. exitPMap'[e[1]] = exitPMap[e[1]] /\ falseExit'[e[1]] = falseExit[e[1]]
    BY <1>10 DEF Visit, PromisedEdges, IInv, TypeOK
  <2>2. EdgePMap(e[1], e[2])' = EdgePMap(e[1], e[2])
    BY <1>1, <2>1 DEF EdgePMap
  <2> QED
    BY <1>3, <2>2
<1> QED
  BY <1>1, <1>2, <1>3, <1>4, <1>5, <1>6, <1>8, <1>9, <1>10
     DEF Search!Process, Search!IsActive

(* What a step leaves alone when it changes neither tables nor counters. *)
LEMMA SameTables ==
  ASSUME fn' = fn, UNCHANGED <<visited, entryPMap, exitPMap, falseExit, iterationCount>>
  PROVE  UNCHANGED <<F, PromisedEdges, [e \in PromisedEdges |-> EdgePMap(e[1], e[2])],
                     {e \in F.blocks \X F.blocks : e[2] \in ReachableSuccs(F, e[1])}>>
<1>1. F' = F
  BY DEF F
<1>2. PromisedEdges' = PromisedEdges
  BY <1>1 DEF PromisedEdges, Promised, IsSplit
<1> QED
  BY <1>1, <1>2 DEF EdgePMap

(* A block that is not visited again is no step of the search. *)
LEMMA SkippingIsNoStep ==
  ASSUME IInv, NEW b \in F.blocks, SkipUnchanged(b) PROVE UNCHANGED Search!vars
<1>1. /\ fn' = fn /\ F' = F
      /\ UNCHANGED <<visited, entryPMap, iterationCount, done>>
  BY DEF SkipUnchanged, F
<1>2. PromisedEdges' = PromisedEdges
  BY <1>1 DEF PromisedEdges, Promised, IsSplit
<1>3. [e \in PromisedEdges |-> EdgePMap(e[1], e[2])]' = [e \in PromisedEdges |-> EdgePMap(e[1], e[2])]
  BY <1>2, SkippingTellsNothing
<1> QED
  BY <1>1, <1>2, <1>3 DEF Search!vars, WithinLimit

(* The loop ends when everything is known, or after too many visits. *)
LEMMA EndingStops == ASSUME IInv, NEW b, Finish \/ GiveUp(b) PROVE Search!Stop
<1>1. /\ fn' = fn
      /\ UNCHANGED <<visited, entryPMap, exitPMap, falseExit, iterationCount>>
      /\ ~done /\ done'
  BY DEF Finish, GiveUp, Dequeue
<1>2. WithinLimit' <=> iterationCount < IterationLimit
  BY <1>1 DEF WithinLimit
<1>3. iterationCount \in Nat /\ IterationLimit \in Nat
  BY LifetimeAssumption DEF IInv, TypeOK
<1>4. CASE ~WithinLimit
  BY <1>1, <1>2, <1>3, <1>4, SameTables DEF Search!Stop, WithinLimit
<1>5. CASE WithinLimit
  <2>1. worklist = {}
    BY <1>5 DEF Finish, GiveUp
  <2>2. \A e \in PromisedEdges : e[1] \in visited \cup {F.entry} => UpToDate(e[1], e[2])
    BY <1>1, <2>1 DEF IInv, NothingForgotten, Exhausted, PromisedEdges
  <2>3. Search!IsSteady
    BY <2>2 DEF Search!IsSteady, Search!IsActive, Search!IsInformed, UpToDate
  <2> QED
    BY <1>1, <1>2, <1>5, <2>3, SameTables DEF Search!Stop, WithinLimit
<1> QED
  BY <1>4, <1>5

(* Every step of the traversal is a step of the search, or none.           *)
LEMMA StepSearches ==
  ASSUME IInv, ControlArrives, [Next]_vars PROVE [Search!Next]_(Search!vars)
<1>1. CASE UNCHANGED <<fn, visited, entryPMap, exitPMap, falseExit, iterationCount, done>>
  BY <1>1, SameTables DEF Search!vars, WithinLimit, F
<1>2. ASSUME NEW b \in F.blocks, SkipUnchanged(b) PROVE UNCHANGED Search!vars
  BY <1>2, SkippingIsNoStep
<1>3. ASSUME NEW b \in F.blocks, Visit(b) PROVE Search!Next
  BY <1>3, VisitProcesses DEF Search!Next
<1>4. ASSUME NEW b \in F.blocks, GiveUp(b) PROVE Search!Next
  BY <1>4, EndingStops DEF Search!Next
<1>5. CASE Finish
  BY <1>5, EndingStops DEF Search!Next
<1> QED
  BY <1>1, <1>2, <1>3, <1>4, <1>5 DEF Next, vars, SkipExit, Terminated

(* traverseBlocks implements a search for a fixed point (FixedPointSearch) *)
(* on every graph and with every transfer function: its worklist, its      *)
(* order and its false psets never make it stop early, visit a block       *)
(* nothing leads to, or visit one again without news.                      *)
THEOREM ImplementsSearch == Spec => SearchesForFixedPoint
<1>1. Init => Search!Init
  <2> SUFFICES ASSUME Init PROVE Search!Init
    OBVIOUS
  <2>1. F.entry \in F.blocks
    BY EntryIsABlock DEF Init
  <2>2. PromisedEdges \subseteq {e \in F.blocks \X F.blocks : e[2] \in ReachableSuccs(F, e[1])}
    BY DEF PromisedEdges
  <2> QED
    BY <2>1, <2>2 DEF Init, Search!Init
<1>2. IInv /\ ControlArrives /\ [Next]_vars => [Search!Next]_(Search!vars)
  BY StepSearches
<1> QED
  BY <1>1, <1>2, Inductive, ControlAlwaysArrives, PTL
     DEF Spec, SearchesForFixedPoint, Search!Spec
-----------------------------------------------------------------------------
(* The order of visits *)

(* In a function without loops all that waits comes after all that has     *)
(* been visited.                                                           *)
WorkLiesAhead ==
  ~HasLoop => \A b \in visited : \A c \in worklist : F.rank[b] < F.rank[c]

(* A block taken from the worklist is then a new one, before all others.   *)
LEMMA DequeuedIsNext ==
  ASSUME TypeOK, WorkLiesAhead, ~HasLoop, NEW b, Dequeue(b)
  PROVE  /\ b \in F.blocks
         /\ b \notin visited
         /\ \A c \in worklist \ {b} : F.rank[b] < F.rank[c]
         /\ \A c \in ReachableSuccs(F, b) : F.rank[b] < F.rank[c]
<1>1. b \in worklist /\ b \in F.blocks
  BY DEF Dequeue, TypeOK
<1>2. F.rank \in [F.blocks -> Nat] /\ (\A x, y \in F.blocks : F.rank[x] = F.rank[y] => x = y)
  BY LifetimeAssumption DEF TypeOK, IsCFG, F
<1>3. b \notin visited
  <2>1. F.rank[b] \in Nat
    BY <1>1, <1>2
  <2> QED
    BY <1>1, <2>1 DEF WorkLiesAhead
<1>4. ASSUME NEW c \in worklist \ {b} PROVE F.rank[b] < F.rank[c]
  <2>1. c \in F.blocks /\ F.rank[b] <= F.rank[c]
    BY <1>4 DEF Dequeue, TypeOK
  <2> QED
    BY <1>1, <1>2, <1>4, <2>1
<1>5. ASSUME NEW c \in ReachableSuccs(F, b) PROVE F.rank[b] < F.rank[c]
  <2>1. c \in F.blocks
    BY <1>1, <1>5, SuccessorsAreBlocks DEF TypeOK
  <2>2. ~(F.rank[c] <= F.rank[b])
    BY <1>1, <1>5 DEF HasLoop
  <2> QED
    BY <1>1, <1>2, <2>1, <2>2
<1> QED
  BY <1>1, <1>3, <1>4, <1>5

(* Every step keeps the work ahead,                                        *)
LEMMA StepWorkLiesAhead ==
  ASSUME TypeOK, WorkLiesAhead, [Next]_vars PROVE WorkLiesAhead'
<1>1. F' = F /\ HasLoop' = HasLoop
  BY SameGraph DEF HasLoop
<1> SUFFICES ASSUME ~HasLoop, NEW x \in visited', NEW y \in worklist'
             PROVE  F.rank[x] < F.rank[y]
  BY <1>1 DEF WorkLiesAhead
<1>2. CASE UNCHANGED visited /\ worklist' \subseteq worklist
  BY <1>2 DEF WorkLiesAhead
<1>3. ASSUME NEW b \in F.blocks, Visit(b) PROVE F.rank[x] < F.rank[y]
  <2>1. Dequeue(b) /\ x \in visited \cup {b} /\ y \in (worklist \ {b}) \cup ReachableSuccs(F, b)
    BY <1>3 DEF Visit, Enqueued
  <2>2. F.rank[b] < F.rank[y]
    BY <2>1, DequeuedIsNext
  <2>3. x # b => F.rank[x] < F.rank[b]
    BY <2>1 DEF WorkLiesAhead, Dequeue
  <2>4. F.rank[x] \in Nat /\ F.rank[b] \in Nat /\ F.rank[y] \in Nat
    <3>1. F.rank \in [F.blocks -> Nat]
      BY LifetimeAssumption DEF TypeOK, IsCFG, F
    <3>2. x \in F.blocks /\ y \in F.blocks
      BY <2>1, SuccessorsAreBlocks DEF TypeOK
    <3> QED
      BY <3>1, <3>2
  <2> QED
    BY <2>2, <2>3, <2>4
<1> QED
  BY <1>2, <1>3 DEF Next, vars, SkipExit, SkipUnchanged, GiveUp, Finish, Terminated

(* and leaves alone what has been visited.                                 *)
LEMMA StepKeepsFindings ==
  ASSUME TypeOK, WorkLiesAhead, [Next]_vars, ~HasLoop PROVE FindingsStand
<1> SUFFICES ASSUME NEW x \in visited
             PROVE  /\ entryPMap'[x] = entryPMap[x]
                    /\ exitPMap'[x] = exitPMap[x]
                    /\ falseExit'[x] = falseExit[x]
  BY DEF FindingsStand
<1>1. ASSUME NEW b \in F.blocks, Visit(b) PROVE b # x
  BY <1>1, DequeuedIsNext DEF Visit
<1>2. ASSUME NEW b \in F.blocks, SkipUnchanged(b) PROVE FALSE
  BY <1>2, DequeuedIsNext DEF SkipUnchanged, Changed
<1>3. ASSUME NEW b \in F.blocks, Visit(b)
      PROVE  /\ entryPMap'[x] = entryPMap[x]
             /\ exitPMap'[x] = exitPMap[x]
             /\ falseExit'[x] = falseExit[x]
  BY <1>1, <1>3 DEF Visit, TypeOK
<1> QED
  BY <1>2, <1>3 DEF Next, vars, SkipExit, GiveUp, Finish, Terminated

(* A function without loops is gone through once: a block is visited with  *)
(* its final psets, and what the visit has found stands.                   *)
THEOREM LoopsAloneAreRevisited == Spec => OneVisitWithoutLoops
<1>1. Init => WorkLiesAhead
  BY DEF Init, WorkLiesAhead
<1>2. TypeOK /\ WorkLiesAhead /\ [Next]_vars => WorkLiesAhead'
  BY StepWorkLiesAhead
<1>3. TypeOK /\ WorkLiesAhead /\ [Next]_vars => (~HasLoop => FindingsStand)
  BY StepKeepsFindings
<1> QED
  BY <1>1, <1>2, <1>3, Typing, PTL DEF Spec, OneVisitWithoutLoops
-----------------------------------------------------------------------------
(* The number of visits *)

(* The psets of locations in L, with members in M.                         *)
PMaps(L, M) == UNION {[D -> SUBSET M] : D \in SUBSET L}

(* The psets on entry stay within a lattice.                               *)
IsConfined(L, M) == \A b \in F.blocks : entryPMap[b] \in PMaps(L, M)

(* What the entries know: which locations have a pset, and what is in it.  *)
Known(L) == {e \in F.blocks \X L : e[2] \in DOMAIN entryPMap[e[1]]}
Held(L, M) ==
  {e \in Known(L) \X M : LET k == e[1] IN e[2] \in entryPMap[k[1]][k[2]]}

(* Each visit was for a block seen for the first time, or for something    *)
(* that its entry did not know before.                                     *)
VisitsBringNews(L, M) ==
  iterationCount <= Cardinality(visited) + Cardinality(Known(L)) + Cardinality(Held(L, M))

(* There is no more to be known in the graph f.                            *)
MaxVisits(f, L, M) ==
  Cardinality(f.blocks) + Cardinality(f.blocks \X L) + Cardinality((f.blocks \X L) \X M)

(* The lattice is finite.                                                  *)
IsFinite(L, M) ==
  /\ IsFiniteSet(L) /\ IsFiniteSet(M)
  /\ \A d \in FunctionDecls : IsFiniteSet(Body[d].blocks)

(* There are finitely many things to know.                                 *)
LEMMA KnowledgeIsFinite ==
  ASSUME NEW L, NEW M, IsFinite(L, M), TypeOK
  PROVE  /\ IsFiniteSet(F.blocks)
         /\ IsFiniteSet(F.blocks \X L)
         /\ IsFiniteSet((F.blocks \X L) \X M)
<1>1. IsFiniteSet(F.blocks) /\ IsFiniteSet(L) /\ IsFiniteSet(M)
  BY DEF IsFinite, TypeOK, F
<1>2. IsFiniteSet(F.blocks \X L)
  BY <1>1, FS_Product
<1>3. IsFiniteSet((F.blocks \X L) \X M)
  BY <1>1, <1>2, FS_Product
<1> QED
  BY <1>1, <1>2, <1>3

(* A set that grows has more members.                                      *)
LEMMA Growth ==
  ASSUME NEW S, IsFiniteSet(S), NEW T \in SUBSET S, NEW U \in SUBSET T
  PROVE  /\ Cardinality(U) \in Nat /\ Cardinality(T) \in Nat /\ Cardinality(S) \in Nat
         /\ Cardinality(U) <= Cardinality(T)
         /\ Cardinality(T) <= Cardinality(S)
         /\ U # T => Cardinality(U) + 1 <= Cardinality(T)
<1>1. IsFiniteSet(T) /\ IsFiniteSet(U)
  BY FS_Subset
<1>2. Cardinality(U) \in Nat /\ Cardinality(T) \in Nat /\ Cardinality(S) \in Nat
  BY <1>1, FS_CardinalityType
<1>3. Cardinality(U) <= Cardinality(T) /\ Cardinality(T) <= Cardinality(S)
  BY <1>1, FS_Subset
<1>4. Cardinality(T) = Cardinality(U) => T = U
  BY <1>1, FS_Subset
<1> QED
  BY <1>2, <1>3, <1>4

(* Nothing known is ever forgotten.                                        *)
LEMMA KnowledgeStays ==
  ASSUME NEW L, NEW M, F' = F,
         \A b \in F.blocks : Leq(entryPMap[b], entryPMap'[b])
  PROVE  Known(L) \subseteq Known(L)' /\ Held(L, M) \subseteq Held(L, M)'
BY DEF Known, Held, Leq

(* A block visited again has learnt something.                             *)
LEMMA VisitBringsNews ==
  ASSUME NEW L, NEW M, TypeOK, IsConfined(L, M), IsConfined(L, M)', NEW b \in F.blocks, Visit(b),
         \A c \in F.blocks : Leq(entryPMap[c], entryPMap'[c])
  PROVE  visited # visited' \/ Known(L) # Known(L)' \/ Held(L, M) # Held(L, M)'
<1>1. F' = F
  BY SameGraph DEF Next
<1>2. CASE b \notin visited
  BY <1>2 DEF Visit
<1> SUFFICES ASSUME b \in visited, Known(L) = Known(L)', Held(L, M) = Held(L, M)' PROVE FALSE
  BY <1>2
<1>3. entryPMap'[b] = ComputedEntry(b) /\ entryPMap'[b] # entryPMap[b]
  BY DEF Visit, Changed, TypeOK
<1> DEFINE p == entryPMap[b]
           q == entryPMap'[b]
<1>4. PICK D \in SUBSET L : p \in [D -> SUBSET M]
  BY DEF IsConfined, PMaps
<1>5. PICK E \in SUBSET L : q \in [E -> SUBSET M]
  BY <1>1 DEF IsConfined, PMaps
<1>6. ASSUME NEW v \in E PROVE v \in D
  <2>1. <<b, v>> \in Known(L)'
    BY <1>1, <1>5 DEF Known
  <2> QED
    BY <1>4, <2>1 DEF Known
<1>7. D \subseteq E
  BY <1>4, <1>5 DEF Leq
<1>8. ASSUME NEW v \in D PROVE q[v] \subseteq p[v]
  <2> SUFFICES ASSUME NEW m \in q[v] PROVE m \in p[v]
    OBVIOUS
  <2>1. m \in M
    BY <1>5, <1>7
  <2>2. <<b, v>> \in Known(L)'
    BY <1>1, <1>5, <1>7 DEF Known
  <2>3. <<<<b, v>>, m>> \in Held(L, M)'
    BY <2>1, <2>2 DEF Held
  <2> QED
    BY <2>3 DEF Held
<1>9. ASSUME NEW v \in D PROVE p[v] \subseteq q[v]
  BY <1>4 DEF Leq
<1>10. D = E /\ \A v \in D : p[v] = q[v]
  BY <1>6, <1>7, <1>8, <1>9
<1> QED
  BY <1>3, <1>4, <1>5, <1>10

(* So there are no more visits than there are things to learn.             *)
LEMMA StepVisitsBringNews ==
  ASSUME NEW L, NEW M, IsFinite(L, M), TypeOK, TypeOK', IsConfined(L, M), IsConfined(L, M)',
         VisitsBringNews(L, M), [Next]_vars
  PROVE  VisitsBringNews(L, M)'
<1>1. F' = F
  BY SameGraph
<1>2. \A b \in F.blocks : Leq(entryPMap[b], entryPMap'[b])
  BY StepEntriesGrow
<1>3. /\ IsFiniteSet(F.blocks) /\ IsFiniteSet(F.blocks \X L) /\ IsFiniteSet((F.blocks \X L) \X M)
  BY KnowledgeIsFinite
<1>4. visited \subseteq visited' /\ visited' \subseteq F.blocks
  BY <1>1 DEF TypeOK, Next, vars, SkipExit, SkipUnchanged, Visit, GiveUp, Finish, Terminated
<1>5. Known(L) \subseteq Known(L)' /\ Held(L, M) \subseteq Held(L, M)'
  BY <1>1, <1>2, KnowledgeStays
<1>6. Known(L)' \subseteq F.blocks \X L /\ Held(L, M)' \subseteq (F.blocks \X L) \X M
  BY <1>1 DEF Known, Held
<1> DEFINE v == Cardinality(visited)
           k == Cardinality(Known(L))
           h == Cardinality(Held(L, M))
           news == visited # visited' \/ Known(L) # Known(L)' \/ Held(L, M) # Held(L, M)'
<1>7. v \in Nat /\ v' \in Nat /\ v <= v' /\ (visited # visited' => v + 1 <= v')
  BY <1>3, <1>4, Growth
<1>8. k \in Nat /\ k' \in Nat /\ k <= k' /\ (Known(L) # Known(L)' => k + 1 <= k')
  BY <1>3, <1>5, <1>6, Growth
<1>9. h \in Nat /\ h' \in Nat /\ h <= h' /\ (Held(L, M) # Held(L, M)' => h + 1 <= h')
  BY <1>3, <1>5, <1>6, Growth
<1>10. iterationCount \in Nat /\ iterationCount <= v + k + h
  BY LifetimeAssumption DEF TypeOK, VisitsBringNews
<1>11. CASE iterationCount' = iterationCount
  BY <1>7, <1>8, <1>9, <1>10, <1>11 DEF VisitsBringNews
<1>12. ASSUME NEW b \in F.blocks, Visit(b) PROVE VisitsBringNews(L, M)'
  <2>1. news
    BY <1>2, <1>12, VisitBringsNews
  <2>2. iterationCount' = iterationCount + 1
    BY <1>12 DEF Visit
  <2>3. v + k + h + 1 <= v' + k' + h'
    BY <1>7, <1>8, <1>9, <2>1
  <2> QED
    BY <1>7, <1>8, <1>9, <1>10, <2>2, <2>3 DEF VisitsBringNews
<1> QED
  BY <1>11, <1>12 DEF Next, vars, SkipExit, SkipUnchanged, GiveUp, Finish, Terminated

(* As long as the psets stay within a finite lattice, the analysis of a    *)
(* function never runs into the bound on visits (Lifetime.cpp:416), if     *)
(* that is higher than the number of things to be known in its graph; so   *)
(* it stops in a steady state.                                             *)
THEOREM FewVisitsSuffice ==
  ASSUME NEW L, NEW M, IsFinite(L, M), \A d \in FunctionDecls : MaxVisits(Body[d], L, M) < IterationLimit
  PROVE  Spec /\ []IsConfined(L, M) => []NeverGivesUp
<1>1. Init => VisitsBringNews(L, M)
  <2> SUFFICES ASSUME Init PROVE VisitsBringNews(L, M)
    OBVIOUS
  <2>1. TypeOK
    BY InitTypeOK
  <2>2. Known(L) = {} /\ Held(L, M) = {} /\ visited = {}
    BY DEF Init, Known, Held, EmptyPMap
  <2> QED
    BY <2>2, FS_EmptySet DEF Init, VisitsBringNews
<1>2. TypeOK /\ TypeOK' /\ IsConfined(L, M) /\ IsConfined(L, M)' /\ VisitsBringNews(L, M) /\ [Next]_vars
        => VisitsBringNews(L, M)'
  BY StepVisitsBringNews
<1>3. TypeOK /\ VisitsBringNews(L, M) => NeverGivesUp
  <2> SUFFICES ASSUME TypeOK, VisitsBringNews(L, M) PROVE NeverGivesUp
    OBVIOUS
  <2>1. /\ IsFiniteSet(F.blocks) /\ IsFiniteSet(F.blocks \X L) /\ IsFiniteSet((F.blocks \X L) \X M)
    BY KnowledgeIsFinite
  <2>2. /\ visited \subseteq F.blocks
        /\ Known(L) \subseteq F.blocks \X L
        /\ Held(L, M) \subseteq (F.blocks \X L) \X M
    BY DEF TypeOK, Known, Held
  <2>3. Cardinality(visited) \in Nat /\ Cardinality(F.blocks) \in Nat /\ Cardinality(visited) <= Cardinality(F.blocks)
    BY <2>1, <2>2, Growth
  <2>4. /\ Cardinality(Known(L)) \in Nat /\ Cardinality(F.blocks \X L) \in Nat
        /\ Cardinality(Known(L)) <= Cardinality(F.blocks \X L)
    BY <2>1, <2>2, Growth
  <2>5. /\ Cardinality(Held(L, M)) \in Nat /\ Cardinality((F.blocks \X L) \X M) \in Nat
        /\ Cardinality(Held(L, M)) <= Cardinality((F.blocks \X L) \X M)
    BY <2>1, <2>2, Growth
  <2>6. MaxVisits(F, L, M) < IterationLimit
    BY DEF TypeOK, F
  <2> QED
    BY <2>3, <2>4, <2>5, <2>6, LifetimeAssumption DEF MaxVisits, VisitsBringNews, NeverGivesUp, TypeOK
<1> QED
  BY <1>1, <1>2, <1>3, Typing, PTL DEF Spec
=============================================================================
