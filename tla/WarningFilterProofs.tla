------------------------- MODULE WarningFilterProofs -------------------------
(***************************************************************************)
(* Theorems about the warning filter, for every control flow graph.        *)
(***************************************************************************)
EXTENDS WarningFilter, SequenceTheorems, TLAPS

-----------------------------------------------------------------------------
(* Paths *)

(* A path can be made longer at its end, *)
LEMMA LeadsOn ==
  ASSUME NEW S, NEW a, NEW b, NEW c,
         LeadsOutside(S, a, b), <<b, c>> \in Edges(q), c \notin S
  PROVE  LeadsOutside(S, a, c)
BY DEF LeadsOutside

(* and at its beginning. *)
LEMMA LeadsFrom ==
  ASSUME NEW S, NEW a, NEW b, NEW c,
         LeadsOutside(S, b, c), <<a, b>> \in Edges(q), b \notin S
  PROVE  LeadsOutside(S, a, c)
BY DEF LeadsOutside

(* Every block leads to itself. *)
LEMMA LeadsToItself == ASSUME NEW S, NEW a PROVE LeadsOutside(S, a, a)
BY DEF LeadsOutside

-----------------------------------------------------------------------------
(* The search *)

(* The tables hold blocks of the graph, and what is left to look at are    *)
(* successors of the current block.                                        *)
TypeOK ==
  /\ q \in Queries
  /\ worklist \in Seq(visited)
  /\ visited \subseteq q.blocks
  /\ canReachDest \subseteq q.blocks
  /\ DOMAIN parent \subseteq q.blocks
  /\ \A s \in DOMAIN parent : parent[s] \in visited /\ <<parent[s], s>> \in Edges(q)
  /\ current \in visited \cup {None}
  /\ rest \in Seq(q.blocks \cup {None})
  /\ current # None => Range(rest) \subseteq Range(q.succs[current])
  /\ current = None => rest = <<>>
  /\ from \in visited \cup {None}

(* The cause leads to what has been visited, and what has been marked      *)
(* leads to the fault.                                                     *)
Marks ==
  /\ \A b \in visited : Leads(q.source, b)
  /\ \A b \in canReachDest : Leads(b, q.dest)
  /\ from # None => Leads(from, q.dest)

IInv == TypeOK /\ Marks /\ FiltersForAReason

(* The first of the successors left is a block with an edge from current.  *)
LEMMA HeadIsSuccessor ==
  ASSUME TypeOK, rest # <<>>, Head(rest) # None
  PROVE  /\ current \in visited
         /\ Head(rest) \in q.blocks
         /\ <<current, Head(rest)>> \in Edges(q)
<1>1. current \in visited /\ current \in q.blocks
  BY DEF TypeOK
<1>2. 1 \in DOMAIN rest /\ Head(rest) = rest[1] /\ rest[1] \in q.blocks \cup {None}
  BY DEF TypeOK
<1>3. Head(rest) \in Range(q.succs[current])
  BY <1>1, <1>2, QueriesAssumption DEF TypeOK, Range
<1> QED
  BY <1>1, <1>2, <1>3 DEF Edges

(* Looking at one of them leaves the others. *)
LEMMA TailIsLeft ==
  ASSUME TypeOK, rest # <<>>
  PROVE  /\ Tail(rest) \in Seq(q.blocks \cup {None})
         /\ Range(Tail(rest)) \subseteq Range(rest)
<1>1. rest \in Seq(q.blocks \cup {None})
  BY DEF TypeOK
<1>2. /\ Tail(rest) \in Seq(q.blocks \cup {None})
      /\ Len(Tail(rest)) = Len(rest) - 1
      /\ \A i \in 1..Len(Tail(rest)) : Tail(rest)[i] = rest[i + 1]
  BY <1>1, HeadTailProperties
<1>3. \A i \in DOMAIN Tail(rest) : i + 1 \in DOMAIN rest
  BY <1>1, <1>2
<1> QED
  BY <1>1, <1>2, <1>3 DEF Range

LEMMA InitIInv == ASSUME Init PROVE IInv
<1>1. {q.source, q.dest} \subseteq q.blocks
  BY QueriesAssumption DEF Init
<1>2. TypeOK
  BY <1>1 DEF Init, TypeOK
<1>3. Marks
  BY LeadsToItself DEF Init, Marks, Leads
<1>4. FiltersForAReason
  BY DEF Init, FiltersForAReason, WasSearched
<1> QED
  BY <1>2, <1>3, <1>4 DEF IInv

LEMMA StepTypeOK == ASSUME TypeOK, [Next]_vars PROVE TypeOK'
<1>1. CASE UNCHANGED vars
  BY <1>1 DEF TypeOK, vars
<1>2. CASE PopBlock
  <2>1. /\ worklist \in Seq(visited) /\ worklist # <<>>
        /\ Last(worklist) \in visited /\ Front(worklist) \in Seq(visited)
    BY <1>2 DEF PopBlock, TypeOK, Last, Front
  <2>2. Last(worklist) # None /\ q.succs[Last(worklist)] \in Seq(q.blocks \cup {None})
    BY <2>1, QueriesAssumption DEF TypeOK
  <2> QED
    BY <1>2, <2>1, <2>2 DEF PopBlock, TypeOK
<1>3. CASE NextBlock
  BY <1>3 DEF NextBlock, TypeOK
<1>4. CASE SkipSuccessor
  BY <1>4, TailIsLeft DEF SkipSuccessor, TypeOK
<1>5. CASE LookAtVisited
  <2>1. Head(rest) # None
    BY <1>5 DEF LookAtVisited, IsIgnored
  <2>2. \A s \in DOMAIN parent' : parent'[s] \in visited /\ <<parent'[s], s>> \in Edges(q)
    BY <1>5, <2>1, HeadIsSuccessor DEF LookAtVisited, WithParent, TypeOK
  <2>3. DOMAIN parent' \subseteq q.blocks
    BY <1>5, <2>1, HeadIsSuccessor DEF LookAtVisited, WithParent, TypeOK
  <2>4. from' \in visited \cup {None}
    BY <1>5 DEF LookAtVisited, TypeOK
  <2> QED
    BY <1>5, <2>2, <2>3, <2>4, TailIsLeft DEF LookAtVisited, TypeOK
<1>6. CASE Discover
  <2>1. Head(rest) # None
    BY <1>6 DEF Discover, IsIgnored
  <2>2. \A s \in DOMAIN parent' : parent'[s] \in visited' /\ <<parent'[s], s>> \in Edges(q)
    BY <1>6, <2>1, HeadIsSuccessor DEF Discover, WithParent, TypeOK
  <2>3. DOMAIN parent' \subseteq q.blocks /\ visited' \subseteq q.blocks
    BY <1>6, <2>1, HeadIsSuccessor DEF Discover, WithParent, TypeOK
  <2>4. worklist' \in Seq(visited')
    <3>1. worklist \in Seq(visited') /\ Head(rest) \in visited'
      BY <1>6 DEF Discover, TypeOK
    <3> QED
      BY <1>6, <3>1, AppendProperties DEF Discover
  <2> QED
    BY <1>6, <2>2, <2>3, <2>4, TailIsLeft DEF Discover, TypeOK
<1>7. CASE MarkPathReachable
  BY <1>7 DEF MarkPathReachable, ParentOf, TypeOK
<1>8. CASE GiveUp
  BY <1>8 DEF GiveUp, TypeOK
<1> QED
  BY <1>1, <1>2, <1>3, <1>4, <1>5, <1>6, <1>7, <1>8 DEF Next

LEMMA StepMarks == ASSUME TypeOK, Marks, [Next]_vars PROVE Marks'
<1>1. q' = q
  BY DEF Next, vars, PopBlock, NextBlock, SkipSuccessor, LookAtVisited, Discover, MarkPathReachable, GiveUp
<1>2. \A a, b : Leads(a, b)' <=> Leads(a, b)
  BY <1>1 DEF Leads, LeadsOutside, Edges
<1>3. CASE UNCHANGED <<visited, canReachDest, from>>
  BY <1>1, <1>2, <1>3 DEF Marks
<1>4. CASE LookAtVisited
  <2>1. Head(rest) # None
    BY <1>4 DEF LookAtVisited, IsIgnored
  <2>2. from' # None => from' = current /\ Leads(Head(rest), q.dest)
    BY <1>4 DEF LookAtVisited, IsKnownToLead, Marks
  <2>3. from' # None => Leads(from', q.dest)
    BY <1>4, <2>1, <2>2, HeadIsSuccessor, LeadsFrom DEF LookAtVisited, Leads
  <2> QED
    BY <1>1, <1>2, <1>4, <2>3 DEF LookAtVisited, Marks
<1>5. CASE Discover
  <2>1. Head(rest) # None
    BY <1>5 DEF Discover, IsIgnored
  <2>2. Leads(q.source, Head(rest))
    BY <1>5, <2>1, HeadIsSuccessor, LeadsOn DEF Discover, Leads, Marks
  <2> QED
    BY <1>1, <1>2, <1>5, <2>2 DEF Discover, Marks
<1>6. CASE MarkPathReachable
  <2>1. from' # None => <<from', from>> \in Edges(q)
    BY <1>6 DEF MarkPathReachable, ParentOf, TypeOK
  <2>2. Leads(from, q.dest)
    BY <1>6 DEF MarkPathReachable, Marks
  <2>3. from' # None => Leads(from', q.dest)
    BY <2>1, <2>2, LeadsFrom DEF Leads
  <2> QED
    BY <1>1, <1>2, <1>6, <2>2, <2>3 DEF MarkPathReachable, Marks
<1> QED
  BY <1>3, <1>4, <1>5, <1>6 DEF Next, vars, PopBlock, NextBlock, SkipSuccessor, GiveUp

LEMMA StepReason == ASSUME IInv, [Next]_vars PROVE FiltersForAReason'
<1>1. q' = q
  BY DEF Next, vars, PopBlock, NextBlock, SkipSuccessor, LookAtVisited, Discover, MarkPathReachable, GiveUp
<1>2. (\A a, b : Leads(a, b)' <=> Leads(a, b)) /\ Cleaners' = Cleaners
  BY <1>1 DEF Leads, LeadsOutside, Edges, Cleaners, IsCleaningBlock
<1>3. CASE UNCHANGED vars
  BY <1>1, <1>2, <1>3 DEF IInv, FiltersForAReason, WasSearched, vars
<1>4. CASE MarkPathReachable
  <2> SUFFICES ASSUME answer' = "filtered"
               PROVE  from \in Cleaners /\ Leads(q.source, from) /\ Leads(from, q.dest)
    BY <1>1, <1>2 DEF FiltersForAReason
  <2> QED
    BY <1>4 DEF MarkPathReachable, IInv, TypeOK, Marks, Cleaners
<1>5. CASE answer' # "filtered"
  BY <1>5 DEF FiltersForAReason
<1> QED
  BY <1>3, <1>4, <1>5
     DEF Next, IsSearching, PopBlock, NextBlock, SkipSuccessor, LookAtVisited, Discover, GiveUp

(* A warning is filtered after a search only if control can pass from its  *)
(* cause through a cleaning block to the fault (Lifetime.cpp:140-143).     *)
THEOREM FilteredForAReason == Spec => []FiltersForAReason
<1>1. Init => IInv
  BY InitIInv
<1>2. IInv /\ [Next]_vars => IInv'
  BY StepTypeOK, StepMarks, StepReason DEF IInv
<1>3. IInv => FiltersForAReason
  BY DEF IInv
<1> QED
  BY <1>1, <1>2, <1>3, PTL DEF Spec

-----------------------------------------------------------------------------
(* No false alarm *)

Avoiding(b) == LeadsOutside(Cleaners \ {q.dest}, b, q.dest)

(* The parents of the blocks visited make up a tree with the cause at its  *)
(* root: a set of blocks without the root has one whose parent is outside. *)
IsTree ==
  /\ q.source \in visited
  /\ q.source \notin DOMAIN parent
  /\ q.dest \in visited => q.dest = q.source
  /\ visited \subseteq DOMAIN parent \cup {q.source}
  /\ DOMAIN parent \subseteq visited \cup {q.dest}
  /\ \A U \in SUBSET q.blocks :
       q.source \notin U /\ U \cap visited # {} =>
         \E b \in U \cap visited : parent[b] \notin U

(* What is visited has been looked at, but for what is left to do.         *)
IsExplored ==
  \A e \in Edges(q) : e[1] \in visited =>
    \/ e[1] \in Range(worklist)
    \/ e[1] = current /\ e[2] \in Range(rest)
    \/ e[2] \in visited
    \/ e[2] = q.dest /\ q.dest \in DOMAIN parent

(* Nothing on the paths marked is cleaned, they are marked up to the block *)
(* the marking has come to, and it has begun if the fault was found.       *)
IsMarkedThrough ==
  /\ q.dest \in canReachDest
  /\ \A b \in canReachDest \ {q.dest} : b \notin Cleaners /\ Avoiding(b)
  /\ from # None => Avoiding(from)
  /\ \A b \in canReachDest \ {q.source, q.dest} : parent[b] \in canReachDest \cup {from}
  /\ canReachDest \subseteq visited \cup {q.dest}
  /\ q.dest \in DOMAIN parent => from # None \/ canReachDest \cap visited # {}

KInv ==
  /\ TypeOK
  /\ IsTree
  /\ answer = "pending" => IsExplored /\ IsMarkedThrough
  /\ FalseAlarmsAreFiltered

(* The question stays the same. *)
LEMMA SameQuestion ==
  ASSUME [Next]_vars
  PROVE  /\ q' = q /\ Cleaners' = Cleaners
         /\ \A b : Avoiding(b)' <=> Avoiding(b)
<1>1. q' = q
  BY DEF Next, vars, PopBlock, NextBlock, SkipSuccessor, LookAtVisited, Discover, MarkPathReachable, GiveUp
<1> QED
  BY <1>1 DEF Avoiding, LeadsOutside, Edges, Cleaners, IsCleaningBlock

LEMMA InitKInv == ASSUME Init PROVE KInv
<1>1. TypeOK /\ q.source \in q.blocks
  BY InitIInv, QueriesAssumption DEF IInv, Init
<1>2. IsTree
  BY <1>1 DEF Init, IsTree
<1>3. IsExplored
  <2>1. Range(worklist) = {q.source}
    BY DEF Init, Range
  <2> QED
    BY <2>1 DEF Init, IsExplored
<1>4. IsMarkedThrough
  BY DEF Init, IsMarkedThrough
<1>5. FalseAlarmsAreFiltered
  BY DEF Init, FalseAlarmsAreFiltered
<1> QED
  BY <1>1, <1>2, <1>3, <1>4, <1>5 DEF KInv

(* A block is given a parent before it is visited, and only one. *)
LEMMA StepIsTree == ASSUME TypeOK, IsTree, [Next]_vars PROVE IsTree'
<1>1. q' = q
  BY SameQuestion
<1>2. CASE UNCHANGED <<visited, parent>>
  BY <1>1, <1>2 DEF IsTree
<1>3. CASE LookAtVisited
  <2> DEFINE s == Head(rest)
  <2>1. /\ s # q.source /\ s \in visited \cup {q.dest}
        /\ parent' = WithParent(s) /\ visited' = visited
    BY <1>3 DEF LookAtVisited, IsIgnored
  <2>2. \A b \in DOMAIN parent : parent'[b] = parent[b]
    BY <2>1 DEF WithParent
  <2>3. DOMAIN parent' = DOMAIN parent \cup {s}
    BY <2>1 DEF WithParent
  <2> QED
    BY <1>1, <2>1, <2>2, <2>3 DEF IsTree
<1>4. CASE Discover
  <2> DEFINE s == Head(rest)
  <2>1. /\ s # q.source /\ s # q.dest /\ s \notin visited /\ s # None
        /\ parent' = WithParent(s) /\ visited' = visited \cup {s}
    BY <1>4 DEF Discover, IsIgnored
  <2>2. s \notin DOMAIN parent
    BY <2>1 DEF IsTree
  <2>3. /\ \A b \in DOMAIN parent : parent'[b] = parent[b]
        /\ parent'[s] = current
        /\ DOMAIN parent' = DOMAIN parent \cup {s}
    BY <2>1, <2>2 DEF WithParent
  <2>4. current \in visited
    BY <1>4, <2>1, HeadIsSuccessor DEF Discover
  <2>5. ASSUME NEW U \in SUBSET q.blocks, q.source \notin U, U \cap visited' # {}
        PROVE  \E b \in U \cap visited' : parent'[b] \notin U
    <3>1. CASE U \cap visited # {}
      BY <2>1, <2>3, <2>5, <3>1 DEF IsTree
    <3>2. CASE U \cap visited = {}
      BY <2>1, <2>3, <2>4, <2>5, <3>2
    <3> QED
      BY <3>1, <3>2
  <2> QED
    BY <1>1, <2>1, <2>3, <2>5 DEF IsTree
<1> QED
  BY <1>2, <1>3, <1>4 DEF Next, vars, PopBlock, NextBlock, SkipSuccessor, MarkPathReachable, GiveUp

(* Each turn takes one edge off the list of what is left to look at. *)
LEMMA StepIsExplored ==
  ASSUME TypeOK, IsTree, IsExplored, [Next]_vars PROVE IsExplored'
<1>1. q' = q /\ Edges(q)' = Edges(q)
  BY SameQuestion DEF Edges
<1>2. CASE UNCHANGED <<visited, parent, worklist, current, rest>>
  BY <1>1, <1>2 DEF IsExplored
<1>3. CASE PopBlock
  <2>1. /\ worklist \in Seq(visited) /\ worklist # <<>>
        /\ current = None /\ current' = Last(worklist)
        /\ rest' = q.succs[current'] /\ worklist' = Front(worklist)
        /\ UNCHANGED <<visited, parent>>
    BY <1>3 DEF PopBlock, TypeOK
  <2>2. Range(worklist) \subseteq Range(worklist') \cup {current'}
    <3>1. Len(worklist) \in Nat \ {0}
      BY <2>1
    <3>2. \A i \in 1..Len(worklist) :
            i = Len(worklist) \/ (i \in DOMAIN worklist' /\ worklist'[i] = worklist[i])
      BY <2>1, <3>1 DEF Front
    <3> QED
      BY <2>1, <3>1, <3>2 DEF Range, Last
  <2>3. \A e \in Edges(q) : e[1] = current' => e[2] \in Range(rest')
    BY <2>1 DEF Edges
  <2>4. \A e \in Edges(q) : e[1] \in visited => e[1] # current
    BY <2>1, QueriesAssumption DEF TypeOK
  <2> QED
    BY <1>1, <2>1, <2>2, <2>3, <2>4 DEF IsExplored
<1>4. CASE NextBlock
  BY <1>1, <1>4 DEF NextBlock, IsExplored, Range
<1>5. ASSUME rest # <<>>, rest' = Tail(rest)
      PROVE  Range(rest) \subseteq Range(rest') \cup {Head(rest)}
  <2>1. rest \in Seq(q.blocks \cup {None})
    BY DEF TypeOK
  <2>2. /\ Len(Tail(rest)) = Len(rest) - 1
        /\ \A i \in 1..Len(Tail(rest)) : Tail(rest)[i] = rest[i + 1]
        /\ DOMAIN Tail(rest) = 1..Len(Tail(rest)) /\ DOMAIN rest = 1..Len(rest)
    BY <1>5, <2>1, HeadTailProperties
  <2>3. \A i \in DOMAIN rest : i = 1 \/ (i - 1 \in DOMAIN rest' /\ rest[i] = rest'[i - 1])
    BY <1>5, <2>1, <2>2
  <2>4. Head(rest) = rest[1]
    BY <2>1
  <2> QED
    BY <2>3, <2>4 DEF Range
<1>6. CASE SkipSuccessor
  <2>1. Head(rest) = None \/ Head(rest) \in visited
    BY <1>6 DEF SkipSuccessor, IsIgnored, IsTree
  <2>2. \A e \in Edges(q) : e[2] # None
    BY QueriesAssumption DEF Edges, TypeOK
  <2>3. /\ rest # <<>> /\ rest' = Tail(rest)
        /\ UNCHANGED <<visited, parent, worklist, current>>
    BY <1>6 DEF SkipSuccessor
  <2> QED
    BY <1>1, <1>5, <2>1, <2>2, <2>3 DEF IsExplored
<1>7. CASE LookAtVisited
  <2>1. /\ rest # <<>> /\ rest' = Tail(rest)
        /\ UNCHANGED <<visited, worklist, current>>
        /\ Head(rest) \in visited \cup {q.dest}
        /\ DOMAIN parent' = DOMAIN parent \cup {Head(rest)}
    BY <1>7 DEF LookAtVisited, WithParent
  <2> QED
    BY <1>1, <1>5, <2>1 DEF IsExplored
<1>8. CASE Discover
  <2>1. /\ rest # <<>> /\ rest' = Tail(rest)
        /\ UNCHANGED current
        /\ visited' = visited \cup {Head(rest)}
        /\ worklist' = Append(worklist, Head(rest))
        /\ DOMAIN parent' = DOMAIN parent \cup {Head(rest)}
    BY <1>8 DEF Discover, WithParent
  <2>2. Range(worklist') = Range(worklist) \cup {Head(rest)}
    <3>1. worklist \in Seq(visited)
      BY DEF TypeOK
    <3>2. /\ DOMAIN worklist' = 1..(Len(worklist) + 1) /\ DOMAIN worklist = 1..Len(worklist)
          /\ Len(worklist) \in Nat
          /\ \A i \in 1..Len(worklist) : worklist'[i] = worklist[i]
          /\ worklist'[Len(worklist) + 1] = Head(rest)
      BY <2>1, <3>1
    <3> QED
      BY <3>2 DEF Range
  <2> QED
    BY <1>1, <1>5, <2>1, <2>2 DEF IsExplored
<1> QED
  BY <1>2, <1>3, <1>4, <1>6, <1>7, <1>8 DEF Next, vars, MarkPathReachable, GiveUp

(* A block that is marked is one from which the fault is reached uncleaned. *)
LEMMA StepIsMarkedThrough ==
  ASSUME TypeOK, IsTree, IsMarkedThrough, [Next]_vars, answer = "pending", answer' = "pending"
  PROVE  IsMarkedThrough'
<1> DEFINE S == Cleaners \ {q.dest}
<1>1. /\ q' = q /\ Cleaners' = Cleaners
      /\ \A b : Avoiding(b)' <=> Avoiding(b)
  BY SameQuestion
<1>2. \A b \in canReachDest \ {q.source, q.dest} :
        b \in DOMAIN parent /\ parent[b] \in canReachDest \cup {from} /\ parent[b] # None
  <2>1. ASSUME NEW b \in canReachDest, b # q.source, b # q.dest
        PROVE  b \in DOMAIN parent
    BY <2>1 DEF IsMarkedThrough, IsTree
  <2>2. \A b \in DOMAIN parent : parent[b] # None
    BY QueriesAssumption DEF TypeOK
  <2> QED
    BY <2>1, <2>2 DEF IsMarkedThrough
<1>3. CASE UNCHANGED <<visited, canReachDest, parent, from>>
  BY <1>1, <1>3 DEF IsMarkedThrough
<1>4. CASE LookAtVisited
  <2> DEFINE s == Head(rest)
  <2>1. /\ s # None /\ from = None
        /\ parent' = WithParent(s) /\ UNCHANGED <<visited, canReachDest>>
        /\ from' # None => from' = current /\ s \in canReachDest
        /\ s \in visited \cup {q.dest}
        /\ s \in canReachDest => from' = current
    BY <1>4 DEF LookAtVisited, IsIgnored, IsSearching, IsKnownToLead, AnyVisited
  <2>2. current \in visited /\ current # None /\ <<current, s>> \in Edges(q)
    BY <1>4, <2>1, HeadIsSuccessor, QueriesAssumption DEF LookAtVisited, TypeOK
  <2>3. /\ \A b \in DOMAIN parent : parent'[b] = parent[b]
        /\ DOMAIN parent' = DOMAIN parent \cup {s}
    BY <2>1 DEF WithParent
  <2>4. ASSUME from' # None PROVE Avoiding(from')
    <3>1. s \notin S /\ LeadsOutside(S, s, q.dest)
      BY <2>1, <2>4, LeadsToItself DEF IsMarkedThrough, Avoiding
    <3> QED
      BY <2>1, <2>2, <2>4, <3>1, LeadsFrom DEF Avoiding
  <2>5. q.dest \in DOMAIN parent' => from' # None \/ canReachDest \cap visited # {}
    BY <2>1, <2>2, <2>3 DEF IsMarkedThrough
  <2>6. \A b \in canReachDest \ {q.source, q.dest} : parent'[b] \in canReachDest
    BY <1>2, <2>1, <2>3
  <2> QED
    BY <1>1, <2>1, <2>4, <2>5, <2>6 DEF IsMarkedThrough
<1>5. CASE Discover
  <2> DEFINE s == Head(rest)
  <2>1. /\ s # q.dest /\ from = None
        /\ parent' = WithParent(s) /\ visited' = visited \cup {s}
        /\ UNCHANGED <<canReachDest, from>>
    BY <1>5 DEF Discover, IsSearching
  <2>2. /\ \A b \in DOMAIN parent : parent'[b] = parent[b]
        /\ DOMAIN parent' = DOMAIN parent \cup {s}
    BY <2>1 DEF WithParent
  <2>3. \A b \in canReachDest \ {q.source, q.dest} : parent'[b] \in canReachDest \cup {from}
    BY <1>2, <2>2
  <2> QED
    BY <1>1, <2>1, <2>2, <2>3 DEF IsMarkedThrough
<1>6. CASE MarkPathReachable
  <2>1. /\ from # None /\ from \in visited /\ from \in q.blocks
        /\ canReachDest' = canReachDest \cup {from} /\ UNCHANGED <<visited, parent>>
    BY <1>6 DEF MarkPathReachable, TypeOK
  <2>2. CASE from \in canReachDest
    <3>1. from' = None
      BY <1>6, <2>2 DEF MarkPathReachable
    <3> QED
      BY <1>1, <2>1, <2>2, <3>1 DEF IsMarkedThrough
  <2>3. CASE from \notin canReachDest
    <3>1. from \notin Cleaners /\ from' = ParentOf(from)
      BY <1>6, <2>3 DEF MarkPathReachable, Cleaners
    <3>2. Avoiding(from)
      BY <2>1 DEF IsMarkedThrough
    <3>3. from' # None => Avoiding(from')
      <4>1. from' # None => <<from', from>> \in Edges(q)
        BY <3>1 DEF ParentOf, TypeOK
      <4> QED
        BY <3>1, <3>2, <4>1, LeadsFrom DEF Avoiding
    <3>4. from # q.source => parent[from] = from'
      BY <2>1, <3>1 DEF ParentOf, IsTree
    <3> QED
      BY <1>1, <1>2, <2>1, <3>1, <3>2, <3>3, <3>4 DEF IsMarkedThrough
  <2> QED
    BY <2>2, <2>3
<1>7. CASE GiveUp
  BY <1>7 DEF GiveUp
<1> QED
  BY <1>3, <1>4, <1>5, <1>6, <1>7 DEF Next, vars, PopBlock, NextBlock, SkipSuccessor

(* When nothing is left to look at, and the cause leads to the fault, the  *)
(* marking has come to the cause.                                          *)
LEMMA CauseIsMarked ==
  ASSUME TypeOK, IsTree, IsExplored, IsMarkedThrough,
         worklist = <<>>, current = None, from = None, Leads(q.source, q.dest)
  PROVE  q.source = q.dest \/ q.source \in canReachDest
<1> SUFFICES ASSUME q.source # q.dest PROVE q.source \in canReachDest
  OBVIOUS
<1>1. q \in Queries /\ visited \subseteq q.blocks /\ None \notin visited
  BY QueriesAssumption DEF TypeOK
<1>2. Range(worklist) = {}
  BY DEF Range
<1>3. \A e \in Edges(q) : e[1] \in visited =>
        e[2] \in visited \/ (e[2] = q.dest /\ q.dest \in DOMAIN parent)
  BY <1>1, <1>2 DEF IsExplored
<1>4. q.dest \in DOMAIN parent
  <2>1. q.source \in visited /\ q.dest \notin visited
    BY DEF IsTree
  <2>2. visited \in SUBSET q.blocks
    BY <1>1
  <2> QED
    BY <1>3, <2>1, <2>2 DEF Leads, LeadsOutside
<1> DEFINE U == canReachDest \cap visited
<1>5. U # {} /\ U \in SUBSET q.blocks /\ U \cap visited = U
  BY <1>1, <1>4 DEF IsMarkedThrough
<1>6. ASSUME NEW b \in U, b # q.source PROVE parent[b] \in U
  <2>1. b # q.dest /\ b \in DOMAIN parent
    BY <1>6 DEF IsTree
  <2>2. parent[b] \in visited
    BY <2>1 DEF TypeOK
  <2> QED
    BY <1>1, <1>6, <2>1, <2>2 DEF IsMarkedThrough
<1> HIDE DEF U
<1>7. q.source \in U
  BY <1>5, <1>6 DEF IsTree
<1> QED
  BY <1>7 DEF U

LEMMA StepNoFalseAlarm == ASSUME KInv, [Next]_vars PROVE FalseAlarmsAreFiltered'
<1>1. /\ q' = q /\ Cleaners' = Cleaners
      /\ \A b : Avoiding(b)' <=> Avoiding(b)
  BY SameQuestion
<1>2. /\ Leads(q.source, q.dest)' <=> Leads(q.source, q.dest)
      /\ IsAlwaysCleaned' <=> IsAlwaysCleaned
  BY <1>1 DEF Leads, LeadsOutside, Edges, IsAlwaysCleaned
<1>3. CASE UNCHANGED answer
  BY <1>1, <1>2, <1>3 DEF KInv, FalseAlarmsAreFiltered
<1>4. CASE MarkPathReachable
  BY <1>4 DEF MarkPathReachable, FalseAlarmsAreFiltered
<1>5. CASE GiveUp
  <2> SUFFICES ASSUME Leads(q.source, q.dest), q.source # q.dest
               PROVE  q.source \notin Cleaners /\ Avoiding(q.source)
    BY <1>1, <1>2 DEF FalseAlarmsAreFiltered, IsAlwaysCleaned, Avoiding
  <2>1. /\ worklist = <<>> /\ current = None /\ from = None
        /\ IsExplored /\ IsMarkedThrough /\ TypeOK /\ IsTree
    BY <1>5 DEF GiveUp, IsSearching, KInv
  <2>2. q.source \in canReachDest
    BY <2>1, CauseIsMarked
  <2> QED
    BY <2>1, <2>2 DEF IsMarkedThrough
<1> QED
  BY <1>3, <1>4, <1>5
     DEF Next, vars, PopBlock, NextBlock, SkipSuccessor, LookAtVisited, Discover

(* A warning is not shown if on every path from its cause to the fault     *)
(* something sets things right (Lifetime.cpp:138-143).                     *)
THEOREM NoFalseAlarms == Spec => []FalseAlarmsAreFiltered
<1>1. Init => KInv
  BY InitKInv
<1>2. KInv /\ [Next]_vars => KInv'
  <2> SUFFICES ASSUME KInv, [Next]_vars PROVE KInv'
    OBVIOUS
  <2>1. TypeOK' /\ IsTree'
    BY StepTypeOK, StepIsTree DEF KInv
  <2>2. answer' = "pending" => answer = "pending"
    BY DEF Next, vars, PopBlock, NextBlock, SkipSuccessor, LookAtVisited, Discover,
           MarkPathReachable, GiveUp, IsSearching
  <2>3. answer' = "pending" => IsExplored' /\ IsMarkedThrough'
    BY <2>2, StepIsExplored, StepIsMarkedThrough DEF KInv
  <2> QED
    BY <2>1, <2>3, StepNoFalseAlarm DEF KInv
<1>3. KInv => FalseAlarmsAreFiltered
  BY DEF KInv
<1> QED
  BY <1>1, <1>2, <1>3, PTL DEF Spec
=============================================================================
