---------------------------- MODULE WarningFilter ----------------------------
(***************************************************************************)
(* LifetimeReporterBase::shouldBeFiltered: a possible fault in one block   *)
(* whose cause lies in another is not worth a warning when the two need    *)
(* not both be executed, or when something sets things right on the way.   *)
(* The second question is answered by a search through the control flow    *)
(* graph, depth first, which marks the blocks known to lead to the fault.  *)
(*                                                                         *)
(* A query q is a record: the graph (blocks, entry, exit and succs, block  *)
(* |-> sequence of successors, None for one that is pruned), the blocks    *)
(* source and dest of the cause and the fault, and before and after,       *)
(* block |-> the special members of the pset of the variable in question   *)
(* on entry to the block and on exit (before has no entry when the         *)
(* variable does not exist there).                                         *)
(***************************************************************************)
EXTENDS Naturals, Sequences, SequencesExt

CONSTANTS
  None,
  Null, Invalid,
  Queries

ASSUME QueriesAssumption ==
  \A k \in Queries :
    /\ None \notin k.blocks
    /\ {k.entry, k.exit, k.source, k.dest} \subseteq k.blocks
    /\ k.succs \in [k.blocks -> Seq(k.blocks \cup {None})]

VARIABLES
  q,
  worklist,      \* WorkList, a stack
  visited,       \* Visited
  canReachDest,  \* CanReachDest
  parent,        \* ParentMap
  current,       \* the block whose successors are looked at, None between two
  rest,          \* those of its successors that are left
  from,          \* where markPathReachable has come to, None outside it
  answer         \* "pending", "filtered" or "shown"

vars == <<q, worklist, visited, canReachDest, parent, current, rest, from, answer>>

-----------------------------------------------------------------------------
(* Blocks and paths *)

Edges(query) ==
  {e \in query.blocks \X query.blocks : e[2] \in Range(query.succs[e[1]])}

(* b is in each set that holds a and is never left, other than into S. *)
LeadsOutside(S, a, b) ==
  \A T \in SUBSET q.blocks :
    a \in T /\ (\A e \in Edges(q) : e[1] \in T /\ e[2] \notin S => e[2] \in T) => b \in T
Leads(a, b) == LeadsOutside({}, a, b)

(* Clang's dominator trees. *)
Dominates(a, b) == b = a \/ a = q.entry \/ ~LeadsOutside({a}, q.entry, b)
PostDominates(a, b) == b = a \/ a = q.exit \/ ~LeadsOutside({a}, b, q.exit)

IsDoubtful(special) == special \cap {Null, Invalid} # {}
IsCleaningBlock(b) ==
  /\ b \in DOMAIN q.before
  /\ IsDoubtful(q.before[b])
  /\ ~IsDoubtful(q.after[b])

-----------------------------------------------------------------------------
(* The search *)

Init ==
  /\ q \in Queries
  /\ worklist = <<q.source>>
  /\ visited = {q.source}
  /\ canReachDest = {q.dest}
  /\ parent = <<>>
  /\ current = None
  /\ rest = <<>>
  /\ from = None
  /\ answer = IF ~PostDominates(q.dest, q.source) /\ ~Dominates(q.source, q.dest)
              THEN "filtered" ELSE "pending"

IsSearching == answer = "pending" /\ from = None

(* A slip: looking at the last block without taking it off. *)
PeekBlock ==
  /\ IsSearching
  /\ current = None
  /\ worklist # <<>>
  /\ current' = Last(worklist)
  /\ rest' = q.succs[current']
  /\ UNCHANGED <<q, worklist, visited, canReachDest, parent, from, answer>>
PopBlock ==
  /\ IsSearching
  /\ current = None
  /\ worklist # <<>>
  /\ current' = Last(worklist)
  /\ rest' = q.succs[current']
  /\ worklist' = Front(worklist)
  /\ UNCHANGED <<q, visited, canReachDest, parent, from, answer>>

NextBlock ==
  /\ IsSearching
  /\ current # None
  /\ rest = <<>>
  /\ current' = None
  /\ UNCHANGED <<q, worklist, visited, canReachDest, parent, rest, from, answer>>

(* A pruned edge, and a path that comes back to where it began. *)
IsIgnored(s) == s = None \/ s = q.source
SkipSuccessor ==
  /\ IsSearching
  /\ rest # <<>>
  /\ IsIgnored(Head(rest))
  /\ rest' = Tail(rest)
  /\ UNCHANGED <<q, worklist, visited, canReachDest, parent, current, from, answer>>

(* The first block that leads to another is its parent. *)
WithParent(s) == IF s \in DOMAIN parent THEN parent ELSE [t \in DOMAIN parent \cup {s} |->
                                                           IF t = s THEN current ELSE parent[t]]

(* Slips: marking what leads nowhere, and marking only the last block.     *)
AnyVisited(s) == s \in visited \/ s = q.dest
IsKnownToLead(s) == AnyVisited(s) /\ s \in canReachDest

LookAtVisited ==
  /\ IsSearching
  /\ rest # <<>>
  /\ LET s == Head(rest)
     IN  /\ ~IsIgnored(s)
         /\ s \in visited \/ s = q.dest
         /\ parent' = WithParent(s)
         /\ from' = IF IsKnownToLead(s) THEN current ELSE None
  /\ rest' = Tail(rest)
  /\ UNCHANGED <<q, worklist, visited, canReachDest, current, answer>>

Discover ==
  /\ IsSearching
  /\ rest # <<>>
  /\ LET s == Head(rest)
     IN  /\ ~IsIgnored(s)
         /\ s \notin visited /\ s # q.dest
         /\ parent' = WithParent(s)
         /\ visited' = visited \cup {s}
         /\ worklist' = Append(worklist, s)
  /\ rest' = Tail(rest)
  /\ UNCHANGED <<q, canReachDest, current, from, answer>>

Orphaned(b) == None
ParentOf(b) == IF b \in DOMAIN parent THEN parent[b] ELSE None

(* One turn of the loop in markPathReachable. *)
MarkPathReachable ==
  /\ answer = "pending"
  /\ from # None
  /\ canReachDest' = canReachDest \cup {from}
  /\ answer' = IF from \notin canReachDest /\ IsCleaningBlock(from) THEN "filtered" ELSE "pending"
  /\ from' = IF from \in canReachDest \/ IsCleaningBlock(from) THEN None ELSE ParentOf(from)
  /\ UNCHANGED <<q, worklist, visited, parent, current, rest>>

GiveUp ==
  /\ IsSearching
  /\ current = None
  /\ worklist = <<>>
  /\ answer' = "shown"
  /\ UNCHANGED <<q, worklist, visited, canReachDest, parent, current, rest, from>>

Next ==
  \/ PopBlock
  \/ NextBlock
  \/ SkipSuccessor
  \/ LookAtVisited
  \/ Discover
  \/ MarkPathReachable
  \/ GiveUp

Spec == Init /\ [][Next]_vars
FairSpec == Spec /\ WF_vars(Next)

-----------------------------------------------------------------------------
(* Properties *)

(* Do all paths from the cause to the fault go through a cleaning block?   *)
Cleaners == {b \in q.blocks : IsCleaningBlock(b)}
IsAlwaysCleaned ==
  /\ q.source # q.dest
  /\ q.source \notin Cleaners => ~LeadsOutside(Cleaners \ {q.dest}, q.source, q.dest)

(* What has been marked leads to the fault, and what has been visited is   *)
(* led to by the cause (Lifetime.cpp:59-60, 85-86): so when the search     *)
(* succeeds, control can pass from the cause through a cleaning block to   *)
(* the fault.                                                              *)
WasSearched == parent # <<>> \/ current # None
FiltersForAReason ==
  answer = "filtered" /\ WasSearched =>
    \E b \in Cleaners : Leads(q.source, b) /\ Leads(b, q.dest)

(* A warning about a cause that is always set right before the fault is    *)
(* reached would be a false one: it is filtered (Lifetime.cpp:138, "do we  *)
(* clean nullness/invalidness between the two?").                          *)
FalseAlarmsAreFiltered ==
  answer = "shown" /\ Leads(q.source, q.dest) => ~IsAlwaysCleaned

(* Lifetime.cpp:85-86 "Returns true if there is a simple path from Source  *)
(* to Dest touching a node that satisfies predicate P."                    *)
IsSimplePath(path) ==
  /\ path # <<>>
  /\ Head(path) = q.source /\ Last(path) = q.dest
  /\ IsInjective(path)
  /\ \A i \in 1..(Len(path) - 1) : <<path[i], path[i + 1]>> \in Edges(q)
SimplePathsAreFound ==
  answer = "shown" =>
    ~ \E n \in 1..4 : \E path \in [1..n -> q.blocks] :
        IsSimplePath(path) /\ \E i \in 2..(n - 1) : path[i] \in Cleaners

(* Every question is answered. *)
Answered == <>(answer # "pending")
=============================================================================
