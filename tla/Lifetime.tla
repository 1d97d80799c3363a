------------------------------ MODULE Lifetime ------------------------------
(***************************************************************************)
(* The fixed point engine: LifetimeContext::traverseBlocks analyses one    *)
(* function by visiting the blocks of its control flow graph until their   *)
(* psets no longer change.  What one visit of a block computes is the      *)
(* operator VisitBlock, given as a constant.                               *)
(***************************************************************************)
EXTENDS Integers, Sequences, LifetimePset, ControlFlowGraph, Reporter

CONSTANTS
  FunctionDecls,      \* names of the functions that may be analysed
  Body,               \* function |-> its control flow graph
  VisitBlock(_, _, _, _, _),
  IterationLimit      \* bound on the number of visits, 100000 in the code

ASSUME LifetimeAssumption ==
  /\ \A d \in FunctionDecls : IsCFG(Body[d])
  /\ IterationLimit \in Nat

VARIABLES
  fn,              \* FuncDecl, the function under analysis
  worklist,        \* the blocks waiting, a ForwardDataflowWorklist
  visited,         \* the blocks visited at least once
  entryPMap,       \* BlockContext::EntryPMap of every block
  exitPMap,        \* BlockContext::ExitPMap
  falseExit,       \* BlockContext::FalseBranchExitPMap, NoPMap if unset
  exprs,           \* RefersTo, PSetsOfExpr and ExprMemberPMap, shared by all blocks
  reports,         \* what the reporter has shown, by location
  iterationCount,
  done             \* traverseBlocks has returned

vars == <<fn, worklist, visited, entryPMap, exitPMap, falseExit, exprs, reports,
          iterationCount, done>>

F == Body[fn]

-----------------------------------------------------------------------------
(* Maps of psets *)

Merge(maps) ==
  [v \in UNION {DOMAIN m : m \in maps} |->
     UNION {m[v] : m \in {n \in maps : v \in DOMAIN n}}]

(* p holds nothing that q does not. *)
Leq(p, q) == \A v \in DOMAIN p : v \in DOMAIN q /\ p[v] \subseteq q[v]

-----------------------------------------------------------------------------
(* The psets on entry to the function *)

(* The preconditions of the function; the members are set up below. *)
EntryContracts(f) ==
  LET Assumed(v) == IF Invalid \in f.pre[v] THEN {Invalid}
                    ELSE IF LifetimeCallNull THEN f.pre[v]
                    ELSE f.pre[v] \ {Null}
  IN  [v \in {w \in DOMAIN f.pre : ~(IsField(w) /\ IsThisPointer(w))} |->
         IF IsParameter(v) THEN Assumed(v) ELSE f.pre[v]]

(* Unless asked to, do not require that outputs are set on error paths. *)
ExcuseOutputs(f, pmap) ==
  [v \in DOMAIN pmap |->
     IF ~LifetimeOutput /\ v \in DOMAIN f.post /\ Invalid \in pmap[v]
     THEN RemoveEverythingButNull(pmap[v]) ELSE pmap[v]]

(* Parameters that are no indirection stand for themselves. *)
ValueParameters(f) ==
  [v \in {Var(d) : d \in {p \in f.params : Category(DeclInfo[p].type) \notin {"Pointer", "Owner"}}}
     |-> Singleton(v, 0)]

(* The members of *this: each Owner and Pointer points to what it owns or  *)
(* to a valid object, the others stand for themselves.                     *)
EntryPsetsForMembers(f) ==
  LET Member(fd) == AddField(DerefVar(Var(f.this)), fd)
  IN  [v \in {Member(fd) : fd \in f.members} |->
         Singleton(v, IF Category(GetType(v)) \in {"Pointer", "Owner"} THEN 1 ELSE 0)]

(* A later assignment to the same location replaces the earlier one. *)
InitialPMap(f) ==
  Over(EntryPsetsForMembers(f), Over(ValueParameters(f), ExcuseOutputs(f, EntryContracts(f))))

-----------------------------------------------------------------------------
(* The psets on entry to a block *)

(* A slip: the false psets are forgotten.                                  *)
ExitOnly(p, b) == exitPMap[p]

(* What predecessor p hands to b. *)
EdgePMap(p, b) ==
  IF IsFalseEdge(F, p, b) /\ falseExit[p] # NoPMap THEN falseExit[p] ELSE exitPMap[p]

ReachablePreds(b) == {p \in Preds(F, b) : IsReachablePred(F, p, b)}

(* A noop block keeps the psets of the two outcomes apart when every       *)
(* predecessor does.                                                       *)
PropagateFalseSet(b) ==
  /\ SuccSize(F, b) = 2
  /\ IsNoopBlock(F, b)
  /\ \A p \in Preds(F, b) : IsReachablePred(F, p, b) /\ falseExit[p] # NoPMap

TruePreds(b) ==
  {p \in ReachablePreds(b) : \/ SuccSize(F, p) = 1
                             \/ SuccSize(F, p) = 2 /\ ~IsFalseEdge(F, p, b)}
FalsePreds(b) ==
  {p \in ReachablePreds(b) : SuccSize(F, p) = 1 \/ IsFalseEdge(F, p, b)}

(* A slip: starting afresh instead of merging into EntryPMap. *)
MergedAfresh(b) == Merge({EdgePMap(p, b) : p \in ReachablePreds(b)})

ComputedEntry(b) ==
  Merge({entryPMap[b]} \cup
        IF PropagateFalseSet(b)
        THEN {exitPMap[p] : p \in TruePreds(b)}
        ELSE {EdgePMap(p, b) : p \in ReachablePreds(b)})

ComputedFalseExit(b) ==
  IF PropagateFalseSet(b)
  THEN Merge({falseExit[p] : p \in FalsePreds(b)})
  ELSE falseExit[b]

-----------------------------------------------------------------------------
(* The traversal *)

Init ==
  /\ fn \in FunctionDecls
  /\ worklist = ReachableSuccs(F, F.entry)
  /\ visited = {}
  /\ entryPMap = [b \in F.blocks |-> EmptyPMap]
  /\ exitPMap = [b \in F.blocks |-> IF b = F.entry THEN InitialPMap(F) ELSE EmptyPMap]
  /\ falseExit = [b \in F.blocks |-> NoPMap]
  /\ exprs = NothingSeen
  /\ reports = <<>>
  /\ iterationCount = 0
  /\ done = FALSE

(* A slip: the worklist hands out its blocks in any order. *)
DequeueAny(b) == ~done /\ b \in worklist

(* The worklist hands out its blocks in reverse post order. *)
Dequeue(b) ==
  /\ ~done
  /\ b \in worklist
  /\ \A c \in worklist : F.rank[b] <= F.rank[c]

(* Slips this part of the code could have had, for checking that the       *)
(* properties would notice: one visit too many, visiting once, or always,  *)
(* not looking back, and taking every statement for a for statement.       *)
OneTooMany == iterationCount <= IterationLimit
OnlyOnce(b) == b \notin visited
Always(b) == TRUE
OnlyForward(b) == ReachableSuccs(F, b) \ visited
LikeFor(b) ==
  IF b \notin visited /\ SuccSize(F, b) = 2
  THEN {s \in ReachableSuccs(F, b) : s = F.succs[b][1].to}
  ELSE ReachableSuccs(F, b)

WithinLimit == iterationCount < IterationLimit

Changed(b) == b \notin visited \/ ComputedEntry(b) # entryPMap[b]

(* The exit block is not analysed. *)
SkipExit(b) ==
  /\ Dequeue(b)
  /\ WithinLimit
  /\ b = F.exit
  /\ worklist' = worklist \ {b}
  /\ UNCHANGED <<fn, visited, entryPMap, exitPMap, falseExit, exprs, reports,
                 iterationCount, done>>

(* A slip: passing on what has not changed. *)
PassOnUnchanged(b) ==
  /\ Dequeue(b)
  /\ WithinLimit
  /\ b # F.exit
  /\ ~Changed(b)
  /\ worklist' = (worklist \ {b}) \cup ReachableSuccs(F, b)
  /\ falseExit' = [falseExit EXCEPT ![b] = ComputedFalseExit(b)]
  /\ UNCHANGED <<fn, visited, entryPMap, exitPMap, exprs, reports, iterationCount, done>>

(* Nothing new arrived on entry: the block is not visited again, but the   *)
(* false psets of a noop block have been computed anew.                    *)
SkipUnchanged(b) ==
  /\ Dequeue(b)
  /\ WithinLimit
  /\ b # F.exit
  /\ ~Changed(b)
  /\ worklist' = worklist \ {b}
  /\ falseExit' = [falseExit EXCEPT ![b] = ComputedFalseExit(b)]
  /\ UNCHANGED <<fn, visited, entryPMap, exitPMap, exprs, reports, iterationCount, done>>

(* After its first visit, a for statement only enqueues its body. *)
Enqueued(b) ==
  IF b \in F.forBlocks /\ b \notin visited
  THEN {s \in ReachableSuccs(F, b) : s = F.succs[b][1].to}
  ELSE ReachableSuccs(F, b)

Visit(b) ==
  /\ Dequeue(b)
  /\ WithinLimit
  /\ b # F.exit
  /\ Changed(b)
  /\ \E out \in {VisitBlock(F, b, ComputedEntry(b), ComputedFalseExit(b), exprs)} :
         /\ entryPMap' = [entryPMap EXCEPT ![b] = ComputedEntry(b)]
         /\ exitPMap' = [exitPMap EXCEPT ![b] = out.pmap]
         /\ falseExit' = [falseExit EXCEPT ![b] = out.falseExit]
         /\ exprs' = out.exprs
         /\ reports' = ReportAll(reports, F.suppressed, out.diags)
  /\ visited' = visited \cup {b}
  /\ iterationCount' = iterationCount + 1
  /\ worklist' = (worklist \ {b}) \cup Enqueued(b)
  /\ UNCHANGED <<fn, done>>

(* The loop ends with an empty worklist, *)
Finish ==
  /\ ~done
  /\ worklist = {}
  /\ done' = TRUE
  /\ UNCHANGED <<fn, worklist, visited, entryPMap, exitPMap, falseExit, exprs, reports,
                 iterationCount>>

(* or gives up on the block it has just dequeued. *)
GiveUp(b) ==
  /\ Dequeue(b)
  /\ ~WithinLimit
  /\ worklist' = worklist \ {b}
  /\ done' = TRUE
  /\ UNCHANGED <<fn, visited, entryPMap, exitPMap, falseExit, exprs, reports, iterationCount>>

Terminated == done /\ UNCHANGED vars

Next ==
  \/ \E b \in F.blocks : SkipExit(b) \/ SkipUnchanged(b) \/ Visit(b) \/ GiveUp(b)
  \/ Finish
  \/ Terminated

Spec == Init /\ [][Next]_vars

(* The analysis is a sequential program: it goes on as long as it can. *)
FairSpec == Spec /\ WF_vars(Next)

-----------------------------------------------------------------------------
(* Properties *)

(* Type invariant: the engine's tables have an entry for each block, and   *)
(* the exit block is never analysed.                                       *)
TypeOK ==
  /\ fn \in FunctionDecls
  /\ worklist \subseteq F.blocks
  /\ visited \subseteq F.blocks \ {F.exit}
  /\ entryPMap = [b \in F.blocks |-> entryPMap[b]]
  /\ exitPMap = [b \in F.blocks |-> exitPMap[b]]
  /\ falseExit = [b \in F.blocks |-> falseExit[b]]
  /\ iterationCount \in 0..IterationLimit
  /\ done \in BOOLEAN

(* The psets on entry to a block only grow: that, in a finite lattice, is  *)
(* why the traversal ends although the transfer function is not monotone.  *)
EntriesGrow == [][\A b \in F.blocks : Leq(entryPMap[b], entryPMap'[b])]_vars

(* The edges along which the engine promises to hand on every change.  It  *)
(* makes no promise                                                        *)
(*   - to what follows a for statement, until its body changes the psets,  *)
(*   - over the false edge of a noop block, nor over an edge into one that *)
(*     keeps the outcomes apart, other than as its true outcome.           *)
IsSplit(b) == IsNoopBlock(F, b) /\ SuccSize(F, b) = 2

Promised(p, b) ==
  /\ p \in F.forBlocks => b = F.succs[p][1].to
  /\ IsFalseEdge(F, p, b) => ~IsSplit(p) /\ ~IsSplit(b)
  /\ IsSplit(b) => SuccSize(F, p) \in {1, 2}

PromisedEdges ==
  {e \in F.blocks \X (F.blocks \ {F.exit}) :
     e[2] \in ReachableSuccs(F, e[1]) /\ Promised(e[1], e[2])}

(* b knows everything p would tell it. *)
UpToDate(p, b) == b \in visited /\ Leq(EdgePMap(p, b), entryPMap[b])

Exhausted == done /\ ~WithinLimit

(* No change is forgotten: a block that has not seen all its predecessors  *)
(* left behind is waiting in the worklist.                                 *)
NothingForgotten ==
  ~Exhausted =>
    \A p \in visited \cup {F.entry} : \A b \in ReachableSuccs(F, p) \ {F.exit} :
      Promised(p, b) => b \in worklist \/ UpToDate(p, b)

(* Lifetime.cpp:365: "The traversal is repeated until the psets come to a  *)
(* steady state": no block reached would gain from another visit.          *)
SteadyState ==
  done /\ ~Exhausted =>
    \A p \in visited \cup {F.entry} : \A b \in ReachableSuccs(F, p) \ {F.exit} :
      Promised(p, b) => UpToDate(p, b)

(* The same for every edge, as the comment has it.  Into a noop block that *)
(* keeps the outcomes apart the psets arrive in two parts.                 *)
SteadyEverywhere ==
  done /\ ~Exhausted =>
    \A p \in visited \cup {F.entry} : \A b \in ReachableSuccs(F, p) \ {F.exit} :
      ~IsSplit(b) => UpToDate(p, b)

(* Every block that control can reach over such edges is analysed: one     *)
(* that is not lies outside a set of blocks that control never leaves.     *)
Closed(S) ==
  /\ F.entry \in S
  /\ \A p \in S : \A b \in ReachableSuccs(F, p) : Promised(p, b) => b \in S

UnvisitedIsUnreachable ==
  done /\ ~Exhausted =>
    \A b \in F.blocks \ (visited \cup {F.entry, F.exit}) :
      \E S \in SUBSET F.blocks : Closed(S) /\ b \notin S

(* The order of the worklist: in a function without loops no block is seen *)
(* before all that leads to it, so that what a visit has found stands.     *)
HasLoop == \E b \in F.blocks : \E c \in ReachableSuccs(F, b) : F.rank[c] <= F.rank[b]

FindingsStand ==
  \A b \in visited : /\ entryPMap'[b] = entryPMap[b]
                     /\ exitPMap'[b] = exitPMap[b]
                     /\ falseExit'[b] = falseExit[b]
OneVisitWithoutLoops == [][~HasLoop => FindingsStand]_vars

(* The analysis of a function ends. *)
Termination == <>done

(* Its bound on the number of visits is never what ends it. *)
NeverGivesUp == iterationCount < IterationLimit
-----------------------------------------------------------------------------
(* Refinement *)

(* What the traversal has to do with its worklist, its order, its false    *)
(* psets and its hacks left out: the psets on entry to a block are what it *)
(* knows, and along a promised edge it tells what EdgePMap hands on.       *)
Search ==
  INSTANCE FixedPointSearch WITH
    Patience  <- IterationLimit,
    nodes     <- F.blocks,
    start     <- F.entry,
    leads     <- {e \in F.blocks \X F.blocks : e[2] \in ReachableSuccs(F, e[1])},
    told      <- PromisedEdges,
    processed <- visited,
    knows     <- entryPMap,
    tells     <- [e \in PromisedEdges |-> EdgePMap(e[1], e[2])],
    effort    <- iterationCount,
    outcome   <- IF ~done THEN "searching" ELSE IF WithinLimit THEN "steady" ELSE "gave up"

(* traverseBlocks is such a search: whatever a block has taken in was told *)
(* by a block control comes from, it is not visited without need, and the  *)
(* loop is not left, other than by giving up, while something is unknown.  *)
SearchesForFixedPoint == Search!Spec
=============================================================================
