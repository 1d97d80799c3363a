# A TLA+ model of cppsafe

cppsafe checks C++ functions against the lifetime profile.  It is one
sequential program: for every function definition Clang hands it, it computes
the *contract* of the function, runs a data flow analysis over its control flow
graph until the points-to sets ("psets") settle, and reports what violates the
profile on the way.  What is hard about it is neither concurrency nor failure but

- the *iteration*: which blocks are visited again, and in which order, when the
  transfer function is not monotone and some states are passed on by side doors
  (the false psets of a condition, the `for` hack, the noop blocks, the psets of
  expressions that all blocks share);
- the *meaning*: whether the psets describe every execution of the analysed
  function, so that no fault is missed, and whether what is reported as certain
  is certain;
- the *contracts*: whether what a function promises its callers holds when it
  returns, and what a call does to the psets of the caller, on every path;
- the *caches*: type categories and contracts are kept in static maps, filled in
  whatever order questions come, while declarations are still being parsed.

So the models come in layers: the engine with an arbitrary transfer function on
arbitrary graphs; the engine with the real transfer function on small C++ programs,
next to a machine that executes those programs; and the three parts that have a
state of their own: type categories, the driver with its caches, the warning filter.

## The system

| Component | State it keeps | Operations | Model |
|---|---|---|---|
| Locations and psets (`LifetimePset.h`) | – (values) | field access, dereference, merge, transform, substitutability | `LifetimePset` |
| Engine (`Lifetime.cpp`, `LifetimeContext`) | per block `EntryPMap`, `ExitPMap`, `FalseBranchExitPMap`; the worklist; the visited blocks; a counter | `traverseBlocks`, `computeEntryPSets` | `Lifetime`, on `ControlFlowGraph`; abstractly `FixedPointSearch` |
| Transfer function (`LifetimePsetBuilder.cpp`) | `PMap`; `RefersTo`, `PSetsOfExpr`, `ExprMemberPMap` shared by all blocks | one visitor per kind of AST node, `eraseVariable`, `updatePSetsFromCondition`, `onFunctionFinish` | `LifetimePsetBuilder`, `LifetimeBlocks` |
| Aggregates (`type/Aggregate.cpp`) | `ExprMemberPMap` | expand, initialise, copy, return | `LifetimeAggregates` |
| Calls (`contract/CallVisitor.cpp`) | – | bind arguments, check, enforce, invalidate, move | `LifetimeCalls` |
| Contracts (`LifetimeAttrHandling.cpp`, `contract/Parser.cpp`) | a process-wide cache | preconditions, postconditions, annotations; inheritance | `LifetimeContracts`; the cache in `Driver` |
| Type categories (`LifetimeTypeCategory.cpp`) | process-wide caches, the call stack | classify a type, find its pointee | `TypeCategory`; elsewhere the constant `TypeInfo` |
| Reporter (`AstConsumer.cpp`) | `WarningLocs` | `warn...` | `Reporter` |
| Driver (`AstConsumer.cpp`, `main.cpp`) | options; per unit the error flag | one analysis per function, one unit after the other | `Driver`, `CppsafeOptions` |
| Warning filter (`shouldBeFiltered`) | worklist, parents, marks of a search | path search | `WarningFilter` |

The engine calls the transfer function once per visit of a block and hands it the
block's entry psets; the transfer function hands calls to the `CallVisitor` and diagnostics
to the reporter as it goes.  The contract of the function gives the psets on entry to the
function and what is checked when it ends; the contracts of what it calls give what a call
checks and does.  Type categories are asked for everywhere.  Nothing runs concurrently, and nothing is
persisted; the caches are what one function, or one translation unit, leaves for the next.

## The modules

`EXTENDS` chains:

    CppsafeOptions <- LifetimePset <- LifetimePsetBuilder, LifetimeContracts
                                        <- LifetimeAggregates <- LifetimeCalls <- LifetimeBlocks
    ControlFlowGraph, Reporter, LifetimePset <- Lifetime <- LifetimeProofs, MCTraversal
    LifetimeContracts, ControlFlowGraph <- MCPrograms <- PathPrograms, FunctionPrograms, DivergentPrograms
    Lifetime, LifetimeBlocks <- Execution
    PathPrograms, PointerPrograms <- MCPaths;   FunctionPrograms, Execution <- MCFunctions
    DivergentPrograms, Execution <- MCDivergences
    Execution <- PointerPrograms <- TransferProofs <- PointerProofs
    Execution, LifetimeProofs, PointerProofs <- ExecutionProofs
    TypeCategory <- MCTypeCategory;   TypeCategory, Recursion <- TypeCategoryProofs
    Driver <- MCDriver;   Driver, Recursion <- DriverProofs
    WarningFilter <- WarningFilterProofs, MCWarningFilter

**LifetimePset.** A location is `[base |-> declaration, path |-> fields and
dereferences]`; a pset is a set of locations and of the members `Null`, `Invalid`,
`Global`; the unknown pset is `{}`.  Types, fields and declarations are records of
what the code asks of them (`TypeInfo`, `FieldInfo`, `DeclInfo`).  Reasons that only
feed notes are left out.

**ControlFlowGraph** (external).  A function body is a record of blocks, ordered
successors, elements and AST nodes, as Clang builds it.

**Lifetime.**  One step per block taken from the worklist: `SkipExit`,
`SkipUnchanged`, `Visit`, `GiveUp`, and `Finish` for an empty worklist.  A step is
the whole loop body: dequeue, recompute the entry (and, in a noop block, the false
psets, also when the block is then skipped), visit, report, enqueue.  `VisitBlock` is a
constant operator, so that the module can be checked and proved about for any
transfer function.

**FixedPointSearch.**  What such an engine promises, without worklist, order and hacks: nodes are
processed one at a time, only after something has led to them and again only on news; it stops in a
steady state or when its patience ends.  `Lifetime!Search` is the refinement mapping.

**LifetimePsetBuilder**, **LifetimeAggregates**, **LifetimeCalls**, **LifetimeBlocks.**  The real
transfer function, `VisitBlockOf` in the last of them.  The builder's state is a record; a visitor is an
operator from state to state.  `RefersTo` and `PSetsOfExpr` are one map: they are keyed by disjoint
sets of expressions.  An assertion of the code that does not hold sets the flag `failed`, after which the process is gone.

**LifetimeContracts.**  `FillPSetsForDecl` computes pre- and postconditions of a
declaration: parameters, `this`, expansion of classes into members, inputs, weak
inputs and outputs, annotations; one that cannot be resolved ends the adjustment.

**Reporter.**  Suppression, options, and one diagnostic per location.

**TypeCategory.**  `classifyTypeCategory` and `getPointeeType` call each other, so a step is a stretch
of one call and the calls under way are a stack; `cache` and `pointees` are the static maps.  `Ask` is a question
from outside, in any order; `Define` is the parser reaching the definition of a class, `early` says which classes may be spoken of before that.
`CategoryBy` and `PointeeBy` are the rules alone, with the categories of other types as an argument: what the answers are compared with.

**Driver.**  A session is a sequence of units, a unit a sequence of top-level declarations.
`HandleTopLevelDecl` collects the functions to be analysed, `RunAnalysis` takes one, `AskForContracts`
fills the cache for it and for what it calls, `NextUnit` frees the declarations of a unit.  Addresses are a slab of
memory and a place in it; the next unit may be given the same slab.  `inherited` records which addresses the cache knew when the unit
began (`IsInherited`); a contract copied from such an entry is computed from freed declarations, so what it speaks of is
chosen at random (`MaySpeakOf`).  `SessionsAssumption` is what C++ ensures of the
order of declarations: what a method overrides is declared before the method, and what a body calls by the end of the
top-level declaration the body is in.

**WarningFilter.**  One step per successor looked at and per block marked: `PopBlock`, `NextBlock`,
`SkipSuccessor`, `LookAtVisited`, `Discover`, `MarkPathReachable`, `GiveUp`.

**Execution** (external, but for the step `Analyse`, which is the engine's).  After
the analysis has ended, the analysed function is called with any arguments its
precondition allows and runs block after block on a store of locations, until it faults,
reaches a statement with a diagnostic or returns.  A condition on something that is no
pointer may go either way.  A call checks that its arguments keep to the callee's
precondition, and then leaves any state the callee's postcondition allows: the callee is its
contract.  An Owner that a call may change loses what it owned; a temporary ends with its statement.

**PointerPrograms.**  The class of programs the whole chain is proved right about (`IsPointerProgram`): functions without parameters
whose variables are numbers and pointers of any depth, which are declared, assigned, followed, tested and go out of scope, in graphs of any
shape without `for` statements and noop blocks.  It says what Clang ensures of such a function: the types of operands fit, an operand was evaluated
before, in the same block and statement, and a variable named is in scope, that is, declared on every way there and not ended since.
`EndsItsScopes` says besides that a variable in scope where a block ends is in scope where control goes next, unless the function ends: Clang puts the end of a
lifetime on every way out of a scope.
`MarkersAssumption`: the markers `Null`, `Invalid`, `Global` and `Opaque` differ and are no locations.

**MCPrograms**, **PathPrograms**, **FunctionPrograms**, **DivergentPrograms.**  Families of programs, written as
statements in blocks and expanded to the nodes and the order of elements Clang produces.  `PathPrograms` is about control
(branches, loops, conditional operators), `FunctionPrograms` about contracts (methods, calls, moves, aggregates),
`DivergentPrograms` about the departures below.

Some modules define an operator marked "a slip" before the one it distorts: a mistake the code
could have had, such as a strong update where a weak one is due.  The specifications do not
use them; substituted for the right definition, each makes one property fail, which
shows that the run can tell the difference.

## What is checked

`TypeOK` apart, the properties are aimed at the hazards listed in `PROJECT.json`.

| Run | What it covers | Properties |
|---|---|---|
| `traversal` | 5760 graphs × transfer functions: three inner blocks in every arrangement of 6 × 5 × 4 successor lists (loops, irreducible ones too, switches, a pruned edge), `for` statements, noop blocks; blocks that keep, gain, forget, swap or split a pset | `TypeOK`, `EntriesGrow`, `NothingForgotten`, `SteadyState`, `UnvisitedIsUnreachable`, `Termination`, `OneVisitWithoutLoops`, `SearchesForFixedPoint` (refinement) |
| `paths` | 308 programs with branches: if on a flag, on a pointer, negated, on && and on \|\|, with locals ending in a branch or, after pointers to them were set on one path, where the paths meet, and stores through a pointer that may name either of two, or one that is gone; 150 with while, for and do loops, and loops around branches with pointers to pointers; 150 with conditional operators, whose operands are evaluated in blocks of their own, once and in loops | `EveryFaultIsReported`, `CertainWithoutLoops`, `PSetsDescribeExecutions`, `NothingOutlivesItsScope`, `NeverGivesUp` |
| `functions` | 576 methods with two returns, a pointer parameter, an output parameter and a member, without an annotation, with `gsl::post`, and with three of which the second cannot be resolved; 160 functions with two Owners that hand out pointers, are changed, reset and passed on, with pointers in and out of calls, output parameters, calls of itself and temporaries; 108 that move from Owners, use them and give them a new value; 180 that do so in a loop, where an Owner is handed out, reset, moved from or used in one iteration and met again in the next; 64 that build, copy, assign, take apart, pass and return an aggregate of two pointers | `EveryFaultIsReported`, `PSetsDescribeExecutions`, `BlocksAreSound`, `LawfulCallsAreSilent`, `PostconditionsHold`, `NothingDanglesOnReturn`, `MovedFromIsCertain`, `NothingOutlivesItsScope` |
| `type_category` | 630 programs with iterators, smart pointers, containers, views and derived classes, by structure, by attribute and by name, and 288 of classes whose `begin()` hands out each other or themselves; every order of questions | `AnswersAreCurrent`, `IndirectionsHavePointees`, `Answered` |
| `driver` | 156 sessions of one and two units, the second in memory of its own or in that of the first: redeclared functions, methods overridden twice, classes defined early and late, functions in system headers and templates, Clang's errors | `ContractsAreTheirOwn`, `OneContractPerHierarchy` |
| `warning_filter` | 5760 questions about graphs of five blocks with loops and pruned edges | `FiltersForAReason`, `FalseAlarmsAreFiltered`, `Answered` |

- *EveryFaultIsReported*: the first null or dangling dereference of any execution, or the first call that breaks
  its callee's precondition, has a diagnostic at its location.  It is a statement about the whole chain:
  iteration, psets, contracts, validity checks, one report per location.
- *PSetsDescribeExecutions*: whenever an execution arrives at a block, each pointer holds
  a member of the pset the engine has for it on entry (on the false side of a condition
  that failed, of the false psets).  A pset with `Invalid` stands for anything: the code does not keep its other members up to
  date, and a dereference is reported in any case.
- *BlocksAreSound*: the same for one block at a time.  From any state its entry psets account for, a block runs to one that what
  it hands on accounts for, or it faults where that is reported.  It speaks of the transfer function alone, while the one above is about
  the engine as well; "What is proved" says how they hang together.
- *CertainWithoutLoops*: in a function without loops, no execution survives a dereference reported without "possibly".
  With loops this does not hold (run `set_in_loop`, property *DefiniteReportsAreCertain*).
- *LawfulCallsAreSilent*: an argument is said not to match its parameter only in a call that breaks the contract.
- *MovedFromIsCertain*: an Owner whose pset is {invalid} has been moved from in every execution.
- *NothingOutlivesItsScope*: no entry pset mentions a variable that is out of scope, and in a function without diagnostics no such
  variable has a pset.  Temporaries are excepted: the code erases them at the next declaration only; so are the members of psets with `Invalid`, which `invalidateVar` passes over
  (`LifetimePsetBuilder.cpp:851-854`), see departure 11 of the second list.
- *OneVisitWithoutLoops*: in a function without loops, what a visit has found for a block is never changed: no block is
  visited before all that leads to it.
- *NeverGivesUp*: the analysis of these programs settles long before the bound on visits.
- *Termination*, *SearchesForFixedPoint*: the engine ends for any transfer function, and implements `FixedPointSearch`.
- *PostconditionsHold*, *NothingDanglesOnReturn*: what is returned is covered by the
  postcondition callers assume, and outputs and members do not dangle, or it is reported at the
  return.
- *AnswersAreCurrent*: whatever was asked before, each answer is the category the rules give to the type, read as a
  recursive definition without caches, guard and stack; it is stated for programs in which no class asks for itself in the end
  (`IsLayered`), where that definition has a meaning.
- *Answered*, *IndirectionsHavePointees*: also when classes ask for themselves, every question is answered within the stack, and no
  Owner or Pointer is without a pointee.
- *ContractsAreTheirOwn*, *OneContractPerHierarchy*: a contract found in the cache was collected from the root of what the
  function overrides and speaks of the function's own parameters; all that override one method go by one contract.  The exception is a
  function that stands, or whose root stands, where an earlier unit had a function with a contract: so what is stale stays where it is.
- *FiltersForAReason*, *FalseAlarmsAreFiltered*: a filtered warning may really be set right on the way; one that is
  always set right before the fault is reached is filtered.

Bounds.  Three inner blocks are the fewest that give a loop, a branch inside it and
something behind it; with one location and two members a pset has four values, enough to gain and lose
members in either order.  `IterationLimit` is 100000 in the code and a small number here: in
`traversal` low enough to be reached, so that `GiveUp` happens; elsewhere 60, far above what the
programs need (`NeverGivesUp`).  The programs have at most two pointers, one pointer to a pointer, two
objects, two Owners, three aggregates of two members and loops whose psets settle after at most three rounds; three
statements around a branch suffice to take a pointer, lose what it points to on one path and use it where the paths meet.
Null checks are on (`--Wlifetime-null`), parameters are taken to be non-null (`--Wno-lifetime-call-null`), since an
execution stops at the first reported dereference and a reported parameter would end
every execution at once.  `--Wlifetime-output` is on where outputs matter, without it the engine
deliberately forgets that an output is unset.  `StackLimit` is 12 calls, more than three classes can nest when the guard works.
Two units are enough for one to inherit the cache of another.

Assumptions on callers and callees: no two arguments are, or hold, the same pointer, as the lifetime profile assumes
too; a callee keeps to its postcondition; an Owner that a call may change is taken to drop what it owned.

Fairness.  `WF_vars(Next)` in `Lifetime` and `WarningFilter`: the analysis is a sequential program that
runs until it returns; nothing else can stop it.  In `TypeCategory` fairness is on `Step` only: a call that has begun runs to its
end, but nobody need ask.  Termination of the engine is checked in `traversal`;
with the real transfer function `NeverGivesUp` bounds the number of visits instead.

The engine does not promise to propagate over every edge.  `Promised` names
the edges it does: not the false edge of a `for` statement until the body has changed the psets, not the
false edges of noop blocks that keep the outcomes of a condition apart.  Those exceptions are
not part of what the comments say, and the next section shows what follows from them.

## Where the code departs from its comments and tests

Each of these runs checks one property that TLC violates.

1. `for_statement`: `for (; c;) { *q; } *p;` On its first visit the `for` statement enqueues its
   body only; the body changes nothing, so the `for` is never visited again and what follows
   is never analysed.
2. `test_through_reference`: a condition tests `r`, a reference that names one pointer on the first
   visit and two on the second.  The second visit sets no false psets and does not reset those
   of the first.
3. `set_in_loop`: `while (c) { p = &x; } *p;` is seen first when `p` is null, and reported as certain,
   with the default options, too, although the diagnostic has the word "possibly" for it (`AstConsumer.cpp:186`).  That false positives are few by
   default (`src/README.md:135`) is an aim of the authors, not a promise this breaks.
4. `forgotten_operand`: `while (c) { int *q = p ? p : nullptr; p = &x; if (c) { *q; break; } }` the declaration clears
   the psets of both operands; on the second visit only the block of `p` has changed, the null operand is
   missing, and the psets that were right after the first visit are overwritten.
5. `copy_one_of`: `A h, k; A *ph = c ? &h : &k; A g = *ph;` copying an aggregate through a pointer to one of two fails an
   assertion, which ends the process.
6. `forward_declared`: a class asked about before it is defined stays a Value.

More of the same, without a run of its own.  To see the first five, set `FunctionDecls` and the invariant in
`MCForStatement.cfg` to what is named:

1. `NoopInLoop`, `SteadyEverywhere`: a noop block's false psets change, its entry psets do not; its successors are not
   told (`Lifetime.cpp:298`).
2. `SwappedCall`, `LawfulCallsAreSilent`: a function `f(a, e)` calls `f(e, a)`; parameters are bound one after the other, so what was
   bound to `e` is bound again, and a lawful call is reported (`CallVisitor.cpp:326`).
3. `MayDangle`, `DefiniteReportsAreCertain`: `p = a; if (c) { p = o.get(); } o.reset(); *p;` the pset of `p` becomes {invalid} and the
   dereference is reported as certain (`LifetimePsetBuilder.cpp:880`).  The same at the end of a scope: `invalidateVar`, too, makes the
   pset {invalid} where the pointer only may dangle.
4. `Forgotten`, `EveryFaultIsReported`: `pc = peek(5); *pc;` temporaries are erased at the next declaration, not at the end of the
   statement, so the dangling `pc` is not reported (`LifetimePsetBuilder.cpp:1769`).
5. `AssignOneOf`, `EveryFaultIsReported`: assigning an aggregate through a pointer to one of two replaces the members of both
   (`CallVisitor.cpp:234`), where an assignment of a plain pointer keeps the old psets as well (`attr-psets.cpp:998`).
6. `MCDriver.cfg` with `ContractsAreAlwaysTheirOwn`: a declaration allocated where one of an earlier, freed unit was finds
   that one's contract (`LifetimeAttrHandling.cpp:556`).  `ContractsAreTheirOwn` says how far this goes.
7. `MCDriver.cfg` with `OwnersAreNotAnalysed`: the methods of an Owner spoken of before its definition are analysed, against
   `Lifetime.cpp:522`.
8. `MCTypeCategory.cfg` with `PointeeStaysKnown`: a class whose `begin()` returns the class itself is answered a Pointer (or an Owner) first
   and a Value from then on.  With `NoNullTypeIsUsed`: `template <class T> struct A { A begin(); A end(); };` and a class `B` whose `begin()`
   returns `A<int>`; while `B` is classified `A<int>` is found a Pointer, but the call for it from within has put Value into the cache, so the second
   question has no pointee, and a null type is made canonical (`LifetimeTypeCategory.cpp:526`).
9. `MCWarningFilter.cfg` with `SimplePathsAreFound`: a block reached again before it is known to lead to the fault is not looked at again,
   so some simple paths through a cleaning block are missed, against `Lifetime.cpp:85-86`.  `FalseAlarmsAreFiltered` holds all the same,
   and is proved.
10. `NullBranch`, `EveryFaultIsReported`: `{ int y; pp = b; p = &y; *b = p; } if (c) b = nullptr; if (b) ; else { q = *pp; *q; }`.  On the branch where `b` is null what `*b` holds is taken to be unknown, but `*pp` is
   the same location, and what is unknown is never reported (`LifetimePsetBuilder.cpp:1577`, `1593`).
11. `{ int *q; if (c) pp = &q; } if (k) *pp = p;` `pp` had been unset, so its pset is {invalid, q}, and the end of `q` passes over it.  The store through `pp`, which is
   reported as possibly dangling, then writes to each of its members and so brings back the pset of a variable that is gone (`setPSet`).  It does no harm, as nothing can name
   that variable.  The run `paths` has such programs; `NothingOutlivesItsScope` makes the exception.

## What is proved

`LifetimeProofs`, for every set of functions, every graph of any size, every transfer
function and every bound on visits.  The assumptions are `LifetimeAssumption` (the graphs are
graphs: successors are blocks, entry is not exit, the exit has no successors, a `for` has
two) and `OptionsAssumption`.

- `Typing`: `[]TypeOK`.
- `EntriesOnlyGrow`: entry psets only grow; from `TypeOK` and `MergeIsUpperBound` alone, since only
  `Visit` writes an entry and what it writes merges the old one.
- `NothingIsForgotten`, from the inductive invariant `IInv`: `TypeOK`, `NothingForgotten` itself, and
  "done, unless given up, means the worklist is empty".  The last conjunct is what turns the invariant of the
  loop into a fact about its result.  The heart is `EdgeIsTakenIn` (computing an entry takes in
  what each promised edge brings) and the two steps that can break it: `Visit`, which changes what
  a block hands on and therefore enqueues its successors, and `SkipUnchanged`, which rewrites the
  false psets of a noop block without enqueueing anything; there the exceptions in
  `Promised` are needed, and `NoopInLoop` shows that they cannot be dropped.
- `StopsInSteadyState` and `ReachableCodeIsAnalysed` follow from `IInv` at the end; in the latter the
  closed set is the set of visited blocks with entry and exit.
- `ImplementsSearch`: `Lifetime` implements `FixedPointSearch`.  Initial states map to initial states, `Visit` to
  `Process` (`VisitProcesses`), the skips to stutters (`SkippingIsNoStep`), `Finish` and `GiveUp` to `Stop`.  Besides `IInv` it
  needs `ControlArrives`: whatever is in the worklist is a successor of the entry or of a visited block.
- `LoopsAloneAreRevisited`, from `WorkLiesAhead`: in a graph without loops the blocks in the worklist come after all visited
  ones in reverse post order.  The block dequeued is the first of them, and its successors come later still; so it is new, and what
  `Visit` writes is its own.
- `FewVisitsSuffice`: `NeverGivesUp`, for all psets from a finite lattice (`IsConfined`: finitely many locations and members) and a bound that exceeds
  `MaxVisits`, the number of blocks, of locations in their entries and of members of those.  The invariant is `VisitsBringNews`:
  each visit was of a block not seen before or taught its entry something, and what is known only grows.

`WarningFilterProofs`, for every finite or infinite set of questions about graphs, from `QueriesAssumption` (successors are blocks
or pruned).  Being reachable is stated as being in every closed set, so no induction over paths is needed.

- `FilteredForAReason`, from `IInv`: the cause leads to all that is visited, and all that is marked leads to the fault.
- `NoFalseAlarms`, from `KInv`: the parents make up a tree rooted at the cause (`IsTree`), the successors of what is visited are
  visited but for what is left to do (`IsExplored`), and marking has gone up from the fault along parents meeting no cleaning
  block (`IsMarkedThrough`).  When the search ends with nothing found, the set of visited blocks is
  closed, or the marks have reached the cause (`CauseIsMarked`): either the fault cannot be reached or there is a way to it that sets nothing right.

`TypeCategoryProofs`, for every set of types, every program and every size of the stack, from `WorldsAssumption` (attributes name types, what a pointer, an
array or `begin()` is made from are types).

- `PointeesAreKnown`: no Owner or Pointer is without a pointee, in the cache or in an answer.  The invariant `IInv` says that the calls under
  way are well placed (what has bases or `begin()` is a class) and chained: a call that waits for the pointee of its type waits for
  nothing else, and then has it.  That is needed since a pointer or an array is classified without a look at its pointee; the table of pointees holds null only for
  scalars and classes, and of a class with a null pointee the code infers no category.

- `CategoriesAreCurrent`: where no class is spoken of before its definition (`NoneIsEarly`; otherwise it is false, see departure 6 of the first list)
  `AnswersAreCurrent` holds.  The rules, read as a recursive definition, have a solution since a class asks for classes of lower layers only; that is
  `RecursionHasSolution` of `Recursion`, where the recursion theorem for well founded orders is proved from scratch, since those of the library take
  operators as parameters.  The invariant `CInv` compares with that solution whatever is in the cache, has been answered, or is known to a call under
  way, which the calls it awaits form a chain with; only the table of pointees may differ, for a class whose pointee is
  being looked for, and in a layered program nobody asks for that one meanwhile.

`DriverProofs`, for every session of any number of units, from `SessionsAssumption`, whatever memory the units are given.

- `ContractsAreOwn` and `HierarchiesAgree`, from the invariant `IInv`: the cache holds for each function of this unit that is not `IsInherited` the contract of its root, with the
  parameters exchanged, and the root's own is there too; what has been handed out is still in the cache; the functions to be
  analysed and asked about have been declared.  A function's root is defined by recursion over what it overrides, declared earlier (`Recursion` again).  That a declaration
  asked about later has an address of its own is what the cache rests on.

`ExecutionProofs`, for every program and every transfer function.

- `EngineRunsAsSpecified`: the composition refines the engine, so all theorems of `LifetimeProofs` hold in it.
- `SoundBlocksDescribeExecutions` and `SoundBlocksReportFaults`: if `BlocksAreSound` holds throughout, then so do `PSetsDescribeExecutions` and
  `EveryFaultIsReported`, on plain graphs (`IsPlain`) and as long as the analysis has not given up.  The invariant `EInv` says that control is at a block that has
  been visited, that the psets there account for the store, and that what has gone wrong was reported; the step from block to block is
  `SteadyState`, proved of the engine: what a block hands on is taken in by the next.  Plain graphs have no `for` statements and no noop
  blocks, since there `SteadyState` promises nothing, and the departures show that nothing holds.  The hypothesis is not an assumption on C++
  programs but a property of the transfer function, which the run `functions` checks of the real one; all its programs are plain.  In `paths` it
  does not hold, although its conclusions do: with conditional operators a block is right only together with the psets of expressions its predecessors leave.

`TransferProofs`, for every program, pset and store, about the operators `BlocksAreSound` is made of: each goes with a
step of the execution, and takes psets that account for the store to such psets (`AccountsFor`).

- `AssignmentIsSound`: an assignment through an lvalue whose pset has the location assigned to, of a value its right-hand side describes.
- `ScopeEndIsSound`, `ScopeEndErases`: the end of the scope of a local; what pointed into it is known to dangle, it is gone from the map, and no pset
  without `Invalid` has it as a member.  The latter is the step behind `NothingOutlivesItsScope`.
- `OwnerInvalidationIsSound`: a local Owner that is used up, provided that it, its contents and its members hold no pointer.
- `ChecksAreSound`: a null or dangling pointer whose pset describes it is diagnosed.
- `SubstitutableIsCovered`: what passes the check against a contract is covered by it; the step behind `PostconditionsHold`.

Their hypotheses on the store (values are locations, pointers to locals stay inside them, Owners hold no pointers, no temporary is
in the store) hold in every state of `paths` and `functions`.  A pointer to a local is the case that matters: what is behind a parameter is
covered by `Global`, but it ends in no scope.

`PointerProofs`, and the end of `ExecutionProofs`, for every pointer program (`IsPointerProgram`) whose graph is plain, of any size, with any number of variables
and pointers of any depth: what `SoundBlocksDescribeExecutions` takes as a hypothesis holds, so nothing is left to assume of the transfer function.

- `BlockIsSound`: a visit of a block, from psets that account for the store, does to the psets what the block does to the store, on both sides of the
  condition it ends with, or the block faults where the visit reports.  The argument has two passes over the elements, each an induction along the block.
  In `BlockInv` the visit alone: the psets are of the function's own variables, each expression of the statement under way has a pset of its
  kind, and one that is no pointer remembers which variable it tests.  In `MachineInv` the visit beside the execution: the
  store is typed, what is in scope is in it, and the value of each expression is described by its pset.  There is one lemma per kind of node and pass (`VisitStar`
  and `RunStar`, and so on).  An expression is followed within its statement only (`IsFresh`): a declaration clears the psets of
  expressions (`LifetimePsetBuilder.cpp:1783`), and those from before the end of a scope may name what has been erased since.
- `PointerProgramsAreSound`, `PointerProgramsAreDescribed`, `PointerProgramsFaultWhereReported`: `BlocksAreSound`, `PSetsDescribeExecutions` and
  `EveryFaultIsReported`, unless the analysis has given up.  `AInv` is about the engine (the tables hold psets of the program's variables, and those of a visited block
  are the result of a visit whose diagnostics are among the reports), `PInv` about the execution (control on track, the store typed); they are inductive together with
  `SteadyState`.
- `PointerProgramsAreSafe`: with a limit above `MaxVisits` of the variables the analysis does not give up, so these hold without that condition,
  and so does the next.
- `PointerProgramsKeepToScope`: `NothingOutlivesItsScope`, for the programs that end their scopes (`EndsItsScopes`).  Again there are two passes.  Along a block
  (`IsTidy`) the map names only what is in scope after the element, a pset with `Invalid` apart, and so do the psets of the expressions under way; if
  nothing was told it has nothing else in its domain, for which no lvalue may have `Invalid` in its pset: a write through one is what departure 11 is about.  Between
  blocks (`SInv`) that holds of the psets on entry and exit of every block, with the scopes the graph gives to it (`Scopes`), and is kept by
  the merge of predecessors.  `PInv` then says that what is in scope is in the store.

Their hypotheses: `VisitBlock` is the real transfer function (`VisitsAreModelled`; `MCPaths.cfg` says so), null checks are on (`LifetimeNull`; without them
null dereferences are not reported, by intent), and the program is a pointer program with a plain graph.  `PointerProgramsAssumption` in `MCPaths`, which TLC evaluates, says that
there are such programs among those of the run `paths`, with if statements, with pointers to pointers, with scopes that end, where the paths meet too, and with while and do loops.

Only model-checked: termination of the engine, of the filter and of type classification (liveness is out of the prover's
reach); `CertainWithoutLoops`; and what goes beyond pointer programs: calls, contracts, Owners, aggregates, temporaries, && and ||
and conditional operators, whose operands wait in other blocks, so that no block is right by itself.  Hence `NothingOutlivesItsScope` beyond pointer programs, `LawfulCallsAreSilent`, `PostconditionsHold`,
`NothingDanglesOnReturn` and `MovedFromIsCertain` are checked and not proved: they are about calls and returns, where a block is followed through folds over the
pairs of arguments and parameters and over the locations of a contract (induction over data).  For `CertainWithoutLoops` there is a reason besides: it is false for
pointer programs in general (departure 3 of the second list), and what it says of the ones that end no scope needs that two nodes do not share a location.

## What is not modelled

- Printing, notes, source locations, the wording of messages, the command line and the finding of compile commands: input and output.
- The debug functions (`__lifetime_pset` and the like) and `Debug.cpp`: they print and change nothing.
- How Clang parses the text of an annotation; the annotations are given resolved to declarations, or unresolvable.
- `isIteratorOrContainer` and `isNullableType` are facts given by `TypeInfo`; the former's cache is keyed by the desugared type
  although the answer depends on the spelling, which is not modelled.
- `new`, `delete`, lambdas, structured bindings and pointers below an Owner deeper than `MaxOrderDepth`: the transfer function's
  treatment is modelled, but the executed programs do not use them, so no property says anything about them.
- Multiple inheritance of contracts (the code takes the first overridden method), exceptions and coroutines.
- Functions with erroneous expressions: they have no executions.
- The warning filter is not composed with the engine, since the only reporter of the repository turns it off (`AstConsumer.cpp:257`).
- C++ beyond pointers, references, members, Owners, temporaries, calls, aggregates and scopes in `Execution`.
