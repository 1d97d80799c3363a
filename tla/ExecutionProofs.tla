-------------------------- MODULE ExecutionProofs ---------------------------
(***************************************************************************)
(* The analysis of a function against its executions: if the blocks are    *)
(* sound, the psets describe every execution; and the blocks of a pointer  *)
(* program are sound, so for such a program nothing is assumed.            *)
(***************************************************************************)
EXTENDS Execution, LifetimeProofs, PointerProofs

(* The engine, run before the function is called, is the engine: whatever  *)
(* holds of traverseBlocks with an arbitrary transfer function holds in    *)
(* the composition with the real one.                                      *)
THEOREM EngineRunsAsSpecified == ExecutionSpec => Spec
<1>1. ExecutionInit => Init
  BY DEF ExecutionInit
<1>2. [ExecutionNext]_<<vars, execution>> => [Next]_vars
  BY DEF ExecutionNext, Analyse, Call, Run, Return, vars
<1> QED
  BY <1>1, <1>2, PTL DEF ExecutionSpec, Spec
-----------------------------------------------------------------------------
(* The graphs the theorems are about: a block ends in a jump or in a       *)
(* branch, and all edges are such that the engine promises to hand on      *)
(* every change along them.  For statements and blocks that keep the       *)
(* outcomes of a condition apart are left out: there the code departs from *)
(* what it promises.                                                       *)
IsPlain ==
  \A p \in F.blocks \ {F.exit} :
    /\ SuccSize(F, p) \in {1, 2}
    /\ SuccSize(F, p) = 2 => F.succs[p][1].to # F.succs[p][2].to
    /\ \A i \in DOMAIN F.succs[p] :
         LET b == F.succs[p][i].to
         IN  /\ F.succs[p][i].reachable
             /\ b # F.exit => Promised(p, b) /\ ~IsSplit(b)

(* The psets on entry to the block that is about to run account for the    *)
(* store, and what has gone wrong was reported.                            *)
IsOnTrack ==
  /\ pc \in visited \cup {NoBlock, F.entry, F.exit}
  /\ Arrived => AccountsFor(PSetsOnArrival, store)
  /\ EveryFaultIsReported

EInv ==
  /\ ~done => pc = NoBlock /\ outcome = "running"
  /\ IsPlain /\ ~Exhausted => IsOnTrack

(* Of an edge control takes, the engine takes in what the block hands on.  *)
LEMMA EdgeTaken ==
  ASSUME fn \in FunctionDecls, IsPlain, SteadyState, done, ~Exhausted,
         NEW p \in (visited \cup {F.entry}) \ {F.exit}, visited \subseteq F.blocks,
         NEW v, NextBlock(p, v) # F.exit
  PROVE  /\ NextBlock(p, v) \in visited
         /\ ~IsSplit(NextBlock(p, v))
         /\ Leq(HandedOn(p, v), entryPMap[NextBlock(p, v)])
<1> DEFINE i == IF SuccSize(F, p) = 2 /\ ~v THEN 2 ELSE 1
           b == NextBlock(p, v)
<1>1. p \in F.blocks \ {F.exit}
  BY EntryIsABlock
<1>2. i \in DOMAIN F.succs[p] /\ b = F.succs[p][i].to
  <2>1. F.succs[p] \in Seq([to : F.blocks, reachable : BOOLEAN])
    BY <1>1, LifetimeAssumption DEF IsCFG, F
  <2>2. Len(F.succs[p]) \in {1, 2}
    BY <1>1 DEF IsPlain, SuccSize
  <2>3. DOMAIN F.succs[p] = 1..Len(F.succs[p])
    BY <2>1
  <2> QED
    BY <2>2, <2>3 DEF NextBlock, SuccSize
<1>3. F.succs[p][i].reachable /\ Promised(p, b) /\ ~IsSplit(b)
  BY <1>1, <1>2 DEF IsPlain
<1>4. b \in ReachableSuccs(F, p)
  BY <1>2, <1>3 DEF ReachableSuccs
<1>5. UpToDate(p, b)
  BY <1>3, <1>4 DEF SteadyState
<1>6. HandedOn(p, v) = EdgePMap(p, b)
  <2>1. IsFalseEdge(F, p, b) <=> SuccSize(F, p) = 2 /\ ~v
    BY <1>1, <1>2, <1>3 DEF IsFalseEdge, IsPlain
  <2> QED
    BY <1>3, <2>1 DEF HandedOn, EdgePMap
<1> QED
  BY <1>3, <1>5, <1>6 DEF UpToDate

(* What a map accounts for, a map with more in it accounts for.            *)
LEMMA MoreAccountsForAsMuch ==
  ASSUME NEW m, NEW n, NEW st, Leq(m, n), AccountsFor(m, st) PROVE AccountsFor(n, st)
BY DEF Leq, AccountsFor, Describes

(* A block that runs leaves the execution on track.                        *)
LEMMA RunStaysOnTrack ==
  ASSUME TypeOK, SteadyState, BlocksAreSound, done, IsOnTrack, Run, IsPlain, ~Exhausted
  PROVE  IsOnTrack'
<1>1. done /\ IsOnTrack /\ UNCHANGED vars /\ outcome = "running"
  BY DEF Run
<1>2. pc \in (visited \cup {F.entry}) \ {NoBlock, F.exit}
  BY <1>1 DEF IsOnTrack, Run
<1>3. pc # F.entry => AccountsFor(PSetsOnArrival, store)
  BY <1>1, <1>2 DEF IsOnTrack, Arrived, TypeOK
<1>4. PICK m \in RunBlock(pc) :
        /\ store' = m.store
        /\ outcome' = m.outcome
        /\ at' = m.at
        /\ IF m.outcome # "running" THEN UNCHANGED <<pc, test>>
           ELSE \E v \in Decided(pc, m) : test' = v /\ pc' = NextBlock(pc, v)
  BY DEF Run
<1>5. IF m.outcome # "running" THEN m.outcome = "fault" => m.at \in DOMAIN reports
      ELSE \A v \in Decided(pc, m) :
             NextBlock(pc, v) # F.exit => AccountsFor(HandedOn(pc, v), m.store)
  BY <1>1, <1>2, <1>3 DEF BlocksAreSound
<1>6. F' = F /\ visited' = visited /\ reports' = reports /\ entryPMap' = entryPMap
  BY <1>1 DEF vars, F
<1>7. CASE m.outcome # "running"
  BY <1>1, <1>4, <1>5, <1>6, <1>7 DEF IsOnTrack, Arrived, EveryFaultIsReported
<1>8. CASE m.outcome = "running"
  <2>1. PICK v \in Decided(pc, m) : pc' = NextBlock(pc, v)
    BY <1>4, <1>8
  <2>2. CASE pc' = F.exit
    BY <1>4, <1>6, <1>8, <2>2 DEF IsOnTrack, Arrived, EveryFaultIsReported
  <2>3. CASE pc' # F.exit
    <3>1. AccountsFor(HandedOn(pc, v), store')
      BY <1>4, <1>5, <1>8, <2>1, <2>3
    <3>2. pc' \in visited /\ ~IsSplit(pc') /\ Leq(HandedOn(pc, v), entryPMap[pc'])
      BY <1>1, <1>2, <2>1, <2>3, EdgeTaken DEF TypeOK
    <3>3. AccountsFor(entryPMap[pc'], store')
      BY <3>1, <3>2, MoreAccountsForAsMuch
    <3>4. PSetsOnArrival' = entryPMap[pc']
      BY <1>6, <3>2 DEF PSetsOnArrival, IsSplit
    <3>5. AccountsFor(PSetsOnArrival, store)'
      BY <3>3, <3>4 DEF AccountsFor
    <3> QED
      BY <1>4, <1>6, <1>8, <3>2, <3>5 DEF IsOnTrack, EveryFaultIsReported
  <2> QED
    BY <2>2, <2>3
<1> QED
  BY <1>7, <1>8

(* The invariant holds before the analysis, and every step preserves it.   *)
LEMMA InitEInv == ASSUME ExecutionInit PROVE EInv
BY NoBlockAssumption DEF ExecutionInit, EInv, IsOnTrack, Arrived, EveryFaultIsReported, Init, F

LEMMA StepEInv ==
  ASSUME TypeOK, SteadyState, BlocksAreSound, EInv, [ExecutionNext]_<<vars, execution>>
  PROVE  EInv'
<1>1. CASE Analyse
  <2>1. pc' = NoBlock /\ outcome' = "running" /\ Next
    BY <1>1 DEF Analyse, EInv, execution
  <2>2. fn' \in FunctionDecls
    BY <2>1, SameGraph DEF TypeOK
  <2>3. NoBlock \notin F'.blocks
    BY <2>2, NoBlockAssumption DEF F
  <2> QED
    BY <2>1, <2>3 DEF EInv, IsOnTrack, Arrived, EveryFaultIsReported
<1>2. ASSUME UNCHANGED vars
      PROVE  /\ done' = done
             /\ F' = F
             /\ IsPlain' = IsPlain
             /\ Exhausted' = Exhausted
             /\ (visited \cup {NoBlock, F.entry, F.exit})' = visited \cup {NoBlock, F.entry, F.exit}
  BY <1>2 DEF vars, F, IsPlain, Promised, IsSplit, Exhausted, WithinLimit
<1>3. CASE Call
  <2>1. UNCHANGED vars /\ done /\ pc' = F.entry /\ outcome' = outcome /\ at' = at
    BY <1>3 DEF Call
  <2>2. reports' = reports
    BY <2>1 DEF vars
  <2> QED
    BY <1>2, <2>1, <2>2 DEF EInv, IsOnTrack, Arrived, EveryFaultIsReported
<1>4. CASE Run
  <2>1. UNCHANGED vars /\ done
    BY <1>4 DEF Run, EInv
  <2> QED
    BY <1>2, <1>4, <2>1, RunStaysOnTrack DEF EInv
<1>5. CASE UNCHANGED <<vars, execution>>
  BY <1>2, <1>5 DEF EInv, IsOnTrack, Arrived, EveryFaultIsReported, AccountsFor, PSetsOnArrival,
                    IsSplit, vars, execution, F
<1> QED
  BY <1>1, <1>3, <1>4, <1>5 DEF ExecutionNext, Return

LEMMA AlwaysOnTrack == ExecutionSpec /\ []BlocksAreSound => []EInv
<1>1. ExecutionSpec => []TypeOK /\ []SteadyState
  BY EngineRunsAsSpecified, Typing, StopsInSteadyState, PTL
<1> QED
  BY <1>1, InitEInv, StepEInv, PTL DEF ExecutionSpec

(* The psets on entry to a block describe every execution that gets there, *)
(* in every program without for statements and noop blocks, if only the    *)
(* transfer function is right about one block at a time.                   *)
THEOREM SoundBlocksDescribeExecutions ==
  ExecutionSpec /\ []BlocksAreSound => [](IsPlain /\ ~Exhausted => PSetsDescribeExecutions)
<1>1. EInv => (IsPlain /\ ~Exhausted => PSetsDescribeExecutions)
  BY DEF EInv, IsOnTrack, PSetsDescribeExecutions
<1> QED
  BY <1>1, AlwaysOnTrack, PTL

(* No execution of such a program meets a fault that is not reported.      *)
THEOREM SoundBlocksReportFaults ==
  ExecutionSpec /\ []BlocksAreSound => [](IsPlain /\ ~Exhausted => EveryFaultIsReported)
<1>1. EInv => (IsPlain /\ ~Exhausted => EveryFaultIsReported)
  BY DEF EInv, IsOnTrack
<1> QED
  BY <1>1, AlwaysOnTrack, PTL

-----------------------------------------------------------------------------
(* The engine analyses a pointer program.                                  *)

(* Nothing that is told of a pointer is kept from the user. *)
LEMMA TellingIsReporting ==
  ASSUME LifetimeNull, NEW start, NEW suppressed, suppressed = {}, NEW diags, IsLog(diags)
  PROVE  DOMAIN start \cup Told(diags) \subseteq DOMAIN ReportAll(start, suppressed, diags)
<1> DEFINE n == Len(diags)
           Before(i) == {diags[j].loc : j \in {k \in 1..i : diags[k].kind \in Misuses}}
<1>1. n \in Nat /\ DOMAIN diags = 1..n
  BY DEF IsLog
<1>2. PICK r : Reports(start, suppressed, diags, r)
  BY <1>1, ReportsInOrder
<1> DEFINE T == {i \in 0..n : DOMAIN start \cup Before(i) \subseteq DOMAIN r[i]}
<1>3. 0 \in T
  BY <1>1, <1>2 DEF Reports
<1>4. ASSUME NEW i \in 0..(n - 1), i \in T PROVE i + 1 \in T
  <2> DEFINE d == diags[i + 1]
  <2>1. r[i + 1] = Report(r[i], suppressed, d)
    BY <1>2 DEF Reports
  <2>2. DOMAIN r[i] \subseteq DOMAIN Report(r[i], suppressed, d)
    BY DEF Report
  <2>3. d.kind \in Misuses => d.loc \in DOMAIN Report(r[i], suppressed, d)
    BY DEF Report, IsSuppressed, IsNullSuppressed, IsDisabled, Misuses
  <2>4. Before(i + 1) \subseteq Before(i) \cup (IF d.kind \in Misuses THEN {d.loc} ELSE {})
    <3>1. \A k \in 1..(i + 1) : k \in 1..i \/ k = i + 1
      OBVIOUS
    <3> QED
      BY <3>1
  <2>5. DOMAIN start \cup Before(i) \subseteq DOMAIN r[i] /\ i + 1 \in 0..n
    BY <1>1, <1>4
  <2> HIDE DEF Before, d
  <2> QED
    BY <2>1, <2>2, <2>3, <2>4, <2>5
<1> HIDE DEF T
<1>5. 0..n \subseteq T
  BY <1>1, <1>3, <1>4, UpTo
<1>6. n \in T
  BY <1>1, <1>5
<1>7. Told(diags) \subseteq Before(n)
  BY <1>1 DEF Told
<1> QED
  BY <1>2, <1>6, <1>7 DEF T, Reports

(* Merging keeps to the locals of the program. *)
LEMMA MergeTyped ==
  ASSUME NEW f, NEW maps, maps \subseteq PMapsOf(f) PROVE Merge(maps) \in PMapsOf(f)
<1> DEFINE q == Merge(maps)
<1>1. \A p \in maps : DOMAIN p \subseteq Names(f) /\ \A v \in DOMAIN p : p[v] \in PSets(f)
  BY PMap
<1>2. DOMAIN q = UNION {DOMAIN p : p \in maps}
  BY DEF Merge
<1>3. \A v \in DOMAIN q : q[v] = UNION {p[v] : p \in {o \in maps : v \in DOMAIN o}}
  BY DEF Merge
<1>4. q = [v \in DOMAIN q |-> q[v]]
  BY DEF Merge
<1> HIDE DEF q
<1>5. DOMAIN q \subseteq Names(f)
  BY <1>1, <1>2
<1>6. \A v \in DOMAIN q : q[v] \in PSets(f)
  BY <1>1, <1>3 DEF PSets
<1>7. q \in PMapsOf(f)
  BY <1>4, <1>5, <1>6, PMap
<1> QED
  BY <1>7 DEF q

(* A function without parameters starts with no psets at all. *)
LEMMA InitialTyped ==
  ASSUME NEW f, IsAnalysed(f)
  PROVE  /\ InitialPMap(f) \in PMapsOf(f) /\ DOMAIN InitialPMap(f) = {}
         /\ EmptyPMap \in PMapsOf(f) /\ DOMAIN EmptyPMap = {}
<1>1. f.params = {} /\ f.members = {} /\ DOMAIN f.pre = {}
  BY DEF IsAnalysed, IsPointerProgram
<1>2. DOMAIN EntryPsetsForMembers(f) = {} /\ DOMAIN ValueParameters(f) = {}
  BY <1>1 DEF EntryPsetsForMembers, ValueParameters
<1>3. DOMAIN EntryContracts(f) = {}
  BY <1>1 DEF EntryContracts
<1>4. DOMAIN ExcuseOutputs(f, EntryContracts(f)) = {}
  BY <1>3 DEF ExcuseOutputs
<1> DEFINE p == InitialPMap(f)
<1>5. DOMAIN p = {} /\ p = [v \in DOMAIN p |-> p[v]]
  BY <1>2, <1>4 DEF InitialPMap, Over
<1> HIDE DEF p
<1>6. p \in PMapsOf(f)
  BY <1>5, PMap
<1>7. EmptyPMap \in PMapsOf(f) /\ DOMAIN EmptyPMap = {}
  <2> DEFINE none == EmptyPMap
  <2>1. none \in Seq({})
    BY DEF EmptyPMap
  <2>2. Len(none) = 0
    BY DEF EmptyPMap
  <2> HIDE DEF none
  <2>3. DOMAIN none = {} /\ none = [v \in DOMAIN none |-> none[v]]
    BY <2>1, <2>2
  <2>4. none \in PMapsOf(f)
    BY <2>3, PMap
  <2> QED
    BY <2>3, <2>4 DEF none
<1> QED
  BY <1>5, <1>6, <1>7 DEF p

(* The transfer function of the engine is the modelled one.                *)
VisitsAreModelled == \A f, b, p, fe, x : VisitBlock(f, b, p, fe, x) = VisitBlockOf(f, b, p, fe, x)

(* The tables of block b hold psets of locals, and the outcomes are told   *)
(* apart only where a pointer is tested.                                   *)
IsTyped(b) ==
  /\ entryPMap[b] \in PMapsOf(F) /\ exitPMap[b] \in PMapsOf(F)
  /\ falseExit[b] = NoPMap \/ (Splits(F, b) /\ falseExit[b] \in PMapsOf(F))

(* They are what its last visit made of its entry, and what that told is   *)
(* reported.                                                               *)
IsSettled(b) ==
  \E fe, seen : \E v \in {VisitBlockOf(F, b, entryPMap[b], fe, seen)} :
    /\ exitPMap[b] = v.pmap /\ falseExit[b] = v.falseExit
    /\ Told(v.diags) \subseteq DOMAIN reports

AInv ==
  IsPointerProgram(F) /\ IsPlain =>
    /\ \A b \in F.blocks : IsTyped(b)
    /\ \A b \in visited : IsSettled(b)

(* On entry to a visit nothing is left to split: a block that branches is  *)
(* on a condition of its own (isNoopBlock).                                *)
LEMMA NothingIsSplit ==
  ASSUME IsPointerProgram(F), NEW b \in F.blocks
  PROVE  ~IsSplit(b) /\ ~PropagateFalseSet(b) /\ ComputedFalseExit(b) = falseExit[b]
<1>1. SuccSize(F, b) = 2 => ~IsNoopBlock(F, b)
  BY DEF IsPointerProgram
<1> QED
  BY <1>1 DEF IsSplit, PropagateFalseSet, ComputedFalseExit

(* The psets on entry to a block, merged from its predecessors, are typed. *)
LEMMA EntryTyped ==
  ASSUME IsPointerProgram(F), \A b \in F.blocks : IsTyped(b), NEW b \in F.blocks
  PROVE  ComputedEntry(b) \in PMapsOf(F)
<1>1. ASSUME NEW p \in ReachablePreds(b) PROVE EdgePMap(p, b) \in PMapsOf(F)
  <2>1. p \in F.blocks
    BY DEF ReachablePreds, Preds
  <2> QED
    BY <2>1 DEF EdgePMap, IsTyped
<1> DEFINE maps == {entryPMap[b]} \cup {EdgePMap(p, b) : p \in ReachablePreds(b)}
<1>2. ComputedEntry(b) = Merge(maps)
  BY NothingIsSplit DEF ComputedEntry
<1>3. maps \subseteq PMapsOf(F)
  BY <1>1 DEF IsTyped
<1> HIDE DEF maps
<1> QED
  BY <1>2, <1>3, MergeTyped

(* The tables are typed and settled at first, when nothing was visited.    *)
LEMMA InitAInv == ASSUME Init PROVE AInv
<1> SUFFICES ASSUME IsPointerProgram(F)
             PROVE  /\ \A b \in F.blocks : IsTyped(b)
                    /\ \A b \in visited : IsSettled(b)
  BY DEF AInv
<1>1. IsAnalysed(F)
  BY DEF IsAnalysed, Init, F
<1> QED
  BY <1>1, InitialTyped DEF Init, IsTyped

(* A visit leaves the tables typed and settled.                            *)
LEMMA VisitAInv ==
  ASSUME VisitsAreModelled, LifetimeNull, TypeOK, IsPointerProgram(F), IsPlain, AInv,
         NEW b \in F.blocks, Visit(b)
  PROVE  AInv'
<1>1. F' = F
  BY DEF Visit, F
<1>2. IsAnalysed(F) /\ b # F.exit
  BY DEF IsAnalysed, TypeOK, F, Visit
<1>3. (\A c \in F.blocks : IsTyped(c)) /\ (\A c \in visited : IsSettled(c))
  BY DEF AInv
<1> DEFINE entry == ComputedEntry(b)
           fe == falseExit[b]
           v == VisitBlockOf(F, b, entry, fe, exprs)
<1>4. /\ entryPMap' = [entryPMap EXCEPT ![b] = entry]
      /\ exitPMap' = [exitPMap EXCEPT ![b] = v.pmap]
      /\ falseExit' = [falseExit EXCEPT ![b] = v.falseExit]
      /\ reports' = ReportAll(reports, F.suppressed, v.diags)
      /\ visited' = visited \cup {b}
  BY NothingIsSplit DEF Visit, VisitsAreModelled
<1>5. entry \in PMapsOf(F) /\ SuccSize(F, b) \in {1, 2}
  BY <1>2, <1>3, EntryTyped DEF IsPlain
<1> HIDE DEF entry, fe
<1>6. /\ v.pmap \in PMapsOf(F) /\ IsLog(v.diags)
      /\ v.falseExit = fe \/ Splits(F, b)
      /\ Splits(F, b) => v.falseExit \in PMapsOf(F)
  BY <1>2, <1>5, VisitTyped
<1>7. DOMAIN reports \cup Told(v.diags) \subseteq DOMAIN reports'
  <2>1. F.suppressed = {}
    BY DEF IsPointerProgram
  <2> HIDE DEF v
  <2> QED
    BY <1>4, <1>6, <2>1, TellingIsReporting
<1> HIDE DEF v
<1>8. /\ entryPMap'[b] = entry /\ exitPMap'[b] = v.pmap /\ falseExit'[b] = v.falseExit
      /\ \A c \in F.blocks \ {b} : /\ entryPMap'[c] = entryPMap[c] /\ exitPMap'[c] = exitPMap[c]
                                   /\ falseExit'[c] = falseExit[c]
  BY <1>4 DEF TypeOK
<1>9. ASSUME NEW c \in F.blocks PROVE IsTyped(c)'
  <2>1. CASE c = b
    <3>1. fe = NoPMap \/ Splits(F, b)
      BY <1>3 DEF IsTyped, fe
    <3> QED
      BY <1>1, <1>5, <1>6, <1>8, <2>1, <3>1 DEF IsTyped
  <2>2. CASE c # b
    BY <1>1, <1>3, <1>8, <2>2 DEF IsTyped
  <2> QED
    BY <2>1, <2>2
<1>10. ASSUME NEW c \in visited' PROVE IsSettled(c)'
  <2>1. CASE c = b
    <3>1. v = VisitBlockOf(F, b, entry, fe, exprs)
      BY DEF v
    <3> QED
      BY <1>1, <1>7, <1>8, <2>1, <3>1 DEF IsSettled
  <2>2. CASE c # b
    <3>1. c \in visited /\ c \in F.blocks \ {b}
      BY <1>4, <2>2, <1>10 DEF TypeOK
    <3>2. DOMAIN reports \subseteq DOMAIN reports'
      BY <1>7
    <3> QED
      BY <1>1, <1>3, <1>8, <3>1, <3>2 DEF IsSettled
  <2> QED
    BY <2>1, <2>2
<1> QED
  BY <1>1, <1>9, <1>10 DEF AInv

(* Every step of the engine does.                                          *)
LEMMA StepAInv ==
  ASSUME VisitsAreModelled, LifetimeNull, TypeOK, AInv, [Next]_vars PROVE AInv'
<1>1. F' = F /\ IsPlain' = IsPlain
  BY SameGraph DEF IsPlain, Promised, IsSplit
<1> SUFFICES ASSUME IsPointerProgram(F), IsPlain PROVE AInv'
  BY <1>1 DEF AInv
<1>2. (\A c \in F.blocks : IsTyped(c)) /\ (\A c \in visited : IsSettled(c))
  BY DEF AInv
<1>3. ASSUME UNCHANGED <<visited, entryPMap, exitPMap, falseExit, reports>> PROVE AInv'
  BY <1>1, <1>2, <1>3 DEF AInv, IsTyped, IsSettled
<1>4. ASSUME NEW b \in F.blocks, SkipUnchanged(b) PROVE AInv'
  <2>1. falseExit' = falseExit
    BY <1>4, NothingIsSplit DEF SkipUnchanged, TypeOK
  <2> QED
    BY <1>3, <1>4, <2>1 DEF SkipUnchanged
<1>5. ASSUME NEW b \in F.blocks, Visit(b) PROVE AInv'
  BY <1>5, VisitAInv
<1>6. ASSUME NEW b \in F.blocks, SkipExit(b) \/ GiveUp(b) PROVE AInv'
  BY <1>3, <1>6 DEF SkipExit, GiveUp
<1>7. CASE Finish \/ Terminated \/ UNCHANGED vars
  BY <1>3, <1>7 DEF Finish, Terminated, vars
<1> QED
  BY <1>4, <1>5, <1>6, <1>7 DEF Next

-----------------------------------------------------------------------------
(* A pointer program runs.                                                 *)

(* Every object in scope on entry to the block that is about to run is in  *)
(* the store, and holds what its type allows.                              *)
StoreIsTyped ==
  /\ pc = F.entry => store = <<>>
  /\ Arrived => /\ IsTypedStore(F, store)
                /\ \A d \in Scopes(F)[pc] : Var(d) \in DOMAIN store

PInv ==
  /\ ~done => pc = NoBlock /\ outcome = "running"
  /\ IsPointerProgram(F) /\ IsPlain /\ ~Exhausted => IsOnTrack /\ StoreIsTyped

(* There is nothing to pass to a function without parameters. *)
LEMMA NoArguments == ASSUME IsAnalysed(F) PROVE Arguments = {<<>>}
<1> DEFINE promised == Over(EntryPsetsForMembers(F), EntryContracts(F))
           pointers == {v \in DOMAIN promised : IsPointerCategory(GetType(v))}
           objects == DOMAIN promised \cup DOMAIN ValueParameters(F)
                        \cup UNION {VarsOf(promised[v]) : v \in pointers}
           First(v) == IF v \in pointers THEN promised[v] ELSE {Opaque}
           Extend(v, stores) == {Put(s, v, o) : s \in stores, o \in First(v)}
           Step(it, s) == IF s = {} THEN {<<>>}
                          ELSE LET x == CHOOSE y \in s : TRUE IN Extend(x, it[s \ {x}])
           Right(it) == it = [s \in SUBSET objects |-> Step(it, s)]
           iter == CHOOSE it : Right(it)
<1>1. F.params = {} /\ F.members = {} /\ DOMAIN F.pre = {}
  BY DEF IsAnalysed, IsPointerProgram
<1>2. DOMAIN promised = {}
  BY <1>1 DEF Over, EntryPsetsForMembers, EntryContracts
<1>3. objects = {}
  BY <1>1, <1>2 DEF ValueParameters
<1>4. Arguments = iter[objects]
  BY DEF Arguments, FoldSet, MapThenFoldSet
<1>5. \E it : Right(it)
  <2> DEFINE it == [s \in SUBSET objects |-> {<<>>}]
  <2>1. \A s \in SUBSET objects : s = {}
    BY <1>3
  <2> HIDE DEF objects
  <2>2. Right(it)
    BY <2>1
  <2> HIDE DEF Right, it
  <2> QED
    BY <2>2
<1>6. Right(iter)
  <2> HIDE DEF Right
  <2> QED
    BY <1>5
<1> HIDE DEF iter, objects
<1>7. iter[{}] = {<<>>}
  <2>1. {} \in SUBSET objects
    OBVIOUS
  <2> QED
    BY <1>6, <2>1
<1> QED
  BY <1>3, <1>4, <1>7

(* The entry block is empty: it runs without doing anything. *)
LEMMA EntryRuns ==
  ASSUME IsAnalysed(F) PROVE RunBlock(F.entry) = {StartOfBlock} /\ ScopeAfter(F, F.entry, {}) = {}
<1>1. F.elems[F.entry] = <<>>
  BY DEF IsAnalysed, IsPointerProgram
<1>2. Len(F.elems[F.entry]) = 0 /\ DOMAIN F.elems[F.entry] = 1..0
  BY <1>1
<1>3. PICK r : Runs(F.entry, r)
  BY <1>2, RunsInOrder
<1>4. ScopeAt(F, F.elems[F.entry], 0, {}) = {}
  BY DEF ScopeAt
<1> QED
  BY <1>2, <1>3, <1>4 DEF Runs, ScopeAfter

(* The next block, and the edge to it. *)
LEMMA NextOfBlock ==
  ASSUME IsAnalysed(F), IsPlain, NEW p \in F.blocks \ {F.exit}, NEW v
  PROVE  NextBlock(p, v) \in ReachableSuccs(F, p)
<1> DEFINE i == IF SuccSize(F, p) = 2 /\ ~v THEN 2 ELSE 1
           edges == F.succs[p]
<1>1. edges \in Seq([to : F.blocks, reachable : BOOLEAN])
  BY LifetimeAssumption DEF IsAnalysed, IsCFG
<1>2. Len(edges) \in {1, 2} /\ DOMAIN edges = 1..Len(edges)
  BY <1>1 DEF IsPlain, SuccSize
<1>3. i \in DOMAIN edges /\ NextBlock(p, v) = edges[i].to
  BY <1>2 DEF NextBlock, SuccSize
<1>4. edges[i].reachable
  BY <1>3 DEF IsPlain
<1> QED
  BY <1>3, <1>4 DEF ReachableSuccs

(* What the block that is about to run starts from. *)
LEMMA BlockStarts ==
  ASSUME IsAnalysed(F), IsPlain, AInv, StoreIsTyped, TypeOK,
         pc \in visited \ {F.entry}, outcome = "running", AccountsFor(PSetsOnArrival, store)
  PROVE  /\ pc \in F.blocks \ {F.exit} /\ SuccSize(F, pc) \in {1, 2}
         /\ entryPMap[pc] \in PMapsOf(F)
         /\ StartsBlock(F, pc, Scopes(F)[pc], entryPMap[pc], store)
<1>1. IsPointerProgram(F)
  BY DEF IsAnalysed
<1>2. pc \in F.blocks \ {F.exit} /\ SuccSize(F, pc) \in {1, 2}
  BY DEF TypeOK, IsPlain
<1>3. PSetsOnArrival = entryPMap[pc]
  BY <1>1, <1>2, NothingIsSplit DEF PSetsOnArrival
<1>4. entryPMap[pc] \in PMapsOf(F)
  BY <1>1, <1>2 DEF AInv, IsTyped
<1>5. IsTypedStore(F, store) /\ \A d \in Scopes(F)[pc] : Var(d) \in DOMAIN store
  BY <1>2 DEF StoreIsTyped, Arrived
<1>6. \A i \in 1..Len(F.elems[pc]) :
        F.nodes[F.elems[pc][i]].k = "DeclRefExpr" =>
          F.nodes[F.elems[pc][i]].var.base \in ScopeAt(F, F.elems[pc], i - 1, Scopes(F)[pc])
  BY <1>1, <1>2 DEF IsPointerProgram, IsWellScoped
<1> QED
  BY <1>2, <1>3, <1>4, <1>5, <1>6 DEF StartsBlock

(* It runs as its last visit says. *)
LEMMA VisitedBlockRuns ==
  ASSUME VisitsAreModelled, LifetimeNull, IsAnalysed(F), IsPlain, AInv, StoreIsTyped, TypeOK,
         pc \in visited \ {F.entry}, outcome = "running", AccountsFor(PSetsOnArrival, store),
         NEW m \in RunBlock(pc)
  PROVE  IF m.outcome = "running"
         THEN /\ IsTypedStore(F, m.store)
              /\ \A d \in ScopeAfter(F, pc, Scopes(F)[pc]) : Var(d) \in DOMAIN m.store
              /\ \A v \in Decided(pc, m) : AccountsFor(HandedOn(pc, v), m.store)
         ELSE m.outcome = "fault" => m.at \in DOMAIN reports
<1>1. IsPointerProgram(F)
  BY DEF IsAnalysed
<1>2. /\ pc \in F.blocks \ {F.exit} /\ SuccSize(F, pc) \in {1, 2}
      /\ entryPMap[pc] \in PMapsOf(F)
      /\ StartsBlock(F, pc, Scopes(F)[pc], entryPMap[pc], store)
  BY BlockStarts
<1>3. IsSettled(pc) /\ IsTyped(pc)
  BY <1>1, <1>2 DEF AInv
<1>4. PICK fe, seen : \E v \in {VisitBlockOf(F, pc, entryPMap[pc], fe, seen)} :
        /\ exitPMap[pc] = v.pmap /\ falseExit[pc] = v.falseExit
        /\ Told(v.diags) \subseteq DOMAIN reports
  BY <1>3 DEF IsSettled
<1> DEFINE v == VisitBlockOf(F, pc, entryPMap[pc], fe, seen)
<1>5. exitPMap[pc] = v.pmap /\ falseExit[pc] = v.falseExit /\ Told(v.diags) \subseteq DOMAIN reports
  BY <1>4
<1>6. Splits(F, pc) => falseExit[pc] \in PMapsOf(F)
  <2> HIDE DEF v
  <2>1. v = VisitBlockOf(F, pc, entryPMap[pc], fe, seen)
    BY DEF v
  <2> QED
    BY <1>2, <1>5, <2>1, VisitTyped
<1>7. falseExit[pc] # NoPMap <=> Splits(F, pc)
  <2>1. ASSUME NEW p \in PMapsOf(F) PROVE p # NoPMap
    <3>1. PICK vs \in SUBSET Names(F) : p \in [vs -> PSets(F)]
      BY DEF PMapsOf
    <3> QED
      BY <1>1, <3>1, MarkersAssumption DEF TypeOK, F
  <2> QED
    BY <1>3, <1>6, <2>1 DEF IsTyped
<1>8. IF m.outcome = "running"
      THEN /\ IsTypedStore(F, m.store)
           /\ \A d \in ScopeAfter(F, pc, Scopes(F)[pc]) : Var(d) \in DOMAIN m.store
           /\ \A x \in Decided(pc, m) :
                AccountsFor(IF Splits(F, pc) /\ ~x THEN v.falseExit ELSE v.pmap, m.store)
      ELSE m.outcome = "fault" => m.at \in DOMAIN reports
  <2> HIDE DEF v
  <2>1. v = VisitBlockOf(F, pc, entryPMap[pc], fe, seen) /\ F = F
    BY DEF v
  <2> QED
    BY <1>2, <1>5, <2>1, BlockIsSound
<1> HIDE DEF v
<1>9. ASSUME NEW x
      PROVE  HandedOn(pc, x) = IF Splits(F, pc) /\ ~x THEN v.falseExit ELSE v.pmap
  <2>1. Splits(F, pc) => SuccSize(F, pc) = 2
    BY DEF Splits
  <2> QED
    BY <1>5, <1>7, <2>1 DEF HandedOn
<1> QED
  BY <1>8, <1>9

(* While control is on track and the store typed, each block does to the   *)
(* psets what it does to the store.                                        *)
LEMMA PointerBlocksAreSound ==
  ASSUME VisitsAreModelled, LifetimeNull, TypeOK, AInv, PInv,
         IsPointerProgram(F), IsPlain, ~Exhausted
  PROVE  BlocksAreSound
<1>1. IsAnalysed(F)
  BY DEF IsAnalysed, TypeOK, F
<1> SUFFICES ASSUME done, outcome = "running", pc \notin {NoBlock, F.exit},
                    pc # F.entry => AccountsFor(PSetsOnArrival, store),
                    NEW m \in RunBlock(pc)
             PROVE  IF m.outcome # "running" THEN m.outcome = "fault" => m.at \in DOMAIN reports
                    ELSE \A v \in Decided(pc, m) :
                           NextBlock(pc, v) # F.exit => AccountsFor(HandedOn(pc, v), m.store)
  BY DEF BlocksAreSound
<1>2. IsOnTrack /\ StoreIsTyped
  BY DEF PInv
<1>3. CASE pc = F.entry
  <2>1. m = StartOfBlock
    BY <1>1, <1>3, EntryRuns
  <2>2. m.outcome = "running" /\ m.store = <<>>
    BY <1>2, <1>3, <2>1 DEF StartOfBlock, StoreIsTyped
  <2>3. DOMAIN m.store = {}
    BY <2>2
  <2> QED
    BY <2>2, <2>3 DEF AccountsFor
<1>4. CASE pc # F.entry
  <2>1. pc \in visited \ {F.entry}
    BY <1>2, <1>4 DEF IsOnTrack
  <2> QED
    BY <1>1, <1>2, <1>4, <2>1, VisitedBlockRuns
<1> QED
  BY <1>3, <1>4

(* The run of a block leaves a typed store to the block it goes on to.     *)
LEMMA RunKeepsStoreTyped ==
  ASSUME VisitsAreModelled, LifetimeNull, TypeOK, AInv, done, IsOnTrack, StoreIsTyped,
         IsPointerProgram(F), IsPlain, Run
  PROVE  StoreIsTyped'
<1>1. IsAnalysed(F)
  BY DEF IsAnalysed, TypeOK, F
<1>2. UNCHANGED vars /\ F' = F /\ outcome = "running" /\ pc \notin {NoBlock, F.exit}
  BY DEF Run, vars, F
<1>3. PICK m \in RunBlock(pc) :
        /\ store' = m.store
        /\ outcome' = m.outcome
        /\ IF m.outcome # "running" THEN pc' = pc
           ELSE \E v \in Decided(pc, m) : pc' = NextBlock(pc, v)
  BY DEF Run
<1>4. pc \in F.blocks \ {F.exit} /\ (pc # F.entry => pc \in visited \ {F.entry})
  BY <1>1, <1>2, EntryIsABlock DEF IsOnTrack, TypeOK
<1>5. pc # F.entry => Arrived /\ AccountsFor(PSetsOnArrival, store)
  BY <1>2, <1>4 DEF IsOnTrack, Arrived
<1>6. IF m.outcome = "running"
      THEN IsTypedStore(F, m.store) /\ \A d \in ScopeAfter(F, pc, Scopes(F)[pc]) : Var(d) \in DOMAIN m.store
      ELSE pc # F.entry
  <2>1. CASE pc = F.entry
    <3>1. m = StartOfBlock
      BY <1>1, <1>3, <2>1, EntryRuns
    <3>2. m.outcome = "running" /\ m.store = <<>>
      BY <2>1, <3>1 DEF StartOfBlock, StoreIsTyped
    <3>3. Scopes(F)[F.entry] = {}
      BY DEF IsPointerProgram, IsWellScoped
    <3>4. ScopeAfter(F, pc, Scopes(F)[pc]) = {}
      BY <1>1, <2>1, <3>3, EntryRuns
    <3>5. IsTypedStore(F, <<>>)
      <4> DEFINE none == <<>>
      <4>1. none \in Seq({}) /\ Len(none) = 0
        OBVIOUS
      <4> HIDE DEF none
      <4>2. DOMAIN none = {} /\ none = [v \in DOMAIN none |-> none[v]]
        BY <4>1
      <4>3. IsTypedStore(F, none)
        BY <4>2 DEF IsTypedStore
      <4> QED
        BY <4>3 DEF none
    <3> QED
      BY <3>2, <3>4, <3>5
  <2>2. CASE pc # F.entry
    BY <1>1, <1>2, <1>4, <1>5, <2>2, VisitedBlockRuns
  <2> QED
    BY <2>1, <2>2
<1>7. CASE m.outcome # "running"
  BY <1>2, <1>3, <1>6, <1>7 DEF StoreIsTyped, Arrived
<1>8. CASE m.outcome = "running"
  <2>1. PICK v \in Decided(pc, m) : pc' = NextBlock(pc, v)
    BY <1>3, <1>8
  <2>2. pc' \in ReachableSuccs(F, pc)
    BY <1>1, <1>4, <2>1, NextOfBlock
  <2>3. pc' # F.entry
    BY <1>4, <2>2 DEF IsPointerProgram
  <2>4. CASE pc' = F.exit
    BY <1>2, <2>3, <2>4 DEF StoreIsTyped, Arrived
  <2>5. CASE pc' # F.exit
    <3>1. Scopes(F)[pc'] \subseteq ScopeAfter(F, pc, Scopes(F)[pc])
      BY <1>4, <2>2, <2>5 DEF IsPointerProgram, IsWellScoped
    <3>2. IsTypedStore(F, store') /\ \A d \in Scopes(F)[pc'] : Var(d) \in DOMAIN store'
      BY <1>3, <1>6, <1>8, <3>1
    <3> QED
      BY <1>2, <2>3, <3>2 DEF StoreIsTyped
  <2> QED
    BY <2>4, <2>5
<1> QED
  BY <1>7, <1>8

(* The function has not been called yet, so nothing is in the store.       *)
LEMMA InitPInv == ASSUME ExecutionInit PROVE PInv
<1>1. pc = NoBlock /\ NoBlock \notin F.blocks /\ outcome = "running"
  BY NoBlockAssumption DEF ExecutionInit, Init, F
<1>2. F.entry \in F.blocks
  BY EntryIsABlock DEF ExecutionInit, Init
<1> QED
  BY <1>1, <1>2 DEF ExecutionInit, PInv, IsOnTrack, StoreIsTyped, Arrived, EveryFaultIsReported

(* Every step of the engine and of the execution keeps control on track    *)
(* and the store typed.                                                    *)
LEMMA StepPInv ==
  ASSUME VisitsAreModelled, LifetimeNull, TypeOK, SteadyState, AInv, PInv,
         [ExecutionNext]_<<vars, execution>>
  PROVE  PInv'
<1>1. CASE Analyse
  <2>1. pc' = NoBlock /\ outcome' = "running" /\ Next
    BY <1>1 DEF Analyse, PInv, execution
  <2>2. fn' \in FunctionDecls
    BY <2>1, SameGraph DEF TypeOK
  <2>3. NoBlock \notin F'.blocks /\ F'.entry \in F'.blocks
    BY <2>2, NoBlockAssumption, LifetimeAssumption DEF F, IsCFG
  <2> QED
    BY <2>1, <2>3 DEF PInv, IsOnTrack, StoreIsTyped, Arrived, EveryFaultIsReported
<1>2. ASSUME UNCHANGED vars
      PROVE  /\ done' = done
             /\ F' = F
             /\ IsPlain' = IsPlain
             /\ Exhausted' = Exhausted
             /\ (visited \cup {NoBlock, F.entry, F.exit})' = visited \cup {NoBlock, F.entry, F.exit}
  BY <1>2 DEF vars, F, IsPlain, Promised, IsSplit, Exhausted, WithinLimit
<1>3. CASE Call
  <2>1. UNCHANGED vars /\ done /\ pc' = F.entry /\ outcome' = outcome /\ at' = at /\ store' \in Arguments
    BY <1>3 DEF Call
  <2>2. reports' = reports
    BY <2>1 DEF vars
  <2>3. IsPointerProgram(F) => store' = <<>>
    <3>1. IsPointerProgram(F) => IsAnalysed(F)
      BY DEF IsAnalysed, TypeOK, F
    <3> QED
      BY <2>1, <3>1, NoArguments
  <2> QED
    BY <1>2, <2>1, <2>2, <2>3 DEF PInv, IsOnTrack, StoreIsTyped, Arrived, EveryFaultIsReported
<1>4. CASE Run
  <2>1. UNCHANGED vars /\ done
    BY <1>4 DEF Run, PInv
  <2> SUFFICES ASSUME IsPointerProgram(F), IsPlain, ~Exhausted PROVE IsOnTrack' /\ StoreIsTyped'
    BY <1>2, <2>1 DEF PInv
  <2>2. IsOnTrack /\ StoreIsTyped
    BY DEF PInv
  <2>3. BlocksAreSound
    BY PointerBlocksAreSound
  <2>4. IsOnTrack'
    BY <1>4, <2>1, <2>2, <2>3, RunStaysOnTrack
  <2>5. StoreIsTyped'
    BY <1>4, <2>1, <2>2, RunKeepsStoreTyped
  <2> QED
    BY <2>4, <2>5
<1>5. CASE UNCHANGED <<vars, execution>>
  BY <1>2, <1>5 DEF PInv, IsOnTrack, StoreIsTyped, Arrived, EveryFaultIsReported, AccountsFor,
                    PSetsOnArrival, IsSplit, vars, execution, F
<1> QED
  BY <1>1, <1>3, <1>4, <1>5 DEF ExecutionNext, Return

(* For pointer programs all of it holds without conditions *)
LEMMA PointerProgramsOnTrack ==
  ASSUME VisitsAreModelled, LifetimeNull PROVE ExecutionSpec => [](TypeOK /\ AInv /\ PInv)
<1>1. ExecutionSpec => Spec /\ []TypeOK /\ []SteadyState
  BY EngineRunsAsSpecified, Typing, StopsInSteadyState, PTL
<1>2. Spec => []AInv
  <2>1. Init => AInv
    BY InitAInv
  <2>2. TypeOK /\ AInv /\ [Next]_vars => AInv'
    BY StepAInv
  <2> QED
    BY <2>1, <2>2, Typing, PTL DEF Spec
<1>3. ExecutionInit => PInv
  BY InitPInv
<1>4. TypeOK /\ SteadyState /\ AInv /\ PInv /\ [ExecutionNext]_<<vars, execution>> => PInv'
  BY StepPInv
<1> QED
  BY <1>1, <1>2, <1>3, <1>4, PTL DEF ExecutionSpec

(* Every block of a pointer program does to the psets of the analysis what *)
(* its execution does to the variables (VisitBlock of PSetsBuilder against *)
(* C++): whatever the graph and however deep the pointers, once the engine *)
(* has reached its fixed point.                                            *)
THEOREM PointerProgramsAreSound ==
  ASSUME VisitsAreModelled, LifetimeNull
  PROVE  ExecutionSpec => [](IsPointerProgram(F) /\ IsPlain /\ ~Exhausted => BlocksAreSound)
<1>1. TypeOK /\ AInv /\ PInv => (IsPointerProgram(F) /\ IsPlain /\ ~Exhausted => BlocksAreSound)
  BY PointerBlocksAreSound
<1> QED
  BY <1>1, PointerProgramsOnTrack, PTL

(* In every pointer program, whatever path an execution takes, each        *)
(* variable holds at each block only what the pset on entry to it says     *)
(* (LifetimeContext::TraverseBlocks and PSetsBuilder together).            *)
THEOREM PointerProgramsAreDescribed ==
  ASSUME VisitsAreModelled, LifetimeNull
  PROVE  ExecutionSpec => [](IsPointerProgram(F) /\ IsPlain /\ ~Exhausted => PSetsDescribeExecutions)
<1>1. PInv => (IsPointerProgram(F) /\ IsPlain /\ ~Exhausted => PSetsDescribeExecutions)
  BY DEF PInv, IsOnTrack, PSetsDescribeExecutions
<1> QED
  BY <1>1, PointerProgramsOnTrack, PTL

(* No execution of a pointer program dereferences a null or dangling       *)
(* pointer at a place where the analysis reports nothing.                  *)
THEOREM PointerProgramsFaultWhereReported ==
  ASSUME VisitsAreModelled, LifetimeNull
  PROVE  ExecutionSpec => [](IsPointerProgram(F) /\ IsPlain /\ ~Exhausted => EveryFaultIsReported)
<1>1. PInv => (IsPointerProgram(F) /\ IsPlain /\ ~Exhausted => EveryFaultIsReported)
  BY DEF PInv, IsOnTrack
<1> QED
  BY <1>1, PointerProgramsOnTrack, PTL

-----------------------------------------------------------------------------
(* What the engine keeps is in scope.                                      *)

(* Map p has psets of what is in scope; of nothing else if nothing was     *)
(* reported.                                                               *)
KeepsToScope(p, D) == AreInScope(p, D) /\ (DOMAIN reports = {} => HasNoOthers(p, D))

IsScoped(b) ==
  LET D == Scopes(F)[b]
      E == ScopeAfter(F, b, D)
  IN  /\ KeepsToScope(entryPMap[b], D)
      /\ KeepsToScope(exitPMap[b], E)
      /\ falseExit[b] # NoPMap => KeepsToScope(falseExit[b], E)

SInv ==
  IsPointerProgram(F) /\ IsPlain /\ EndsItsScopes(F) => \A b \in F.blocks \ {F.exit} : IsScoped(b)

(* What keeps to a scope keeps to a wider one.                             *)
LEMMA WiderScope ==
  ASSUME NEW p, NEW D, NEW E, D \subseteq E, KeepsToScope(p, D) PROVE KeepsToScope(p, E)
BY DEF KeepsToScope, AreInScope, InScope, HasNoOthers

(* Nothing is known at first, so all of it is in scope.                    *)
LEMMA EmptyIsScoped ==
  ASSUME NEW p, DOMAIN p = {}, NEW D PROVE KeepsToScope(p, D)
BY DEF KeepsToScope, AreInScope, HasNoOthers

(* Maps that keep to a scope are merged to one that does.                  *)
LEMMA MergeIsScoped ==
  ASSUME NEW maps, NEW D, \A p \in maps : KeepsToScope(p, D) PROVE KeepsToScope(Merge(maps), D)
<1> DEFINE q == Merge(maps)
<1>1. DOMAIN q = UNION {DOMAIN p : p \in maps}
  BY DEF Merge
<1>2. \A v \in DOMAIN q : q[v] = UNION {p[v] : p \in {o \in maps : v \in DOMAIN o}}
  BY DEF Merge
<1> HIDE DEF q
<1>3. ASSUME NEW v \in DOMAIN q, Invalid \notin q[v], NEW x \in VarsOf(q[v]) PROVE x.base \in D
  <2>1. PICK p \in maps : v \in DOMAIN p /\ x \in p[v]
    BY <1>2, <1>3 DEF VarsOf
  <2>2. Invalid \notin p[v]
    BY <1>2, <1>3, <2>1
  <2> QED
    BY <1>3, <2>1, <2>2 DEF KeepsToScope, AreInScope, InScope, VarsOf
<1>4. DOMAIN reports = {} => HasNoOthers(q, D)
  BY <1>1 DEF KeepsToScope, HasNoOthers
<1>5. KeepsToScope(q, D)
  BY <1>3, <1>4 DEF KeepsToScope, AreInScope, InScope
<1> QED
  BY <1>5 DEF q

(* The psets on entry to a block, merged from its predecessors, keep to    *)
(* the scope the block is entered with.                                    *)
LEMMA EntryIsScoped ==
  ASSUME IsAnalysed(F), EndsItsScopes(F), NEW b \in F.blocks \ {F.exit},
         \A c \in F.blocks \ {F.exit} : IsScoped(c)
  PROVE  KeepsToScope(ComputedEntry(b), Scopes(F)[b])
<1> DEFINE D == Scopes(F)[b]
           maps == {entryPMap[b]} \cup {EdgePMap(p, b) : p \in ReachablePreds(b)}
<1>1. ASSUME NEW p \in ReachablePreds(b) PROVE KeepsToScope(EdgePMap(p, b), D)
  <2>1. p \in F.blocks /\ b \in ReachableSuccs(F, p)
    BY DEF ReachablePreds, Preds, IsReachablePred
  <2>2. p # F.exit
    <3>1. F.succs[F.exit] = <<>>
      BY LifetimeAssumption DEF IsAnalysed, IsCFG
    <3>2. ReachableSuccs(F, F.exit) = {}
      BY <3>1 DEF ReachableSuccs
    <3> QED
      BY <2>1, <3>2
  <2> DEFINE E == ScopeAfter(F, p, Scopes(F)[p])
  <2>3. E \subseteq D
    BY <2>1 DEF EndsItsScopes
  <2>4. KeepsToScope(exitPMap[p], E) /\ (falseExit[p] # NoPMap => KeepsToScope(falseExit[p], E))
    BY <2>1, <2>2 DEF IsScoped
  <2>5. KeepsToScope(EdgePMap(p, b), E)
    BY <2>4 DEF EdgePMap
  <2> HIDE DEF D, E
  <2> QED
    BY <2>3, <2>5, WiderScope
<1>2. KeepsToScope(entryPMap[b], D)
  BY DEF IsScoped
<1>3. ComputedEntry(b) = Merge(maps)
  BY NothingIsSplit DEF ComputedEntry, IsAnalysed
<1>4. \A p \in maps : KeepsToScope(p, D)
  BY <1>1, <1>2
<1> HIDE DEF maps, D
<1>5. KeepsToScope(Merge(maps), D)
  BY <1>4, MergeIsScoped
<1> QED
  BY <1>3, <1>5 DEF D

(* Before the first visit nothing is known.                                *)
LEMMA InitSInv == ASSUME Init PROVE SInv
<1> SUFFICES ASSUME IsPointerProgram(F), NEW b \in F.blocks PROVE IsScoped(b)
  BY DEF SInv
<1>1. IsAnalysed(F)
  BY DEF IsAnalysed, Init, F
<1>2. /\ entryPMap[b] = EmptyPMap /\ falseExit[b] = NoPMap
      /\ exitPMap[b] = InitialPMap(F) \/ exitPMap[b] = EmptyPMap
  BY DEF Init
<1>3. DOMAIN entryPMap[b] = {} /\ DOMAIN exitPMap[b] = {}
  BY <1>1, <1>2, InitialTyped
<1> QED
  BY <1>2, <1>3, EmptyIsScoped DEF IsScoped

(* A visit leaves psets for its successors that keep to their scope.       *)
LEMMA VisitSInv ==
  ASSUME VisitsAreModelled, LifetimeNull, TypeOK, IsPointerProgram(F), IsPlain, EndsItsScopes(F),
         AInv, SInv, NEW b \in F.blocks, Visit(b)
  PROVE  SInv'
<1>1. F' = F
  BY DEF Visit, F
<1>2. IsAnalysed(F) /\ b # F.exit
  BY DEF IsAnalysed, TypeOK, F, Visit
<1>3. (\A c \in F.blocks : IsTyped(c)) /\ (\A c \in F.blocks \ {F.exit} : IsScoped(c))
  BY DEF AInv, SInv
<1> DEFINE entry == ComputedEntry(b)
           fe == falseExit[b]
           v == VisitBlockOf(F, b, entry, fe, exprs)
           D == Scopes(F)[b]
           E == ScopeAfter(F, b, D)
           clean == DOMAIN reports = {}
<1>4. /\ entryPMap' = [entryPMap EXCEPT ![b] = entry]
      /\ exitPMap' = [exitPMap EXCEPT ![b] = v.pmap]
      /\ falseExit' = [falseExit EXCEPT ![b] = v.falseExit]
      /\ reports' = ReportAll(reports, F.suppressed, v.diags)
  BY NothingIsSplit DEF Visit, VisitsAreModelled
<1>5. entry \in PMapsOf(F) /\ SuccSize(F, b) \in {1, 2}
  BY <1>2, <1>3, EntryTyped DEF IsPlain
<1>6. KeepsToScope(entry, D)
  BY <1>2, <1>3, EntryIsScoped
<1>7. NamesInScope(F, F.elems[b], D)
  BY DEF IsPointerProgram, IsWellScoped, NamesInScope
<1>8. fe # NoPMap => KeepsToScope(fe, E)
  BY <1>2, <1>3 DEF IsScoped
<1> HIDE DEF entry, fe, v, D, E, clean
<1>9. v = VisitBlockOf(F, b, entry, fe, exprs) /\ E = ScopeAfter(F, b, D)
  BY DEF v, E
<1>10. v.falseExit = fe \/ Splits(F, b)
  BY <1>2, <1>5, <1>9, VisitTyped
<1>11. IsLog(v.diags)
  BY <1>2, <1>5, <1>9, VisitTyped
<1>12. DOMAIN reports \cup Told(v.diags) \subseteq DOMAIN reports'
  <2>1. F.suppressed = {}
    BY DEF IsPointerProgram
  <2> QED
    BY <1>4, <1>11, <2>1, TellingIsReporting
<1>13. AreInScope(entry, D) /\ (clean => HasNoOthers(entry, D))
  BY <1>6 DEF KeepsToScope, clean
<1>14. /\ AreInScope(v.pmap, E)
       /\ Splits(F, b) => AreInScope(v.falseExit, E)
       /\ clean /\ Told(v.diags) = {} =>
            HasNoOthers(v.pmap, E) /\ (Splits(F, b) => HasNoOthers(v.falseExit, E))
  BY <1>2, <1>5, <1>7, <1>9, <1>13, VisitStaysInScope
<1>15. DOMAIN reports' = {} => clean /\ Told(v.diags) = {}
  BY <1>12 DEF clean
<1>16. ASSUME NEW p, NEW S, KeepsToScope(p, S)
       PROVE  AreInScope(p, S) /\ (DOMAIN reports' = {} => HasNoOthers(p, S))
  BY <1>12, <1>16 DEF KeepsToScope
<1>17. /\ entryPMap'[b] = entry /\ exitPMap'[b] = v.pmap /\ falseExit'[b] = v.falseExit
       /\ \A c \in F.blocks \ {b} : /\ entryPMap'[c] = entryPMap[c] /\ exitPMap'[c] = exitPMap[c]
                                    /\ falseExit'[c] = falseExit[c]
  BY <1>4 DEF TypeOK
<1>18. ASSUME NEW c \in F.blocks \ {F.exit} PROVE IsScoped(c)'
  <2>1. CASE c = b
    <3>1. AreInScope(entry, D) /\ (DOMAIN reports' = {} => HasNoOthers(entry, D))
      BY <1>6, <1>16
    <3>2. AreInScope(v.pmap, E) /\ (DOMAIN reports' = {} => HasNoOthers(v.pmap, E))
      BY <1>14, <1>15
    <3>3. v.falseExit # NoPMap =>
            AreInScope(v.falseExit, E) /\ (DOMAIN reports' = {} => HasNoOthers(v.falseExit, E))
      BY <1>8, <1>10, <1>14, <1>15, <1>16
    <3> QED
      BY <1>1, <1>17, <2>1, <3>1, <3>2, <3>3 DEF IsScoped, KeepsToScope, D, E
  <2>2. CASE c # b
    <3> DEFINE G == Scopes(F)[c]
               H == ScopeAfter(F, c, G)
    <3>1. /\ KeepsToScope(entryPMap[c], G) /\ KeepsToScope(exitPMap[c], H)
          /\ falseExit[c] # NoPMap => KeepsToScope(falseExit[c], H)
      BY <1>3 DEF IsScoped
    <3> HIDE DEF G, H
    <3>2. /\ AreInScope(entryPMap[c], G) /\ (DOMAIN reports' = {} => HasNoOthers(entryPMap[c], G))
          /\ AreInScope(exitPMap[c], H) /\ (DOMAIN reports' = {} => HasNoOthers(exitPMap[c], H))
          /\ falseExit[c] # NoPMap =>
               AreInScope(falseExit[c], H) /\ (DOMAIN reports' = {} => HasNoOthers(falseExit[c], H))
      BY <1>16, <3>1
    <3> QED
      BY <1>1, <1>17, <2>2, <3>2 DEF IsScoped, KeepsToScope, G, H
  <2> QED
    BY <2>1, <2>2
<1> QED
  BY <1>1, <1>18 DEF SInv

(* Every step of the engine does.                                          *)
LEMMA StepSInv ==
  ASSUME VisitsAreModelled, LifetimeNull, TypeOK, AInv, SInv, [Next]_vars PROVE SInv'
<1>1. F' = F /\ IsPlain' = IsPlain
  BY SameGraph DEF IsPlain, Promised, IsSplit
<1> SUFFICES ASSUME IsPointerProgram(F), IsPlain, EndsItsScopes(F) PROVE SInv'
  BY <1>1 DEF SInv
<1>2. \A c \in F.blocks \ {F.exit} : IsScoped(c)
  BY DEF SInv
<1>3. ASSUME UNCHANGED <<entryPMap, exitPMap, falseExit, reports>> PROVE SInv'
  BY <1>1, <1>2, <1>3 DEF SInv, IsScoped, KeepsToScope
<1>4. ASSUME NEW b \in F.blocks, SkipUnchanged(b) PROVE SInv'
  <2>1. falseExit' = falseExit
    BY <1>4, NothingIsSplit DEF SkipUnchanged, TypeOK
  <2> QED
    BY <1>3, <1>4, <2>1 DEF SkipUnchanged
<1>5. ASSUME NEW b \in F.blocks, Visit(b) PROVE SInv'
  BY <1>5, VisitSInv
<1>6. ASSUME NEW b \in F.blocks, SkipExit(b) \/ GiveUp(b) PROVE SInv'
  BY <1>3, <1>6 DEF SkipExit, GiveUp
<1>7. CASE Finish \/ Terminated \/ UNCHANGED vars
  BY <1>3, <1>7 DEF Finish, Terminated, vars
<1> QED
  BY <1>4, <1>5, <1>6, <1>7 DEF Next

(* What the engine has stored for any block keeps to its scope, in every   *)
(* execution of the two together.                                          *)
LEMMA ScopesAreKept ==
  ASSUME PInv, SInv, IsPointerProgram(F), IsPlain, EndsItsScopes(F), ~Exhausted
  PROVE  NothingOutlivesItsScope
<1> SUFFICES ASSUME Arrived, NEW v \in DOMAIN entryPMap[pc]
             PROVE  /\ IsInScope(v) \/ DOMAIN reports # {}
                    /\ Invalid \notin entryPMap[pc][v] => \A w \in VarsOf(entryPMap[pc][v]) : IsInScope(w)
  BY DEF NothingOutlivesItsScope
<1> DEFINE D == Scopes(F)[pc]
<1>1. KeepsToScope(entryPMap[pc], D)
  BY DEF SInv, IsScoped, Arrived
<1>2. ASSUME NEW x, x.base \in D PROVE IsInScope(x)
  <2>1. Var(x.base) \in DOMAIN store /\ Var(x.base).base = x.base
    BY <1>2 DEF PInv, StoreIsTyped, Var
  <2> QED
    BY <2>1 DEF IsInScope
<1> HIDE DEF D
<1> QED
  BY <1>1, <1>2 DEF KeepsToScope, AreInScope, InScope, HasNoOthers

(* What has left its scope has left the psets of a pointer program that    *)
(* ends the lifetime of its variables wherever control leaves their scope  *)
(* (VisitLifetimeEnds, eraseVariable, invalidateVar): what has a pset, and *)
(* what a valid pset names, is in scope, up to the departure named in      *)
(* NothingOutlivesItsScope.                                                *)
THEOREM PointerProgramsKeepToScope ==
  ASSUME VisitsAreModelled, LifetimeNull
  PROVE  ExecutionSpec =>
           [](IsPointerProgram(F) /\ IsPlain /\ EndsItsScopes(F) /\ ~Exhausted => NothingOutlivesItsScope)
<1>1. Spec => []SInv
  <2>1. Init => SInv
    BY InitSInv
  <2>2. TypeOK /\ AInv /\ SInv /\ [Next]_vars => SInv'
    BY StepSInv
  <2>3. Init => AInv
    BY InitAInv
  <2>4. TypeOK /\ AInv /\ [Next]_vars => AInv'
    BY StepAInv
  <2> QED
    BY <2>1, <2>2, <2>3, <2>4, Typing, PTL DEF Spec
<1>2. PInv /\ SInv => (IsPointerProgram(F) /\ IsPlain /\ EndsItsScopes(F) /\ ~Exhausted => NothingOutlivesItsScope)
  BY ScopesAreKept
<1> QED
  BY <1>1, <1>2, PointerProgramsOnTrack, EngineRunsAsSpecified, PTL

-----------------------------------------------------------------------------
(* The engine reaches its fixed point.                                     *)

(* With enough visits for all there is to be known of its locals, nothing  *)
(* is left to assume: the analysis of a pointer program comes to an end    *)
(* with every fault reported.                                              *)
CoversPrograms(L, M) ==
  \A d \in FunctionDecls :
    IsPointerProgram(Body[d]) => Names(Body[d]) \subseteq L /\ Names(Body[d]) \cup Special \subseteq M

(* What the engine keeps of a pointer program stays within its own locals  *)
(* and psets of them.                                                      *)
LEMMA PointerProgramsAreConfined ==
  ASSUME NEW L, NEW M, CoversPrograms(L, M), TypeOK, AInv, IsPointerProgram(F), IsPlain
  PROVE  IsConfined(L, M)
<1> SUFFICES ASSUME NEW b \in F.blocks PROVE entryPMap[b] \in PMaps(L, M)
  BY DEF IsConfined
<1>1. entryPMap[b] \in PMapsOf(F)
  BY DEF AInv, IsTyped
<1>2. PICK vs \in SUBSET Names(F) : entryPMap[b] \in [vs -> PSets(F)]
  BY <1>1 DEF PMapsOf
<1>3. Names(F) \subseteq L /\ PSets(F) \subseteq SUBSET M
  BY DEF CoversPrograms, TypeOK, F, PSets
<1>4. vs \in SUBSET L /\ entryPMap[b] \in [vs -> SUBSET M]
  BY <1>2, <1>3
<1> QED
  BY <1>4 DEF PMaps

(* With more visits allowed than there are psets to grow through the       *)
(* engine reaches its fixed point, so what was shown above holds without a *)
(* condition on it.                                                        *)
THEOREM PointerProgramsAreSafe ==
  ASSUME VisitsAreModelled, LifetimeNull, NEW L, NEW M, CoversPrograms(L, M), IsFinite(L, M),
         \A d \in FunctionDecls : MaxVisits(Body[d], L, M) < IterationLimit
  PROVE  ExecutionSpec /\ [](IsPointerProgram(F) /\ IsPlain) =>
           []( /\ NeverGivesUp /\ BlocksAreSound /\ PSetsDescribeExecutions /\ EveryFaultIsReported
               /\ EndsItsScopes(F) => NothingOutlivesItsScope)
<1>1. TypeOK /\ AInv /\ IsPointerProgram(F) /\ IsPlain => IsConfined(L, M)
  BY PointerProgramsAreConfined
<1>2. Spec /\ []IsConfined(L, M) => []NeverGivesUp
  BY FewVisitsSuffice
<1>3. NeverGivesUp => ~Exhausted
  BY DEF NeverGivesUp, Exhausted, WithinLimit
<1> QED
  BY <1>1, <1>2, <1>3, EngineRunsAsSpecified, PointerProgramsOnTrack, PointerProgramsAreSound,
     PointerProgramsAreDescribed, PointerProgramsFaultWhereReported,
     PointerProgramsKeepToScope, PTL

=============================================================================
