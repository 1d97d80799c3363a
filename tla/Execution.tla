------------------------------ MODULE Execution ------------------------------
(***************************************************************************)
(* What the analysis is about: an execution of the analysed function.      *)
(* Once the analysis of fn has ended the function runs, block after block, *)
(* until it dereferences a pointer that is null or dangles, reaches a      *)
(* dereference that was reported, or returns.  The language is C++, not    *)
(* part of the repository.                                                 *)
(*                                                                         *)
(* The store maps every object in scope, named by its location, to its     *)
(* value: a pointer to the location of the object it points to, to Null or *)
(* to Invalid; other objects to Opaque, or Invalid when moved from.        *)
(***************************************************************************)
EXTENDS Lifetime, LifetimeBlocks

CONSTANTS
  NoBlock,  \* before the function is called
  Opaque    \* a value that is no pointer

ASSUME NoBlockAssumption == \A d \in FunctionDecls : NoBlock \notin Body[d].blocks

VARIABLES
  pc,       \* the block about to run
  store,    \* objects in scope |-> values
  vals,     \* operands of expressions that go on in the next block |-> values
  test,     \* the value of the condition tested last
  outcome,  \* "running", "fault" or "survived" a reported dereference,
  at        \* and where; or the last return statement

execution == <<pc, store, vals, test, outcome, at>>

-----------------------------------------------------------------------------
(* The machine m of a block: store, vals (node |-> value), test, outcome   *)
(* and at.  A pointer's value is the location it points to, that of an     *)
(* aggregate maps its fields to theirs.                                    *)

Put(fun, x, y) == [z \in {x} \cup DOMAIN fun |-> IF z = x THEN y ELSE fun[z]]
Give(m, e, value) == [m EXCEPT !.vals = Put(@, e, value)]

(* The execution ends where a pointer is misused or was reported to be.    *)
End(m, faults, loc) ==
  [m EXCEPT !.outcome = IF faults THEN "fault" ELSE "survived", !.at = loc]

Dereference(m, e, n) ==
  LET pointer == m.vals[n.sub]
      faults == pointer \in {Null, Invalid}
  IN  IF faults \/ n.loc \in DOMAIN reports THEN End(m, faults, n.loc) ELSE Give(m, e, pointer)

Fields(t) == Range(TypeInfo[t].fields)
ReadMembers(m, v, t) == [fd \in Fields(t) |-> m.store[AddField(v, fd)]]
WriteMembers(m, v, t, value) ==
  [m EXCEPT !.store = Over([w \in {AddField(v, fd) : fd \in Fields(t)} |-> value[GetField(w)]], @)]

(* v = value, for a v of type t *)
Store(m, v, t, value) ==
  IF IsAggregate(t) THEN WriteMembers(m, v, t, value) ELSE [m EXCEPT !.store = Put(@, v, value)]

Declare(m, d) ==
  LET t == DeclInfo[d.var].type
      v == Var(d.var)
      named == [m EXCEPT !.store = Put(@, v, IF IsPointerCategory(t) THEN Invalid ELSE Opaque)]
  IN  IF d.init = NoExpr THEN named ELSE Store(named, v, t, m.vals[d.init])

(* Every pointer into what is gone dangles. *)
PointsInto(value, v) ==
  /\ value \notin {Null, Invalid, Opaque}
  /\ value.base = v.base
  /\ IsPrefix(v.path, value.path)
Kill(m, v) ==
  [m EXCEPT !.store = [o \in DOMAIN @ |-> IF PointsInto(@[o], v) THEN Invalid ELSE @[o]]]
EndScope(m, d) ==
  Kill([m EXCEPT !.store = [o \in {w \in DOMAIN @ : w.base # d} |-> @[o]]], Var(d))

-----------------------------------------------------------------------------
(* A call: the callee relies on its preconditions, may do whatever its     *)
(* postconditions allow, and uses up the Owners it may change.             *)

PairOf(pairs, v) == CHOOSE p \in pairs : p.v.base = v.base /\ IsPrefix(p.v.path, v.path)
PassedTo(m, pair) ==
  IF pair.k = "member" THEN m.vals[pair.arg][Head(pair.path)] ELSE m.vals[pair.arg]

(* What location v of a contract is in a call.  To follow a pointer that   *)
(* is null or dangles leads no further.                                    *)
Actual(m, pairs, v) ==
  LET pair == PairOf(pairs, v)
      Step(w, fd) ==
        IF w \in {Null, Invalid} THEN w
        ELSE IF fd # Deref THEN AddField(w, fd)
        ELSE IF m.store[w] = Opaque THEN DerefVar(w) ELSE m.store[w]
  IN  FoldLeft(Step, PassedTo(m, pair), SubSeq(v.path, Len(pair.v.path) + 2, Len(v.path)))

(* What the pointer at location v of a contract holds.                     *)
Holds(m, pairs, v) ==
  LET pair == PairOf(pairs, v)
  IN  IF v = pair.v THEN PassedTo(m, pair) ELSE m.store[Actual(m, pairs, v)]

(* Is the argument, or what it points to, null or dangling where the       *)
(* precondition rules that out?                                            *)
BreaksPrecondition(m, pairs, fd, v) ==
  LET Follows == /\ Holds(m, pairs, v) \notin {Null, Invalid}
                 /\ Category(GetType(DerefVar(v))) \in {"Pointer", "Owner"}
      mentioned == DOMAIN fd.pre \cap (IF v \in DOMAIN fd.pre /\ Follows THEN {v, DerefVar(v)} ELSE {v})
  IN  \E w \in mentioned : Holds(m, pairs, w) \in {Null, Invalid} \ fd.pre[w]

(* What may be stored or returned where ps is promised.  Null comes from   *)
(* the arguments, and not at all if calls are taken not to make any.       *)
Elsewhere == Var("elsewhere")  \* an object the function knows nothing of
Allowed(m, pairs, ps) ==
  LET bound == {Actual(m, pairs, v) : v \in VarsOf(ps)} \cup (IF IsGlobal(ps \ {Null}) THEN ps ELSE {})
      made == {x \in bound : x # Null \/ LifetimeCallNull} \ {Global}
  IN  IF Global \in ps \/ made = {} THEN made \cup {Elsewhere} ELSE made

UsesUp(fd, pair) ==
  LET t == PointeeType(DeclInfo[pair.v.base].type)
  IN  /\ IsOwnerCategory(t)
      /\ ~(IF pair.k = "this" THEN IsLifetimeConstMethod(fd) ELSE IsLifetimeConst(fd, pair.v.base, t))

(* An Owner that is moved from is Invalid until it is given a new value.   *)
Use(m, fd, pair) ==
  LET owner == m.vals[pair.arg]
      emptied == Kill(m, DerefVar(owner))
  IN  CASE F.nodes[pair.arg].xvalue             -> [emptied EXCEPT !.store[owner] = Invalid]
        [] pair.k = "this" /\ fd.reinitializes -> [emptied EXCEPT !.store[owner] = Opaque]
        [] OTHER                                -> emptied

(* The states a call may leave: each output and the result is chosen apart.*)
Returns(m, e, pairs, fd) ==
  LET used == FoldSet(LAMBDA pair, st : Use(st, fd, pair), m, {pair \in pairs : UsesUp(fd, pair)})
      Choose(v, choices) == {Put(c, v, x) : c \in choices, x \in Allowed(m, pairs, fd.post[v])}
      outputs == {v \in DOMAIN fd.post : ~IsReturnVal(v)}
      Write(c, v, st) == [st EXCEPT !.store = Put(@, Actual(m, pairs, v), c[v])]
      Result(c) ==
        IF IsPointerCategory(fd.returnType) THEN c[Var("return")]
        ELSE IF IsAggregate(fd.returnType)
        THEN [fd_ \in Fields(fd.returnType) |-> c[AddField(Var("return"), fd_)]] ELSE Opaque
  IN  {Give(FoldSet(LAMBDA v, st : Write(c, v, st), used, outputs), e, Result(c)) :
         c \in FoldSet(Choose, {<<>>}, DOMAIN fd.post)}

CallOutcomes(m, e, n) ==
  LET fd == Callee[n.callee]
      pairs == Range(ArgParamPairs(F, n))
      used == IF fd.reinitializes THEN {pair \in pairs : pair.k # "this"} ELSE pairs
      broken == {pair \in used : BreaksPrecondition(m, pairs, fd, pair.v)}
      told == {pair \in pairs : F.nodes[pair.arg].loc \in DOMAIN reports}
      wrong == IF broken # {} THEN broken ELSE told
  IN  IF wrong = {} THEN Returns(m, e, pairs, fd)
      ELSE {End(m, broken # {}, F.nodes[pair.arg].loc) : pair \in wrong}

-----------------------------------------------------------------------------
(* Blocks *)

Element(m, e) ==
  LET n == F.nodes[e]
      from == m.vals[Last(n.args)]
  IN  CASE n.k = "DeclRefExpr"        ->
             Give(m, e, IF TypeInfo[GetType(n.var)].isReference THEN m.store[n.var] ELSE n.var)
        [] n.k = "CXXThisExpr"        -> Give(m, e, m.store[n.var])
        [] n.k = "MemberExpr" /\ n.member = "Field" -> Give(m, e, AddField(m.vals[n.base], n.field))
        [] n.k = "LValueToRValue"     -> Give(m, e, m.store[m.vals[n.sub]])
        [] n.k \in {"NullPtrLiteral", "NullToPointer"} -> Give(m, e, Null)
        [] n.k = "IntegerLiteral"     -> Give(m, e, Opaque)
        [] n.k = "BoolConversion"     -> Give(m, e, m.vals[n.sub] # Null)
        [] n.k = "LogicalOp"          -> Give(m, e, m.test)
        [] n.k = "ConditionalOperator" ->
             Give(m, e, m.vals[IF n.ifTrue \in DOMAIN m.vals THEN n.ifTrue ELSE n.ifFalse])
        [] n.k = "Transparent"        -> Give(m, e, m.vals[n.sub])
        [] n.k = "BinaryOperator"     ->
             [Give(m, e, m.vals[n.lhs]) EXCEPT !.store[m.vals[n.lhs]] = m.vals[n.rhs]]
        [] n.k = "InitListExpr"       ->
             Give(m, e, [fd \in Fields(n.type) |->
                           m.vals[n.inits[CHOOSE i \in DOMAIN n.inits : TypeInfo[n.type].fields[i] = fd]]])
        [] n.k = "CXXConstructExpr" /\ n.isDefault -> Give(m, e, [fd \in Fields(n.type) |-> Invalid])
        [] n.k = "CXXConstructExpr" /\ n.isCopyOrMove -> Give(m, e, ReadMembers(m, from, n.type))
        [] n.k = "MaterializeTemporaryExpr" ->
             Give(Store(m, Var(n.object), n.type, m.vals[n.sub]), e, Var(n.object))
        [] n.k = "CXXOperatorCallExpr" ->
             Give(WriteMembers(m, m.vals[n.args[1]], n.type, ReadMembers(m, from, n.type)), e, m.vals[n.args[1]])
        [] n.k = "DeclStmt"           -> Declare(m, n.decls[1])
        [] n.k = "LifetimeEnds"       -> EndScope(m, n.var)
        [] n.k = "ReturnStmt"         ->
             Store([m EXCEPT !.at = n.loc], Var("return"), F.returnType, m.vals[n.sub])
        [] n.k = "UnaryOperator" /\ n.op = "Deref"  -> Dereference(m, e, n)
        [] n.k = "UnaryOperator" /\ n.op = "AddrOf" -> Give(m, e, m.vals[n.sub])
        [] n.k = "UnaryOperator" /\ n.op = "LNot"   ->
             Give(m, e, IF m.vals[n.sub] = Opaque THEN Opaque ELSE ~m.vals[n.sub])
        [] OTHER                      -> m

(* A temporary lives until the statement it is made in ends.               *)
EndStatement(m) ==
  LET InTemporary(value) == value \notin {Null, Invalid, Opaque} /\ IsTemporary(value)
  IN  [m EXCEPT !.store = [o \in {w \in DOMAIN @ : ~IsTemporary(w)} |->
                             IF InTemporary(@[o]) THEN Invalid ELSE @[o]]]

(* The states block b may leave. *)
RunBlock(b) ==
  LET elems == F.elems[b]
      Outcomes(m, e) ==
        LET n == F.nodes[e]
        IN  IF n.k \in {"CallExpr", "CXXMemberCallExpr"} THEN CallOutcomes(m, e, n)
            ELSE {Element(m, e)}
      Ends(i) == i = Len(elems) \/ F.nodes[elems[i + 1]].loc # F.nodes[elems[i]].loc
      Step(m, i) ==
        IF m.outcome # "running" THEN {m}
        ELSE {IF Ends(i) THEN EndStatement(st) ELSE st : st \in Outcomes(m, elems[i])}
      start == [store |-> store, vals |-> vals, test |-> test, outcome |-> "running", at |-> at]
  IN  FoldLeft(LAMBDA ms, i : UNION {Step(m, i) : m \in ms}, {start}, [i \in DOMAIN elems |-> i])

(* The values an expression in a later block still needs: only a           *)
(* conditional operator has its operands in other blocks.                  *)
Operands(n) ==
  CASE n.k = "ConditionalOperator" -> {n.ifTrue, n.ifFalse}
    [] n.k = "BinaryOperator"      -> {n.lhs, n.rhs}
    [] OTHER                       -> {}
Carried(b, m) ==
  LET users == {e \in DOMAIN F.nodes : F.nodes[e].k \in {"ConditionalOperator", "BinaryOperator"}}
      needed == {x \in UNION {Operands(F.nodes[e]) : e \in users \ Range(F.elems[b])} :
                   \A e \in users : x \in Operands(F.nodes[e]) => F.nodes[e].loc # F.nodes[x].loc}
  IN  Restrict(m.vals, DOMAIN m.vals \cap needed)

(* The condition a block ends with; one we know nothing of may be either.  *)
Tested(b, m) ==
  IF F.elems[b] = <<>> \/ ~F.nodes[Last(F.elems[b])].isBool THEN Opaque
  ELSE m.vals[Last(F.elems[b])]

(* A block with two successors goes on to the second when that is false.   *)
NextBlock(b, v) == F.succs[b][IF SuccSize(F, b) = 2 /\ ~v THEN 2 ELSE 1].to

Decided(b, m) == IF Tested(b, m) = Opaque THEN BOOLEAN ELSE {Tested(b, m)}

-----------------------------------------------------------------------------
ExecutionInit ==
  /\ Init
  /\ pc = NoBlock
  /\ store = <<>>
  /\ vals = <<>>
  /\ test = Opaque
  /\ outcome = "running"
  /\ at = "nowhere"

(* An assertion that fails is the end of the process. *)
Analyse == ~done /\ ~exprs.failed /\ Next /\ UNCHANGED execution

(* The caller keeps to the contract, the members of *this are valid, and   *)
(* no two arguments are or hold the same pointer.                          *)
Arguments ==
  LET promised == Over(EntryPsetsForMembers(F), EntryContracts(F))
      pointers == {v \in DOMAIN promised : IsPointerCategory(GetType(v))}
      objects == DOMAIN promised \cup DOMAIN ValueParameters(F)
                   \cup UNION {VarsOf(promised[v]) : v \in pointers}
      Held(v) == IF v \in pointers THEN promised[v] ELSE {Opaque}
      Extend(v, stores) == {Put(s, v, o) : s \in stores, o \in Held(v)}
  IN  FoldSet(Extend, {<<>>}, objects)

Call ==
  /\ done
  /\ pc = NoBlock
  /\ pc' = F.entry
  /\ store' \in Arguments
  /\ UNCHANGED <<vars, vals, test, outcome, at>>

Run ==
  /\ pc \notin {NoBlock, F.exit}
  /\ outcome = "running"
  /\ \E m \in RunBlock(pc) :
       /\ store' = m.store
       /\ vals' = Carried(pc, m)
       /\ outcome' = m.outcome
       /\ at' = m.at
       /\ IF m.outcome # "running" THEN UNCHANGED <<pc, test>>
          ELSE \E v \in Decided(pc, m) :
                 /\ test' = v
                 /\ pc' = NextBlock(pc, v)
  /\ UNCHANGED vars

Return == (pc = F.exit \/ outcome # "running" \/ exprs.failed) /\ UNCHANGED <<vars, execution>>

ExecutionNext == Analyse \/ Call \/ Run \/ Return
ExecutionSpec == ExecutionInit /\ [][ExecutionNext]_<<vars, execution>>

-----------------------------------------------------------------------------
(* Properties *)

(* No missed fault: the first dereference of a null or dangling pointer in *)
(* an execution is reported there (or an earlier one on the way was).      *)
EveryFaultIsReported == outcome = "fault" => at \in DOMAIN reports

(* "dereferencing a null pointer", without "possibly", is said only of a   *)
(* statement no execution survives (AstConsumer.cpp:186, 190).             *)
DefiniteReportsAreCertain == outcome = "survived" => reports[at].possibly

(* In a function without loops every block is visited with its final psets *)
(* only, and what is said then is not overtaken by what is found out later. *)
CertainWithoutLoops == ~HasLoop => DefiniteReportsAreCertain

(* An argument is said not to match its parameter only in a call that      *)
(* breaks the contract of the callee (CallVisitor::checkPreconditions).    *)
LawfulCallsAreSilent == outcome = "survived" => reports[at].kind # "WrongPset"

Arrived == pc \in F.blocks \ {F.entry, F.exit} /\ outcome = "running"

(* A noop block keeps those of a condition that failed apart.              *)
PSetsOnArrival ==
  IF IsSplit(pc) /\ falseExit[pc] # NoPMap /\ test = FALSE THEN falseExit[pc] ELSE entryPMap[pc]

(* What a pointer holds is a member of its pset.  Global stands for        *)
(* whatever outlives the function, and a pset with Invalid for anything:   *)
(* its other members are not kept up to date (invalidateVar).              *)
Describes(ps, value) ==
  \/ Invalid \in ps
  \/ value \in ps
  \/ Global \in ps /\ value \notin {Null, Invalid} /\ Kind(value) # "Local"

AccountsFor(pmap, st) ==
  \A v \in DOMAIN st : st[v] # Opaque => v \in DOMAIN pmap /\ Describes(pmap[v], st[v])

(* The psets on entry to a block describe every execution that gets there: *)
(* they say of each pointer what it holds.                                 *)
PSetsDescribeExecutions == Arrived => AccountsFor(PSetsOnArrival, store)

(* What block p hands on to the next one when the condition turns out v.   *)
HandedOn(p, v) ==
  LET apart == SuccSize(F, p) = 2 \/ IsSplit(NextBlock(p, v))
  IN  IF apart /\ ~v /\ falseExit[p] # NoPMap THEN falseExit[p] ELSE exitPMap[p]

(* The transfer function is right about each block by itself, once the     *)
(* analysis has ended: from a state the psets on entry account for the     *)
(* block goes on to one its exit psets account for, or it faults where     *)
(* that is reported (VisitBlock, PSetsBuilder::visitBlock).                *)
BlocksAreSound ==
  /\ done
  /\ outcome = "running"
  /\ pc \notin {NoBlock, F.exit}
  /\ pc # F.entry => AccountsFor(PSetsOnArrival, store)
  => \A m \in RunBlock(pc) :
       IF m.outcome # "running" THEN m.outcome = "fault" => m.at \in DOMAIN reports
       ELSE \A v \in Decided(pc, m) :
              NextBlock(pc, v) # F.exit => AccountsFor(HandedOn(pc, v), m.store)

(* An Owner that is said to be moved from on every path is: only what is   *)
(* moved from counts, and a new value revives it (CallVisitor::            *)
(* invalidateVarOnNoConstUse, tryResetPSet).                               *)
MovedFromIsCertain ==
  Arrived =>
    \A v \in DOMAIN store :
      IsOwnerCategory(GetType(v)) /\ IsInvalid(GetPSet(PSetsOnArrival, v)) => store[v] = Invalid

IsInScope(v) == IsTemporary(v) \/ v.base \in {o.base : o \in DOMAIN store}

(* What has left its scope has left the psets (eraseVariable): nothing is  *)
(* said to point to it, but for psets that were invalid before, which      *)
(* invalidateVar passes over; and it has no pset itself, unless something  *)
(* was reported, since a write through a pointer that dangles brings it    *)
(* back (setPSet).  Temporaries stay until the next declaration.           *)
NothingOutlivesItsScope ==
  Arrived =>
    \A v \in DOMAIN entryPMap[pc] :
      LET ps == entryPMap[pc][v]
      IN  /\ IsInScope(v) \/ DOMAIN reports # {}
          /\ Invalid \notin ps => \A w \in VarsOf(ps) : IsInScope(w)

(* No assertion of the analysis fails (CPPSAFE_ASSERT ends the process).   *)
NoAssertionFails == ~exprs.failed

Returned == pc = F.exit /\ outcome = "running"

(* What a function returns and what it leaves in its outputs is covered by *)
(* its postconditions, that callers go by, or it is reported where the     *)
(* function returns.                                                       *)
Covers(ps, value) ==
  \/ Invalid \in ps
  \/ value \in ps
  \/ value \notin {Null, Invalid} /\ \E c \in VarsOf(ps) : IsParent(c, value)

PostconditionsHold ==
  Returned =>
    \A v \in DOMAIN F.post \cap DOMAIN store :
      Covers(F.post[v], store[v]) \/ at \in DOMAIN reports

(* What outlives the function does not dangle when it returns, or that is  *)
(* reported.                                                               *)
Outlives(v) == v.path # <<>> /\ (IsParameter(v) \/ IsThisPointer(v))

NothingDanglesOnReturn ==
  Returned =>
    \A v \in DOMAIN store :
      Outlives(v) /\ store[v] = Invalid => at \in DOMAIN reports
=============================================================================
