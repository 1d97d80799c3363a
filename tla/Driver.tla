------------------------------- MODULE Driver -------------------------------
(***************************************************************************)
(* One run of the program: main hands the translation units to Clang one   *)
(* after the other; AstConsumer is called for every top-level declaration  *)
(* as soon as it is parsed, and analyses the functions in it.  What the    *)
(* analysis finds out about contracts and classes is kept in static maps   *)
(* whose keys are addresses of declarations, for the whole run, while the  *)
(* declarations live as long as their translation unit.                    *)
(*                                                                         *)
(* A unit is a sequence of top-level declarations, and such a declaration  *)
(* (a namespace, say) a sequence of items:                                 *)
(*   k          "class" or "function",                                     *)
(*   name       two declarations of one entity have the same name,         *)
(*   isDefinition                                                          *)
(*   category   of a class,                                                *)
(*   and of a function: inSystemHeader, isTemplated, isExempt (in std or   *)
(*   gsl, or suppressed), class (its parent or None), base (the method it  *)
(*   overrides or None), params (the classes its parameters refer to) and  *)
(*   calls (the functions its body calls).                                 *)
(***************************************************************************)
EXTENDS Naturals, Sequences, Functions, FiniteSets

CONSTANTS
  None,
  Sessions,   \* the runs: sequences of units
  Slabs       \* the memory Clang allocates the declarations of a unit in

VARIABLES
  session,    \* the units
  unit,       \* the number of the unit being parsed
  pos,        \* the number of its declarations parsed so far
  slab,       \* where its declarations are allocated, one after the other
  error,      \* Clang has met an unrecoverable error in this unit
  todo,       \* items of the last declaration, yet to be visited
  asking,     \* functions whose contracts the function under analysis needs
  contracts,  \* ContractCache: address |-> contract
  categories, \* the cache of classifyTypeCategory: address |-> category
  answers,    \* the contracts handed out, with the unit and the function asked about
  analysed,   \* the functions analysed, with unit and place
  inherited   \* history: the addresses ContractCache knew when the unit began

vars == <<session, unit, pos, slab, error, todo, asking, contracts, categories, answers, analysed,
          inherited>>

-----------------------------------------------------------------------------
(* Declarations of the unit, by their places <<declaration, item>> *)

Unit == session[unit]
PlacesIn(u) == UNION {{<<i, j>> : j \in DOMAIN u[i]} : i \in DOMAIN u}
ItemOf(u, place) == u[place[1]][place[2]]
Item(place) == ItemOf(Unit, place)
Parsed == {place \in PlacesIn(Unit) : place[1] <= pos}
Precedes(p, q) == p[1] < q[1] \/ (p[1] = q[1] /\ p[2] <= q[2])

(* The units are such as a compiler accepts: a name stands for a class or  *)
(* for a function, a method is declared after what it overrides, and what  *)
(* a body calls is declared by the end of the declaration the body is in.  *)
IsFunctionNamed(item, name) == item.k = "function" /\ item.name = name
IsUnit(u) ==
  /\ u \in Seq(Range(u))
  /\ \A i \in DOMAIN u : u[i] \in Seq(Range(u[i]))
  /\ \A p, q \in PlacesIn(u) : ItemOf(u, p).name = ItemOf(u, q).name => ItemOf(u, p).k = ItemOf(u, q).k
  /\ \A p \in PlacesIn(u) :
       LET f == ItemOf(u, p)
       IN  f.k = "function" =>
             /\ f.base # None =>
                  \E q \in PlacesIn(u) : Precedes(q, p) /\ q # p /\ IsFunctionNamed(ItemOf(u, q), f.base)
             /\ f.calls \in Seq(Range(f.calls))
             /\ \A name \in Range(f.calls) :
                  \E q \in PlacesIn(u) : q[1] <= p[1] /\ IsFunctionNamed(ItemOf(u, q), name)

ASSUME SessionsAssumption ==
  \A s \in Sessions : s # <<>> /\ s \in Seq(Range(s)) /\ \A u \in Range(s) : IsUnit(u)

Declarations(name) == {place \in Parsed : Item(place).name = name}

(* A slip: every declaration is on its own. *)
LastDecl(name) ==
  CHOOSE p \in Declarations(name) : \A q \in Declarations(name) : Precedes(q, p)
(* The first declaration stands for the entity. *)
CanonicalDecl(name) ==
  CHOOSE p \in Declarations(name) : \A q \in Declarations(name) : Precedes(p, q)

(* The address of the declaration that stands for an entity.              *)
At(name) ==
  <<slab, Cardinality({p \in PlacesIn(Unit) : Precedes(p, CanonicalDecl(name))})>>

IsDefined(name) == \E p \in Declarations(name) : Item(p).isDefinition
Definition(name) == CHOOSE p \in Declarations(name) : Item(p).isDefinition

(* What a map lacks, taken from another: the entries it has stay.          *)
Emplaced(m, entries) ==
  [x \in DOMAIN m \cup DOMAIN entries |-> IF x \in DOMAIN m THEN m[x] ELSE entries[x]]

(* classifyTypeCategory: a class that is not yet complete is a Value, and  *)
(* whatever is answered first is the answer ever after.                    *)
CategoryOf(known, class) ==
  LET a == At(class)
  IN  IF a \in DOMAIN known THEN known[a]
      ELSE IF IsDefined(class) THEN Item(Definition(class)).category
      ELSE "Value"
Classified(known, classes) ==
  Emplaced(known, [a \in {At(c) : c \in classes} |->
                     CategoryOf(known, CHOOSE c \in classes : At(c) = a)])

-----------------------------------------------------------------------------
(* The contracts of a function *)

FunctionNames == {Item(p).name : p \in {q \in Parsed : Item(q).k = "function"}}

(* The method at the root of what a method overrides. *)
Base(name) == Item(CanonicalDecl(name)).base
RootOf(name) ==
  LET root[n \in FunctionNames] == IF Base(n) = None THEN n ELSE root[Base(n)]
  IN  root[name]

(* What a contract depends on: the function it was collected from, the     *)
(* categories its parameters had then, and whose parameters it speaks of.  *)
Collect(known, name) ==
  [from |-> name, speaksOf |-> name,
   params |-> LET classes == Item(CanonicalDecl(name)).params
              IN  [c \in classes |-> CategoryOf(Classified(known, classes), c)]]

(* A slip: the parameters of the base are not replaced. *)
CopyAsItIs(contract, derived) == contract
CopyContract4Derived(contract, derived) == [contract EXCEPT !.speaksOf = derived]

(* Is a function, or the root of what it overrides, allocated where an     *)
(* earlier unit had a function with a contract?                            *)
IsInherited(name) == {At(name), At(RootOf(name))} \cap inherited # {}

(* Whose parameters a copied contract speaks of: the index of each is read *)
(* from the one of the root.  If the entry of the root is that of a        *)
(* function of an earlier unit, what is read has been freed, and may be    *)
(* the index of no parameter.                                              *)
MaySpeakOf(name) == IF IsInherited(name) THEN {name, None} ELSE {name}

(* getLifetimeContracts fills the entry of a function, and that of the     *)
(* root it takes the contract from, unless they are there already.         *)
GetLifetimeContracts(filled, known, name, speaksOf) ==
  LET root == RootOf(name)
      withRoot == Emplaced(filled, [a \in {At(root)} |-> Collect(known, root)])
  IN  IF At(name) \in DOMAIN filled THEN filled
      ELSE Emplaced(withRoot, [a \in {At(name)} |-> CopyContract4Derived(withRoot[At(root)], speaksOf)])

(* Filling asks for the categories of the parameters of the root. *)
ClassesAskedFor(filled, name) ==
  LET root == RootOf(name)
  IN  IF {At(name), At(root)} \cap DOMAIN filled # {}
      THEN {} ELSE Item(CanonicalDecl(root)).params

-----------------------------------------------------------------------------
(* Actions *)

Init ==
  /\ session \in Sessions
  /\ unit = 1
  /\ pos = 0
  /\ slab \in Slabs
  /\ error = FALSE
  /\ todo = <<>>
  /\ asking = <<>>
  /\ contracts = <<>>
  /\ categories = <<>>
  /\ answers = {}
  /\ analysed = {}
  /\ inherited = {}

(* The items the visitor comes to: a function in a system header ends the  *)
(* visit of the whole declaration.                                         *)
Visited(decl) ==
  LET IsSystem(item) == item.k = "function" /\ item.inSystemHeader
      upTo == {j \in DOMAIN decl : \A i \in 1..j : ~IsSystem(decl[i])}
  IN  [j \in 1..Cardinality(upTo) |-> <<pos + 1, j>>]

HandleTopLevelDecl ==
  /\ todo = <<>> /\ asking = <<>>
  /\ ~error
  /\ pos < Len(Unit)
  /\ pos' = pos + 1
  /\ todo' = Visited(Unit[pos + 1])
  /\ UNCHANGED <<session, unit, slab, error, asking, contracts, categories, answers, analysed,
                 inherited>>

(* Clang stops handing out declarations after an error.                    *)
UnrecoverableError ==
  /\ todo = <<>> /\ asking = <<>>
  /\ ~error
  /\ pos < Len(Unit)
  /\ error' = TRUE
  /\ UNCHANGED <<session, unit, pos, slab, todo, asking, contracts, categories, answers, analysed,
                 inherited>>

(* A function that is no template is handed to runAnalysis, which looks at *)
(* bodies outside std and gsl that are not suppressed and are not those of *)
(* methods of Owners.                                                      *)
RunAnalysis ==
  /\ todo # <<>> /\ asking = <<>>
  /\ LET f == Item(Head(todo))
         isConsidered == f.k = "function" /\ ~f.isTemplated /\ f.isDefinition /\ ~f.isExempt
         classes == IF isConsidered /\ f.class # None THEN {f.class} ELSE {}
         known == Classified(categories, classes)
         ofOwner == f.class # None /\ CategoryOf(known, f.class) = "Owner"
     IN  /\ categories' = known
         /\ IF isConsidered /\ ~ofOwner
            THEN /\ asking' = <<f.name>> \o f.calls
                 /\ analysed' = analysed \cup {<<unit, Head(todo)>>}
            ELSE UNCHANGED <<asking, analysed>>
  /\ todo' = Tail(todo)
  /\ UNCHANGED <<session, unit, pos, slab, error, contracts, answers, inherited>>

(* The contract of the function itself, then those of its callees. *)
AskForContracts ==
  /\ asking # <<>>
  /\ LET name == Head(asking)
     IN  /\ categories' = Classified(categories, ClassesAskedFor(contracts, name))
         /\ \E speaksOf \in MaySpeakOf(name) :
              contracts' = GetLifetimeContracts(contracts, categories, name, speaksOf)
         /\ answers' = answers \cup {[unit |-> unit, asked |-> name, root |-> RootOf(name),
                                      isInherited |-> IsInherited(name),
                                      contract |-> contracts'[At(name)]]}
  /\ asking' = Tail(asking)
  /\ UNCHANGED <<session, unit, pos, slab, error, todo, analysed, inherited>>

(* The declarations of a unit are freed; the static maps stay.  The next   *)
(* unit may be given the same memory.                                      *)
IsUnitDone == todo = <<>> /\ asking = <<>> /\ (error \/ pos = Len(Unit))
NextUnit ==
  /\ IsUnitDone
  /\ unit < Len(session)
  /\ unit' = unit + 1
  /\ pos' = 0
  /\ slab' \in Slabs
  /\ error' = FALSE
  /\ inherited' = DOMAIN contracts
  /\ UNCHANGED <<session, todo, asking, contracts, categories, answers, analysed>>

Next ==
  \/ HandleTopLevelDecl
  \/ UnrecoverableError
  \/ RunAnalysis
  \/ AskForContracts
  \/ NextUnit

Spec == Init /\ [][Next]_vars

-----------------------------------------------------------------------------
(* Properties *)

(* The contract handed out for a function was collected from that function *)
(* or from the root of what it overrides, and it speaks of the function's  *)
(* own parameters (LifetimeAttrHandling.cpp:57-61 "Fill the default        *)
(* annotations for a function"), though it comes from a cache that other   *)
(* functions, and other units, have filled.                                *)
IsItsOwn(answer) == answer.contract.from = answer.root /\ answer.contract.speaksOf = answer.asked

(* The cache outlives the units, so this fails where the function or its   *)
(* root is allocated where an earlier unit had one, ...                    *)
ContractsAreAlwaysTheirOwn == \A a \in answers : IsItsOwn(a)

(* ... and there only: what is stale in the cache does not reach functions *)
(* at other addresses, of this unit or of later ones.                      *)
ContractsAreTheirOwn == \A a \in answers : ~a.isInherited => IsItsOwn(a)

(* Within a unit callers and callees, and everything that overrides one    *)
(* method, go by one contract, although the classes it speaks of may be    *)
(* defined in between.  Again what is inherited is another matter.         *)
OneContractPerHierarchy ==
  \A a, b \in answers :
    a.unit = b.unit /\ a.root = b.root /\ ~a.isInherited /\ ~b.isInherited
      => a.contract.params = b.contract.params

(* Lifetime.cpp:522 "Do not check the bodies of methods on Owners."        *)
OwnersAreNotAnalysed ==
  \A u \in DOMAIN session : \A p, q \in PlacesIn(session[u]) :
    LET f == session[u][p[1]][p[2]]
        class == session[u][q[1]][q[2]]
    IN  (<<u, p>> \in analysed /\ f.class = class.name /\ class.isDefinition) => class.category # "Owner"
=============================================================================
