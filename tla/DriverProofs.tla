---------------------------- MODULE DriverProofs ----------------------------
(***************************************************************************)
(* Theorems about the contracts that are handed out, for every session of  *)
(* every number of units with every hierarchy of overriding methods.       *)
(***************************************************************************)
EXTENDS Driver, Recursion, SequenceTheorems, FiniteSetTheorems

-----------------------------------------------------------------------------
(* Places *)

IsSession == session \in Sessions /\ unit \in 1..Len(session) /\ pos \in Nat

LEMMA UnitIsOne == IsSession => IsUnit(Unit)
<1> SUFFICES ASSUME IsSession PROVE IsUnit(Unit)
  OBVIOUS
<1>1. session \in Seq(Range(session)) /\ \A u \in Range(session) : IsUnit(u)
  BY SessionsAssumption DEF IsSession
<1>2. Unit \in Range(session)
  BY <1>1 DEF IsSession, Unit
<1> QED
  BY <1>1, <1>2

LEMMA PlacesAreNumbers ==
  ASSUME NEW u, IsUnit(u)
  PROVE  /\ DOMAIN u = 1..Len(u) /\ Len(u) \in Nat
         /\ \A i \in 1..Len(u) : DOMAIN u[i] = 1..Len(u[i]) /\ Len(u[i]) \in Nat
         /\ \A p : p \in PlacesIn(u) <=> \E i \in 1..Len(u) : \E j \in 1..Len(u[i]) : p = <<i, j>>
         /\ PlacesIn(u) \subseteq Nat \X Nat
  BY DEF IsUnit, PlacesIn

(* The declarations of a unit come one after the other. *)
LEMMA PrecedesIsOrder ==
  \A p, q, r \in Nat \X Nat :
    /\ Precedes(p, p)
    /\ Precedes(p, q) \/ Precedes(q, p)
    /\ Precedes(p, q) /\ Precedes(q, p) => p = q
    /\ Precedes(p, q) /\ Precedes(q, r) => Precedes(p, r)
  BY DEF Precedes

LEMMA FirstPlace ==
  ASSUME NEW T, T \subseteq Nat \X Nat, T # {}
  PROVE  \E p \in T : \A q \in T : Precedes(p, q)
<1> DEFINE Less == OpToRel(<, Nat)
           Lex == LexPairOrdering(Less, Less, Nat, Nat)
<1>1. IsWellFoundedOn(Lex, Nat \X Nat)
  BY NatLessThanWellFounded, WFLexPairOrdering
<1>2. PICK p \in T : \A q \in T : <<q, p>> \notin Lex
  <2> HIDE DEF Lex
  <2> QED
    BY <1>1, WFMin
<1>3. \A i, j \in Nat : <<i, j>> \in Less <=> i < j
  BY DEF OpToRel
<1> HIDE DEF Less
<1>4. \A q \in T : Precedes(p, q)
  <2> TAKE q \in T
  <2>1. p \in Nat \X Nat /\ q \in Nat \X Nat
    OBVIOUS
  <2>2. ~(q[1] < p[1] \/ (q[1] = p[1] /\ q[2] < p[2]))
    <3>1. q[1] \in Nat /\ q[2] \in Nat /\ p[1] \in Nat /\ p[2] \in Nat
      BY <2>1
    <3>2. <<q, p>> \in Lex <=> <<q[1], p[1]>> \in Less \/ (q[1] = p[1] /\ <<q[2], p[2]>> \in Less)
      BY <2>1, Zenon DEF LexPairOrdering
    <3> HIDE DEF Lex
    <3> QED
      BY <1>2, <1>3, <3>1, <3>2
  <2> QED
    BY <2>1, <2>2 DEF Precedes
<1> QED
  BY <1>4

LEMMA PlacesAreFinite ==
  ASSUME NEW u, IsUnit(u)
  PROVE  IsFiniteSet(PlacesIn(u))
<1> DEFINE Row(i) == {<<i, j>> : j \in DOMAIN u[i]}
           Rows == {Row(i) : i \in DOMAIN u}
<1>1. \A i \in DOMAIN u : IsFiniteSet(Row(i))
  <2> TAKE i \in DOMAIN u
  <2>1. [j \in DOMAIN u[i] |-> <<i, j>>] \in Surjection(DOMAIN u[i], Row(i))
    BY DEF Surjection
  <2>2. DOMAIN u[i] = 1..Len(u[i]) /\ Len(u[i]) \in Int
    BY PlacesAreNumbers
  <2>3. IsFiniteSet(DOMAIN u[i])
    BY <2>2, FS_Interval
  <2> QED
    BY <2>1, <2>3, FS_Surjection
<1>2. IsFiniteSet(Rows)
  <2> HIDE DEF Row
  <2>1. [i \in DOMAIN u |-> Row(i)] \in Surjection(DOMAIN u, Rows)
    BY DEF Surjection
  <2>2. IsFiniteSet(DOMAIN u)
    BY PlacesAreNumbers, FS_Interval
  <2> QED
    BY <2>1, <2>2, FS_Surjection
<1>3. PlacesIn(u) = UNION Rows
  BY DEF PlacesIn
<1>4. \A row \in Rows : IsFiniteSet(row)
  BY <1>1
<1> HIDE DEF Rows
<1> QED
  BY <1>2, <1>3, <1>4, FS_UNION

(* An entity is known by its first declaration, ... *)
LEMMA ParsedPlaces ==
  IsSession =>
    /\ Parsed \subseteq PlacesIn(Unit)
    /\ PlacesIn(Unit) \subseteq Nat \X Nat
    /\ \A p \in PlacesIn(Unit) : p \in Parsed <=> p[1] <= pos
  BY UnitIsOne, PlacesAreNumbers DEF Parsed

LEMMA FirstDeclaration ==
  IsSession =>
    \A n : Declarations(n) # {} =>
      /\ CanonicalDecl(n) \in Declarations(n)
      /\ \A q \in Declarations(n) : Precedes(CanonicalDecl(n), q)
<1> SUFFICES ASSUME IsSession, NEW n, Declarations(n) # {}
             PROVE  /\ CanonicalDecl(n) \in Declarations(n)
                    /\ \A q \in Declarations(n) : Precedes(CanonicalDecl(n), q)
  OBVIOUS
<1>1. Declarations(n) \subseteq Nat \X Nat
  BY ParsedPlaces DEF Declarations
<1>2. \E p \in Declarations(n) : \A q \in Declarations(n) : Precedes(p, q)
  BY <1>1, FirstPlace
<1> QED
  BY <1>2 DEF CanonicalDecl

(* ... all of a function's are of a function, *)
LEMMA NamesAreDeclared ==
  IsSession =>
    \A n : n \in FunctionNames <=>
             Declarations(n) # {} /\ \A p \in Declarations(n) : Item(p).k = "function"
<1> SUFFICES ASSUME IsSession PROVE \A n : n \in FunctionNames <=>
             Declarations(n) # {} /\ \A p \in Declarations(n) : Item(p).k = "function"
  OBVIOUS
<1>1. \A p, q \in Parsed : Item(p).name = Item(q).name => Item(p).k = Item(q).k
  BY UnitIsOne, ParsedPlaces DEF IsUnit, Item
<1> QED
  BY <1>1 DEF FunctionNames, Declarations

(* and what is there is a function of this name. *)
LEMMA CanonicalOfFunction ==
  IsSession =>
    \A n \in FunctionNames :
      /\ CanonicalDecl(n) \in PlacesIn(Unit) /\ CanonicalDecl(n) \in Nat \X Nat
      /\ CanonicalDecl(n) \in Parsed
      /\ Item(CanonicalDecl(n)).k = "function" /\ Item(CanonicalDecl(n)).name = n
      /\ \A p \in Parsed : Item(p).name = n => Precedes(CanonicalDecl(n), p)
<1> SUFFICES ASSUME IsSession, NEW n \in FunctionNames
             PROVE  /\ CanonicalDecl(n) \in PlacesIn(Unit) /\ CanonicalDecl(n) \in Nat \X Nat
                    /\ CanonicalDecl(n) \in Parsed
                    /\ Item(CanonicalDecl(n)).k = "function" /\ Item(CanonicalDecl(n)).name = n
                    /\ \A p \in Parsed : Item(p).name = n => Precedes(CanonicalDecl(n), p)
  OBVIOUS
<1>1. Declarations(n) # {} /\ \A p \in Declarations(n) : Item(p).k = "function"
  BY NamesAreDeclared
<1>2. CanonicalDecl(n) \in Declarations(n) /\ \A q \in Declarations(n) : Precedes(CanonicalDecl(n), q)
  BY <1>1, FirstDeclaration
<1> QED
  BY <1>1, <1>2, ParsedPlaces DEF Declarations

(* Two functions do not share an address.                                  *)
AddressesAreDistinct == \A m, n \in FunctionNames : At(m) = At(n) => m = n

LEMMA AddressesDiffer == IsSession => AddressesAreDistinct
<1> SUFFICES ASSUME IsSession, NEW m \in FunctionNames, NEW n \in FunctionNames, At(m) = At(n)
             PROVE  m = n
  BY DEF AddressesAreDistinct
<1> DEFINE UpTo(p) == {q \in PlacesIn(Unit) : Precedes(q, p)}
<1>1. \A p : IsFiniteSet(UpTo(p))
  <2> TAKE p
  <2>1. IsFiniteSet(PlacesIn(Unit))
    BY UnitIsOne, PlacesAreFinite
  <2> QED
    BY <2>1, FS_Subset
<1>2. ASSUME NEW p \in PlacesIn(Unit), NEW q \in PlacesIn(Unit),
             Precedes(p, q), Cardinality(UpTo(p)) = Cardinality(UpTo(q))
      PROVE  p = q
  <2>1. p \in Nat \X Nat /\ q \in Nat \X Nat /\ PlacesIn(Unit) \subseteq Nat \X Nat
    BY ParsedPlaces
  <2>2. UpTo(p) \in SUBSET UpTo(q)
    BY <1>2, <2>1, PrecedesIsOrder
  <2>3. UpTo(q) = UpTo(p)
    <3> HIDE DEF UpTo
    <3> QED
      BY <1>1, <1>2, <2>2, FS_Subset
  <2>4. q \in UpTo(p)
    BY <2>1, <2>3, PrecedesIsOrder
  <2> QED
    BY <1>2, <2>1, <2>4, PrecedesIsOrder
<1>3. Cardinality(UpTo(CanonicalDecl(m))) = Cardinality(UpTo(CanonicalDecl(n)))
  BY DEF At
<1>4. CanonicalDecl(m) = CanonicalDecl(n)
  <2> HIDE DEF UpTo
  <2> QED
    BY <1>2, <1>3, CanonicalOfFunction, PrecedesIsOrder
<1> QED
  BY <1>4, CanonicalOfFunction

-----------------------------------------------------------------------------
(* Hierarchies *)

(* A method is declared after what it overrides, *)
LEMMA BaseIsEarlier ==
  IsSession =>
    \A n \in FunctionNames : Base(n) # None =>
      /\ Base(n) \in FunctionNames
      /\ ~Precedes(CanonicalDecl(n), CanonicalDecl(Base(n)))
<1> SUFFICES ASSUME IsSession, NEW n \in FunctionNames, Base(n) # None
             PROVE  /\ Base(n) \in FunctionNames
                    /\ ~Precedes(CanonicalDecl(n), CanonicalDecl(Base(n)))
  OBVIOUS
<1> DEFINE p == CanonicalDecl(n)
<1>1. p \in Parsed /\ p \in PlacesIn(Unit) /\ Item(p).k = "function" /\ Item(p).base # None
  BY CanonicalOfFunction DEF Base
<1>2. PICK q \in PlacesIn(Unit) : Precedes(q, p) /\ q # p /\ IsFunctionNamed(Item(q), Base(n))
  BY <1>1, UnitIsOne DEF IsUnit, Item, Base
<1>3. p \in Nat \X Nat /\ q \in Nat \X Nat
  BY <1>1, ParsedPlaces
<1>4. q \in Parsed
  BY <1>1, <1>2, <1>3, ParsedPlaces DEF Precedes, IsSession
<1>5. Base(n) \in FunctionNames
  BY <1>2, <1>4 DEF FunctionNames, IsFunctionNamed
<1>6. Precedes(CanonicalDecl(Base(n)), q) /\ CanonicalDecl(Base(n)) \in Nat \X Nat
  BY <1>2, <1>4, <1>5, CanonicalOfFunction DEF IsFunctionNamed
<1> QED
  BY <1>2, <1>3, <1>5, <1>6, PrecedesIsOrder

(* so among any functions one overrides none of the others.                *)
LEMMA SomeFunctionIsFirst ==
  IsSession =>
    \A T \in SUBSET FunctionNames : T # {} => \E n \in T : Base(n) = None \/ Base(n) \notin T
<1> SUFFICES ASSUME IsSession, NEW T \in SUBSET FunctionNames, T # {}
             PROVE  \E n \in T : Base(n) = None \/ Base(n) \notin T
  OBVIOUS
<1> DEFINE D == {CanonicalDecl(n) : n \in T}
<1>1. D \subseteq Nat \X Nat /\ D # {}
  BY CanonicalOfFunction
<1>2. PICK n \in T : \A m \in T : Precedes(CanonicalDecl(n), CanonicalDecl(m))
  <2>1. \E p \in D : \A q \in D : Precedes(p, q)
    <3> HIDE DEF D
    <3> QED
      BY <1>1, FirstPlace
  <2> QED
    BY <2>1
<1> QED
  BY <1>2, BaseIsEarlier

(* The root of what a method overrides is defined by recursion. *)
LEMMA RootUnfolds ==
  IsSession =>
    \A n \in FunctionNames : RootOf(n) = IF Base(n) = None THEN n ELSE RootOf(Base(n))
<1> SUFFICES ASSUME IsSession, NEW name \in FunctionNames
             PROVE  RootOf(name) = IF Base(name) = None THEN name ELSE RootOf(Base(name))
  OBVIOUS
<1> DEFINE S == FunctionNames
           Before == [n \in S |-> IF Base(n) = None THEN {} ELSE {Base(n)}]
           Step == [f \in [S -> S] |-> [n \in S |-> IF Base(n) = None THEN n ELSE f[Base(n)]]]
           root[n \in S] == IF Base(n) = None THEN n ELSE root[Base(n)]
<1>1. \A n \in S : Base(n) # None => Base(n) \in S
  BY BaseIsEarlier
<1>2. IsWellFounded(S, Before)
  BY SomeFunctionIsFirst DEF IsWellFounded
<1>3. \E f \in [S -> S] : f = [n \in S |-> IF Base(n) = None THEN n ELSE f[Base(n)]]
  <2> HIDE DEF S
  <2>1. Before \in [S -> SUBSET S] /\ Step \in [[S -> S] -> [S -> S]]
    BY <1>1
  <2>2. LooksBack(S, S, Before, Step)
    BY <1>1 DEF LooksBack, Agree
  <2>3. S # {}
    BY DEF S
  <2> HIDE DEF Before, Step
  <2>4. HasSolution(S, S, Step)
    BY <1>2, <2>1, <2>2, <2>3, RecursionHasSolution DEF IsRecursion
  <2> QED
    BY <2>4 DEF HasSolution, Step
<1>4. root = [n \in S |-> IF Base(n) = None THEN n ELSE root[Base(n)]]
  BY <1>3, Zenon
<1>5. \A n : RootOf(n) = root[n]
  BY DEF RootOf
<1> HIDE DEF root
<1> QED
  BY <1>4, <1>5

LEMMA RootIsRoot ==
  IsSession => \A n \in FunctionNames : RootOf(n) \in FunctionNames /\ RootOf(RootOf(n)) = RootOf(n)
<1> SUFFICES ASSUME IsSession
             PROVE  \A n \in FunctionNames : RootOf(n) \in FunctionNames /\ RootOf(RootOf(n)) = RootOf(n)
  OBVIOUS
<1> DEFINE T == {n \in FunctionNames : ~(RootOf(n) \in FunctionNames /\ RootOf(RootOf(n)) = RootOf(n))}
<1> SUFFICES ASSUME T # {} PROVE FALSE
  OBVIOUS
<1>1. PICK n \in T : Base(n) = None \/ Base(n) \notin T
  BY SomeFunctionIsFirst
<1> QED
  BY <1>1, RootUnfolds, BaseIsEarlier

-----------------------------------------------------------------------------
(* The invariant *)

(* What the cache holds for this unit, but for what is inherited: the      *)
(* contract of a function is that of its root, speaking of other           *)
(* parameters, and the root is there too;                                  *)
CacheIsRight(c) ==
  /\ \A n \in FunctionNames : At(n) \in DOMAIN c /\ ~IsInherited(n) =>
       /\ At(RootOf(n)) \in DOMAIN c
       /\ c[At(n)] = [from |-> RootOf(n), speaksOf |-> n, params |-> c[At(RootOf(n))].params]
  /\ \A a \in DOMAIN c : a[1] = slab /\ a \notin inherited => \E n \in FunctionNames : a = At(n)

(* what has been handed out in this unit is still in the cache.            *)
AnswerIsCached(c, a) ==
  /\ a.unit \in Nat /\ a.unit <= unit
  /\ a.unit = unit =>
       /\ a.asked \in FunctionNames
       /\ a.root = RootOf(a.asked)
       /\ At(a.asked) \in DOMAIN c
       /\ a.isInherited = IsInherited(a.asked)
       /\ a.contract = c[At(a.asked)]

IInv ==
  /\ IsSession
  /\ todo \in Seq(Parsed)
  /\ asking \in Seq(FunctionNames)
  /\ CacheIsRight(contracts)
  /\ \A a \in answers : AnswerIsCached(contracts, a)
  /\ ContractsAreTheirOwn
  /\ OneContractPerHierarchy

-----------------------------------------------------------------------------
(* What later declarations leave alone *)

LEMMA DeclarationsStay ==
  ASSUME IsSession, IsSession', session' = session, unit' = unit, slab' = slab, inherited' = inherited,
         pos <= pos'
  PROVE  \A n \in FunctionNames :
           /\ n \in FunctionNames'
           /\ CanonicalDecl(n)' = CanonicalDecl(n)
           /\ Base(n)' = Base(n)
           /\ At(n)' = At(n)
<1>1. Unit' = Unit /\ \A p : Item(p)' = Item(p)
  BY DEF Unit, Item
<1>2. Parsed \subseteq Parsed'
  BY <1>1, ParsedPlaces DEF Parsed, IsSession
<1>7. (IsSession =>
    \A n \in FunctionNames :
      /\ CanonicalDecl(n) \in PlacesIn(Unit) /\ CanonicalDecl(n) \in Nat \X Nat
      /\ CanonicalDecl(n) \in Parsed
      /\ Item(CanonicalDecl(n)).k = "function" /\ Item(CanonicalDecl(n)).name = n
      /\ \A p \in Parsed : Item(p).name = n => Precedes(CanonicalDecl(n), p))'
  BY CanonicalOfFunction, PTL
<1> SUFFICES ASSUME NEW n \in FunctionNames
             PROVE  /\ n \in FunctionNames' /\ CanonicalDecl(n)' = CanonicalDecl(n)
                    /\ Base(n)' = Base(n) /\ At(n)' = At(n)
  OBVIOUS
<1>3. n \in FunctionNames'
  BY <1>1, <1>2 DEF FunctionNames
<1>4. CanonicalDecl(n)' = CanonicalDecl(n)
  <2> DEFINE p == CanonicalDecl(n)'
             q == CanonicalDecl(n)
  <2>3. p \in Nat \X Nat /\ p \in Parsed' /\ Item(p).name = n
        /\ \A r \in Parsed' : Item(r).name = n => Precedes(p, r)
    BY <1>1, <1>3, <1>7
  <2>4. q \in Nat \X Nat /\ q \in Parsed /\ Item(q).name = n
        /\ \A r \in Parsed : Item(r).name = n => Precedes(q, r)
    BY CanonicalOfFunction
  <2> HIDE DEF p, q
  <2>5. Precedes(p, q)
    BY <1>2, <2>3, <2>4
  <2>6. p \in Parsed
    BY <1>1, <2>3, <2>4, <2>5 DEF Parsed, Precedes, IsSession
  <2>7. p = q
    BY <2>3, <2>4, <2>5, <2>6, PrecedesIsOrder
  <2> QED
    BY <2>7 DEF p, q
<1>5. Base(n)' = Base(n)
  BY <1>1, <1>4 DEF Base
<1>6. At(n)' = At(n)
  BY <1>1, <1>4 DEF At
<1> QED
  BY <1>3, <1>4, <1>5, <1>6

LEMMA RootsStay ==
  ASSUME IsSession, IsSession', session' = session, unit' = unit, slab' = slab, inherited' = inherited,
         pos <= pos'
  PROVE  \A n \in FunctionNames : RootOf(n)' = RootOf(n)
<1> DEFINE T == {n \in FunctionNames : RootOf(n)' # RootOf(n)}
<1> SUFFICES ASSUME T # {} PROVE FALSE
  OBVIOUS
<1>2. (IsSession =>
    \A n \in FunctionNames : RootOf(n) = IF Base(n) = None THEN n ELSE RootOf(Base(n)))'
  BY RootUnfolds, PTL
<1>1. PICK n \in T : Base(n) = None \/ Base(n) \notin T
  BY SomeFunctionIsFirst
<1>3. n \in FunctionNames' /\ Base(n)' = Base(n)
  BY DeclarationsStay
<1>4. PICK base : base = Base(n)
  OBVIOUS
<1>5. RootOf(n)' = IF base = None THEN n ELSE RootOf(base)'
  BY <1>2, <1>3, <1>4
<1>6. RootOf(n) = IF base = None THEN n ELSE RootOf(base)
  BY <1>4, RootUnfolds
<1>7. base # None => base \in FunctionNames \ T
  BY <1>1, <1>4, BaseIsEarlier
<1> QED
  BY <1>5, <1>6, <1>7

LEMMA InheritanceStays ==
  ASSUME IsSession, IsSession', session' = session, unit' = unit, slab' = slab, inherited' = inherited,
         pos <= pos'
  PROVE  \A n \in FunctionNames : IsInherited(n)' = IsInherited(n)
<1> SUFFICES ASSUME NEW n \in FunctionNames PROVE IsInherited(n)' = IsInherited(n)
  OBVIOUS
<1>1. At(n)' = At(n) /\ RootOf(n)' = RootOf(n) /\ RootOf(n) \in FunctionNames
  BY DeclarationsStay, RootsStay, RootIsRoot
<1>2. \A r \in FunctionNames : At(r)' = At(r)
  BY DeclarationsStay
<1>3. At(RootOf(n))' = At(RootOf(n))
  BY <1>1, <1>2 DEF At
<1> QED
  BY <1>1, <1>3 DEF IsInherited

(* A function declared later has an address of its own. *)
LEMMA OldAddresses ==
  ASSUME IsSession, IsSession', session' = session, unit' = unit, slab' = slab, inherited' = inherited,
         pos <= pos',
         NEW k \in FunctionNames', NEW l \in FunctionNames, At(k)' = At(l)
  PROVE  k = l
<1>1. (IsSession => AddressesAreDistinct)'
  BY AddressesDiffer, PTL
<1>2. l \in FunctionNames' /\ At(l)' = At(l)
  BY DeclarationsStay
<1> QED
  BY <1>1, <1>2 DEF AddressesAreDistinct

LEMMA CacheStays ==
  ASSUME IsSession, IsSession', session' = session, unit' = unit, slab' = slab, inherited' = inherited,
         pos <= pos',
         CacheIsRight(contracts')
  PROVE  CacheIsRight(contracts)'
<1>1. ASSUME NEW n \in FunctionNames', At(n)' \in DOMAIN contracts', ~IsInherited(n)'
      PROVE  /\ At(RootOf(n))' \in DOMAIN contracts'
             /\ contracts'[At(n)'] = [from |-> RootOf(n)', speaksOf |-> n,
                                      params |-> contracts'[At(RootOf(n))'].params]
  <2>1. At(n)'[1] = slab
    BY DEF At
  <2>0. At(n)' \notin inherited
    BY <1>1 DEF IsInherited
  <2>2. PICK m \in FunctionNames : At(n)' = At(m)
    BY <1>1, <2>0, <2>1 DEF CacheIsRight
  <2>3. n = m
    BY <2>2, OldAddresses
  <2>4. At(RootOf(n)) \in DOMAIN contracts'
        /\ contracts'[At(n)] = [from |-> RootOf(n), speaksOf |-> n, params |-> contracts'[At(RootOf(n))].params]
    BY <1>1, <2>2, <2>3, InheritanceStays DEF CacheIsRight
  <2>5. RootOf(n) \in FunctionNames /\ RootOf(n)' = RootOf(n)
    BY <2>3, RootIsRoot, RootsStay
  <2>6. At(RootOf(n))' = At(RootOf(n))
    <3>1. \A r \in FunctionNames : At(r)' = At(r)
      BY DeclarationsStay
    <3> QED
      BY <2>5, <3>1 DEF At
  <2> QED
    BY <2>2, <2>3, <2>4, <2>5, <2>6
<1>2. ASSUME NEW a \in DOMAIN contracts', a[1] = slab', a \notin inherited'
      PROVE  \E n \in FunctionNames' : a = At(n)'
  BY <1>2, DeclarationsStay DEF CacheIsRight
<1> QED
  BY <1>1, <1>2 DEF CacheIsRight

LEMMA AnswersStay ==
  ASSUME IsSession, IsSession', session' = session, unit' = unit, slab' = slab, inherited' = inherited,
         pos <= pos',
         \A a \in answers' : AnswerIsCached(contracts', a)
  PROVE  (\A a \in answers : AnswerIsCached(contracts, a))'
  BY DeclarationsStay, RootsStay, InheritanceStays DEF AnswerIsCached

-----------------------------------------------------------------------------
(* Filling the cache *)

LEMMA FillingIsRight ==
  ASSUME IsSession, NEW c, CacheIsRight(c), NEW known, NEW n \in FunctionNames,
         NEW speaksOf \in MaySpeakOf(n), NEW d, d = GetLifetimeContracts(c, known, n, speaksOf)
  PROVE  /\ CacheIsRight(d)
         /\ At(n) \in DOMAIN d
         /\ \A a \in DOMAIN c : a \in DOMAIN d /\ d[a] = c[a]
<1> DEFINE r == RootOf(n)
           w == Emplaced(c, [a \in {At(r)} |-> Collect(known, r)])
<1>1. r \in FunctionNames /\ RootOf(r) = r
  BY RootIsRoot
<1>2. /\ DOMAIN w = DOMAIN c \cup {At(r)}
      /\ \A a \in DOMAIN c : w[a] = c[a]
      /\ At(r) \notin DOMAIN c => w[At(r)] = Collect(known, r)
  BY DEF Emplaced
<1>3. At(r)[1] = slab /\ At(n)[1] = slab
  BY DEF At
<1>7. \A m \in FunctionNames : ~IsInherited(m) => ~IsInherited(RootOf(m))
  BY RootIsRoot DEF IsInherited
<1>8. ~IsInherited(n) => speaksOf = n
  BY DEF MaySpeakOf
<1> HIDE DEF r, w
<1>4. ~IsInherited(r) => w[At(r)] = [from |-> r, speaksOf |-> r, params |-> w[At(r)].params]
  <2> SUFFICES ASSUME ~IsInherited(r)
               PROVE  w[At(r)] = [from |-> r, speaksOf |-> r, params |-> w[At(r)].params]
    OBVIOUS
  <2>1. CASE At(r) \in DOMAIN c
    BY <1>1, <1>2, <2>1 DEF CacheIsRight
  <2>2. CASE At(r) \notin DOMAIN c
    BY <1>2, <2>2 DEF Collect
  <2> QED
    BY <2>1, <2>2
<1>5. CASE At(n) \in DOMAIN c
  <2>1. d = c
    BY <1>5 DEF GetLifetimeContracts
  <2> QED
    BY <1>5, <2>1
<1>6. CASE At(n) \notin DOMAIN c
  <2>1. d = Emplaced(w, [a \in {At(n)} |-> CopyContract4Derived(w[At(r)], speaksOf)])
    BY <1>6 DEF GetLifetimeContracts, r, w
  <2>2. ~IsInherited(n) =>
          CopyContract4Derived(w[At(r)], speaksOf) = [from |-> r, speaksOf |-> n, params |-> w[At(r)].params]
    BY <1>4, <1>7, <1>8 DEF CopyContract4Derived, r
  <2>3. /\ DOMAIN d = DOMAIN w \cup {At(n)}
        /\ \A a \in DOMAIN w : d[a] = w[a]
        /\ At(n) \notin DOMAIN w /\ ~IsInherited(n) =>
             d[At(n)] = [from |-> r, speaksOf |-> n, params |-> w[At(r)].params]
    BY <2>1, <2>2 DEF Emplaced
  <2>4. \A a \in DOMAIN c : a \in DOMAIN d /\ d[a] = c[a]
    BY <1>2, <2>3
  <2>5. At(r) \in DOMAIN d /\ d[At(r)] = w[At(r)]
    BY <1>2, <2>3
  <2>6. ~IsInherited(n) => d[At(n)] = [from |-> r, speaksOf |-> n, params |-> d[At(r)].params]
    <3> SUFFICES ASSUME ~IsInherited(n)
                 PROVE  d[At(n)] = [from |-> r, speaksOf |-> n, params |-> d[At(r)].params]
      OBVIOUS
    <3>1. CASE At(n) \in DOMAIN w
      <4>1. At(n) = At(r)
        BY <1>2, <1>6, <3>1
      <4>2. n = r
        BY <1>1, <4>1, AddressesDiffer DEF AddressesAreDistinct
      <4> QED
        BY <1>4, <2>5, <4>2
    <3>2. CASE At(n) \notin DOMAIN w
      BY <2>3, <2>5, <3>2
    <3> QED
      BY <3>1, <3>2
  <2>7. ASSUME NEW m \in FunctionNames, At(m) \in DOMAIN d, ~IsInherited(m)
        PROVE  /\ At(RootOf(m)) \in DOMAIN d
               /\ d[At(m)] = [from |-> RootOf(m), speaksOf |-> m, params |-> d[At(RootOf(m))].params]
    <3>1. CASE At(m) \in DOMAIN c
      BY <2>4, <2>7, <3>1 DEF CacheIsRight
    <3>2. CASE At(m) = At(n)
      <4>1. m = n
        BY <3>2, AddressesDiffer DEF AddressesAreDistinct
      <4> QED
        BY <2>5, <2>6, <2>7, <4>1 DEF r
    <3>3. CASE At(m) = At(r)
      <4>1. m = r
        BY <1>1, <3>3, AddressesDiffer DEF AddressesAreDistinct
      <4> QED
        BY <1>1, <1>4, <2>5, <2>7, <4>1
    <3> QED
      BY <1>2, <2>3, <2>7, <3>1, <3>2, <3>3
  <2>8. ASSUME NEW a \in DOMAIN d, a[1] = slab, a \notin inherited
        PROVE  \E m \in FunctionNames : a = At(m)
    BY <1>1, <1>2, <2>3, <2>8 DEF CacheIsRight
  <2> QED
    BY <2>3, <2>4, <2>7, <2>8 DEF CacheIsRight
<1> QED
  BY <1>5, <1>6

-----------------------------------------------------------------------------
(* The steps *)

LEMMA InitIsRight == ASSUME Init PROVE IInv
<1>1. session # <<>> /\ session \in Seq(Range(session))
  BY SessionsAssumption DEF Init
<1>2. IsSession
  BY <1>1 DEF Init, IsSession
<1>3. CacheIsRight(contracts)
  BY DEF Init, CacheIsRight
<1> QED
  BY <1>2, <1>3 DEF Init, IInv, ContractsAreTheirOwn, OneContractPerHierarchy

(* Steps within a unit that hand nothing out. *)
LEMMA NothingHandedOut ==
  ASSUME IInv, session' = session, unit' = unit, slab' = slab, inherited' = inherited,
         pos' \in Nat, pos <= pos',
         contracts' = contracts, answers' = answers
  PROVE  /\ IsSession'
         /\ Parsed \subseteq Parsed' /\ FunctionNames \subseteq FunctionNames'
         /\ CacheIsRight(contracts)'
         /\ (\A a \in answers : AnswerIsCached(contracts, a))'
         /\ ContractsAreTheirOwn' /\ OneContractPerHierarchy'
<1>1. IsSession /\ IsSession'
  BY DEF IInv, IsSession
<1>2. FunctionNames \subseteq FunctionNames'
  BY <1>1, DeclarationsStay
<1>3. Parsed \subseteq Parsed'
  BY <1>1, ParsedPlaces DEF Parsed, Unit, IsSession
<1>4. CacheIsRight(contracts)'
  BY <1>1, CacheStays DEF IInv
<1>5. (\A a \in answers : AnswerIsCached(contracts, a))'
  BY <1>1, AnswersStay DEF IInv
<1>6. ContractsAreTheirOwn' /\ OneContractPerHierarchy'
  BY DEF IInv, ContractsAreTheirOwn, OneContractPerHierarchy
<1> QED
  BY <1>1, <1>2, <1>3, <1>4, <1>5, <1>6

LEMMA VisitedIsParsed ==
  ASSUME IInv, HandleTopLevelDecl
  PROVE  todo' \in Seq(Parsed')
<1> DEFINE decl == Unit[pos + 1]
           upTo == {j \in DOMAIN decl :
                      \A i \in 1..j : ~(decl[i].k = "function" /\ decl[i].inSystemHeader)}
<1>1. IsSession /\ IsUnit(Unit) /\ Unit' = Unit /\ pos' = pos + 1 /\ pos \in Nat /\ pos < Len(Unit)
  BY UnitIsOne DEF IInv, IsSession, HandleTopLevelDecl, Unit
<1>2. pos + 1 \in 1..Len(Unit) /\ DOMAIN decl = 1..Len(decl) /\ Len(decl) \in Nat
  BY <1>1, PlacesAreNumbers
<1>3. Cardinality(upTo) \in Nat /\ Cardinality(upTo) <= Len(decl)
  <2>1. IsFiniteSet(1..Len(decl)) /\ Cardinality(1..Len(decl)) = Len(decl)
    <3>1. \A n \in Nat : IsFiniteSet(1..n) /\ Cardinality(1..n) = n
      BY FS_Interval
    <3> QED
      BY <1>2, <3>1
  <2>2. upTo \in SUBSET (1..Len(decl))
    BY <1>2
  <2> HIDE DEF upTo, decl
  <2>3. IsFiniteSet(upTo) /\ Cardinality(upTo) <= Cardinality(1..Len(decl))
    BY <2>1, <2>2, FS_Subset
  <2> QED
    BY <2>1, <2>3, FS_CardinalityType
<1>4. todo' = [j \in 1..Cardinality(upTo) |-> <<pos + 1, j>>]
  BY DEF HandleTopLevelDecl, Visited
<1> HIDE DEF upTo
<1>5. \A j \in 1..Cardinality(upTo) : <<pos + 1, j>> \in Parsed'
  <2> TAKE j \in 1..Cardinality(upTo)
  <2>1. j \in 1..Len(decl)
    BY <1>2, <1>3
  <2>2. <<pos + 1, j>> \in PlacesIn(Unit)
    BY <1>1, <1>2, <2>1, PlacesAreNumbers
  <2> QED
    BY <1>1, <2>2 DEF Parsed
<1> QED
  BY <1>3, <1>4, <1>5

LEMMA HandleTopLevelDeclKeeps == ASSUME IInv, HandleTopLevelDecl PROVE IInv'
<1>1. /\ session' = session /\ unit' = unit /\ slab' = slab /\ inherited' = inherited
      /\ pos' \in Nat /\ pos <= pos'
      /\ contracts' = contracts /\ answers' = answers
  BY DEF IInv, IsSession, HandleTopLevelDecl
<1>2. (asking \in Seq(FunctionNames))'
  BY DEF HandleTopLevelDecl
<1> QED
  BY <1>1, <1>2, NothingHandedOut, VisitedIsParsed DEF IInv

LEMMA UnrecoverableErrorKeeps == ASSUME IInv, UnrecoverableError PROVE IInv'
<1>1. /\ session' = session /\ unit' = unit /\ slab' = slab /\ inherited' = inherited
      /\ pos' \in Nat /\ pos <= pos'
      /\ contracts' = contracts /\ answers' = answers
  BY DEF IInv, IsSession, UnrecoverableError
<1>2. (todo \in Seq(Parsed))' /\ (asking \in Seq(FunctionNames))'
  BY DEF UnrecoverableError
<1> QED
  BY <1>1, <1>2, NothingHandedOut DEF IInv

(* What a body calls is declared when the body is analysed. *)
LEMMA CalleesAreDeclared ==
  ASSUME IInv, RunAnalysis
  PROVE  (asking \in Seq(FunctionNames))'
<1> DEFINE p == Head(todo)
           f == Item(p)
<1>1. CASE asking' = asking
  <2>1. FunctionNames' = FunctionNames
    BY DEF RunAnalysis, FunctionNames, Parsed, Item, Unit
  <2> QED
    BY <1>1, <2>1 DEF IInv
<1>2. CASE f.k = "function" /\ asking' = <<f.name>> \o f.calls
  <2>1. IsSession /\ IsUnit(Unit)
    BY UnitIsOne DEF IInv
  <2>2. p \in Parsed /\ p \in PlacesIn(Unit) /\ p[1] <= pos
    BY <2>1, ParsedPlaces DEF IInv, RunAnalysis
  <2>3. f.calls \in Seq(Range(f.calls)) /\
        \A name \in Range(f.calls) :
          \E q \in PlacesIn(Unit) : q[1] <= p[1] /\ IsFunctionNamed(Item(q), name)
    BY <1>2, <2>1, <2>2 DEF IsUnit, Item
  <2>4. Range(f.calls) \subseteq FunctionNames
    <3> SUFFICES ASSUME NEW name \in Range(f.calls) PROVE name \in FunctionNames
      OBVIOUS
    <3>1. PICK q \in PlacesIn(Unit) : q[1] <= p[1] /\ IsFunctionNamed(Item(q), name)
      BY <2>3
    <3>2. q \in Parsed
      <4>1. q \in Nat \X Nat /\ p \in Nat \X Nat /\ pos \in Nat
        BY <2>1, <2>2, ParsedPlaces DEF IsSession
      <4> QED
        BY <2>1, <2>2, <3>1, <4>1, ParsedPlaces
    <3> QED
      BY <3>1, <3>2 DEF FunctionNames, IsFunctionNamed
  <2>5. f.name \in FunctionNames
    BY <1>2, <2>2 DEF FunctionNames
  <2> HIDE DEF f, p
  <2>6. <<f.name>> \o f.calls \in Seq(FunctionNames)
    BY <2>3, <2>4, <2>5
  <2>7. FunctionNames' = FunctionNames
    BY DEF RunAnalysis, FunctionNames, Parsed, Item, Unit
  <2> QED
    BY <1>2, <2>6, <2>7
<1> QED
  BY <1>1, <1>2 DEF RunAnalysis

LEMMA RunAnalysisKeeps == ASSUME IInv, RunAnalysis PROVE IInv'
<1>1. /\ session' = session /\ unit' = unit /\ slab' = slab /\ inherited' = inherited
      /\ pos' \in Nat /\ pos <= pos'
      /\ contracts' = contracts /\ answers' = answers
  BY DEF IInv, IsSession, RunAnalysis
<1>2. todo' \in Seq(Parsed)
  BY DEF IInv, RunAnalysis
<1>3. (todo \in Seq(Parsed))'
  BY <1>1, <1>2, NothingHandedOut
<1> QED
  BY <1>1, <1>3, NothingHandedOut, CalleesAreDeclared DEF IInv

(* The contract of a function and that of another in its hierarchy. *)
LEMMA AskForContractsKeeps == ASSUME IInv, AskForContracts PROVE IInv'
<1> DEFINE name == Head(asking)
           new == [unit |-> unit, asked |-> name, root |-> RootOf(name), isInherited |-> IsInherited(name),
                   contract |-> contracts'[At(name)]]
<1>1. /\ session' = session /\ unit' = unit /\ slab' = slab /\ inherited' = inherited /\ pos' = pos /\ todo' = todo
      /\ \E speaksOf \in MaySpeakOf(name) :
           contracts' = GetLifetimeContracts(contracts, categories, name, speaksOf)
      /\ answers' = answers \cup {new}
      /\ asking # <<>> /\ asking' = Tail(asking)
  BY DEF AskForContracts
<1>2. IsSession /\ IsSession' /\ pos <= pos' /\ name \in FunctionNames /\ unit \in Nat
  BY <1>1 DEF IInv, IsSession
<1>3. /\ CacheIsRight(contracts') /\ At(name) \in DOMAIN contracts'
      /\ \A a \in DOMAIN contracts : a \in DOMAIN contracts' /\ contracts'[a] = contracts[a]
  BY <1>1, <1>2, FillingIsRight DEF IInv
<1>4. \A a \in answers' : AnswerIsCached(contracts', a)
  <2>1. AnswerIsCached(contracts', new)
    BY <1>2, <1>3 DEF AnswerIsCached
  <2>2. \A a \in answers : AnswerIsCached(contracts', a)
    BY <1>3 DEF AnswerIsCached, IInv
  <2> HIDE DEF new
  <2> QED
    BY <1>1, <2>1, <2>2
<1>5. ContractsAreTheirOwn'
  <2>1. ~new.isInherited => new.contract.from = new.root /\ new.contract.speaksOf = new.asked
    BY <1>2, <1>3 DEF CacheIsRight
  <2> HIDE DEF new
  <2> QED
    BY <1>1, <2>1 DEF IInv, ContractsAreTheirOwn, IsItsOwn
<1>6. OneContractPerHierarchy'
  <2>1. \A a \in answers' : a.unit = unit /\ ~a.isInherited => a.contract.params = contracts'[At(a.root)].params
    BY <1>3, <1>4 DEF AnswerIsCached, CacheIsRight
  <2>2. new.unit = unit
    OBVIOUS
  <2> HIDE DEF new
  <2> QED
    BY <1>1, <2>1, <2>2 DEF IInv, OneContractPerHierarchy
<1>7. (todo \in Seq(Parsed))' /\ (asking \in Seq(FunctionNames))'
  <2>1. Parsed' = Parsed /\ FunctionNames' = FunctionNames
    BY <1>1 DEF Parsed, FunctionNames, Item, Unit
  <2> QED
    BY <1>1, <2>1 DEF IInv
<1> HIDE DEF name, new
<1> QED
  BY <1>1, <1>2, <1>3, <1>4, <1>5, <1>6, <1>7, CacheStays, AnswersStay DEF IInv

(* When the next unit begins all that is cached is inherited. *)
LEMMA NextUnitKeeps == ASSUME IInv, NextUnit PROVE IInv'
<1>1. IsSession'
  BY DEF IInv, IsSession, NextUnit
<1>2. FunctionNames' = {}
  <2>1. (IsSession =>
          /\ Parsed \subseteq PlacesIn(Unit)
          /\ PlacesIn(Unit) \subseteq Nat \X Nat
          /\ \A p \in PlacesIn(Unit) : p \in Parsed <=> p[1] <= pos)'
    BY ParsedPlaces, PTL
  <2>2. (IsSession => IsUnit(Unit))'
    BY UnitIsOne, PTL
  <2>3. \A p \in PlacesIn(Unit)' : p[1] >= 1
    <3>1. \A u : IsUnit(u) => \A p \in PlacesIn(u) : p[1] >= 1
      BY PlacesAreNumbers
    <3>2. IsUnit(Unit')
      BY <1>1, <2>2
    <3> QED
      BY <3>1, <3>2
  <2>4. Parsed' = {}
    BY <1>1, <2>1, <2>3 DEF NextUnit
  <2> QED
    BY <2>4 DEF FunctionNames
<1>3. (todo \in Seq(Parsed))' /\ (asking \in Seq(FunctionNames))'
  BY DEF NextUnit, IsUnitDone
<1>5. CacheIsRight(contracts)'
  BY <1>2 DEF CacheIsRight, NextUnit
<1>6. (\A a \in answers : AnswerIsCached(contracts, a))'
  BY DEF IInv, IsSession, NextUnit, AnswerIsCached
<1>7. ContractsAreTheirOwn' /\ OneContractPerHierarchy'
  BY DEF IInv, NextUnit, ContractsAreTheirOwn, OneContractPerHierarchy
<1> QED
  BY <1>1, <1>3, <1>5, <1>6, <1>7 DEF IInv

-----------------------------------------------------------------------------
(* The theorems *)

LEMMA IsInvariant == Spec => []IInv
<1>1. Init => IInv
  BY InitIsRight
<1>2. IInv /\ [Next]_vars => IInv'
  <2> SUFFICES ASSUME IInv, [Next]_vars PROVE IInv'
    OBVIOUS
  <2>1. CASE UNCHANGED vars
    <3>1. /\ session' = session /\ unit' = unit /\ slab' = slab /\ inherited' = inherited
          /\ pos' \in Nat /\ pos <= pos'
          /\ contracts' = contracts /\ answers' = answers
      BY <2>1 DEF IInv, IsSession, vars
    <3>2. (todo \in Seq(Parsed))' /\ (asking \in Seq(FunctionNames))'
      <4>1. todo' = todo /\ asking' = asking /\ Parsed \subseteq Parsed' /\ FunctionNames \subseteq FunctionNames'
        BY <2>1, <3>1, NothingHandedOut DEF vars
      <4> QED
        BY <4>1 DEF IInv
    <3> QED
      BY <3>1, <3>2, NothingHandedOut DEF IInv
  <2> QED
    BY <2>1, HandleTopLevelDeclKeeps, UnrecoverableErrorKeeps, RunAnalysisKeeps,
       AskForContractsKeeps, NextUnitKeeps DEF Next
<1> QED
  BY <1>1, <1>2, PTL DEF Spec

(* Every contract that is handed out was collected from the root of what   *)
(* the function overrides and speaks of the function's own parameters      *)
(* (LifetimeAttrHandling.cpp:567-598), whatever the caches were asked for  *)
(* before, in whatever order, unless the function or that root stands      *)
(* where an earlier unit, now freed, had a function with a contract.       *)
THEOREM ContractsAreOwn == Spec => []ContractsAreTheirOwn
<1>1. IInv => ContractsAreTheirOwn
  BY DEF IInv
<1> QED
  BY <1>1, IsInvariant, PTL

(* With that exception all functions of one hierarchy go by one contract   *)
(* throughout a unit, though the classes it speaks of may get another      *)
(* category when they are asked for again (LifetimeAttrHandling.cpp:574).  *)
THEOREM HierarchiesAgree == Spec => []OneContractPerHierarchy
<1>1. IInv => OneContractPerHierarchy
  BY DEF IInv
<1> QED
  BY <1>1, IsInvariant, PTL
=============================================================================
