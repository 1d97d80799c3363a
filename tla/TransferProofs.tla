--------------------------- MODULE TransferProofs ---------------------------
(***************************************************************************)
(* What the transfer function does with psets, for every program, and what *)
(* it does with an expression, a statement and a block of a pointer        *)
(* program: the psets stay those of its locals, and nothing that may       *)
(* happen is left out.                                                     *)
(***************************************************************************)
EXTENDS PointerPrograms, FiniteSetTheorems, WellFoundedInduction, TLAPS

(* A state of the builder, of which only the fields used here matter.      *)
IsBuilder(s) == {"pmap", "falseExit", "diags"} \subseteq DOMAIN s

(* Values are not the marker for globals, and a pointer to a local points  *)
(* to it or into it, not past pointers stored in it.                       *)
IsStore(st) ==
  \A o \in DOMAIN st :
    /\ st[o] # Global
    /\ st[o] \notin {Null, Invalid, Opaque} /\ Kind(st[o]) = "Local" => StaysInObject(st[o].path)

-----------------------------------------------------------------------------
(* Maps *)

(* Adding to some takes nothing away from any.                             *)
LEMMA Adding ==
  ASSUME NEW pmap, NEW vs, NEW ps
  PROVE  /\ DOMAIN AddToVars(pmap, vs, ps) = vs \cup DOMAIN pmap
         /\ \A v \in vs : ps \subseteq AddToVars(pmap, vs, ps)[v]
         /\ \A v \in DOMAIN pmap : pmap[v] \subseteq AddToVars(pmap, vs, ps)[v]
BY DEF AddToVars

(* A pset with more members describes as much.                             *)
LEMMA MoreDescribesAsMuch ==
  ASSUME NEW p, NEW q, NEW x, p \subseteq q, Describes(p, x) PROVE Describes(q, x)
BY DEF Describes

(* One with Invalid describes everything.                                  *)
LEMMA InvalidDescribesAll == ASSUME NEW p, NEW x, Invalid \in p PROVE Describes(p, x)
BY DEF Describes

-----------------------------------------------------------------------------
(* Assignments *)

(* An assignment through lhs, one of whose locations is l, of a value that *)
(* rhs describes keeps account of the store: the strong update, since l is *)
(* then all lhs can be, and the weak one, since it forgets nothing.        *)
THEOREM AssignmentIsSound ==
  ASSUME NEW s, IsBuilder(s), NEW lhs, IsFiniteSet(lhs), NEW rhs, NEW loc,
         NEW st, AccountsFor(s.pmap, st),
         NEW l \in VarsOf(lhs), NEW x, Describes(rhs, x)
  PROVE  AccountsFor(SetPSet(s, lhs, rhs, loc).pmap, Put(st, l, x))
<1> DEFINE vs == VarsOf(lhs)
           before == s.pmap
           after == SetPSet(s, lhs, rhs, loc).pmap
           stored == Put(st, l, x)
<1>1. after = IF Cardinality(vs) = 1 THEN SetVars(before, vs, rhs) ELSE AddToVars(before, vs, rhs)
  BY DEF SetPSet, IsBuilder, Diagnose
<1>2. DOMAIN stored = {l} \cup DOMAIN st /\ stored[l] = x /\ \A v \in DOMAIN st \ {l} : stored[v] = st[v]
  BY DEF Put
<1>3. \A v \in DOMAIN st : st[v] # Opaque => v \in DOMAIN before /\ Describes(before[v], st[v])
  BY DEF AccountsFor
<1>4. IsFiniteSet(vs)
  BY FS_Subset DEF VarsOf
<1> HIDE DEF vs, before, after, stored
<1> SUFFICES ASSUME NEW v \in DOMAIN stored, stored[v] # Opaque
             PROVE  v \in DOMAIN after /\ Describes(after[v], stored[v])
  BY DEF AccountsFor, stored, after
<1>5. CASE Cardinality(vs) = 1
  <2>1. vs = {l}
    BY <1>4, <1>5, FS_Singleton DEF vs
  <2>2. after = SetVars(before, {l}, rhs)
    BY <1>1, <1>5, <2>1
  <2>3. DOMAIN after = {l} \cup DOMAIN before /\ after[l] = rhs
    BY <2>2 DEF SetVars
  <2>4. \A w \in DOMAIN before \ {l} : after[w] = before[w]
    BY <2>2 DEF SetVars
  <2>5. CASE v = l
    BY <1>2, <2>3, <2>5
  <2>6. CASE v # l
    BY <1>2, <1>3, <2>3, <2>4, <2>6
  <2> QED
    BY <2>5, <2>6
<1>6. CASE Cardinality(vs) # 1
  <2>1. after = AddToVars(before, vs, rhs)
    BY <1>1, <1>6
  <2>2. DOMAIN after = vs \cup DOMAIN before
    BY <2>1, Adding
  <2>3. (\A w \in vs : rhs \subseteq after[w]) /\ (\A w \in DOMAIN before : before[w] \subseteq after[w])
    BY <2>1, Adding
  <2>4. CASE v = l
    <3>1. l \in DOMAIN after /\ rhs \subseteq after[l]
      BY <2>2, <2>3 DEF vs
    <3> QED
      BY <1>2, <2>4, <3>1, MoreDescribesAsMuch
  <2>5. CASE v # l
    <3>1. v \in DOMAIN before /\ Describes(before[v], st[v]) /\ stored[v] = st[v]
      BY <1>2, <1>3, <2>5
    <3> QED
      BY <2>2, <2>3, <3>1, MoreDescribesAsMuch
  <2> QED
    BY <2>4, <2>5
<1> QED
  BY <1>5, <1>6

-----------------------------------------------------------------------------
(* The end of scopes and of what Owners hold *)

(* What invalidateVar and invalidateOwner make of the pset of one location.*)
Invalidated(ps, v) == IF Invalid \notin ps /\ ContainsParent(ps, v) THEN {Invalid} ELSE ps

(* What points into local variable v dangles in the execution, and its     *)
(* pset says so, whatever else the set has.                                *)
LEMMA DanglingIsDescribed ==
  ASSUME NEW v, Kind(v) = "Local", NEW ps, NEW x, Describes(ps, x),
         x # Global,
         x \notin {Null, Invalid, Opaque} /\ Kind(x) = "Local" => StaysInObject(x.path)
  PROVE  Describes(Invalidated(ps, v), IF PointsInto(x, v) THEN Invalid ELSE x)
<1>1. CASE Invalid \in ps
  BY <1>1 DEF Invalidated, Describes
<1>2. CASE Invalid \notin ps /\ PointsInto(x, v)
  <2>1. x \in VarsOf(ps)
    <3>1. Kind(x) = "Local"
      BY <1>2 DEF PointsInto, Kind
    <3> QED
      BY <1>2, <3>1 DEF Describes, VarsOf, Special, PointsInto
  <2>2. IsParent(v, x)
    BY <1>2 DEF PointsInto, IsParent, Kind
  <2>3. Invalidated(ps, v) = {Invalid}
    BY <1>2, <2>1, <2>2 DEF Invalidated, ContainsParent
  <2> QED
    BY <2>3 DEF Describes
<1>3. CASE Invalid \notin ps /\ ~PointsInto(x, v)
  BY <1>3 DEF Invalidated, Describes
<1> QED
  BY <1>1, <1>2, <1>3

(* invalidateVar at the end of a scope: the pset of every location is      *)
(* invalidated where it points into the variable.                          *)
LEMMA InvalidatingVariable ==
  ASSUME NEW pmap, NEW d
  PROVE  /\ DOMAIN InvalidateVar(pmap, Var(d)) = DOMAIN pmap
         /\ \A w \in DOMAIN pmap :
              InvalidateVar(pmap, Var(d))[w] = Invalidated(pmap[w], Var(d))
<1> DEFINE dangling == {w \in DOMAIN pmap : Invalid \notin pmap[w] /\ ContainsParent(pmap[w], Var(d))}
<1>1. InvalidateVar(pmap, Var(d)) = SetVars(pmap, dangling, {Invalid})
  BY DEF InvalidateVar, IsDeref, Var
<1> QED
  BY <1>1 DEF SetVars, Invalidated

(* What of a map is left when local d leaves its scope.                    *)
LEMMA WhatErasingLeaves ==
  ASSUME NEW s, "pmap" \in DOMAIN s, NEW d, d # NoDecl
  PROVE  LET after == EraseVariable(s, d).pmap
         IN  /\ DOMAIN after =
                  {w \in DOMAIN s.pmap : ~IsParent(Var(d), w) /\ ~IsTemporaryExtendedBy(w, d)}
             /\ \A w \in DOMAIN after :
                  after[w] \in {Invalidated(s.pmap[w], Var(d)), {Invalid}}
<1> DEFINE mine == {w \in DOMAIN s.pmap : IsParent(Var(d), w)}
           rest == Without(s.pmap, mine)
           left == InvalidateVar(rest, Var(d))
           temps == {w \in DOMAIN left : IsTemporaryExtendedBy(w, d)}
           kept == Without(left, temps)
           dangling == {w \in DOMAIN kept : \E v \in VarsOf(left[w]) : IsTemporaryExtendedBy(v, d)}
           after == EraseVariable(s, d).pmap
<1>1. after = SetVars(kept, dangling, {Invalid})
  BY DEF EraseVariable
<1>2. DOMAIN rest = DOMAIN s.pmap \ mine /\ \A w \in DOMAIN rest : rest[w] = s.pmap[w]
  BY DEF Without, Restrict
<1>3. DOMAIN left = DOMAIN rest /\ \A w \in DOMAIN rest : left[w] = Invalidated(rest[w], Var(d))
  BY InvalidatingVariable
<1>4. DOMAIN kept = DOMAIN left \ temps /\ \A w \in DOMAIN kept : kept[w] = left[w]
  BY DEF Without, Restrict
<1> HIDE DEF rest, left, kept, after
<1>5. DOMAIN after = DOMAIN kept
  BY <1>1 DEF SetVars
<1>6. \A w \in DOMAIN kept : after[w] \in {kept[w], {Invalid}}
  BY <1>1 DEF SetVars
<1>7. DOMAIN after = {w \in DOMAIN s.pmap : ~IsParent(Var(d), w) /\ ~IsTemporaryExtendedBy(w, d)}
  BY <1>2, <1>3, <1>4, <1>5
<1>8. \A w \in DOMAIN after : after[w] \in {Invalidated(s.pmap[w], Var(d)), {Invalid}}
  BY <1>2, <1>3, <1>4, <1>5, <1>6
<1> QED
  BY <1>7, <1>8 DEF after

(* The end of the scope of local d keeps account of the store              *)
(* (VisitLifetimeEnds, eraseVariable): of what pointed into d the psets    *)
(* know that it dangles.  No temporary that d extends is in the store.     *)
THEOREM ScopeEndIsSound ==
  ASSUME NEW s, IsBuilder(s), NEW m, "store" \in DOMAIN m, IsStore(m.store),
         NEW d, d # NoDecl, Kind(Var(d)) = "Local",
         \A v \in DOMAIN m.store : ~IsTemporaryExtendedBy(v, d),
         AccountsFor(s.pmap, m.store)
  PROVE  AccountsFor(EraseVariable(s, d).pmap, EndScope(m, d).store)
<1> DEFINE after == EraseVariable(s, d).pmap
           rest == [o \in {w \in DOMAIN m.store : w.base # d} |-> m.store[o]]
           stored == EndScope(m, d).store
<1>1. stored = [o \in DOMAIN rest |-> IF PointsInto(rest[o], Var(d)) THEN Invalid ELSE rest[o]]
  BY DEF EndScope, Kill
<1>2. \A v \in DOMAIN stored :
        /\ v \in DOMAIN m.store /\ v.base # d
        /\ stored[v] = IF PointsInto(m.store[v], Var(d)) THEN Invalid ELSE m.store[v]
  BY <1>1
<1> HIDE DEF after, stored
<1> SUFFICES ASSUME NEW v \in DOMAIN stored, stored[v] # Opaque
             PROVE  v \in DOMAIN after /\ Describes(after[v], stored[v])
  BY DEF AccountsFor, after, stored
<1>3. v \in DOMAIN s.pmap /\ Describes(s.pmap[v], m.store[v])
  BY <1>2 DEF AccountsFor, PointsInto
<1>4. v \in DOMAIN after /\ after[v] \in {Invalidated(s.pmap[v], Var(d)), {Invalid}}
  BY <1>2, <1>3, WhatErasingLeaves DEF IsBuilder, IsParent, Var, after
<1>5. Describes(Invalidated(s.pmap[v], Var(d)), stored[v])
  BY <1>2, <1>3, DanglingIsDescribed DEF IsStore
<1> QED
  BY <1>4, <1>5 DEF Describes

(* What has left its scope is gone: it is no longer a location of the map, *)
(* and no pset that is kept up to date has it or a part of it as a member  *)
(* (eraseVariable, invalidateVar).                                         *)
THEOREM ScopeEndErases ==
  ASSUME NEW s, IsBuilder(s), NEW d, d # NoDecl,
         NEW v \in DOMAIN EraseVariable(s, d).pmap
  PROVE  /\ ~IsParent(Var(d), v)
         /\ \/ Invalid \in EraseVariable(s, d).pmap[v]
            \/ ~ContainsParent(EraseVariable(s, d).pmap[v], Var(d))
<1>1. v \in DOMAIN s.pmap /\ ~IsParent(Var(d), v)
  BY WhatErasingLeaves DEF IsBuilder
<1>2. EraseVariable(s, d).pmap[v] \in {Invalidated(s.pmap[v], Var(d)), {Invalid}}
  BY WhatErasingLeaves DEF IsBuilder
<1> QED
  BY <1>1, <1>2 DEF Invalidated

(* An Owner that is used up keeps account of the store (CallVisitor::      *)
(* invalidateVarOnNoConstUse, invalidateOwner): what points to what local  *)
(* owner v held dangles, and what is known of the members of v is          *)
(* forgotten.  An Owner and its contents hold no pointer the analysis      *)
(* follows, and neither do its members.                                    *)
THEOREM OwnerInvalidationIsSound ==
  ASSUME NEW pmap, NEW m, "store" \in DOMAIN m, IsStore(m.store),
         NEW v, Kind(v) = "Local",
         \A w \in DOMAIN m.store \cap {v, DerefVar(v)} : m.store[w] \in {Opaque, Invalid},
         \A w \in DOMAIN m.store \ {v} : IsField(w) /\ IsParent(v, w) => m.store[w] = Opaque,
         AccountsFor(pmap, m.store)
  PROVE  AccountsFor(InvalidateOwner(pmap, v), Kill(m, DerefVar(v)).store)
<1> DEFINE dangling == {w \in DOMAIN pmap : /\ w \notin {v, DerefVar(v)}
                                           /\ Invalid \notin pmap[w]
                                           /\ ContainsParent(pmap[w], DerefVar(v))}
           left == SetVars(pmap, dangling, {Invalid})
           members == {w \in DOMAIN left : w # v /\ IsField(w) /\ IsParent(v, w)}
           after == InvalidateOwner(pmap, v)
           stored == Kill(m, DerefVar(v)).store
<1>1. after = Without(left, members)
  BY DEF InvalidateOwner
<1>2. DOMAIN left = DOMAIN pmap /\ \A w \in DOMAIN pmap :
        left[w] = IF w \in dangling THEN {Invalid} ELSE pmap[w]
  BY DEF SetVars
<1>3. DOMAIN after = DOMAIN left \ members /\ \A w \in DOMAIN after : after[w] = left[w]
  BY <1>1 DEF Without, Restrict
<1>4. DOMAIN stored = DOMAIN m.store /\ \A w \in DOMAIN stored :
        stored[w] = IF PointsInto(m.store[w], DerefVar(v)) THEN Invalid ELSE m.store[w]
  BY DEF Kill
<1> HIDE DEF left, after, stored
<1> SUFFICES ASSUME NEW w \in DOMAIN stored, stored[w] # Opaque
             PROVE  w \in DOMAIN after /\ Describes(after[w], stored[w])
  BY DEF AccountsFor, after, stored
<1>5. w \in DOMAIN m.store /\ m.store[w] # Opaque
  BY <1>4 DEF PointsInto
<1>6. w \in DOMAIN pmap /\ Describes(pmap[w], m.store[w])
  BY <1>5 DEF AccountsFor
<1>7. w \in DOMAIN after
  BY <1>2, <1>3, <1>5, <1>6
<1>8. CASE w \in {v, DerefVar(v)}
  <2>1. after[w] = pmap[w]
    BY <1>2, <1>3, <1>6, <1>7, <1>8
  <2>2. stored[w] = m.store[w]
    BY <1>4, <1>5, <1>8 DEF PointsInto
  <2> QED
    BY <1>6, <1>7, <2>1, <2>2
<1>9. CASE w \notin {v, DerefVar(v)}
  <2>1. after[w] = Invalidated(pmap[w], DerefVar(v))
    BY <1>2, <1>3, <1>6, <1>7, <1>9 DEF Invalidated
  <2>2. Kind(DerefVar(v)) = "Local"
    BY DEF Kind, DerefVar, DerefN
  <2>3. Describes(Invalidated(pmap[w], DerefVar(v)), stored[w])
    BY <1>4, <1>5, <1>6, <2>2, DanglingIsDescribed DEF IsStore
  <2> QED
    BY <1>7, <2>1, <2>3
<1> QED
  BY <1>8, <1>9
-----------------------------------------------------------------------------
(* What is checked *)

(* A dereference of a null or dangling pointer is reported where the pset  *)
(* describes what the pointer holds (checkPSetValidity); null unless that  *)
(* is switched off.                                                        *)
THEOREM ChecksAreSound ==
  ASSUME NEW s, "diags" \in DOMAIN s,
         NEW Kinds, NEW Locs, s.diags \in Seq([kind : Kinds, loc : Locs, possibly : BOOLEAN]),
         NEW ps, NEW loc \in Locs, {"DerefNull", "DerefDangling"} \subseteq Kinds,
         NEW x \in {Null, Invalid}, Describes(ps, x), LifetimeNull
  PROVE  \E i \in DOMAIN CheckPSetValidity(s, ps, loc).diags :
           /\ CheckPSetValidity(s, ps, loc).diags[i].loc = loc
           /\ CheckPSetValidity(s, ps, loc).diags[i].kind \in {"DerefNull", "DerefDangling"}
<1>1. ~IsValid(ps)
  BY DEF Describes, IsValid
<1>2. PICK kind \in {"DerefNull", "DerefDangling"}, possibly \in BOOLEAN :
        CheckPSetValidity(s, ps, loc) = Diagnose(s, kind, loc, possibly)
  BY <1>1 DEF CheckPSetValidity, IsInvalid, IsNull
<1> DEFINE d == [kind |-> kind, loc |-> loc, possibly |-> possibly]
<1>3. CheckPSetValidity(s, ps, loc).diags = Append(s.diags, d)
  BY <1>2 DEF Diagnose
<1>4. d \in [kind : Kinds, loc : Locs, possibly : BOOLEAN]
  OBVIOUS
<1> DEFINE n == Len(s.diags) + 1
<1>5. n \in DOMAIN Append(s.diags, d) /\ Append(s.diags, d)[n] = d
  BY <1>4
<1> QED
  BY <1>3, <1>5

(* What passes the check against a contract is covered by it               *)
(* (checkSubstitutableFor): a caller that goes by the contract misses      *)
(* nothing that the pset has as a member.  The this pointer is exempt,     *)
(* unless postconditions are checked to the letter.                        *)
THEOREM SubstitutableIsCovered ==
  ASSUME NEW ps, NEW o, CheckSubstitutableFor(ps, o) = "ok",
         NEW x \in ps, x # Global, LifetimePost \/ x \in {Null, Invalid} \/ ~IsThisPointer(x)
  PROVE  Covers(o, x)
<1>1. CASE Invalid \in o
  BY <1>1 DEF Covers
<1>2. CASE Invalid \notin o
  <2>1. x # Invalid
    BY <1>2 DEF CheckSubstitutableFor
  <2>2. CASE x = Null
    <3>1. Null \in o
      BY <1>2, <2>2 DEF CheckSubstitutableFor
    <3> QED
      BY <2>2, <3>1 DEF Covers
  <2>3. CASE x # Null
    <3>1. x \in VarsOf(ps)
      BY <2>1, <2>3 DEF VarsOf, Special
    <3>2. \E c \in VarsOf(o) : IsParent(c, x)
      BY <1>2, <2>3, <2>1, <3>1 DEF CheckSubstitutableFor
    <3> QED
      BY <2>1, <2>3, <3>2 DEF Covers
  <2> QED
    BY <2>2, <2>3
<1> QED
  BY <1>1, <1>2

-----------------------------------------------------------------------------
(* Numbers.                                                                *)

(* A set of natural numbers that is not empty has a least one.             *)
LEMMA LeastNat ==
  ASSUME NEW T \in SUBSET Nat, T # {} PROVE \E k \in T : \A j \in T : k <= j
<1> DEFINE Less == OpToRel(<, Nat)
<1>1. PICK k \in T : \A j \in T : <<j, k>> \notin Less
  <2> HIDE DEF Less
  <2> QED
    BY NatLessThanWellFounded, WFMin DEF Less
<1>2. \A i, j \in Nat : <<i, j>> \in Less <=> i < j
  BY DEF OpToRel
<1> HIDE DEF Less
<1>3. \A j \in T : j \in Nat /\ k \in Nat /\ ~(j < k)
  BY <1>1, <1>2
<1>4. \A i, j \in Nat : ~(j < i) => i <= j
  OBVIOUS
<1> QED
  BY <1>3, <1>4

(* What holds of 0 and goes from i to i + 1, up to n, holds up to n.       *)
LEMMA UpTo ==
  ASSUME NEW n \in Nat, NEW T, 0 \in T, \A i \in 0..(n - 1) : i \in T => i + 1 \in T
  PROVE  0..n \subseteq T
<1> DEFINE U == (0..n) \ T
<1> SUFFICES ASSUME U # {} PROVE FALSE
  OBVIOUS
<1>1. PICK k \in U : \A j \in U : k <= j
  <2>1. U \in SUBSET Nat
    OBVIOUS
  <2> HIDE DEF U
  <2> QED
    BY <2>1, LeastNat
<1>2. k \in 1..n /\ k - 1 \in 0..(n - 1)
  OBVIOUS
<1>3. k - 1 \in U
  BY <1>2
<1> QED
  BY <1>1, <1>2, <1>3

(* The greatest of 1..n, and what is left without it.                      *)
LEMMA MaxOfInterval == ASSUME NEW n \in Nat \ {0} PROVE Max(1..n) = n /\ (1..n) \ {n} = 1..(n - 1)
<1>1. n \in 1..n /\ \A y \in 1..n : n >= y
  OBVIOUS
<1>2. \A x \in 1..n : (\A y \in 1..n : x >= y) => x = n
  OBVIOUS
<1>3. Max(1..n) = n
  BY <1>1, <1>2 DEF Max
<1> QED
  BY <1>3

(* A set of numbers up to n + 1 has a greatest one, and the others are up  *)
(* to n.                                                                   *)
LEMMA MaxOfSubset ==
  ASSUME NEW n \in Nat, NEW S \in SUBSET (1..(n + 1)), S # {}
  PROVE  Max(S) \in S /\ S \ {Max(S)} \in SUBSET (1..n)
<1>0. \A y \in S : y \in 1..(n + 1)
  OBVIOUS
<1>1. \E x \in S : \A y \in S : x >= y
  <2> DEFINE U == {k \in 0..(n + 1) : \E x \in S : x = n + 1 - k}
  <2>1. U # {} /\ U \in SUBSET Nat
    <3>1. PICK x \in S : TRUE
      OBVIOUS
    <3>2. n + 1 - x \in 0..(n + 1) /\ x = n + 1 - (n + 1 - x)
      BY <1>0, <3>1
    <3>3. n + 1 - x \in U
      BY <3>2
    <3>4. U \subseteq 0..(n + 1) /\ 0..(n + 1) \subseteq Nat
      OBVIOUS
    <3> HIDE DEF U
    <3> QED
      BY <3>3, <3>4
  <2>2. PICK k \in U : \A j \in U : k <= j
    <3> HIDE DEF U
    <3> QED
      BY <2>1, LeastNat
  <2>3. n + 1 - k \in S
    OBVIOUS
  <2>4. ASSUME NEW y \in S PROVE n + 1 - k >= y
    <3>1. n + 1 - y \in U
      BY <1>0
    <3> QED
      BY <1>0, <2>2, <3>1
  <2> QED
    BY <2>3, <2>4
<1>2. Max(S) \in S /\ \A y \in S : Max(S) >= y
  BY <1>1 DEF Max
<1>3. ASSUME NEW y \in S \ {Max(S)} PROVE y \in 1..n
  <2>1. y \in 1..(n + 1) /\ Max(S) \in 1..(n + 1) /\ y # Max(S) /\ Max(S) >= y
    BY <1>0, <1>2
  <2> QED
    BY <2>1
<1> QED
  BY <1>2, <1>3

-----------------------------------------------------------------------------
(* The locals of a pointer program and their psets.                        *)

IsAnalysed(f) == IsPointerProgram(f) /\ \E d \in FunctionDecls : f = Body[d]

(* The null pointer, what is invalid, what is global and what is no        *)
(* pointer are told apart.                                                 *)
LEMMA MarkersDiffer ==
  /\ Null # Invalid /\ Null # Global /\ Null # Opaque
  /\ Invalid # Global /\ Invalid # Opaque /\ Global # Opaque
<1>1. ASSUME NEW a, NEW b, NEW c PROVE Cardinality({a, b, c}) # 4
  <2>1. IsFiniteSet({a}) /\ Cardinality({a}) = 1
    BY FS_Singleton
  <2>2. IsFiniteSet({a, b}) /\ Cardinality({a, b}) \in {1, 2}
    <3>1. {a, b} = {a} \cup {b}
      OBVIOUS
    <3> QED
      BY <2>1, <3>1, FS_AddElement
  <2>3. Cardinality({a, b, c}) \in {1, 2, 3}
    <3>1. {a, b, c} = {a, b} \cup {c}
      OBVIOUS
    <3> QED
      BY <2>2, <3>1, FS_AddElement
  <2> QED
    BY <2>3
<1> DEFINE all == {Null, Invalid, Global, Opaque}
<1>2. CASE Null = Invalid
  <2>1. all = {Null, Global, Opaque}
    BY <1>2
  <2> QED
    BY <1>1, <2>1, MarkersAssumption
<1>3. CASE Null = Global
  <2>1. all = {Null, Invalid, Opaque}
    BY <1>3
  <2> QED
    BY <1>1, <2>1, MarkersAssumption
<1>4. CASE Null = Opaque
  <2>1. all = {Null, Invalid, Global}
    BY <1>4
  <2> QED
    BY <1>1, <2>1, MarkersAssumption
<1>5. CASE Invalid = Global
  <2>1. all = {Null, Invalid, Opaque}
    BY <1>5
  <2> QED
    BY <1>1, <2>1, MarkersAssumption
<1>6. CASE Invalid = Opaque
  <2>1. all = {Null, Invalid, Global}
    BY <1>6
  <2> QED
    BY <1>1, <2>1, MarkersAssumption
<1>7. CASE Global = Opaque
  <2>1. all = {Null, Invalid, Global}
    BY <1>7
  <2> QED
    BY <1>1, <2>1, MarkersAssumption
<1> QED
  BY <1>2, <1>3, <1>4, <1>5, <1>6, <1>7

(* A local variable is none of the markers.                                *)
LEMMA NamesAreNoMarkers ==
  ASSUME NEW f, IsAnalysed(f), NEW v \in Names(f)
  PROVE  v # Null /\ v # Invalid /\ v # Global /\ v # Opaque /\ v \notin Special
<1>1. Names(f) \cap {Null, Invalid, Global, Opaque} = {}
  BY MarkersAssumption DEF IsAnalysed
<1> QED
  BY <1>1 DEF Special

(* The location of a variable itself has the type of the variable.         *)
LEMMA TypeOfName ==
  ASSUME NEW d
  PROVE  TypeAndOrder(Var(d)) = [type |-> DeclInfo[d].type,
                                 order |-> IF IsOwnerCategory(DeclInfo[d].type) THEN 0 ELSE -1]
<1> DEFINE v == Var(d)
           base == DeclInfo[v.base].type
           Step(acc, fd) ==
             IF fd = Deref
             THEN [type  |-> PointeeType(acc.type),
                   order |-> IF acc.order >= 0 THEN acc.order + 1 ELSE acc.order]
             ELSE [type  |-> FieldInfo[fd].type,
                   order |-> IF acc.order = -1 /\ IsOwnerCategory(FieldInfo[fd].type)
                             THEN 0 ELSE acc.order]
           start == [type |-> base, order |-> IF IsOwnerCategory(base) THEN 0 ELSE -1]
           Folded(it, s) == IF s = {} THEN start ELSE LET x == Max(s) IN Step(it[s \ {x}], v.path[x])
           Right(it) == it = [s \in SUBSET {} |-> Folded(it, s)]
           iter == CHOOSE it : Right(it)
<1>1. v.path = <<>> /\ v.base = d /\ DOMAIN v.path = {}
  BY DEF Var
<1>2. Right([s \in SUBSET {} |-> start])
  <2> HIDE DEF start, Step
  <2> QED
    OBVIOUS
<1>3. Right(iter)
  <2> HIDE DEF Right
  <2> QED
    BY <1>2
<1>4. iter[{}] = start
  <2> HIDE DEF iter, start, Step
  <2> QED
    BY <1>3
<1>5. TypeAndOrder(v) = iter[{}]
  BY <1>1 DEF TypeAndOrder, FoldLeft, MapThenFoldSet
<1> HIDE DEF iter
<1> QED
  BY <1>1, <1>4, <1>5

(* A local of a pointer program: its location is that of the variable      *)
(* itself, with its type, no temporary and no static.                      *)
LEMMA NameIsPlain ==
  ASSUME NEW f, IsAnalysed(f), NEW v \in Names(f)
  PROVE  /\ v = Var(v.base) /\ v.path = <<>> /\ v.base \in Locals(f) /\ v.base # NoDecl
         /\ Kind(v) = "Local" /\ ~IsTemporary(v) /\ ~HasStaticLifetime(v) /\ Singleton(v, 0) = {v}
         /\ GetType(v) = DeclInfo[v.base].type /\ GetOrder(v) = 0
         /\ IsPlainType(DeclInfo[v.base].type)
<1>1. PICK d \in Locals(f) : v = Var(d)
  BY DEF Names
<1>2. v.base = d /\ v.path = <<>>
  BY <1>1 DEF Var
<1>3. IsPlainLocal(d)
  BY DEF IsAnalysed, IsPointerProgram
<1>4. Kind(v) = "Local" /\ d # NoDecl /\ IsPlainType(DeclInfo[d].type)
  BY <1>2, <1>3 DEF IsPlainLocal, Kind
<1>5. ~IsOwnerCategory(DeclInfo[d].type)
  BY <1>4 DEF IsPlainType, IsOwnerCategory, Category
<1>6. GetType(v) = DeclInfo[d].type /\ GetOrder(v) = 0
  BY <1>1, <1>5, TypeOfName DEF GetType, GetOrder
<1>7. ~IsTemporary(v) /\ ~HasStaticLifetime(v)
  BY <1>2, <1>4 DEF IsTemporary, HasStaticLifetime, IsThisPointer
<1>8. Singleton(v, 0) = {v}
  <2>1. v.path \o [i \in 1..0 |-> Deref] = <<>>
    BY <1>2
  <2>2. DerefN(v, 0) = v
    BY <1>1, <2>1 DEF DerefN, Var
  <2> QED
    BY <1>7, <2>2 DEF Singleton
<1> QED
  BY <1>1, <1>2, <1>4, <1>6, <1>7, <1>8

(* The pset of a local is the one in the map; one that is missing is empty *)
(* or invalid.                                                             *)
LEMMA GetPSetOfName ==
  ASSUME NEW f, IsAnalysed(f), NEW v \in Names(f), NEW pmap
  PROVE  /\ v \in DOMAIN pmap => GetPSet(pmap, v) = pmap[v]
         /\ v \notin DOMAIN pmap => GetPSet(pmap, v) \in {{}, {Invalid}}
<1> DEFINE OfField(w, parentPSet) ==
        LET t == FieldInfo[GetField(w)].type
            Extend(u) == IF IsOwnerCategory(t)
                         THEN DerefVar(AddField(u, GetField(w)))
                         ELSE AddField(u, GetField(w))
        IN  IF IsPointerCategory(t) THEN {Global}
            ELSE IF IsUnknown(parentPSet) THEN Singleton(w, 0)
            ELSE TransformVars(parentPSet, Extend)
           Read(get, n) ==
        LET w == Prefix(v, n)
            t == GetType(w)
        IN  IF HasStaticLifetime(w) THEN {Global}
            ELSE IF w \in DOMAIN pmap THEN pmap[w]
            ELSE IF IsField(w) THEN OfField(w, get[n - 1])
            ELSE IF t = NoType
                 THEN IF GetDerefNum(w) > MaxOrderDepth THEN {Global}
                      ELSE Singleton(w, 1)
            ELSE IF IsDeref(w)
                 THEN IF IsPointerCategory(t) THEN {Global}
                      ELSE Singleton(w, IF IsOwnerCategory(t) THEN 1 ELSE 0)
            ELSE IF TypeInfo[t].isArray THEN {}
            ELSE IF IsVarDecl(w) /\ ~IsParameter(w) THEN {Invalid}
            ELSE {}
           answer == IF v \in DOMAIN pmap THEN pmap[v]
                     ELSE IF TypeInfo[GetType(v)].isArray THEN {} ELSE {Invalid}
           Right(get) == get = [n \in 0..Len(v.path) |-> Read(get, n)]
           get0 == CHOOSE get : Right(get)
<1>1. v.path = <<>> /\ Len(v.path) = 0 /\ v = Var(v.base)
  BY NameIsPlain
<1>2. Prefix(v, 0) = v
  <2>1. SubSeq(v.path, 1, 0) = <<>>
    BY <1>1
  <2> QED
    BY <1>1, <2>1 DEF Prefix, Var
<1>3. ASSUME NEW get PROVE Read(get, 0) = answer
  <2>1. ~HasStaticLifetime(v) /\ GetType(v) # NoType /\ Kind(v) = "Local"
    BY NameIsPlain DEF IsPlainType
  <2>2. ~IsField(v) /\ ~IsDeref(v) /\ IsVarDecl(v) /\ ~IsParameter(v)
    BY <1>1, <2>1 DEF IsField, IsDeref, IsVarDecl, IsParameter
  <2> HIDE DEF OfField
  <2> QED
    BY <1>2, <2>1, <2>2
<1>4. 0..Len(v.path) = {0}
  BY <1>1
<1>5. Right([n \in {0} |-> answer])
  <2> HIDE DEF Read, answer
  <2> QED
    BY <1>3, <1>4
<1>6. Right(get0)
  <2> HIDE DEF Right
  <2> QED
    BY <1>5
<1>7. get0[0] = answer
  <2> HIDE DEF Read, answer, get0
  <2> QED
    BY <1>3, <1>4, <1>6
<1>8. GetPSet(pmap, v) = get0[Len(v.path)]
  BY DEF GetPSet
<1> HIDE DEF get0
<1> QED
  BY <1>1, <1>7, <1>8

-----------------------------------------------------------------------------
(* A map of psets of a pointer program maps some of its locals to such     *)
(* psets.                                                                  *)
LEMMA PMap ==
  ASSUME NEW f, NEW p
  PROVE  p \in PMapsOf(f) <=> /\ DOMAIN p \subseteq Names(f)
                            /\ p = [v \in DOMAIN p |-> p[v]]
                            /\ \A v \in DOMAIN p : p[v] \in PSets(f)
<1>1. ASSUME p \in PMapsOf(f) PROVE DOMAIN p \subseteq Names(f) /\ p \in [DOMAIN p -> PSets(f)]
  BY <1>1 DEF PMapsOf
<1>2. ASSUME DOMAIN p \subseteq Names(f), p \in [DOMAIN p -> PSets(f)] PROVE p \in PMapsOf(f)
  BY <1>2 DEF PMapsOf
<1> QED
  BY <1>1, <1>2

(* To set psets, or to add to them, keeps a map typed (setPSet).           *)
LEMMA SetVarsTyped ==
  ASSUME NEW f, NEW p \in PMapsOf(f), NEW vs \in SUBSET Names(f), NEW ps \in PSets(f)
  PROVE  SetVars(p, vs, ps) \in PMapsOf(f) /\ AddToVars(p, vs, ps) \in PMapsOf(f)
<1>1. DOMAIN p \subseteq Names(f) /\ \A v \in DOMAIN p : p[v] \in PSets(f)
  BY PMap
<1>2. SetVars(p, vs, ps) \in PMapsOf(f)
  <2> DEFINE q == SetVars(p, vs, ps)
  <2>1. DOMAIN q = vs \cup DOMAIN p /\ q = [v \in DOMAIN q |-> q[v]] /\ \A v \in DOMAIN q : q[v] \in PSets(f)
    BY <1>1 DEF SetVars
  <2> HIDE DEF q
  <2>2. q \in PMapsOf(f)
    BY <1>1, <2>1, PMap
  <2> QED
    BY <2>2 DEF q
<1>3. AddToVars(p, vs, ps) \in PMapsOf(f)
  <2> DEFINE q == AddToVars(p, vs, ps)
  <2>1. DOMAIN q = vs \cup DOMAIN p /\ q = [v \in DOMAIN q |-> q[v]] /\ \A v \in DOMAIN q : q[v] \in PSets(f)
    BY <1>1 DEF AddToVars, PSets
  <2> HIDE DEF q
  <2>2. q \in PMapsOf(f)
    BY <1>1, <2>1, PMap
  <2> QED
    BY <2>2 DEF q
<1> QED
  BY <1>2, <1>3

(* To erase variables keeps a map typed (PMap.erase).                      *)
LEMMA WithoutTyped ==
  ASSUME NEW f, NEW p \in PMapsOf(f), NEW vs PROVE Without(p, vs) \in PMapsOf(f)
<1>1. DOMAIN p \subseteq Names(f) /\ \A v \in DOMAIN p : p[v] \in PSets(f)
  BY PMap
<1> DEFINE q == Without(p, vs)
<1>2. DOMAIN q = DOMAIN p \ vs /\ q = [v \in DOMAIN q |-> q[v]] /\ \A v \in DOMAIN q : q[v] \in PSets(f)
  BY <1>1 DEF Without, Restrict
<1> HIDE DEF q
<1>3. q \in PMapsOf(f)
  BY <1>1, <1>2, PMap
<1> QED
  BY <1>3 DEF q

(* Asking for the pset of locals adds none to the map: only members and    *)
(* what is pointed to from outside are added (getPSet).                    *)
LEMMA RememberNames ==
  ASSUME NEW f, IsAnalysed(f), NEW p \in PMapsOf(f), NEW vs \in SUBSET Names(f)
  PROVE  Remember(p, vs) = p
<1>1. ASSUME NEW v \in Names(f) PROVE MadeUp(p, v) = {}
  <2>1. Len(v.path) = 0
    BY NameIsPlain
  <2> QED
    BY <2>1 DEF MadeUp
<1>2. UNION {MadeUp(p, v) : v \in vs} = {}
  BY <1>1
<1>3. p = [v \in DOMAIN p |-> p[v]]
  BY PMap
<1> QED
  BY <1>2, <1>3 DEF Remember, Over

(* A dereference leads from locals to locals, and misses none that a valid *)
(* pset may point to (derefPSet).                                          *)
LEMMA DerefOfNames ==
  ASSUME NEW f, IsAnalysed(f), NEW p \in PMapsOf(f), NEW ps \in PSets(f)
  PROVE  /\ DerefPSet(p, ps) \in PSets(f)
         /\ Invalid \notin ps => \A v \in ps \cap Names(f) : GetPSet(p, v) \subseteq DerefPSet(p, ps)
         /\ Looked(ps) \in SUBSET Names(f)
<1>1. VarsOf(ps) \subseteq Names(f) /\ ps \cap Names(f) \subseteq VarsOf(ps)
  BY NamesAreNoMarkers DEF PSets, VarsOf
<1>2. ASSUME NEW v \in Names(f) PROVE GetPSet(p, v) \in PSets(f) /\ GetOrder(v) = 0
  <2>1. v \in DOMAIN p => p[v] \in PSets(f)
    BY PMap
  <2> QED
    BY <2>1, GetPSetOfName, NameIsPlain DEF PSets, Special
<1>3. Looked(ps) \in SUBSET Names(f)
  BY <1>1 DEF Looked
<1>4. CASE Invalid \in ps
  BY <1>3, <1>4 DEF DerefPSet, PSets
<1>5. CASE Invalid \notin ps
  <2>1. DerefPSet(p, ps) = (ps \cap {Global}) \cup UNION {GetPSet(p, v) : v \in VarsOf(ps)}
    BY <1>1, <1>2, <1>5 DEF DerefPSet
  <2>2. UNION {GetPSet(p, v) : v \in VarsOf(ps)} \in PSets(f)
    BY <1>1, <1>2 DEF PSets
  <2>3. ps \cap {Global} \in PSets(f)
    BY DEF PSets
  <2> QED
    BY <1>1, <1>3, <2>1, <2>2, <2>3 DEF PSets
<1> QED
  BY <1>4, <1>5

(* A pset of a pointer program is finite.                                  *)
LEMMA NamesAreFinite == ASSUME NEW f, IsAnalysed(f), NEW ps \in PSets(f) PROVE IsFiniteSet(ps)
<1> DEFINE Named(n) == {Var(d) : d \in NamedBy(n)}
<1>1. IsFiniteSet(DOMAIN f.nodes)
  BY DEF IsAnalysed, IsPointerProgram
<1>2. IsFiniteSet(Names(f))
  <2> DEFINE one == [e \in DOMAIN f.nodes |-> CHOOSE v : v \in Named(f.nodes[e])]
             image == {one[e] : e \in DOMAIN f.nodes}
  <2>1. IsFiniteSet(image)
    <3>1. one \in [DOMAIN f.nodes -> image] /\ \A x \in image : \E e \in DOMAIN f.nodes : one[e] = x
      OBVIOUS
    <3> HIDE DEF one, image
    <3>2. one \in Surjection(DOMAIN f.nodes, image)
      BY <3>1 DEF Surjection
    <3> QED
      BY <1>1, <3>2, FS_Surjection
  <2>2. Names(f) \subseteq image
    <3> SUFFICES ASSUME NEW v \in Names(f) PROVE v \in image
      OBVIOUS
    <3>1. PICK e, d : e \in DOMAIN f.nodes /\ d \in NamedBy(f.nodes[e]) /\ v = Var(d)
      BY DEF Names, Locals
    <3>2. NamedBy(f.nodes[e]) = {d}
      BY <3>1 DEF NamedBy
    <3>3. Named(f.nodes[e]) = {v}
      BY <3>1, <3>2
    <3>4. e \in DOMAIN f.nodes /\ one[e] = v
      BY <3>1, <3>3
    <3> HIDE DEF one
    <3> QED
      BY <3>4
  <2> HIDE DEF image
  <2> QED
    BY <2>1, <2>2, FS_Subset
<1>3. IsFiniteSet(Special)
  <2>1. IsFiniteSet({Null}) /\ IsFiniteSet({Invalid}) /\ IsFiniteSet({Global})
    BY FS_Singleton
  <2>2. Special = ({Null} \cup {Invalid}) \cup {Global}
    BY DEF Special
  <2> QED
    BY <2>1, <2>2, FS_Union
<1> QED
  BY <1>2, <1>3, FS_Union, FS_Subset DEF PSets

-----------------------------------------------------------------------------
(* Its expressions.                                                        *)

Kinds == {"DeclRefExpr", "LValueToRValue", "UnaryOperator", "NullPtrLiteral", "NullToPointer",
          "BinaryOperator", "BoolConversion", "DeclStmt", "LifetimeEnds"}

(* The nodes of a pointer program are of these kinds.                      *)
LEMMA NodeKinds ==
  ASSUME NEW f, IsAnalysed(f), NEW e \in DOMAIN f.nodes
  PROVE  IsNode(f, f.nodes[e]) /\ f.nodes[e].k \in Kinds
<1>1. IsNode(f, f.nodes[e])
  BY DEF IsAnalysed, IsPointerProgram
<1> QED
  BY <1>1 DEF IsNode, IsExpression, IsDeclRef, IsLoad, IsStar, IsAddress, IsNullLiteral, IsAssign,
              IsTest, IsNegation, IsDeclaration, IsScopeEnd, Kinds

(* Load nodes, and what they read. *)
LEMMA LoadNode ==
  ASSUME NEW f, IsAnalysed(f), NEW e \in DOMAIN f.nodes, f.nodes[e].k = "LValueToRValue"
  PROVE  /\ IsLoad(f, f.nodes[e])
         /\ f.nodes[e].sub \in DOMAIN f.nodes
         /\ f.nodes[f.nodes[e].sub].k \in {"DeclRefExpr", "UnaryOperator", "BinaryOperator"}
         /\ f.nodes[f.nodes[e].sub].lvalue
         /\ f.nodes[f.nodes[e].sub].type = f.nodes[e].type
<1>1. IsLoad(f, f.nodes[e])
  BY NodeKinds DEF IsNode, IsExpression, IsDeclRef, IsLoad, IsStar, IsAddress, IsNullLiteral, IsAssign,
              IsTest, IsNegation, IsDeclaration, IsScopeEnd
<1> QED
  BY <1>1 DEF IsLoad, IsLValueNode

(* No node of a pointer program is looked through                          *)
(* (ignoreTransparentExprs).                                               *)
LEMMA NothingIsTransparent ==
  ASSUME NEW f, IsAnalysed(f), NEW e \in DOMAIN f.nodes
  PROVE  IgnoreTransparentExprs(f, e) = e
<1> DEFINE Strip(g, x) == IF f.nodes[x].k \in {"Transparent"} THEN g[f.nodes[x].sub] ELSE x
           Right(g) == g = [x \in DOMAIN f.nodes |-> Strip(g, x)]
           strip == CHOOSE g : Right(g)
<1>1. ASSUME NEW g, NEW x \in DOMAIN f.nodes PROVE Strip(g, x) = x
  BY NodeKinds DEF Kinds
<1>2. Right([x \in DOMAIN f.nodes |-> x])
  <2> HIDE DEF Strip
  <2> QED
    BY <1>1
<1>3. Right(strip)
  <2> HIDE DEF Right
  <2> QED
    BY <1>2
<1>4. strip[e] = e
  <2> HIDE DEF Strip, strip
  <2> QED
    BY <1>1, <1>3
<1> QED
  BY <1>4 DEF IgnoreTransparentExprs, StripTo

(* The pset of a node is the one recorded for it, that of nullptr is null  *)
(* (getPSet(Expr)).                                                        *)
LEMMA PSetOfNode ==
  ASSUME NEW f, IsAnalysed(f), NEW e \in DOMAIN f.nodes, NEW s
  PROVE  PSetOf(f, s, e) = IF f.nodes[e].k = "NullPtrLiteral" THEN {Null} ELSE s.exprs[e]
BY NothingIsTransparent DEF PSetOf

(* Under a load is the lvalue it loads from.                               *)
LEMMA StripLoad ==
  ASSUME NEW f, IsAnalysed(f), NEW e \in DOMAIN f.nodes
  PROVE  IgnoreLValueToRValueToo(f, e) = IF f.nodes[e].k = "LValueToRValue" THEN f.nodes[e].sub ELSE e
<1> DEFINE kinds == {"Transparent", "LValueToRValue"}
           Strip(g, x) == IF f.nodes[x].k \in kinds THEN g[f.nodes[x].sub] ELSE x
           Ans(x) == IF f.nodes[x].k = "LValueToRValue" THEN f.nodes[x].sub ELSE x
           Right(g) == g = [x \in DOMAIN f.nodes |-> Strip(g, x)]
           strip == CHOOSE g : Right(g)
           g0 == [x \in DOMAIN f.nodes |-> Ans(x)]
<1>1. ASSUME NEW g, NEW x \in DOMAIN f.nodes, f.nodes[x].k # "LValueToRValue" PROVE Strip(g, x) = x
  BY <1>1, NodeKinds DEF Kinds
<1>2. ASSUME NEW x \in DOMAIN f.nodes, f.nodes[x].k = "LValueToRValue"
      PROVE  f.nodes[x].sub \in DOMAIN f.nodes /\ f.nodes[f.nodes[x].sub].k # "LValueToRValue"
  BY <1>2, LoadNode
<1>3. Right(g0)
  <2> SUFFICES ASSUME NEW x \in DOMAIN f.nodes PROVE Strip(g0, x) = Ans(x)
    OBVIOUS
  <2>1. CASE f.nodes[x].k # "LValueToRValue"
    BY <1>1, <2>1
  <2>2. CASE f.nodes[x].k = "LValueToRValue"
    BY <1>2, <2>2
  <2> QED
    BY <2>1, <2>2
<1>4. Right(strip)
  <2> HIDE DEF Right, g0
  <2> QED
    BY <1>3
<1>5. \A x \in DOMAIN f.nodes : strip[x] = Strip(strip, x)
  <2> HIDE DEF Strip, strip
  <2> QED
    BY <1>4
<1>6. strip[e] = Ans(e)
  <2> HIDE DEF strip
  <2>1. CASE f.nodes[e].k # "LValueToRValue"
    BY <1>1, <1>5, <2>1
  <2>2. CASE f.nodes[e].k = "LValueToRValue"
    BY <1>1, <1>2, <1>5, <2>2
  <2> QED
    BY <2>1, <2>2
<1> QED
  BY <1>6 DEF IgnoreLValueToRValueToo, StripTo

(* The load a condition rests on. *)
LoadOf(f, e) ==
  LET n == f.nodes[e]
  IN  CASE n.k = "LValueToRValue" -> e
        [] n.k = "BoolConversion" -> n.sub
        [] OTHER -> IF f.nodes[n.sub].k = "BoolConversion" THEN f.nodes[n.sub].sub ELSE n.sub

TestsPointer(f, e) ==
  /\ f.nodes[f.nodes[LoadOf(f, e)].sub].k = "DeclRefExpr"
  /\ IsPointerCategory(f.nodes[LoadOf(f, e)].type)

(* What a node of a pointer program is, by its kind.                       *)
LEMMA NodeCases ==
  ASSUME NEW f, IsAnalysed(f), NEW e \in DOMAIN f.nodes
  PROVE  LET n == f.nodes[e]
         IN  /\ n.k = "DeclRefExpr" => IsDeclRef(n)
             /\ n.k = "LValueToRValue" => IsLoad(f, n)
             /\ n.k = "UnaryOperator" /\ n.op = "Deref" => IsStar(f, n)
             /\ n.k = "UnaryOperator" /\ n.op = "AddrOf" => IsAddress(f, n)
             /\ n.k = "UnaryOperator" /\ n.op = "LNot" => IsNegation(f, n)
             /\ n.k = "UnaryOperator" => n.op \in {"Deref", "AddrOf", "LNot"}
             /\ n.k \in {"NullPtrLiteral", "NullToPointer"} => IsNullLiteral(n)
             /\ n.k = "BinaryOperator" => IsAssign(f, n)
             /\ n.k = "BoolConversion" => IsTest(f, n)
             /\ n.k = "DeclStmt" => IsDeclaration(f, n)
             /\ n.k \notin {"DeclStmt", "LifetimeEnds"} => IsPlainType(n.type)
BY NodeKinds DEF IsNode, IsExpression, IsDeclRef, IsLoad, IsStar, IsAddress, IsNullLiteral, IsAssign,
              IsTest, IsNegation, IsDeclaration, IsScopeEnd

(* A condition tests the lvalue of the load it rests on, if that is a      *)
(* pointer, and tests it the other way under a negation.                   *)
LEMMA WhatIsTested ==
  ASSUME NEW f, IsAnalysed(f), NEW e \in DOMAIN f.nodes, IsCondition(f, f.nodes[e]), NEW s
  PROVE  /\ TestedLValue(f, s, e).lvalue =
              IF TestsPointer(f, e) THEN f.nodes[LoadOf(f, e)].sub ELSE NoExpr
         /\ TestsPointer(f, e) =>
              TestedLValue(f, s, e).positive = IF f.nodes[e].k = "UnaryOperator" THEN FALSE ELSE TRUE
<1> DEFINE none == [lvalue |-> NoExpr, positive |-> TRUE]
           Negated(u) == [lvalue |-> u.lvalue, positive |-> ~u.positive]
           TestedBy(g, x) ==
             LET c == IgnoreLValueToRValueToo(f, x)
                 n == f.nodes[c]
                 side(y) == IF n.op = "EQ" THEN Negated(g[y]) ELSE g[y]
             IN  CASE n.k \in {"BoolConversion", "BuiltinExpect"} -> g[n.sub]
                   [] n.k = "UnaryOperator" ->
                        IF n.op = "LNot" THEN Negated(g[n.sub]) ELSE none
                   [] n.k = "BinaryOperator" ->
                        IF n.op \notin {"EQ", "NE"} THEN none
                        ELSE IF ~(IsPointerExpr(f, n.lhs) /\ IsPointerExpr(f, n.rhs)) THEN none
                        ELSE IF IsNull(PSetOf(f, s, n.rhs)) THEN side(n.lhs)
                        ELSE IF IsNull(PSetOf(f, s, n.lhs)) THEN side(n.rhs)
                        ELSE none
                   [] OTHER ->
                        IF n.k \notin Calls /\ n.lvalue /\ Category(n.type) \in {"Pointer", "Owner"}
                        THEN [lvalue |-> c, positive |-> TRUE] ELSE none
           Strip(x) == IF f.nodes[x].k = "LValueToRValue" THEN f.nodes[x].sub ELSE x
           IsBool(x) == f.nodes[x].k = "BoolConversion"
           IsNot(x) == f.nodes[x].k = "UnaryOperator" /\ f.nodes[x].op = "LNot"
           Leaf(c) == IF f.nodes[c].k \notin {"UnaryOperator", "BinaryOperator"} /\ f.nodes[c].lvalue
                         /\ Category(f.nodes[c].type) \in {"Pointer", "Owner"}
                      THEN [lvalue |-> c, positive |-> TRUE] ELSE none
           Ans1(c) == IF IsBool(c) THEN Leaf(Strip(f.nodes[c].sub)) ELSE Leaf(c)
           Ans2(c) == IF IsNot(c) THEN Negated(Ans1(Strip(f.nodes[c].sub))) ELSE Ans1(c)
           Right(g) == g = [x \in DOMAIN f.nodes |-> TestedBy(g, x)]
           g0 == [x \in DOMAIN f.nodes |-> Ans2(Strip(x))]
           tested == CHOOSE g : Right(g)
<1>1. ASSUME NEW x \in DOMAIN f.nodes
      PROVE  Strip(x) = IgnoreLValueToRValueToo(f, x) /\ Strip(x) \in DOMAIN f.nodes
             /\ f.nodes[Strip(x)].k # "LValueToRValue"
  BY StripLoad, LoadNode
<1>2. ASSUME NEW x \in DOMAIN f.nodes, NEW g, ~IsBool(Strip(x)), ~IsNot(Strip(x))
      PROVE  TestedBy(g, x) = Leaf(Strip(x))
  <2> DEFINE c == Strip(x)
  <2>1. c = IgnoreLValueToRValueToo(f, x) /\ c \in DOMAIN f.nodes
    BY <1>1
  <2> HIDE DEF c, Negated
  <2>2. f.nodes[c].k # "BoolConversion" /\ ~(f.nodes[c].k = "UnaryOperator" /\ f.nodes[c].op = "LNot")
    BY <1>2 DEF c
  <2>3. CASE f.nodes[c].k = "BinaryOperator"
    <3>1. f.nodes[c].op = "Assign"
      BY <2>1, <2>3, NodeCases DEF IsAssign
    <3>2. TestedBy(g, x) = none
      BY <2>1, <2>3, <3>1
    <3>3. Leaf(c) = none
      BY <2>3
    <3> QED
      BY <3>2, <3>3 DEF c
  <2>4. CASE f.nodes[c].k = "UnaryOperator"
    <3>2. TestedBy(g, x) = none
      BY <2>1, <2>2, <2>4
    <3>3. Leaf(c) = none
      BY <2>4
    <3> QED
      BY <3>2, <3>3 DEF c
  <2>5. CASE f.nodes[c].k \notin {"UnaryOperator", "BinaryOperator"}
    <3>1. f.nodes[c].k \notin {"BoolConversion", "BuiltinExpect"} \cup Calls
      BY <2>1, <2>2, NodeKinds DEF Kinds, Calls
    <3>2. TestedBy(g, x) = Leaf(c)
      BY <2>1, <2>5, <3>1
    <3> QED
      BY <3>2 DEF c
  <2> QED
    BY <2>3, <2>4, <2>5
<1>3. ASSUME NEW x \in DOMAIN f.nodes, f.nodes[x].k = "LValueToRValue"
      PROVE  ~IsBool(Strip(x)) /\ ~IsNot(Strip(x))
  <2>1. IsLoad(f, f.nodes[x]) /\ Strip(x) = f.nodes[x].sub /\ Strip(x) \in DOMAIN f.nodes
    BY <1>3, LoadNode
  <2>2. f.nodes[Strip(x)].lvalue /\ f.nodes[Strip(x)].k \in {"DeclRefExpr", "UnaryOperator", "BinaryOperator"}
    BY <2>1 DEF IsLoad, IsLValueNode
  <2> QED
    BY <2>1, <2>2, NodeCases DEF IsNegation
<1>4. ASSUME NEW c \in DOMAIN f.nodes, IsBool(c)
      PROVE  /\ f.nodes[c].sub \in DOMAIN f.nodes
             /\ f.nodes[f.nodes[c].sub].k = "LValueToRValue"
  BY <1>4, NodeCases DEF IsTest
<1>5. ASSUME NEW c \in DOMAIN f.nodes, IsNot(c)
      PROVE  /\ f.nodes[c].sub \in DOMAIN f.nodes
             /\ f.nodes[f.nodes[c].sub].k \in {"BoolConversion", "LValueToRValue"}
  BY <1>5, NodeCases DEF IsNegation
<1>6. ASSUME NEW x \in DOMAIN f.nodes, NEW g, IsBool(Strip(x))
      PROVE  TestedBy(g, x) = g[f.nodes[Strip(x)].sub]
  <2>1. f.nodes[IgnoreLValueToRValueToo(f, x)].k = "BoolConversion" /\ IgnoreLValueToRValueToo(f, x) = Strip(x)
    BY <1>1, <1>6
  <2> HIDE DEF Strip, Negated
  <2> QED
    BY <2>1
<1>7. ASSUME NEW x \in DOMAIN f.nodes, NEW g, IsNot(Strip(x))
      PROVE  TestedBy(g, x) = Negated(g[f.nodes[Strip(x)].sub])
  <2>1. /\ IgnoreLValueToRValueToo(f, x) = Strip(x)
        /\ f.nodes[Strip(x)].k = "UnaryOperator" /\ f.nodes[Strip(x)].op = "LNot"
    BY <1>1, <1>7
  <2> HIDE DEF Strip, Negated
  <2> QED
    BY <2>1
<1> HIDE DEF TestedBy, Leaf, none, Negated, Strip, IsNot, IsBool
<1>8. ASSUME NEW x \in DOMAIN f.nodes PROVE TestedBy(g0, x) = Ans2(Strip(x))
  <2> DEFINE c == Strip(x)
             y == f.nodes[c].sub
  <2>0. c \in DOMAIN f.nodes
    BY <1>1
  <2>1. CASE IsNot(c)
    <3>1. y \in DOMAIN f.nodes /\ f.nodes[y].k \in {"BoolConversion", "LValueToRValue"}
      BY <1>5, <2>0, <2>1
    <3>2. ~IsNot(Strip(y))
      <4>1. CASE f.nodes[y].k = "LValueToRValue"
        BY <1>3, <3>1, <4>1
      <4>2. CASE f.nodes[y].k = "BoolConversion"
        BY <4>2 DEF Strip, IsNot
      <4> QED
        BY <3>1, <4>1, <4>2
    <3>3. TestedBy(g0, x) = Negated(g0[y])
      <4> HIDE DEF g0
      <4> QED
        BY <1>7, <2>1
    <3>4. g0[y] = Ans2(Strip(y))
      <4> HIDE DEF Ans2, y
      <4> QED
        BY <3>1
    <3>5. Ans2(Strip(y)) = Ans1(Strip(y))
      <4> HIDE DEF Ans1, y
      <4> QED
        BY <3>2
    <3>6. Ans2(c) = Negated(Ans1(Strip(y)))
      <4> HIDE DEF Ans1, c
      <4> QED
        BY <2>1
    <3> HIDE DEF g0, Ans2, Ans1, y
    <3> QED
      BY <3>3, <3>4, <3>5, <3>6
  <2>2. CASE IsBool(c)
    <3>1. y \in DOMAIN f.nodes /\ f.nodes[y].k = "LValueToRValue"
      BY <1>4, <2>0, <2>2
    <3>2. ~IsNot(Strip(y)) /\ ~IsBool(Strip(y))
      BY <1>3, <3>1
    <3>3. TestedBy(g0, x) = g0[y]
      <4> HIDE DEF g0
      <4> QED
        BY <1>6, <2>2
    <3>4. g0[y] = Ans2(Strip(y))
      <4> HIDE DEF Ans2, y
      <4> QED
        BY <3>1
    <3>5. Ans2(Strip(y)) = Leaf(Strip(y))
      <4> HIDE DEF y
      <4> QED
        BY <3>2
    <3>6. Ans2(c) = Leaf(Strip(y))
      <4>1. ~IsNot(c)
        BY <2>2 DEF IsNot, IsBool
      <4> HIDE DEF c
      <4> QED
        BY <2>2, <4>1
    <3> HIDE DEF g0, Ans2, Ans1, y
    <3> QED
      BY <3>3, <3>4, <3>5, <3>6
  <2>3. CASE ~IsNot(c) /\ ~IsBool(c)
    <3>1. TestedBy(g0, x) = Leaf(c)
      <4> HIDE DEF g0
      <4> QED
        BY <1>2, <2>3
    <3> QED
      BY <2>3, <3>1
  <2> QED
    BY <2>1, <2>2, <2>3
<1>9. Right(g0)
  <2> HIDE DEF Ans2
  <2> QED
    BY <1>8
<1>10. Right(tested)
  <2> HIDE DEF Right, g0
  <2> QED
    BY <1>9
<1>11. TestedLValue(f, s, e) = tested[e]
  BY DEF TestedLValue, TestedBy, none, Negated
<1>12. ASSUME NEW x \in DOMAIN f.nodes PROVE tested[x] = TestedBy(tested, x)
  <2> HIDE DEF tested
  <2> QED
    BY <1>10
<1> HIDE DEF tested
<1>13. ASSUME NEW l \in DOMAIN f.nodes, f.nodes[l].k = "LValueToRValue"
       PROVE  tested[l] = IF f.nodes[f.nodes[l].sub].k = "DeclRefExpr" /\ IsPointerCategory(f.nodes[l].type)
                          THEN [lvalue |-> f.nodes[l].sub, positive |-> TRUE] ELSE none
  <2>1. tested[l] = Leaf(f.nodes[l].sub)
    BY <1>2, <1>3, <1>12, <1>13 DEF Strip
  <2>2. /\ IsPlainType(f.nodes[f.nodes[l].sub].type) /\ f.nodes[f.nodes[l].sub].lvalue
        /\ f.nodes[f.nodes[l].sub].k \in {"DeclRefExpr", "UnaryOperator", "BinaryOperator"}
        /\ f.nodes[f.nodes[l].sub].type = f.nodes[l].type
    BY <1>13, LoadNode, NodeCases
  <2>3. Category(f.nodes[l].type) \in {"Pointer", "Owner"} <=> IsPointerCategory(f.nodes[l].type)
    BY <2>2 DEF IsPlainType, IsPointerCategory, Category
  <2> QED
    BY <2>1, <2>2, <2>3 DEF Leaf
<1>14. ASSUME NEW b \in DOMAIN f.nodes, f.nodes[b].k = "BoolConversion"
       PROVE  /\ tested[b] = tested[f.nodes[b].sub]
              /\ f.nodes[b].sub \in DOMAIN f.nodes /\ f.nodes[f.nodes[b].sub].k = "LValueToRValue"
  BY <1>4, <1>6, <1>12, <1>14 DEF Strip, IsBool
<1> DEFINE l == LoadOf(f, e)
           result == IF TestsPointer(f, e) THEN [lvalue |-> f.nodes[l].sub, positive |-> TRUE] ELSE none
<1>15. CASE f.nodes[e].k = "LValueToRValue"
  <2>1. l = e
    BY <1>15 DEF LoadOf
  <2>2. tested[e] = result
    BY <1>13, <1>15, <2>1 DEF TestsPointer
  <2>3. TestedLValue(f, s, e) = result
    BY <1>11, <2>2
  <2> QED
    BY <1>15, <2>3 DEF none
<1>16. CASE f.nodes[e].k = "BoolConversion"
  <2>1. l = f.nodes[e].sub
    BY <1>16 DEF LoadOf
  <2>2. tested[e] = result
    BY <1>13, <1>14, <1>16, <2>1 DEF TestsPointer
  <2>3. TestedLValue(f, s, e) = result
    BY <1>11, <2>2
  <2> QED
    BY <1>16, <2>3 DEF none
<1>17. CASE f.nodes[e].k = "UnaryOperator"
  <2> DEFINE y == f.nodes[e].sub
  <2>1. y \in DOMAIN f.nodes /\ f.nodes[y].k \in {"BoolConversion", "LValueToRValue"} /\ IsNot(e)
    BY <1>17 DEF IsCondition, IsTest, IsNegation, IsLoad, IsNot
  <2>2. tested[e] = Negated(tested[y])
    BY <1>7, <1>12, <1>17, <2>1 DEF Strip
  <2>3. l = IF f.nodes[y].k = "BoolConversion" THEN f.nodes[y].sub ELSE y
    BY <1>17 DEF LoadOf
  <2>4. tested[y] = result
    <3> HIDE DEF y, TestedBy, Leaf, none
    <3>1. l \in DOMAIN f.nodes /\ f.nodes[l].k = "LValueToRValue" /\ tested[y] = tested[l]
      <4> HIDE DEF l
      <4>1. CASE f.nodes[y].k = "BoolConversion"
        BY <1>14, <2>1, <2>3, <4>1
      <4>2. CASE f.nodes[y].k = "LValueToRValue"
        BY <2>1, <2>3, <4>2
      <4> QED
        BY <2>1, <4>1, <4>2
    <3>2. TestsPointer(f, e) <=> f.nodes[f.nodes[l].sub].k = "DeclRefExpr" /\ IsPointerCategory(f.nodes[l].type)
      BY DEF TestsPointer
    <3> HIDE DEF l
    <3> QED
      BY <1>13, <3>1, <3>2
  <2>5. TestedLValue(f, s, e) = Negated(result)
    BY <1>11, <2>2, <2>4
  <2> HIDE DEF l, g0, Right, Ans1, Ans2, y
  <2>6. CASE TestsPointer(f, e)
    <3>1. result = [lvalue |-> f.nodes[l].sub, positive |-> TRUE]
      BY <2>6
    <3> HIDE DEF result
    <3>2. result.positive = TRUE /\ result.lvalue = f.nodes[l].sub
      BY <3>1
    <3>3. TestedLValue(f, s, e).lvalue = f.nodes[l].sub /\ TestedLValue(f, s, e).positive = FALSE
      <4>1. Negated(result).lvalue = f.nodes[l].sub
        BY <3>2 DEF Negated
      <4>2. Negated(result).positive = ~result.positive
        BY DEF Negated
      <4>3. Negated(result).positive = FALSE
        BY <4>2, <3>2
      <4> HIDE DEF Negated
      <4> QED
        BY <2>5, <4>1, <4>3
    <3> QED
      BY <1>17, <2>6, <3>3 DEF l
  <2>7. CASE ~TestsPointer(f, e)
    <3>1. result = none
      BY <2>7
    <3> HIDE DEF result
    <3>2. TestedLValue(f, s, e).lvalue = NoExpr
      BY <2>5, <3>1 DEF Negated, none
    <3> QED
      BY <2>7, <3>2
  <2> QED
    BY <2>6, <2>7
<1> QED
  BY <1>15, <1>16, <1>17 DEF IsCondition, IsTest, IsNegation, IsLoad

-----------------------------------------------------------------------------
(* The visit of an expression.                                             *)

(* The expressions of the statement are forgotten. *)
Forgotten(s) == [s EXCEPT !.exprs = EmptyPMap, !.members = EmptyPMap]

(* Which function of the visitor a node of a pointer program is visited by *)
(* (PSetsBuilder::Visit).                                                  *)
LEMMA VisitOfKind ==
  ASSUME NEW f, NEW s, NEW e
  PROVE  /\ f.nodes[e].k = "DeclRefExpr" => VisitElement(f, s, e) = VisitDeclRefExpr(f, s, e)
         /\ f.nodes[e].k \in {"LValueToRValue", "NullToPointer"} =>
              VisitElement(f, s, e) = VisitCastExpr(f, s, e)
         /\ f.nodes[e].k = "BinaryOperator" => VisitElement(f, s, e) = VisitBinaryOperator(f, s, e)
         /\ f.nodes[e].k = "UnaryOperator" => VisitElement(f, s, e) = VisitUnaryOperator(f, s, e)
         /\ f.nodes[e].k \in {"NullPtrLiteral", "BoolConversion"} => VisitElement(f, s, e) = s
         /\ f.nodes[e].k = "DeclStmt" =>
              VisitElement(f, s, e) = Forgotten(EraseVariable(VisitDeclStmt(f, s, e), NoDecl))
         /\ f.nodes[e].k = "LifetimeEnds" => VisitElement(f, s, e) = VisitLifetimeEnds(f, s, e)
<1> DEFINE k == f.nodes[e].k
           t == VisitElement(f, s, e)
<1>1. k = "LifetimeEnds" => t = VisitLifetimeEnds(f, s, e)
  BY DEF VisitElement
<1>2. k \in Kinds \ {"LifetimeEnds"} => t = VisitStmt(f, s, e)
  BY DEF VisitElement, Kinds
<1>3. k \in Kinds \ {"DeclStmt", "LifetimeEnds"} => VisitStmt(f, s, e) = VisitExprOrStmt(f, s, e)
  BY DEF VisitStmt, Kinds, Statements
<1>4. k = "DeclStmt" => VisitStmt(f, s, e) = Forgotten(EraseVariable(VisitExprOrStmt(f, s, e), NoDecl))
  BY DEF VisitStmt, Statements, Forgotten
<1>5. /\ k = "DeclRefExpr" => VisitExprOrStmt(f, s, e) = VisitDeclRefExpr(f, s, e)
      /\ k \in {"LValueToRValue", "NullToPointer"} => VisitExprOrStmt(f, s, e) = VisitCastExpr(f, s, e)
      /\ k = "BinaryOperator" => VisitExprOrStmt(f, s, e) = VisitBinaryOperator(f, s, e)
      /\ k = "UnaryOperator" => VisitExprOrStmt(f, s, e) = VisitUnaryOperator(f, s, e)
      /\ k \in {"NullPtrLiteral", "BoolConversion"} => VisitExprOrStmt(f, s, e) = s
      /\ k = "DeclStmt" => VisitExprOrStmt(f, s, e) = VisitDeclStmt(f, s, e)
  <2> HIDE DEF t
  <2>1. CASE k = "DeclRefExpr"
    BY <2>1 DEF VisitExprOrStmt, CastsThatAreVisited, Constructions, Calls
  <2>2. CASE k \in {"LValueToRValue", "NullToPointer"}
    BY <2>2 DEF VisitExprOrStmt, CastsThatAreVisited, Constructions, Calls
  <2>3. CASE k = "BinaryOperator"
    BY <2>3 DEF VisitExprOrStmt, CastsThatAreVisited, Constructions, Calls
  <2>4. CASE k = "UnaryOperator"
    BY <2>4 DEF VisitExprOrStmt, CastsThatAreVisited, Constructions, Calls
  <2>5. CASE k \in {"NullPtrLiteral", "BoolConversion"}
    BY <2>5 DEF VisitExprOrStmt, CastsThatAreVisited, Constructions, Calls
  <2>6. CASE k = "DeclStmt"
    BY <2>6 DEF VisitExprOrStmt, CastsThatAreVisited, Constructions, Calls
  <2> QED
    BY <2>1, <2>2, <2>3, <2>4, <2>5, <2>6
<1> HIDE DEF t
<1> QED
  BY <1>1, <1>2, <1>3, <1>4, <1>5 DEF Kinds, t

-----------------------------------------------------------------------------
(* The diagnostics that say a pointer is null or dangles. *)
Misuses == {"DerefNull", "DerefDangling"}
Told(diags) == {diags[i].loc : i \in {j \in DOMAIN diags : diags[j].kind \in Misuses}}
IsLog(diags) == \E S : diags \in Seq(S)

IsState(s) ==
  /\ {"pmap", "exprs", "members", "falseExit", "diags", "failed"} \subseteq DOMAIN s
  /\ IsLog(s.diags)

(* t is s after something was said. *)
Extends(s, t) ==
  /\ IsState(t)
  /\ Told(s.diags) \subseteq Told(t.diags)
  /\ t.falseExit = s.falseExit

(* A diagnostic is added to what was told and changes no pset.             *)
LEMMA DiagnoseExtends ==
  ASSUME NEW s, IsState(s), NEW kind, NEW loc, NEW possibly,
         NEW t, t = Diagnose(s, kind, loc, possibly)
  PROVE  /\ Extends(s, t) /\ t.pmap = s.pmap /\ t.exprs = s.exprs
         /\ kind \in Misuses => loc \in Told(t.diags)
<1> DEFINE d == [kind |-> kind, loc |-> loc, possibly |-> possibly]
<1>1. PICK S : s.diags \in Seq(S)
  BY DEF IsState, IsLog
<1>2. t.diags = Append(s.diags, d) /\ t.pmap = s.pmap /\ t.exprs = s.exprs /\ t.falseExit = s.falseExit
      /\ {"pmap", "exprs", "members", "falseExit", "diags", "failed"} \subseteq DOMAIN t
  BY DEF IsState, Diagnose
<1> DEFINE q == s.diags
           r == t.diags
<1>3. q \in Seq(S \cup {d}) /\ d \in S \cup {d}
  <2> HIDE DEF d
  <2> QED
    BY <1>1
<1> DEFINE T == S \cup {d}
<1> HIDE DEF q, T
<1>4. r \in Seq(T) /\ Len(r) = Len(q) + 1 /\ Len(q) \in Nat /\ r[Len(q) + 1] = d
      /\ \A i \in 1..Len(q) : r[i] = q[i]
  <2> HIDE DEF d
  <2> QED
    BY <1>2, <1>3 DEF T, q
<1>5. DOMAIN q = 1..Len(q) /\ DOMAIN r = 1..(Len(q) + 1)
  BY <1>3, <1>4 DEF T
<1>6. d.kind = kind /\ d.loc = loc
  OBVIOUS
<1> HIDE DEF d, r
<1>7. IsLog(r)
  BY <1>4 DEF IsLog
<1>8. Told(q) \subseteq Told(r)
  BY <1>4, <1>5 DEF Told
<1>9. kind \in Misuses => loc \in Told(r)
  <2>1. Len(q) + 1 \in DOMAIN r
    BY <1>4, <1>5
  <2> QED
    BY <1>4, <1>6, <2>1 DEF Told
<1> QED
  BY <1>2, <1>7, <1>8, <1>9 DEF Extends, IsState, q, r

(* To tell no less than before is reflexive and transitive.                *)
LEMMA ExtendsIsOrder ==
  ASSUME NEW s, IsState(s)
  PROVE  /\ Extends(s, s)
         /\ \A t, u : Extends(s, t) /\ Extends(t, u) => Extends(s, u)
BY DEF Extends

(* What is checked is the pset; the state only gets another diagnostic. *)
LEMMA CheckExtends ==
  ASSUME NEW s, IsState(s), NEW ps, NEW loc,
         NEW t, t = CheckPSetValidity(s, ps, loc)
  PROVE  /\ Extends(s, t) /\ t.pmap = s.pmap /\ t.exprs = s.exprs
         /\ ~IsValid(ps) => loc \in Told(t.diags)
<1>1. CASE Invalid \in ps
  BY <1>1, DiagnoseExtends DEF CheckPSetValidity, Misuses, IsValid
<1>2. CASE Invalid \notin ps /\ ~IsValid(ps)
  BY <1>2, DiagnoseExtends DEF CheckPSetValidity, Misuses
<1>3. CASE IsValid(ps)
  <2>1. CheckPSetValidity(s, ps, loc) = s
    BY <1>3 DEF CheckPSetValidity, IsValid
  <2> QED
    BY <1>3, <2>1, ExtendsIsOrder
<1> QED
  BY <1>1, <1>2, <1>3

(* The checks of a pointer that is assigned change no pset                 *)
(* (handlePointerAssign).                                                  *)
LEMMA HandleExtends ==
  ASSUME NEW s, IsState(s), NEW type, NEW ps, NEW loc,
         NEW t, t = HandlePointerAssign(s, type, ps, loc)
  PROVE  Extends(s, t) /\ t.pmap = s.pmap /\ t.exprs = s.exprs
<1>1. CASE Null \in ps /\ ~TypeInfo[type].nullable
  BY <1>1, DiagnoseExtends DEF HandlePointerAssign
<1>2. CASE ~(Null \in ps /\ ~TypeInfo[type].nullable)
  <2>1. HandlePointerAssign(s, type, ps, loc) = s
    BY <1>2 DEF HandlePointerAssign
  <2> QED
    BY <2>1, ExtendsIsOrder
<1> QED
  BY <1>1, <1>2

(* What an assignment of rhs to what lhs may be makes of map p. *)
Assigned(p, lhs, rhs) ==
  IF Cardinality(VarsOf(lhs)) = 1 THEN SetVars(p, VarsOf(lhs), rhs) ELSE AddToVars(p, VarsOf(lhs), rhs)

(* An assignment changes the psets of the assigned locations only          *)
(* (setPSet).                                                              *)
LEMMA SetPSetExtends ==
  ASSUME NEW s, IsState(s), NEW lhs, NEW rhs, NEW loc,
         NEW t, t = SetPSet(s, lhs, rhs, loc)
  PROVE  Extends(s, t) /\ t.exprs = s.exprs /\ t.pmap = Assigned(s.pmap, lhs, rhs)
<1> DEFINE escapes == IsGlobal(lhs) /\ rhs \notin {{}, {Global}, {Null}}
           told == IF escapes THEN Diagnose(s, "PsetOfGlobal", loc, FALSE) ELSE s
           new == Assigned(s.pmap, lhs, rhs)
<1>1. Extends(s, told) /\ told.pmap = s.pmap /\ told.exprs = s.exprs
  <2>1. CASE escapes
    <3> DEFINE d == Diagnose(s, "PsetOfGlobal", loc, FALSE)
    <3>1. Extends(s, d) /\ d.pmap = s.pmap /\ d.exprs = s.exprs
      <4>1. ASSUME NEW possibly
            PROVE  LET x == Diagnose(s, "PsetOfGlobal", loc, possibly)
                   IN  Extends(s, x) /\ x.pmap = s.pmap /\ x.exprs = s.exprs
        BY DiagnoseExtends
      <4> QED
        BY <4>1
    <3>2. told = d
      BY <2>1
    <3> QED
      BY <3>1, <3>2
  <2>2. CASE ~escapes
    BY <2>2, ExtendsIsOrder
  <2> QED
    BY <2>1, <2>2
<1>2. t = [told EXCEPT !.pmap = new]
  BY <1>1 DEF SetPSet, Assigned
<1> HIDE DEF told, new
<1>3. /\ DOMAIN t = DOMAIN told
      /\ t.pmap = new /\ t.exprs = told.exprs /\ t.diags = told.diags /\ t.falseExit = told.falseExit
  BY <1>1, <1>2 DEF Extends, IsState
<1>4. Extends(s, t)
  BY <1>1, <1>3 DEF Extends, IsState
<1> QED
  BY <1>1, <1>3, <1>4 DEF new

(* t is s with the pset of e found. *)
Records(s, t, e, ps) ==
  /\ Extends(s, t)
  /\ e \in DOMAIN t.exprs /\ t.exprs[e] = ps
  /\ \A x \in DOMAIN s.exprs \ {e} : x \in DOMAIN t.exprs /\ t.exprs[x] = s.exprs[x]

(* To record the pset of an expression changes no pset of a variable       *)
(* (setPSet(Expr)).                                                        *)
LEMMA SetExprExtends ==
  ASSUME NEW s, IsState(s), NEW e, NEW ps,
         NEW t, t = SetExpr(s, e, ps)
  PROVE  Records(s, t, e, ps) /\ t.pmap = s.pmap /\ t.diags = s.diags
<1> DEFINE new == SetVars(s.exprs, {e}, ps)
<1>1. t = [s EXCEPT !.exprs = new]
  BY DEF SetExpr
<1>2. /\ e \in DOMAIN new /\ new[e] = ps
      /\ \A x \in DOMAIN s.exprs \ {e} : x \in DOMAIN new /\ new[x] = s.exprs[x]
  BY DEF SetVars
<1> HIDE DEF new
<1>3. /\ DOMAIN t = DOMAIN s
      /\ t.exprs = new /\ t.pmap = s.pmap /\ t.diags = s.diags /\ t.falseExit = s.falseExit
  BY <1>1 DEF IsState
<1>4. Extends(s, t)
  BY <1>3 DEF Extends, IsState
<1> QED
  BY <1>2, <1>3, <1>4 DEF Records

(* What was evaluated has a pset, a variable that of itself. *)
IsKnown(f, s, x) ==
  /\ HasPSet(f, x) /\ f.nodes[x].k # "NullPtrLiteral" => x \in DOMAIN s.exprs /\ s.exprs[x] \in PSets(f)
  /\ f.nodes[x].k = "DeclRefExpr" => s.exprs[x] = {f.nodes[x].var}

(* A node that names a variable names a local.                             *)
LEMMA NamedNode ==
  ASSUME NEW f, IsAnalysed(f), NEW e \in DOMAIN f.nodes
  PROVE  /\ f.nodes[e].k = "DeclRefExpr" => f.nodes[e].var \in Names(f)
         /\ f.nodes[e].k = "DeclStmt" => Var(f.nodes[e].decls[1].var) \in Names(f)
         /\ f.nodes[e].k = "LifetimeEnds" => Var(f.nodes[e].var) \in Names(f)
<1>1. \A d \in NamedBy(f.nodes[e]) : Var(d) \in Names(f)
  BY DEF Names, Locals
<1>2. f.nodes[e].k = "DeclRefExpr" => f.nodes[e].var = Var(f.nodes[e].var.base)
  BY NodeCases DEF IsDeclRef
<1> QED
  BY <1>1, <1>2 DEF NamedBy

(* The pset of an expression that was evaluated is one of a pointer        *)
(* program.                                                                *)
LEMMA KnownPSet ==
  ASSUME NEW f, IsAnalysed(f), NEW x \in DOMAIN f.nodes, NEW s, IsKnown(f, s, x), HasPSet(f, x)
  PROVE  PSetOf(f, s, x) \in PSets(f)
BY PSetOfNode DEF IsKnown, PSets, Special

(* A name gets the pset that holds its variable (VisitDeclRefExpr).        *)
LEMMA VisitName ==
  ASSUME NEW f, IsAnalysed(f), NEW e \in DOMAIN f.nodes, f.nodes[e].k = "DeclRefExpr",
         NEW s, IsState(s),
         NEW t, t = VisitElement(f, s, e)
  PROVE  Records(s, t, e, {f.nodes[e].var}) /\ t.pmap = s.pmap /\ t.diags = s.diags
<1> DEFINE v == f.nodes[e].var
<1>1. v \in Names(f)
  BY NamedNode
<1>2. Singleton(v, 0) = {v} /\ Kind(v) = "Local" /\ IsPlainType(GetType(v))
  BY <1>1, NameIsPlain
<1>3. VarRefersTo(s, v, f.nodes[e].loc) = [st |-> s, ps |-> {v}]
  BY <1>2 DEF VarRefersTo, IsPlainType
<1>4. VisitDeclRefExpr(f, s, e) = SetExpr(s, e, {v})
  BY <1>2, <1>3 DEF VisitDeclRefExpr
<1>5. VisitElement(f, s, e) = VisitDeclRefExpr(f, s, e)
  BY VisitOfKind
<1> DEFINE ps == {v}
<1>6. t = SetExpr(s, e, ps)
  BY <1>4, <1>5
<1> HIDE DEF ps
<1>7. Records(s, t, e, ps) /\ t.pmap = s.pmap /\ t.diags = s.diags
  BY <1>6, SetExprExtends
<1> QED
  BY <1>7 DEF ps

(* ps holds the pointers x may be a name of. *)
ArePointersOf(ps, sub) ==
  /\ ps \subseteq sub
  /\ \A v \in sub : v \in Special \/ IsPointerCategory(GetType(v)) => v \in ps

(* A load of a pointer gets what the variables it loads from point to      *)
(* (VisitCastExpr).                                                        *)
LEMMA VisitLoad ==
  ASSUME NEW f, IsAnalysed(f), NEW e \in DOMAIN f.nodes, f.nodes[e].k = "LValueToRValue",
         IsPointerCategory(f.nodes[e].type),
         NEW s, IsState(s), s.pmap \in PMapsOf(f), s.exprs[f.nodes[e].sub] \in PSets(f),
         NEW t, t = VisitElement(f, s, e)
  PROVE  /\ t.pmap = s.pmap /\ t.diags = s.diags
         /\ \E ps : /\ ArePointersOf(ps, s.exprs[f.nodes[e].sub])
                    /\ Records(s, t, e, DerefPSet(s.pmap, ps))
<1> DEFINE n == f.nodes[e]
           sub == s.exprs[n.sub]
           ps == (sub \cap Special)
                    \cup {v \in VarsOf(sub) : /\ GetType(v) # NoType
                                              /\ TypeInfo[GetType(v)].isPointer}
           new == DerefPSet(s.pmap, ps)
           mid == SetExpr(s, e, new)
<1>1. n.sub \in DOMAIN f.nodes /\ f.nodes[n.sub].k # "NullPtrLiteral"
  BY LoadNode
<1>2. PSetOf(f, s, n.sub) = sub
  BY <1>1, PSetOfNode
<1>3. HasPSet(f, e) /\ IsPointerExpr(f, e)
  BY DEF HasPSet, IsPointerExpr, IsPointerCategory
<1>4. VisitCastExpr(f, s, e) = SetExprDeref(s, e, ps)
  BY <1>2, <1>3 DEF VisitCastExpr
<1>5. t = [mid EXCEPT !.pmap = Remember(@, Looked(ps))]
  <2>1. t = VisitCastExpr(f, s, e)
    BY VisitOfKind
  <2> HIDE DEF ps, n, sub
  <2> QED
    BY <1>4, <2>1 DEF SetExprDeref
<1>6. Records(s, mid, e, new) /\ mid.pmap = s.pmap /\ mid.diags = s.diags
  <2> HIDE DEF new, sub
  <2>1. mid = SetExpr(s, e, new)
    OBVIOUS
  <2> HIDE DEF mid
  <2> QED
    BY <2>1, SetExprExtends
<1>7. ps \subseteq sub
  BY DEF VarsOf
<1>8. Remember(mid.pmap, Looked(ps)) = s.pmap
  <2>1. ps \in PSets(f)
    BY <1>7 DEF PSets
  <2> HIDE DEF ps, mid
  <2> QED
    BY <1>6, <2>1, DerefOfNames, RememberNames
<1> HIDE DEF mid
<1>9. DOMAIN t = DOMAIN mid /\ t.exprs = mid.exprs /\ t.diags = mid.diags /\ t.falseExit = mid.falseExit
      /\ t.pmap = s.pmap
  BY <1>5, <1>6, <1>8 DEF Extends, IsState, Records
<1> HIDE DEF new, ps
<1>10. Extends(s, t)
  BY <1>6, <1>9 DEF Extends, IsState, Records
<1>11. Records(s, t, e, new)
  BY <1>6, <1>9, <1>10 DEF Records
<1>12. ASSUME NEW v \in sub, v \in Special \/ IsPointerCategory(GetType(v)) PROVE v \in ps
  <2>1. CASE v \in Special
    BY <2>1 DEF ps
  <2>2. CASE v \notin Special /\ IsPointerCategory(GetType(v))
    <3>1. v \in Names(f)
      BY <2>2 DEF PSets
    <3>2. IsPlainType(GetType(v))
      BY <3>1, NameIsPlain
    <3>3. GetType(v) # NoType /\ TypeInfo[GetType(v)].isPointer
      BY <2>2, <3>2 DEF IsPlainType
    <3> QED
      BY <2>2, <3>3 DEF ps, VarsOf
  <2> QED
    BY <1>12, <2>1, <2>2
<1>13. ArePointersOf(ps, sub) /\ Records(s, t, e, DerefPSet(s.pmap, ps))
  BY <1>7, <1>11, <1>12 DEF new, ArePointersOf
<1> QED
  BY <1>6, <1>9, <1>13

(* A dereference gets the pset of the pointer, and one that is not valid   *)
(* is reported there (VisitUnaryOperator, checkPSetValidity).              *)
LEMMA VisitStar ==
  ASSUME NEW f, IsAnalysed(f), NEW e \in DOMAIN f.nodes,
         f.nodes[e].k = "UnaryOperator", f.nodes[e].op = "Deref",
         NEW s, IsState(s),
         NEW t, t = VisitElement(f, s, e)
  PROVE  /\ Records(s, t, e, PSetOf(f, s, f.nodes[e].sub)) /\ t.pmap = s.pmap
         /\ ~IsValid(PSetOf(f, s, f.nodes[e].sub)) => f.nodes[e].loc \in Told(t.diags)
<1> DEFINE ps == PSetOf(f, s, f.nodes[e].sub)
           mid == CheckPSetValidity(s, ps, f.nodes[e].loc)
<1>1. t = SetExpr(mid, e, ps)
  <2>1. t = VisitUnaryOperator(f, s, e)
    BY VisitOfKind
  <2> QED
    BY <2>1 DEF VisitUnaryOperator
<1>2. Extends(s, mid) /\ mid.pmap = s.pmap /\ mid.exprs = s.exprs /\ (~IsValid(ps) => f.nodes[e].loc \in Told(mid.diags))
  BY CheckExtends
<1> HIDE DEF mid, ps
<1>3. Records(mid, t, e, ps) /\ t.pmap = mid.pmap /\ t.diags = mid.diags
  <2>1. IsState(mid)
    BY <1>2 DEF Extends
  <2> QED
    BY <1>1, <2>1, SetExprExtends
<1>4. Extends(s, t)
  BY <1>2, <1>3, ExtendsIsOrder DEF Records
<1> QED
  BY <1>2, <1>3, <1>4 DEF Records, ps

(* An address gets the pset of the lvalue it is taken of                   *)
(* (VisitUnaryOperator).                                                   *)
LEMMA VisitAddress ==
  ASSUME NEW f, IsAnalysed(f), NEW e \in DOMAIN f.nodes,
         f.nodes[e].k = "UnaryOperator", f.nodes[e].op = "AddrOf",
         NEW s, IsState(s),
         NEW t, t = VisitElement(f, s, e)
  PROVE  /\ Records(s, t, e, PSetOf(f, s, f.nodes[e].sub)) /\ t.pmap = s.pmap /\ t.diags = s.diags
<1>1. IsAddress(f, f.nodes[e])
  BY NodeCases
<1>2. HasPSet(f, e)
  BY <1>1 DEF HasPSet, IsAddress, IsPointerCategory
<1> DEFINE ps == PSetOf(f, s, f.nodes[e].sub)
<1>3. t = SetExpr(s, e, ps)
  <2>1. t = VisitUnaryOperator(f, s, e)
    BY VisitOfKind
  <2> QED
    BY <1>2, <2>1 DEF VisitUnaryOperator
<1> HIDE DEF ps
<1>4. Records(s, t, e, ps) /\ t.pmap = s.pmap /\ t.diags = s.diags
  BY <1>3, SetExprExtends
<1> QED
  BY <1>4 DEF ps

(* A null pointer points to null (VisitCastExpr).                          *)
LEMMA VisitNullCast ==
  ASSUME NEW f, NEW e, f.nodes[e].k = "NullToPointer", NEW s, IsState(s),
         NEW t, t = VisitElement(f, s, e)
  PROVE  t.pmap = s.pmap /\ t.diags = s.diags /\ \E ps : ps = {Null} /\ Records(s, t, e, ps)
<1> DEFINE ps == {Null}
<1>1. t = SetExpr(s, e, ps)
  <2>1. t = VisitCastExpr(f, s, e)
    BY VisitOfKind
  <2> QED
    BY <2>1 DEF VisitCastExpr
<1>2. ps = {Null}
  OBVIOUS
<1> HIDE DEF ps
<1>3. Records(s, t, e, ps) /\ t.pmap = s.pmap /\ t.diags = s.diags
  BY <1>1, SetExprExtends
<1> QED
  BY <1>2, <1>3

(* Literals, loads of numbers, tests and negations change nothing.         *)
LEMMA VisitNothing ==
  ASSUME NEW f, IsAnalysed(f), NEW e \in DOMAIN f.nodes, NEW s, IsState(s),
         \/ f.nodes[e].k \in {"NullPtrLiteral", "BoolConversion"}
         \/ f.nodes[e].k = "LValueToRValue" /\ ~IsPointerCategory(f.nodes[e].type)
         \/ f.nodes[e].k = "UnaryOperator" /\ f.nodes[e].op = "LNot"
  PROVE  VisitElement(f, s, e) = s
<1>1. CASE f.nodes[e].k \in {"NullPtrLiteral", "BoolConversion"}
  BY <1>1, VisitOfKind
<1>2. CASE f.nodes[e].k = "LValueToRValue" /\ ~IsPointerCategory(f.nodes[e].type)
  <2>1. ~f.nodes[e].lvalue /\ IsPlainType(f.nodes[e].type)
    BY <1>2, NodeCases DEF IsLoad
  <2>2. ~HasPSet(f, e)
    BY <1>2, <2>1 DEF HasPSet, IsLValue, IsPlainType, IsPointerCategory, Category
  <2> QED
    <3>1. VisitElement(f, s, e) = VisitCastExpr(f, s, e)
      BY <1>2, VisitOfKind
    <3> QED
      BY <1>2, <2>2, <3>1 DEF VisitCastExpr
<1>3. CASE f.nodes[e].k = "UnaryOperator" /\ f.nodes[e].op = "LNot"
  <2>1. ~f.nodes[e].lvalue /\ IsPlainType(f.nodes[e].type) /\ ~IsPointerCategory(f.nodes[e].type)
    BY <1>3, NodeCases DEF IsNegation
  <2>2. ~HasPSet(f, e) /\ ~IsPointerExpr(f, e)
    BY <2>1 DEF HasPSet, IsLValue, IsPointerExpr, IsPlainType, IsPointerCategory, Category
  <2> QED
    <3>1. VisitElement(f, s, e) = VisitUnaryOperator(f, s, e)
      BY <1>3, VisitOfKind
    <3> QED
      BY <1>3, <2>2, <3>1 DEF VisitUnaryOperator
<1> QED
  BY <1>1, <1>2, <1>3

(* An assignment gets the pset of its left side, whose variables get that  *)
(* of its right side (VisitBinaryOperator).                                *)
LEMMA VisitAssignment ==
  ASSUME NEW f, IsAnalysed(f), NEW e \in DOMAIN f.nodes, f.nodes[e].k = "BinaryOperator",
         NEW s, IsState(s), NEW t, t = VisitElement(f, s, e),
         NEW lhs, lhs = PSetOf(f, s, f.nodes[e].lhs),
         NEW rhs, rhs = PSetOf(f, s, f.nodes[e].rhs)
  PROVE  /\ Records(s, t, e, lhs)
         /\ t.pmap = Assigned(s.pmap, lhs, rhs)
<1> DEFINE n == f.nodes[e]
           loc == f.nodes[n.rhs].loc
           checked == HandlePointerAssign(s, f.nodes[n.lhs].type, rhs, loc)
           mid == SetPSet(checked, lhs, rhs, loc)
<1>1. n.op = "Assign" /\ IsPointerCategory(n.type)
  BY NodeCases DEF IsAssign
<1>2. t = SetExpr(mid, e, lhs)
  <2>1. t = VisitBinaryOperator(f, s, e)
    BY VisitOfKind
  <2> QED
    BY <1>1, <2>1 DEF VisitBinaryOperator, VisitAssign
<1>3. Extends(s, checked) /\ checked.pmap = s.pmap /\ checked.exprs = s.exprs
  BY HandleExtends
<1> HIDE DEF checked
<1>4. /\ Extends(checked, mid) /\ mid.exprs = checked.exprs
      /\ mid.pmap = Assigned(checked.pmap, lhs, rhs)
  BY <1>3, SetPSetExtends DEF Extends
<1> HIDE DEF mid
<1>5. Records(mid, t, e, lhs) /\ t.pmap = mid.pmap
  <2>1. IsState(mid)
    BY <1>4 DEF Extends
  <2> QED
    BY <1>2, <2>1, SetExprExtends
<1>6. Extends(s, t)
  BY <1>3, <1>4, <1>5, ExtendsIsOrder DEF Records
<1> QED
  BY <1>3, <1>4, <1>5, <1>6 DEF Records

(* The expressions of a pointer program that have a pset are its lvalues   *)
(* and its pointers (hasPSet).                                             *)
LEMMA HasPSetOfNode ==
  ASSUME NEW f, IsAnalysed(f), NEW e \in DOMAIN f.nodes, ~EndsStatement(f.nodes[e])
  PROVE  HasPSet(f, e) <=> f.nodes[e].lvalue \/ IsPointerCategory(f.nodes[e].type)
<1>1. IsPlainType(f.nodes[e].type)
  BY NodeCases DEF EndsStatement
<1> QED
  BY <1>1 DEF HasPSet, IsLValue, IsPlainType, IsPointerCategory, Category

(* What is needed of the operands, and what an expression leaves.          *)
LEMMA RecordsKnown ==
  ASSUME NEW f, NEW s, NEW t, NEW e, NEW ps \in PSets(f), Records(s, t, e, ps),
         f.nodes[e].k # "DeclRefExpr"
  PROVE  /\ Extends(s, t) /\ IsKnown(f, t, e)
         /\ \A x \in DOMAIN s.exprs \ {e} : x \in DOMAIN t.exprs /\ t.exprs[x] = s.exprs[x]
BY DEF Records, IsKnown

(* An operand that was evaluated has a pset of a pointer program.          *)
LEMMA OperandPSet ==
  ASSUME NEW f, IsAnalysed(f), NEW s, NEW x, NEW t,
         IsLValueNode(f, x, t) \/ IsPointerNode(f, x, t), IsKnown(f, s, x)
  PROVE  PSetOf(f, s, x) \in PSets(f)
<1>1. x \in DOMAIN f.nodes /\ ~EndsStatement(f.nodes[x])
  BY DEF IsLValueNode, IsPointerNode, EndsStatement
<1>2. HasPSet(f, x)
  BY <1>1, HasPSetOfNode DEF IsLValueNode, IsPointerNode
<1> QED
  BY <1>1, <1>2, KnownPSet

(* An assignment keeps a map typed.                                        *)
LEMMA AssignedTyped ==
  ASSUME NEW f, NEW p \in PMapsOf(f), NEW lhs \in PSets(f), NEW rhs \in PSets(f)
  PROVE  Assigned(p, lhs, rhs) \in PMapsOf(f)
<1>1. VarsOf(lhs) \in SUBSET Names(f)
  BY DEF VarsOf, PSets
<1> QED
  BY <1>1, SetVarsTyped DEF Assigned

(* Where the assigned locations include the one that is written, and the   *)
(* new pset describes what is written there, the map still accounts for    *)
(* the store.                                                              *)
LEMMA AssignedIsSound ==
  ASSUME NEW s, IsState(s), NEW lhs, IsFiniteSet(lhs), NEW rhs, NEW st, AccountsFor(s.pmap, st),
         NEW l \in VarsOf(lhs), NEW x, Describes(rhs, x)
  PROVE  AccountsFor(Assigned(s.pmap, lhs, rhs), Put(st, l, x))
<1> DEFINE t == SetPSet(s, lhs, rhs, "here")
           p == t.pmap
<1>1. AccountsFor(p, Put(st, l, x))
  BY AssignmentIsSound DEF IsState, IsBuilder
<1>2. t = SetPSet(s, lhs, rhs, "here")
  OBVIOUS
<1> HIDE DEF t
<1>3. p = Assigned(s.pmap, lhs, rhs)
  BY <1>2, SetPSetExtends
<1> QED
  BY <1>1, <1>3

(* The visit of an expression whose operands are known keeps the map       *)
(* typed, makes the expression known and forgets no other one.             *)
LEMMA VisitExpression ==
  ASSUME NEW f, IsAnalysed(f), NEW e \in DOMAIN f.nodes, ~EndsStatement(f.nodes[e]),
         NEW s, IsState(s), s.pmap \in PMapsOf(f), \A x \in UsedBy(f.nodes[e]) : IsKnown(f, s, x),
         NEW t, t = VisitElement(f, s, e)
  PROVE  /\ Extends(s, t) /\ t.pmap \in PMapsOf(f) /\ IsKnown(f, t, e)
         /\ \A x \in DOMAIN s.exprs \ {e} : x \in DOMAIN t.exprs /\ t.exprs[x] = s.exprs[x]
<1> DEFINE n == f.nodes[e]
<1>1. CASE n.k = "DeclRefExpr"
  <2>1. n.var \in Names(f)
    BY <1>1, NamedNode
  <2> DEFINE ps == {n.var}
  <2>2. Records(s, t, e, ps) /\ t.pmap = s.pmap
    BY <1>1, VisitName
  <2>3. ps \in PSets(f)
    BY <2>1 DEF PSets
  <2> QED
    BY <2>2, <2>3 DEF Records, IsKnown
<1>2. CASE n.k = "LValueToRValue" /\ IsPointerCategory(n.type)
  <2>1. IsLValueNode(f, n.sub, n.type) /\ n.sub \in UsedBy(n)
    BY <1>2, LoadNode DEF IsLoad, UsedBy
  <2>2. PSetOf(f, s, n.sub) \in PSets(f)
    BY <2>1, OperandPSet
  <2>3. s.exprs[n.sub] \in PSets(f)
    BY <1>2, <2>2, LoadNode, PSetOfNode
  <2>4. PICK ps : ArePointersOf(ps, s.exprs[n.sub]) /\ Records(s, t, e, DerefPSet(s.pmap, ps)) /\ t.pmap = s.pmap
    BY <1>2, <2>3, VisitLoad
  <2>5. ps \in PSets(f)
    BY <2>3, <2>4 DEF ArePointersOf, PSets
  <2>6. DerefPSet(s.pmap, ps) \in PSets(f)
    BY <2>5, DerefOfNames
  <2> DEFINE new == DerefPSet(s.pmap, ps)
  <2>7. Records(s, t, e, new)
    BY <2>4
  <2>8. new \in PSets(f)
    BY <2>6
  <2> HIDE DEF new
  <2>9. n.k # "DeclRefExpr"
    BY <1>2
  <2>10. /\ Extends(s, t) /\ IsKnown(f, t, e)
         /\ \A x \in DOMAIN s.exprs \ {e} : x \in DOMAIN t.exprs /\ t.exprs[x] = s.exprs[x]
    BY <2>7, <2>8, <2>9, RecordsKnown
  <2> QED
    BY <2>4, <2>10
<1>3. CASE n.k = "UnaryOperator" /\ n.op \in {"Deref", "AddrOf"}
  <2>1. n.sub \in UsedBy(n) /\ \E x : IsLValueNode(f, n.sub, x) \/ IsPointerNode(f, n.sub, x)
    BY <1>3, NodeCases DEF IsStar, IsAddress, UsedBy
  <2>2. PSetOf(f, s, n.sub) \in PSets(f)
    BY <2>1, OperandPSet
  <2>3. Records(s, t, e, PSetOf(f, s, n.sub)) /\ t.pmap = s.pmap
    BY <1>3, VisitStar, VisitAddress
  <2>4. f.nodes[e].k # "DeclRefExpr"
    BY <1>3
  <2> DEFINE new == PSetOf(f, s, n.sub)
  <2>5. new \in PSets(f) /\ Records(s, t, e, new)
    BY <2>2, <2>3
  <2> HIDE DEF new
  <2>6. /\ Extends(s, t) /\ IsKnown(f, t, e)
        /\ \A x \in DOMAIN s.exprs \ {e} : x \in DOMAIN t.exprs /\ t.exprs[x] = s.exprs[x]
    BY <2>4, <2>5, RecordsKnown
  <2> QED
    BY <2>3, <2>6
<1>4. CASE n.k = "NullToPointer"
  <2>1. PICK ps : ps = {Null} /\ Records(s, t, e, ps)
    BY <1>4, VisitNullCast
  <2>2. t.pmap = s.pmap
    BY <1>4, VisitNullCast
  <2>3. ps \in PSets(f) /\ Records(s, t, e, ps)
    BY <2>1 DEF PSets, Special
  <2>4. f.nodes[e].k # "DeclRefExpr"
    BY <1>4
  <2>5. /\ Extends(s, t) /\ IsKnown(f, t, e)
        /\ \A x \in DOMAIN s.exprs \ {e} : x \in DOMAIN t.exprs /\ t.exprs[x] = s.exprs[x]
    BY <2>3, <2>4, RecordsKnown
  <2> QED
    BY <2>2, <2>5
<1>5. CASE n.k = "BinaryOperator"
  <2> DEFINE lhs == PSetOf(f, s, n.lhs)
             rhs == PSetOf(f, s, n.rhs)
  <2>1. n.lhs \in UsedBy(n) /\ n.rhs \in UsedBy(n) /\ IsLValueNode(f, n.lhs, n.type) /\ IsPointerNode(f, n.rhs, n.type)
    BY <1>5, NodeCases DEF IsAssign, UsedBy
  <2>2. lhs \in PSets(f) /\ rhs \in PSets(f)
    BY <2>1, OperandPSet
  <2>3. /\ Records(s, t, e, lhs)
        /\ t.pmap = Assigned(s.pmap, lhs, rhs)
    BY <1>5, VisitAssignment
  <2> HIDE DEF lhs, rhs
  <2>5. t.pmap \in PMapsOf(f)
    BY <2>2, <2>3, AssignedTyped
  <2>6. n.k # "DeclRefExpr"
    BY <1>5
  <2>7. /\ Extends(s, t) /\ IsKnown(f, t, e)
        /\ \A x \in DOMAIN s.exprs \ {e} : x \in DOMAIN t.exprs /\ t.exprs[x] = s.exprs[x]
    BY <2>2, <2>3, <2>6, RecordsKnown
  <2> QED
    BY <2>5, <2>7
<1>6. CASE \/ n.k \in {"NullPtrLiteral", "BoolConversion"}
           \/ n.k = "LValueToRValue" /\ ~IsPointerCategory(n.type)
           \/ n.k = "UnaryOperator" /\ n.op = "LNot"
  <2>1. t = s
    BY <1>6, VisitNothing
  <2>2. ~HasPSet(f, e) \/ n.k = "NullPtrLiteral"
    BY <1>6, NodeCases, HasPSetOfNode DEF IsLoad, IsTest, IsNegation
  <2> QED
    BY <1>6, <2>1, <2>2, ExtendsIsOrder DEF IsKnown
<1>7. n.k \in Kinds \ {"DeclStmt", "LifetimeEnds"}
  BY NodeKinds DEF EndsStatement
<1>8. n.k = "UnaryOperator" => n.op \in {"Deref", "AddrOf", "LNot"}
  BY NodeCases
<1> QED
  BY <1>1, <1>2, <1>3, <1>4, <1>5, <1>6, <1>7, <1>8 DEF Kinds

-----------------------------------------------------------------------------
(* Its statements.                                                         *)

(* Statements *)

(* To erase the temporaries of a statement that has none leaves the psets  *)
(* alone.                                                                  *)
LEMMA ErasingNothing ==
  ASSUME NEW f, IsAnalysed(f), NEW s, IsState(s), s.pmap \in PMapsOf(f),
         NEW t, t = EraseVariable(s, NoDecl)
  PROVE  Extends(s, t) /\ t.pmap = s.pmap
<1> DEFINE p == s.pmap
           temps == {w \in DOMAIN p : IsTemporaryExtendedBy(w, NoDecl)}
           kept == Without(p, temps)
           dangling == {w \in DOMAIN kept : \E v \in VarsOf(p[w]) : IsTemporaryExtendedBy(v, NoDecl)}
           new == SetVars(kept, dangling, {Invalid})
<1>1. t = [s EXCEPT !.pmap = new]
  BY DEF EraseVariable
<1>2. p = [v \in DOMAIN p |-> p[v]] /\ DOMAIN p \subseteq Names(f) /\ \A v \in DOMAIN p : p[v] \in PSets(f)
  BY PMap
<1>3. \A v \in Names(f) : ~IsTemporaryExtendedBy(v, NoDecl)
  BY NameIsPlain DEF IsTemporaryExtendedBy
<1>4. temps = {}
  BY <1>2, <1>3
<1>5. DOMAIN kept = DOMAIN p /\ \A w \in DOMAIN p : kept[w] = p[w]
  BY <1>4 DEF Without, Restrict
<1>6. dangling = {}
  <2>1. \A w \in DOMAIN p : \A v \in VarsOf(p[w]) : v \in Names(f)
    BY <1>2 DEF VarsOf, PSets
  <2> QED
    BY <1>3, <1>5, <2>1
<1>7. new = p
  <2> HIDE DEF kept, dangling
  <2>1. new = [w \in DOMAIN p |-> p[w]]
    BY <1>5, <1>6 DEF SetVars
  <2> QED
    BY <1>2, <2>1
<1> HIDE DEF new
<1>8. DOMAIN t = DOMAIN s /\ t.pmap = new /\ t.diags = s.diags /\ t.falseExit = s.falseExit
  BY <1>1 DEF IsState
<1> QED
  BY <1>7, <1>8 DEF Extends, IsState

(* To forget the expressions of a statement leaves the psets alone.        *)
LEMMA ForgottenExtends ==
  ASSUME NEW s, IsState(s), NEW t, t = Forgotten(s)
  PROVE  Extends(s, t) /\ t.pmap = s.pmap
<1>1. DOMAIN t = DOMAIN s /\ t.pmap = s.pmap /\ t.diags = s.diags /\ t.falseExit = s.falseExit
  BY DEF IsState, Forgotten
<1> QED
  BY <1>1 DEF Extends, IsState

(* A fold over the one declaration of a statement. *)
LEMMA FoldOfOne ==
  ASSUME NEW f, NEW s, NEW d
  PROVE  FoldLeft(LAMBDA st, x : VisitVarDecl(f, st, x), s, <<d>>) = VisitVarDecl(f, s, d)
<1> DEFINE seq == <<d>>
           Inner(it, S) == IF S = {} THEN s ELSE LET x == Max(S) IN VisitVarDecl(f, it[S \ {x}], seq[x])
           Right(it) == it = [S \in SUBSET {1} |-> Inner(it, S)]
           iter == CHOOSE it : Right(it)
           sol == [S \in SUBSET {1} |-> IF S = {} THEN s ELSE VisitVarDecl(f, s, d)]
<1>1. seq[1] = d /\ DOMAIN seq = {1}
  OBVIOUS
<1>2. Max({1}) = 1 /\ {1} \ {1} = {}
  <2>1. 1..1 = {1}
    OBVIOUS
  <2>2. \A n \in Nat \ {0} : Max(1..n) = n
    BY MaxOfInterval
  <2>4. 1 \in Nat \ {0}
    OBVIOUS
  <2>3. Max(1..1) = 1
    BY <2>2, <2>4, Zenon
  <2> QED
    BY <2>1, <2>3
<1>3. \A S \in SUBSET {1} : S = {} \/ S = {1}
  OBVIOUS
<1> HIDE DEF seq
<1>4. Right(sol)
  <2>1. \A S \in SUBSET {1} : Inner(sol, S) = sol[S]
    <3> TAKE S \in SUBSET {1}
    <3>1. CASE S = {}
      BY <3>1
    <3>2. CASE S = {1}
      <4>1. sol[{}] = s
        OBVIOUS
      <4>2. sol[{1}] = VisitVarDecl(f, s, d)
        OBVIOUS
      <4> HIDE DEF sol
      <4>3. Inner(sol, {1}) = VisitVarDecl(f, sol[{1} \ {Max({1})}], seq[Max({1})])
        OBVIOUS
      <4> QED
        BY <1>1, <1>2, <3>2, <4>1, <4>2, <4>3
    <3> QED
      BY <1>3, <3>1, <3>2
  <2> HIDE DEF Inner
  <2> QED
    BY <2>1
<1>5. Right(iter)
  <2> HIDE DEF Right
  <2> QED
    BY <1>4
<1> HIDE DEF iter
<1>6. iter[{}] = s
  BY <1>5
<1>7. iter[{1}] = VisitVarDecl(f, s, d)
  <2>1. iter[{1}] = VisitVarDecl(f, iter[{1} \ {Max({1})}], seq[Max({1})])
    BY <1>5
  <2> QED
    BY <1>1, <1>2, <1>6, <2>1
<1>8. FoldLeft(LAMBDA st, x : VisitVarDecl(f, st, x), s, seq) = iter[{1}]
  BY <1>1 DEF FoldLeft, MapThenFoldSet, iter
<1> QED
  BY <1>7, <1>8 DEF seq

(* A declaration gives its variable what it is initialised with.           *)
InitialPSet(f, s, d) == IF d.init = NoExpr THEN {Invalid} ELSE PSetOf(f, s, d.init)

(* A declaration keeps the map typed and gives its variable its initial    *)
(* pset (VisitVarDecl).                                                    *)
LEMMA VisitDeclaration ==
  ASSUME NEW f, IsAnalysed(f), NEW e \in DOMAIN f.nodes, f.nodes[e].k = "DeclStmt",
         NEW d, d = f.nodes[e].decls[1],
         NEW s, IsState(s), s.pmap \in PMapsOf(f), d.init # NoExpr => IsKnown(f, s, d.init),
         NEW t, t = VisitElement(f, s, e)
  PROVE  /\ Extends(s, t) /\ t.pmap \in PMapsOf(f)
         /\ \E ps \in PSets(f) :
              /\ t.pmap = Assigned(s.pmap, Singleton(Var(d.var), 0), ps)
              /\ IsPointerCategory(DeclInfo[d.var].type) =>
                   ps = InitialPSet(f, s, d)
              /\ ~IsPointerCategory(DeclInfo[d.var].type) => ps = Singleton(Var(d.var), 0)
<1> DEFINE v == Var(d.var)
           type == DeclInfo[d.var].type
           lhs == Singleton(v, 0)
           init == PSetOf(f, s, d.init)
           u == VisitVariable(f, s, d)
           swept == EraseVariable(u, NoDecl)
<1>1. IsDeclaration(f, f.nodes[e]) /\ v \in Names(f)
  BY NodeCases, NamedNode
<1>2. v.base = d.var /\ Kind(v) = "Local" /\ lhs = {v} /\ IsPlainType(type) /\ v \notin Special
  BY <1>1, NameIsPlain, NamesAreNoMarkers DEF Var
<1>3. lhs \in PSets(f)
  BY <1>1, <1>2 DEF PSets
<1>4. VisitDeclStmt(f, s, e) = u
  <2>1. f.nodes[e].decls = <<d>>
    BY <1>1 DEF IsDeclaration
  <2>2. VisitDeclStmt(f, s, e) = VisitVarDecl(f, s, d)
    BY <2>1, FoldOfOne DEF VisitDeclStmt
  <2> QED
    BY <1>2, <2>2 DEF VisitVarDecl
<1>5. d.init # NoExpr => IsPointerCategory(type) /\ init \in PSets(f)
  <2>1. d.init # NoExpr => IsPointerNode(f, d.init, type)
    BY <1>1 DEF IsDeclaration
  <2>2. d.init # NoExpr => init \in PSets(f)
    BY <2>1, OperandPSet
  <2> QED
    BY <2>1, <2>2 DEF IsPointerNode
<1>5a. IsPointerCategory(type) =>
        u = IF d.init # NoExpr THEN SetPSet(HandlePointerAssign(s, type, init, d.loc), lhs, init, d.loc)
            ELSE SetPSet(s, lhs, IF Kind(v) = "Global" THEN {Global} ELSE {Invalid}, d.loc)
  <2>1. IsPointerCategory(type) => ~IsOwnerCategory(type) /\ ~IsAggregate(type)
    BY DEF IsOwnerCategory, IsPointerCategory, IsAggregate, Category
  <2> HIDE DEF init, lhs
  <2> QED
    BY <2>1 DEF VisitVariable, init, lhs
<1>5b. Kind(v) # "Global"
  BY <1>2
<1> HIDE DEF lhs, init, v, u
<1>6. Extends(s, u) /\ \E ps \in PSets(f) :
        /\ u.pmap = Assigned(s.pmap, lhs, ps)
        /\ IsPointerCategory(type) => ps = IF d.init = NoExpr THEN {Invalid} ELSE init
        /\ ~IsPointerCategory(type) => ps = lhs
  <2>1. CASE IsPointerCategory(type) /\ d.init # NoExpr
    <3> DEFINE checked == HandlePointerAssign(s, type, init, d.loc)
    <3>1. u = SetPSet(checked, lhs, init, d.loc)
      BY <1>5a, <2>1
    <3>2. Extends(s, checked) /\ checked.pmap = s.pmap
      BY HandleExtends
    <3> HIDE DEF checked
    <3>3. IsState(checked)
      BY <3>2 DEF Extends
    <3>4. Extends(checked, u) /\ u.pmap = Assigned(s.pmap, lhs, init)
      BY <3>1, <3>2, <3>3, SetPSetExtends
    <3>5. Extends(s, u)
      BY <3>2, <3>4, ExtendsIsOrder
    <3> QED
      BY <1>5, <2>1, <3>4, <3>5
  <2>2. CASE IsPointerCategory(type) /\ d.init = NoExpr
    <3> DEFINE ps == {Invalid}
    <3>1. u = SetPSet(s, lhs, ps, d.loc)
      BY <1>5a, <1>5b, <2>2
    <3>2. ps \in PSets(f) /\ ps = {Invalid}
      BY DEF PSets, Special
    <3> HIDE DEF ps
    <3>3. Extends(s, u) /\ u.pmap = Assigned(s.pmap, lhs, ps)
      BY <3>1, SetPSetExtends
    <3> QED
      BY <2>2, <3>2, <3>3
  <2>3. CASE ~IsPointerCategory(type)
    <3>1. ~IsOwnerCategory(type) /\ ~IsAggregate(type)
      BY <1>2, <2>3 DEF IsPlainType, IsOwnerCategory, IsPointerCategory, IsAggregate, Category
    <3>2. u = SetPSet(s, lhs, lhs, d.loc)
      BY <2>3, <3>1 DEF VisitVariable, lhs, v, u
    <3>3. Extends(s, u) /\ u.pmap = Assigned(s.pmap, lhs, lhs)
      BY <3>2, SetPSetExtends
    <3> QED
      BY <1>3, <2>3, <3>3
  <2> QED
    BY <2>1, <2>2, <2>3
<1>7. t = Forgotten(swept)
  BY <1>4, VisitOfKind
<1>8. u.pmap \in PMapsOf(f) /\ IsState(u)
  BY <1>3, <1>6, AssignedTyped DEF Extends
<1>9. Extends(u, swept) /\ swept.pmap = u.pmap
  BY <1>8, ErasingNothing
<1> HIDE DEF swept
<1>10. Extends(swept, t) /\ t.pmap = swept.pmap
  BY <1>7, <1>9, ForgottenExtends DEF Extends
<1>11. Extends(s, t)
  BY <1>6, <1>9, <1>10, ExtendsIsOrder DEF Extends
<1> QED
  BY <1>6, <1>8, <1>9, <1>10, <1>11 DEF lhs, init, v, InitialPSet

(* The end of a scope.                                                     *)
LEMMA VisitScopeEnd ==
  ASSUME NEW f, IsAnalysed(f), NEW e \in DOMAIN f.nodes, f.nodes[e].k = "LifetimeEnds",
         NEW s, IsState(s), s.pmap \in PMapsOf(f),
         NEW t, t = VisitElement(f, s, e)
  PROVE  /\ Extends(s, t) /\ t.pmap \in PMapsOf(f)
         /\ t = EraseVariable(s, f.nodes[e].var)
<1> DEFINE d == f.nodes[e].var
           v == Var(d)
           p == s.pmap
<1>1. v \in Names(f)
  BY NamedNode
<1>2. v.base = d /\ d # NoDecl /\ IsPlainType(DeclInfo[d].type)
  BY <1>1, NameIsPlain DEF Var
<1>3. t = EraseVariable(s, d)
  <2>1. t = VisitLifetimeEnds(f, s, e)
    BY VisitOfKind
  <2> QED
    BY <1>2, <2>1 DEF VisitLifetimeEnds, IsPlainType
<1> DEFINE new == t.pmap
<1>4. /\ DOMAIN t = DOMAIN s /\ t.diags = s.diags /\ t.falseExit = s.falseExit
  BY <1>3 DEF IsState, EraseVariable
<1>6. new = [w \in DOMAIN new |-> new[w]]
  <2> DEFINE mine == {w \in DOMAIN s.pmap : IsParent(Var(d), w)}
             left == IF d = NoDecl THEN s.pmap ELSE InvalidateVar(Without(s.pmap, mine), Var(d))
             kept == Without(left, {w \in DOMAIN left : IsTemporaryExtendedBy(w, d)})
             dangling == {w \in DOMAIN kept : \E x \in VarsOf(left[w]) : IsTemporaryExtendedBy(x, d)}
  <2>1. new = SetVars(kept, dangling, {Invalid})
    BY <1>3 DEF EraseVariable, IsState
  <2> HIDE DEF kept, dangling
  <2> QED
    BY <2>1 DEF SetVars
<1>7. DOMAIN new \subseteq DOMAIN p /\ \A w \in DOMAIN new : new[w] \in {Invalidated(p[w], v), {Invalid}}
  BY <1>2, <1>3, WhatErasingLeaves DEF IsState
<1>8. \A ps \in PSets(f) : Invalidated(ps, v) \in PSets(f)
  BY DEF Invalidated, PSets, Special
<1>9. {Invalid} \in PSets(f)
  BY DEF PSets, Special
<1>10. DOMAIN p \subseteq Names(f) /\ \A w \in DOMAIN p : p[w] \in PSets(f)
  BY PMap
<1> HIDE DEF new, p
<1>11. DOMAIN new \subseteq Names(f) /\ \A w \in DOMAIN new : new[w] \in PSets(f)
  <2>1. \A w \in DOMAIN new : new[w] = Invalidated(p[w], v) \/ new[w] = {Invalid}
    BY <1>7
  <2> QED
    BY <1>7, <1>8, <1>9, <1>10, <2>1
<1>12. new \in PMapsOf(f)
  BY <1>6, <1>11, PMap
<1> QED
  BY <1>3, <1>4, <1>12 DEF Extends, IsState, new

-----------------------------------------------------------------------------
(* Its blocks.                                                             *)

(* A block of a pointer program, and what holds after its first i elements.*)
IsBlock(f, elems) == elems \in Seq(DOMAIN f.nodes) /\ IsOrdered(f, elems)

BlockInv(f, elems, i, s) ==
  /\ IsState(s)
  /\ s.pmap \in PMapsOf(f)
  /\ \A x : IsFresh(f, elems, x, i) => IsKnown(f, s, x)

(* What was evaluated among the first i + 1 elements is the last of them   *)
(* or was evaluated before it.                                             *)
LEMMA FreshStep ==
  ASSUME NEW f, NEW elems, NEW i \in Nat, NEW x, IsFresh(f, elems, x, i + 1)
  PROVE  /\ ~EndsStatement(f.nodes[elems[i + 1]])
         /\ x = elems[i + 1] \/ IsFresh(f, elems, x, i)
<1>1. PICK j \in 1..(i + 1) : elems[j] = x /\ \A k \in j..(i + 1) : ~EndsStatement(f.nodes[elems[k]])
  BY DEF IsFresh
<1>2. ~EndsStatement(f.nodes[elems[i + 1]])
  <2>1. i + 1 \in j..(i + 1)
    OBVIOUS
  <2> QED
    BY <1>1, <2>1
<1>3. CASE j = i + 1
  BY <1>1, <1>2, <1>3
<1>4. CASE j # i + 1
  <2>1. j \in 1..i /\ \A k \in j..i : k \in j..(i + 1)
    BY <1>4
  <2>2. \A k \in j..i : ~EndsStatement(f.nodes[elems[k]])
    BY <1>1, <2>1
  <2> QED
    BY <1>1, <1>2, <2>1, <2>2 DEF IsFresh
<1> QED
  BY <1>3, <1>4

(* What was evaluated is an expression.                                    *)
LEMMA FreshAreNodes ==
  ASSUME NEW f, NEW elems, IsBlock(f, elems), NEW i \in 0..Len(elems), NEW x, IsFresh(f, elems, x, i)
  PROVE  x \in DOMAIN f.nodes /\ ~EndsStatement(f.nodes[x])
<1>1. PICK j \in 1..i : elems[j] = x /\ \A k \in j..i : ~EndsStatement(f.nodes[elems[k]])
  BY DEF IsFresh
<1>2. j \in 1..Len(elems) /\ j \in j..i
  BY DEF IsBlock
<1>3. elems[j] \in DOMAIN f.nodes
  BY <1>2 DEF IsBlock
<1> QED
  BY <1>1, <1>2, <1>3

(* The next element of a block is a node, and what it uses was evaluated.  *)
LEMMA ElementsAreNodes ==
  ASSUME NEW f, NEW elems, IsBlock(f, elems), NEW i \in 0..(Len(elems) - 1)
  PROVE  /\ Len(elems) \in Nat /\ i \in Nat /\ i + 1 \in 1..Len(elems)
         /\ elems[i + 1] \in DOMAIN f.nodes
         /\ \A x \in UsedBy(f.nodes[elems[i + 1]]) : IsFresh(f, elems, x, i)
<1>1. Len(elems) \in Nat /\ i \in Nat /\ i + 1 \in 1..Len(elems) /\ (i + 1) - 1 = i
  BY DEF IsBlock
<1>2. elems[i + 1] \in DOMAIN f.nodes
  BY <1>1 DEF IsBlock
<1>3. \A j \in 1..Len(elems) : \A x \in UsedBy(f.nodes[elems[j]]) : IsFresh(f, elems, x, j - 1)
  BY DEF IsBlock, IsOrdered
<1> QED
  BY <1>1, <1>2, <1>3

(* The visit of the next element keeps the invariant of the block and      *)
(* tells no less than before.                                              *)
LEMMA BlockStep ==
  ASSUME NEW f, IsAnalysed(f), NEW elems, IsBlock(f, elems), NEW i \in 0..(Len(elems) - 1),
         NEW s, BlockInv(f, elems, i, s),
         NEW t, t = VisitElement(f, s, elems[i + 1])
  PROVE  Extends(s, t) /\ BlockInv(f, elems, i + 1, t)
<1> DEFINE e == elems[i + 1]
           n == f.nodes[e]
<1>1. i \in Nat /\ e \in DOMAIN f.nodes /\ \A x \in UsedBy(n) : IsKnown(f, s, x)
  BY ElementsAreNodes DEF BlockInv
<1>2. IsState(s) /\ s.pmap \in PMapsOf(f)
  BY DEF BlockInv
<1>3. CASE ~EndsStatement(n)
  <2>1. /\ Extends(s, t) /\ t.pmap \in PMapsOf(f) /\ IsKnown(f, t, e)
        /\ \A x \in DOMAIN s.exprs \ {e} : x \in DOMAIN t.exprs /\ t.exprs[x] = s.exprs[x]
    BY <1>1, <1>2, <1>3, VisitExpression
  <2>2. ASSUME NEW x, IsFresh(f, elems, x, i + 1), x # e PROVE IsKnown(f, t, x)
    <3>1. IsFresh(f, elems, x, i)
      BY <1>1, <2>2, FreshStep
    <3>2. IsKnown(f, s, x)
      BY <3>1 DEF BlockInv
    <3>3. x \in DOMAIN f.nodes /\ ~EndsStatement(f.nodes[x])
      BY <1>1, <3>1, FreshAreNodes, ElementsAreNodes
    <3>4. f.nodes[x].k = "DeclRefExpr" => HasPSet(f, x)
      BY <3>3, NodeCases, HasPSetOfNode DEF IsDeclRef
    <3> QED
      BY <2>1, <2>2, <3>2, <3>4 DEF IsKnown
  <2> QED
    BY <2>1, <2>2 DEF BlockInv, Extends
<1>4. CASE EndsStatement(n)
  <2>1. \A x : ~IsFresh(f, elems, x, i + 1)
    BY <1>1, <1>4, FreshStep
  <2>2. CASE n.k = "DeclStmt"
    <3> DEFINE d == n.decls[1]
    <3>1. d.init # NoExpr => IsKnown(f, s, d.init)
      BY <1>1, <2>2 DEF UsedBy
    <3> HIDE DEF d
    <3>2. d = f.nodes[e].decls[1]
      BY DEF d
    <3>3. Extends(s, t) /\ t.pmap \in PMapsOf(f)
      BY <1>1, <1>2, <2>2, <3>1, <3>2, VisitDeclaration
    <3> QED
      BY <2>1, <3>3 DEF BlockInv, Extends
  <2>3. CASE n.k = "LifetimeEnds"
    <3>1. Extends(s, t) /\ t.pmap \in PMapsOf(f)
      BY <1>1, <1>2, <2>3, VisitScopeEnd
    <3> QED
      BY <2>1, <3>1 DEF BlockInv, Extends
  <2> QED
    BY <1>4, <2>2, <2>3 DEF EndsStatement
<1> QED
  BY <1>3, <1>4

-----------------------------------------------------------------------------
(* Its conditions, and the end of the function.                            *)

(* Conditions *)

(* What is known of x once it was tested for null. *)
Narrowed(p, x, isNull) == SetVars(p, {x}, IF isNull THEN {Null} ELSE GetPSet(p, x) \ {Null})

(* The map on either side of a test is typed.                              *)
LEMMA NarrowedTyped ==
  ASSUME NEW f, IsAnalysed(f), NEW p \in PMapsOf(f), NEW x \in Names(f), NEW isNull
  PROVE  Narrowed(p, x, isNull) \in PMapsOf(f)
<1> DEFINE ps == IF isNull THEN {Null} ELSE GetPSet(p, x) \ {Null}
<1>1. GetPSet(p, x) \in PSets(f)
  <2>1. x \in DOMAIN p => p[x] \in PSets(f)
    BY PMap
  <2>2. {Invalid} \in PSets(f) /\ {} \in PSets(f)
    BY DEF PSets, Special
  <2> QED
    BY <2>1, <2>2, GetPSetOfName
<1>2. ps \in PSets(f)
  BY <1>1 DEF PSets, Special
<1> HIDE DEF ps
<1>3. SetVars(p, {x}, ps) \in PMapsOf(f)
  BY <1>2, SetVarsTyped
<1> QED
  BY <1>3 DEF Narrowed, ps

(* The map on the side of a test that is taken accounts for the same       *)
(* store.                                                                  *)
LEMMA NarrowedAccounts ==
  ASSUME NEW f, IsAnalysed(f), NEW p, NEW x \in Names(f), NEW isNull \in BOOLEAN,
         NEW st, AccountsFor(p, st), x \in DOMAIN st => (st[x] = Null) = isNull
  PROVE  AccountsFor(Narrowed(p, x, isNull), st)
<1> DEFINE ps == IF isNull THEN {Null} ELSE GetPSet(p, x) \ {Null}
           q == Narrowed(p, x, isNull)
<1>1. DOMAIN q = {x} \cup DOMAIN p /\ q[x] = ps /\ \A v \in DOMAIN p \ {x} : q[v] = p[v]
  BY DEF Narrowed, SetVars
<1>2. ASSUME x \in DOMAIN st, st[x] # Opaque PROVE Describes(ps, st[x])
  <2>1. x \in DOMAIN p /\ Describes(p[x], st[x])
    BY <1>2 DEF AccountsFor
  <2>2. GetPSet(p, x) = p[x]
    BY <2>1, GetPSetOfName
  <2>3. CASE st[x] = Null
    BY <1>2, <2>3 DEF Describes
  <2>4. CASE st[x] # Null
    <3>1. ps = p[x] \ {Null}
      BY <1>2, <2>2, <2>4
    <3> QED
      BY <2>1, <2>4, <3>1, MarkersDiffer DEF Describes
  <2> QED
    BY <2>3, <2>4
<1> HIDE DEF ps, q
<1> QED
  BY <1>1, <1>2 DEF AccountsFor, q

(* The split of a test of x, whose true branch is the positive one.        *)
LEMMA SplitOfTest ==
  ASSUME NEW f, IsAnalysed(f), NEW s, IsState(s), s.pmap \in PMapsOf(f), NEW e,
         NEW c \in DOMAIN f.nodes, f.nodes[c].k = "DeclRefExpr", IsKnown(f, s, c),
         NEW x, x = f.nodes[c].var, NEW positive \in BOOLEAN,
         TestedLValue(f, s, e).lvalue = c, TestedLValue(f, s, e).positive = positive,
         NEW t, t = UpdatePSetsFromCondition(f, s, e)
  PROVE  /\ IsState(t) /\ t.diags = s.diags
         /\ t.pmap = Narrowed(s.pmap, x, ~positive) /\ t.falseExit = Narrowed(s.pmap, x, positive)
<1> DEFINE tested == TestedLValue(f, s, e)
           refs == VarsOf(PSetOf(f, s, tested.lvalue))
           v == CHOOSE w \in refs : TRUE
           pmap == Remember(s.pmap, {v})
           nonNull == GetPSet(s.pmap, v) \ {Null}
           Branch(isNull) ==
             SetVars(IF isNull THEN SetVars(pmap, {DerefVar(v)} \cap DOMAIN pmap, {}) ELSE pmap,
                     {v}, IF isNull THEN {Null} ELSE nonNull)
<1>1. c # NoExpr
  BY DEF IsAnalysed, IsPointerProgram
<1>2. refs = {x}
  <2>1. PSetOf(f, s, c) = {x}
    BY PSetOfNode DEF IsKnown
  <2>2. x \notin Special
    BY NamedNode, NamesAreNoMarkers
  <2> QED
    BY <2>1, <2>2 DEF VarsOf
<1>3. v = x /\ Cardinality(refs) = 1 /\ x \in Names(f)
  BY <1>2, FS_Singleton, NamedNode
<1>4. pmap = s.pmap
  <2>1. {v} \in SUBSET Names(f)
    BY <1>3
  <2> HIDE DEF v
  <2> QED
    BY <2>1, RememberNames
<1>5. DerefVar(x) \notin DOMAIN s.pmap
  <2>1. DOMAIN s.pmap \subseteq Names(f)
    BY PMap
  <2>2. x = Var(x.base)
    BY <1>3, NameIsPlain
  <2>3. DerefVar(x) = [x EXCEPT !.path = x.path \o [i \in 1..1 |-> Deref]]
    BY DEF DerefVar, DerefN
  <2>4. DerefVar(x).path = <<>> \o [i \in 1..1 |-> Deref]
    BY <2>2, <2>3 DEF Var
  <2>5. Len(<<>> \o [i \in 1..1 |-> Deref]) = 1
    OBVIOUS
  <2>6. DerefVar(x).path # <<>>
    BY <2>4, <2>5
  <2>7. \A w \in Names(f) : w.path = <<>>
    BY NameIsPlain
  <2> QED
    BY <2>1, <2>6, <2>7
<1>6. SetVars(s.pmap, {}, {}) = s.pmap
  BY PMap DEF SetVars
<1>7. Branch(TRUE) = Narrowed(s.pmap, x, TRUE) /\ Branch(FALSE) = Narrowed(s.pmap, x, FALSE)
  <2>1. {DerefVar(v)} \cap DOMAIN pmap = {}
    BY <1>3, <1>4, <1>5
  <2> HIDE DEF v, pmap
  <2> QED
    BY <1>3, <1>4, <1>6, <2>1 DEF Narrowed
<1>8. t = [s EXCEPT !.pmap = Branch(~tested.positive), !.falseExit = Branch(tested.positive)]
  <2>1. ~(tested.lvalue = NoExpr \/ Cardinality(refs) # 1)
    BY <1>1, <1>3
  <2> QED
    BY <2>1, Zenon DEF UpdatePSetsFromCondition
<1> HIDE DEF Branch, tested
<1>8a. tested.positive = positive
  BY DEF tested
<1>9. /\ DOMAIN t = DOMAIN s /\ t.diags = s.diags
      /\ t.pmap = Branch(~positive) /\ t.falseExit = Branch(positive)
  BY <1>8, <1>8a DEF IsState
<1>10. t.pmap = Narrowed(s.pmap, x, ~positive) /\ t.falseExit = Narrowed(s.pmap, x, positive)
  BY <1>7, <1>9
<1> QED
  BY <1>9, <1>10 DEF IsState

(* The end of the function: a pointer program has no parameters and no     *)
(* contract, so that nothing is erased, checked or told.                   *)
LEMMA NoSequence == DOMAIN SetToSeq({}) = {}
<1> DEFINE g == [i \in 1..0 |-> i]
<1>1. Cardinality({}) = 0
  BY FS_EmptySet
<1>2. g \in [1..0 -> {}] /\ IsInjective(g)
  BY DEF IsInjective
<1>3. \E x \in [1..0 -> {}] : IsInjective(x)
  BY <1>2
<1>4. SetToSeq({}) \in [1..0 -> {}]
  BY <1>1, <1>3 DEF SetToSeq
<1> QED
  BY <1>4

(* To erase no variables does nothing.                                     *)
LEMMA NothingToErase ==
  ASSUME NEW s, NEW seq, DOMAIN seq = {} PROVE FoldLeft(EraseVariable, s, seq) = s
<1> DEFINE Right(it) == it = [S \in SUBSET {} |->
                                IF S = {} THEN s ELSE LET x == Max(S) IN EraseVariable(it[S \ {x}], seq[x])]
           iter == CHOOSE it : Right(it)
<1>1. Right([S \in SUBSET {} |-> s])
  OBVIOUS
<1>2. Right(iter)
  <2> HIDE DEF Right
  <2> QED
    BY <1>1
<1>3. iter[{}] = s
  <2> HIDE DEF iter
  <2> QED
    BY <1>2
<1>4. FoldLeft(EraseVariable, s, seq) = iter[{}]
  BY DEF FoldLeft, MapThenFoldSet
<1> HIDE DEF iter
<1> QED
  BY <1>3, <1>4

(* Where the function is left nothing is reported: a pointer program has   *)
(* no contracts and no static to keep.                                     *)
LEMMA FinishDoesNothing ==
  ASSUME NEW f, IsAnalysed(f), NEW s, s.pmap \in PMapsOf(f), NEW b
  PROVE  OnFunctionFinish(f, s, b) = s
<1> DEFINE last == f.nodes[Last(f.elems[b])]
           loc == IF f.elems[b] = <<>> THEN "end"
                  ELSE IF last.k = "ReturnStmt" THEN last.loc
                  ELSE IF last.k = "LifetimeEnds" THEN last.trigger
                  ELSE "end"
           ByValue(d) == /\ DeclInfo[d].kind = "Param"
                         /\ ~TypeInfo[DeclInfo[d].type].isPointer
                         /\ ~TypeInfo[DeclInfo[d].type].isReference
           gone == {w.base : w \in {u \in DOMAIN s.pmap : ByValue(u.base)
                                                         /\ ~IsPointerCategory(GetType(u))}}
           erased == FoldLeft(EraseVariable, s, SetToSeq(gone))
           outs == {v \in DOMAIN f.post \cap DOMAIN erased.pmap : ~IsReturnVal(v)}
           Meets(st, v) ==
             LET Through(w) == LET held == IF IsField(w) /\ w \in DOMAIN st.pmap
                                           THEN VarsOf(st.pmap[w]) ELSE {}
                               IN  IF held = {} THEN w ELSE CHOOSE u \in held : TRUE
                 ps == TransformVars(st.pmap[v], Through)
             IN  CheckContract([st EXCEPT !.pmap = SetVars(@, {v}, ps)], ps, f.post[v], loc)
           IsOutput(v) ==
             /\ IsField(v) \/ IsDeref(v)
             /\ IsThisPointer(v) \/ IsParameter(v)
             /\ IsDeref(v) \/ IsPointerCategory(GetType(v))
             /\ ~(IsParameter(v) /\ TypeInfo[DeclInfo[v.base].type].isRValueReference)
           checked == FoldLeft(Meets, erased, SetToSeq(outs))
           dangling == {v \in DOMAIN checked.pmap : /\ IsOutput(v)
                                                    /\ Invalid \in checked.pmap[v]
                                                    /\ Invalid \notin PostCondition(f, v)}
           Tell(st, v) == Diagnose(st, "Dangling", loc, ~IsInvalid(checked.pmap[v]))
           none == SetToSeq({})
<1>1. \A v \in DOMAIN s.pmap : Kind(v) = "Local"
  <2>1. DOMAIN s.pmap \subseteq Names(f)
    BY PMap
  <2> QED
    BY <2>1, NameIsPlain
<1>2. gone = {}
  BY <1>1 DEF Kind
<1>3. erased = s
  BY <1>2, NoSequence, NothingToErase
<1> HIDE DEF erased, gone, Meets, none
<1>4. outs = {}
  BY DEF IsAnalysed, IsPointerProgram
<1>5. DOMAIN none = {}
  BY NoSequence DEF none
<1>6. FoldLeft(Meets, erased, none) = erased
  <2> DEFINE Right(it) == it = [S \in SUBSET {} |->
                                  IF S = {} THEN erased ELSE LET x == Max(S) IN Meets(it[S \ {x}], none[x])]
             iter == CHOOSE it : Right(it)
  <2>1. Right([S \in SUBSET {} |-> erased])
    OBVIOUS
  <2>2. Right(iter)
    <3> HIDE DEF Right
    <3> QED
      BY <2>1
  <2>3. iter[{}] = erased
    <3> HIDE DEF iter
    <3> QED
      BY <2>2
  <2>4. FoldLeft(Meets, erased, none) = iter[{}]
    BY <1>5 DEF FoldLeft, MapThenFoldSet
  <2> HIDE DEF iter
  <2> QED
    BY <2>3, <2>4
<1>7. checked = s
  BY <1>3, <1>4, <1>6 DEF none
<1> HIDE DEF checked, Tell
<1>8. dangling = {}
  BY <1>1, <1>7 DEF IsThisPointer, IsParameter
<1>9. FoldLeft(Tell, checked, none) = checked
  <2> DEFINE Right(it) == it = [S \in SUBSET {} |->
                                  IF S = {} THEN checked ELSE LET x == Max(S) IN Tell(it[S \ {x}], none[x])]
             iter == CHOOSE it : Right(it)
  <2>1. Right([S \in SUBSET {} |-> checked])
    OBVIOUS
  <2>2. Right(iter)
    <3> HIDE DEF Right
    <3> QED
      BY <2>1
  <2>3. iter[{}] = checked
    <3> HIDE DEF iter
    <3> QED
      BY <2>2
  <2>4. FoldLeft(Tell, checked, none) = iter[{}]
    BY <1>5 DEF FoldLeft, MapThenFoldSet
  <2> HIDE DEF iter
  <2> QED
    BY <2>3, <2>4
<1>10. OnFunctionFinish(f, s, b) = IF f.isDestructor THEN checked ELSE FoldLeft(Tell, checked, SetToSeq(dangling))
  BY Zenon DEF OnFunctionFinish, checked, Tell, Meets, erased, gone
<1> HIDE DEF dangling
<1>11. FoldLeft(Tell, checked, SetToSeq(dangling)) = checked
  BY <1>8, <1>9 DEF none
<1> QED
  BY <1>7, <1>10, <1>11

=============================================================================
