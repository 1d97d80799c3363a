-------------------------- MODULE FixedPointSearch --------------------------
(***************************************************************************)
(* What a data flow analysis promises, whatever its worklist and its       *)
(* order: it processes nodes one at a time, a node only after something    *)
(* has led to it and again only when there is news; a node takes in what   *)
(* the nodes before it tell, and then tells something else itself; and it  *)
(* stops when nobody has anything to tell that is not known, or after      *)
(* Patience nodes.                                                         *)
(***************************************************************************)
EXTENDS Naturals

CONSTANTS
  Patience,
  Leq(_, _)      \* Leq(k, l): whoever knows l has nothing to learn from k

VARIABLES
  nodes, start,
  leads,         \* the pairs of nodes of which the first leads to the second
  told,          \* those of them where the first tells what it knows
  processed,     \* the nodes processed so far
  knows,         \* node |-> what it has taken in
  tells,         \* pair in told |-> what the first tells the second
  effort,        \* the number of nodes processed, repetitions included
  outcome        \* "searching", "steady" or "gave up"

vars == <<nodes, start, leads, told, processed, knows, tells, effort, outcome>>

IsActive(n) == n \in processed \cup {start}

(* The second node of a pair knows what it is told. *)
IsInformed(e) == e[2] \in processed /\ Leq(tells[e], knows[e[2]])
IsSteady == \A e \in told : IsActive(e[1]) => IsInformed(e)

Init ==
  /\ outcome = "searching"
  /\ processed = {}
  /\ effort = 0
  /\ start \in nodes
  /\ told \subseteq leads

Process(n) ==
  /\ outcome = "searching"
  /\ effort < Patience
  /\ \E p \in nodes : IsActive(p) /\ <<p, n>> \in leads
  /\ n \in processed => knows'[n] # knows[n]
  /\ \A m \in nodes \ {n} : knows'[m] = knows[m]
  /\ Leq(knows[n], knows'[n])
  /\ \A e \in told : e[2] = n /\ IsActive(e[1]) => Leq(tells[e], knows'[n])
  /\ \A e \in told : e[1] # n => tells'[e] = tells[e]
  /\ processed' = processed \cup {n}
  /\ effort' = effort + 1
  /\ UNCHANGED <<nodes, start, leads, told, outcome>>

Stop ==
  /\ outcome = "searching"
  /\ \/ IsSteady /\ outcome' = "steady"
     \/ effort >= Patience /\ outcome' = "gave up"
  /\ UNCHANGED <<nodes, start, leads, told, processed, knows, tells, effort>>

Next == (\E n \in nodes : Process(n)) \/ Stop

Spec == Init /\ [][Next]_vars
=============================================================================
