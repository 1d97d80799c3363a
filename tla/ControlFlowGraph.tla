-------------------------- MODULE ControlFlowGraph --------------------------
(***************************************************************************)
(* A function body as the analysis sees it: the control flow graph Clang   *)
(* builds.  Clang is not part of the repository; this module fixes how the *)
(* other modules read such a graph.                                        *)
(*                                                                         *)
(* A body f is a record:                                                   *)
(*   blocks       the basic blocks,                                        *)
(*   entry, exit  two of them, without elements,                           *)
(*   succs        block |-> sequence of [to, reachable]; for a branch the  *)
(*                first edge is the true and the second the false edge; an *)
(*                edge Clang pruned as never taken is not reachable,       *)
(*   rank         block |-> its position in the reverse post order,        *)
(*   elems        block |-> sequence of names of nodes,                    *)
(*   nodes        node |-> the expression, statement or scope end; the     *)
(*                latter's trigger is the return statement that leaves the *)
(*                scope, if it is one, and else the end of the function,   *)
(*   forBlocks    blocks whose terminator is a ForStmt,                    *)
(*   noReturn     blocks with a call that does not return,                 *)
(*   params, this, members  the parameters, and for a method the this      *)
(*                pointer and the fields of *this,                         *)
(*   pre, post    the contracts of the function,                           *)
(*   returnType, isDestructor,                                             *)
(*   suppressed   the locations inside [[gsl::suppress("lifetime")]].      *)
(***************************************************************************)
EXTENDS Naturals, Sequences, SequencesExt

CONSTANT NoExpr  \* a null Expr*

SuccSize(f, b) == Len(f.succs[b])

(* The successors a worklist is given: null successors are ignored. *)
ReachableSuccs(f, b) ==
  {f.succs[b][i].to : i \in {j \in DOMAIN f.succs[b] : f.succs[b][j].reachable}}

Preds(f, b) ==
  {p \in f.blocks : \E i \in DOMAIN f.succs[p] : f.succs[p][i].to = b}

(* A predecessor over a pruned edge is a null AdjacentBlock. *)
IsReachablePred(f, p, b) == b \in ReachableSuccs(f, p)

(* Is p -> b the false edge of a two way branch? *)
IsFalseEdge(f, p, b) ==
  /\ SuccSize(f, p) = 2
  /\ f.succs[p][2].to = b
  /\ f.succs[p][2].reachable

(* Blocks with no real instruction, where the && and || of a condition     *)
(* converge before it is tested.                                           *)
IsNoopBlock(f, b) ==
  \A i \in DOMAIN f.elems[b] :
    LET n == f.nodes[f.elems[b][i]]
    IN  /\ n.k \in {"Transparent", "LogicalOp", "LValueToRValue"}
        /\ n.isBool

-----------------------------------------------------------------------------
(* What the modules assume of a graph. *)
IsCFG(f) ==
  /\ f.entry \in f.blocks
  /\ f.exit \in f.blocks
  /\ f.entry # f.exit
  /\ f.succs \in [f.blocks -> Seq([to : f.blocks, reachable : BOOLEAN])]
  /\ f.rank \in [f.blocks -> Nat]
  /\ \A b, c \in f.blocks : f.rank[b] = f.rank[c] => b = c
  /\ f.forBlocks \subseteq f.blocks
  /\ \A b \in f.forBlocks : SuccSize(f, b) = 2
  /\ f.succs[f.exit] = <<>>
=============================================================================
