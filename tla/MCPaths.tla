------------------------------ MODULE MCPaths -------------------------------
(* The analysis of programs with branches and loops, and their execution.  *)
EXTENDS PathPrograms, PointerPrograms

(* The theorems about pointer programs are about programs of these shapes, *)
(* among others.                                                           *)
ASSUME PointerProgramsAssumption ==
  \A shape \in {"branch", "through", "scoped", "outlived", "while", "do", "whileIf"} :
    \E d \in MCFunctionDecls :
      d[1] = shape /\ IsPointerProgram(Body[d]) /\ EndsItsScopes(Body[d])
=============================================================================
