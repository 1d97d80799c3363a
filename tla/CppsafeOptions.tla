--------------------------- MODULE CppsafeOptions ---------------------------
(***************************************************************************)
(* The command line options every analysis of a run is given.              *)
(***************************************************************************)
CONSTANTS
  LifetimeNull,      \* --Wlifetime-null: diagnose possibly null pointers
  LifetimeCallNull,  \* parameters may be null (needs --Wlifetime-null)
  LifetimePost,      \* --Wlifetime-post: strict postconditions
  LifetimeDisabled,  \* --Wlifetime-disabled: report what defeats the analysis
  LifetimeGlobal,    \* --Wlifetime-global
  LifetimeOutput,    \* --Wlifetime-output: outputs must be set on every path
  LifetimeMove       \* --Wlifetime-move: objects that were moved from

ASSUME OptionsAssumption ==
  /\ {LifetimeNull, LifetimeCallNull, LifetimePost, LifetimeDisabled,
      LifetimeGlobal, LifetimeOutput, LifetimeMove} \subseteq BOOLEAN
  /\ LifetimeCallNull => LifetimeNull
=============================================================================
