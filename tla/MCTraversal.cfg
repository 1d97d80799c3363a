SPECIFICATION FairSpec
CONSTANTS
  Null = Null
  Invalid = Invalid
  Global = Global
  NoPMap = NoPMap
  NoExpr = NoExpr
  LifetimeNull = TRUE
  LifetimeCallNull = FALSE
  LifetimePost = FALSE
  LifetimeDisabled = FALSE
  LifetimeGlobal = FALSE
  LifetimeOutput = FALSE
  LifetimeMove = FALSE
  TypeInfo <- MCTypeInfo
  FieldInfo = {}
  DeclInfo <- MCDeclInfo
  FunctionDecls <- MCFunctionDecls
  Body <- MCBody
  VisitBlock <- MCVisitBlock
  IterationLimit = 6
INVARIANT TypeOK
INVARIANT NothingForgotten
INVARIANT SteadyState
INVARIANT UnvisitedIsUnreachable
PROPERTY EntriesGrow
PROPERTY OneVisitWithoutLoops
PROPERTY Termination
PROPERTY SearchesForFixedPoint
