SPECIFICATION ExecutionSpec
CONSTANTS
  Null = Null
  Invalid = Invalid
  Global = Global
  NoPMap = NoPMap
  NoExpr = NoExpr
  NoBlock = NoBlock
  Opaque = Opaque
  LifetimeNull = TRUE
  LifetimeCallNull = FALSE
  LifetimePost = TRUE
  LifetimeDisabled = FALSE
  LifetimeGlobal = FALSE
  LifetimeOutput = TRUE
  LifetimeMove = TRUE
  TypeInfo <- MCTypeInfo
  FieldInfo <- MCFieldInfo
  DeclInfo <- MCDeclInfo
  MaxOrderDepth = 3
  FunctionDecls <- MCFunctionDecls
  Body <- MCBody
  VisitBlock <- VisitBlockOf
  Convertible <- MCConvertible
  Callee <- MCCallee
  IterationLimit = 60
INVARIANT EveryFaultIsReported
INVARIANT PSetsDescribeExecutions
INVARIANT BlocksAreSound
INVARIANT LawfulCallsAreSilent
INVARIANT PostconditionsHold
INVARIANT NothingDanglesOnReturn
INVARIANT MovedFromIsCertain
INVARIANT NothingOutlivesItsScope
