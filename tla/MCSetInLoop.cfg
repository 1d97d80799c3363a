SPECIFICATION ExecutionSpec
CONSTANTS
  Null = Null
  Invalid = Invalid
  Global = Global
  NoPMap = NoPMap
  NoExpr = NoExpr
  NoBlock = NoBlock
  Opaque = Opaque
  LifetimeNull = FALSE
  LifetimeCallNull = FALSE
  LifetimePost = FALSE
  LifetimeDisabled = FALSE
  LifetimeGlobal = FALSE
  LifetimeOutput = FALSE
  LifetimeMove = FALSE
  TypeInfo <- MCTypeInfo
  FieldInfo <- MCFieldInfo
  DeclInfo <- MCDeclInfo
  MaxOrderDepth = 3
  FunctionDecls <- SetInLoop
  Body <- MCBody
  VisitBlock <- VisitBlockOf
  Convertible <- MCConvertible
  Callee <- MCCallee
  IterationLimit = 60
INVARIANT DefiniteReportsAreCertain
