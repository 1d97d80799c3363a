SPECIFICATION Spec
CONSTANTS
  NoType = NoType
  Void = Void
  Types <- MCTypes
  Asked = {"A", "B", "C"}
  StackLimit = 12
  Worlds <- MCForwardDeclared
INVARIANT AnswersAreCurrent
CHECK_DEADLOCK FALSE
