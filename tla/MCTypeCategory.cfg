SPECIFICATION FairSpec
CONSTANTS
  NoType = NoType
  Void = Void
  Types <- MCTypes
  Asked = {"int[]", "A", "B", "C"}
  StackLimit = 12
  Worlds <- MCWorlds
INVARIANT AnswersAreCurrent
INVARIANT IndirectionsHavePointees
PROPERTY Answered
CHECK_DEADLOCK FALSE
