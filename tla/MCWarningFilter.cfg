SPECIFICATION FairSpec
CONSTANTS
  None = None
  Null = Null
  Invalid = Invalid
  Queries <- MCQueries
INVARIANT FiltersForAReason
INVARIANT FalseAlarmsAreFiltered
PROPERTY Answered
CHECK_DEADLOCK FALSE
