SPECIFICATION Spec
CONSTANTS
  None = None
  Slabs = {s1, s2}
  Sessions <- MCSessions
INVARIANT ContractsAreTheirOwn
INVARIANT OneContractPerHierarchy
CHECK_DEADLOCK FALSE
