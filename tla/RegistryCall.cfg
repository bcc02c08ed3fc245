SPECIFICATION CallSpec
CONSTANTS
  c1 = c1
  c2 = c2
  Callers = {c1, c2}
  Caller = c1
  Services <- MCServices
  Cores <- MCCores
  SliceLists <- MCSliceLists
  MaxValues = 4
INVARIANTS
  NothingMeansNothing
  FoundAsListed
PROPERTIES CallsRecover
