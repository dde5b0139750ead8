SPECIFICATION Spec
CONSTANTS
  OutPoint = {"x"}
  Name = {1, 2}
  fNameHistory = TRUE
  NoData = NoData
  MaxHeight = 2
  MaxHistory = 1
  Input <- MCInput
  NoHistory = NoHistory
INVARIANTS CacheCoherent IterationMatchesView
PROPERTY ImplementsFlatNames
