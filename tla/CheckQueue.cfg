SPECIFICATION Spec
CONSTANTS
  Worker = {w1}
  Master = {m1}
  Error = {e1}
  nullopt = nullopt
  nBatchSize = 2
  MaxAdded = 3
  MaxControls = 2
INVARIANTS CompleteFaithful
PROPERTIES CompleteReturns StopReturns
