SPECIFICATION OverlaySpec
CONSTANTS
  Worker = {w1, w2}
  Controller = controller
  Prevout = {"p", "q", "r", "m", "x1"}
  Blocks <- MCBlocks
  hash <- MChash
  Present = {"p", "q", "r"}
  nullopt = nullopt
INVARIANTS FetchedFromBase ClaimsExclusive AllInputsConsumed
PROPERTIES BlockFinishes StopReturns
