SPECIFICATION Spec
CONSTANTS
  g = g
  a1 = a1
  b1 = b1
  b2 = b2
  null = null
  genesis = g
  Block <- MCBlock
  pprev <- MCpprev
  nHeight <- MCnHeight
  ancestors <- MCancestors
  names <- MCnames
  InitialTip = {null, a1}
  MaxPending = 1
  MaxMoves = 2
  MaxRestarts = 2
CHECK_DEADLOCK FALSE
INVARIANTS NamesIndexed LookupComplete SyncedCoversTip NoFatalError
PROPERTIES SyncFinishes CallerReturns
