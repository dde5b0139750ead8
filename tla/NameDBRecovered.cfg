SPECIFICATION ReplaySpec
CHECK_DEADLOCK FALSE
CONSTANTS
  Tx = {"firstA"}
  OutPoint <- MCOutPoint
  Name = {"a", "b"}
  Rand = {"r1"}
  vin <- MCvin
  vout <- MCvout
  NamecoinTx <- MCNamecoinTx
  nameOp <- MCnameOp
  nValue <- MCnValue
  Malformed = {}
  NameExpirationDepth <- MCDepth
  MinNameCoinAmount <- MCMinNameCoinAmount
  MIN_FIRSTUPDATE_DEPTH = 1
  MEMPOOL_HEIGHT = 1000
  fNameHistory = TRUE
  NoData = NoData
  MaxHeight = 3
  BaseHeight = 1
  BaseCoins <- MCBaseCoins
  MaxBlockTxs = 1
  NameLess <- MCNameLess
  MaxCrashes = 1
INVARIANT NameDBRecovered
