SPECIFICATION Spec
CONSTANTS
  Tx <- OneNameTx
  OutPoint <- MCOutPoint
  Name = {"a", "b"}
  Rand = {"r1", "r2"}
  vin <- MCvin
  vout <- MCvout
  NamecoinTx <- MCNamecoinTx
  nameOp <- MCnameOp
  nValue <- MCnValue
  Malformed = {}
  NameExpirationDepth <- MainNetDepth
  MinNameCoinAmount <- MCMinNameCoinAmount
  MIN_FIRSTUPDATE_DEPTH = 0
  MEMPOOL_HEIGHT = 1000
  fNameHistory = FALSE
  NoData = NoData
  MaxHeight = 9
  BaseHeight = 1
  BaseCoins <- MCBaseCoins
  MaxBlockTxs = 2
INVARIANTS NoFailure NameDBConsistent
