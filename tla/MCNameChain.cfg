SPECIFICATION Spec
CONSTANTS
  Tx <- MCTx
  OutPoint <- MCOutPoint
  Name = {"a", "b"}
  Rand = {"r1", "r2"}
  vin <- MCvin
  vout <- MCvout
  NamecoinTx <- MCNamecoinTx
  nameOp <- MCnameOp
  nValue <- MCnValue
  Malformed = {"Al"}
  NameExpirationDepth <- RegTestDepth
  MinNameCoinAmount <- MCMinNameCoinAmount
  MIN_FIRSTUPDATE_DEPTH = 1
  MEMPOOL_HEIGHT = 1000
  fNameHistory = TRUE
  NoData = NoData
  MaxHeight = 6
  BaseHeight = 1
  BaseCoins <- MCBaseCoins
  MaxBlockTxs = 2
INVARIANTS NoFailure NameDBConsistent UpdateCheckRedundant HistoryMatchesChain
PROPERTIES DisconnectRestores OnlyOwnerUpdates
