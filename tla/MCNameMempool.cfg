SPECIFICATION PoolSpec
CONSTANTS
  Tx <- MCTx
  OutPoint <- MCOutPoint
  Name = {"a"}
  Rand = {"r1", "r2"}
  vin <- MCvin
  vout <- MCvout
  NamecoinTx <- MCTx
  nameOp <- MCnameOp
  nValue <- MCnValue
  Malformed = {}
  NameExpirationDepth <- MCDepth
  MinNameCoinAmount <- MCMinNameCoinAmount
  MIN_FIRSTUPDATE_DEPTH = 1
  MEMPOOL_HEIGHT = 1000
  fNameHistory = FALSE
  NoData = NoData
  MaxHeight = 4
  BaseHeight = 1
  BaseCoins <- MCBaseCoins
  MaxBlockTxs = 2
  NoTx = NoTx
  TxidLess <- ChildFirst
  NameLess = {}
INVARIANTS  NameMapsMatchPool PoolInputsValid LastNameOutputUnique TemplateConnects
