SPECIFICATION PoolSpec
CONSTANTS
  Tx <- ConfirmedNewTx
  OutPoint <- MCOutPoint
  Name = {"a"}
  Rand = {"r1", "r2"}
  vin <- MCvin
  vout <- MCvout
  NamecoinTx <- ConfirmedNewTx
  nameOp <- MCnameOp
  nValue <- MCnValue
  Malformed = {}
  NameExpirationDepth <- MCDepth
  MinNameCoinAmount <- MCMinNameCoinAmount
  MIN_FIRSTUPDATE_DEPTH = 1
  MEMPOOL_HEIGHT = 1000
  fNameHistory = FALSE
  NoData = NoData
  MaxHeight = 5
  BaseHeight = 1
  BaseCoins <- ConfirmedNewCoins
  MaxBlockTxs = 2
  NoTx = NoTx
  TxidLess <- ParentFirst
  NameLess = {}
INVARIANT NoPoolFailure
