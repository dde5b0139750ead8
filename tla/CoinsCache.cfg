SPECIFICATION Spec
CONSTANTS
  OutPoint = {o1, o2}
  Coin = {c1, c2}
  Spent = Spent
  NoEntry = NoEntry
INVARIANTS SanityCheck FlagsContract
PROPERTY ImplementsFlatCoins
