SPECIFICATION Spec
CONSTANTS
  Outpoints = {o1, o2}
  Coins = {c1, c2, c3}
  Unspendable = {c3}
  Spent = Spent
  NoEntry = NoEntry
  Blocks = {b1, b2}
  NullHash = NullHash
INVARIANTS FlagsMeanWhatTheySay NoLogicError
PROPERTY CachesAreInvisible
