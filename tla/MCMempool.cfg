CONSTANTS
    base = base  cb = cb  a = a  b = b  b2 = b2  c = c  d = d  e = e  s = s  d2 = d2
    Txs = {cb, a, b, b2, c, d, e, s, d2}
    NoTx = none
    Inputs <- TxInputs
    Outputs <- Outpoints
    Base <- BaseCoins
    Coinbases = {cb}
    LockTime <- Locks
    OptOut = {}
    CoinbaseMaturity = 2
    LimitAncestors = 3
    LimitDescendants = 2
    MaxDisconnected = 3
    MaxBlockTxs = 2
    MaxHeight = 2
    Prioritised = {c}
    MaxDelta = 1
    MaxEvict = 1
SPECIFICATION Spec
INVARIANTS PoolConsistent PackagesMatchLinks DisconnectedApart LimitsHold
