SPECIFICATION Spec
CONSTANTS
  Addresses = {1, 2}
  MaxBalance = 3
  Amounts = {1, 2}
  MaxMoves = 3
  MaxSequence = 2
  Txs = {t1, t2}
  None = None
SYMMETRY Symmetry
INVARIANTS TypeOK LedgerAddsUp LockedOrderLandsOnce KnownAddressesNeverDeadlock
PROPERTIES TransfersAreAtomic
CHECK_DEADLOCK FALSE
