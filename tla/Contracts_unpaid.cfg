SPECIFICATION Spec
CONSTANTS
  Handles <- MCHandles
  Accounts <- MCHandles
  Numbers <- MCNumbers
  Clients = {"c", "d"}
  ClientOf <- MCClientOf
  Addresses = {"x", "y"}
  Slots = 2
  MaxDraws = 2
  Days = 1
  Txs <- MCTxs
  Askings <- MCAskings
  Records <- MCRecords
  None = None
CHECK_DEADLOCK FALSE
INVARIANT
  AbandonedPaysNothing
