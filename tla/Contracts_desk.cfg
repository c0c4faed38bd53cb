SPECIFICATION Spec
CONSTANTS
  Handles <- MCHandles
  Accounts <- MCHandles
  Numbers <- MCNumbers
  Clients = {"c", "d"}
  ClientOf <- MCClientOf
  Addresses = {"x", "y"}
  Slots = 2
  MaxDraws = 2
  Days = 1
  Txs <- MCTxs
  Askings <- MCAskings
  Records <- MCRecords
  None = None
INVARIANTS
  TypeOK
  SlotsHold
  OneActiveJob
  PaidOnceAndTold
  ClientsTellTrue
  BoardMailedOnceADay
PROPERTIES
  NetworksStand
CHECK_DEADLOCK FALSE
