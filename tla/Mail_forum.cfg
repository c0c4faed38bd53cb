SPECIFICATION FairSpec
CONSTANTS
  Handles <- MCHandles
  Players <- MCPlayers
  Passwords <- MCPasswords
  Threads <- MCThreads
  Txs <- MCTxs
  Askings <- MCAskings
  Settled <- MCSettled
  Birth <- MCBirth
  Started <- MCStarted
  MailboxCap = 2
  MaxFailures = 1
  MaxSends = 1
  MaxSignups = 1
  MaxWrites = 1
  None = None
INVARIANTS
  TypeOK
  EveryNumberOnce
  NoneCollides
  RatesHold
  CommentsCountUp
  OnlyPasswdDeadlocks
PROPERTIES
  FirstChangeKeeps
  PlayerMailFits
  EveryRequestAnswers
CHECK_DEADLOCK FALSE
