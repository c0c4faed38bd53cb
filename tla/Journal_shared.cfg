SPECIFICATION Spec
CONSTANTS
  dir = dir
  log = log
  other = other
  Players = {pa, pb}
  Owner = None
  Network = ap
  Paths = {dir, log, other}
  Above <- MCAbove
  Like <- MCLike
  Log = log
  Generated <- MCGenerated
  Workers = {w1, w2}
  MaxWrites = 3
  Calls = {"log", "edit", "write", "mkdir", "remove", "restore", "round", "fail"}
  None = None
SYMMETRY Symmetry
INVARIANTS TypeOK LastWriteWins RestoreLeavesNoOldHand EveryLineLands
PROPERTIES OnlyItsWriterTouchesARow
CHECK_DEADLOCK FALSE
