SPECIFICATION Spec
CONSTANTS
  Players = {pa, pb}
  Hosts = {}
  Essids = {wifi, cafe}
  Ids = {s1, s2}
  Workers = {w1, w2}
  HostNet <- MCHostNet
  Published = {wifi}
  MaxBoots = 1
  Tiers = {FALSE}
  Calls = {"login", "su", "leave", "join", "board"}
  None = None
SYMMETRY Symmetry
INVARIANTS DropsWhatItLeft
CHECK_DEADLOCK FALSE
