SPECIFICATION Spec
CONSTANTS
  Players = {pa, pb}
  Hosts = {}
  Essids = {wifi}
  Ids = {s1}
  Workers = {w1}
  HostNet <- MCHostNet
  Published = {}
  MaxBoots = 1
  Tiers = {FALSE}
  Calls = {"login", "leave", "fail"}
  None = None
INVARIANTS ToldClearIsClear
CHECK_DEADLOCK FALSE
