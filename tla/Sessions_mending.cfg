SPECIFICATION FairSpec
CONSTANTS
  Players = {pa}
  Hosts = {gw}
  Essids = {wifi}
  Ids = {s1, s2, s3}
  Workers = {w1, w2}
  HostNet <- MCHostNet
  Published = {}
  MaxBoots = 1
  Tiers = {FALSE}
  Calls = {"login", "exit", "list"}
  None = None
PROPERTIES BrokenChainsMended
CHECK_DEADLOCK FALSE
