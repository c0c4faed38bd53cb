SPECIFICATION Spec
CONSTANTS
  Players = {pa, pb}
  Hosts = {gw}
  Essids = {wifi}
  Ids = {s1, s2}
  Workers = {w1, w2}
  HostNet <- MCHostNet
  Published = {}
  MaxBoots = 1
  Tiers = {TRUE}
  Calls = {"create", "login", "list", "reboot", "fail"}
  None = None
SYMMETRY Symmetry
INVARIANTS TypeOK
PROPERTIES RowsKeepTheirPromise RebootEvictsBeforeItTells CascadesRunDown
CHECK_DEADLOCK FALSE
