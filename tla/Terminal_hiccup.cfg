SPECIFICATION Spec
CONSTANTS
  Others = {x}
  Home = h
  Marker = 1
  MaxSessions = 2
  MaxMishaps = 1
  None = None
CHECK_DEADLOCK FALSE
PROPERTY
  HiccupsCloseNothing
