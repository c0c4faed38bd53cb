SPECIFICATION Spec
CONSTANTS
  Others = {x}
  Home = h
  Marker = 1
  MaxSessions = 2
  MaxMishaps = 1
  None = None
INVARIANTS
  TypeOK
  EvictedNeverRuns
PROPERTIES
  ClosedForAReason
CHECK_DEADLOCK FALSE
