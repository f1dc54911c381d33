SPECIFICATION SideBySideSpec
CONSTANTS
  left = left
  right = right
  Providers = {left, right}
  Ports = {8001, 8002}
  NoPort = NoPort
  Nobody = Nobody
  MaxCalls = 1
  MaxSessions <- MCMaxSessions
INVARIANTS
  SideBySideTypeOK
  StoppedUnlessAbandoned
  ObeyedIsHeld
  FreshWhenOpen
  CallsGoHome
  StrayRunsUnjudged
PROPERTY
  SessionsEnd
CHECK_DEADLOCK FALSE
