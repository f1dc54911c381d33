SPECIFICATION Spec
CONSTANTS
  left = left
  right = right
  Providers = {left, right}
  Ports = {8001, 8002}
  NoPort = NoPort
  MaxSessions <- MCMaxSessions
INVARIANT
  AlwaysStopped
CHECK_DEADLOCK FALSE
