SPECIFICATION Spec
CONSTANTS
  c1 = c1
  c2 = c2
  c3 = c3
  v1 = v1
  v2 = v2
  Commands <- TwoCommands
  Versions <- TwoVersions
  NoVersion = NoVersion
  MaxDaemons = 2
INVARIANTS
  DaemonStaysReachable
CHECK_DEADLOCK FALSE
