SPECIFICATION Spec
CONSTANTS
  c1 = c1
  c2 = c2
  c3 = c3
  v1 = v1
  v2 = v2
  Commands <- ThreeCommands
  Versions <- TwoVersions
  NoVersion = NoVersion
  MaxDaemons = 2
INVARIANTS
  RestartSparesWork
  NoAnswerAwaitedInVain
PROPERTIES
  ImplementsServedCommands
  OwnBuildReplacedOnlyIfUnfit
SYMMETRY LifecycleSymmetry
CHECK_DEADLOCK FALSE
