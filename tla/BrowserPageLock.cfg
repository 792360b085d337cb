SPECIFICATION Spec
CONSTANTS
  b1 = b1
  b2 = b2
  p1 = p1
  p2 = p2
  r1 = r1
  r2 = r2
  r3 = r3
  r4 = r4
  Browsers <- TwoBrowsers
  Pages <- TwoPages
  Requests <- FourRequests
  WholeBrowser = WholeBrowser
INVARIANTS
  TypeOK
  MutualExclusion
  HoldsMatchRunning
  NobodyWaitsInVain
PROPERTIES
  NoOvertaking
  ImplementsExclusiveAccess
  EveryRequestRuns
