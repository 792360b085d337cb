SPECIFICATION TraceSpec
CONSTANTS
  i1 = i1
  i2 = i2
  i3 = i3
  NoTrace = NoTrace
  Traces <- ThreeTraces
  Retention = 2
  Grace = 1
  MaxTime = 2
INVARIANTS
  RecentTracesAreRetained
SYMMETRY Alike
CHECK_DEADLOCK FALSE
