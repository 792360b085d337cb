SPECIFICATION Spec
CONSTANTS
  c1 = c1
  c2 = c2
  p1 = p1
  p2 = p2
  Callers <- TwoCallers
  NoPage = NoPage
  Pages <- TwoPages
  MaxRecordings = 3
INVARIANTS
  NoneHalfWritten
CHECK_DEADLOCK FALSE
