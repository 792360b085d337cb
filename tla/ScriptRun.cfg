SPECIFICATION FairSpec
CONSTANTS
  c1 = c1
  c2 = c2
  c3 = c3
  p1 = p1
  p2 = p2
  Commands <- ThreeCommands
  Pages <- TwoPages
INVARIANTS
  TypeOK
  NoPageLeftBehind
PROPERTIES
  EndsUnlessStuck
CHECK_DEADLOCK FALSE
