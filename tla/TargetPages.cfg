SPECIFICATION Spec
CONSTANTS
  c1 = c1
  c2 = c2
  t1 = t1
  t2 = t2
  n1 = n1
  Nobody = Nobody
  NoTarget = NoTarget
  NoPage = NoPage
  Calls <- MCCalls
  Targets <- MCTargets
  Names <- MCNames
INVARIANTS
  TypeOK
  CreatedWhenTold
  NothingPendsInVain
  NoPageBoundTwice
PROPERTIES
  ExactUnlessCrossed
  NamesOutliveOthers
SYMMETRY Alike
CHECK_DEADLOCK FALSE
