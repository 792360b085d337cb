SPECIFICATION Spec
CONSTANTS
  e1 = e1
  e2 = e2
  headed = headed
  headless = headless
  N = 3
  Endpoints <- TwoEndpoints
  Modes <- TwoModes
  DefaultMode = headed
  AnyMode = AnyMode
PROPERTIES
  AbandonedAttachIsHarmless
CHECK_DEADLOCK FALSE
