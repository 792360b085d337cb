SPECIFICATION Spec
CONSTANTS
  a1 = a1
  a2 = a2
  r1 = r1
  r2 = r2
  Actions <- TwoActions
  Requests <- TwoRequests
  Settling <- FirstAction
  Policy <- FirstSafe
INVARIANTS
  NothingUnnoticed
  NothingLeftBehind
PROPERTIES
  ImplementsObservedInputs
  SafeRetriesOnly
  PageSettersStay
  QuietUnlessStray
CHECK_DEADLOCK FALSE
