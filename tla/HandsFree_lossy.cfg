SPECIFICATION FairSpec
CONSTANTS
  Callers = {a, b}
  NoCaller = NoCaller
  MAX = 3
  HeldFirst = TRUE
  Scenarios <- OneOmission
PROPERTIES VerdictsAreGiven EndsAreTold
CHECK_DEADLOCK FALSE
