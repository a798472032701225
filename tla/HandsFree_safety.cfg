SPECIFICATION Spec
CONSTANTS
  Callers = {a, b}
  NoCaller = NoCaller
  MAX = 8
  HeldFirst = TRUE
  Scenarios <- KnocksAndCommands
INVARIANTS  EndsAreReal RefusalNamedInTime
SYMMETRY CallerSymmetry
CHECK_DEADLOCK FALSE
