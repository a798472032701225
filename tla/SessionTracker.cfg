SPECIFICATION Spec
CONSTANTS
    Callers = {c1}
    NoCaller = nc
    Reasons = {"OperatorReject"}
    MaxCalls = 2
    MaxGenerations = 3
INVARIANTS
    HeardByItsCall
    OutcomeIsTrue
CHECK_DEADLOCK FALSE
