SPECIFICATION Spec
CONSTANTS
    r1 = r1
    r2 = r2
    t1 = t1
    Texts = {t1}
    Requests = {r1, r2}
    NoRequest = NoRequest
    TEXT_ANSWERS_KEPT = 1
    TextOf <- Retried
    MaxFaults = 3
INVARIANTS
    ToldTheTruth
    
    OneOutcome
    
    DoubtIsKept
CHECK_DEADLOCK FALSE
