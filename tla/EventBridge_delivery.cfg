\* One event, both emitters, the replay thread, failing writes, a kill.
SPECIFICATION Spec
CONSTANTS
    k1 = k1  k2 = k2  b1 = b1  b2 = b2
    Keys = {k1}
    Emitters = {"main", "radio"}
    Bodies = {b1}
    NoBody = NoBody
    MAX_ATTEMPTS = 2
    Modes = {"AckExpected", "RequireAck", "Legacy"}
    Faults = {"db", "send", "payload"}
    MAX_HELD_SEALS = 1
    MaxEmits = 2
    MaxCrashes = 1
    MaxRedrives = 1
    AttemptCap = 2
INVARIANT SentIsJournaled
PROPERTIES BuriedForCause NothingSentUnacknowledged LedgerSpec
CHECK_DEADLOCK FALSE
