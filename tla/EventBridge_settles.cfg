\* Everything the outbox accepts or holds is settled in the end.
SPECIFICATION FairSpec
CONSTANTS
    k1 = k1  k2 = k2  b1 = b1  b2 = b2
    Keys = {k1}
    Emitters = {"radio"}
    Bodies = {b1}
    NoBody = NoBody
    MAX_ATTEMPTS = 2
    Modes = {"AckExpected"}
    Faults = {"key", "send"}
    MAX_HELD_SEALS = 1
    MaxEmits = 2
    MaxCrashes = 1
    MaxRedrives = 0
    AttemptCap = 2
PROPERTIES AcceptedIsSettled HeldIsFilled
