SPECIFICATION Spec
CONSTANTS
    NoCaller = nc
    Callers = {c1, c2, c3}
    Withheld = {c3}
    MaxCalls = 5
    Arrivals = 2
    Departures = 2
    Refusals = 1
    Controls = 1
    Losses = 1
    Slow = 1
SYMMETRY Symmetry
INVARIANTS EveryCallAccountedFor   
