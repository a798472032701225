\* One process, two threads that seal, three askings and a restart.
SPECIFICATION FairSpec
CONSTANTS
    p1 = p1  p2 = p2  c1 = c1  c2 = c2  k1 = k1  k2 = k2  k3 = k3
    Procs = {p1}
    Callers = {c1, c2}
    Fetches = {1, 2, 3}
    DataKeys = {k1, k2, k3}
    NoKey = NoKey
    MaxRestarts = 1
INVARIANT SealedOpens
PROPERTY CallersReturn
