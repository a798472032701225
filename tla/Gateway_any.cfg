SPECIFICATION Spec
CONSTANTS
    d1 = d1
    d2 = d2
    Devices = {d1, d2}
    Calls = {1}
    Scopes <- MCScopes
SYMMETRY Symmetry
INVARIANTS ClaimHoldsTheLine WinnerIsBacked LeaseIsCurrent EndedOnce QueueIsResumable
