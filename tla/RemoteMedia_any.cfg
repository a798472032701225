SPECIFICATION Spec
CONSTANTS
    leaseA = leaseA
    leaseB = leaseB
    callX = callX
    callY = callY
    Leases = {leaseA, leaseB}
    Calls = {callX, callY}
    NoCall = NoCall
    Watched = {leaseA, leaseB}
    MaxPeers = 2
    MaxOwner <- OwnersXY
    LeaseKind <- KindsAB
INVARIANTS
    OneClaimant
    NeverBoth
    NoSecondTurn
    RouteIsBacked
    SwitchIsAlone
    ActsOnOwnTurn
    ReturnIsUnderWay
