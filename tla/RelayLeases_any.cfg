SPECIFICATION RelaySpec
CONSTANTS
    leaseA = leaseA
    leaseB = leaseB
    leaseC = leaseC
    phoneA = phoneA
    phoneB = phoneB
    phoneC = phoneC
    callX = callX
    Leases = {leaseA, leaseB, leaseC}
    Calls = {callX}
    NoCall = NoCall
    MaxPeers = 2
    MaxOwner <- OwnersX
    LeaseKind <- KindsABC
    Watched = {}
    Devices = {phoneA, phoneB, phoneC}
    DeviceOf <- DevicesABC
    MaxEvents = 1
    Scopes <- ScopesABC
INVARIANTS
    NoHiddenAuthority
    SpeakerIsRegistered
    NoOrphanPeer
    SoleClaimant
SYMMETRY Swapped
CHECK_DEADLOCK FALSE
