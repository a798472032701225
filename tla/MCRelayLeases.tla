--------------------------- MODULE MCRelayLeases ----------------------------
(***************************************************************************)
(* RelayLeases for TLC: two takeover leases and a monitor lease, each of a *)
(* device of its own.                                                      *)
(***************************************************************************)
EXTENDS RelayLeases, TLC

CONSTANTS
    leaseA, leaseB, leaseC,   \* the leases
    phoneA, phoneB, phoneC,   \* the devices
    callX                     \* the call

KindsABC == (leaseA :> "takeover") @@ (leaseB :> "takeover") @@ (leaseC :> "monitor")
DevicesABC == (leaseA :> phoneA) @@ (leaseB :> phoneB) @@ (leaseC :> phoneC)
OwnersX == callX :> 4

\* The two talking phones may change places.
Swapped == {(leaseA :> leaseB) @@ (leaseB :> leaseA)
                @@ (phoneA :> phoneB) @@ (phoneB :> phoneA)}

\* One lease in every circumstance; two that compete.
ScopesABC ==
    {[leases |-> {l}, may |-> Changes] : l \in {leaseA, leaseB, leaseC}}
        \cup {[leases |-> {leaseA, leaseB}, may |-> {}]}

\* One talking phone, which stays admitted and allowed.
ScopesA == {[leases |-> {leaseA}, may |-> {}]}
=============================================================================
