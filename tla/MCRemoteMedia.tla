--------------------------- MODULE MCRemoteMedia ----------------------------
(***************************************************************************)
(* RemoteMedia for TLC: named leases of fixed kinds.                       *)
(***************************************************************************)
EXTENDS RemoteMedia, TLC

CONSTANTS
    leaseA, leaseB,   \* the leases
    callX, callY      \* the calls

KindsAB == (leaseA :> "takeover") @@ (leaseB :> "consult")

\* Two claims of the caller of callX, one after the other; callY only comes
\* and goes.
OwnersXY == (callX :> 3) @@ (callY :> 0)
=============================================================================
