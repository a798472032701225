--------------------------- MODULE MCEventBridge ---------------------------
(* Small instances of EventBridge for TLC. *)
EXTENDS EventBridge

CONSTANTS k1, k2, b1, b2
=============================================================================
