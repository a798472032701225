---------------------------- MODULE MCSealingKey ----------------------------
(* Small instances of SealingKey for TLC. *)
EXTENDS SealingKey

CONSTANTS p1, p2, c1, c2, k1, k2, k3
=============================================================================
