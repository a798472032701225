---------------------------- MODULE MCSwitchboard ----------------------------
(* Instances of Switchboard: callers who show a number are interchangeable. *)
EXTENDS Switchboard

Symmetry == Permutations(Callers \ Withheld)
==============================================================================
