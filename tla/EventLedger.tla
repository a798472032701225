---------------------------- MODULE EventLedger ----------------------------
(***************************************************************************)
(* What durable delivery promises for each event, whatever the threads,    *)
(* the sealing key and the process do: an event the outbox accepted is     *)
(* owed until the host has it or it is buried as a dead letter; it is      *)
(* never just lost, and what was delivered stays delivered.                *)
(*                                                                         *)
(*   unknown    no row, and the host does not have it                      *)
(*   owed       accepted, to be emitted until it is acknowledged           *)
(*   buried     a dead letter or a quarantine row, kept for its retention  *)
(*   assumed    written to a host that cannot acknowledge, by the          *)
(*              operator's explicit choice, and counted as sent            *)
(*   delivered  in the host's durable journal                              *)
(***************************************************************************)
CONSTANTS Keys, AllowLegacy

VARIABLE state

States == {"unknown", "owed", "buried", "assumed", "delivered"}

Init == state = [k \in Keys |-> "unknown"]

\* The moves of one event.  There is none from owed to unknown, and none out
\* of delivered.
Moves ==
    {<<"unknown", "owed">>, <<"unknown", "buried">>,
     <<"owed", "buried">>, <<"buried", "owed">>, <<"buried", "unknown">>}
    \cup ({"unknown", "owed", "buried", "assumed"} \X {"delivered"})
    \cup (IF AllowLegacy THEN {<<"owed", "assumed">>, <<"assumed", "unknown">>}
          ELSE {})

Next ==
    /\ state' \in [Keys -> States]
    /\ \A k \in Keys : state'[k] = state[k] \/ <<state[k], state'[k]>> \in Moves

Spec == Init /\ [][Next]_state
=============================================================================
