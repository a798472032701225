-------------------------------- MODULE Hfp ---------------------------------
(***************************************************************************)
(* What the hands-free side makes of the phone's AT results                *)
(* (crates/aokie-bluetooth/src/aokie_radio/hfp.rs, HfpHandsFreeState).     *)
(* Every operator takes the state h and yields Out(h', events): the state  *)
(* after one result of the phone and the events it raises, in order.  The  *)
(* phone and the channel between the two are in HandsFree.                 *)
(*                                                                         *)
(* The indicators are named instead of numbered.  call_changes and the     *)
(* copy of it that hangup_sent_live keeps are reduced to what is tested:   *)
(* whether the phone's calls changed since our AT+CHUP.  Whether call      *)
(* waiting was negotiated is fixed when the link comes up.                 *)
(***************************************************************************)
EXTENDS Integers, Sequences

CONSTANTS
    Callers,     \* the parties that may be on the line
    NoCaller     \* nobody, or an event without a value

ASSUME HfpConstants == NoCaller \notin Callers

\* hangup_sent_live: no AT+CHUP out on a live call, one and no change since,
\* one and a change since.
HangupSent == {"none", "unchanged", "changed"}

HfState ==
    [ready : BOOLEAN, negotiated : BOOLEAN,
     call_active : BOOLEAN, incoming_call : BOOLEAN, outgoing_setup : BOOLEAN,
     call_held : 0 .. 2, call_waiting : BOOLEAN, waiting_number_known : BOOLEAN,
     terminate_pending : BOOLEAN, second_setup_unverified : BOOLEAN,
     setup_refused : BOOLEAN, answer_retried : BOOLEAN,
     hangup_retried : BOOLEAN, hangup_sent_live : HangupSent]

\* HfpHandsFreeState::default(), with the outcome of the capability probes.
NewHfState(negotiated) ==
    [ready |-> FALSE, negotiated |-> negotiated,
     call_active |-> FALSE, incoming_call |-> FALSE, outgoing_setup |-> FALSE,
     call_held |-> 0, call_waiting |-> FALSE, waiting_number_known |-> FALSE,
     terminate_pending |-> FALSE, second_setup_unverified |-> FALSE,
     setup_refused |-> FALSE, answer_retried |-> FALSE,
     hangup_retried |-> FALSE, hangup_sent_live |-> "none"]

Out(h, events) == [hf |-> h, events |-> events]
Event(name) == [name |-> name, value |-> NoCaller]
EventOf(name, value) == [name |-> name, value |-> value]

\* call_in_progress: while it holds, the audio closing does not end the call.
call_in_progress(h) ==
    h.call_active \/ h.incoming_call \/ h.outgoing_setup \/ h.terminate_pending

NoWaiting(h) ==
    [h EXCEPT !.call_waiting = FALSE, !.waiting_number_known = FALSE]

Waiting(h, known) ==
    [h EXCEPT !.call_waiting = TRUE, !.waiting_number_known = known]

\* A callsetup=1 or RING while a call is up, call waiting not negotiated: the
\* phone is asked for its indicators, once.
second_setup_while_active(h) ==
    IF h.negotiated \/ h.call_waiting \/ h.second_setup_unverified
    THEN Out(h, <<>>)
    ELSE Out([h EXCEPT !.second_setup_unverified = TRUE],
             <<Event("CallStateCheck")>>)

update_callheld(h, value) ==
    IF value = h.call_held THEN Out(h, <<>>)
    ELSE Out([h EXCEPT !.call_held = value], <<EventOf("CallHeld", value)>>)

Setup(h) == (h.incoming_call \/ h.outgoing_setup) /\ ~h.call_active

NoSetup(h) == [h EXCEPT !.incoming_call = FALSE, !.outgoing_setup = FALSE]

\* Mutant of SetupEnded: the ambiguous edge is taken for the call's end.
SetupEnded_guessed(h) ==
    CASE h.call_waiting ->
            Out(NoWaiting(h), <<Event("CallWaitingEnded")>>)
      [] ~h.call_waiting /\ h.second_setup_unverified ->
            Out([h EXCEPT !.second_setup_unverified = FALSE], <<>>)
      [] ~h.call_waiting /\ ~h.second_setup_unverified /\ Setup(h) ->
            Out(NoSetup(h), <<Event("CallTerminated")>>)
      [] OTHER -> Out(h, <<>>)

\* callsetup,0.  Without a refusal of ours it is both the end of a ring and
\* its answer, so the verdict waits for the call indicator.
SetupEnded(h) ==
    CASE h.call_waiting ->
            Out(NoWaiting(h), <<Event("CallWaitingEnded")>>)
      [] ~h.call_waiting /\ h.second_setup_unverified ->
            Out([h EXCEPT !.second_setup_unverified = FALSE], <<>>)
      [] ~h.call_waiting /\ ~h.second_setup_unverified /\ Setup(h) ->
            IF h.setup_refused
            THEN Out([NoSetup(h) EXCEPT !.setup_refused = FALSE],
                     <<Event("CallTerminated")>>)
            ELSE Out([NoSetup(h) EXCEPT !.terminate_pending = TRUE], <<>>)
      [] OTHER -> Out(h, <<>>)

\* A new setup finds the last one's verdict still held: that one is over.
HeldVerdict(h) ==
    IF h.terminate_pending THEN <<Event("CallTerminated")>> ELSE <<>>

\* callsetup,1.
IncomingSetup(h) ==
    IF h.call_active
    THEN IF h.negotiated
         THEN IF h.call_waiting THEN Out(h, <<>>)
              ELSE Out(Waiting(h, FALSE), <<Event("CallWaiting")>>)
         ELSE second_setup_while_active(h)
    ELSE Out([h EXCEPT !.terminate_pending = FALSE, !.incoming_call = TRUE,
                       !.outgoing_setup = FALSE, !.setup_refused = FALSE,
                       !.answer_retried = FALSE],
             HeldVerdict(h) \o <<Event("IncomingCall")>>)

\* callsetup,2: a call being dialed, by us or on the handset.  A call still
\* shown as up is one whose end was lost.
OutgoingSetup(h) ==
    Out([h EXCEPT !.terminate_pending = FALSE,
                  !.call_active = @ /\ h.terminate_pending,
                  !.incoming_call = FALSE, !.outgoing_setup = TRUE],
        (IF h.terminate_pending \/ h.call_active
         THEN <<Event("CallTerminated")>> ELSE <<>>)
            \o <<Event("OutgoingDialing")>>)

\* callsetup,3.
Alerting(h) ==
    Out([h EXCEPT !.outgoing_setup = @ \/ ~h.call_active], <<Event("Ringing")>>)

update_callsetup(h, value) ==
    CASE value = 0 -> SetupEnded(h)
      [] value = 1 -> IncomingSetup(h)
      [] value = 2 -> OutgoingSetup(h)
      [] value = 3 -> Alerting(h)

\* The call indicator comes on.
CallUp(h) ==
    IF h.call_active
    THEN Out([h EXCEPT !.setup_refused = FALSE, !.terminate_pending = FALSE],
             <<>>)
    ELSE Out([NoSetup(h) EXCEPT !.setup_refused = FALSE,
                                !.answer_retried = FALSE,
                                !.hangup_retried = FALSE,
                                !.terminate_pending = FALSE,
                                !.call_active = TRUE],
             <<Event("CallAnswered")>>)

\* Mutant of CallDown: the caller who still knocks is forgotten.
CallDown_dropsKnock(h) ==
    IF ~h.call_active
    THEN Out([h EXCEPT !.setup_refused = FALSE, !.terminate_pending = FALSE],
             HeldVerdict(h))
    ELSE Out([NoWaiting(NoSetup(h)) EXCEPT
                 !.setup_refused = FALSE, !.answer_retried = FALSE,
                 !.hangup_retried = FALSE, !.call_active = FALSE,
                 !.second_setup_unverified = FALSE],
             <<Event("CallTerminated")>>)

\* The call indicator goes off.  Whoever still knocks becomes a plain ring,
\* unless a call is held: then the switchboard decides.
CallDown(h) ==
    LET over == [NoSetup(h) EXCEPT !.setup_refused = FALSE,
                                   !.answer_retried = FALSE,
                                   !.hangup_retried = FALSE,
                                   !.call_active = FALSE]
    IN CASE ~h.call_active ->
              Out([h EXCEPT !.setup_refused = FALSE,
                            !.terminate_pending = FALSE],
                  HeldVerdict(h))
         [] h.call_active /\ h.call_waiting /\ h.call_held # 0 ->
              Out(over, <<Event("CallTerminated")>>)
         [] h.call_active /\ h.call_waiting /\ h.call_held = 0 ->
              Out([NoWaiting(over) EXCEPT !.incoming_call = TRUE],
                  <<Event("CallWaitingEnded"), Event("CallTerminated"),
                    Event("IncomingCall")>>)
         [] h.call_active /\ ~h.call_waiting /\ h.second_setup_unverified ->
              Out([over EXCEPT !.second_setup_unverified = FALSE,
                               !.incoming_call = TRUE],
                  <<Event("CallTerminated"), Event("IncomingCall")>>)
         [] OTHER -> Out(over, <<Event("CallTerminated")>>)

update_call_state(h, active) == IF active THEN CallUp(h) ELSE CallDown(h)

apply_indicator(h, name, value) ==
    CASE name = "call" -> update_call_state(h, value # 0)
      [] name = "callsetup" -> update_callsetup(h, value)
      [] name = "callheld" -> update_callheld(h, value)

\* Mutant of Settled: a call the phone no longer shows is dropped in silence.
Settled_lostEnd(h, active, ringing_now) ==
    IF h.terminate_pending
    THEN Out([h EXCEPT !.terminate_pending = FALSE],
             IF active THEN <<Event("CallAnswered")>>
                       ELSE <<Event("CallTerminated")>>)
    ELSE Out([h EXCEPT !.second_setup_unverified = FALSE], <<>>)

\* What a +CIND? answer settles, before its values are taken over: a held
\* verdict, a lost call,0, a second setup that waits for this very answer,
\* and the setup's own read finding a call up.
Settled(h, active, ringing_now) ==
    LET ringsOn == ringing_now
                   /\ (h.call_waiting \/ h.second_setup_unverified)
    IN CASE h.terminate_pending ->
              Out([h EXCEPT !.terminate_pending = FALSE],
                  CASE active /\ ~h.call_active -> <<Event("CallAnswered")>>
                    [] ~active -> <<Event("CallTerminated")>>
                    [] OTHER -> <<>>)
         [] ~h.terminate_pending /\ ~active /\ h.call_active ->
              Out([NoWaiting(h) EXCEPT !.second_setup_unverified = FALSE,
                                       !.call_active = FALSE,
                                       !.incoming_call = @ \/ ringsOn],
                  (IF h.call_waiting THEN <<Event("CallWaitingEnded")>>
                                     ELSE <<>>)
                      \o <<Event("CallTerminated")>>
                      \o (IF ringsOn THEN <<Event("IncomingCall")>> ELSE <<>>))
         [] ~h.terminate_pending /\ active /\ h.second_setup_unverified ->
              IF ringing_now /\ ~h.call_waiting
              THEN Out([Waiting(h, FALSE)
                           EXCEPT !.second_setup_unverified = FALSE],
                       <<Event("CallWaiting")>>)
              ELSE Out([h EXCEPT !.second_setup_unverified = FALSE], <<>>)
         [] ~h.terminate_pending /\ ~h.second_setup_unverified
               /\ active /\ ~h.call_active /\ ~h.ready ->
              Out(h, <<Event("CallActiveAtConnect")>>)
         [] OTHER -> Out(h, <<>>)

\* Mutant of apply_indicator_status: the snapshot settles nothing.
apply_indicator_status_silent(h, call, callsetup, callheld) ==
    Out([h EXCEPT !.call_active = (call # 0),
                  !.incoming_call = (callsetup = 1 /\ call = 0),
                  !.outgoing_setup = (callsetup \in {2, 3} /\ call = 0),
                  !.call_waiting = @ /\ callsetup # 0,
                  !.call_held = callheld],
        <<>>)

\* A +CIND? answer: settles what an edge left open, then aligns in silence.
apply_indicator_status(h, call, callsetup, callheld) ==
    LET active == call # 0
        s == Settled(h, active, callsetup = 1)
        gone == callsetup = 0 /\ s.hf.call_waiting
    IN Out([s.hf EXCEPT
              !.call_active = active,
              !.incoming_call = (callsetup = 1 /\ ~active),
              !.outgoing_setup = (callsetup \in {2, 3} /\ ~active),
              !.call_waiting = @ /\ ~gone,
              !.waiting_number_known = @ /\ ~gone,
              !.call_held = callheld],
           s.events)

\* RING: the knocker's own ring while a call is held or up is not a new call.
Ring(h) ==
    LET live == [h EXCEPT !.terminate_pending = FALSE]
    IN CASE h.call_waiting /\ h.call_held # 0 -> Out(live, <<>>)
         [] ~(h.call_waiting /\ h.call_held # 0) /\ h.call_active ->
              second_setup_while_active(live)
         [] OTHER -> Out([live EXCEPT !.incoming_call = TRUE],
                         <<Event("IncomingCall"), Event("Ringing")>>)

\* +CLIP: while a second call sets up it names the newcomer, not the caller.
Clip(h, caller) ==
    IF h.call_active /\ (h.call_waiting \/ h.second_setup_unverified)
    THEN Out(h, <<>>)
    ELSE Out(h, <<EventOf("CallerId", caller)>>)

\* +CCWA: one event for each knock, one more when the first had no number.
CallWaitingNotification(h, caller) ==
    IF h.call_active /\ ~(h.call_waiting /\ h.waiting_number_known)
    THEN Out(Waiting(h, TRUE), <<EventOf("CallWaiting", caller)>>)
    ELSE Out(h, <<>>)

\* call_shape: a change of it is a change of the phone's calls.
call_shape(h) ==
    <<h.call_active, h.incoming_call, h.outgoing_setup, h.call_waiting,
      h.call_held, h.terminate_pending, h.second_setup_unverified>>

\* apply_result: one result, and the count of changes.
Counted(h, o) ==
    IF call_shape(o.hf) # call_shape(h) /\ o.hf.hangup_sent_live = "unchanged"
    THEN Out([o.hf EXCEPT !.hangup_sent_live = "changed"], o.events)
    ELSE o

\* mark_command_sent: ATD starts from an idle line, AT+CHUP on a setup
\* refuses it.
mark_command_sent(h, command) ==
    CASE command = "ATD" ->
            [h EXCEPT !.terminate_pending = FALSE, !.incoming_call = FALSE,
                      !.call_active = FALSE, !.outgoing_setup = TRUE,
                      !.setup_refused = FALSE]
      [] command = "AT+CHUP" ->
            [h EXCEPT !.setup_refused = @ \/ Setup(h),
                      !.hangup_sent_live =
                          IF h.call_active THEN "unchanged" ELSE "none"]
      [] OTHER -> h

\* Mutant of MayResend: a refused AT+CHUP is sent again on any live call.
MayResend_anyCall(h, command) ==
    \/ command = "AT+CHUP" /\ h.call_active /\ ~h.hangup_retried
    \/ command = "ATA" /\ h.incoming_call /\ ~h.call_active
       /\ ~h.setup_refused /\ ~h.answer_retried

\* The condition under which after_refusal sends the command once more.
MayResend(h, command) ==
    \/ command = "AT+CHUP" /\ h.call_active /\ ~h.hangup_retried
       /\ h.hangup_sent_live = "unchanged"
    \/ command = "ATA" /\ h.incoming_call /\ ~h.call_active
       /\ ~h.setup_refused /\ ~h.answer_retried

\* after_refusal: the state once the phone refused a command of ours.
after_refusal(h, command) ==
    LET again == MayResend(h, command)
    IN CASE command = "AT+CHUP" ->
              [h EXCEPT !.setup_refused = FALSE, !.hangup_sent_live = "none",
                        !.hangup_retried = @ \/ again]
         [] command = "ATA" -> [h EXCEPT !.answer_retried = @ \/ again]
         [] OTHER -> h
=============================================================================
