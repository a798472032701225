----------------------------- MODULE CallSession ----------------------------
(***************************************************************************)
(* The call in the foreground and its tracker                              *)
(* (crates/aokie-plugin/src/call_session.rs).  Every operator is a method  *)
(* of SessionTracker, from the tracker t to the tracker after the call.    *)
(*                                                                         *)
(* A session keeps what the methods test.  Clock readings, the number the  *)
(* caller hides, utterance ids and the audio on the handset are left out.  *)
(***************************************************************************)
EXTENDS Naturals

CONSTANTS
    Callers,     \* the numbers of the other ends
    NoCaller     \* no number known

Intents == {"OperatorReject", "OperatorHangup", "AgentHangup",
            "AgentTerminateAbuse", "DeviceLost", "AbandonedOnHold",
            "AbandonedInQueue", "Screened", "PluginStopped"}

Outcomes == {"completed", "terminated_abuse", "abandoned_on_hold",
             "abandoned_in_queue", "missed", "rejected", "no_answer", "failed"}

\* No session; its generation is the one an idle tracker reports.
NoSession ==
    [id |-> 0, generation |-> 0, phase |-> "none", answered |-> FALSE,
     caller |-> NoCaller, intent |-> "none", pending |-> FALSE,
     greeted |-> FALSE, left_ringing |-> FALSE, handed_over |-> FALSE,
     answered_by_aokie |-> FALSE, owner_took |-> FALSE, auto_answered |-> FALSE,
     outbound |-> FALSE, agent_owned |-> FALSE, alerted |-> FALSE]

\* What a session holds, NoSession included.
Session ==
    [id : Nat, generation : Nat, phase : {"none", "Ringing", "Active"},
     answered : BOOLEAN, caller : Callers \cup {NoCaller},
     intent : Intents \cup {"none"}, pending : BOOLEAN, greeted : BOOLEAN,
     left_ringing : BOOLEAN, handed_over : BOOLEAN,
     answered_by_aokie : BOOLEAN, owner_took : BOOLEAN, auto_answered : BOOLEAN,
     outbound : BOOLEAN, agent_owned : BOOLEAN, alerted : BOOLEAN]

NewTracker == [session |-> NoSession, last_generation |-> 0]

Live(t) == t.session.id # 0
is_active(s) == s.phase = "Active"
receptionist_owns(s) == (~s.outbound \/ s.agent_owned) /\ ~s.owner_took

generation(t) == t.session.generation

\* Mutant of Start: the generation is the call's, not the focus's.
Start_sameGeneration(t, s) ==
    [session |-> [s EXCEPT !.generation = IF @ = 0 THEN t.last_generation + 1
                                          ELSE @],
     last_generation |-> t.last_generation + 1]

\* A session takes the line, under a generation never used before.
Start(t, s) ==
    [session |-> [s EXCEPT !.generation = t.last_generation + 1],
     last_generation |-> t.last_generation + 1]

\* ring: only an idle tracker starts a call.
ring(t, id) ==
    IF Live(t) THEN t
    ELSE Start(t, [NoSession EXCEPT !.id = id, !.phase = "Ringing",
                                    !.pending = TRUE])

dial(t, id, number, agent_owned) ==
    IF Live(t) THEN t
    ELSE Start(t, [NoSession EXCEPT !.id = id, !.phase = "Ringing",
                                    !.caller = number, !.outbound = TRUE,
                                    !.agent_owned = agent_owned])

\* A method that changes the session, where there is one.
Change(t, s) == IF Live(t) THEN [t EXCEPT !.session = s] ELSE t

note_alerted(t) ==
    Change(t, [t.session EXCEPT !.alerted = @ \/ t.session.outbound])

caller_id(t, number) == Change(t, [t.session EXCEPT !.caller = number])

\* Mutant of Pickup: every confirmation settles whose call it is again.
Pickup_again(s) ==
    [s EXCEPT !.phase = "Active", !.answered = TRUE,
              !.owner_took = ~(s.outbound \/ s.answered_by_aokie \/ s.handed_over)]

\* The session answered: whose call it is, is settled the first time.
Pickup(s) ==
    [s EXCEPT !.phase = "Active", !.answered = TRUE,
              !.owner_took =
                 IF s.answered THEN @
                 ELSE ~(s.outbound \/ s.answered_by_aokie \/ s.handed_over)]

answered(t) == Change(t, Pickup(t.session))

answered_here(t) ==
    answered(Change(t, [t.session EXCEPT !.answered_by_aokie = TRUE]))

hand_to_receptionist(t) ==
    IF is_active(t.session) THEN t
    ELSE Change(t, [t.session EXCEPT !.left_ringing = FALSE,
                                     !.handed_over = TRUE])

\* The first intent wins.
NoteIntent(s, intent) ==
    IF s.intent = "none" THEN [s EXCEPT !.intent = intent] ELSE s

note_intent(t, intent) == Change(t, NoteIntent(t.session, intent))

\* park takes the session out and leaves an idle tracker.
park(t) == [t EXCEPT !.session = NoSession]

\* Mutant of restore: the live session is replaced.
restore_replaces(t, s) == Start(t, s)

\* restore refuses while another session is live: the caller keeps its own.
restore(t, s) == IF Live(t) THEN t ELSE Start(t, s)

\* Mutant of ended_from: an answered call that was rejected is a rejection.
ended_from_rejected(s) ==
    CASE s.intent = "OperatorReject" -> "rejected"
      [] s.intent # "OperatorReject" /\ s.answered -> "completed"
      [] OTHER -> "missed"

\* Mutant of ended_from: the reason is sent as the outcome.
ended_from_reason(s) == IF s.intent = "none" THEN "remote_or_operator" ELSE s.intent

\* ended_from: the outcome call.ended carries.
ended_from(s) ==
    CASE s.outbound /\ ~s.answered ->
            IF s.alerted /\ s.intent \notin {"DeviceLost", "PluginStopped"}
            THEN "no_answer" ELSE "failed"
      [] s.answered ->
            CASE s.intent = "AgentTerminateAbuse" -> "terminated_abuse"
              [] s.intent = "AbandonedOnHold" -> "abandoned_on_hold"
              [] s.intent = "AbandonedInQueue" -> "abandoned_in_queue"
              [] OTHER -> "completed"
      [] OTHER ->
            IF s.intent \in {"OperatorReject", "Screened", "OperatorHangup",
                             "AgentTerminateAbuse"}
            THEN "rejected" ELSE "missed"

\* terminate and terminate_detached end a session with this outcome.
terminate_detached(s, intent) == ended_from(NoteIntent(s, intent))
=============================================================================
