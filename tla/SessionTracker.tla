--------------------------- MODULE SessionTracker ---------------------------
(***************************************************************************)
(* The session tracker as the radio thread uses it over many calls: one    *)
(* session in the foreground, the ones it has parked, and the speech       *)
(* recognition worker that returns its transcripts late                    *)
(* (call_session.rs; the worker's results in radio/audio_reply.rs).        *)
(*                                                                         *)
(* The tracker's methods are the operators of CallSession; an action calls *)
(* one.  Which methods the phone's events and the operator's controls lead *)
(* to, and in which order, is in Switchboard: here every order may happen. *)
(***************************************************************************)
EXTENDS CallSession, FiniteSets

CONSTANTS
    Reasons,           \* the termination intents recorded
    MaxCalls,          \* bound: calls in a behaviour
    MaxGenerations     \* bound: times a session takes the line

ASSUME SessionTrackerConstants ==
    Reasons \subseteq Intents /\ MaxCalls \in Nat /\ MaxGenerations \in Nat

VARIABLES
    t,          \* the SessionTracker
    shelf,      \* the parked sessions
    jobs,       \* utterances at the worker: [generation, said]
    minted,     \* call ids given out
    outcome,    \* call id -> the outcome of its call.ended
    \* history
    focus,      \* times the line changed hands
    heard,      \* the transcript of the last result, if recorded: {[said, by]}
    talked      \* ids of the calls that were ever answered

tracker == <<t, shelf, minted, outcome>>
vars == <<t, shelf, jobs, minted, outcome, focus, heard, talked>>

Ids == 1..MaxCalls

\* Who has the line, and since when.
Hold == [call |-> t.session.id, focus |-> focus]

Init ==
    /\ t = NewTracker
    /\ shelf = {}
    /\ jobs = {}
    /\ minted = 0
    /\ outcome = [i \in Ids |-> "none"]
    /\ focus = 0
    /\ heard = {}
    /\ talked = {}

--------------------------------------------------------------------------
(* The tracker's methods                                                   *)

MayStart == t.last_generation < MaxGenerations

\* A call starts: ring, or dial.  Nothing happens while one is live.
Begin(s) ==
    /\ MayStart /\ minted < MaxCalls /\ ~Live(t)
    /\ t' = s
    /\ minted' = minted + 1
    /\ focus' = focus + 1
    /\ UNCHANGED <<shelf, jobs, outcome, heard, talked>>

Ring == Begin(ring(t, minted + 1))

\* The plugin dials a number for its agent; a call dialed on the handset is
\* seen without one.
Dial(number, agent_owned) == Begin(dial(t, minted + 1, number, agent_owned))

\* A method that changes the session in place.
Update(s) ==
    /\ t' = s
    /\ talked' = talked \cup {i \in Ids : i = s.session.id /\ s.session.answered}
    /\ UNCHANGED <<shelf, jobs, minted, outcome, focus, heard>>

NoteAlerted == Update(note_alerted(t))
CallerId(number) == Update(caller_id(t, number))
Answered == Update(answered(t))
AnsweredHere == Update(answered_here(t))
HandToReceptionist == Update(hand_to_receptionist(t))
NoteIntentOf(intent) == Update(note_intent(t, intent))

Park ==
    /\ Live(t)
    /\ shelf' = shelf \cup {t.session}
    /\ t' = park(t)
    /\ focus' = focus + 1
    /\ UNCHANGED <<jobs, minted, outcome, heard, talked>>

\* restore: with another session live, the caller is handed its own back.
Restore(s) ==
    /\ MayStart
    /\ t' = restore(t, s)
    /\ shelf' = IF Live(t) THEN shelf ELSE shelf \ {s}
    /\ focus' = IF Live(t) THEN focus ELSE focus + 1
    /\ UNCHANGED <<jobs, minted, outcome, heard, talked>>

Terminate ==
    /\ Live(t)
    /\ outcome' = [outcome EXCEPT ![t.session.id] = ended_from(t.session)]
    /\ t' = park(t)
    /\ focus' = focus + 1
    /\ UNCHANGED <<shelf, jobs, minted, heard, talked>>

TerminateDetached(s, intent) ==
    /\ outcome' = [outcome EXCEPT ![s.id] = terminate_detached(s, intent)]
    /\ shelf' = shelf \ {s}
    /\ UNCHANGED <<t, jobs, minted, focus, heard, talked>>

--------------------------------------------------------------------------
(* Speech recognition                                                      *)

\* An utterance of an answered call goes to the worker, stamped with the
\* generation of its session.
SendUtterance ==
    /\ is_active(t.session)
    /\ jobs' = jobs \cup {[generation |-> generation(t), said |-> Hold]}
    /\ UNCHANGED <<tracker, focus, heard, talked>>

\* The stale-result gate.
ResultIsCurrent(j) == Live(t) /\ generation(t) = j.generation

\* A transcript comes back: recorded for the call on the line, or dropped.
Result(j) ==
    /\ jobs' = jobs \ {j}
    /\ heard' = IF ResultIsCurrent(j)
                THEN {[said |-> j.said, by |-> Hold]} ELSE {}
    /\ UNCHANGED <<tracker, focus, talked>>

Next ==
    \/ Ring
    \/ \E number \in Callers : Dial(number, TRUE)
    \/ Dial(NoCaller, FALSE)
    \/ NoteAlerted
    \/ \E number \in Callers : CallerId(number)
    \/ Answered
    \/ AnsweredHere
    \/ HandToReceptionist
    \/ \E intent \in Reasons : NoteIntentOf(intent)
    \/ Park
    \/ \E s \in shelf : Restore(s)
    \/ Terminate
    \/ \E s \in shelf, intent \in Reasons : TerminateDetached(s, intent)
    \/ SendUtterance
    \/ \E j \in jobs : Result(j)

Spec == Init /\ [][Next]_vars

--------------------------------------------------------------------------
(* Properties                                                              *)

Holds == [call : Nat, focus : Nat]

\* The shape of the state: the tracker, the parked sessions, the utterances
\* at the worker and the ledger are what their methods make.
TypeOK ==
    /\ t \in [session : Session, last_generation : Nat]
    /\ shelf \subseteq Session
    /\ jobs \subseteq [generation : Nat, said : Holds]
    /\ minted \in 0..MaxCalls
    /\ outcome \in [Ids -> Outcomes \cup {"none"}]
    /\ focus \in Nat
    /\ heard \subseteq [said : Holds, by : Holds]
    /\ talked \subseteq Ids

\* A transcript is recorded only for the call that said it, and only if that
\* call has had the line all the while: a result from before a hold, or from
\* an earlier call, never reaches the conversation (the gate on generation).
HeardByItsCall == \A h \in heard : h.said = h.by

\* Every call that started is the session on the line, is parked once, or has
\* ended once: no order of park, restore and terminate loses a caller or
\* keeps one that has gone.
Places(i) ==
    (IF t.session.id = i THEN 1 ELSE 0)
      + Cardinality({s \in shelf : s.id = i})
      + (IF outcome[i] # "none" THEN 1 ELSE 0)
EveryCallInOnePlace ==
    \A i \in Ids : Places(i) = IF i <= minted THEN 1 ELSE 0

\* call.ended says missed, rejected, failed or no_answer exactly for the calls
\* that nobody ever answered, however long they were parked and whatever was
\* intended for them in the meantime (ended_from).
OutcomeIsTrue ==
    \A i \in Ids : outcome[i] # "none" =>
        (i \in talked <=>
            outcome[i] \notin {"missed", "rejected", "failed", "no_answer"})

\* Whose call it is, the owner's or the receptionist's, is settled when it is
\* answered: nothing that comes later takes it from the owner or hands it
\* back, parking included (answered, hand_to_receptionist).
OwnerStays ==
    \A s \in shelf \cup {t.session}, u \in shelf' \cup {t'.session} :
        s.id = u.id /\ s.answered =>
            u.answered /\ receptionist_owns(s) = receptionist_owns(u)
OwnershipSettled == [][OwnerStays]_vars
=============================================================================
