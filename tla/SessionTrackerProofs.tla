----------------------- MODULE SessionTrackerProofs -------------------------
(***************************************************************************)
(* What TLAPS proves of SessionTracker, for any number of calls, holds and *)
(* late transcripts.                                                       *)
(***************************************************************************)
EXTENDS SessionTracker, FiniteSetTheorems, TLAPS

Tracker == [session : Session, last_generation : Nat]

\* An idle tracker holds NoSession, and a live one its newest generation.
TrackerOK ==
    /\ ~Live(t) => t.session = NoSession
    /\ Live(t) => generation(t) = t.last_generation
    /\ t.session.id <= minted

\* A job stamped with the newest generation came from the call on the line,
\* and no job bears a generation to come.
JobsOK ==
    \A j \in jobs : /\ j.generation <= t.last_generation
                    /\ Live(t) /\ j.generation = t.last_generation => j.said = Hold

\* The sessions and the ledger name each call once.
Apart ==
    /\ \A s \in shelf : /\ s.id \in 1..minted /\ s.id # t.session.id
                        /\ outcome[s.id] = "none"
    /\ \A s, u \in shelf : s.id = u.id => s = u
    /\ Live(t) => outcome[t.session.id] = "none"
    /\ \A i \in Ids : i > minted => outcome[i] = "none"

Accounted ==
    \A i \in 1..minted : \/ i = t.session.id
                         \/ \E s \in shelf : s.id = i
                         \/ outcome[i] # "none"

\* A session remembers whether its call was ever answered.
Remembered ==
    /\ talked \subseteq 1..minted
    /\ t.session.answered <=> t.session.id \in talked
    /\ \A s \in shelf : s.answered <=> s.id \in talked

\* The inductive invariant.
IInv ==
    /\ TypeOK /\ TrackerOK /\ JobsOK /\ Apart /\ Accounted /\ Remembered
    /\ HeardByItsCall /\ OutcomeIsTrue

\* NoSession has the shape of a session.
LEMMA NoSessionType == NoSession \in Session
BY Zenon DEF NoSession, Session

\* ended_from gives one of the outcomes, and one of the four that say nobody
\* answered exactly for a call nobody answered.
LEMMA EndedFrom ==
    ASSUME NEW s \in Session
    PROVE  /\ ended_from(s) \in Outcomes
           /\ s.answered <=>
                 ended_from(s) \notin {"missed", "rejected", "failed", "no_answer"}
<1>1. s.answered \in BOOLEAN /\ s.outbound \in BOOLEAN
  BY Zenon DEF Session
<1>2. CASE s.answered
  BY Zenon, <1>2 DEF ended_from, Outcomes
<1>3. CASE ~s.answered /\ s.outbound
  BY Zenon, <1>3 DEF ended_from, Outcomes
<1>4. CASE ~s.answered /\ ~s.outbound
  BY Zenon, <1>4 DEF ended_from, Outcomes
<1>5. QED  BY Zenon, <1>1, <1>2, <1>3, <1>4

\* An intent is noted and nothing else changes.
LEMMA NoteIntentKeeps ==
    ASSUME NEW s \in Session, NEW intent \in Intents
    PROVE  LET u == NoteIntent(s, intent) IN
           /\ u \in Session
           /\ u.id = s.id /\ u.generation = s.generation /\ u.answered = s.answered
           /\ u.outbound = s.outbound /\ u.agent_owned = s.agent_owned
           /\ u.owner_took = s.owner_took
BY DEF Session, NoteIntent

\* A session answered keeps its call, and whose it was if it was answered.
LEMMA PickupKeeps ==
    ASSUME NEW r \in Session
    PROVE  LET u == Pickup(r) IN
           /\ u \in Session /\ u.id = r.id /\ u.generation = r.generation
           /\ u.answered /\ u.outbound = r.outbound /\ u.agent_owned = r.agent_owned
           /\ r.answered => u.owner_took = r.owner_took
<1> DEFINE took == IF r.answered THEN r.owner_took
                   ELSE ~(r.outbound \/ r.answered_by_aokie \/ r.handed_over)
<1>1. took \in BOOLEAN
  BY Zenon DEF Session
<1>2. Pickup(r) = [r EXCEPT !.phase = "Active", !.answered = TRUE,
                            !.owner_took = took]
  BY Zenon DEF Pickup
<1>3. r.answered => took = r.owner_took
  BY Zenon
<1> HIDE DEF took
<1>4. QED
  BY ZenonT(30), <1>1, <1>2, <1>3 DEF Session

\* What a method that changes the session in place leaves alone: the call, its
\* generation, that it was answered, and whose it was.
Keeps(x) ==
    /\ x \in Tracker
    /\ x.last_generation = t.last_generation
    /\ x.session.id = t.session.id
    /\ x.session.generation = t.session.generation
    /\ t.session.answered =>
          x.session.answered
          /\ receptionist_owns(x.session) = receptionist_owns(t.session)
    /\ ~Live(t) => x = t

\* Change keeps what its new session keeps.
LEMMA ChangeKeeps ==
    ASSUME t \in Tracker, NEW s \in Session,
           s.id = t.session.id, s.generation = t.session.generation,
           t.session.answered =>
              s.answered /\ receptionist_owns(s) = receptionist_owns(t.session)
    PROVE  Keeps(Change(t, s))
<1>1. CASE ~Live(t)
  BY Zenon, <1>1 DEF Change, Keeps, Tracker, Live
<1>2. CASE Live(t)
  <2> DEFINE x == [t EXCEPT !.session = s]
  <2>1. Change(t, s) = x
    BY Zenon, <1>2 DEF Change
  <2>2. x \in Tracker /\ x.session = s /\ x.last_generation = t.last_generation
    BY Zenon DEF Tracker
  <2>3. QED
    BY Zenon, <1>2, <2>1, <2>2 DEF Keeps
<1>3. QED  BY Zenon, <1>1, <1>2

\* The methods that change a session in place all keep that.
LEMMA MethodsKeep ==
    ASSUME t \in Tracker
    PROVE  /\ Keeps(note_alerted(t))
           /\ \A number \in Callers : Keeps(caller_id(t, number))
           /\ Keeps(answered(t)) /\ Keeps(answered_here(t))
           /\ Keeps(hand_to_receptionist(t))
           /\ \A intent \in Intents : Keeps(note_intent(t, intent))
<1> DEFINE s == t.session
<1>0. s \in Session
  BY Zenon DEF Tracker
<1>1. Keeps(note_alerted(t))
  <2> DEFINE u == [s EXCEPT !.alerted = @ \/ s.outbound]
  <2>1. u \in Session /\ u.id = s.id /\ u.generation = s.generation
        /\ u.answered = s.answered /\ u.outbound = s.outbound
        /\ u.agent_owned = s.agent_owned /\ u.owner_took = s.owner_took
    BY <1>0 DEF Session
  <2>2. QED  BY Zenon, <2>1, ChangeKeeps DEF note_alerted, receptionist_owns
<1>2. ASSUME NEW number \in Callers PROVE Keeps(caller_id(t, number))
  <2> DEFINE u == [s EXCEPT !.caller = number]
  <2>1. u \in Session /\ u.id = s.id /\ u.generation = s.generation
        /\ u.answered = s.answered /\ u.outbound = s.outbound
        /\ u.agent_owned = s.agent_owned /\ u.owner_took = s.owner_took
    BY Zenon, <1>0 DEF Session
  <2>2. QED  BY Zenon, <2>1, ChangeKeeps DEF caller_id, receptionist_owns
<1>4. Keeps(answered(t))
  BY Zenon, <1>0, PickupKeeps, ChangeKeeps DEF answered, receptionist_owns
<1>5. Keeps(answered_here(t))
  <2> DEFINE a == [s EXCEPT !.answered_by_aokie = TRUE]
  <2>1. a \in Session /\ a.id = s.id /\ a.generation = s.generation
        /\ a.answered = s.answered /\ a.outbound = s.outbound
        /\ a.agent_owned = s.agent_owned /\ a.owner_took = s.owner_took
    BY Zenon, <1>0 DEF Session
  <2>2. CASE ~Live(t)
    BY Zenon, <2>2 DEF answered_here, answered, Change, Keeps, Tracker, Live
  <2>3. CASE Live(t)
    <3> DEFINE x == [t EXCEPT !.session = a]
               y == [x EXCEPT !.session = Pickup(a)]
    <3>1. x.session = a /\ x \in Tracker /\ x.last_generation = t.last_generation
      BY Zenon, <2>1 DEF Tracker
    <3>2. Live(x) /\ Change(t, a) = x
      BY Zenon, <2>1, <2>3, <3>1 DEF Live, Change
    <3>3. answered_here(t) = y
      BY Zenon, <3>1, <3>2 DEF answered_here, answered, Change
    <3> DEFINE u == Pickup(a)
    <3>4. /\ u \in Session /\ u.id = s.id /\ u.generation = s.generation
          /\ u.answered /\ u.outbound = s.outbound /\ u.agent_owned = s.agent_owned
          /\ s.answered => u.owner_took = s.owner_took
      BY Zenon, <2>1, PickupKeeps
    <3> HIDE DEF x, a, u
    <3>5. y \in Tracker /\ y.session = u /\ y.last_generation = t.last_generation
      BY Zenon, <3>1, <3>4 DEF Tracker, u
    <3> HIDE DEF y
    <3>6. s.answered => receptionist_owns(u) = receptionist_owns(s)
      BY Zenon, <3>4 DEF receptionist_owns
    <3> HIDE DEF s
    <3>7. QED
      BY Zenon, <2>3, <3>3, <3>4, <3>5, <3>6 DEF Keeps, s
  <2>4. QED  BY Zenon, <2>2, <2>3
<1>6. Keeps(hand_to_receptionist(t))
  <2> DEFINE u == [s EXCEPT !.left_ringing = FALSE, !.handed_over = TRUE]
  <2>1. u \in Session /\ u.id = s.id /\ u.generation = s.generation
        /\ u.answered = s.answered /\ u.outbound = s.outbound
        /\ u.agent_owned = s.agent_owned /\ u.owner_took = s.owner_took
    BY Zenon, <1>0 DEF Session
  <2>2. Keeps(Change(t, u))
    BY Zenon, <2>1, <1>0, ChangeKeeps DEF receptionist_owns
  <2>3. Keeps(t)
    BY Zenon DEF Keeps, Tracker
  <2>4. QED  BY Zenon, <2>2, <2>3 DEF hand_to_receptionist
<1>7. ASSUME NEW intent \in Intents PROVE Keeps(note_intent(t, intent))
  BY <1>0, NoteIntentKeeps, ChangeKeeps DEF note_intent, receptionist_owns
<1>8. QED  BY Zenon, <1>1, <1>2, <1>4, <1>5, <1>6, <1>7

\* A session that takes the line has a generation nothing bore before.
LEMMA StartType ==
    ASSUME t \in Tracker, NEW s \in Session
    PROVE  LET x == Start(t, s) IN
           /\ x \in Tracker /\ x.last_generation = t.last_generation + 1
           /\ x.session.generation = x.last_generation
           /\ x.session.id = s.id /\ x.session.answered = s.answered
           /\ receptionist_owns(x.session) = receptionist_owns(s)
<1> DEFINE g == t.last_generation + 1
           u == [s EXCEPT !.generation = g]
<1>1. g \in Nat
  BY DEF Tracker
<1>2. u \in Session /\ u.generation = g /\ u.id = s.id /\ u.answered = s.answered
      /\ u.outbound = s.outbound /\ u.agent_owned = s.agent_owned
      /\ u.owner_took = s.owner_took
  BY Zenon, <1>1 DEF Session
<1>3. Start(t, s) = [session |-> u, last_generation |-> g]
  BY Zenon DEF Start
<1> HIDE DEF u, g
<1>4. QED
  BY <1>1, <1>2, <1>3 DEF Tracker, receptionist_owns, g

\* ring and dial start an unanswered call under its own id.
LEMMA NewCall ==
    ASSUME t \in Tracker, ~Live(t), NEW id \in Nat \ {0}
    PROVE  /\ \E s \in Session : /\ ring(t, id) = Start(t, s)
                                 /\ s.id = id /\ ~s.answered
           /\ \A number \in Callers \cup {NoCaller}, owned \in BOOLEAN :
                 \E s \in Session : /\ dial(t, id, number, owned) = Start(t, s)
                                   /\ s.id = id /\ ~s.answered
<1> DEFINE s == [NoSession EXCEPT !.id = id, !.phase = "Ringing", !.pending = TRUE]
<1>1. s \in Session /\ s.id = id /\ ~s.answered
  BY Zenon DEF NoSession, Session
<1>2. ring(t, id) = Start(t, s)
  BY Zenon DEF ring
<1>3. ASSUME NEW number \in Callers \cup {NoCaller}, NEW owned \in BOOLEAN
      PROVE  \E d \in Session : /\ dial(t, id, number, owned) = Start(t, d)
                                /\ d.id = id /\ ~d.answered
  <2> DEFINE d == [NoSession EXCEPT !.id = id, !.phase = "Ringing",
                                    !.caller = number, !.outbound = TRUE,
                                    !.agent_owned = owned]
  <2>1. d \in Session /\ d.id = id /\ ~d.answered
    BY Zenon DEF NoSession, Session
  <2>2. dial(t, id, number, owned) = Start(t, d)
    BY Zenon DEF dial
  <2> HIDE DEF d
  <2>3. QED  BY Zenon, <2>1, <2>2
<1> HIDE DEF s
<1>4. QED  BY Zenon, <1>1, <1>2, <1>3

\* The invariant survives a new call.
LEMMA BeginKeeps ==
    ASSUME IInv, NEW s \in Session, s.id = minted + 1, ~s.answered,
           Begin(Start(t, s))
    PROVE  IInv'
<1> DEFINE x == Start(t, s)
<1>1. t \in Tracker /\ minted \in Nat /\ MaxCalls \in Nat /\ ~Live(t) /\ minted < MaxCalls
  BY SessionTrackerConstants DEF IInv, TypeOK, Tracker, Begin
<1>2. /\ x \in Tracker /\ x.last_generation = t.last_generation + 1
      /\ x.session.generation = x.last_generation
      /\ x.session.id = minted + 1 /\ ~x.session.answered
  BY Zenon, <1>1, StartType
<1>3. t' = x /\ minted' = minted + 1 /\ focus' = focus + 1
      /\ UNCHANGED <<shelf, jobs, outcome, heard, talked>>
  BY Zenon DEF Begin
<1> HIDE DEF x
<1>4. TypeOK'
  BY <1>1, <1>2, <1>3 DEF IInv, TypeOK, Tracker, Ids
<1>5. TrackerOK'
  BY <1>1, <1>2, <1>3 DEF TrackerOK, Live, generation
<1>6. JobsOK'
  <2>1. ASSUME NEW j \in jobs
        PROVE  j.generation \in Nat /\ j.generation <= t.last_generation
    BY Zenon DEF IInv, JobsOK, TypeOK
  <2>2. t.last_generation \in Nat
    BY Zenon, <1>1 DEF Tracker
  <2>3. QED  BY <1>2, <1>3, <2>1, <2>2 DEF JobsOK
<1>7. Apart'
  <2>1. t.session.id = 0
    BY Zenon, <1>1 DEF Live
  <2>2. \A q \in shelf : q.id \in 1..minted /\ outcome[q.id] = "none"
    BY Zenon DEF IInv, Apart
  <2>3. outcome[minted + 1] = "none"
    BY <1>1 DEF IInv, Apart, Ids
  <2>4. QED  BY <1>1, <1>2, <1>3, <2>2, <2>3 DEF IInv, Apart, Ids
<1>8. Accounted'
  <2>1. ASSUME NEW i \in 1..minted
        PROVE  \/ \E q \in shelf : q.id = i
               \/ outcome[i] # "none"
    BY <1>1 DEF IInv, Accounted, Live
  <2>2. QED  BY <1>1, <1>2, <1>3, <2>1 DEF Accounted
<1>9. Remembered'
  BY <1>1, <1>2, <1>3 DEF IInv, Remembered
<1>10. HeardByItsCall' /\ OutcomeIsTrue'
  BY Zenon, <1>3 DEF IInv, HeardByItsCall, OutcomeIsTrue
<1>11. QED
  BY Zenon, <1>4, <1>5, <1>6, <1>7, <1>8, <1>9, <1>10 DEF IInv

\* The invariant survives a method that changes the session in place.
LEMMA UpdateKeeps ==
    ASSUME IInv, NEW x, Keeps(x), Update(x)
    PROVE  IInv'
<1>1. t \in Tracker /\ minted \in Nat /\ minted <= MaxCalls /\ MaxCalls \in Nat
  BY SessionTrackerConstants DEF IInv, TypeOK, Tracker
<1>2. t' = x /\ UNCHANGED <<shelf, jobs, minted, outcome, focus, heard>>
      /\ talked' = talked \cup {i \in Ids : i = x.session.id /\ x.session.answered}
  BY Zenon DEF Update
<1>3. x \in Tracker /\ x.session.id = t.session.id
      /\ x.last_generation = t.last_generation
      /\ x.session.generation = t.session.generation
      /\ (t.session.answered => x.session.answered) /\ (~Live(t) => x = t)
  BY Zenon DEF Keeps
<1>4. TypeOK'
  BY Zenon, <1>1, <1>2, <1>3 DEF IInv, TypeOK, Tracker
<1>5. TrackerOK'
  BY Zenon, <1>2, <1>3 DEF IInv, TrackerOK, Live, generation
<1>6. JobsOK'
  BY Zenon, <1>2, <1>3 DEF IInv, JobsOK, Live, Hold
<1>7. Apart' /\ Accounted'
  BY Zenon, <1>2, <1>3 DEF IInv, Apart, Accounted, Live
<1>8. Remembered' /\ OutcomeIsTrue'
  <2>1. CASE ~Live(t)
    <3>1. x.session = NoSession /\ ~x.session.answered
      BY <1>3, <2>1 DEF IInv, TrackerOK, NoSession
    <3>2. UNCHANGED <<t, talked>>
      BY Zenon, <1>2, <1>3, <2>1, <3>1
    <3>3. QED  BY Zenon, <1>2, <3>2 DEF IInv, Remembered, OutcomeIsTrue
  <2>2. CASE Live(t)
    <3> DEFINE i == t.session.id
    <3>1. i \in 1..minted /\ i \in Ids /\ outcome[i] = "none"
      BY <1>1, <2>2 DEF IInv, TrackerOK, Apart, Live, Ids, Tracker, Session
    <3>2. \A s \in shelf : s.id # i
      BY Zenon DEF IInv, Apart
    <3>3. x.session.answered \in BOOLEAN /\ t.session.answered \in BOOLEAN
      BY Zenon, <1>1, <1>3 DEF Tracker, Session
    <3>4. talked' = IF x.session.answered THEN talked \cup {i} ELSE talked
      BY Zenon, <1>2, <1>3, <3>1, <3>3
    <3>5. Remembered'
      BY Zenon, <1>2, <1>3, <3>1, <3>2, <3>3, <3>4 DEF IInv, Remembered
    <3>6. OutcomeIsTrue'
      BY Zenon, <1>2, <3>1, <3>4 DEF IInv, OutcomeIsTrue
    <3>7. QED  BY Zenon, <3>5, <3>6
  <2>3. QED  BY Zenon, <2>1, <2>2
<1>9. HeardByItsCall'
  BY Zenon, <1>2 DEF IInv, HeardByItsCall
<1>10. QED
  BY Zenon, <1>4, <1>5, <1>6, <1>7, <1>8, <1>9 DEF IInv

\* park leaves an idle tracker.
LEMMA ParkType ==
    ASSUME t \in Tracker
    PROVE  park(t) \in Tracker /\ park(t).session = NoSession
           /\ park(t).last_generation = t.last_generation
BY Zenon, NoSessionType DEF park, Tracker

\* The invariant survives the foreground session leaving the tracker, for the
\* shelf or for the ledger.
LEMMA LeaveKeeps ==
    ASSUME IInv, Park \/ Terminate
    PROVE  IInv'
<1> DEFINE s == t.session
<1>1. /\ t \in Tracker /\ s \in Session /\ minted \in Nat /\ MaxCalls \in Nat
      /\ minted <= MaxCalls /\ s.id \in 1..minted /\ s.id \in Ids
  BY SessionTrackerConstants
     DEF IInv, TypeOK, Tracker, TrackerOK, Park, Terminate, Live, Session, Ids
<1>2. /\ t' \in Tracker /\ t'.session = NoSession /\ ~Live(t')
      /\ t'.last_generation = t.last_generation
  BY <1>1, ParkType DEF Park, Terminate, Live, NoSession
<1>3. focus' = focus + 1 /\ UNCHANGED <<jobs, minted, heard, talked>>
  BY Zenon DEF Park, Terminate
<1>4. TrackerOK' /\ JobsOK' /\ HeardByItsCall'
  BY SMTT(30), <1>1, <1>2, <1>3
     DEF IInv, TrackerOK, JobsOK, HeardByItsCall, NoSession, Live
<1>5. /\ \A q \in shelf : q.id # s.id /\ q.id \in 1..minted /\ outcome[q.id] = "none"
      /\ outcome[s.id] = "none"
      /\ s.answered <=> s.id \in talked
      /\ 0 \notin talked
  BY <1>1 DEF IInv, Apart, Remembered, Park, Terminate
<1>6. CASE Park
  <2>1. shelf' = shelf \cup {s} /\ outcome' = outcome
    BY Zenon, <1>6 DEF Park
  <2>2. TypeOK'
    BY SMTT(30), <1>1, <1>2, <1>3, <2>1 DEF IInv, TypeOK, Tracker
  <2>3. Apart' /\ Accounted'
    BY SMTT(30), <1>1, <1>2, <1>3, <1>5, <2>1 DEF IInv, Apart, Accounted, NoSession, Live
  <2>4. Remembered' /\ OutcomeIsTrue'
    BY <1>1, <1>2, <1>3, <1>5, <2>1 DEF IInv, Remembered, OutcomeIsTrue, NoSession
  <2>5. QED  BY Zenon, <1>4, <2>2, <2>3, <2>4 DEF IInv
<1>7. CASE Terminate
  <2>1. shelf' = shelf /\ outcome' = [outcome EXCEPT ![s.id] = ended_from(s)]
    BY Zenon, <1>7 DEF Terminate
  <2>2. ended_from(s) \in Outcomes /\ ended_from(s) # "none"
    BY Zenon, <1>1, EndedFrom DEF Outcomes
  <2>3. TypeOK'
    BY SMTT(30), <1>1, <1>2, <1>3, <2>1, <2>2 DEF IInv, TypeOK, Tracker
  <2>4. Apart' /\ Accounted'
    BY SMTT(30), <1>1, <1>2, <1>3, <1>5, <2>1, <2>2
       DEF IInv, TypeOK, Apart, Accounted, NoSession, Live
  <2>5. Remembered'
    BY <1>1, <1>2, <1>3, <1>5, <2>1 DEF IInv, Remembered, NoSession
  <2>6. OutcomeIsTrue'
    <3>1. s.answered \in BOOLEAN
      BY Zenon, <1>1 DEF Session
    <3>2. outcome'[s.id] = ended_from(s)
      BY Zenon, <1>1, <2>1 DEF IInv, TypeOK
    <3>3. \A i \in Ids : i # s.id => outcome'[i] = outcome[i]
      BY Zenon, <2>1 DEF IInv, TypeOK
    <3>4. s.id \in talked <=>
              ended_from(s) \notin {"missed", "rejected", "failed", "no_answer"}
      BY Zenon, <1>1, <1>5, EndedFrom
    <3> HIDE DEF s
    <3>5. QED  BY Zenon, <1>3, <3>2, <3>3, <3>4 DEF IInv, OutcomeIsTrue
  <2>7. QED  BY Zenon, <1>4, <2>3, <2>4, <2>5, <2>6 DEF IInv
<1>8. QED  BY Zenon, <1>6, <1>7

\* The invariant survives restore.
LEMMA RestoreKeeps ==
    ASSUME IInv, NEW s \in shelf, Restore(s)
    PROVE  IInv'
<1>1. /\ t \in Tracker /\ s \in Session /\ minted \in Nat
      /\ UNCHANGED <<jobs, minted, outcome, heard, talked>>
  BY DEF IInv, TypeOK, Tracker, Restore
<1>2. CASE Live(t)
  <2>1. UNCHANGED <<t, shelf, focus>>
    BY Zenon, <1>2 DEF Restore, restore
  <2>2. QED
    BY Zenon, <1>1, <2>1 DEF IInv, TypeOK, TrackerOK, JobsOK, Apart, Accounted, Remembered,
                      HeardByItsCall, OutcomeIsTrue, Hold, Live, generation
<1>3. CASE ~Live(t)
  <2> DEFINE x == Start(t, s)
  <2>1. /\ x \in Tracker /\ x.last_generation = t.last_generation + 1
        /\ x.session.generation = x.last_generation
        /\ x.session.id = s.id /\ x.session.answered = s.answered
    BY Zenon, <1>1, StartType
  <2>2. t' = x /\ shelf' = shelf \ {s} /\ focus' = focus + 1
    BY Zenon, <1>3 DEF Restore, restore
  <2> HIDE DEF x
  <2>3. s.id \in 1..minted /\ t.session.id = 0 /\ outcome[s.id] = "none"
        /\ (\A q \in shelf' : q \in shelf /\ q.id # s.id)
    BY Zenon, <1>3, <2>2 DEF IInv, Apart, Live
  <2>4. TypeOK'
    BY <1>1, <2>1, <2>2 DEF IInv, TypeOK, Tracker
  <2>5. TrackerOK'
    BY <1>1, <2>1, <2>2, <2>3 DEF TrackerOK, Live, generation
  <2>6. JobsOK'
    <3>1. ASSUME NEW j \in jobs
          PROVE  j.generation \in Nat /\ j.generation <= t.last_generation
      BY Zenon DEF IInv, JobsOK, TypeOK
    <3>2. t.last_generation \in Nat
      BY Zenon, <1>1 DEF Tracker
    <3>3. QED  BY <1>1, <2>1, <2>2, <3>1, <3>2 DEF JobsOK
  <2>7. Apart'
    BY Zenon, <1>1, <2>1, <2>2, <2>3 DEF IInv, Apart
  <2>8. Accounted'
    <3>1. ASSUME NEW i \in 1..minted
          PROVE  i = s.id \/ (\E q \in shelf' : q.id = i) \/ outcome[i] # "none"
      BY <2>2, <2>3 DEF IInv, Accounted
    <3>2. QED  BY Zenon, <1>1, <2>1, <2>2, <3>1 DEF Accounted
  <2>9. Remembered' /\ HeardByItsCall' /\ OutcomeIsTrue'
    BY Zenon, <1>1, <2>1, <2>2, <2>3
       DEF IInv, Remembered, HeardByItsCall, OutcomeIsTrue
  <2>10. QED
    BY Zenon, <2>4, <2>5, <2>6, <2>7, <2>8, <2>9 DEF IInv
<1>4. QED  BY Zenon, <1>2, <1>3

\* The invariant survives a parked call's end.
LEMMA DetachedKeeps ==
    ASSUME IInv, NEW s \in shelf, NEW intent \in Reasons,
           TerminateDetached(s, intent)
    PROVE  IInv'
<1> DEFINE u == NoteIntent(s, intent)
           o == terminate_detached(s, intent)
<1>1. /\ UNCHANGED <<t, jobs, minted, focus, heard, talked>>
      /\ shelf' = shelf \ {s} /\ outcome' = [outcome EXCEPT ![s.id] = o]
      /\ s \in Session /\ minted \in Nat /\ minted <= MaxCalls /\ MaxCalls \in Nat
  BY SessionTrackerConstants DEF IInv, TypeOK, TerminateDetached
<1>2. /\ o \in Outcomes /\ o # "none"
      /\ s.answered <=> o \notin {"missed", "rejected", "failed", "no_answer"}
  <2>1. u \in Session /\ u.answered = s.answered /\ s.answered \in BOOLEAN
    BY <1>1, NoteIntentKeeps, SessionTrackerConstants DEF Session
  <2> HIDE DEF u
  <2>2. QED  BY Zenon, <2>1, EndedFrom DEF terminate_detached, u, Outcomes
<1> HIDE DEF o
<1>3. /\ s.id \in 1..minted /\ s.id \in Ids /\ s.id # t.session.id
      /\ s.answered <=> s.id \in talked
      /\ \A q \in shelf' : q \in shelf /\ q.id # s.id
  BY <1>1 DEF IInv, Apart, Remembered, Ids
<1>4. outcome'[s.id] = o /\ \A i \in Ids : i # s.id => outcome'[i] = outcome[i]
  BY Zenon, <1>1, <1>3 DEF IInv, TypeOK
<1>5. TypeOK'
  BY Zenon, <1>1, <1>2 DEF IInv, TypeOK
<1>6. TrackerOK' /\ JobsOK' /\ HeardByItsCall'
  BY Zenon, <1>1 DEF IInv, TrackerOK, JobsOK, HeardByItsCall, Live, generation, Hold
<1>7. Apart'
  <2>1. t.session.id \in Nat /\ t.session.id <= minted
    BY Zenon DEF IInv, TypeOK, TrackerOK, Session
  <2>2. \A q \in shelf' : q.id \in Ids
    BY <1>1, <1>3 DEF IInv, Apart, Ids
  <2>3. Live(t) => t.session.id \in Ids
    BY <1>1, <2>1 DEF Live, Ids
  <2>4. QED
    BY <1>1, <1>3, <1>4, <2>2, <2>3 DEF IInv, Apart, Live
<1>8. Accounted'
  <2>1. ASSUME NEW i \in 1..minted
        PROVE  \/ i = t'.session.id \/ \E q \in shelf' : q.id = i
               \/ outcome'[i] # "none"
    <3>1. CASE i = s.id
      BY Zenon, <3>1, <1>2, <1>4
    <3>2. CASE i # s.id
      <4>1. i \in Ids
        BY <1>1 DEF Ids
      <4>2. QED  BY Zenon, <3>2, <4>1, <1>1, <1>4 DEF IInv, Accounted
    <3>3. QED  BY Zenon, <3>1, <3>2
  <2>2. QED  BY Zenon, <1>1, <2>1 DEF Accounted
<1>9. Remembered'
  BY Zenon, <1>1, <1>3 DEF IInv, Remembered
<1>10. OutcomeIsTrue'
  BY <1>1, <1>2, <1>3, <1>4 DEF IInv, OutcomeIsTrue
<1>11. QED
  BY Zenon, <1>5, <1>6, <1>7, <1>8, <1>9, <1>10 DEF IInv

\* The invariant survives the worker's steps: the gate lets a transcript
\* through only under the newest generation, which the call on the line has.
LEMMA WorkerKeeps ==
    ASSUME IInv, SendUtterance \/ \E j \in jobs : Result(j)
    PROVE  IInv'
<1>1. UNCHANGED <<t, shelf, minted, outcome, focus, talked>>
  BY Zenon DEF SendUtterance, Result, tracker
<1>2. TrackerOK' /\ Apart' /\ Accounted' /\ Remembered' /\ OutcomeIsTrue'
  BY Zenon, <1>1 DEF IInv, TrackerOK, Apart, Accounted, Remembered, OutcomeIsTrue,
              Live, generation
<1>3. /\ t \in Tracker /\ generation(t) \in Nat /\ t.last_generation \in Nat
      /\ Hold \in Holds /\ Hold' = Hold
      /\ Live(t) => generation(t) = t.last_generation
  BY Zenon, <1>1 DEF IInv, TypeOK, TrackerOK, Tracker, Session, generation, Hold, Holds
<1>4. CASE SendUtterance
  <2>1. /\ jobs' = jobs \cup {[generation |-> generation(t), said |-> Hold]}
        /\ heard' = heard
    BY Zenon, <1>4 DEF SendUtterance
  <2>2. Live(t)
    BY <1>4 DEF SendUtterance, is_active, IInv, TrackerOK, NoSession
  <2> HIDE DEF Hold
  <2>3. TypeOK' /\ JobsOK' /\ HeardByItsCall'
    BY <1>1, <1>3, <2>1, <2>2
       DEF IInv, TypeOK, JobsOK, HeardByItsCall, Live
  <2>4. QED  BY Zenon, <1>2, <2>3 DEF IInv
<1>5. ASSUME NEW j \in jobs, Result(j) PROVE IInv'
  <2>1. jobs' = jobs \ {j}
        /\ heard' = IF ResultIsCurrent(j)
                    THEN {[said |-> j.said, by |-> Hold]} ELSE {}
    BY Zenon, <1>5 DEF Result
  <2>2. j.said \in Holds
    BY Zenon DEF IInv, TypeOK
  <2>3. ResultIsCurrent(j) => j.said = Hold
    BY Zenon, <1>3 DEF IInv, JobsOK, ResultIsCurrent
  <2>4. JobsOK'
    BY Zenon, <1>1, <1>3, <2>1 DEF IInv, JobsOK, Live
  <2> HIDE DEF Hold
  <2>5. TypeOK' /\ HeardByItsCall'
    BY <1>1, <1>3, <2>1, <2>2, <2>3 DEF IInv, TypeOK, HeardByItsCall
  <2>6. QED  BY Zenon, <1>2, <2>4, <2>5 DEF IInv
<1>6. QED  BY Zenon, <1>4, <1>5

\* The initial state: no call, nothing parked, nothing at the worker.
LEMMA InitInv == Init => IInv
<1> SUFFICES ASSUME Init PROVE IInv
  BY Zenon
<1>1. t.session = NoSession /\ NoSession.id = 0 /\ t.last_generation = 0 /\ t \in Tracker
  BY Zenon, NoSessionType DEF Init, NewTracker, Tracker, NoSession
<1>2. TypeOK
  BY SMTT(30), <1>1, SessionTrackerConstants DEF Init, TypeOK, Tracker
<1>3. TrackerOK /\ JobsOK /\ Apart /\ Accounted
  BY <1>1, SessionTrackerConstants
     DEF Init, TrackerOK, JobsOK, Apart, Accounted, Live, NoSession
<1>4. Remembered /\ HeardByItsCall /\ OutcomeIsTrue
  BY <1>1 DEF Init, Remembered, HeardByItsCall, OutcomeIsTrue, NoSession
<1>5. QED  BY Zenon, <1>2, <1>3, <1>4 DEF IInv

\* Every step keeps the invariant.
LEMMA NextInv == IInv /\ [Next]_vars => IInv'
<1> SUFFICES ASSUME IInv, [Next]_vars PROVE IInv'
  BY Zenon
<1>0. t \in Tracker /\ minted + 1 \in Nat \ {0} /\ Reasons \subseteq Intents
  BY SessionTrackerConstants DEF IInv, TypeOK, Tracker
<1>1. CASE Ring
  <2>1. ~Live(t)
    BY Zenon, <1>1 DEF Ring, Begin
  <2>2. PICK s \in Session : /\ ring(t, minted + 1) = Start(t, s)
                             /\ s.id = minted + 1 /\ ~s.answered
    BY Zenon, <1>0, <2>1, NewCall
  <2>3. QED  BY Zenon, <1>1, <2>2, BeginKeeps DEF Ring
<1>2. ASSUME NEW number \in Callers \cup {NoCaller}, NEW owned \in BOOLEAN, Dial(number, owned)
      PROVE  IInv'
  <2>1. ~Live(t)
    BY Zenon, <1>2 DEF Dial, Begin
  <2>2. PICK s \in Session : /\ dial(t, minted + 1, number, owned) = Start(t, s)
                             /\ s.id = minted + 1 /\ ~s.answered
    BY <1>0, <2>1, NewCall
  <2>3. QED  BY Zenon, <1>2, <2>2, BeginKeeps DEF Dial
<1>3. CASE NoteAlerted
  BY Zenon, <1>0, <1>3, MethodsKeep, UpdateKeeps DEF NoteAlerted
<1>4. ASSUME NEW number \in Callers, CallerId(number) PROVE IInv'
  BY Zenon, <1>0, <1>4, MethodsKeep, UpdateKeeps DEF CallerId
<1>5. CASE Answered
  BY Zenon, <1>0, <1>5, MethodsKeep, UpdateKeeps DEF Answered
<1>6. CASE AnsweredHere
  BY Zenon, <1>0, <1>6, MethodsKeep, UpdateKeeps DEF AnsweredHere
<1>7. CASE HandToReceptionist
  BY Zenon, <1>0, <1>7, MethodsKeep, UpdateKeeps DEF HandToReceptionist
<1>8. ASSUME NEW intent \in Reasons, NoteIntentOf(intent) PROVE IInv'
  BY Zenon, <1>0, <1>8, MethodsKeep, UpdateKeeps DEF NoteIntentOf
<1>9. CASE Park \/ Terminate
  BY Zenon, <1>9, LeaveKeeps
<1>10. ASSUME NEW s \in shelf, Restore(s) PROVE IInv'
  BY Zenon, <1>10, RestoreKeeps
<1>11. ASSUME NEW s \in shelf, NEW intent \in Reasons, TerminateDetached(s, intent)
       PROVE  IInv'
  BY Zenon, <1>11, DetachedKeeps
<1>12. CASE SendUtterance \/ \E j \in jobs : Result(j)
  BY Zenon, <1>12, WorkerKeeps
<1>13. CASE UNCHANGED vars
  BY Zenon, <1>13 DEF vars, IInv, TypeOK, TrackerOK, JobsOK, Apart, Accounted, Remembered,
               HeardByItsCall, OutcomeIsTrue, Hold, Live, generation
<1>14. QED
  BY Zenon, <1>1, <1>2, <1>3, <1>4, <1>5, <1>6, <1>7, <1>8, <1>9, <1>10, <1>11, <1>12,
     <1>13 DEF Next

\* The inductive invariant holds of every behaviour.
THEOREM Invariant == Spec => []IInv
BY InitInv, NextInv, PTL DEF Spec

\* A transcript is recorded only for the call, and the hold of the line, it was
\* spoken in, whatever is parked, restored and ended while it is recognised.
THEOREM HeardByItsCallHolds == Spec => []HeardByItsCall
<1>1. IInv => HeardByItsCall
  BY Zenon DEF IInv
<1>2. QED  BY <1>1, Invariant, PTL

\* call.ended says that nobody answered exactly of the calls nobody answered.
THEOREM OutcomeIsTrueHolds == Spec => []OutcomeIsTrue
<1>1. IInv => OutcomeIsTrue
  BY Zenon DEF IInv
<1>2. QED  BY <1>1, Invariant, PTL

\* No call is lost and none is kept twice.
THEOREM EveryCallInOnePlaceHolds == Spec => []EveryCallInOnePlace
<1>1. ASSUME IInv, NEW i \in Ids
      PROVE  Places(i) = IF i <= minted THEN 1 ELSE 0
  <2> DEFINE here == {s \in shelf : s.id = i}
  <2>1. i \in Nat /\ i > 0 /\ minted \in Nat /\ t.session.id <= minted
        /\ t.session.id \in Nat
    BY <1>1 DEF IInv, TypeOK, TrackerOK, Ids, Session
  <2>2. CASE here = {}
    <3>1. Cardinality(here) = 0
      BY Zenon, <2>2, FS_EmptySet
    <3>2. (t.session.id = i => outcome[i] = "none" /\ i <= minted)
          /\ (outcome[i] # "none" => i <= minted /\ t.session.id # i)
          /\ (i <= minted => t.session.id = i \/ outcome[i] # "none")
      BY <1>1, <2>1, <2>2 DEF IInv, Apart, Accounted, Live
    <3> HIDE DEF here
    <3>3. QED  BY <2>1, <3>1, <3>2 DEF Places, here
  <2>3. ASSUME NEW s \in here PROVE Places(i) = IF i <= minted THEN 1 ELSE 0
    <3>1. here = {s}
      BY <1>1 DEF IInv, Apart
    <3>2. Cardinality(here) = 1
      BY Zenon, <3>1, FS_Singleton
    <3>3. t.session.id # i /\ outcome[i] = "none" /\ i <= minted
      BY <1>1, <2>1 DEF IInv, Apart
    <3> HIDE DEF here
    <3>4. QED  BY <3>2, <3>3 DEF Places, here
  <2>4. QED  BY Zenon, <2>2, <2>3
<1>2. IInv => EveryCallInOnePlace
  BY Zenon, <1>1 DEF EveryCallInOnePlace
<1>3. QED  BY <1>2, Invariant, PTL

\* Once a call is answered nothing changes whose it is.
THEOREM OwnershipSettledHolds == Spec => OwnershipSettled
<1>1. ASSUME IInv, Next PROVE OwnerStays
  <2> DEFINE Same(s, u) ==
        s.answered => u.answered /\ receptionist_owns(s) = receptionist_owns(u)
  <2>1. /\ t \in Tracker /\ shelf \subseteq Session /\ Reasons \subseteq Intents
        /\ minted \in Nat /\ t.session.id <= minted
    BY <1>1, SessionTrackerConstants DEF IInv, TypeOK, TrackerOK, Tracker
  <2>2. \A s \in shelf \cup {t.session}, u \in shelf \cup {t.session} :
           s.id = u.id => s = u
    BY Zenon, <1>1 DEF IInv, Apart
  <2>3. ~NoSession.answered /\ NoSession.id = 0 /\ \A s \in shelf : s.id # 0
    BY <1>1 DEF NoSession, IInv, Apart
  <2>4. ASSUME NEW x, Keeps(x), Update(x) PROVE OwnerStays
    <3>1. t' = x /\ shelf' = shelf /\ x.session.id = t.session.id
          /\ Same(t.session, x.session)
      BY Zenon, <2>4 DEF Keeps, Update
    <3>2. QED  BY <2>2, <3>1 DEF OwnerStays
  <2>5. ASSUME NEW s \in Session, s.id = minted + 1, Begin(Start(t, s)) PROVE OwnerStays
    <3>1. t' = Start(t, s) /\ shelf' = shelf /\ t'.session.id = minted + 1
      BY Zenon, <2>1, <2>5, StartType DEF Begin
    <3>2. \A q \in shelf \cup {t.session} : q.id # minted + 1
      BY <1>1, <2>1 DEF IInv, TypeOK, Apart, Session
    <3>3. QED  BY <2>2, <3>1, <3>2 DEF OwnerStays
  <2>6. CASE Ring
    <3>1. ~Live(t)
      BY Zenon, <2>6 DEF Ring, Begin
    <3>2. PICK s \in Session : ring(t, minted + 1) = Start(t, s) /\ s.id = minted + 1
      BY <2>1, <3>1, NewCall
    <3>3. QED  BY Zenon, <2>5, <2>6, <3>2 DEF Ring
  <2>7. ASSUME NEW number \in Callers \cup {NoCaller}, NEW owned \in BOOLEAN, Dial(number, owned)
        PROVE  OwnerStays
    <3>1. ~Live(t)
      BY Zenon, <2>7 DEF Dial, Begin
    <3>2. PICK s \in Session : /\ dial(t, minted + 1, number, owned) = Start(t, s)
                               /\ s.id = minted + 1
      BY <2>1, <3>1, NewCall
    <3>3. QED  BY Zenon, <2>5, <2>7, <3>2 DEF Dial
  <2>8. CASE \/ NoteAlerted \/ Answered \/ AnsweredHere \/ HandToReceptionist
             \/ \E number \in Callers : CallerId(number)
             \/ \E intent \in Reasons : NoteIntentOf(intent)
    BY Zenon, <2>1, <2>4, <2>8, MethodsKeep
       DEF NoteAlerted, Answered, AnsweredHere, HandToReceptionist, CallerId, NoteIntentOf
  <2>9. CASE Park \/ Terminate
    <3>1. t'.session = NoSession /\ shelf' \subseteq shelf \cup {t.session}
      BY Zenon, <2>1, <2>9, ParkType DEF Park, Terminate
    <3>2. \A s \in shelf \cup {t.session} : s.id = 0 => ~s.answered
      BY Zenon, <1>1, <2>3 DEF IInv, TrackerOK, Live
    <3>3. QED  BY Zenon, <2>2, <2>3, <3>1, <3>2 DEF OwnerStays
  <2>10. ASSUME NEW r \in shelf, Restore(r) PROVE OwnerStays
    <3>1. CASE Live(t)
      BY Zenon, <2>2, <2>10, <3>1 DEF OwnerStays, Restore, restore
    <3>2. CASE ~Live(t)
      <4>1. t' = Start(t, r) /\ shelf' = shelf \ {r}
        BY Zenon, <2>10, <3>2 DEF Restore, restore
      <4>2. t'.session.id = r.id /\ Same(r, t'.session)
        BY Zenon, <2>1, <4>1, StartType
      <4>3. QED  BY <2>2, <4>1, <4>2 DEF OwnerStays
    <3>3. QED  BY Zenon, <3>1, <3>2
  <2>11. CASE \/ SendUtterance \/ \E j \in jobs : Result(j)
              \/ \E s \in shelf, intent \in Reasons : TerminateDetached(s, intent)
    <3>1. t' = t /\ shelf' \subseteq shelf
      BY Zenon, <2>11 DEF SendUtterance, Result, TerminateDetached, tracker
    <3>2. QED  BY Zenon, <2>2, <3>1 DEF OwnerStays
  <2>12. QED
    BY Zenon, <1>1, <2>6, <2>7, <2>8, <2>9, <2>10, <2>11 DEF Next
<1>2. QED
  BY <1>1, Invariant, PTL DEF Spec, OwnershipSettled
=============================================================================
