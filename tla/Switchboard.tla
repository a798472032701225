----------------------------- MODULE Switchboard -----------------------------
(***************************************************************************)
(* The radio thread's two-caller switchboard                               *)
(* (crates/aokie-plugin/src/radio): one caller talks to the receptionist,  *)
(* one more is parked on hold, a third may knock.  AT+CHLD=2 accepts a     *)
(* knock or, without one, changes active and held; it has no answer that   *)
(* says which, so the thread watches the phone for some seconds (a settle) *)
(* and moves its sessions by the verdict.                                  *)
(*                                                                         *)
(* The thread's state is the record r, and its code is written as          *)
(* functions from r to r.  One pass of the loop is one action (Pass); a    *)
(* pass that blocks in a settle or in speech is cut there, at r.stage, for *)
(* the phone moves on meanwhile.                                           *)
(*                                                                         *)
(* A conversation context is named by the call whose words it holds; 0 is  *)
(* a fresh one.  Durations are reduced to what is asked of them: recent    *)
(* (a switch less than 4 s ago), aged (a knock gone 2.5 s ago), list.fresh *)
(* (a call list begun less than 1.5 s ago).                                *)
(*                                                                         *)
(* Left out: calls dialed or answered on the handset, screening, remote    *)
(* media and transfers holding the line, the CLCC a call-waiting or answer *)
(* event sends by itself, a link that comes back.                          *)
(***************************************************************************)
EXTENDS CallSession, Integers, Sequences, SequencesExt

CONSTANTS
    Withheld,      \* callers whose number the phone does not show
    MaxCalls,      \* bound: call ids minted
    Arrivals,      \* bound: callers who ring or knock
    Departures,    \* bound: callers who hang up
    Refusals,      \* bound: AT+CHLD=2 the phone ignores
    Controls,      \* bound: operator commands
    Losses,        \* bound: losses of the link
    Slow           \* bound: call lists that take the phone more than a second

P == INSTANCE Phone
H == INSTANCE Hfp
V == INSTANCE SwapVerdict

ASSUME SwitchboardConstants ==
    /\ Withheld \subseteq Callers
    /\ {MaxCalls, Arrivals, Departures, Refusals, Controls, Losses, Slow}
          \subseteq Nat

VARIABLES
    line,      \* the phone's calls
    linked,    \* the phone is connected
    hf,        \* the hands-free state
    events,    \* its events the radio thread has not drained
    at,        \* commands the phone has not taken
    r,         \* the radio thread
    used       \* how much of each bound is used up

vars == <<line, linked, hf, events, at, r, used>>

Bounds == [arrivals |-> Arrivals, departures |-> Departures,
           refusals |-> Refusals, controls |-> Controls, losses |-> Losses,
           slow |-> Slow]
Use(b) == /\ used[b] < Bounds[b]
          /\ used' = [used EXCEPT ![b] = @ + 1]

NumberOf(c) == IF c \in Withheld THEN NoCaller ELSE c

NoLeg == [id |-> 0, from |-> NoCaller]
NoList == [legs |-> <<>>, fresh |-> FALSE, mine |-> FALSE]
Silent == [incoming |-> FALSE, answered |-> FALSE, ended |-> <<>>]
NoContext == -1

\* The thread at start.
Idle ==
    [t |-> NewTracker,
     parked |-> NoSession, pctx |-> 0,     \* the parked call and its context
     kept |-> NoSession, kctx |-> 0,       \* the call a juggle set aside
     mirror |-> 0,                         \* status.parked_call
     wait |-> NoLeg, announced |-> 0,      \* the knock, and the call it is on
     gave |-> <<>>,                        \* gave_up_knock
     held |-> 0, prev |-> 0,               \* callheld, and at the last pass
     done_for |-> 0, recent |-> FALSE,     \* knock served, switch_in_flight
     voice |-> 0, ctx |-> 0, pend |-> NoContext,
     list |-> NoList, conn |-> TRUE,
     log |-> [i \in 1 .. MaxCalls |-> Silent], minted |-> 0,
     stage |-> "loop", job |-> "none", knock |-> NoLeg, primary |-> NoCaller,
     asked |-> FALSE, again |-> FALSE,
     out |-> <<>>]                         \* commands of the step being taken

Init ==
    /\ line = P!IdleLine /\ linked = TRUE
    /\ hf = [H!NewHfState(TRUE) EXCEPT !.ready = TRUE]
    /\ events = <<>> /\ at = <<>> /\ r = Idle
    /\ used = [b \in DOMAIN Bounds |-> 0]

------------------------------------------------------------------------------
(* Sessions and the events sent about them. *)

Current(q) == q.t.session
Alive(q) == Live(q.t)
Tracker(q, t) == [q EXCEPT !.t = t]
Send(q, command) == [q EXCEPT !.out = Append(@, command)]

\* flush_incoming_if_pending: call.incoming, once.
Flush(q) ==
    IF Current(q).pending
    THEN [q EXCEPT !.t.session.pending = FALSE,
                   !.log[Current(q).id].incoming = TRUE]
    ELSE q

SayAnswered(q) ==
    IF Alive(q) THEN [q EXCEPT !.log[Current(q).id].answered = TRUE] ELSE q

\* emit_call_ended for a session that was taken off the tracker.
Ended(q, s, intent) ==
    [q EXCEPT !.log[s.id].ended = Append(@, terminate_detached(s, intent))]

\* Mutant of Terminate: the end of the call is not sent.
Terminate_silent(q, intent) == Tracker(Flush(q), park(Flush(q).t))

\* The foreground call is over.
Terminate(q, intent) ==
    IF Alive(q)
    THEN LET f == Flush(q)
         IN Tracker(Ended(f, Current(f), intent), park(f.t))
    ELSE q

parked_end_intent(s) ==
    IF s.greeted THEN "AbandonedOnHold" ELSE "AbandonedInQueue"

NotParked(q) == [q EXCEPT !.parked = NoSession, !.pctx = 0, !.mirror = 0]

\* Mutant of EndParked: the parked call is dropped.
EndParked_silent(q, intent) == NotParked(q)

EndParked(q, intent) == NotParked(Ended(q, q.parked, intent))

\* A new call rings under an id never used.
RingNew(q) ==
    IF Alive(q) THEN q
    ELSE [q EXCEPT !.t = ring(q.t, q.minted + 1), !.minted = @ + 1]

\* ring .. answered_here: a knock the phone has accepted becomes a call.
Serve(q, id, from) ==
    LET named == IF from = NoCaller THEN ring(q.t, id)
                 ELSE caller_id(ring(q.t, id), from)
    IN SayAnswered(Tracker(Flush(Tracker(q, named)),
                           answered_here(Flush(Tracker(q, named)).t)))

------------------------------------------------------------------------------
(* handle_event. *)

\* The number is stamped on the foreground call.
CallerIdentified(q, number) ==
    LET new == Alive(q) /\ Current(q).caller = NoCaller /\ number # NoCaller
        named == Tracker(q, caller_id(q.t, number))
    IN IF new THEN Flush(named) ELSE named

CallWaiting(q, number) ==
    CASE ~Alive(q) -> q
      [] Alive(q) /\ q.announced = Current(q).id ->
            IF q.wait.id # 0 /\ q.wait.from = NoCaller
            THEN [q EXCEPT !.wait.from = number] ELSE q
      [] OTHER -> [q EXCEPT !.announced = Current(q).id,
                            !.wait = [id |-> q.minted + 1, from |-> number],
                            !.minted = @ + 1]

CallWaitingEnded(q) ==
    [q EXCEPT !.announced = 0, !.wait = NoLeg,
              !.gave = IF q.wait.id = 0 \/ Len(@) >= 8 THEN @
                       ELSE Append(@, [id |-> q.wait.id, from |-> q.wait.from,
                                       gen |-> generation(q.t), aged |-> FALSE])]

\* A leg continues a list begun less than 1.5 s ago, or begins one.
CallListEntry(q, leg) ==
    IF q.list.fresh /\ Len(q.list.legs) < 8
    THEN [q EXCEPT !.list.legs = Append(@, leg)]
    ELSE [q EXCEPT !.list = [legs |-> <<leg>>, fresh |-> TRUE, mine |-> TRUE]]

CallAnswered(q) ==
    LET c == IF Alive(q) \/ ~q.conn THEN q
             ELSE [RingNew(q) EXCEPT !.t.session.answered_by_aokie = TRUE]
    IN SayAnswered(Tracker(Flush(c), answered(Flush(c).t)))

DeviceDisconnected(q) ==
    [Terminate(q, "DeviceLost") EXCEPT !.held = 0, !.announced = 0,
                                       !.wait = NoLeg, !.conn = FALSE]

handle_event(q, e) ==
    CASE e.name = "IncomingCall" -> RingNew(q)
      [] e.name = "Ringing" -> Flush(q)
      [] e.name = "CallerId" -> CallerIdentified(q, e.value)
      [] e.name = "CallWaiting" -> CallWaiting(q, e.value)
      [] e.name = "CallWaitingEnded" -> CallWaitingEnded(q)
      [] e.name = "CallHeld" -> [q EXCEPT !.held = e.value]
      [] e.name = "CallListEntry" -> CallListEntry(q, e.value)
      [] e.name = "CallAnswered" -> CallAnswered(q)
      [] e.name = "CallTerminated" -> Terminate(q, "none")
      [] e.name = "DeviceDisconnected" -> DeviceDisconnected(q)

Drain(q, es) == FoldLeft(handle_event, q, es)

\* settle_swap drains too, but lets no caller id through.
SettleDrain(q, es) ==
    Drain(q, SelectSeq(es, LAMBDA e : e.name # "CallerId"))

------------------------------------------------------------------------------
(* The end of a pass: reset, conversation. *)

\* Mutant of Reset: what was stowed is installed, be there anything or not.
Reset_unchecked(q) ==
    IF q.voice = generation(q.t) THEN q
    ELSE [q EXCEPT !.voice = generation(q.t), !.ctx = q.pend, !.pend = NoContext]

\* The generation changed: the context stowed for a restored call, or a fresh
\* one.
Reset(q) ==
    IF q.voice = generation(q.t) THEN q
    ELSE [q EXCEPT !.voice = generation(q.t), !.pend = NoContext,
                   !.ctx = IF q.pend = NoContext THEN 0 ELSE q.pend]

\* The receptionist greets and talks; the context fills with this call.
Talk(q) ==
    IF is_active(Current(q))
    THEN [q EXCEPT !.t.session.greeted = TRUE,
                   !.ctx = IF @ = 0 THEN Current(q).id ELSE @]
    ELSE q

PassEnd(q) == IF q.stage = "loop" THEN Talk(Reset(q)) ELSE q

------------------------------------------------------------------------------
(* Settles. *)

Settle(q, stage) ==
    [q EXCEPT !.stage = stage, !.asked = FALSE, !.list.mine = FALSE]

swap_snapshot(q) ==
    [callheld |-> q.held, waiting |-> q.wait.id, alive |-> Alive(q),
     listed |-> q.list.mine, legs |-> q.list.legs]

\* AT+CHLD=2, and the wait for what it does; a failed send leaves q.
Toggle(q, stage) == Settle(Send([q EXCEPT !.recent = TRUE], "AT+CHLD=2"), stage)

------------------------------------------------------------------------------
(* run_auto_hold_juggle: the knock is told to wait.                         *)

\* Everything a juggle leaves behind.
JuggleOver(q) ==
    PassEnd([q EXCEPT !.stage = "loop", !.job = "none", !.knock = NoLeg,
                      !.primary = NoCaller, !.kept = NoSession, !.kctx = 0,
                      !.again = FALSE])

Offered(q) ==
    /\ q.parked.id = 0 /\ q.wait.id # 0 /\ q.done_for # q.wait.id
    /\ is_active(Current(q)) /\ ~Current(q).outbound
    /\ q.voice = generation(q.t)

\* The knock is considered once; serve is FALSE where the caller cannot be
\* asked to hold (no voice, no consent, a realtime lane, a transfer).
Juggle(q, serve) ==
    IF ~Offered(q) THEN q
    ELSE IF serve
         THEN [q EXCEPT !.done_for = q.wait.id, !.stage = "ask",
                        !.job = "juggle", !.knock = q.wait,
                        !.primary = Current(q).caller]
         ELSE [q EXCEPT !.done_for = q.wait.id]

\* Mutant of SetAside: the next caller talks on in the same context.
SetAside_sharesContext(q) ==
    [q EXCEPT !.kept = Current(q), !.kctx = q.ctx, !.t = park(q.t)]

\* The active call is put aside, its context with it.
SetAside(q) ==
    [q EXCEPT !.kept = Current(q), !.kctx = q.ctx, !.t = park(q.t), !.ctx = 0]

\* The foreground call becomes the parked one.
Park(q) ==
    [q EXCEPT !.parked = Current(q), !.pctx = q.ctx, !.mirror = Current(q).id,
              !.t = park(q.t), !.ctx = 0]

\* A list leg, or the indicator, says the knock's call is up.
KnockIsUp(q) ==
    /\ q.wait.id = 0
    /\ \/ q.held = 1
       \/ q.list.mine /\ V!LegsIn(swap_snapshot(q), V!Active) # <<>>

\* What accepting the knock came to.
Accepted(q, verdict) ==
    LET over == [q EXCEPT !.prev = q.held]
    IN CASE verdict = "Accepted" ->
              [Serve(SetAside(q), q.knock.id, q.knock.from)
                 EXCEPT !.mirror = Current(q).id, !.stage = "dwell"]
         [] verdict = "HeldAlone" -> JuggleOver(Park(over))
         [] verdict = "PrimaryGone" /\ KnockIsUp(q) ->
              JuggleOver(Serve(over, q.knock.id, q.knock.from))
         [] OTHER -> JuggleOver(over)

\* The call StrangerActive is about: a knock that waits, one that gave up, or
\* an id of its own.
Stranger(q) ==
    LET number == Head(V!LegsIn(swap_snapshot(q), V!Active)).number
    IN CASE q.wait.id # 0 -> Serve([q EXCEPT !.wait = NoLeg], q.wait.id, number)
         [] q.wait.id = 0 /\ q.gave # <<>> ->
              Serve([q EXCEPT !.gave = Front(@)], Last(q.gave).id, number)
         [] OTHER -> Serve([q EXCEPT !.minted = @ + 1], q.minted + 1, number)

\* carry_call_context: this call's context outlives the coming reset.
Carry(q) == [q EXCEPT !.pend = q.ctx, !.ctx = 0]

\* Mutant of EndKept: the operator still sees it.
EndKept_mirror(q, intent) == Ended(q, q.kept, intent)

\* The set-aside call is parked, or over.
KeepParked(q) == [q EXCEPT !.parked = q.kept, !.pctx = q.kctx]
EndKept(q, intent) == [Ended(q, q.kept, intent) EXCEPT !.mirror = 0]

\* The set-aside call has the line again, and its context at once.
Resume(q) ==
    LET back == [q EXCEPT !.t = restore(q.t, q.kept), !.ctx = q.kctx]
    IN [back EXCEPT !.voice = generation(back.t)]

\* What the swap back to the first caller came to.
Juggled(q, verdict) ==
    LET end == parked_end_intent(q.kept)
        gone == Terminate(q, "none")
        new == CASE verdict = "Swapped" ->
                      [Resume(Park(q)) EXCEPT
                         !.mirror = q.knock.id,
                         !.wait = IF @.id = q.knock.id THEN NoLeg ELSE @]
                 [] verdict = "SwappedNewcomerGone" ->
                      [Resume(gone) EXCEPT !.mirror = 0]
                 [] verdict = "StayedOnNewcomer" -> Carry(KeepParked(q))
                 [] verdict = "NewcomerAlone" -> Carry(EndKept(q, end))
                 [] verdict = "ActiveDied" ->
                      [KeepParked(gone) EXCEPT !.mirror = q.kept.id]
                 [] verdict = "AllGone" -> EndKept(gone, end)
                 [] verdict = "StrangerActive" ->
                      LET ended == Ended(q, q.kept, "AbandonedOnHold")
                      IN Stranger(IF Alive(q) THEN Park(ended) ELSE ended)
    IN JuggleOver([new EXCEPT !.prev = q.held])

------------------------------------------------------------------------------
(* reconcile_switchboard: the parked call against what the phone shows.     *)

\* Mutant of Unpark: the parked slot keeps its copy.
Unpark_keeps(q) ==
    [q EXCEPT !.t = restore(q.t, q.parked), !.pend = q.pctx, !.mirror = 0]

\* The parked call takes the line; its context waits for the reset.
Unpark(q) ==
    NotParked([q EXCEPT !.t = restore(q.t, q.parked), !.pend = q.pctx])

\* Mutant of Retrieve: the held caller is left to the phone.
Retrieve_waits(q) ==
    IF q.held = 0 THEN EndParked(q, parked_end_intent(q.parked)) ELSE q

\* Nobody in the foreground.
Retrieve(q) ==
    CASE q.wait.id # 0 ->
            IF q.recent \/ q.done_for = q.wait.id THEN q
            ELSE LET due == [q EXCEPT !.done_for = q.wait.id, !.recent = TRUE]
                 IN IF linked
                    THEN Toggle([due EXCEPT !.job = "cascade", !.knock = q.wait,
                                            !.primary = q.parked.caller], "accept")
                    ELSE due
      [] q.wait.id = 0 /\ ~q.recent /\ q.held = 0 ->
            EndParked(q, parked_end_intent(q.parked))
      [] q.wait.id = 0 /\ ~q.recent /\ q.held = 1 -> Unpark(q)
      [] q.wait.id = 0 /\ ~q.recent /\ q.held = 2 ->
            LET due == [q EXCEPT !.recent = TRUE]
            IN Unpark(IF linked THEN Send(due, "AT+CHLD=2") ELSE due)
      [] OTHER -> q

\* Somebody in the foreground: an edge of callheld says which call is over.
Watch(q) ==
    CASE ~q.recent /\ q.held = 2 /\ q.prev # 2 -> Terminate(q, "none")
      [] ~q.recent /\ q.held = 0 /\ q.prev # 0 ->
            EndParked(q, parked_end_intent(q.parked))
      [] OTHER -> q

Reconciled(q) ==
    CASE q.parked.id = 0 -> q
      [] q.parked.id # 0 /\ ~q.conn -> EndParked(q, "DeviceLost")
      [] q.parked.id # 0 /\ q.conn /\ ~Alive(q) -> Retrieve(q)
      [] OTHER -> Watch(q)

\* A knock that gave up is somebody's: served under its own id, ringing again
\* under its number, or, without one, whoever came since.
Claimed(q, leg) ==
    \/ leg.id \in {Current(q).id, q.parked.id}
    \/ leg.from # NoCaller /\ leg.from \in {Current(q).caller, q.parked.caller}
    \/ leg.from = NoCaller /\ leg.gen # generation(q.t)

Missed(q, leg) ==
    IF leg.aged /\ ~Claimed(q, leg)
    THEN [q EXCEPT !.log[leg.id].ended = Append(@, "missed")] ELSE q

\* Knocks that gave up and that nobody claims are missed calls.
ClassifyGaveUp(q) ==
    [FoldLeft(Missed, q, q.gave) EXCEPT
        !.gave = SelectSeq(@, LAMBDA leg : ~Claimed(q, leg) /\ ~leg.aged)]

\* The rest of a pass, once the parked call is settled.
AfterReconcile(q, serve) ==
    PassEnd(Juggle(ClassifyGaveUp([q EXCEPT !.prev = q.held]), serve))

\* A cascade: the knock is accepted while the parked call waits.
CascadeOver(q, serve) ==
    AfterReconcile([q EXCEPT !.stage = "loop", !.job = "none", !.knock = NoLeg,
                             !.primary = NoCaller, !.again = FALSE], serve)

CascadeAccepted(q) == q.wait.id # q.knock.id /\ q.held = 1

CascadeAnswered(q, serve) ==
    IF CascadeAccepted(q)
    THEN [Serve([q EXCEPT !.ctx = 0,
                          !.wait = IF @.id = q.knock.id THEN NoLeg ELSE @],
                q.knock.id, q.knock.from) EXCEPT !.stage = "dwell"]
    ELSE CascadeOver(IF q.held = 0 /\ q.wait.id = 0
                     THEN EndParked(q, parked_end_intent(q.parked)) ELSE q, serve)

\* What the swap to the parked call came to.
Cascaded(q, verdict, serve) ==
    LET end == parked_end_intent(q.parked)
        gone == Terminate(q, "none")
        new == CASE verdict = "Swapped" ->
                      [Park(q) EXCEPT !.t = restore(park(q.t), q.parked),
                                      !.pend = q.pctx]
                 [] verdict = "StayedOnNewcomer" -> Carry(q)
                 [] verdict = "NewcomerAlone" -> Carry(EndParked(q, end))
                 [] verdict = "SwappedNewcomerGone" -> Unpark(gone)
                 [] verdict = "ActiveDied" -> gone
                 [] verdict = "AllGone" -> EndParked(gone, end)
                 [] verdict = "StrangerActive" ->
                      LET ended == EndParked(q, end)
                      IN Stranger(IF Alive(q) THEN Park(ended) ELSE ended)
    IN CascadeOver(new, serve)

------------------------------------------------------------------------------
(* Steps of the thread. *)

\* The step from r to q: its commands go out.
Becomes(q) ==
    /\ r' = [q EXCEPT !.out = <<>>]
    /\ at' = IF linked THEN at \o q.out ELSE at
    /\ hf' = FoldLeft(H!mark_command_sent, hf, q.out)

\* One pass of the loop: drain, reconcile, juggle, reset.
Pass ==
    /\ r.stage = "loop"
    /\ \E n \in 0 .. Len(events), serve \in BOOLEAN :
         LET q == Reconciled(Drain(r, SubSeq(events, 1, n)))
         IN /\ events' = SubSeq(events, n + 1, Len(events))
            /\ Becomes(IF q.stage = "loop" THEN AfterReconcile(q, serve) ELSE q)
    /\ UNCHANGED <<line, linked, used>>

\* The auto-answer of a ring, once for each call.
AutoAnswer ==
    LET s == Current(r)
    IN /\ r.stage = "loop" /\ linked /\ Alive(r)
       /\ ~is_active(s) /\ ~s.outbound /\ ~s.auto_answered
       /\ Becomes(Send([r EXCEPT !.t.session.auto_answered = TRUE,
                                 !.t.session.answered_by_aokie = TRUE], "ATA"))
       /\ UNCHANGED <<line, linked, events, used>>

\* Reject of a ring, hang-up of a call.
Hangup ==
    /\ r.stage = "loop" /\ Alive(r) /\ linked
    /\ Use("controls")
    /\ LET intent == IF is_active(Current(r)) THEN "OperatorHangup"
                     ELSE "OperatorReject"
       IN Becomes(Send(Tracker(r, note_intent(r.t, intent)), "AT+CHUP"))
    /\ UNCHANGED <<line, linked, events>>

\* Activate of the knock: the foreground call is parked, the knock served.
ActivateKnock ==
    /\ r.stage = "loop" /\ linked /\ ~r.recent
    /\ r.wait.id # 0 /\ r.parked.id = 0 /\ is_active(Current(r))
    /\ Use("controls")
    /\ LET aside == Park([r EXCEPT !.recent = TRUE, !.wait = NoLeg])
       IN Becomes(Send(Serve(aside, r.wait.id, r.wait.from), "AT+CHLD=2"))
    /\ UNCHANGED <<line, linked, events>>

\* Activate of the parked call: it changes places with the foreground's.
ActivateParked ==
    /\ r.stage = "loop" /\ linked /\ ~r.recent
    /\ r.parked.id # 0 /\ r.mirror = r.parked.id /\ r.wait.id = 0
    /\ Alive(r) => is_active(Current(r))
    /\ Use("controls")
    /\ LET due == Send([r EXCEPT !.recent = TRUE], "AT+CHLD=2")
           back == [(IF Alive(r) THEN Park(due) ELSE NotParked(due))
                       EXCEPT !.t = restore(park(r.t), r.parked), !.pend = r.pctx]
       IN Becomes(back)
    /\ UNCHANGED <<line, linked, events>>

\* The caller has been asked to hold; an operator may have ended the call
\* meanwhile.  Nothing is drained while the question is spoken.
Asked ==
    /\ r.stage = "ask" /\ at = <<>>
    /\ \/ /\ linked
          /\ Becomes(Toggle(r, "accept"))
          /\ UNCHANGED used
       \/ /\ ~linked
          /\ Becomes(JuggleOver(r))
          /\ UNCHANGED used
       \/ /\ linked /\ Use("controls")
          /\ Becomes(JuggleOver(Send(Tracker(r, note_intent(r.t, "OperatorHangup")),
                                     "AT+CHUP")))
    /\ UNCHANGED <<line, linked, events>>

\* Whether a settle need not wait any longer.
Settled(q) ==
    CASE q.stage = "accept" ->
            IF q.job = "juggle"
            THEN V!judge_accept(swap_snapshot(q), q.knock.id)
                    \in {"Accepted", "PrimaryGone"}
            ELSE CascadeAccepted(q)
      [] q.stage \in {"back", "requery"} ->
            q.list.mine \/ (q.held = 0 /\ ~Alive(q))

\* The verdict on a swap; a newcomer who stayed is swapped once more.
SwapJudged(q, verdict, serve) ==
    IF verdict = "StayedOnNewcomer" /\ ~q.again /\ q.wait.id = 0
    THEN [q EXCEPT !.again = TRUE, !.stage = "redwell"]
    ELSE LET v == V!swap_back_verdict_for_tracker(verdict, Alive(q))
         IN IF q.job = "juggle" THEN Juggled(q, v) ELSE Cascaded(q, v, serve)

\* The settle is over.
SettleOver(q, serve) ==
    LET snapshot == swap_snapshot(q)
        verdict == V!judge_swap_back(snapshot, q.primary, q.knock.from)
    IN CASE q.stage = "accept" ->
              IF q.job = "juggle"
              THEN Accepted(q, V!judge_accept(snapshot, q.knock.id))
              ELSE CascadeAnswered(q, serve)
         [] q.stage = "back" /\ verdict = "Inconclusive" -> Settle(q, "requery")
         [] q.stage = "requery" /\ verdict = "Inconclusive" ->
              SwapJudged(q, V!resolve_swap_back_by_indicator(snapshot), serve)
         [] OTHER -> SwapJudged(q, verdict, serve)

Settling == r.stage \in {"accept", "back", "requery"}

\* Events arrive in a settle; it ends if they say enough.
SettleStep ==
    /\ Settling /\ events # <<>>
    /\ \E n \in 1 .. Len(events), serve \in BOOLEAN :
         LET q == SettleDrain(r, SubSeq(events, 1, n))
         IN /\ events' = SubSeq(events, n + 1, Len(events))
            /\ Becomes(IF Settled(q) THEN SettleOver(q, serve) ELSE q)
    /\ UNCHANGED <<line, linked, used>>

\* The call list is asked for, once; a list from before is over by then,
\* unless this is the second settle of the same swap.
AskForList ==
    /\ Settling /\ ~r.asked
    /\ LET q == Send([r EXCEPT !.asked = TRUE,
                               !.list.fresh = @ /\ (r.stage = "requery"
                                                    \/ r.list.mine)], "AT+CLCC")
       IN Becomes(q)
    /\ UNCHANGED <<line, linked, events, used>>

\* The time is up: the phone has had its seconds.
Deadline ==
    /\ Settling /\ r.asked /\ events = <<>> /\ at = <<>>
    /\ \E serve \in BOOLEAN : Becomes(SettleOver(r, serve))
    /\ UNCHANGED <<line, linked, events, used>>

\* The newcomer has been told to hold and the dwell is over: back to the
\* first caller, unless somebody knocks.
Dwelt ==
    /\ r.stage \in {"dwell", "redwell"} /\ at = <<>>
    /\ events' = <<>>
    /\ \E serve \in BOOLEAN :
         LET q == SettleDrain(r, events)
         IN Becomes(IF linked /\ (q.wait.id = 0 \/ q.again) THEN Toggle(q, "back")
                    ELSE SwapJudged([q EXCEPT !.again = TRUE], "StayedOnNewcomer",
                                    serve))
    /\ UNCHANGED <<line, linked, used>>

\* Seconds pass: a switch is no longer recent, a list not fresh, a knock that
\* gave up is gone for good.
Elapse ==
    /\ \/ at = <<>> /\ (events = <<>> \/ r.stage \notin {"loop", "requery"})
          /\ UNCHANGED used
       \/ r.stage = "requery" /\ r.asked /\ at # <<>> /\ r.list.fresh /\ Use("slow")
    /\ r' = [r EXCEPT !.recent = FALSE, !.list.fresh = FALSE,
                      !.gave = [i \in DOMAIN @ |-> [@[i] EXCEPT !.aged = TRUE]]]
    /\ UNCHANGED <<line, linked, hf, events, at>>

------------------------------------------------------------------------------
(* The phone. *)

\* Results of the phone go through the hands-free state machine.
Apply(o, result) ==
    LET n == H!Counted(o.hf,
                CASE result.name = "RING" -> H!Ring(o.hf)
                  [] result.name = "+CLIP" -> H!Clip(o.hf, result.value)
                  [] result.name = "+CCWA" ->
                        H!CallWaitingNotification(o.hf, result.value)
                  [] OTHER -> H!apply_indicator(o.hf, result.name, result.value))
    IN H!Out(n.hf, o.events \o n.events)

Result(name, value) == [name |-> name, value |-> value]

\* The line becomes m; the phone shows it, and says who is new.
Shows(m, said) ==
    /\ line' = m
    /\ \E s \in {u \in SetToSeqs(P!Changed(line, m)) :
                    \A i, j \in DOMAIN u :
                        u[i] = "callheld" /\ u[j] = "call" => i < j} :
         LET results == [i \in DOMAIN s |-> Result(s[i], P!Indicator(m)[s[i]])]
             o == FoldLeft(Apply, H!Out(hf, <<>>), results \o said)
         IN IF linked THEN hf' = o.hf /\ events' = events \o o.events
            ELSE UNCHANGED <<hf, events>>

\* What names a caller: +CCWA on a call, RING and +CLIP otherwise.
Naming(l, c) ==
    IF P!CallIsUp(l) THEN <<Result("+CCWA", NumberOf(c))>>
    ELSE <<Result("RING", NoCaller)>>
         \o (IF c \in Withheld THEN <<>> ELSE <<Result("+CLIP", c)>>)

\* A caller rings or knocks; the phone has taken any ATA before that.
Arrives(c) ==
    /\ line.dir = "none" /\ c \notin P!OnLine(line) /\ r.minted + 3 <= MaxCalls
    /\ ~Contains(at, "ATA")
    /\ Use("arrivals")
    /\ Shows(P!SetUp(line, c, "in"), Naming(line, c))
    /\ UNCHANGED <<linked, at, r>>

\* Callers hang up.
Leaves ==
    /\ Use("departures")
    /\ \/ line.active # NoCaller /\ Shows([line EXCEPT !.active = NoCaller], <<>>)
       \/ line.held # NoCaller /\ Shows([line EXCEPT !.held = NoCaller], <<>>)
    /\ UNCHANGED <<linked, at, r>>

\* Nobody rings or knocks for ever.
GivesUp ==
    /\ line.dir = "in" /\ Shows(P!SetupOver(line), <<>>)
    /\ UNCHANGED <<linked, at, r, used>>

\* A ring goes on, and is named again.
RingsOn ==
    /\ linked /\ line.dir = "in" /\ ~P!CallIsUp(line) /\ events = <<>> /\ at = <<>>
    /\ Shows(line, Naming(line, line.setup))
    /\ UNCHANGED <<linked, at, r, used>>

\* The legs of +CLCC; the active or ringing one's number is a caller id too.
Leg(c, status) ==
    (IF status \in {0, 4} /\ c \notin Withheld
     THEN <<H!EventOf("CallerId", c)>> ELSE <<>>)
    \o <<H!EventOf("CallListEntry", [number |-> NumberOf(c), status |-> status])>>

Listed(l) ==
    (IF l.active = NoCaller THEN <<>> ELSE Leg(l.active, V!Active))
    \o (IF l.held = NoCaller THEN <<>> ELSE Leg(l.held, V!Held))
    \o (IF l.setup = NoCaller THEN <<>>
        ELSE Leg(l.setup, IF P!CallIsUp(l) THEN 5 ELSE 4))

\* The line after a command.
Obeyed(command) ==
    CASE command = "AT+CHLD=2" -> P!HoldAndAccept(line)
      [] command = "AT+CHUP" -> P!HungUp(line)
      [] command = "ATA" -> IF line.dir = "in" /\ ~P!CallIsUp(line)
                            THEN P!Answered(line) ELSE line

PhoneTakes ==
    /\ linked /\ at # <<>>
    /\ at' = Tail(at)
    /\ \/ /\ Head(at) = "AT+CLCC"
          /\ events' = events \o Listed(line)
          /\ UNCHANGED <<line, hf, used>>
       \/ /\ Head(at) # "AT+CLCC"
          /\ Shows(Obeyed(Head(at)), <<>>)
          /\ UNCHANGED used
       \/ /\ Head(at) = "AT+CHLD=2"
          /\ Use("refusals")
          /\ UNCHANGED <<line, hf, events>>
    /\ UNCHANGED <<linked, r>>

\* The keepalive reads the indicators on a quiet link, and settles what an edge
\* left open.
Keepalive ==
    /\ linked /\ events = <<>> /\ at = <<>>
    /\ LET i == P!Indicator(line)
           o == H!Counted(hf, H!apply_indicator_status(hf, i.call, i.callsetup,
                                                       i.callheld))
       IN hf' = o.hf /\ events' = o.events
    /\ UNCHANGED <<line, linked, at, r, used>>

\* The phone is out of reach for good.
LinkLost ==
    /\ linked /\ Use("losses")
    /\ linked' = FALSE /\ at' = <<>>
    /\ events' = Append(events, H!Event("DeviceDisconnected"))
    /\ UNCHANGED <<line, hf, r>>

Radio == \/ Pass \/ AutoAnswer \/ Asked \/ SettleStep \/ AskForList \/ Deadline
         \/ Dwelt

Next ==
    \/ Radio
    \/ Hangup \/ ActivateKnock \/ ActivateParked
    \/ Elapse
    \/ \E c \in Callers : Arrives(c)
    \/ Leaves \/ GivesUp \/ RingsOn \/ PhoneTakes \/ Keepalive \/ LinkLost

Spec == Init /\ [][Next]_vars

\* A pass over no events changes nothing.
PassIdle == \A serve \in BOOLEAN : AfterReconcile(Reconciled(r), serve) = r

\* The radio thread has a step to take.
RadioDue ==
    CASE r.stage = "loop" -> events # <<>> \/ ~PassIdle
      [] r.stage \in {"ask", "dwell", "redwell"} -> at = <<>>
      [] OTHER -> events # <<>> \/ ~r.asked \/ at = <<>>

ElapseDue ==
    /\ at = <<>> /\ (events = <<>> \/ r.stage \notin {"loop", "requery"})
    /\ r.recent \/ r.list.fresh \/ \E i \in DOMAIN r.gave : ~r.gave[i].aged

\* The loop goes round and its waits have deadlines, the phone takes commands,
\* time passes, and nobody knocks for ever: weak fairness, with what enables
\* each action written out.
FairSpec ==
    /\ Spec
    /\ []<>~(RadioDue) \/ []<><<Radio>>_vars
    /\ []<>~(linked /\ at # <<>>) \/ []<><<PhoneTakes>>_vars
    /\ []<>~(ElapseDue) \/ []<><<Elapse>>_vars
    /\ []<>~(line.dir = "in") \/ []<><<GivesUp>>_vars

------------------------------------------------------------------------------
(* Properties. *)

KnownLeg == [id : 0 .. MaxCalls, from : Callers \cup {NoCaller}]
Contexts == 0 .. MaxCalls

TypeOK ==
    /\ line \in P!Line /\ linked \in BOOLEAN /\ hf \in H!HfState
    /\ {r.t.session, r.parked, r.kept} \subseteq Session
    /\ r.wait \in KnownLeg /\ r.knock \in KnownLeg
    /\ {r.ctx, r.pctx, r.kctx} \subseteq Contexts
    /\ r.pend \in Contexts \cup {NoContext}
    /\ {r.held, r.prev} \subseteq 0 .. 2
    /\ r.minted \in 0 .. MaxCalls /\ r.mirror \in 0 .. MaxCalls
    /\ r.stage \in {"loop", "ask", "accept", "dwell", "back", "requery", "redwell"}
    /\ r.out = <<>>

\* The calls that are somewhere: in the foreground, parked, or set aside by a
\* juggle that is under way.
Sessions == {r.t.session, r.parked, r.kept} \ {NoSession}

\* Every call announced (call.incoming or call.answered) and not ended is in the
\* foreground, parked or set aside: no arm of a verdict drops a session.
EveryCallAccountedFor ==
    \A i \in DOMAIN r.log :
        (r.log[i].incoming \/ r.log[i].answered) /\ r.log[i].ended = <<>>
        => \E s \in Sessions : s.id = i

\* A call is in one place only, and nowhere once call.ended was sent for it.
OnePlaceUntilEnded ==
    /\ \A s \in Sessions : r.log[s.id].ended = <<>>
    /\ r.parked = NoSession \/ r.parked.id \notin {Current(r).id, r.kept.id}
    /\ r.kept = NoSession \/ r.kept.id # Current(r).id

\* Between passes the call the operator sees as parked is the parked one.
MirrorShowsParked == r.stage = "loop" => r.mirror = r.parked.id

\* The conversation a caller continues, and the one put away for the parked
\* call, is their own.
OwnContext ==
    /\ r.stage = "loop" /\ is_active(Current(r)) /\ r.voice = generation(r.t)
       => r.ctx \in {0, Current(r).id}
    /\ r.parked # NoSession => r.pctx \in {0, r.parked.id}

\* Nothing is under way, on either side.
Quiet ==
    /\ linked /\ r.stage = "loop" /\ events = <<>> /\ at = <<>> /\ ~r.recent
    /\ ~hf.terminate_pending /\ PassIdle

\* Once all is quiet, whoever is on the line is being talked to.
CallerIsServed ==
    Quiet /\ line.active # NoCaller => is_active(Current(r))

\* Once all is quiet and nobody knocks, nobody is left on hold with the line
\* free.
NobodyStranded ==
    Quiet /\ r.wait.id = 0 /\ r.parked # NoSession => Alive(r)

\* A parked call without a foreground call is retrieved, replaced or ended.
ParkedIsRetrieved ==
    (r.parked # NoSession /\ ~Alive(r)) ~> (r.parked = NoSession \/ Alive(r))

------------------------------------------------------------------------------
(* What comments of the code promise. *)

\* A call ends once: a knock that was served leaves no record of its own.
EndedOnce == \A i \in DOMAIN r.log : Len(r.log[i].ended) <= 1

\* Once all is quiet, the session of a parked caller who hung up is closed.
ParkedIsOnHold ==
    Quiet /\ r.parked # NoSession => line.held # NoCaller
==============================================================================
