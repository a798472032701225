----------------------------- MODULE TextLedger -----------------------------
(***************************************************************************)
(* The texts of one radio run: TextLedger and the MAP operations that      *)
(* carry them (crates/aokie-bluetooth/src/aokie_radio/runtime.rs).  One    *)
(* thread, run_runtime, owns all of it, so the state is one record and     *)
(* every operation a function of it; Texts has the threads around it.      *)
(*                                                                         *)
(* A text is PUT into the phone's outbox folder over a MAS session.  When  *)
(* the session dies under the PUT the phone may have the text: the ledger  *)
(* marks it (out), and it is looked for in the phone's folders before it   *)
(* is sent again.                                                          *)
(*                                                                         *)
(* Clocks are reduced to the comparisons made with them: old says that     *)
(* SEND_REPLY_RETAIN_TTL is over since the first try (or, untried, since   *)
(* the text was queued), wait that not_before is ahead, quiet that a PUT   *)
(* went out less than POLL_SKIP_AFTER_REPLY ago.                           *)
(***************************************************************************)
EXTENDS Naturals, Sequences, FiniteSets, Functions

CONSTANTS
    Texts,              \* message ids
    Requests,           \* request ids of sms.send; each is an attempt of its own
    TEXT_ANSWERS_KEPT   \* answers a run remembers

\* A SendSms on its way to the run.
Pairs == [id : Texts, r : Requests]

\* SmsSent, SmsSendFailed in doubt (outcome_unknown) and for certain.
Answers == {"sent", "doubt", "failed"}

\* PendingMapOp, the kinds that carry a text; a snapshot and a look box the
\* send they are for.
OpKinds == {"send", "snapshot", "look_sent", "look_outbox"}

\* SentSnapshot: not taken yet, taken, unavailable.
Snapshots == {"not", "taken", "none"}

Ops == [k : OpKinds, id : Texts, tried : BOOLEAN, old : BOOLEAN,
        wait : BOOLEAN, before : Snapshots]

\* A text handed over and not answered (OpenText).  The code's text does not
\* know its attempt; r is kept to say which attempt the phone took.
OpenTexts == [id : Texts, r : Requests, out : BOOLEAN]

\* What has become of the PUT of the send in flight: the phone's side of it.
PutStates == {"none", "out", "taken", "refused", "erred"}

\* A new run: TextLedger::new, no operation queued or in flight.
NewRun ==
    [open |-> {}, answered |-> << >>, ops |-> << >>, active |-> {},
     put |-> "none", quiet |-> FALSE, said |-> << >>]

Runs ==
    [open : SUBSET OpenTexts, answered : Seq([id : Texts, a : Answers]),
     ops : Seq(Ops), active : SUBSET Ops, put : PutStates, quiet : BOOLEAN,
     said : Seq([id : Texts, a : Answers])]

--------------------------------------------------------------------------
(* The ledger                                                              *)

IsOpen(s, t) == \E o \in s.open : o.id = t
PutIsOut(s, t) == \E o \in s.open : o.id = t /\ o.out

\* VecDeque::remove.
Without(q, k) == [i \in 1..(Len(q) - 1) |-> IF i < k THEN q[i] ELSE q[i + 1]]

Say(s, t, a) == [s EXCEPT !.said = Append(@, [id |-> t, a |-> a])]

\* remember_answer: the oldest is forgotten for the newest.
Remember(kept, x) ==
    Append(IF Len(kept) >= TEXT_ANSWERS_KEPT THEN Tail(kept) ELSE kept, x)

\* sent and fail: an open text is closed, answered, and the answer kept.
Answer(s, t, a) ==
    IF ~IsOpen(s, t) THEN s
    ELSE [Say(s, t, a) EXCEPT !.open = {o \in @ : o.id # t},
                              !.answered = Remember(@, [id |-> t, a |-> a])]

\* Mutant of Failed: a text whose PUT is out is reported as not sent.
FailedForCertain(s, t) == Answer(s, t, "failed")

\* failed: in doubt when a PUT of it is out unanswered.
Failed(s, t) == Answer(s, t, IF PutIsOut(s, t) THEN "doubt" ELSE "failed")

MarkPut(s, t, out) ==
    [s EXCEPT !.open = {IF o.id = t THEN [o EXCEPT !.out = out] ELSE o : o \in @}]

put_went_out(s, t) == MarkPut(s, t, TRUE)
put_not_taken(s, t) == MarkPut(s, t, FALSE)

NewSend(t) ==
    [k |-> "send", id |-> t, tried |-> FALSE, old |-> FALSE, wait |-> FALSE,
     before |-> "not"]

\* The answer kept of a text, at its place.
AnswerAt(s, t) ==
    {i \in DOMAIN s.answered :
        s.answered[i].id = t /\ \A j \in 1..(i - 1) : s.answered[j].id # t}

Forget(s, t) ==
    [s EXCEPT !.answered =
        IF AnswerAt(s, t) = {} THEN @ ELSE Without(@, CHOOSE i \in AnswerAt(s, t) : TRUE)]

\* open: the text is handed over under the attempt r.
Open(s, t, r) == [s EXCEPT !.open = @ \cup {[id |-> t, r |-> r, out |-> FALSE]}]

\* SendSms: take_in, and the queueing behind it.  An id open is not sent
\* again; one answered sent or in doubt is given its answer again; one that
\* failed for certain is sent again.  What does not fit one packet of the
\* dongle is reported failed at once.
TakeIn(s, t, r, fits) ==
    LET again == {i \in AnswerAt(s, t) : s.answered[i].a # "failed"}
        opened == Open(Forget(s, t), t, r)
    IN  IF IsOpen(s, t) THEN s
        ELSE IF again # {} THEN Say(s, t, s.answered[CHOOSE i \in again : TRUE].a)
        ELSE IF ~fits THEN Failed(opened, t)
        ELSE [opened EXCEPT !.ops = Append(@, NewSend(t))]

TakeAll(s, coming) ==
    LET taken[n \in 0..Len(coming)] ==
            IF n = 0 THEN s ELSE TakeIn(taken[n - 1], coming[n].id, coming[n].r, TRUE)
    IN  taken[Len(coming)]

--------------------------------------------------------------------------
(* An operation that stopped short: requeue_or_report                      *)

\* Mutant of RequeueSend: a PUT that may have arrived is sent again.
RequeueSendUnlooked(s, op, stop, why) ==
    IF ~IsOpen(s, op.id) THEN s
    ELSE IF why = "refused" THEN Answer(s, op.id, "failed")
    ELSE IF op.old THEN Failed(s, op.id)
    ELSE [s EXCEPT !.ops = Append(@, [op EXCEPT !.wait = (stop # "not_started")])]

\* SendReply.  stop is MapStop; why is what ended it: the session ("lost"),
\* an error code of the phone ("error") or its refusal of the PUT for good.
RequeueSend(s, op, stop, why) ==
    LET doubt == stop = "in_flight" /\ why = "lost"
        noted == IF doubt THEN put_went_out(s, op.id)
                 ELSE IF stop = "in_flight" THEN put_not_taken(s, op.id) ELSE s
        again == [op EXCEPT !.wait = IF stop = "not_started" THEN @ ELSE TRUE]
    IN  IF ~IsOpen(s, op.id) THEN s
        ELSE IF why = "refused" THEN Answer(s, op.id, "failed")
        ELSE IF op.old THEN Failed(noted, op.id)
        ELSE [noted EXCEPT !.ops =
                  Append(@, IF doubt THEN [again EXCEPT !.k = "look_sent"] ELSE again)]

\* Mutant of RequeueLook: the look dies with its session.
RequeueLookDropped(s, op, stop) == IF op.old THEN Failed(s, op.id) ELSE s

\* VerifySent: looked for again later, or reported.
RequeueLook(s, op, stop) ==
    IF ~IsOpen(s, op.id) THEN s
    ELSE IF op.old THEN Failed(s, op.id)
    ELSE [s EXCEPT !.ops =
              Append(@, [op EXCEPT !.wait = IF stop = "not_started" THEN @ ELSE TRUE])]

\* SnapshotSent: the text goes on without the snapshot, once it was tried.
RequeueSnapshot(s, op, stop) ==
    RequeueSend(s, [op EXCEPT !.k = "send",
                              !.before = IF stop = "not_started" THEN @ ELSE "none"],
                "not_started", "lost")

requeue_or_report(s, op, stop, why) ==
    CASE op.k = "send" -> RequeueSend(s, op, stop, why)
      [] op.k = "snapshot" -> RequeueSnapshot(s, op, stop)
      [] OTHER -> RequeueLook(s, op, stop)

\* The operation in flight ends so.
Stop(s, op, why) ==
    requeue_or_report([s EXCEPT !.active = {}, !.put = "none"], op, "in_flight", why)

--------------------------------------------------------------------------
(* drive_map_runtime: an operation starts                                  *)

\* take_ready_op: the first that is not waiting out its pause.
Ready(s) ==
    {i \in DOMAIN s.ops : ~s.ops[i].wait /\ \A j \in 1..(i - 1) : s.ops[j].wait}

\* mark_tried: before a text's first PUT the sent folder is listed, unless
\* the phone is in its quiet time; the retain time runs from the first try.
mark_tried(s, op) ==
    IF op.k # "send" THEN op
    ELSE IF op.before = "not" /\ ~s.quiet THEN [op EXCEPT !.k = "snapshot"]
    ELSE [op EXCEPT !.before = IF @ = "not" THEN "none" ELSE @,
                    !.tried = TRUE, !.old = op.tried /\ @]

Taken(s, i) == mark_tried(s, s.ops[i])

Start(s, i) == [s EXCEPT !.ops = Without(@, i), !.active = {Taken(s, i)}]

\* start_map_operation failed: nothing reached the phone.
StartFails(s, i) ==
    requeue_or_report([s EXCEPT !.ops = Without(@, i)], Taken(s, i), "not_delivered", "lost")

\* feed_pooled_next_op refused by the session: back to the front.
FeedFails(s, i) == [s EXCEPT !.ops = << Taken(s, i) >> \o Without(@, i)]

\* Mutant of PutOut: only an answer that fails to come tells.
PutOutUnmarked(s, op) == [s EXCEPT !.put = "out", !.quiet = TRUE]

\* note_put_out: from here on the text is in doubt.
PutOut(s, op) == [put_went_out(s, op.id) EXCEPT !.put = "out", !.quiet = TRUE]

--------------------------------------------------------------------------
(* handle_map_runtime_event: an operation completes                        *)

Rest(s) == [s EXCEPT !.active = {}, !.put = "none"]

PushFront(s, op) == [s EXCEPT !.ops = << op >> \o @]

\* The sent folder listed before the PUT, or not to be had.
SnapshotDone(s, op, before) ==
    IF IsOpen(s, op.id) THEN PushFront(Rest(s), [op EXCEPT !.k = "send", !.before = before])
    ELSE Rest(s)

\* The phone acknowledged the PUT.
PutDone(s, op) == Answer([Rest(s) EXCEPT !.quiet = TRUE], op.id, "sent")

\* A folder was listed and holds the text, or does not: sent, then outbox,
\* then the text is sent again.
LookDone(s, op, found) ==
    IF found THEN PutDone(s, op)
    ELSE IF op.k = "look_sent"
    THEN PushFront(Rest(s), [op EXCEPT !.k = "look_outbox", !.wait = FALSE])
    ELSE PushFront(put_not_taken(Rest(s), op.id), [op EXCEPT !.k = "send", !.wait = FALSE])

\* The answer was no listing: the operation is dropped, and sweep reports the
\* text that nothing carries any more.
LookGarbled(s, op) == Failed(Rest(s), op.id)

--------------------------------------------------------------------------
(* The link and the run                                                    *)

\* The phone link dropped: the operation in flight stops short, and the
\* queued ones pass requeue_or_report again in their order.
LinkDown(s) ==
    LET idle == [s EXCEPT !.ops = << >>]
        pass[n \in 0..Len(s.ops)] ==
            IF n > 0 THEN requeue_or_report(pass[n - 1], s.ops[n], "not_started", "lost")
            ELSE IF s.active = {} THEN idle
            ELSE Stop(idle, CHOOSE op \in s.active : TRUE, "lost")
    IN  pass[Len(s.ops)]

\* switch_map_phone: another phone is connected.
SwitchPhone(s) ==
    LET pass[n \in 0..Len(s.ops)] ==
            IF n = 0 THEN [s EXCEPT !.ops = << >>] ELSE Failed(pass[n - 1], s.ops[n].id)
    IN  pass[Len(s.ops)]

\* expire_waiting_texts, run while no phone is connected.
Overdue(op) == op.old /\ op.k # "snapshot"

Expire(s) ==
    LET pass[n \in 0..Len(s.ops)] ==
            IF n = 0 THEN [s EXCEPT !.ops = << >>]
            ELSE IF Overdue(s.ops[n]) THEN Failed(pass[n - 1], s.ops[n].id)
            ELSE [pass[n - 1] EXCEPT !.ops = Append(@, s.ops[n])]
    IN  pass[Len(s.ops)]

\* Drop of the ledger: every open text is reported, on every way out of the
\* run, one after the other (in any order here; the code's is the order of the
\* hand-overs); the next run has a ledger of its own.
Reports(s) == {[id |-> o.id, a |-> IF o.out THEN "doubt" ELSE "failed"] : o \in s.open}

Orders(S) == {q \in [1..Cardinality(S) -> S] : q \in Seq(S) /\ IsInjective(q) /\ Range(q) = S}

EndRun(s) == {[NewRun EXCEPT !.said = s.said \o left] : left \in Orders(Reports(s))}

\* Time passes: the text's retain time ends, an operation's pause does, the
\* phone's quiet time does.
GrowOld(s, t) ==
    LET aged(op) == IF op.id = t THEN [op EXCEPT !.old = TRUE] ELSE op
    IN  [s EXCEPT !.ops = [i \in DOMAIN @ |-> aged(@[i])],
                  !.active = {aged(op) : op \in @}]

WaitOver(s, i) == [s EXCEPT !.ops[i].wait = FALSE]
QuietOver(s) == [s EXCEPT !.quiet = FALSE]
=============================================================================
