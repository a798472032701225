------------------------------- MODULE Texts --------------------------------
(***************************************************************************)
(* A text from sms.send to its outcome (crates/aokie-plugin/src):          *)
(*   the connector thread answers sms.send through the command journal     *)
(*     (connector.rs, command_journal.rs);                                 *)
(*   the plugin's radio thread hands texts on and writes what becomes of   *)
(*     them to the outbox (radio/controls.rs, radio/event_handler.rs);     *)
(*   the runtime thread below it owns a TextLedger and talks to the phone; *)
(*   a sweep reports the texts that a dead radio or process left open.     *)
(* The process may die at any step; the journal and the outbox survive it. *)
(***************************************************************************)
EXTENDS TextAttempts

CONSTANTS
    TextOf,       \* the messageId a request asks to send
    MaxFaults     \* crashes, dead threads, reopens, link and session failures

ASSUME TextConstants ==
    /\ TextOf \in [Requests -> Texts]
    /\ MaxFaults \in Nat

VARIABLES
    \* the runtime thread
    run,          \* its record (TextLedger)
    mode,         \* run_runtime runs, the supervisor waits to reopen, or it returned
    link,         \* a phone is connected
    cmds,         \* the control channel of the runtime
    \* the plugin's radio thread
    radio,        \* running, dead and not yet reaped, or not there
    ctl,          \* its control channel
    emitting,     \* the outcome taken from the runtime and not yet written
    \* the connector thread
    plugin,       \* the process is up
    conn,         \* the request in hand and how far it is
    journal,      \* command_journal: request |-> row
    tries,        \* the completed results that say queued, oldest first
    sweeping,     \* the texts the sweep's thread is about to report failed
    \* what the host is told
    outbox,       \* keys of the outcome events with a row
    live,         \* keys of the events given live without one (LIVE_ONLY)
    faults        \* history: faults so far

radioVars == <<radio, ctl, flight, emitting>>
connVars == <<plugin, conn, journal, tries, sweeping>>
hostVars == <<outbox, live>>
runVars == <<run, mode, link, cmds, phone, tookOf>>
vars == <<runVars, radioVars, connVars, hostVars, slips, faults>>

\* The idempotency keys of aokie.sms.sent and aokie.sms.failed: a definite
\* failure is keyed by its attempt, the others by the text.
Key(t, a, r) == [id |-> t, a |-> a, r |-> IF a = "failed" THEN r ELSE NoRequest]
Keys == [id : Texts, a : Answers, r : Requests \cup {NoRequest}]

TypeOK ==
    /\ run \in Runs /\ mode \in {"up", "reopening", "over"} /\ link \in BOOLEAN
    /\ cmds \in Seq(Pairs) /\ ctl \in Seq(Pairs)
    /\ phone \in [Texts -> [n : Nat, now : Slots, then : Slots, listed : BOOLEAN]]
    /\ tookOf \subseteq Requests
    /\ radio \in {"up", "dead", "none"}
    /\ flight \in [Texts -> Requests \cup {NoRequest}]
    /\ emitting \subseteq Keys
    /\ plugin \in {"up", "down"}
    /\ conn \subseteq [r : Requests, at : {"outcome", "flight", "hand", "queued", "again"}]
    /\ journal \in [Requests -> {"none", "pending", "queued", "done"}]
    /\ tries \in Seq(Requests) /\ sweeping \subseteq Texts
    /\ outbox \subseteq Keys /\ live \subseteq Keys
    /\ slips \subseteq [id : Texts, why : {"raced", "unrecorded", "moved", "dropped",
                                           "unkept", "swept", "unsealed"}]
    /\ faults \in 0..MaxFaults

Nobody == [t \in Texts |-> NoRequest]

Init ==
    /\ run = NewRun /\ mode = "over" /\ link = FALSE /\ cmds = << >>
    /\ phone = [t \in Texts |-> [n |-> 0, now |-> "none", then |-> "none", listed |-> FALSE]]
    /\ tookOf = {}
    /\ radio = "none" /\ ctl = << >> /\ flight = Nobody /\ emitting = {}
    /\ plugin = "up" /\ conn = {} /\ journal = [r \in Requests |-> "none"]
    /\ tries = << >> /\ sweeping = {}
    /\ outbox = {} /\ live = {}
    /\ slips = {} /\ faults = 0

Fault == faults < MaxFaults /\ faults' = faults + 1

--------------------------------------------------------------------------
(* What is known of a text                                                 *)

\* outbox_or_live_has, and text_outcome: a definite failure is no outcome.
Known(k) == k \in outbox \cup live
HasOutcome(t) == \E a \in {"sent", "doubt"} : Known(Key(t, a, NoRequest))

--------------------------------------------------------------------------
(* The connector: sms.send                                                 *)

\* A journalled command whose request id is new: the reservation commits.
\* A replay, a pending reservation and a collision change nothing.
Ask(r) ==
    /\ plugin = "up" /\ conn = {} /\ journal[r] = "none"
    /\ conn' = {[r |-> r, at |-> "outcome"]}
    /\ journal' = [journal EXCEPT ![r] = "pending"]
    /\ UNCHANGED <<runVars, radioVars, hostVars, plugin, tries, sweeping, slips, faults>>

\* sms_send refuses before the text reaches the radio (the number, consent,
\* no radio, no phone, the daily cap): settle_journalled abandons the
\* reservation.  Its sms.failed is keyed by the refusal and is no outcome.
Refuse(c) ==
    /\ conn' = {} /\ journal' = [journal EXCEPT ![c.r] = "none"]
    /\ UNCHANGED <<runVars, radioVars, hostVars, plugin, tries, sweeping, slips, faults>>

Refused == \E c \in conn : c.at \in {"outcome", "hand"} /\ Refuse(c)

\* text_outcome: a text that has one is not sent again.
LookOutcome ==
    \E c \in conn :
        /\ c.at = "outcome" /\ radio # "none"
        /\ conn' = {[c EXCEPT !.at = IF HasOutcome(TextOf[c.r]) THEN "again" ELSE "flight"]}
        /\ UNCHANGED <<runVars, radioVars, hostVars, plugin, journal, tries, sweeping,
                       slips, faults>>

\* texts_in_flight: nor one that is on its way.
LookFlight ==
    \E c \in conn :
        /\ c.at = "flight"
        /\ conn' = {[c EXCEPT !.at = IF flight[TextOf[c.r]] # NoRequest THEN "again" ELSE "hand"]}
        /\ UNCHANGED <<runVars, radioVars, hostVars, plugin, journal, tries, sweeping,
                       slips, faults>>

\* The text is put in flight and goes to the radio thread.  The radio may
\* have answered an earlier attempt since the two looks.
HandOver ==
    \E c \in conn : LET t == TextOf[c.r] IN
        /\ c.at = "hand" /\ radio = "up"
        /\ flight' = [flight EXCEPT ![t] = c.r]
        /\ ctl' = Append(ctl, [id |-> t, r |-> c.r])
        /\ conn' = {[c EXCEPT !.at = "queued"]}
        /\ slips' = slips
              \cup (IF HasOutcome(t) \/ \E k \in emitting : k.id = t THEN Slip({t}, "raced") ELSE {})
              \cup (IF t \in sweeping THEN Slip({t}, "swept") ELSE {})
        /\ UNCHANGED <<runVars, radio, emitting, hostVars, plugin, journal, tries, sweeping,
                       faults>>

\* settle_journalled: the result is committed and answered.  A text that was
\* handed over is promised an outcome.
Record ==
    \E c \in conn :
        /\ c.at \in {"queued", "again"}
        /\ conn' = {}
        /\ journal' = [journal EXCEPT ![c.r] = IF c.at = "queued" THEN "queued" ELSE "done"]
        /\ tries' = IF c.at = "queued" THEN Append(tries, c.r) ELSE tries
        /\ UNCHANGED <<runVars, radioVars, hostVars, plugin, sweeping, slips, faults>>

\* The journal could not be written: the result is answered all the same and
\* the reservation stays pending.
RecordFails ==
    \E c \in conn :
        /\ c.at = "queued" /\ Fault
        /\ conn' = {}
        /\ slips' = slips \cup Slip({TextOf[c.r]}, "unrecorded")
        /\ UNCHANGED <<runVars, radioVars, hostVars, plugin, journal, tries, sweeping>>

--------------------------------------------------------------------------
(* The plugin's radio thread                                               *)

\* RadioControl::SendSms: on to the runtime, or, its thread gone, failed for
\* certain under its attempt.
RadioForwards ==
    /\ radio = "up" /\ emitting = {} /\ ctl # << >>
    /\ ctl' = Tail(ctl)
    /\ LET x == Head(ctl) IN
          \/ /\ mode # "over"
             /\ cmds' = Append(cmds, x)
             /\ UNCHANGED <<flight, emitting>>
          \/ /\ mode = "over"
             /\ flight' = [flight EXCEPT ![x.id] = NoRequest]
             /\ emitting' = {Key(x.id, "failed", flight[x.id])}
             /\ UNCHANGED cmds
    /\ UNCHANGED <<run, mode, link, phone, tookOf, radio, connVars, hostVars, slips, faults>>

\* SmsSent, SmsSendFailed: the text is taken out of flight, then its event is
\* emitted.
RadioHears ==
    /\ radio = "up" /\ emitting = {} /\ run.said # << >>
    /\ LET x == Head(run.said) IN
          /\ emitting' = {Key(x.id, x.a, flight[x.id])}
          /\ flight' = [flight EXCEPT ![x.id] = NoRequest]
    /\ run' = [run EXCEPT !.said = Tail(@)]
    /\ UNCHANGED <<mode, link, cmds, phone, tookOf, radio, ctl, connVars, hostVars, slips, faults>>

\* emit_event: a row under the event's key, unless it has one; the outbox not
\* taking it, the event goes to the host live and its key is remembered.
Emit ==
    /\ radio = "up"
    /\ \E k \in emitting :
          \/ outbox' = outbox \cup {k} /\ UNCHANGED <<live, faults>>
          \/ Fault /\ live' = live \cup {k} /\ UNCHANGED outbox
    /\ emitting' = {}
    /\ UNCHANGED <<runVars, radio, ctl, flight, connVars, slips>>

--------------------------------------------------------------------------
(* The sweep: fail_texts_left_open                                         *)

\* Mutant of LastTry: the first attempt is the one asked about.
FirstTry(t) == tries[CHOOSE i \in DOMAIN tries :
                        TextOf[tries[i]] = t /\ \A j \in 1..(i - 1) : TextOf[tries[j]] # t]

LastTry(t) == tries[CHOOSE i \in DOMAIN tries :
                       TextOf[tries[i]] = t
                       /\ \A j \in (i + 1)..Len(tries) : TextOf[tries[j]] # t]

\* Mutant of LeftOpen: a text that was sent is reported too.
LeftOpenThoughSent(kept) ==
    {t \in {TextOf[r] : r \in Range(tries)} :
        \A k \in {Key(t, "doubt", NoRequest), Key(t, "failed", LastTry(t))} : k \notin kept}

\* texts_left_open: handed to a radio, and neither the text nor its last
\* attempt has an outcome.
LeftOpen(kept) ==
    {t \in {TextOf[r] : r \in Range(tries)} :
        \A k \in {Key(t, "sent", NoRequest), Key(t, "doubt", NoRequest),
                  Key(t, "failed", LastTry(t))} : k \notin kept}

\* The sealing key may wait on a person: a thread of its own writes them.
Sweep(kept) == sweeping' = sweeping \cup LeftOpen(kept)

\* write_texts_left_open: in doubt, under the key the radio's own would have;
\* nothing while the key is not to be had.
SweepWrites ==
    /\ sweeping # {} /\ sweeping' = {}
    /\ \/ /\ outbox' = outbox \cup {Key(t, "doubt", NoRequest) : t \in sweeping}
          /\ UNCHANGED <<slips, faults>>
       \/ /\ Fault /\ slips' = slips \cup Slip(sweeping, "unsealed")
          /\ UNCHANGED outbox
    /\ UNCHANGED <<runVars, radioVars, plugin, conn, journal, tries, live>>

--------------------------------------------------------------------------
(* Radios and processes come and go                                        *)

RadioGone == run' = NewRun /\ mode' = "over" /\ link' = FALSE /\ cmds' = << >>

\* The radio thread panics: what was in its channels is lost with it, and the
\* runtime's last words are not read.
RadioDies ==
    /\ radio = "up" /\ Fault
    /\ radio' = "dead" /\ ctl' = << >> /\ emitting' = {}
    /\ RadioGone
    /\ UNCHANGED <<phone, tookOf, flight, connVars, hostVars, slips>>

\* reap_finished_radio.
Reap ==
    /\ plugin = "up" /\ conn = {} /\ radio = "dead"
    /\ radio' = "none" /\ flight' = Nobody
    /\ Sweep(outbox \cup live)
    /\ UNCHANGED <<runVars, ctl, emitting, plugin, conn, journal, tries, hostVars, slips, faults>>

\* ensure_radio_started: new threads, channels and status.
RadioStarts ==
    /\ plugin = "up" /\ conn = {} /\ radio = "none"
    /\ radio' = "up" /\ mode' = "up"
    /\ UNCHANGED <<run, link, cmds, phone, tookOf, ctl, flight, emitting, connVars, hostVars,
                   slips, faults>>

ProcessGone ==
    /\ plugin' = "down" /\ conn' = {} /\ sweeping' = {} /\ live' = {}
    /\ radio' = "none" /\ ctl' = << >> /\ emitting' = {} /\ flight' = Nobody
    /\ RadioGone
    /\ UNCHANGED <<phone, tookOf, journal, tries>>

\* The process is killed.
Crash ==
    /\ plugin = "up" /\ Fault
    /\ ProcessGone
    /\ slips' = slips
          \cup Slip({TextOf[c.r] : c \in {d \in conn : d.at = "queued"}}, "unrecorded")
          \cup Slip({k.id : k \in live \ outbox}, "unkept")
    /\ UNCHANGED outbox

\* The runtime's last words at a stop that is asked for: the texts of both
\* channels go in, and the ledger reports what is open.
LastWords ==
    LET coming == cmds \o ctl
        last == TakeAll(run, coming)
    IN  IF mode = "up" THEN Range(last.said) \cup Reports(last)
        ELSE Range(run.said) \cup {[id |-> x.id, a |-> "failed"] : x \in Range(coming)}

\* plugin.shutdown: the phone link is stopped and what it says as it ends is
\* written before the stop is acknowledged.
ShutDown ==
    /\ plugin = "up" /\ conn = {} /\ radio = "up" /\ emitting = {} /\ Fault
    /\ outbox' = outbox \cup {Key(x.id, x.a, flight[x.id]) : x \in LastWords}
    /\ slips' = slips \cup Slip({k.id : k \in live \ outbox}, "unkept")
    /\ ProcessGone

\* The next process: plugin.init sweeps before its radio starts.
Restart ==
    /\ plugin = "down"
    /\ plugin' = "up" /\ Sweep(outbox)
    /\ UNCHANGED <<runVars, radioVars, conn, journal, tries, hostVars, slips, faults>>

--------------------------------------------------------------------------
(* The phone                                                               *)

\* A copy is moved to the sent folder.  Between the two listings of a look
\* that hides it from both.
PhoneFiles(t) ==
    /\ \/ /\ phone[t].now = "outbox"
          /\ phone' = [phone EXCEPT ![t].now = "sent"]
          /\ slips' = IF \E op \in Range(run.ops) \cup run.active :
                            op.id = t /\ op.k = "look_outbox"
                      THEN slips \cup Slip({t}, "moved") ELSE slips
       \/ /\ phone[t].then = "outbox"
          /\ phone' = [phone EXCEPT ![t].then = "sent"]
          /\ UNCHANGED slips
    /\ UNCHANGED <<run, mode, link, cmds, tookOf, radioVars, connVars, hostVars, faults>>

--------------------------------------------------------------------------
(* The runtime thread: run_runtime                                         *)

elsewhere == <<radioVars, connVars, hostVars>>

\* RuntimeControl::SendSms.
RunTakesIn ==
    /\ mode = "up" /\ cmds # << >>
    /\ cmds' = Tail(cmds)
    /\ LET x == Head(cmds) IN
          \E fits \in BOOLEAN :
             /\ run' = TakeIn(run, x.id, x.r, fits)
             /\ phone' = IF ~IsOpen(run, x.id) /\ IsOpen(run', x.id)
                         THEN [phone EXCEPT ![x.id] = Handed(@)] ELSE phone
    /\ UNCHANGED <<mode, link, tookOf, elsewhere, slips, faults>>

\* A step of the ledger alone.
RunDoes(s) ==
    run' = s /\ UNCHANGED <<mode, link, cmds, phone, tookOf, elsewhere, slips>>

\* An operation starts, on a fresh or a resting session, or cannot.
RunStarts ==
    /\ mode = "up" /\ link /\ run.active = {}
    /\ \E i \in Ready(run) :
          \/ RunDoes(Start(run, i)) /\ UNCHANGED faults
          \/ RunDoes(StartFails(run, i)) /\ Fault
          \/ RunDoes(FeedFails(run, i)) /\ Fault

\* The PUT goes out: note_put_out.
RunPuts ==
    \E op \in run.active :
        /\ op.k = "send" /\ run.put = "none"
        /\ RunDoes(PutOut(run, op)) /\ UNCHANGED faults

\* The phone's answer to it, on its way.
PhoneAnswers ==
    \E op \in run.active :
        /\ run.put = "out"
        /\ \/ /\ run' = [run EXCEPT !.put = "taken"]
              /\ phone' = [phone EXCEPT ![op.id] = TakesCopy(@)]
              /\ tookOf' = tookOf \cup {o.r : o \in {x \in run.open : x.id = op.id}}
              /\ UNCHANGED faults
           \/ /\ Fault
              /\ \E a \in {"refused", "erred"} : run' = [run EXCEPT !.put = a]
              /\ UNCHANGED <<phone, tookOf>>
        /\ UNCHANGED <<mode, link, cmds, elsewhere, slips>>

\* It arrives.
PutAnswered ==
    \E op \in run.active :
        /\ RunDoes(CASE run.put = "taken" -> PutDone(run, op)
                      [] run.put = "refused" -> Stop(run, op, "refused")
                      [] run.put = "erred" -> Stop(run, op, "error")
                      [] OTHER -> run)
        /\ run.put \in {"taken", "refused", "erred"}
        /\ UNCHANGED faults

\* A listing arrives.
Listed ==
    \E op \in run.active :
        /\ op.k # "send"
        /\ \/ /\ op.k = "snapshot"
              /\ run' = SnapshotDone(run, op, "taken")
              /\ phone' = [phone EXCEPT ![op.id].listed = phone[op.id].then = "sent"]
           \/ /\ op.k # "snapshot"
              /\ \E found \in Found(op) : run' = LookDone(run, op, found)
              /\ UNCHANGED phone
        /\ UNCHANGED <<mode, link, cmds, tookOf, elsewhere, slips, faults>>

\* Or something that is none: the snapshot is done without, a look is dropped.
Garbled ==
    \E op \in run.active :
        /\ op.k # "send" /\ Fault
        /\ RunDoes(IF op.k = "snapshot" THEN SnapshotDone(run, op, "none")
                   ELSE LookGarbled(run, op))

\* The session fails, stalls or answers the listing with an error.
SessionFails ==
    \E op \in run.active : Fault /\ RunDoes(Stop(run, op, "lost"))

\* The link to the phone: it drops, and comes back with this or another one.
LinkDrops ==
    /\ link /\ Fault
    /\ link' = FALSE /\ run' = LinkDown(run)
    /\ UNCHANGED <<mode, cmds, phone, tookOf, elsewhere, slips>>

LinkComes ==
    /\ mode = "up" /\ ~link /\ link' = TRUE
    /\ \/ UNCHANGED <<run, phone, faults>>
       \/ /\ Fault /\ run' = SwitchPhone(run)
          /\ phone' = [t \in Texts |-> [phone[t] EXCEPT !.now = "none", !.then = "none",
                                                        !.listed = FALSE]]
    /\ UNCHANGED <<mode, cmds, tookOf, elsewhere, slips>>

\* expire_waiting_texts.
Expires ==
    /\ mode = "up" /\ ~link /\ \E i \in DOMAIN run.ops : Overdue(run.ops[i])
    /\ RunDoes(Expire(run)) /\ UNCHANGED faults

\* Time passes for the ledger.
Time ==
    /\ \/ \E t \in Texts : run' = GrowOld(run, t)
       \/ \E i \in DOMAIN run.ops : run' = WaitOver(run, i)
       \/ run' = QuietOver(run)
    /\ run' # run
    /\ UNCHANGED <<mode, link, cmds, phone, tookOf, elsewhere, slips, faults>>

\* run_runtime_supervised: the dongle is unplugged and the run ends; until a
\* new one starts a text is answered failed (busy).
Reopens ==
    /\ mode = "up" /\ Fault
    /\ mode' = "reopening" /\ link' = FALSE /\ run' \in EndRun(run)
    /\ UNCHANGED <<cmds, phone, tookOf, elsewhere, slips>>

AnswersBusy ==
    /\ mode = "reopening" /\ cmds # << >>
    /\ cmds' = Tail(cmds) /\ run' = Say(run, Head(cmds).id, "failed")
    /\ UNCHANGED <<mode, link, phone, tookOf, elsewhere, slips, faults>>

Reopened ==
    /\ mode = "reopening" /\ mode' = "up"
    /\ UNCHANGED <<run, link, cmds, phone, tookOf, elsewhere, slips, faults>>

\* The thread returns or panics: its ledger reports what it holds, and the
\* texts still in its channel go with it.
GivesUp ==
    /\ mode = "up" /\ Fault
    /\ mode' = "over" /\ link' = FALSE /\ run' \in EndRun(run) /\ cmds' = << >>
    /\ slips' = slips \cup Slip({x.id : x \in Range(cmds)}, "dropped")
    /\ UNCHANGED <<phone, tookOf, elsewhere>>

--------------------------------------------------------------------------
Connector == (\E r \in Requests : Ask(r)) \/ Refused \/ LookOutcome \/ LookFlight
             \/ HandOver \/ Record \/ RecordFails
Radio == RadioForwards \/ RadioHears \/ Emit
Life == SweepWrites \/ RadioDies \/ Reap \/ RadioStarts \/ Crash \/ ShutDown \/ Restart
Runtime == RunTakesIn \/ RunStarts \/ RunPuts \/ PutAnswered \/ Listed \/ Garbled
           \/ SessionFails \/ LinkDrops \/ LinkComes \/ Expires \/ Time
           \/ Reopens \/ AnswersBusy \/ Reopened \/ GivesUp
Handset == PhoneAnswers \/ \E t \in Texts : PhoneFiles(t)

Next == Connector \/ Radio \/ Life \/ Runtime \/ Handset

Spec == Init /\ [][Next]_vars

--------------------------------------------------------------------------
(* Correctness                                                             *)

\* What the host is told of a text is what became of it: sent only when the
\* phone took a copy, failed for certain only when it took none of that
\* attempt (radio/event_handler.rs, sms_attempt_failed_key), but for a copy
\* that a look missed.
ToldTheTruth ==
    \A k \in outbox \cup live :
        /\ k.a = "sent" => phone[k.id].n > 0
        /\ k.a = "failed" => k.r \notin tookOf \/ Slipped(k.id, {"moved"})

\* Through lost acknowledgements, retries, reopened radios and restarts the
\* phone is not given a text twice (VerifySent, take_in, text_outcome), but
\* for the windows named here.
NotSentTwice ==
    \A t \in Texts :
        phone[t].n > 1 => Slipped(t, {"moved", "raced", "unrecorded", "swept", "unsealed"})

\* VerifySent (runtime.rs) says that a lost acknowledgement never sends a
\* customer the same text twice: a text asked for once is taken once.
SentOnce == \A t \in Texts : phone[t].n <= 1

\* The host takes one outcome a text: never both sent and in doubt
\* (fail_texts_left_open, text_outcome), but for the windows named here.
OneOutcome ==
    \A t \in Texts :
        Known(Key(t, "sent", NoRequest)) /\ Known(Key(t, "doubt", NoRequest))
           => Slipped(t, {"raced", "swept"})

Carried(t, r) ==
    \/ [id |-> t, r |-> r] \in Range(ctl) \cup Range(cmds)
    \/ \E o \in run.open : o.id = t
    \/ \E x \in Range(run.said) : x.id = t
    \/ \E k \in emitting : k.id = t

\* A text answered queued has its outcome, or somebody still owes it one: the
\* thread that carries it, or the sweep of a dead radio or process (the
\* ledger's and the sweep's promise), but for the windows named here.
OwedOrAnswered ==
    \A r \in Range(tries) : LET t == TextOf[r] IN
        \/ HasOutcome(t) \/ Known(Key(t, "failed", r))
        \/ Carried(t, r)
        \/ radio = "dead" \/ plugin = "down" \/ t \in sweeping
        \/ Slipped(t, {"dropped", "unkept", "unsealed", "swept"})

\* While a copy of an attempt may be at the phone unacknowledged, the ledger
\* holds it as out: no way out of the run can report it failed for certain
\* (note_put_out, requeue_or_report), but for a copy a look missed.
DoubtIsKept ==
    \A o \in run.open :
        o.r \in tookOf => o.out \/ Slipped(o.id, {"moved"})
=============================================================================
