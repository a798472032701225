----------------------------- MODULE HandsFree ------------------------------
(***************************************************************************)
(* The hands-free state machine of Hfp.tla against a phone: its results    *)
(* arrive in order over RFCOMM (wire), the commands go out the same way    *)
(* (at) and are answered in order, one OK or ERROR for each.  What a phone *)
(* may do: send the indicators of one change in any order, leave one out,  *)
(* refuse a command, answer it after the ten seconds the code waits.       *)
(*                                                                         *)
(* The consumer is the radio thread of the plugin, reduced to the call it  *)
(* believes in (view); its sessions are in Switchboard.                    *)
(*                                                                         *)
(* Not modelled: codec selection, the service-level handshake before the   *)
(* first AT+CIND? answer (its outcome is hf.negotiated), parsing.          *)
(***************************************************************************)
EXTENDS Hfp, FiniteSets, SequencesExt

CONSTANTS
    MAX,          \* OutstandingCommands::MAX
    HeldFirst,    \* the phone shows callheld,0 before a call,0 of the same change
    Scenarios     \* bounds, each a record of how often at most:
                  \*   changes     the phone's calls change
                  \*   omissions   it leaves an indicator update out
                  \*   commands    the consumer answers or hangs up
                  \*   dials       the consumer dials
                  \*   timeouts    a command is answered too late
                  \*   reconnects  the link is lost
                  \* and wire, the results in flight before the phone's calls
                  \* change again, and callers, the parties on the line at once

P == INSTANCE Phone

ASSUME HandsFreeConstants ==
    /\ MAX \in Nat \ {0} /\ HeldFirst \in BOOLEAN
    /\ Scenarios \subseteq
          [{"changes", "omissions", "commands", "dials", "timeouts",
            "reconnects", "wire", "callers"} -> Nat]

VARIABLES
    line,         \* the phone's calls
    linked,       \* the phone is connected
    wire,         \* the phone's results not yet received
    at,           \* commands the phone has not yet taken
    hf,           \* the hands-free state
    outstanding,  \* commands sent and not answered, oldest first
    audio,        \* the audio channel is open
    view,         \* the call the consumer believes in
    ends,         \* calls that ended on the phone, that we refused, told ended
    hangup,       \* the call our last AT+CHUP was sent on, while it lasts
    blame,        \* the command the last ERROR was put down to, and its own
    used          \* the scenario's bounds (of), and how much of each is used up

vars == <<line, linked, wire, at, hf, outstanding, audio, view, ends, hangup,
          blame, used>>

Views == {"idle", "ringing", "dialing", "active"}

\* One more use of a bound.
Use(b) == /\ used[b] < used.of[b]
          /\ used' = [used EXCEPT ![b] = @ + 1]

\* Results of the phone.
Update(name, value) == [result |-> "+CIEV", of |-> name, value |-> value]
Status(l) == [result |-> "+CIND", of |-> "AT+CIND?", value |-> P!Indicator(l)]
Named(result, c) == [result |-> result, of |-> "", value |-> c]
Final(result, command) == [result |-> result, of |-> command, value |-> 0]

Init ==
    /\ line = P!IdleLine /\ linked = TRUE /\ wire = <<>> /\ at = <<>>
    /\ hf \in {[NewHfState(n) EXCEPT !.ready = TRUE] : n \in BOOLEAN}
    /\ outstanding = <<>> /\ audio = FALSE /\ view = "idle"
    /\ ends = [phone |-> 0, refused |-> 0, told |-> 0] /\ hangup = "none"
    /\ blame = [named |-> "", refused |-> ""]
    /\ \E s \in Scenarios :
         used = [of |-> s, changes |-> 0, omissions |-> 0, commands |-> 0,
                 dials |-> 0, timeouts |-> 0, reconnects |-> 0]

------------------------------------------------------------------------------
(* The consumer and the commands. *)

\* handle_event, reduced to the call it leaves the consumer with.
Consume(v, e) ==
    CASE e.name = "IncomingCall" /\ v = "idle" -> "ringing"
      [] e.name = "OutgoingDialing" /\ v = "idle" -> "dialing"
      [] e.name \in {"CallAnswered", "CallActiveAtConnect"} -> "active"
      [] e.name = "CallTerminated" -> "idle"
      [] e.name = "CommandRejected" /\ e.value = "ATD" /\ v = "dialing" -> "idle"
      [] OTHER -> v

\* The consumer takes the events; an end it did not know of is counted, and a
\* call that ended or began is not the one a hang-up was sent on.
Tell(events) ==
    LET views == FoldLeft(LAMBDA vs, e : Append(vs, Consume(Last(vs), e)),
                          <<view>>, events)
        over == {i \in DOMAIN events : views[i] # "idle" /\ views[i + 1] = "idle"}
    IN /\ view' = Last(views)
       /\ ends' = [ends EXCEPT !.told = @ + Cardinality(over)]
       /\ hangup' = IF over = {} /\ view' = view THEN hangup ELSE "none"

\* The command hfp_call_control_packets_for_event sends for an event.
CommandFor(e) ==
    CASE e.name \in {"CallAnswered", "CallWaiting"} -> <<"AT+CLCC">>
      [] e.name = "CallStateCheck" -> <<"AT+CIND?">>
      [] OTHER -> <<>>

\* Mutant of Sent: nothing bounds the queue.
Sent_unbounded(q, command) == Append(q, command)

\* OutstandingCommands::sent: the oldest gives way when the queue is full.
Sent(q, command) ==
    Append(IF Len(q) >= MAX THEN Tail(q) ELSE q, command)

\* Events reach the consumer; the commands they ask for go out after those in
\* first (a command sent again, or one of the consumer's own).
Deliver(h, waiting, events, first) ==
    LET out == FoldLeft(LAMBDA q, e : q \o CommandFor(e), first, events)
    IN /\ hf' = FoldLeft(mark_command_sent, h, out)
       /\ Tell(events)
       /\ at' = at \o out
       /\ outstanding' = FoldLeft(Sent, waiting, out)

\* The consumer answers a ring, refuses or ends a call, and dials on an idle
\* line; a dial is a call of its own at once.
Send(command) ==
    /\ linked /\ hf.ready
    /\ view \in CASE command = "ATA" -> {"ringing"}
                  [] command = "AT+CHUP" -> Views \ {"idle"}
                  [] command = "ATD" -> {"idle"}
    /\ Use(IF command = "ATD" THEN "dials" ELSE "commands")
    /\ hf' = mark_command_sent(hf, command)
    /\ at' = Append(at, command)
    /\ outstanding' = Sent(outstanding, command)
    /\ view' = IF command = "ATD" THEN "dialing" ELSE view
    /\ hangup' = CASE command = "AT+CHUP" /\ hf.call_active -> "live"
                   [] command = "AT+CHUP" /\ ~hf.call_active -> "setup"
                   [] OTHER -> hangup
    /\ ends' = [ends EXCEPT !.refused = @ + IF hangup' = "setup" THEN 1 ELSE 0]
    /\ UNCHANGED <<line, linked, wire, audio, blame>>

\* The keepalive: AT+CIND? on a quiet link.
Keepalive ==
    /\ linked /\ hf.ready /\ wire = <<>> /\ at = <<>> /\ outstanding = <<>>
    /\ Deliver(hf, outstanding, <<>>, <<"AT+CIND?">>)
    /\ UNCHANGED <<line, linked, wire, audio, blame, used>>

\* tick_hfp_stall: the oldest command had no answer for ten seconds.
CommandTimesOut ==
    /\ linked /\ hf.ready /\ outstanding # <<>> /\ at # <<>>
    /\ Use("timeouts")
    /\ Deliver(hf, Tail(outstanding),
               <<EventOf("CommandRejected", Head(outstanding))>>, <<>>)
    /\ UNCHANGED <<line, linked, wire, audio, blame>>

------------------------------------------------------------------------------
(* The phone. *)

\* The updates of a change, in the orders they may come.
Orders(m) ==
    {[i \in DOMAIN s |-> Update(s[i], P!Indicator(m)[s[i]])] :
        s \in {t \in SetToSeqs(P!Changed(line, m)) :
                  HeldFirst => \A i, j \in DOMAIN t :
                      t[i] = "callheld" /\ t[j] = "call" => i < j}}

\* A phone may leave out an edge of the call indicator, and the callsetup,0
\* that ends a knock.
MayOmit(update) ==
    \/ update.of = "call"
    \/ update.of = "callsetup" /\ update.value = 0 /\ P!CallIsUp(line)

\* What the consumer should believe of a line, and the change of line that
\* ends the call or ring it believes in.
ViewOf(l) == CASE P!CallIsUp(l) -> "active"
               [] ~P!CallIsUp(l) /\ l.dir = "in" -> "ringing"
               [] ~P!CallIsUp(l) /\ l.dir \in {"dial", "alert"} -> "dialing"
               [] OTHER -> "idle"

Over(l, m) ==
    IF ViewOf(l) = "active" THEN ViewOf(m) # "active"
    ELSE ViewOf(l) # "idle" /\ ViewOf(m) = "idle"

\* The line becomes m; the updates come after head and before tail.
Becomes(m, head, tail, change) ==
    /\ used.changes + change <= used.of.changes
    /\ line' = m
    /\ ends' = [ends EXCEPT !.phone = @ + IF linked /\ Over(line, m) THEN 1 ELSE 0]
    /\ \E s \in Orders(m) :
         \/ /\ wire' = IF linked THEN wire \o head \o s \o tail ELSE wire
            /\ used' = [used EXCEPT !.changes = @ + change]
         \/ \E i \in DOMAIN s :
              /\ linked /\ MayOmit(s[i]) /\ used.omissions < used.of.omissions
              /\ wire' = wire \o head \o RemoveAt(s, i) \o tail
              /\ used' = [used EXCEPT !.changes = @ + change,
                                      !.omissions = @ + 1]

Announced(c) ==
    IF P!CallIsUp(line)
    THEN IF hf.negotiated THEN <<Named("+CCWA", c)>> ELSE <<Named("RING", c)>>
    ELSE <<Named("RING", c), Named("+CLIP", c)>>

\* A caller rings, or knocks on a call; what names them comes before or after
\* the indicator, or not at all.
Arrives(c) ==
    /\ line.dir = "none" /\ c \notin P!OnLine(line)
    /\ Cardinality(P!OnLine(line)) < used.of.callers
    /\ LET m == P!SetUp(line, c, "in")
       IN \/ Becomes(m, <<>>, Announced(c), 1)
          \/ P!CallIsUp(line) /\ Becomes(m, Announced(c), <<>>, 1)
          \/ P!CallIsUp(line) /\ Becomes(m, <<>>, <<>>, 1)

\* The owner dials on the handset.
HandsetDials(c) ==
    /\ line = P!IdleLine
    /\ Becomes(P!SetUp(line, c, "dial"), <<>>, <<>>, 1)

\* What callers, the called and the owner at the handset do.
Parties ==
    \/ line.dir # "none" /\ Becomes(P!Answered(line), <<>>, <<>>, 1)
    \/ line.dir = "dial" /\ Becomes([line EXCEPT !.dir = "alert"], <<>>, <<>>, 1)
    \/ line.active # NoCaller
       /\ Becomes([line EXCEPT !.active = NoCaller], <<>>, <<>>, 1)
    \/ line.held # NoCaller
       /\ Becomes([line EXCEPT !.held = NoCaller], <<>>, <<>>, 1)
    \/ P!CallIsUp(line) /\ line.dir = "none"
       /\ Becomes(P!HoldAndAccept(line), <<>>, <<>>, 1)

\* Nobody rings, or lets it ring, for ever.
GivesUp ==
    /\ line.dir # "none" /\ Len(wire) <= used.of.wire /\ (linked => hf.ready)
    /\ Becomes(P!SetupOver(line), <<>>, <<>>, 0)
    /\ UNCHANGED <<linked, at, hf, outstanding, audio, view, hangup, blame>>

PhoneChanges ==
    /\ Len(wire) <= used.of.wire
    /\ (linked => hf.ready)
    /\ (\E c \in Callers : Arrives(c) \/ HandsetDials(c)) \/ Parties
    /\ UNCHANGED <<linked, at, hf, outstanding, audio, view, hangup, blame>>

\* RING, or +CCWA, while the setup lasts.
RingsAgain ==
    /\ linked /\ hf.ready /\ line.dir = "in" /\ wire = <<>>
    /\ wire' = Announced(line.setup)
    /\ UNCHANGED <<line, linked, at, hf, outstanding, audio, view, ends, hangup,
                   blame, used>>

\* The line after a command the phone carries out.
Obeyed(command) ==
    CASE command = "ATA" /\ line.dir = "in" -> {P!Answered(line)}
      [] command = "AT+CHUP" /\ line # P!IdleLine -> {P!HungUp(line)}
      [] command = "ATD" /\ line = P!IdleLine ->
            {P!SetUp(line, c, "dial") : c \in Callers}
      [] OTHER -> {}

Told(command) ==
    CASE command = "AT+CIND?" -> <<Status(line)>>
      [] command = "AT+CLCC" /\ line.active # NoCaller ->
            <<Named("+CLCC", line.active)>>
      [] OTHER -> <<>>

\* The phone takes the oldest command: it tells, obeys or refuses.
PhoneTakes ==
    /\ linked /\ at # <<>>
    /\ at' = Tail(at)
    /\ LET command == Head(at)
           ok == <<Final("OK", command)>>
       IN \/ /\ command \in {"AT+CIND?", "AT+CLCC"}
             /\ wire' = wire \o Told(command) \o ok
             /\ UNCHANGED <<line, ends, used>>
          \/ \E m \in Obeyed(command) :
                Becomes(m, ok, <<>>, 0) \/ Becomes(m, <<>>, ok, 0)
          \/ /\ command \notin {"AT+CIND?", "AT+CLCC"}
             /\ wire' = Append(wire, Final("ERROR", command))
             /\ UNCHANGED <<line, ends, used>>
    /\ UNCHANGED <<linked, hf, outstanding, audio, view, hangup, blame>>

------------------------------------------------------------------------------
(* The hands-free side receives. *)

\* apply_result_to_state for the results that say something of a call.
Applied(r) ==
    CASE r.result = "+CIEV" -> apply_indicator(hf, r.of, r.value)
      [] r.result = "+CIND" ->
            apply_indicator_status(hf, r.value.call, r.value.callsetup,
                                   r.value.callheld)
      [] r.result = "RING" -> Ring(hf)
      [] r.result = "+CLIP" -> Clip(hf, r.value)
      [] r.result = "+CCWA" -> CallWaitingNotification(hf, r.value)
      [] r.result = "+CLCC" -> Out(hf, <<EventOf("CallerId", r.value)>>)

Receive ==
    /\ linked /\ wire # <<>>
    /\ wire' = Tail(wire)
    /\ Head(wire).result \notin {"OK", "ERROR", "READY"}
    /\ LET o == Counted(hf, Applied(Head(wire)))
       IN Deliver(o.hf, outstanding, o.events, <<>>)
    /\ UNCHANGED <<line, linked, audio, blame, used>>

\* Mutant of ReceiveOk: an OK answers nothing.
ReceiveOk_ignored ==
    /\ linked /\ wire # <<>> /\ Head(wire).result = "OK"
    /\ wire' = Tail(wire)
    /\ UNCHANGED <<line, linked, at, hf, outstanding, audio, view, ends, hangup,
                   blame, used>>

\* An OK is the oldest command's.
ReceiveOk ==
    /\ linked /\ wire # <<>> /\ Head(wire).result = "OK"
    /\ wire' = Tail(wire)
    /\ outstanding' = IF outstanding = <<>> THEN <<>> ELSE Tail(outstanding)
    /\ UNCHANGED <<line, linked, at, hf, audio, view, ends, hangup, blame, used>>

\* So is an ERROR: the command is sent once more, or its refusal reported.
ReceiveError ==
    /\ linked /\ wire # <<>> /\ Head(wire).result = "ERROR"
    /\ wire' = Tail(wire)
    /\ LET known == outstanding # <<>>
           command == IF known THEN Head(outstanding) ELSE "unsolicited"
           rest == IF known THEN Tail(outstanding) ELSE <<>>
           again == MayResend(hf, command)
       IN /\ Deliver(after_refusal(hf, command), rest,
                     IF again THEN <<>>
                     ELSE <<EventOf("CommandRejected", command)>>,
                     IF again THEN <<command>> ELSE <<>>)
          /\ blame' = [named |-> command, refused |-> Head(wire).of]
    /\ UNCHANGED <<line, linked, audio, used>>

\* mark_service_level_ready.
ReceiveReady ==
    /\ linked /\ wire # <<>> /\ Head(wire).result = "READY"
    /\ wire' = Tail(wire)
    /\ hf' = [hf EXCEPT !.ready = TRUE]
    /\ UNCHANGED <<line, linked, at, outstanding, audio, view, ends, hangup, blame,
                   used>>

\* The audio channel opens with a call, and closes when the phone likes; only
\* without a call in progress does that end the call.
AudioOpens ==
    /\ linked /\ hf.ready /\ ~audio /\ line.active # NoCaller
    /\ audio' = TRUE
    /\ UNCHANGED <<line, linked, wire, at, hf, outstanding, view, ends, hangup,
                   blame, used>>

AudioCloses ==
    /\ audio /\ audio' = FALSE
    /\ Tell(IF call_in_progress(hf) THEN <<>> ELSE <<Event("CallTerminated")>>)
    /\ UNCHANGED <<line, linked, wire, at, hf, outstanding, blame, used>>

\* The link goes, and all in flight with it; the consumer ends its call.
LinkLost ==
    /\ linked /\ linked' = FALSE
    /\ Use("reconnects")
    /\ wire' = <<>> /\ at' = <<>> /\ outstanding' = <<>> /\ audio' = FALSE
    /\ hf' = NewHfState(FALSE) /\ view' = "idle" /\ hangup' = "none"
    /\ ends' = [phone |-> 0, refused |-> 0, told |-> 0]
    /\ UNCHANGED <<line, blame>>

\* It comes back: the setup reads the indicators, then is ready.
LinkUp ==
    /\ ~linked /\ linked' = TRUE
    /\ hf' \in {NewHfState(n) : n \in BOOLEAN}
    /\ wire' = <<Status(line), Final("READY", "")>>
    /\ UNCHANGED <<line, at, outstanding, audio, view, ends, hangup, blame, used>>

Next ==
    \/ \E command \in {"ATA", "AT+CHUP", "ATD"} : Send(command)
    \/ Keepalive \/ CommandTimesOut
    \/ PhoneChanges \/ GivesUp \/ RingsAgain \/ PhoneTakes
    \/ Receive \/ ReceiveOk \/ ReceiveError \/ ReceiveReady
    \/ AudioOpens \/ AudioCloses \/ LinkLost \/ LinkUp

Spec == Init /\ [][Next]_vars

\* Both sides go on reading, a quiet link is polled (not between two RINGs),
\* and no ring lasts for ever.
FairSpec ==
    /\ Spec
    /\ WF_vars(PhoneTakes) /\ WF_vars(Keepalive) /\ WF_vars(LinkUp)
    /\ SF_vars(GivesUp)
    /\ WF_vars(Receive \/ ReceiveOk \/ ReceiveError \/ ReceiveReady)

------------------------------------------------------------------------------
(* Properties. *)

TypeOK ==
    /\ line \in P!Line /\ linked \in BOOLEAN /\ hf \in HfState
    /\ audio \in BOOLEAN /\ view \in Views
    /\ Len(outstanding) <= MAX
    /\ used.of \in Scenarios
    /\ \A b \in DOMAIN used \ {"of"} : used[b] \in 0 .. used.of[b]

Quiet == linked /\ hf.ready /\ wire = <<>> /\ at = <<>>

\* With nothing in flight and no verdict held, the consumer believes in the
\* call the phone has, whatever the order of the indicators; or else the ring
\* is known as a knock and its next RING will tell.
AgreesWhenQuiet ==
    Quiet /\ ~hf.terminate_pending
    /\ used.omissions + used.dials + used.reconnects = 0
        => \/ view = ViewOf(line)
           \/ view = "idle" /\ ViewOf(line) = "ringing" /\ hf.call_waiting

\* With nothing in flight and nobody on the line, the consumer has no ring: a
\* setup that ended was told as ended.
RingsEnd ==
    Quiet /\ ~hf.terminate_pending /\ line = P!IdleLine
    /\ used.omissions + used.dials + used.reconnects = 0
        => view # "ringing"

\* An ERROR is put down to the command the phone refused.
RefusalNamesItsCommand == blame.named = blame.refused

\* So it is as long as no command was given up as unanswered (and no more than
\* MAX were unanswered at once).
RefusalNamedInTime == used.timeouts = 0 => RefusalNamesItsCommand

\* No call or ring is told ended that the phone still has, unless we refused
\* it ourselves: an edge that may mean its answer, a knock, an audio channel
\* that closes do not end it.  (A dial that is refused or not answered is told
\* ended without having begun on the phone, and a lost update hides one call
\* behind the next, so only runs without either count.)
EndsAreReal == used.dials + used.omissions = 0 => ends.told <= ends.phone + ends.refused

\* A refused AT+CHUP goes out again only on the live call it was sent on, not
\* on one the owner answered or that came after it.
HangupRepeatedOnItsCall ==
    [][hf'.hangup_retried /\ ~hf.hangup_retried => hangup = "live"]_vars

\* A verdict held over is given.
VerdictsAreGiven == hf.terminate_pending ~> ~hf.terminate_pending

\* A call that ended on the phone ends for the consumer, its call,0 lost or
\* not.
EndsAreTold ==
    (linked /\ view = "active" /\ ~P!CallIsUp(line))
        ~> (view # "active" \/ P!CallIsUp(line))
=============================================================================
