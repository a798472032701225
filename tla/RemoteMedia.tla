---------------------------- MODULE RemoteMedia -----------------------------
(***************************************************************************)
(* The media authority of the plugin (remote_media.rs) and the threads     *)
(* around its mutex: the radio thread, which observes the physical call,   *)
(* asks once per tick what to do and acknowledges it once it has flushed   *)
(* the SCO queue (remote_transitions.rs); the media manager, which opens a *)
(* peer some time after the gateway session asked; the physical switch of  *)
(* the radio thread; Aokie, which decides first and acts later; and the    *)
(* gateway sessions, of which nothing is assumed here: they call any       *)
(* operation with any binding at any time.                                 *)
(*                                                                         *)
(* Every lock of the mutex is one step.  Captured epochs (action_epoch,    *)
(* aokie_switch_epoch) are compared for equality only, so a captured value *)
(* is the flag `fresh' that every bump of the epoch clears.                *)
(***************************************************************************)
EXTENDS RemoteMediaState

CONSTANTS
    LeaseKind,    \* what a lease is for: an element of Kinds for each lease
    MaxOwner,     \* bound: a soft hold is asked for only below a call's epoch
    Watched       \* bound: the leases whose turns the history remembers

ASSUME RemoteMediaBounds ==
    /\ LeaseKind \in [Leases -> Kinds] /\ MaxOwner \in [Calls -> Nat]
    /\ Watched \subseteq Leases

VARIABLES
    m,            \* RemoteMediaState, behind its mutex
    todo,         \* the transition the radio thread is carrying out
    opening,      \* the peer the manager is opening, at most one
    switching,    \* status.switch_in_flight
    decision,     \* the owner fence Aokie captured, at most one
    over,         \* history: the talk bindings that had the caller once
    misacted      \* history: Aokie acted on a decision older than a human's turn

vars == <<m, todo, opening, switching, decision, over, misacted>>

ModesOf(kind) ==
    CASE kind = "monitor" -> {"Monitor"}
      [] kind = "consult" -> {"PreparedConsult", "Consult"}
      [] kind = "takeover" -> {"PreparedTalk", "Talk"}

\* The bindings a session may name.
Namable ==
    UNION {UNION {[lease : {l}, mode : ModesOf(LeaseKind[l]), call : {c},
                   owner : 0..MaxOwner[c]] : c \in Calls} : l \in Leases}

Idle == [do |-> "none", b |-> {}]

Init ==
    /\ m = NewMedia
    /\ todo = Idle
    /\ opening = {}
    /\ switching = FALSE
    /\ decision = {}
    /\ over = {}
    /\ misacted = FALSE

--------------------------------------------------------------------------
(* What every step keeps up: a talk binding that leaves aroute is over.    *)

\* A step of the mutex.
Media(new) ==
    /\ m' = new
    /\ over' = over \cup {b \in m.aroute \ new.aroute : b.lease \in Watched}

\* Mutant: a decision stands across a reservation.
DecisionsStand == decision' = decision

\* fence_autonomous_aokie_actions.
FenceDecisions == decision' = {[d EXCEPT !.fresh = FALSE] : d \in decision}

NoteHuman == decision' = {[d EXCEPT !.human = TRUE] : d \in decision}

Quiet == UNCHANGED <<todo, opening, switching, decision, misacted>>

--------------------------------------------------------------------------
(* The radio thread                                                        *)

\* The tracker follows another call, or the call becomes (in)active.
CallChanges(c, a) ==
    /\ todo = Idle
    /\ c = NoCall => ~a
    /\ Media(ObserveCall(m, c, a))
    /\ Quiet

\* next_radio_transition: what has ended is undone, one thing is asked for.
Tick(stalled) ==
    /\ todo = Idle
    /\ LET t == NextTransition(m, stalled)
       IN Media(t.m) /\ todo' = [do |-> t.do, b |-> t.b]
    /\ UNCHANGED <<opening, switching, decision, misacted>>

\* The tracker has b's call as its active call, and SCO has a sample rate.
SameCall(b) == m.active /\ m.call = b.call

ToRevoke(b) == [do |-> "Revoke", b |-> {b}]

PrepareCaller(sco) ==
    /\ todo.do = "Prepare"
    /\ \E b \in todo.b :
          IF sco /\ SameCall(b) /\ MayAckPrepare(m, b)
          THEN Media(AckPrepare(m, b)) /\ todo' = Idle
          ELSE Media(m) /\ todo' = ToRevoke(b)
    /\ UNCHANGED <<opening, switching, decision, misacted>>

\* The TX queue is flushed, then the route opens; the peer's own gate may
\* refuse the permit after that.
EnterHuman(sco, peerTakesIt) ==
    /\ todo.do = "EnterHuman"
    /\ \E b \in todo.b :
          IF sco /\ SameCall(b) /\ MayAckEnter(m, b)
          THEN /\ Media(AckEnter(m, b)) /\ NoteHuman
               /\ todo' = IF peerTakesIt THEN Idle ELSE ToRevoke(b)
          ELSE /\ Media(IF sco /\ SameCall(b) THEN AckEnterFails(m, b) ELSE m)
               /\ todo' = ToRevoke(b) /\ UNCHANGED decision
    /\ UNCHANGED <<opening, switching, misacted>>

\* The assistance request may have moved on when the consult is active.
EnterConsult(sco, stillAsked) ==
    /\ todo.do = "EnterConsult"
    /\ \E b \in todo.b :
          IF sco /\ SameCall(b) /\ MayAckEnterConsult(m, b)
          THEN /\ Media(AckEnterConsult(m, b)) /\ NoteHuman
               /\ todo' = IF stillAsked THEN Idle ELSE ToRevoke(b)
          ELSE /\ Media(IF sco /\ SameCall(b) THEN AckEnterConsultFails(m, b) ELSE m)
               /\ todo' = ToRevoke(b) /\ UNCHANGED decision
    /\ UNCHANGED <<opening, switching, misacted>>

RadioRevokes ==
    /\ todo.do = "Revoke"
    /\ \E b \in todo.b : Media(IF MayRevoke(m, b) THEN Revoke(m, b) ELSE m)
    /\ todo' = Idle
    /\ UNCHANGED <<opening, switching, decision, misacted>>

ReturnToAokie ==
    /\ todo.do = "ReturnToAokie"
    /\ Media(IF MayAckReturn(m) THEN AckReturn(m) ELSE m)
    /\ todo' = Idle
    /\ UNCHANGED <<opening, switching, decision, misacted>>

--------------------------------------------------------------------------
(* The physical switch (CHLD), under the switch fence                      *)

Switch ==
    /\ todo = Idle
    /\ MaySwitch(m)
    /\ switching' = TRUE
    /\ opening' = {[o EXCEPT !.fresh = FALSE] : o \in opening}
    /\ FenceDecisions
    /\ UNCHANGED <<m, todo, over, misacted>>

\* The phone has confirmed, or the marker is too old.
SwitchSettles ==
    /\ todo = Idle
    /\ switching
    /\ switching' = FALSE
    /\ UNCHANGED <<m, todo, opening, decision, over, misacted>>

--------------------------------------------------------------------------
(* The gateway sessions and the media manager                              *)

\* open_offer reads the switch epoch, and only then the marker.
OpenBegins(b) ==
    /\ opening = {}
    /\ m.call = b.call /\ m.owner[b.call] = b.owner
    /\ opening' = {[b |-> b, fresh |-> TRUE, asked |-> FALSE]}
    /\ UNCHANGED <<m, todo, switching, decision, over, misacted>>

OpenAdmitted ==
    /\ \E o \in opening : ~o.asked
    /\ opening' = IF switching THEN {} ELSE {[o EXCEPT !.asked = TRUE] : o \in opening}
    /\ UNCHANGED <<m, todo, switching, decision, over, misacted>>

\* Mutant: the switch epoch is not compared again at the commit.
OpenCommitsAnyway ==
    /\ \E o \in opening :
          /\ o.asked
          /\ IF MayOpen(m, o.b) THEN Media(InsertPeer(m, o.b)) ELSE Media(m)
    /\ opening' = {}
    /\ UNCHANGED <<todo, switching, decision, misacted>>

\* The answer is ready: the peer is inserted if everything still allows it.
OpenCommits ==
    /\ \E o \in opening :
          /\ o.asked
          /\ IF (o.fresh \/ o.b.mode = "Monitor") /\ MayOpen(m, o.b)
             THEN Media(InsertPeer(m, o.b)) ELSE Media(m)
    /\ opening' = {}
    /\ UNCHANGED <<todo, switching, decision, misacted>>

\* The ticket is abandoned at OPEN_TIMEOUT.
OpenTimesOut ==
    /\ opening # {}
    /\ opening' = {}
    /\ UNCHANGED <<m, todo, switching, decision, over, misacted>>

SoftHold(b) ==
    /\ MayRequestSoftHold(m, b)
    /\ m.owner[b.call] + 2 <= MaxOwner[b.call]
    /\ Media(RequestSoftHold(m, b))
    /\ Quiet

Consult(b) ==
    /\ MayRequestConsult(m, b)
    /\ Media(RequestConsult(m, b)) /\ FenceDecisions
    /\ UNCHANGED <<todo, opening, switching, misacted>>

Takeover(b) ==
    /\ MayRequestTakeover(m, b)
    /\ Media(RequestTakeover(m, b)) /\ FenceDecisions
    /\ UNCHANGED <<todo, opening, switching, misacted>>

RenewLease(b) == MayRenew(m, b) /\ Media(Renew(m, b)) /\ Quiet

RevokeLease(b) == MayRevoke(m, b) /\ Media(Revoke(m, b)) /\ Quiet

Close(l, keep) == PeersOf(m, l) # {} /\ Media(ClosePeer(m, l, keep)) /\ Quiet

FailClosed == Media(FailClosedAll(m)) /\ Quiet

Mute(b, on) == ActiveOwner(m, b) /\ Media(SetMuted(m, b, on)) /\ Quiet

\* The settings change, or the disclosure runs out by the clock: then the
\* gate refuses at once and the radio tick revokes what it no longer allows.
Consent(kinds) == Media(SetRemoteConsent(m, kinds)) /\ Quiet

ConsentRunsOut == Media([m EXCEPT !.consent = {}]) /\ Quiet

\* A talk frame finds its permit run out.
LateFrame ==
    /\ \E b \in m.aroute :
          (\E p \in m.peers : p.b = b /\ p.late) /\ Media(TalkLapses(m, b))
    /\ Quiet

--------------------------------------------------------------------------
(* Time, and Aokie's decisions                                             *)

TimePasses ==
    /\ \/ \E l \in Leases : Media(LeaseLapses(m, l))
       \/ Media(ClaimLapses(m))
       \/ Media(TransferLapses(m))
       \/ (\E c \in m.claim : c.deadline = "armed") /\ Media(DeadlineLapses(m))
    /\ Quiet

\* aokie_owner_fence, taken before a reply, a tool or an ending is prepared.
Decide ==
    /\ AokieOwns(m)
    /\ decision' = {[call |-> m.call, fresh |-> TRUE, human |-> FALSE]}
    /\ UNCHANGED <<m, todo, opening, switching, over, misacted>>

\* with_aokie_owner, linearize_aokie_action: acts if the fence still stands.
Act ==
    /\ \E d \in decision :
          misacted' = (misacted \/ (d.fresh /\ AokieOwns(m) /\ d.call = m.call /\ d.human))
    /\ decision' = {}
    /\ UNCHANGED <<m, todo, opening, switching, over>>

--------------------------------------------------------------------------

Radio ==
    \/ \E c \in Calls \cup {NoCall}, a \in BOOLEAN : CallChanges(c, a)
    \/ \E stalled \in BOOLEAN : Tick(stalled)
    \/ \E sco \in BOOLEAN : PrepareCaller(sco)
    \/ \E sco, takes \in BOOLEAN : EnterHuman(sco, takes)
    \/ \E sco, asked \in BOOLEAN : EnterConsult(sco, asked)
    \/ RadioRevokes
    \/ ReturnToAokie
    \/ Switch
    \/ SwitchSettles

Session ==
    \/ \E b \in Namable :
          \/ OpenBegins(b) \/ SoftHold(b) \/ Consult(b) \/ Takeover(b)
          \/ RenewLease(b) \/ RevokeLease(b)
          \/ \E on \in BOOLEAN : Mute(b, on)
    \/ OpenAdmitted \/ OpenCommits \/ OpenTimesOut
    \/ \E l \in Leases, keep \in BOOLEAN : Close(l, keep)
    \/ FailClosed
    \/ \E kinds \in SUBSET {LeaseKind[l] : l \in Leases} : Consent(kinds)
    \/ ConsentRunsOut
    \/ LateFrame

Next == Radio \/ Session \/ TimePasses \/ Decide \/ Act

Spec == Init /\ [][Next]_vars

--------------------------------------------------------------------------
(* Properties                                                              *)

\* The fields that are filled, each with the binding it holds.
Filled(s) ==
    {[f |-> "prepare", b |-> p.b] : p \in s.prep}
        \cup {[f |-> "claim", b |-> c.b] : c \in s.claim}
        \cup {[f |-> "consult asked", b |-> p.b] : p \in s.pcons}
        \cup {[f |-> "consult", b |-> b] : b \in s.acons}
        \cup {[f |-> "talk asked", b |-> p.b] : p \in s.proute}
        \cup {[f |-> "talk", b |-> b] : b \in s.aroute}

TypeOK ==
    /\ m \in MediaStates
    /\ todo \in [do : {"none", "Prepare", "EnterHuman", "EnterConsult", "Revoke",
                       "ReturnToAokie"}, b : SUBSET Bindings]
    /\ opening \subseteq [b : Bindings, fresh : BOOLEAN, asked : BOOLEAN]
    /\ switching \in BOOLEAN
    /\ decision \subseteq [call : Calls, fresh : BOOLEAN, human : BOOLEAN]
    /\ over \subseteq Bindings
    /\ misacted \in BOOLEAN

\* At most one of pending_prepare, prepared_claim, pending_consult,
\* active_consult, pending_route and active_route is filled, and every peer
\* but a monitor's is of the lease that fills it: no order of opens, holds,
\* requests, acknowledgements, closes and expiries ever lets two Companions
\* be on their way to the same caller.
OneClaimant ==
    /\ \A s, t \in Filled(m) : s = t
    /\ \A k, l \in {s.b.lease : s \in Filled(m)}
                    \cup {p.b.lease : p \in {q \in m.peers : q.b.mode # "Monitor"}} : k = l

\* While a Companion has the caller, or Aokie's audio is already being
\* flushed for one, Aokie is never told that it owns the caller, so none of
\* its actions passes its fence.
NeverBoth == HeldRoute(m) # {} \/ m.pcons # {} => ~AokieOwns(m)

\* The radio is never reserved for nobody: as long as Aokie may not speak
\* there is a route, a pending route or a return left that will end it.
ReservedForSomeone ==
    RadioReserved(m) => HeldRoute(m) # {} \/ m.pcons # {} \/ m.ret # {}

\* A talk binding that had the caller and lost it never has the caller
\* again, so a frame delayed from an ended turn is never let through.
NoSecondTurn == m.aroute \cap over = {}

\* A route that is open is backed by its own open peer, of the current call
\* and the current owner epoch, until the step that takes it away.
RouteIsBacked ==
    \A b \in HeldRoute(m) \cup {p.b : p \in m.pcons} :
        /\ m.call = b.call /\ m.owner[b.call] = b.owner
        /\ \E p \in m.peers : p.b = b

\* While the two physical calls are being exchanged no Companion is on its
\* way to the caller and none can get there: a peer whose opening was under
\* way is refused when its answer is ready.
SwitchIsAlone ==
    switching => SlotsEmpty(m) /\ \A p \in m.peers : p.b.mode = "Monitor"

\* Aokie never acts on a decision it took before a Companion had the caller.
ActsOnOwnTurn == ~misacted

\* A return is never marked as dispatched while the radio is not carrying it
\* out: next_transition would never ask for it again, and the caller would
\* be reserved for nobody until the process ends.
ReturnIsUnderWay == m.sent => todo.do = "ReturnToAokie"
=============================================================================
