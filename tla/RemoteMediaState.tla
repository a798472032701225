-------------------------- MODULE RemoteMediaState --------------------------
(***************************************************************************)
(* Who has the caller's audio: the state behind the mutex of               *)
(* remote_media.rs, and the methods of RemoteMediaState as operators from  *)
(* a state to the state they leave.  A method that can refuse has its      *)
(* condition as an operator of its own (May...); the operator is then used *)
(* only where the condition holds.                                         *)
(*                                                                         *)
(* A Companion phone holds a lease; a lease opens one peer at a time under *)
(* one rtc session, so `lease' stands for device, lease id, rtc session    *)
(* and fence together.  An optional field is a set of at most one element. *)
(* Instants are kept as the flag `late': the time a field allows is over.  *)
(* A call keeps its record, so a call stands for its call epoch as well.   *)
(***************************************************************************)
EXTENDS Naturals, FiniteSets

CONSTANTS
    Leases,       \* the leases of the Companions
    Calls,        \* the physical calls
    NoCall,       \* the radio follows no call
    MaxPeers      \* MAX_REMOTE_PEERS

ASSUME RemoteMediaConstants == NoCall \notin Calls /\ MaxPeers \in Nat

Kinds == {"monitor", "consult", "takeover"}
Modes == {"Monitor", "PreparedConsult", "PreparedTalk", "Consult", "Talk"}
ServiceModes == {"AokieActive", "ConsultPending", "ConsultActive", "HumanPending",
                 "HumanActive", "ReturningToAokie", "Recovering"}

\* The immutable binding of a peer (SessionBinding).
Bindings == [lease : Leases, mode : Modes, call : Calls, owner : Nat]

KindOf(mode) ==
    CASE mode = "Monitor" -> "monitor"
      [] mode \in {"PreparedConsult", "Consult"} -> "consult"
      [] mode \in {"PreparedTalk", "Talk"} -> "takeover"

Bigger(a, b) == IF a > b THEN a ELSE b

\* The elements of the optional fields.
Peers == [b : Bindings, late : BOOLEAN]
Pendings == [b : Bindings, sent : BOOLEAN, late : BOOLEAN]
Claims == [b : Bindings, confirmed : Nat, late : BOOLEAN,
           deadline : {"none", "armed", "late"}, media : SUBSET Bindings]

Only(S) == CHOOSE x \in S : TRUE

NewMedia == [
    call    |-> NoCall,           \* current_call_id
    active  |-> FALSE,            \* current_call_active
    owner   |-> [c \in Calls |-> 0],   \* calls[c].owner_epoch
    service |-> "AokieActive",    \* service_mode
    peers   |-> {},               \* peers
    prep    |-> {},               \* pending_prepare
    claim   |-> {},               \* prepared_claim
    pcons   |-> {},               \* pending_consult
    acons   |-> {},               \* active_consult
    proute  |-> {},               \* pending_route
    aroute  |-> {},               \* active_route
    ret     |-> {},               \* return_binding
    sent    |-> FALSE,            \* return_dispatched
    muted   |-> {},               \* microphone_mute_binding
    consent |-> {}]               \* the modes the disclosure gate allows now

MediaStates == [
    call : Calls \cup {NoCall}, active : BOOLEAN, owner : [Calls -> Nat],
    service : ServiceModes, peers : SUBSET Peers, prep : SUBSET Pendings,
    claim : SUBSET Claims, pcons : SUBSET Pendings, acons : SUBSET Bindings,
    proute : SUBSET Pendings, aroute : SUBSET Bindings, ret : SUBSET Bindings,
    sent : BOOLEAN, muted : SUBSET Bindings, consent : SUBSET Kinds]

--------------------------------------------------------------------------
(* What a state says                                                       *)

PeersOf(m, l) == {p \in m.peers : p.b.lease = l}
Without(m, l) == {p \in m.peers : p.b.lease # l}

\* lease_expires_at of the lease's peer has passed, or the peer is gone.
PeerExpired(m, l) == \A p \in PeersOf(m, l) : p.late

Allows(m, mode) == KindOf(mode) \in m.consent

\* validate_live_binding.
Live(m, b) == m.call = b.call

RadioReserved(m) == m.service # "AokieActive"

\* aokie_owner_fence is Some.
AokieOwns(m) == m.active /\ m.call # NoCall /\ ~RadioReserved(m)

SlotsEmpty(m) ==
    /\ m.prep = {} /\ m.claim = {} /\ m.pcons = {}
    /\ m.acons = {} /\ m.proute = {} /\ m.aroute = {}

\* aokie_switch_fence is Some: no peer but a monitor's, and no claim.
MaySwitch(m) ==
    /\ AokieOwns(m)
    /\ SlotsEmpty(m)
    /\ \A p \in m.peers : p.b.mode = "Monitor"

\* The prepared claim is b's, up to the rotated owner epoch and mode.
ClaimIs(m, b) == \E c \in m.claim : c.b.lease = b.lease /\ c.b.call = b.call

HasRoute(m, b) ==
    b \in m.acons \/ b \in m.aroute \/ \E p \in m.proute : p.b = b

HasPending(m, b) == \E p \in m.pcons : p.b = b
HasHold(m, b) == \E p \in m.prep : p.b = b

--------------------------------------------------------------------------
(* Small changes several methods make                                      *)

Cleared(m) == [m EXCEPT !.prep = {}, !.claim = {}, !.pcons = {},
                        !.acons = {}, !.proute = {}, !.aroute = {}]

\* clear_binding_observations.
Forget(m, b) == [m EXCEPT !.muted = @ \ {b}]

\* The caller goes back from b: the radio is asked to flush and confirm.
Returning(m, b) == [m EXCEPT !.ret = {b}, !.sent = FALSE,
                             !.service = "ReturningToAokie"]

\* fence_cancelled_binding.
Fenced(m, b) ==
    IF m.call = b.call
    THEN [m EXCEPT !.owner[b.call] = Bigger(@, b.owner) + 1]
    ELSE m

\* Mutant: cancelled without giving the service back.
CancelledOnly(m, b) == Fenced(m, b)

\* A claim that never had the caller is cancelled where it stands.
CancelledInPlace(m, b) == [Fenced(m, b) EXCEPT !.service = "AokieActive"]

--------------------------------------------------------------------------
(* observe_call: the radio thread says which call is physically there.     *)

\* The bindings the six fields hold; at most one of them is filled (OneSlot).
Held(m) ==
    {p.b : p \in m.prep} \cup {c.b : c \in m.claim} \cup {p.b : p \in m.pcons}
        \cup m.acons \cup {p.b : p \in m.proute} \cup m.aroute

ObserveCall(m, c, a) ==
    IF m.call = c
    THEN [m EXCEPT !.active = a, !.muted = IF a THEN @ ELSE {}]
    ELSE LET old == IF Held(m) = {} THEN {} ELSE {Only(Held(m))}
         IN [Cleared(m) EXCEPT
               !.peers = {}, !.ret = old, !.sent = FALSE, !.muted = {},
               !.call = c, !.active = a,
               !.service = IF old # {} THEN "Recovering" ELSE "AokieActive"]

--------------------------------------------------------------------------
(* Opening a peer: validate_open when the manager takes the request and    *)
(* again when the answer is ready, insert_peer then.                       *)

\* Mutant: a prepared peer is admitted beside another Companion's claim.
MayOpenBeside(m, b) ==
    /\ Allows(m, b.mode)
    /\ m.active /\ m.call = b.call /\ m.owner[b.call] = b.owner
    /\ b.mode \in {"Consult", "Talk"} =>
          /\ \E c \in m.claim : c.b.lease = b.lease /\ c.confirmed = b.owner
          /\ m.proute = {} /\ m.aroute = {}
    /\ PeersOf(m, b.lease) = {}

MayOpen(m, b) ==
    /\ Allows(m, b.mode)
    /\ m.active /\ m.call = b.call /\ m.owner[b.call] = b.owner
    /\ b.mode \in {"PreparedConsult", "PreparedTalk"} =>
          SlotsEmpty(m) /\ \A p \in m.peers : p.b.mode = "Monitor"
    /\ b.mode \in {"Consult", "Talk"} =>
          /\ \E c \in m.claim : /\ c.b.lease = b.lease /\ c.b.call = b.call
                                /\ c.confirmed = b.owner
                                /\ b.mode = "Consult" => c.b.mode = "PreparedConsult"
          /\ m.proute = {} /\ m.aroute = {}
          /\ b.mode = "Consult" => m.pcons = {} /\ m.acons = {}
          /\ \A p \in m.peers : p.b.mode # b.mode
    /\ Cardinality(m.peers) < MaxPeers
    /\ PeersOf(m, b.lease) = {}

InsertPeer(m, b) ==
    LET open == [m EXCEPT !.peers = @ \cup {[b |-> b, late |-> FALSE]}]
    IN IF b.mode \in {"Consult", "Talk"}
       THEN [open EXCEPT !.claim = {[c EXCEPT !.deadline = "armed", !.media = {b}] : c \in @}]
       ELSE open

--------------------------------------------------------------------------
(* The Companion's way to the caller: soft hold, then consult or takeover. *)

\* The peer is open under exactly b and its lease has not run out.
PeerReady(m, b) == \E p \in m.peers : p.b = b /\ ~p.late

MayRequestSoftHold(m, b) ==
    /\ b.mode \in {"PreparedConsult", "PreparedTalk"}
    /\ Allows(m, b.mode) /\ Live(m, b) /\ m.owner[b.call] = b.owner
    /\ m.prep = {} /\ m.claim = {} /\ m.proute = {} /\ m.aroute = {}
    /\ PeerReady(m, b)

RequestSoftHold(m, b) ==
    [m EXCEPT !.prep = {[b |-> b, sent |-> FALSE, late |-> FALSE]},
              !.service = "AokieActive"]

\* The prepared claim stands and its rebound peer is b's.
ClaimReady(m, b) ==
    \E c \in m.claim : /\ ~c.late /\ c.deadline = "armed" /\ c.media = {b}
                       /\ c.confirmed = b.owner
                       /\ c.b.lease = b.lease /\ c.b.call = b.call
                       /\ b.mode = "Consult" => c.b.mode = "PreparedConsult"

MayRequest(m, b) ==
    /\ Allows(m, b.mode) /\ Live(m, b) /\ m.owner[b.call] = b.owner
    /\ m.proute = {} /\ m.aroute = {}
    /\ PeerReady(m, b)
    /\ ClaimReady(m, b)

MayRequestConsult(m, b) ==
    b.mode = "Consult" /\ m.pcons = {} /\ m.acons = {} /\ MayRequest(m, b)

RequestConsult(m, b) ==
    [m EXCEPT !.pcons = {[b |-> b, sent |-> FALSE, late |-> FALSE]},
              !.claim = {}, !.service = "ConsultPending"]

MayRequestTakeover(m, b) == b.mode = "Talk" /\ MayRequest(m, b)

\* Mutant: the radio is reserved only when the route is open.
RequestTakeoverUnreserved(m, b) ==
    [m EXCEPT !.proute = {[b |-> b, sent |-> FALSE, late |-> FALSE]}, !.claim = {}]

RequestTakeover(m, b) ==
    [m EXCEPT !.proute = {[b |-> b, sent |-> FALSE, late |-> FALSE]},
              !.claim = {}, !.service = "HumanPending"]

--------------------------------------------------------------------------
(* Renewal and the ways out.                                               *)

MayRenew(m, b) ==
    /\ Live(m, b)
    /\ \A p \in PeersOf(m, b.lease) : p.b = b
    /\ PeersOf(m, b.lease) # {} \/ ClaimIs(m, b)

\* A pending soft hold keeps the time it was given.
Renew(m, b) ==
    LET again(S) == {IF x.b = b THEN [x EXCEPT !.late = FALSE] ELSE x : x \in S}
    IN [m EXCEPT !.peers = again(@), !.proute = again(@), !.pcons = again(@),
                 !.claim = IF ClaimIs(m, b)
                           THEN {[c EXCEPT !.late = FALSE] : c \in @} ELSE @]

\* A binding that has the caller goes back by way of the radio and keeps
\* its peer till then; one on its way there is cancelled in place.
MayRevoke(m, b) ==
    /\ Live(m, b)
    /\ HasRoute(m, b) \/ HasPending(m, b) \/ HasHold(m, b) \/ ClaimIs(m, b)

Revoke(m, b) ==
    LET peer == IF PeersOf(m, b.lease) = {} THEN b ELSE Only(PeersOf(m, b.lease)).b
    IN IF HasRoute(m, b)
       THEN Forget(Returning(Cleared(m), b), b)
       ELSE Forget(CancelledInPlace([Cleared(m) EXCEPT !.peers = Without(m, b.lease)], peer), b)

\* Mutant: the route of a closed peer is left to the next tick.
ClosePeerOnly(m, l, keep) == [m EXCEPT !.peers = Without(m, l)]

\* keep: the claim outlives its receive-only peer (active_rebind).
ClosePeer(m, l, keep) ==
    LET b == Only(PeersOf(m, l)).b
        gone == Forget([m EXCEPT !.peers = Without(m, l)], b)
        drop(S) == {x \in S : x.b.lease # l}
        left == [gone EXCEPT !.prep = drop(@), !.pcons = drop(@),
                             !.claim = IF keep THEN @ ELSE drop(@)]
    IN CASE HasRoute(m, b) ->
                Returning([left EXCEPT !.proute = {}, !.aroute = {}, !.acons = {}], b)
         [] ~HasRoute(m, b) /\ left # gone -> CancelledInPlace(left, b)
         [] OTHER -> left

\* The binding an event about the claim carries.
MediaBinding(c) == IF c.media = {} THEN c.b ELSE Only(c.media)

\* The binding cancelled with b's claim, where no caller audio was held.
Unheld(m) == {p.b : p \in m.prep \cup m.pcons} \cup {MediaBinding(c) : c \in m.claim}
HeldRoute(m) == m.acons \cup m.aroute \cup {p.b : p \in m.proute}

FailClosedAll(m) ==
    LET shut == [Cleared(m) EXCEPT !.peers = {}, !.muted = {}]
    IN CASE HeldRoute(m) # {} -> Returning(shut, Only(HeldRoute(m)))
         [] HeldRoute(m) = {} /\ Unheld(m) # {} -> CancelledInPlace(shut, Only(Unheld(m)))
         [] OTHER -> shut

\* set_remote_consent: every peer the gate no longer allows goes, and with
\* it the route or claim of one; an earlier return is forgotten when only a
\* claim was cancelled.
SetRemoteConsent(m, kinds) ==
    LET refused(S) == {b \in S : KindOf(b.mode) \notin kinds}
        kept == [m EXCEPT !.consent = kinds,
                          !.peers = {p \in @ : KindOf(p.b.mode) \in kinds}]
        route == refused(HeldRoute(m))
        other == refused(Unheld(m))
    IN CASE route # {} -> Forget(Returning(Cleared(kept), Only(route)), Only(route))
         [] route = {} /\ other # {} ->
                Forget(CancelledInPlace([Cleared(kept) EXCEPT !.ret = {}, !.sent = FALSE],
                                        Only(other)), Only(other))
         [] OTHER -> kept

--------------------------------------------------------------------------
(* The radio thread: next_radio_transition and the acknowledgements.       *)

ReconcileConsent(m) == IF m.consent = {} THEN SetRemoteConsent(m, {}) ELSE m

ExpirePeers(m) == [m EXCEPT !.peers = {p \in @ : ~p.late}]

\* Mutant: a talk route whose audio stopped is asked for again.
EndRoutesAgain(m, stalled) ==
    LET over == {b \in m.acons \cup m.aroute : PeerExpired(m, b.lease)}
                \cup {p.b : p \in {q \in m.proute : q.late \/ PeerExpired(m, q.b.lease)}}
        again == {[b |-> b, sent |-> FALSE, late |-> FALSE] : b \in m.aroute}
    IN CASE over # {} -> Forget(Returning([m EXCEPT !.acons = {}, !.aroute = {}, !.proute = {}],
                                          Only(over)), Only(over))
         [] over = {} /\ stalled -> [m EXCEPT !.aroute = {}, !.proute = @ \cup again]
         [] OTHER -> m

\* A route ends with its peer, or when the audio it should carry stopped.
EndRoutes(m, stalled) ==
    LET over == {b \in m.acons \cup m.aroute :
                    PeerExpired(m, b.lease) \/ (stalled /\ b \notin m.muted)}
                \cup {p.b : p \in {q \in m.proute : q.late \/ PeerExpired(m, q.b.lease)}}
    IN IF over = {} THEN m
       ELSE Forget(Returning([m EXCEPT !.acons = {}, !.aroute = {}, !.proute = {}],
                             Only(over)), Only(over))

\* A claim on its way there ends with its time or its peer.
EndClaims(m) ==
    LET over == {p.b : p \in {q \in m.pcons \cup m.prep : q.late \/ PeerExpired(m, q.b.lease)}}
                \cup {MediaBinding(c) : c \in {d \in m.claim : d.late \/ d.deadline = "late"}}
    IN IF over = {} THEN m
       ELSE CancelledInPlace([m EXCEPT !.prep = {}, !.pcons = {}, !.claim = {},
                                       !.peers = Without(m, Only(over).lease)],
                             Only(over))

\* What the radio is asked to do; nothing else while a return is pending.
Dispatch(m) ==
    LET asked(S) == {[p EXCEPT !.sent = TRUE] : p \in S}
        new(S) == {p.b : p \in {q \in S : ~q.sent}}
    IN CASE m.ret # {} /\ ~m.sent ->
                [do |-> "ReturnToAokie", b |-> {}, m |-> [m EXCEPT !.sent = TRUE]]
         [] m.ret = {} /\ new(m.proute) # {} ->
                [do |-> "EnterHuman", b |-> new(m.proute),
                 m |-> [m EXCEPT !.proute = asked(@)]]
         [] m.ret = {} /\ new(m.proute) = {} /\ new(m.pcons) # {} ->
                [do |-> "EnterConsult", b |-> new(m.pcons),
                 m |-> [m EXCEPT !.pcons = asked(@)]]
         [] m.ret = {} /\ new(m.proute \cup m.pcons) = {} /\ new(m.prep) # {} ->
                [do |-> "Prepare", b |-> new(m.prep), m |-> [m EXCEPT !.prep = asked(@)]]
         [] OTHER -> [do |-> "none", b |-> {}, m |-> m]

NextTransition(m, stalled) ==
    Dispatch(EndClaims(EndRoutes(ExpirePeers(ReconcileConsent(m)), stalled)))

\* What the three enter/prepare acknowledgements have in common.
MayAck(m, b, S) ==
    /\ Live(m, b) /\ Allows(m, b.mode) /\ m.active
    /\ \E p \in S : p.b = b /\ ~p.late
    /\ m.owner[b.call] = b.owner

MayAckPrepare(m, b) == MayAck(m, b, m.prep)

AckPrepare(m, b) ==
    [m EXCEPT !.owner[b.call] = @ + 1, !.prep = {}, !.service = "AokieActive",
              !.claim = {[b |-> b, confirmed |-> b.owner + 1, late |-> FALSE,
                          deadline |-> "none", media |-> {}]}]

MayAckEnterConsult(m, b) == MayAck(m, b, m.pcons) /\ PeerReady(m, b)

AckEnterConsult(m, b) ==
    [m EXCEPT !.pcons = {}, !.acons = {b}, !.service = "ConsultActive"]

MayAckEnter(m, b) == MayAck(m, b, m.proute) /\ PeersOf(m, b.lease) # {}

AckEnter(m, b) == [m EXCEPT !.proute = {}, !.aroute = {b}, !.service = "HumanActive"]

\* Refused at the last check, ack_enter and ack_enter_consult have already
\* taken the pending route out of its field.
AckEnterFails(m, b) ==
    IF Live(m, b) /\ Allows(m, "Talk") /\ m.active /\ (\E p \in m.proute : p.b = b /\ ~p.late)
    THEN [m EXCEPT !.proute = {}] ELSE m

AckEnterConsultFails(m, b) ==
    IF MayAck(m, b, m.pcons) /\ PeersOf(m, b.lease) = {}
    THEN [m EXCEPT !.pcons = {}] ELSE m

MayAckReturn(m) == m.ret # {}

\* Mutant: the next return counts as dispatched already.
AckReturnStillSent(m) ==
    LET b == Only(m.ret)
    IN Forget([Fenced(Cleared(m), b) EXCEPT !.ret = {}, !.service = "AokieActive"], b)

AckReturn(m) ==
    LET b == Only(m.ret)
    IN Forget([Fenced(Cleared(m), b) EXCEPT !.ret = {}, !.sent = FALSE,
                                            !.service = "AokieActive"], b)

--------------------------------------------------------------------------
(* The caller's ear.                                                       *)

\* allows_talk: one frame of b may go to the caller now.
AllowsTalk(m, b) ==
    /\ b \in m.aroute
    /\ Allows(m, "Talk") /\ m.active /\ Live(m, b) /\ m.owner[b.call] = b.owner
    /\ PeerReady(m, b)

\* allows_talk of a frame whose permit has run out ends the route itself.
TalkLapses(m, b) == Returning([m EXCEPT !.aroute = {}], b)

\* binding_is_active_media_owner.
ActiveOwner(m, b) ==
    /\ m.active /\ Live(m, b) /\ m.owner[b.call] = b.owner
    /\ PeerReady(m, b) /\ Allows(m, b.mode)
    /\ \/ m.service = "HumanActive" /\ b \in m.aroute
       \/ m.service = "ConsultActive" /\ b \in m.acons

SetMuted(m, b, mute) == [m EXCEPT !.muted = IF mute THEN {b} ELSE {}]

\* A lease that is not renewed runs out; what it was given for a soft hold
\* runs out no later.
LeaseLapses(m, l) ==
    LET over(S) == {IF x.b.lease = l THEN [x EXCEPT !.late = TRUE] ELSE x : x \in S}
    IN [m EXCEPT !.peers = over(@), !.prep = over(@), !.pcons = over(@), !.proute = over(@)]
ClaimLapses(m) == [m EXCEPT !.claim = {[c EXCEPT !.late = TRUE] : c \in @}]
TransferLapses(m) == [m EXCEPT !.proute = {[p EXCEPT !.late = TRUE] : p \in @}]
DeadlineLapses(m) == [m EXCEPT !.claim = {[c EXCEPT !.deadline = "late"] : c \in @}]
=============================================================================
