---------------------------- MODULE RelayLeases -----------------------------
(***************************************************************************)
(* The plugin as its own lease authority on the relay carrier: the gateway *)
(* session (session_messages.rs, session_relay_authority.rs,               *)
(* session_relay_frames.rs, session_leases.rs, session_notices.rs) beside  *)
(* the media authority and the radio thread of RemoteMedia.                *)
(*                                                                         *)
(* The session is one loop: it sweeps, drains media events, publishes,     *)
(* takes one frame of a phone, and awaits the delivery of what it sends.   *)
(* The radio thread and the media manager run all the while.  Media events *)
(* come through a bounded queue that drops silently.  The phones send any  *)
(* frame at any time; one under a token that is not current is refused     *)
(* with no effect and left out.                                            *)
(*                                                                         *)
(* A lease is minted once, from one offer, and has one rtc session, so an  *)
(* element of Leases stands for the offer, the lease, the rtc session and  *)
(* the fence.  A jti is compared for equality only, and at most two of a   *)
(* lease are held at once, the current one and the next: 0 and 1 in turn.  *)
(***************************************************************************)
EXTENDS RemoteMedia, Sequences, FiniteSetsExt, SequencesExt

CONSTANTS
    Devices,      \* the approved Companions
    DeviceOf,     \* the device a lease is offered to
    MaxEvents,    \* bound: what the media event queue holds
    Scopes        \* bound: the leases of a behaviour, and what may change in it

\* sessions: admissions and reconnections; consent: the disclosure; switch:
\* the physical switch.
Changes == {"sessions", "consent", "switch"}

ASSUME RelayConstants ==
    /\ DeviceOf \in [Leases -> Devices] /\ MaxEvents \in Nat
    /\ Scopes \subseteq [leases : SUBSET Leases, may : SUBSET Changes]

VARIABLES
    scope,        \* the scope of this behaviour
    s,            \* GatewaySession
    minted,       \* the offers ever minted
    offering,     \* the RTC offer the session is blocked on, at most one
    events        \* the media event queue

session == <<scope, s, minted, offering, events>>
allVars == <<vars, session>>

NewSession == [
    grants   |-> [d \in Devices |-> {}],   \* relay_peers: the modes granted
    offers   |-> {},          \* relay_offers: [l, accepted, fresh]
    book     |-> {},          \* leases: [l, gen, phase, call, owner, late]
    reg      |-> {},          \* relay_leases: [l, gen, phase]
    prepared |-> {},          \* prepared
    routes   |-> {},          \* peers: [l, gen, b, connected, ready, asked]
    pending  |-> {}]          \* deferred_prepare, pending_relay_status, or an
                              \* accepted answer: the frame being delivered

KindsFor(d) == {LeaseKind[l] : l \in {k \in Leases : DeviceOf[k] = d}}

\* Where nothing of it may change, every device is admitted and the
\* disclosure allows every mode from the beginning.
RelayInit ==
    /\ scope \in Scopes
    /\ m = [NewMedia EXCEPT !.consent =
              IF "consent" \in scope.may THEN {} ELSE {LeaseKind[l] : l \in Leases}]
    /\ todo = Idle /\ opening = {} /\ switching = FALSE
    /\ decision = {} /\ over = {} /\ misacted = FALSE
    /\ s = IF "sessions" \in scope.may THEN NewSession
           ELSE [NewSession EXCEPT !.grants = [d \in Devices |-> KindsFor(d)]]
    /\ minted = {}
    /\ offering = {}
    /\ events = <<>>

Talker(l) == LeaseKind[l] = "takeover"
NextGen(g) == 1 - g

\* The owner epoch of RemoteMediaSnapshot.
OwnerNow(x) == IF x.call = NoCall THEN 0 ELSE x.owner[x.call]

\* validate_notice and open_offer: the claims are about the call as it is.
Physical(x, e) == x.call = e.call /\ OwnerNow(x) = e.owner

\* binding_for_claims.
BindingFor(e) == [
    lease |-> e.l, call |-> e.call, owner |-> e.owner,
    mode |-> CASE ~Talker(e.l) -> "Monitor"
               [] Talker(e.l) /\ e.phase = "Prepared" -> "PreparedTalk"
               [] Talker(e.l) /\ e.phase = "Active" -> "Talk"]

\* The binding revoked for a claim that has no route.
PreparedBinding(p) ==
    IF p.confirmed = {}
    THEN [lease |-> p.l, call |-> p.call, owner |-> p.owner, mode |-> "PreparedTalk"]
    ELSE [lease |-> p.l, call |-> p.call, owner |-> Only(p.confirmed), mode |-> "Talk"]

--------------------------------------------------------------------------
(* What the session does to itself and to the media state.  A world w is   *)
(* the pair of the two; refusals of the media state are ignored, as the    *)
(* code ignores them.                                                      *)

World == [s |-> s, m |-> m]

MediaRevoke(x, b) == IF MayRevoke(x, b) THEN Revoke(x, b) ELSE x
MediaClose(x, l, keep) == IF PeersOf(x, l) # {} THEN ClosePeer(x, l, keep) ELSE x

BookOf(w, l) == {e \in w.s.book : e.l = l}
RegOf(w, l) == {r \in w.s.reg : r.l = l}
RoutesOf(w, l) == {r \in w.s.routes : r.l = l}

\* The claims under the registry's current jti.
Current(w, l) == {e \in BookOf(w, l) : \E r \in RegOf(w, l) : r.gen = e.gen}

\* retire_relay_lease: a status of the lease that is being delivered will
\* find nothing to commit.
RetireLease(w, l) ==
    [w EXCEPT !.s.reg = {r \in @ : r.l # l},
              !.s.pending = {p \in @ : p.l # l \/ p.what = "Ack"}]

\* retire_failed_relay_offer.
RetireOffer(w, l) == [w EXCEPT !.s.offers = {o \in @ : o.l # l}]

\* The lease is purged from the book and the claim slot.
Purge(w, l) ==
    RetireLease([w EXCEPT !.s.book = {e \in @ : e.l # l},
                          !.s.prepared = {p \in @ : p.l # l}], l)

\* Mutant: the peer of a dropped route is left open.
DropRouteOnly(w, r) ==
    [w EXCEPT !.m = IF r.b.mode = "Monitor" THEN @ ELSE MediaRevoke(@, r.b),
              !.s.routes = @ \ {r}]

\* The caller goes back and the peer closes.
DropRoute(w, r) ==
    [w EXCEPT !.m = MediaClose(IF r.b.mode = "Monitor" THEN @ ELSE MediaRevoke(@, r.b),
                               r.l, FALSE),
              !.s.routes = @ \ {r}]

RevokePrepared(w, l) ==
    LET held == {p \in w.s.prepared : p.l = l}
    IN IF held = {} THEN w
       ELSE [w EXCEPT !.m = MediaRevoke(@, PreparedBinding(Only(held)))]

\* Mutant: a claim that has no route is forgotten, not returned.
LeaseForgotten(w, e) ==
    LET exact == {r \in RoutesOf(w, e.l) : r.gen = e.gen /\ r.b.call = e.call}
        back == IF exact # {} THEN DropRoute(w, Only(exact)) ELSE w
    IN RetireLease([back EXCEPT !.s.book = @ \ {e},
                                !.s.prepared = {p \in @ : p.l # e.l}], e.l)

\* handle_lease_revoked, for claims e of the book.
HandleLeaseRevoked(w, e) ==
    LET exact == {r \in RoutesOf(w, e.l) : r.gen = e.gen /\ r.b.call = e.call}
        back == IF exact # {} THEN DropRoute(w, Only(exact)) ELSE RevokePrepared(w, e.l)
    IN RetireLease([back EXCEPT !.s.book = @ \ {e},
                                !.s.prepared = {p \in @ : p.l # e.l}], e.l)

\* revoke_relay_lease_by_id.
RevokeById(w, l) ==
    LET e == IF Current(w, l) # {} THEN Only(Current(w, l)) ELSE Only(BookOf(w, l))
        shut == IF RoutesOf(w, l) = {} THEN w
                ELSE LET r == Only(RoutesOf(w, l))
                     IN [w EXCEPT !.m = MediaClose(MediaRevoke(@, r.b), l, FALSE),
                                  !.s.routes = @ \ {r}]
    IN IF BookOf(w, l) # {} THEN HandleLeaseRevoked(w, e)
       ELSE Purge(RevokePrepared(shut, l), l)

\* fail_peer.
FailPeer(w, l) ==
    IF RoutesOf(w, l) = {} THEN w ELSE Purge(DropRoute(w, Only(RoutesOf(w, l))), l)

\* fail_relay_rtc_authority, for the lease and jti the frame proved.
FailAuthority(w, l, gen) ==
    LET e == {c \in BookOf(w, l) : c.gen = gen}
        exact == \E r \in RoutesOf(w, l), c \in e : r.gen = gen /\ r.b = BindingFor(c)
    IN IF exact THEN FailPeer(w, l) ELSE RevokeById(w, l)

RevokeAll(w, S) == FoldSet(LAMBDA l, acc : RetireLease(RevokeById(acc, l), l), w, S)

--------------------------------------------------------------------------
(* The three sweeps of every turn                                          *)

\* expire_relay_leases.
ExpireLeases(w) ==
    RevokeAll(w, {r.l : r \in {q \in w.s.reg : \A e \in Current(w, q.l) : e.late}})

\* expire_unbound_active_rebind.
ExpireRebind(w) ==
    LET overdue == {p \in w.s.prepared : p.rebind = "late"}
    IN IF overdue = {} THEN w ELSE RevokeById(w, Only(overdue).l)

\* The lease that has or claims the caller, as the snapshot names it.
TalkLease(x) == {b.lease : b \in Held(x)}

\* reconcile_relay_media_authority.
ReconcileMedia(w) ==
    RevokeAll(w, {r.l : r \in {q \in w.s.reg :
                      /\ q.phase = "Active" /\ Talker(q.l)
                      /\ \A e \in Current(w, q.l) :
                            ~Physical(w.m, e) \/ TalkLease(w.m) # {q.l}}})

Sweeps(w) == ReconcileMedia(ExpireRebind(ExpireLeases(w)))

--------------------------------------------------------------------------
(* Media events                                                            *)

\* A step of the session: it becomes w.
Becomes(w) ==
    /\ s' = w.s
    /\ Media(w.m)
    /\ UNCHANGED <<todo, opening, switching, decision, misacted>>

\* Whatever of E the queue takes; the rest is dropped.
Emit(E) ==
    \E kept \in SUBSET E :
        /\ Len(events) + Cardinality(kept) <= MaxEvents
        /\ events' = events \o SetToSeq(kept)

\* The routes whose peer or caller a step of another thread takes away.  An
\* event about a peer the session has no route for is ignored by every
\* handler and is not queued.
Terminal(new) ==
    {[kind |-> "gone", l |-> r.l, owner |-> r.b.owner] : r \in {q \in s.routes :
        \/ PeersOf(m, q.l) # {} /\ PeersOf(new, q.l) = {}
        \/ q.b \in HeldRoute(m) \ HeldRoute(new)}}

\* route_for_event.
Matches(w, e) == {r \in RoutesOf(w, e.l) : r.b.owner = e.owner}

\* maybe_request_transition, contained by contain_media_race.
MaybeRequest(w, l) ==
    LET due == {r \in RoutesOf(w, l) : /\ ~r.asked /\ r.connected
                                       /\ r.b.mode = "Talk" => r.ready
                                       /\ r.b.mode # "Monitor"}
        r == Only(due)
        may == IF r.b.mode = "Talk" THEN MayRequestTakeover(w.m, r.b)
               ELSE MayRequestSoftHold(w.m, r.b)
        then == IF r.b.mode = "Talk" THEN RequestTakeover(w.m, r.b)
                ELSE RequestSoftHold(w.m, r.b)
    IN CASE due = {} -> w
         [] due # {} /\ may ->
                [w EXCEPT !.m = then,
                          !.s.routes = (@ \ {r}) \cup {[r EXCEPT !.asked = TRUE]}]
         [] due # {} /\ ~may -> FailPeer(w, l)

\* complete_preparation: the prepared claim consumes its own decision, the
\* receive-only peer closes, the ACTIVE lease waits for its delivery.
CompletePreparation(w, e) ==
    LET mine == {p \in w.s.prepared : p.l = e.l /\ p.owner = e.owner /\ ~p.sent}
        p == Only(mine)
        conf == e.owner + 1
        done == [w EXCEPT !.s.prepared = {[p EXCEPT !.confirmed = {conf}, !.sent = TRUE]},
                          !.m = MediaClose(@, e.l, TRUE),
                          !.s.routes = {r \in @ : r.l # e.l}]
        race == IF RoutesOf(w, e.l) # {} THEN FailPeer(w, e.l) ELSE RevokeById(w, e.l)
    IN CASE mine = {} -> w
         [] mine # {} /\ OwnerNow(w.m) # conf -> race
         [] mine # {} /\ OwnerNow(w.m) = conf ->
                [done EXCEPT !.s.pending = IF RegOf(w, e.l) = {} THEN @ ELSE
                    {[what |-> "Active", l |-> e.l, gen |-> NextGen(Only(RegOf(w, e.l)).gen),
                      call |-> p.call, owner |-> conf, fresh |-> TRUE]}]

Changed(w, e, f) == [w EXCEPT !.s.routes = {IF r \in Matches(w, e) THEN f[r] ELSE r : r \in @}]

HandleEvent(w, e) ==
    CASE e.kind = "prepared" -> CompletePreparation(w, e)
      [] e.kind = "up" ->
            MaybeRequest(Changed(w, e, [r \in w.s.routes |-> [r EXCEPT !.connected = TRUE]]), e.l)
      [] e.kind = "ready" ->
            MaybeRequest(Changed(w, e, [r \in w.s.routes |-> [r EXCEPT !.ready = TRUE]]), e.l)
      [] e.kind = "down" -> FailPeer(w, e.l)
      [] e.kind = "signal" ->
            IF \E r \in Matches(w, e) :
                  ~\E c \in w.s.book : c.l = r.l /\ c.gen = r.gen /\ ~c.late
            THEN FailPeer(w, e.l) ELSE w
      [] e.kind = "gone" -> IF Matches(w, e) = {} THEN w ELSE FailPeer(w, e.l)

\* drain_media_events takes one.  What it has to send waits until the batch
\* is drained.
Drain ==
    /\ events # <<>> /\ offering = {}
    /\ \A p \in s.pending : p.what = "Active"
    /\ Becomes(HandleEvent(World, Head(events)))
    /\ events' = Tail(events)
    /\ UNCHANGED <<scope, minted, offering>>

\* The session is at the top of its loop: nothing is being delivered.
Ready == s.pending = {} /\ offering = {}

Sweep ==
    /\ Ready
    /\ Becomes(Sweeps(World))
    /\ UNCHANGED <<scope, minted, offering, events>>

--------------------------------------------------------------------------
(* Offers, answers and lease requests                                      *)

\* mint_offer: the new offer of a device replaces the one it never answered.
MintOffer(offers, l) ==
    {o \in offers : \/ o.accepted \/ DeviceOf[o.l] # DeviceOf[l]
                    \/ LeaseKind[o.l] # LeaseKind[l]}
        \cup {[l |-> l, accepted |-> FALSE, fresh |-> TRUE]}

\* attach_pending_offers: an offer for a device whose admission and the
\* disclosure allow it.
Publish(l) ==
    /\ Ready /\ l \in scope.leases \ minted
    /\ m.active /\ LeaseKind[l] \in s.grants[DeviceOf[l]] \cap m.consent
    /\ minted' = minted \cup {l}
    /\ Becomes([World EXCEPT !.s.offers = MintOffer(@, l)])
    /\ UNCHANGED <<scope, offering, events>>

\* Its time is over, accepted or not, or its device asked too often.
OfferExpires(l) ==
    /\ Ready
    /\ \E o \in s.offers : o.l = l
    /\ Becomes(RetireOffer(World, l))
    /\ UNCHANGED <<scope, minted, offering, events>>

Awaiting(w, what, l, gen, call, owner, fresh) ==
    [w EXCEPT !.s.pending = {[what |-> what, l |-> l, gen |-> gen, call |-> call,
                              owner |-> owner, fresh |-> fresh]}]

Granted(l) == LeaseKind[l] \in s.grants[DeviceOf[l]]

\* The acceptance is stored before its acknowledgement is sent.
Accepted(w, l) ==
    Awaiting([w EXCEPT
        !.s.offers = {IF o.l = l THEN [o EXCEPT !.accepted = TRUE] ELSE o : o \in @}],
        "Ack", l, 0, NoCall, 0, TRUE)

\* relay_offer_answer: the answer, or the same answer again.
Answer(l) ==
    /\ Ready /\ Granted(l)
    /\ \E o \in s.offers : o.l = l
    /\ Becomes(Accepted(World, l))
    /\ UNCHANGED <<scope, minted, offering, events>>

\* Mutant: only the device's own lease is in the way.
BusyByDevice(l) == \E r \in s.reg : DeviceOf[r.l] = DeviceOf[l]

\* One claimant at a time, one lease for a device.
Busy(l) == s.prepared # {} \/ \E r \in s.reg : DeviceOf[r.l] = DeviceOf[l]

\* The lease describes the radio's call and owner, not the frame's copy.
MintLease(w, l, fresh) ==
    Awaiting([w EXCEPT !.s.reg = @ \cup
                 {[l |-> l, gen |-> 0, phase |-> IF Talker(l) THEN "Prepared" ELSE "Active"]}],
             IF Talker(l) THEN "Provisional" ELSE "Granted", l, 0, w.m.call, OwnerNow(w.m),
             fresh)

\* relay_lease_request: the offer is spent whatever happens next; a frame that
\* names another call, owner or revision than the radio's mints nothing.
Request(l, stale) ==
    /\ Ready /\ Granted(l)
    /\ \E o \in s.offers :
          /\ o.l = l /\ o.accepted
          /\ LET spent == [World EXCEPT !.s.offers = @ \ {o}]
             IN Becomes(IF Busy(l) \/ stale \/ m.call = NoCall \/ LeaseKind[l] \notin m.consent
                        THEN spent ELSE MintLease(spent, l, o.fresh))
    /\ UNCHANGED <<scope, minted, offering, events>>

--------------------------------------------------------------------------
(* Delivery: what was sent is committed or rolled back                     *)

ClaimsOf(p) == [l |-> p.l, gen |-> p.gen, phase |-> "Active", call |-> p.call,
                owner |-> p.owner, late |-> FALSE]

\* handle_claim_proposal.
ClaimProposal(w, p) ==
    IF Physical(w.m, p) /\ ~switching /\ p.fresh /\ w.s.prepared = {}
    THEN [w EXCEPT !.s.book = @ \cup {[ClaimsOf(p) EXCEPT !.phase = "Prepared"]},
                   !.s.prepared = {[l |-> p.l, call |-> p.call, owner |-> p.owner,
                                    confirmed |-> {}, sent |-> FALSE, rebind |-> "none",
                                    fresh |-> p.fresh]}]
    ELSE RetireOffer(Purge([w EXCEPT !.s.prepared = {}], p.l), p.l)

\* handle_lease_renewed; the registry follows the book.
LeaseRenewed(w, p) ==
    LET e == [ClaimsOf(p) EXCEPT !.phase = "Active"]
        renewed == [w EXCEPT !.s.book = {c \in @ : c.l # p.l} \cup {e},
                             !.s.routes = {IF r.l = p.l THEN [r EXCEPT !.gen = p.gen] ELSE r
                                              : r \in @}]
        b == IF RoutesOf(w, p.l) # {} THEN {Only(RoutesOf(w, p.l)).b}
             ELSE {BindingFor(e) : q \in {q \in w.s.prepared : q.l = p.l}}
        reg == {IF r.l = p.l THEN [r EXCEPT !.gen = p.gen] ELSE r : r \in w.s.reg}
    IN CASE ~Physical(w.m, p) -> RetireLease(w, p.l)
         [] Physical(w.m, p) /\ b = {} -> [renewed EXCEPT !.s.reg = reg]
         [] Physical(w.m, p) /\ b # {} ->
                IF MayRenew(w.m, Only(b))
                THEN [renewed EXCEPT !.s.reg = reg, !.m = Renew(@, Only(b))]
                ELSE RetireLease(renewed, p.l)

\* The ACTIVE status of a prepared claim is with the phone.
ActiveDelivered(w, p) ==
    [w EXCEPT !.s.book = {e \in @ : e.l # p.l} \cup {ClaimsOf(p)},
              !.s.reg = {IF r.l = p.l THEN [r EXCEPT !.gen = p.gen, !.phase = "Active"] ELSE r
                            : r \in @},
              !.s.prepared = {IF q.l = p.l THEN [q EXCEPT !.rebind = "armed"] ELSE q : q \in @}]

Committed(w, p) ==
    CASE p.what = "Ack" -> w
      [] p.what = "Provisional" -> ClaimProposal(w, p)
      [] p.what = "Granted" ->
            IF Physical(w.m, p) THEN [w EXCEPT !.s.book = @ \cup {ClaimsOf(p)}]
            ELSE RetireLease(w, p.l)
      [] p.what = "Renewed" -> LeaseRenewed(w, p)
      [] p.what = "Active" -> ActiveDelivered(w, p)

\* Mutant: a renewal that was not delivered retires the lease.
RolledBackRetires(w, p) ==
    CASE p.what = "Ack" -> IF \E o \in w.s.offers : o.l = p.l THEN RetireOffer(w, p.l) ELSE w
      [] OTHER -> RetireLease(w, p.l)

RolledBack(w, p) ==
    CASE p.what = "Ack" -> IF \E o \in w.s.offers : o.l = p.l THEN RetireOffer(w, p.l) ELSE w
      [] p.what = "Provisional" ->
            RetireOffer([w EXCEPT !.s.reg = {r \in @ : r.l # p.l}], p.l)
      [] p.what = "Granted" ->
            [w EXCEPT !.s.reg = {r \in @ : r.l # p.l},
                      !.s.offers = @ \cup {[l |-> p.l, accepted |-> TRUE, fresh |-> p.fresh]}]
      [] p.what = "Renewed" -> w
      [] p.what = "Active" ->
            IF Current(w, p.l) # {} THEN HandleLeaseRevoked(w, Only(Current(w, p.l)))
            ELSE RetireLease(w, p.l)

\* finish_relay_delivery.
Deliver(p, delivered) ==
    /\ p \in s.pending
    /\ LET w == [World EXCEPT !.s.pending = {}]
       IN Becomes(IF delivered THEN Committed(w, p) ELSE RolledBack(w, p))
    /\ UNCHANGED <<scope, minted, offering, events>>

--------------------------------------------------------------------------
(* Frames under a lease                                                    *)

\* The phone's RTC offer under the current token: the switch epoch is read.
\* adv: it advances the SDP revision and the transport generation.
OfferArrives(l, adv) ==
    /\ Ready /\ Granted(l)
    /\ \E r \in s.reg :
          r.l = l /\ offering' = {[l |-> l, gen |-> r.gen, adv |-> adv, fresh |-> TRUE, b |-> {}]}
    /\ UNCHANGED <<m, todo, opening, switching, decision, over, misacted, scope, s, minted, events>>

\* What the offer is opened under: the book's claims, or those of the
\* prepared claim with the confirmed owner epoch.
OfferClaims(w, o) ==
    LET own == {e \in BookOf(w, o.l) : e.gen = o.gen}
    IN IF own # {} THEN own
       ELSE {[l |-> p.l, gen |-> o.gen, phase |-> "Active", call |-> p.call,
              owner |-> Only(p.confirmed), late |-> FALSE] :
                p \in {q \in w.s.prepared : q.l = o.l /\ q.confirmed # {} /\ o.adv}}

MayOffer(w, o, e) ==
    /\ Talker(e.l) /\ e.phase = "Active" =>
          o.adv /\ \E p \in w.s.prepared : p.confirmed = {e.owner}
    /\ ~e.late /\ Physical(w.m, e)
    /\ \A r \in RoutesOf(w, e.l) : r.b.mode = "PreparedTalk" /\ e.phase = "Active"

\* open_offer up to the media manager's queue.  A claim whose switchboard
\* revision or rebind deadline is over is revoked on the way.
OfferAdmitted ==
    \E o \in offering :
        /\ o.b = {}
        /\ LET stale == {p \in s.prepared : ~p.fresh \/ p.rebind = "late"}
               w == IF switching \/ stale = {} THEN World ELSE RevokeById(World, Only(stale).l)
               e == OfferClaims(World, o)
           IN IF ~switching /\ stale = {} /\ e # {} /\ MayOffer(World, o, Only(e))
              THEN /\ Becomes([World EXCEPT !.m = MediaClose(@, o.l, TRUE),
                                             !.s.routes = {r \in @ : r.l # o.l}])
                   /\ offering' = {[o EXCEPT !.b = {BindingFor(Only(e))}]}
              ELSE /\ Becomes(FailAuthority(w, o.l, o.gen))
                   /\ offering' = {}
        /\ UNCHANGED <<scope, minted, events>>

\* The manager has opened the peer, or has not in time.
OfferOpened(inTime) ==
    \E o \in offering : \E b \in o.b :
        /\ LET e == Only(OfferClaims(World, o))
               opened == [World EXCEPT !.m = InsertPeer(@, b),
                    !.s.book = {c \in @ : c # e} \cup {e},
                    !.s.prepared = {IF q.l = o.l /\ e.phase = "Active"
                                    THEN [q EXCEPT !.rebind = "none"] ELSE q : q \in @},
                    !.s.routes = @ \cup {[l |-> o.l, gen |-> o.gen, b |-> b, connected |-> FALSE,
                                          ready |-> FALSE, asked |-> FALSE]}]
           IN IF inTime /\ (o.fresh \/ b.mode = "Monitor") /\ MayOpen(m, b)
              THEN Becomes(opened)
              ELSE Becomes(FailAuthority(World, o.l, o.gen))
        /\ offering' = {}
        /\ UNCHANGED <<scope, minted, events>>

\* An authenticated signal the native path refuses ends its lease.
RtcFails(l) ==
    /\ Ready /\ Granted(l)
    /\ \E r \in s.reg : r.l = l /\ Becomes(FailAuthority(World, l, r.gen))
    /\ UNCHANGED <<scope, minted, offering, events>>

\* The phone closes its peer.
RtcClose(l) ==
    /\ Ready /\ Granted(l)
    /\ \E r \in RoutesOf(World, l), g \in s.reg :
          /\ g.l = l /\ g.gen = r.gen
          /\ Becomes(Purge(DropRoute(World, r), l))
    /\ UNCHANGED <<scope, minted, offering, events>>

\* The renewed lease differs from the live one in its jti and its expiry.
Renewal(w, l, e) == Awaiting(w, "Renewed", l, NextGen(e.gen), e.call, e.owner, TRUE)

\* relay_lease_heartbeat: swept first; a prepared claim is not renewable.
Heartbeat(l) ==
    /\ Ready /\ Granted(l)
    /\ RegOf(World, l) # {}
    /\ LET w == Sweeps(World)
           live == {e \in Current(w, l) : e.phase = "Active"}
       IN Becomes(IF live = {} THEN w ELSE Renewal(w, l, Only(live)))
    /\ UNCHANGED <<scope, minted, offering, events>>

\* relay_lease_revoke: the phone gives its lease back.
GiveBack(l) ==
    /\ Ready
    /\ RegOf(World, l) # {}
    /\ Becomes(RetireLease(IF Current(World, l) = {} THEN World
                            ELSE HandleLeaseRevoked(World, Only(Current(World, l))), l))
    /\ UNCHANGED <<scope, minted, offering, events>>

\* accept_mobile_hello and relay_reconcile_frame_grants: an admission that
\* is narrower, or a new mobile session, takes back what it no longer covers.
Admission(d, kinds, rotated) ==
    /\ Ready /\ "sessions" \in scope.may
    /\ LET gone == {l \in Leases : /\ DeviceOf[l] = d
                                   /\ rotated \/ LeaseKind[l] \notin kinds}
           offers == {o.l : o \in s.offers} \cap gone
           w == FoldSet(LAMBDA l, acc : RetireOffer(acc, l), World, offers)
           r == FoldSet(LAMBDA l, acc : RevokeById(acc, l), w, {e.l : e \in s.reg} \cap gone)
       IN Becomes([r EXCEPT !.s.grants[d] = kinds])
    /\ UNCHANGED <<scope, minted, offering, events>>

\* The carrier is lost: the next session knows nothing of this one.
Reconnect ==
    /\ s # NewSession /\ "sessions" \in scope.may
    /\ s' = NewSession
    /\ Media(FailClosedAll(m))
    /\ offering' = {} /\ events' = <<>>
    /\ UNCHANGED <<todo, opening, switching, decision, misacted, scope, minted>>

--------------------------------------------------------------------------
(* The other threads                                                       *)

Elsewhere == UNCHANGED <<scope, s, minted, offering>>

\* The radio thread, with the events its steps emit.
RadioSteps ==
    /\ \/ \E c \in Calls \cup {NoCall}, a \in BOOLEAN : CallChanges(c, a)
       \/ \E stalled \in BOOLEAN : Tick(stalled)
       \/ \E sco \in BOOLEAN : PrepareCaller(sco)
       \/ \E sco, takes \in BOOLEAN : EnterHuman(sco, takes)
       \/ RadioRevokes
       \/ ReturnToAokie
       \/ LateFrame
       \/ /\ "consent" \in scope.may
          /\ \/ \E kinds \in SUBSET {LeaseKind[l] : l \in scope.leases} : Consent(kinds)
             \/ ConsentRunsOut
    /\ Emit(Terminal(m') \cup
            {[kind |-> "prepared", l |-> c.b.lease, owner |-> c.b.owner] :
                c \in {d \in m'.claim : m.claim = {}}})
    /\ Elsewhere

\* A physical switch moves the switchboard revision every offer and every
\* prepared claim was made under.
SwitchSteps ==
    \/ /\ "switch" \in scope.may /\ Switch
       /\ offering' = {[o EXCEPT !.fresh = FALSE] : o \in offering}
       /\ s' = [s EXCEPT !.offers = {[o EXCEPT !.fresh = FALSE] : o \in @},
                         !.pending = {[p EXCEPT !.fresh = FALSE] : p \in @},
                         !.prepared = {[p EXCEPT !.fresh = FALSE] : p \in @}]
       /\ UNCHANGED <<scope, minted, events>>
    \/ SwitchSettles /\ UNCHANGED session

\* The peer's own thread: connected, its audio and its microphone ready, failed,
\* or with an answer or a candidate to be signed.
PeerSteps ==
    /\ \E p \in m.peers, kind \in {"up", "ready", "down", "signal"} :
          LET e == [kind |-> kind, l |-> p.b.lease, owner |-> p.b.owner]
          IN /\ kind \in {"up", "ready"} => \E r \in s.routes :
                    r.b = p.b /\ IF kind = "up" THEN ~r.connected ELSE ~r.ready
             /\ ~\E i \in DOMAIN events : events[i] = e
             /\ Len(events) < MaxEvents
             /\ events' = Append(events, e)
    /\ UNCHANGED <<m, todo, opening, switching, decision, over, misacted,
                   scope, s, minted, offering>>

Clocks ==
    \/ TimePasses /\ events' = events /\ Elsewhere
    \/ /\ \/ \E e \in s.book : ~e.late /\ s' = [s EXCEPT !.book = (@ \ {e})
                                                   \cup {[e EXCEPT !.late = TRUE]}]
          \/ \E p \in s.prepared :
                p.rebind = "armed" /\ s' = [s EXCEPT !.prepared = {[p EXCEPT !.rebind = "late"]}]
       /\ UNCHANGED <<m, todo, opening, switching, decision, over, misacted,
                      scope, minted, offering, events>>

Frames ==
    \E l \in Leases :
        \/ Publish(l) \/ OfferExpires(l) \/ Answer(l)
        \/ \E stale \in BOOLEAN : Request(l, stale)
        \/ \E adv \in BOOLEAN : OfferArrives(l, adv)
        \/ RtcFails(l) \/ RtcClose(l) \/ Heartbeat(l) \/ GiveBack(l)

Loop ==
    \/ Sweep \/ Drain
    \/ \E p \in s.pending, delivered \in BOOLEAN : Deliver(p, delivered)
    \/ OfferAdmitted
    \/ \E inTime \in BOOLEAN : OfferOpened(inTime)
    \/ \E d \in {DeviceOf[l] : l \in scope.leases}, rotated \in BOOLEAN :
          \E kinds \in SUBSET KindsFor(d) : Admission(d, kinds, rotated)
    \/ Reconnect

RelayNext == Frames \/ Loop \/ RadioSteps \/ SwitchSteps \/ PeerSteps \/ Clocks

RelaySpec == RelayInit /\ [][RelayNext]_allVars

--------------------------------------------------------------------------
(* Properties                                                              *)

\* The media state never holds a claim, a soft hold or a caller route of a
\* lease the session has forgotten: whoever has the caller can still be
\* revoked by name, and is what a heartbeat, a sweep or a phone talks about.
NoHiddenAuthority ==
    \A b \in Held(m) : \E p \in s.prepared : p.l = b.lease

\* Whoever has the caller holds a lease the registry still knows: its phone
\* can renew it and give it back, and the sweeps look at it.
SpeakerIsRegistered ==
    \A b \in HeldRoute(m) : RegOf(World, b.lease) # {}

\* A peer that media has open is the peer of a route of the session, with
\* the same binding, whenever the session is not in the middle of opening:
\* an orphan would block every later claim and answer to nobody.
NoOrphanPeer ==
    offering = {} => \A p \in m.peers : \E r \in s.routes : r.b = p.b

\* The registry holds one consult or takeover lease at a time, and between
\* two frames the book has the claims of every lease it holds: a heartbeat
\* never renews what was already taken back.
SoleClaimant ==
    /\ \A q, r \in s.reg : Talker(q.l) /\ Talker(r.l) => q = r
    /\ Ready => \A r \in s.reg : Current(World, r.l) # {}

\* Authority does not outlive its media because an event was lost: once the
\* caller is Aokie's again and the lease has no peer, a claim slot still held
\* is one the sweeps will look at, by the registry or by its deadline.
LostEventEndsAuthority ==
    Ready /\ events = <<>> /\ Held(m) = {} =>
        \A p \in s.prepared :
            \/ RegOf(World, p.l) # {} \/ p.rebind # "none"
            \/ PeersOf(m, p.l) # {}
=============================================================================
