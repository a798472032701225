------------------------------ MODULE Gateway ------------------------------
(***************************************************************************)
(* The realtime gateway (crates/aokie-realtime/src/v2.rs): the broker      *)
(* between one desktop plugin and the owner's phones.  It holds the        *)
(* plugin's published call, offers it to the phones, lets the first one to *)
(* answer win, turns the answer into a lease, and keeps at most one claim  *)
(* on the caller's line.                                                   *)
(*                                                                         *)
(* Every handler runs under the app mutex and is one action.  The inputs   *)
(* are what any phone and any plugin may send; a frame the handler refuses *)
(* changes nothing, and a fatal refusal closes the sender's socket, which  *)
(* is MobileLeaves or PluginLeaves.  An optional field is a set of at most *)
(* one element.  A call stands for its call epoch; a lease's jti is its id *)
(* and the generation gen that every renewal moves.  Times are flags: late *)
(* once the deadline has passed.  The revisions of the snapshot appear as  *)
(* "has it moved since": drift for the offers, which all carry the         *)
(* revisions of the last refresh, and a field fresh elsewhere.             *)
(***************************************************************************)
EXTENDS Naturals, FiniteSets, Sequences

CONSTANTS Devices, Calls, Scopes

(* A scope bounds a behaviour: the phones that take part, the consents and  *)
(* service modes the plugin may publish, owner epochs, leases ever granted, *)
(* renewals of one lease, assistance requests, caller-ending confirmations, *)
(* waiting mute requests and queued signals.                                *)
ASSUME GatewayScopes ==
    /\ Calls \subseteq Nat \ {0}
    /\ Scopes \subseteq
         [devices : SUBSET Devices,
          consents : SUBSET SUBSET {"monitor", "consult", "takeover", "help"},
          services : SUBSET {"aokie", "consult", "takeover"}, owner : Nat,
          leases : Nat, gens : Nat, asks : Nat, ends : Nat, mutes : Nat,
          queue : Nat]

VARIABLES scope,
    plugin,      \* "live", "grace" (within PLUGIN_RECONNECT_GRACE) or "gone"
    seen,        \* authoritative_publication_seen of the plugin's socket
    mobiles,     \* the phones with a current socket
    dead,        \* those whose socket task panicked and never unregistered
    snapshot,    \* the published call
    idle,        \* the idle assertion: the call epoch it closed, or 0
    drift,       \* the revisions moved since the offers were refreshed
    fence,       \* next_fence
    granted, asked, issued,  \* leases, requests for help, challenges so far
    leases, claim,
    pending, accepted, winners,   \* offers, answered offers, first winners
    resumable,   \* plugin_reconnect_resumable_leases
    queued,      \* queued_plugin_signals
    assistance,
    mutes,       \* pending_microphone_mutes
    challenges, operation, used,  \* end_caller_*, used_end_caller_confirmations
    executed     \* history: how often each confirmation was relayed

conn == <<plugin, seen, mobiles, dead>>
call == <<snapshot, idle, drift>>
offers == <<pending, accepted, winners>>
book == <<fence, granted, leases, claim, resumable, queued>>
help == <<assistance, asked>>
ends == <<challenges, operation, used, executed, issued>>
vars == <<scope, conn, call, offers, book, help, mutes, ends>>

Modes == {"monitor", "consult", "takeover"}
Consents == SUBSET (Modes \cup {"help"})
Talks(m) == m \in {"consult", "takeover"}

Snapshots == [call : Calls, owner : Nat, allows : Consents,
              service : {"aokie", "consult", "takeover"}, ended : BOOLEAN]
Opportunities == [call : Calls, owner : Nat, mode : Modes, ask : Nat]
Offers == [dev : Devices, opp : Opportunities, late : BOOLEAN]
Jtis == [id : Nat, gen : Nat]
Leases == [id : Nat, gen : Nat, dev : Devices, mode : Modes,
           prepared : BOOLEAN, call : Calls, owner : Nat, fence : Nat,
           opp : Opportunities, late : BOOLEAN, sent : BOOLEAN, heard : BOOLEAN]
Claims == [id : Nat, gen : Nat, dev : Devices, mode : Modes, fence : Nat,
           call : Calls, active : BOOLEAN]

TypeOK ==
    /\ scope \in Scopes
    /\ plugin \in {"live", "grace", "gone"}
    /\ seen \in BOOLEAN
    /\ mobiles \subseteq Devices /\ dead \subseteq mobiles
    /\ snapshot \subseteq Snapshots /\ Cardinality(snapshot) <= 1
    /\ idle \subseteq Calls \cup {0} /\ Cardinality(idle) <= 1
    /\ drift \in BOOLEAN
    /\ fence \in Nat /\ granted \in Nat /\ asked \in Nat /\ issued \in Nat
    /\ leases \subseteq Leases
    /\ claim \subseteq Claims /\ Cardinality(claim) <= 1
    /\ pending \subseteq Offers /\ accepted \subseteq Offers
    /\ winners \subseteq [opp : Opportunities, dev : Devices]
    /\ resumable \subseteq Jtis
    /\ queued \in Seq(Jtis)
    /\ assistance \subseteq [ask : Nat, transfer : BOOLEAN, answered : BOOLEAN,
                             fresh : BOOLEAN, late : BOOLEAN]
    /\ Cardinality(assistance) <= 1
    /\ mutes \subseteq [dev : Devices, id : Nat, gen : Nat]
    /\ challenges \subseteq [n : Nat, dev : Devices, id : Nat, gen : Nat,
                             fresh : BOOLEAN, late : BOOLEAN]
    /\ operation \subseteq [n : Nat, dev : Devices, id : Nat, gen : Nat]
    /\ Cardinality(operation) <= 1
    /\ used \subseteq Nat
    /\ executed \in [1..scope.ends -> 0..2]

Init ==
    /\ scope \in Scopes
    /\ plugin = "gone" /\ seen = FALSE /\ mobiles = {} /\ dead = {}
    /\ snapshot = {} /\ idle = {} /\ drift = FALSE
    /\ fence = 0 /\ granted = 0 /\ asked = 0 /\ issued = 0 /\ leases = {} /\ claim = {}
    /\ pending = {} /\ accepted = {} /\ winners = {}
    /\ resumable = {} /\ queued = <<>>
    /\ assistance = {} /\ mutes = {}
    /\ challenges = {} /\ operation = {} /\ used = {}
    /\ executed = [n \in 1..scope.ends |-> 0]

----------------------------------------------------------------------------
(* Revocation.  revoke_one drops a lease and everything that names its jti. *)

Jti(r) == [id |-> r.id, gen |-> r.gen]
JtisOf(S) == {Jti(r) : r \in S}
Unnamed(S, gone) == {r \in S : Jti(r) \notin JtisOf(gone)}

(* queued_plugin_signals.retain, in revoke_one.                             *)
Retained(gone) ==
    LET kept[n \in 0..Len(queued)] ==
            IF n = 0 THEN <<>>
            ELSE IF queued[n] \in JtisOf(gone) THEN kept[n - 1]
            ELSE Append(kept[n - 1], queued[n])
    IN  kept[Len(queued)]

(* Mutant: the queued signals of a revoked lease stay.                      *)
BookAfterKeepsQueue(gone) ==
    /\ leases' = leases \ gone
    /\ claim' = Unnamed(claim, gone)
    /\ resumable' = resumable \ JtisOf(gone)
    /\ UNCHANGED <<queued, fence, granted>>

(* What revoking the leases gone leaves of the book.                        *)
BookAfter(gone) ==
    /\ leases' = leases \ gone
    /\ claim' = Unnamed(claim, gone)
    /\ resumable' = resumable \ JtisOf(gone)
    /\ queued' = Retained(gone)
    /\ UNCHANGED <<fence, granted>>
EndsAfter(gone) ==
    /\ challenges' = Unnamed(challenges, gone)
    /\ operation' = Unnamed(operation, gone)
    /\ UNCHANGED <<used, executed, issued>>
WinnersAfter(gone) == {w \in winners : \A l \in gone : l.opp # w.opp}

(* release_offer_winner, for the accepted offers S: the exact winner only.  *)
Released(W, S) == {w \in W : \A o \in S : ~(o.opp = w.opp /\ o.dev = w.dev)}
OffersOf(D) == {o \in accepted : o.dev \in D}
LeasesOf(D) == {l \in leases : l.dev \in D}

(* recover_device, for the phones D: accepted offers and leases both go.    *)
Recovered(D) ==
    /\ BookAfter(LeasesOf(D))
    /\ EndsAfter(LeasesOf(D))

----------------------------------------------------------------------------
(* refresh_pending_mobile_offers: prune what no longer matches the call,    *)
(* the consent or the phones, release the winners of what was pruned, and   *)
(* mint an offer for every phone and mode that has none and no winner.      *)

(* The transfer request the takeover offers carry, 0 for none.              *)
LiveAsk(A) == {r \in A : ~r.answered /\ ~r.late /\ r.fresh}
TransferAsk(A) == IF \E r \in LiveAsk(A) : r.transfer
                  THEN (CHOOSE r \in LiveAsk(A) : r.transfer).ask ELSE 0
ConsultAsk(A) == \E r \in LiveAsk(A) : ~r.transfer

Opportunity(s, m, A) ==
    [call |-> s.call, owner |-> s.owner, mode |-> m,
     ask |-> IF m = "takeover" THEN TransferAsk(A) ELSE 0]

(* An offer that refresh keeps.                                             *)
StillGood(o, s, moved, A, D) ==
    /\ ~moved /\ ~o.late
    /\ o.opp = Opportunity(s, o.opp.mode, A)
    /\ o.opp.mode \in s.allows
    /\ o.dev \in D

Minted(s, A, D, W) ==
    LET open == {m \in s.allows \cap Modes :
                   /\ m = "consult" => ConsultAsk(A)
                   /\ \A w \in W : w.opp # Opportunity(s, m, A)}
    IN  {[dev |-> d, opp |-> Opportunity(s, m, A), late |-> FALSE] :
           d \in D, m \in open}

RefreshOffers(S, moved, A, D, P, Q, W) ==
    IF \E s \in S : ~s.ended
    THEN LET s == CHOOSE s \in S : TRUE
             kept == {o \in Q : StillGood(o, s, moved, A, D)}
             won == Released(W, Q \ kept)
         IN  /\ accepted' = kept
             /\ winners' = won
             /\ pending' = {o \in P : StillGood(o, s, moved, A, D)}
                           \cup Minted(s, A, D, won)
             /\ drift' = FALSE
    ELSE /\ accepted' = {} /\ winners' = {} /\ pending' = {}
         /\ drift' = FALSE

----------------------------------------------------------------------------
(* Sockets.                                                                 *)

(* register_plugin by the same authority while its old socket is live: the  *)
(* phones in drop left the roster and lose their offers and leases.         *)
PluginRotates(drop) ==
    /\ plugin = "live"
    /\ mobiles' = mobiles \ drop /\ dead' = dead \ drop
    /\ seen' = FALSE
    /\ BookAfter(LeasesOf(Devices \ mobiles'))
    /\ EndsAfter(LeasesOf(Devices \ mobiles'))
    /\ accepted' = accepted \ OffersOf(drop)
    /\ winners' = Released(WinnersAfter(LeasesOf(Devices \ mobiles')),
                           OffersOf(drop))
    /\ UNCHANGED <<scope, plugin, call, pending, help, mutes>>

(* register_plugin by the same authority within the grace: only a prepared  *)
(* lease that no plugin signal had touched is resumed (its proposal and     *)
(* the queued signals are sent again), everything else is revoked.          *)
PluginReconnects(drop) ==
    /\ plugin = "grace"
    /\ plugin' = "live" /\ seen' = FALSE
    /\ mobiles' = mobiles \ drop /\ dead' = dead \ drop
    /\ LET kept == {l \in leases : /\ l.dev \in mobiles' /\ l.prepared
                                   /\ ~l.heard /\ Jti(l) \in resumable}
           gone == leases \ kept
       IN  /\ leases' = kept
           /\ claim' = Unnamed(claim, gone)
           /\ EndsAfter(gone)
           /\ RefreshOffers(snapshot, drift, assistance, mobiles', pending,
                            accepted \ OffersOf(drop),
                            Released(WinnersAfter(gone), OffersOf(drop)))
    /\ resumable' = {} /\ queued' = <<>>
    /\ UNCHANGED <<scope, snapshot, idle, fence, granted, help, mutes>>

(* Everything but the talk fence and the pending mutes.                     *)
ForgottenCall ==
    /\ mobiles' = {} /\ dead' = {} /\ snapshot' = {} /\ idle' = {} /\ drift' = FALSE
    /\ leases' = {} /\ claim' = {} /\ resumable' = {} /\ queued' = <<>>
    /\ pending' = {} /\ accepted' = {} /\ winners' = {}
    /\ assistance' = {} /\ challenges' = {} /\ operation' = {} /\ used' = {}
    /\ UNCHANGED <<scope, granted, asked, mutes, executed, issued>>

Forgotten == ForgottenCall /\ UNCHANGED fence

(* register_plugin by another authority, or after the grace.                *)
PluginConnects ==
    /\ plugin' = "live" /\ seen' = FALSE
    /\ Forgotten

(* Mutant: any lease without signals may wait for the plugin.               *)
UnsignalledWaits(l) == ~l.sent /\ ~l.heard /\ l.dev \in mobiles

(* A lease that may wait for the plugin to reconnect.                       *)
Waits(l) == l.prepared /\ ~l.sent /\ ~l.heard /\ l.dev \in mobiles

(* unregister of the plugin: a prepared lease with no signal either way may *)
(* wait for the same authority, every other lease is revoked at once.       *)
PluginLeaves ==
    /\ plugin = "live"
    /\ plugin' = "grace"
    /\ LET kept == {l \in leases : Waits(l)}
           gone == leases \ kept
       IN  /\ leases' = kept
           /\ claim' = Unnamed(claim, gone)
           /\ EndsAfter(gone)
           /\ winners' = WinnersAfter(gone)
           /\ resumable' = JtisOf(kept)
    /\ queued' = <<>>
    /\ UNCHANGED <<scope, seen, mobiles, dead, call, pending, accepted, fence,
                   granted, help, mutes>>

(* The clean-up unregister spawned finds nobody reconnected in the grace.   *)
GraceEnds ==
    /\ plugin = "grace"
    /\ plugin' = "gone"
    /\ UNCHANGED seen
    /\ Forgotten

(* register_mobile: a phone that comes back with another session nonce      *)
(* first loses what its old session held; a rolling refresh keeps it.       *)
MobileConnects(d, rolling) ==
    /\ plugin = "live" /\ snapshot \cup idle # {}
    /\ d \in scope.devices
    /\ rolling => d \in mobiles
    /\ mobiles' = mobiles \cup {d} /\ dead' = dead \ {d}
    /\ IF rolling
       THEN /\ RefreshOffers(snapshot, drift, assistance, mobiles', pending,
                             accepted, winners)
            /\ UNCHANGED <<book, ends>>
       ELSE /\ Recovered({d})
            /\ RefreshOffers(snapshot, drift, assistance, mobiles', pending,
                             accepted \ OffersOf({d}),
                             Released(WinnersAfter(LeasesOf({d})),
                                      OffersOf({d})))
    /\ UNCHANGED <<scope, plugin, seen, snapshot, idle, help, mutes>>

(* A phone whose frames the gateway reads.                                  *)
Reads(d) == d \in mobiles /\ d \notin dead

(* Mutant: the phone's accepted offers go, the wins they hold do not.       *)
MobileLeavesHoldsWins(d) ==
    /\ Reads(d)
    /\ mobiles' = mobiles \ {d} /\ UNCHANGED dead
    /\ Recovered({d})
    /\ accepted' = accepted \ OffersOf({d})
    /\ winners' = WinnersAfter(LeasesOf({d}))
    /\ UNCHANGED <<scope, plugin, seen, call, pending, help, mutes>>

(* unregister of a phone.                                                   *)
MobileLeaves(d) ==
    /\ Reads(d)
    /\ mobiles' = mobiles \ {d} /\ UNCHANGED dead
    /\ Recovered({d})
    /\ accepted' = accepted \ OffersOf({d})
    /\ winners' = Released(WinnersAfter(LeasesOf({d})), OffersOf({d}))
    /\ UNCHANGED <<scope, plugin, seen, call, pending, help, mutes>>

----------------------------------------------------------------------------
(* Publications.                                                            *)

SnapshotRegresses(p, s) ==
    s.call < p.call \/ (s.call = p.call /\ s.owner < p.owner)

(* handle_snapshot.  A regressing snapshot is refused unless it is the      *)
(* first publication of a new socket, which drops every old authority.      *)
(* moved: the switchboard or the remote revision is another one.            *)
Snapshot(s, moved) ==
    /\ plugin = "live"
    /\ LET regresses == \/ \E p \in snapshot : SnapshotRegresses(p, s)
                        \/ \E t \in idle : s.call <= t
           changed == \E p \in snapshot : p.call # s.call \/ p.owner # s.owner
           reset == regresses \/ changed \/ s.ended
           gone == IF reset THEN leases
                   ELSE {l \in leases : l.mode \notin s.allows}
           kept == IF reset \/ "help" \notin s.allows THEN {}
                   ELSE {[r EXCEPT !.fresh = @ /\ ~moved] : r \in assistance}
       IN  /\ regresses => ~seen
           /\ BookAfter(gone)
           /\ challenges' = IF moved \/ snapshot # {s} THEN {}
                            ELSE Unnamed(challenges, gone)
           /\ operation' = IF regresses THEN {} ELSE Unnamed(operation, gone)
           /\ UNCHANGED <<used, executed, issued>>
           /\ assistance' = kept
           /\ RefreshOffers({s}, moved \/ drift, kept, mobiles,
                            IF reset THEN {} ELSE pending,
                            IF reset THEN {} ELSE accepted,
                            IF reset THEN {} ELSE WinnersAfter(gone))
    /\ snapshot' = {s} /\ idle' = {} /\ seen' = TRUE
    /\ UNCHANGED <<scope, plugin, mobiles, dead, asked, mutes>>

(* handle_idle: no call; every call authority is cleared and the epoch that *)
(* ended stays as a tombstone.  A repeated assertion changes nothing.       *)
Idle ==
    /\ plugin = "live"
    /\ seen' = TRUE
    /\ IF snapshot = {} /\ idle # {}
       THEN UNCHANGED <<call, offers, book, help, ends>>
       ELSE /\ idle' = IF snapshot = {} THEN {0}
                       ELSE {s.call : s \in snapshot}
            /\ snapshot' = {} /\ drift' = FALSE
            /\ BookAfter(leases)
            /\ pending' = {} /\ accepted' = {} /\ winners' = {}
            /\ assistance' = {}
            /\ challenges' = {} /\ operation' = {}
            /\ UNCHANGED <<used, executed, issued>>
    /\ UNCHANGED <<scope, plugin, mobiles, dead, asked, mutes>>

----------------------------------------------------------------------------
(* Offers, leases and the claim.                                            *)

(* validate_lease_binding against the published call.                       *)
Current(l) ==
    /\ Reads(l.dev)
    /\ \E s \in snapshot : l.call = s.call /\ l.owner = s.owner
Bound(l) == plugin = "live" /\ ~l.late /\ Current(l)

(* handle_mobile_offer_answer: the first answer wins the opportunity.       *)
AnswerOffer(o) ==
    /\ o \in pending /\ Reads(o.dev) /\ ~drift
    /\ \E s \in snapshot : /\ o.opp.call = s.call /\ o.opp.owner = s.owner
                           /\ o.opp.mode \in s.allows
    /\ \A w \in winners : w.opp # o.opp
    /\ winners' = winners \cup {[opp |-> o.opp, dev |-> o.dev]}
    /\ pending' = {p \in pending : p.opp # o.opp}
    /\ accepted' = accepted \cup {o}
    /\ UNCHANGED <<scope, conn, call, book, help, mutes, ends>>

(* An accepted offer expires and holds its opportunity until a refresh.  (A *)
(* pending one that expires is one nobody answers before it is re-minted.)  *)
OfferLapses(o) ==
    /\ o \in accepted /\ ~o.late
    /\ accepted' = (accepted \ {o}) \cup {[o EXCEPT !.late = TRUE]}
    /\ UNCHANGED <<scope, conn, call, pending, winners, book, help, mutes,
                   ends>>

(* handle_lease_request with the accepted offer o.                          *)
MayRequestLease(o) ==
    /\ o \in accepted /\ ~o.late /\ ~drift /\ Reads(o.dev)
    /\ \E s \in snapshot : /\ o.opp.call = s.call /\ o.opp.owner = s.owner
                           /\ ~s.ended /\ o.opp.mode \in s.allows
Lapsed == {l \in leases : l.late}
LineTaken(o) == Talks(o.opp.mode) /\ Unnamed(claim, Lapsed) # {}
FenceFor(o) == IF o.opp.mode = "takeover" THEN fence + 1 ELSE 0

(* Expired leases are pruned first; a first talk claim gets the next fence  *)
(* and is proposed to the plugin.                                           *)
RequestLease(o) ==
    /\ MayRequestLease(o) /\ ~LineTaken(o) /\ plugin = "live"
    /\ granted < scope.leases
    /\ LET n == granted + 1
           l == [id |-> n, gen |-> 0, dev |-> o.dev, mode |-> o.opp.mode,
                 prepared |-> Talks(o.opp.mode), call |-> o.opp.call,
                 owner |-> o.opp.owner, fence |-> FenceFor(o), opp |-> o.opp,
                 late |-> FALSE, sent |-> FALSE, heard |-> FALSE]
       IN  /\ granted' = n
           /\ leases' = (leases \ Lapsed) \cup {l}
           /\ claim' = IF Talks(o.opp.mode)
                       THEN {[id |-> n, gen |-> 0, dev |-> o.dev,
                              mode |-> o.opp.mode, fence |-> FenceFor(o),
                              call |-> o.opp.call, active |-> FALSE]}
                       ELSE Unnamed(claim, Lapsed)
    /\ fence' = IF o.opp.mode = "takeover" THEN fence + 1 ELSE fence
    /\ resumable' = resumable \ JtisOf(Lapsed)
    /\ queued' = Retained(Lapsed)
    /\ accepted' = accepted \ {o}
    /\ winners' = WinnersAfter(Lapsed)
    /\ EndsAfter(Lapsed)
    /\ UNCHANGED <<scope, conn, call, pending, help, mutes>>

(* claim_already_won: only the pruning has happened.                        *)
RefuseLease(o) ==
    /\ MayRequestLease(o) /\ LineTaken(o)
    /\ BookAfter(Lapsed)
    /\ EndsAfter(Lapsed)
    /\ winners' = WinnersAfter(Lapsed)
    /\ UNCHANGED <<scope, conn, call, pending, accepted, help, mutes>>

(* The same request while the plugin is away: the handler takes the fence,  *)
(* then app.plugin is None where it says "checked plugin".  The panic ends  *)
(* the phone's socket task before unregister.                               *)
RequestPanics(o) ==
    /\ MayRequestLease(o) /\ ~LineTaken(o) /\ plugin # "live"
    /\ fence < scope.leases
    /\ dead' = dead \cup {o.dev}
    /\ leases' = leases \ Lapsed
    /\ claim' = Unnamed(claim, Lapsed)
    /\ resumable' = resumable \ JtisOf(Lapsed)
    /\ queued' = Retained(Lapsed)
    /\ fence' = IF o.opp.mode = "takeover" THEN fence + 1 ELSE fence
    /\ EndsAfter(Lapsed)
    /\ winners' = WinnersAfter(Lapsed)
    /\ UNCHANGED <<scope, plugin, seen, mobiles, call, pending, accepted,
                   granted, help, mutes>>

(* handle_claim_decision, accepted: the plugin confirmed owner epoch e.     *)
(* Every other lease is of the old epoch and is revoked; the claim's lease  *)
(* becomes active under a new jti.                                          *)
AcceptClaim(c, e) ==
    /\ plugin = "live" /\ c \in claim /\ ~c.active
    /\ \E s \in snapshot : s.owner < e
    /\ \E l \in leases :
         /\ Jti(l) = Jti(c)
         /\ LET gone == leases \ {l}
                a == [l EXCEPT !.owner = e, !.prepared = FALSE,
                               !.late = FALSE, !.gen = @ + 1,
                               !.sent = FALSE, !.heard = FALSE]
            IN  /\ leases' = {a}
                /\ claim' = {[c EXCEPT !.active = TRUE, !.gen = a.gen]}
                /\ resumable' = resumable \ JtisOf(gone)
                /\ queued' = Retained(gone)
                /\ winners' = WinnersAfter(gone)
                /\ EndsAfter(gone)
    /\ snapshot' = {[s EXCEPT !.owner = e,
                              !.service = IF c.mode = "takeover"
                                          THEN "takeover" ELSE "aokie"] :
                       s \in snapshot}
    /\ drift' = TRUE
    /\ assistance' = {[r EXCEPT !.fresh = FALSE] : r \in assistance}
    /\ UNCHANGED <<scope, conn, idle, pending, accepted, fence, granted, asked,
                   mutes>>

(* handle_claim_decision, refused: the lease goes and the offers return.    *)
RejectClaim(c) ==
    /\ plugin = "live" /\ c \in claim /\ ~c.active
    /\ LET gone == {l \in leases : Jti(l) = Jti(c)}
       IN  /\ BookAfter(gone)
           /\ EndsAfter(gone)
           /\ RefreshOffers(snapshot, drift, assistance, mobiles, pending,
                            accepted, WinnersAfter(gone))
    /\ UNCHANGED <<scope, conn, snapshot, idle, help, mutes>>

(* Mutant: the claim keeps the old jti.                                     *)
ClaimNotRenewed(l) == claim

(* The claim follows its lease to the next jti.                             *)
ClaimRenewed(l) ==
    {IF Jti(c) = Jti(l) THEN [c EXCEPT !.gen = l.gen + 1] ELSE c : c \in claim}

(* handle_lease_heartbeat: the lease goes on under a new jti.               *)
Heartbeat(l) ==
    /\ l \in leases /\ Bound(l)
    /\ l.gen < scope.gens
    /\ leases' = (leases \ {l}) \cup {[l EXCEPT !.gen = @ + 1]}
    /\ claim' = ClaimRenewed(l)
    /\ UNCHANGED <<scope, conn, call, offers, fence, granted, resumable, queued,
                   help, mutes, ends>>

LeaseLapses(l) ==
    /\ l \in leases /\ ~l.late
    /\ leases' = (leases \ {l}) \cup {[l EXCEPT !.late = TRUE]}
    /\ UNCHANGED <<scope, conn, call, offers, fence, granted, claim, resumable,
                   queued, help, mutes, ends>>

Revoke(l) ==
    /\ BookAfter({l})
    /\ EndsAfter({l})
    /\ winners' = WinnersAfter({l})
    /\ UNCHANGED <<scope, conn, call, pending, accepted, help, mutes>>

(* handle_mobile_revoke: also while the plugin reconnects.                  *)
MobileRevoke(l) ==
    /\ l \in leases /\ ~l.late /\ Current(l)
    /\ plugin = "live" \/ (plugin = "grace" /\ Jti(l) \in resumable)
    /\ Revoke(l)

(* handle_plugin_revoke: by exact jti; an older jti is refused.             *)
PluginRevoke(l) ==
    /\ plugin = "live" /\ l \in leases
    /\ Revoke(l)

(* handle_mobile_rtc: forwarded, or queued while the plugin reconnects.     *)
(* Whether a signal has passed is only ever read of a prepared lease.       *)
MobileSignal(l) ==
    /\ l \in leases /\ l.prepared /\ ~l.late /\ Current(l)
    /\ \/ plugin = "live" /\ UNCHANGED queued
       \/ /\ plugin = "grace" /\ Jti(l) \in resumable
          /\ Len(queued) < scope.queue
          /\ queued' = Append(queued, Jti(l))
    /\ leases' = (leases \ {l}) \cup {[l EXCEPT !.sent = TRUE]}
    /\ UNCHANGED <<scope, conn, call, offers, fence, granted, claim, resumable,
                   help, mutes, ends>>

(* handle_plugin_rtc.                                                       *)
PluginSignal(l) ==
    /\ plugin = "live" /\ l \in leases /\ l.prepared /\ ~l.late
    /\ leases' = (leases \ {l}) \cup {[l EXCEPT !.heard = TRUE]}
    /\ UNCHANGED <<scope, conn, call, offers, fence, granted, claim, resumable,
                   queued, help, mutes, ends>>

----------------------------------------------------------------------------
(* Assistance.                                                              *)

(* handle_assistance_request: one unanswered request at a time; the offers  *)
(* that carry it are minted with it.                                        *)
AskForHelp(transfer) ==
    /\ asked < scope.asks
    /\ asked' = asked + 1
    /\ plugin = "live" /\ \E s \in snapshot : "help" \in s.allows
    /\ \A r \in assistance : r.answered \/ r.late
    /\ assistance' = {[ask |-> asked', transfer |-> transfer, answered |-> FALSE,
                       fresh |-> TRUE, late |-> FALSE]}
    /\ RefreshOffers(snapshot, drift, assistance', mobiles, pending, accepted,
                     winners)
    /\ UNCHANGED <<scope, conn, snapshot, idle, book, mutes, ends>>

(* handle_assistance_answer: relayed to the plugin, once.                   *)
AnswerHelp(r, d) ==
    /\ plugin = "live" /\ Reads(d)
    /\ r \in LiveAsk(assistance)
    /\ \E s \in snapshot : "help" \in s.allows
    /\ assistance' = {[r EXCEPT !.answered = TRUE]}
    /\ UNCHANGED <<scope, conn, call, offers, book, asked, mutes, ends>>

AskLapses(r) ==
    /\ r \in assistance /\ ~r.late
    /\ assistance' = {[r EXCEPT !.late = TRUE]}
    /\ UNCHANGED <<scope, conn, call, offers, book, asked, mutes, ends>>

----------------------------------------------------------------------------
(* The microphone and the end of the call.                                  *)

Moved(A) == {[r EXCEPT !.fresh = FALSE] : r \in A}

(* handle_microphone_mute: one request per phone waits for the plugin.      *)
MuteRequest(l) ==
    /\ l \in leases /\ Bound(l) /\ ~l.prepared /\ Talks(l.mode)
    /\ \E s \in snapshot : s.service = l.mode
    /\ \A q \in mutes : q.dev # l.dev
    /\ Cardinality(mutes) < scope.mutes
    /\ mutes' = mutes \cup {[dev |-> l.dev, id |-> l.id, gen |-> l.gen]}
    /\ UNCHANGED <<scope, conn, call, offers, book, help, ends>>

(* handle_microphone_mute_status: the request must still name a live jti.   *)
(* The plugin's status moves the remote revision.                           *)
MuteStatus(q) ==
    /\ plugin = "live" /\ q \in mutes
    /\ \E l \in leases : Jti(l) = Jti(q) /\ ~l.prepared
    /\ mutes' = mutes \ {q}
    /\ drift' = TRUE
    /\ assistance' = Moved(assistance)
    /\ challenges' = Moved(challenges)
    /\ UNCHANGED <<scope, conn, snapshot, idle, offers, book, asked, operation, used,
                   executed, issued>>

(* validate_end_caller_state: the exact active takeover owner.              *)
MayEnd(l) ==
    /\ Reads(l.dev) /\ l.mode = "takeover" /\ ~l.prepared /\ ~l.late
    /\ \E c \in claim : c.active /\ c.mode = "takeover" /\ Jti(c) = Jti(l)
    /\ \E s \in snapshot : /\ ~s.ended /\ s.service = "takeover"
                           /\ s.call = l.call /\ s.owner = l.owner
                           /\ "takeover" \in s.allows

(* handle_end_caller_challenge_request: a new challenge replaces the        *)
(* phone's older ones.                                                      *)
EndChallenge(l) ==
    /\ issued < scope.ends
    /\ issued' = issued + 1
    /\ l \in leases /\ MayEnd(l) /\ operation = {}
    /\ challenges' =
         {c \in challenges : ~c.late /\ c.dev # l.dev}
         \cup {[n |-> issued', dev |-> l.dev, id |-> l.id, gen |-> l.gen,
                fresh |-> TRUE, late |-> FALSE]}
    /\ UNCHANGED <<scope, conn, call, offers, book, help, mutes,
                   operation, used, executed>>

ChallengeLapses(c) ==
    /\ c \in challenges /\ ~c.late
    /\ challenges' = (challenges \ {c}) \cup {[c EXCEPT !.late = TRUE]}
    /\ UNCHANGED <<scope, conn, call, offers, book, help, mutes,
                   operation, used, executed, issued>>

(* Mutant: the confirmation stays good.                                     *)
NotConsumed(c) == UNCHANGED <<challenges, used>>

Consumed(c) ==
    /\ challenges' = challenges \ {c}
    /\ used' = used \cup {c.n}

(* handle_end_caller_confirm: the confirmation is consumed before the order *)
(* to end the call is relayed to the plugin.                                *)
EndConfirm(c) ==
    /\ c \in challenges /\ c.n \notin used /\ Reads(c.dev)
    /\ Consumed(c)
    /\ IF c.late
       THEN UNCHANGED <<operation, executed>>
       ELSE /\ c.fresh /\ operation = {} /\ plugin = "live"
            /\ \E l \in leases : Jti(l) = Jti(c) /\ MayEnd(l)
            /\ operation' = {[n |-> c.n, dev |-> c.dev, id |-> c.id,
                              gen |-> c.gen]}
            /\ executed' = [executed EXCEPT ![c.n] = IF @ < 2 THEN @ + 1 ELSE @]
    /\ UNCHANGED <<scope, conn, call, offers, book, help, mutes, issued>>

(* handle_end_caller_result: a completed end revokes the lease it names.    *)
EndResult(completed) ==
    /\ plugin = "live" /\ operation # {}
    /\ LET gone == {l \in leases : completed /\ Jti(l) \in JtisOf(operation)}
       IN  /\ BookAfter(gone)
           /\ winners' = WinnersAfter(gone)
           /\ challenges' = Unnamed(challenges, gone)
    /\ operation' = {}
    /\ UNCHANGED <<scope, conn, call, pending, accepted, help, mutes, used,
                   executed, issued>>

----------------------------------------------------------------------------
(* What the phones and the plugin may send within the scope.                *)

Sockets ==
    \/ \E drop \in SUBSET mobiles : PluginRotates(drop) \/ PluginReconnects(drop)
    \/ PluginConnects \/ PluginLeaves \/ GraceEnds
    \/ \E d \in scope.devices : \/ \E r \in BOOLEAN : MobileConnects(d, r)
                                \/ MobileLeaves(d)
Publications ==
    \/ \E c \in Calls, e \in 1..scope.owner, ok \in scope.consents,
          v \in scope.services, over \in BOOLEAN, moved \in BOOLEAN :
          /\ over => moved
          /\ Snapshot([call |-> c, owner |-> e, allows |-> ok, service |-> v,
                       ended |-> over], moved)
    \/ Idle
Claiming ==
    \/ \E o \in pending : AnswerOffer(o)
    \/ \E o \in accepted : \/ OfferLapses(o) \/ RequestLease(o)
                            \/ RefuseLease(o) \/ RequestPanics(o)
    \/ \E c \in claim : RejectClaim(c) \/ \E e \in 1..scope.owner : AcceptClaim(c, e)
    \/ \E l \in leases : \/ Heartbeat(l) \/ LeaseLapses(l) \/ MobileRevoke(l)
                         \/ PluginRevoke(l) \/ MobileSignal(l) \/ PluginSignal(l)
Helping ==
    \/ \E t \in BOOLEAN : AskForHelp(t)
    \/ \E r \in assistance : AskLapses(r) \/ \E d \in mobiles : AnswerHelp(r, d)
Controls ==
    \/ \E l \in leases : MuteRequest(l) \/ EndChallenge(l)
    \/ \E q \in mutes : MuteStatus(q)
    \/ \E c \in challenges : ChallengeLapses(c) \/ EndConfirm(c)
    \/ \E b \in BOOLEAN : EndResult(b)

Next == Sockets \/ Publications \/ Claiming \/ Helping \/ Controls
Spec == Init /\ [][Next]_vars

----------------------------------------------------------------------------
(* One line to the caller: a talk lease exists only as the lease of the     *)
(* claim, under the same jti, fence and phase, so two phones never hold one *)
(* and no claim outlives its lease.                                         *)
ClaimHoldsTheLine ==
    /\ \A l \in leases : Talks(l.mode) => \E c \in claim : Jti(c) = Jti(l)
    /\ \A c \in claim : \E l \in leases :
         /\ Jti(l) = Jti(c) /\ l.dev = c.dev /\ l.mode = c.mode
         /\ l.fence = c.fence /\ l.call = c.call /\ l.prepared = ~c.active

(* An opportunity stays taken only while something uses it: its winner has  *)
(* an accepted offer or a live lease, so no answer can block the others for *)
(* ever.                                                                    *)
WinnerIsBacked ==
    \A w \in winners :
       \/ \E o \in accepted : o.opp = w.opp /\ o.dev = w.dev
       \/ \E l \in leases : l.opp = w.opp /\ l.dev = w.dev

(* No lease outlives what it was granted on: the published call and owner   *)
(* epoch, the consent to its mode, the phone's socket, and the plugin's, or *)
(* the right to wait for it.                                                *)
LeaseIsCurrent ==
    \A l \in leases :
       /\ \E s \in snapshot : /\ l.call = s.call /\ l.owner = s.owner
                              /\ l.mode \in s.allows /\ ~s.ended
       /\ l.dev \in mobiles
       /\ plugin = "live" \/ (Jti(l) \in resumable /\ l.prepared)

(* A confirmation to end the caller's call reaches the plugin at most once. *)
EndedOnce == \A n \in 1..scope.ends : executed[n] <= 1

(* While the plugin is away nothing is queued but signals of leases that    *)
(* will be proposed to it again.                                            *)
QueueIsResumable ==
    \A i \in 1..Len(queued) : \E l \in leases : /\ Jti(l) = queued[i]
                                                /\ Jti(l) \in resumable

(* The fence of the line only grows, and every new claim has its own.       *)
FenceGrows ==
    [][/\ fence' >= fence
       /\ \A c \in claim' : (c.mode = "takeover" /\ ~\E d \in claim : d.id = c.id)
                               => c.fence > fence]_vars

(* A lease request never reaches a handler that misses the plugin it calls  *)
(* checked (v2.rs, handle_lease_request): no phone's socket task panics.    *)
PluginIsChecked == dead = {}

(* A completed end closes the talk route at once: when its result is in,    *)
(* the lease that ordered it is gone (v2.rs, handle_end_caller_result).     *)
EndClosesTalk ==
    [][EndResult(TRUE) => \A o \in operation, l \in leases' : l.id # o.id]_vars
=============================================================================
