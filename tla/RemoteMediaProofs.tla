------------------------- MODULE RemoteMediaProofs --------------------------
(***************************************************************************)
(* What TLAPS proves of RemoteMedia: its invariants for any leases, calls  *)
(* and owner epochs.  First what the operators of RemoteMediaState keep of *)
(* one state of the mutex, those that begin nothing new (calls change,     *)
(* leases lapse, turns are ended and revoked), then those that begin or    *)
(* settle a turn (what the radio is asked to do, its acknowledgements,     *)
(* peers opened and holds requested); then the threads around the mutex.   *)
(***************************************************************************)
EXTENDS RemoteMedia, TLAPS

--------------------------------------------------------------------------
(* The inductive invariant, first the part about one state of the mutex    *)

\* The binding b is of the call the radio is on and of its owner epoch.
Here(s, b) == b.call = s.call /\ b.owner = s.owner[b.call]

\* At most one of the six fields is filled, with one binding.
Exclusive(s) ==
    /\ \A p, q \in s.prep : p.b = q.b
    /\ \A p, q \in s.claim : p.b = q.b
    /\ \A p, q \in s.pcons : p.b = q.b
    /\ \A p, q \in s.proute : p.b = q.b
    /\ \A p, q \in s.acons : p = q
    /\ \A p, q \in s.aroute : p = q
    /\ s.prep # {} => s.claim = {} /\ s.pcons = {} /\ s.acons = {}
                      /\ s.proute = {} /\ s.aroute = {}
    /\ s.claim # {} => s.pcons = {} /\ s.acons = {} /\ s.proute = {} /\ s.aroute = {}
    /\ s.pcons # {} => s.acons = {} /\ s.proute = {} /\ s.aroute = {}
    /\ s.acons # {} => s.proute = {} /\ s.aroute = {}
    /\ s.proute # {} => s.aroute = {}

\* The peers: one binding for a lease, of the current call, and one lease for
\* all that are not monitors.
PeersOK(s) ==
    /\ \A p \in s.peers : p.b.call = s.call
    /\ \A p, q \in s.peers : p.b.lease = q.b.lease => p.b = q.b
    /\ \A p, q \in s.peers :
          p.b.mode # "Monitor" /\ q.b.mode # "Monitor" => p.b.lease = q.b.lease

\* A filled field belongs to the current call, its owner epoch, and the lease
\* of the peers.
FieldOK(s, b, modes) ==
    /\ Here(s, b) /\ b.mode \in modes
    /\ \A p \in s.peers : p.b.lease = b.lease => p.b = b
    /\ \A p \in s.peers : p.b.mode # "Monitor" => p.b.lease = b.lease

FieldsOK(s) ==
    /\ \A p \in s.prep : FieldOK(s, p.b, {"PreparedConsult", "PreparedTalk"})
    /\ \A p \in s.pcons : FieldOK(s, p.b, {"Consult"})
    /\ \A b \in s.acons : FieldOK(s, b, {"Consult"})
    /\ \A p \in s.proute : FieldOK(s, p.b, {"Talk"})
    /\ \A b \in s.aroute : FieldOK(s, b, {"Talk"})
    /\ \A c \in s.claim :
          /\ c.b.call = s.call /\ c.confirmed = s.owner[c.b.call]
          /\ \A p \in s.peers : p.b.mode # "Monitor" => p.b.lease = c.b.lease

\* Some Companion has the caller, or is about to.
Routed(s) == s.pcons # {} \/ s.acons # {} \/ s.proute # {} \/ s.aroute # {}

\* The service is reserved while it is routed, and only for that or a return.
ServiceOK(s) ==
    /\ Routed(s) => s.service # "AokieActive"
    /\ s.service # "AokieActive" => Routed(s) \/ s.ret # {}
    /\ s.sent => s.ret # {}

\* What a tick keeps half way: peers may have expired under a field.
Loose(s) ==
    s \in MediaStates /\ Exclusive(s) /\ PeersOK(s) /\ FieldsOK(s) /\ ServiceOK(s)

HasPeer(s, b) == \E p \in s.peers : p.b = b

RoutesBacked(s) ==
    /\ \A b \in s.acons \cup s.aroute : HasPeer(s, b)
    /\ \A p \in s.proute : HasPeer(s, p.b)

HoldsBacked(s) == \A p \in s.pcons \cup s.prep : HasPeer(s, p.b)

MediaInv(s) == Loose(s) /\ RoutesBacked(s) /\ HoldsBacked(s)

\* Somebody is on the way to talk, or talks.
Turn(s) == s.claim # {} \/ s.proute # {} \/ s.aroute # {}

\* A step of the mutex that begins nothing new.
Fades(s, t) ==
    /\ \A c \in Calls : s.owner[c] <= t.owner[c]
    /\ Turn(t) => Turn(s) /\ t.call = s.call /\ s.aroute \subseteq t.aroute
    /\ SlotsEmpty(s) => SlotsEmpty(t)
    /\ \A p \in t.peers : \E q \in s.peers : q.b = p.b
    /\ Routed(t) => Routed(s)

Wanes(s, t) == Fades(s, t) /\ (t.sent => s.sent)

\* An operator that empties every field keeps the invariant.
LEMMA Emptied ==
    ASSUME NEW s, NEW t, Loose(s), t \in MediaStates, SlotsEmpty(t),
           t.peers \subseteq s.peers, t.call = s.call \/ t.peers = {},
           t.service # "AokieActive" => t.ret # {}, t.sent => t.ret # {}
    PROVE  MediaInv(t)
<1>1. PeersOK(t)
  BY Zenon DEF Loose, PeersOK
<1>2. Exclusive(t) /\ FieldsOK(t) /\ ServiceOK(t) /\ RoutesBacked(t) /\ HoldsBacked(t)
  BY Zenon DEF SlotsEmpty, Exclusive, FieldsOK, ServiceOK, Routed, RoutesBacked, HoldsBacked
<1>3. QED
  BY Zenon, <1>1, <1>2 DEF MediaInv, Loose

\* Nothing but lateness, consent and muting differs.
Alike(s, t) ==
    /\ t \in MediaStates
    /\ t.call = s.call /\ t.owner = s.owner /\ t.service = s.service
    /\ t.ret = s.ret /\ t.sent = s.sent /\ t.acons = s.acons /\ t.aroute = s.aroute
    /\ \A p \in t.prep : \E q \in s.prep : q.b = p.b
    /\ \A p \in t.pcons : \E q \in s.pcons : q.b = p.b
    /\ \A p \in t.proute : \E q \in s.proute : q.b = p.b
    /\ \A c \in t.claim : \E d \in s.claim : d.b = c.b /\ d.confirmed = c.confirmed
    /\ t.pcons = {} => s.pcons = {}
    /\ t.proute = {} => s.proute = {}
    /\ \A p \in t.peers : \E q \in s.peers : q.b = p.b

LEMMA AlikeKeeps ==
    ASSUME NEW s, NEW t, Loose(s), Alike(s, t)
    PROVE  Loose(t) /\ Wanes(s, t)
<1>1. PeersOK(t)
  BY DEF Loose, PeersOK, Alike
<1>2. Exclusive(t)
  BY DEF Loose, Exclusive, Alike
<1>3. FieldsOK(t)
  <2>1. \A b, modes : FieldOK(s, b, modes) => FieldOK(t, b, modes)
    BY DEF FieldOK, Here, Alike
  <2>2. /\ \A p \in t.prep : FieldOK(t, p.b, {"PreparedConsult", "PreparedTalk"})
        /\ \A p \in t.pcons : FieldOK(t, p.b, {"Consult"})
        /\ \A b \in t.acons : FieldOK(t, b, {"Consult"})
        /\ \A p \in t.proute : FieldOK(t, p.b, {"Talk"})
        /\ \A b \in t.aroute : FieldOK(t, b, {"Talk"})
    BY Zenon, <2>1 DEF Loose, FieldsOK, Alike
  <2>3. \A c \in t.claim :
          /\ c.b.call = t.call /\ c.confirmed = t.owner[c.b.call]
          /\ \A p \in t.peers : p.b.mode # "Monitor" => p.b.lease = c.b.lease
    BY DEF Loose, FieldsOK, Alike
  <2>4. QED  BY Zenon, <2>2, <2>3 DEF FieldsOK
<1>4. ServiceOK(t)
  BY Zenon DEF Loose, ServiceOK, Routed, Alike
<1>5. Wanes(s, t)
  <2>1. \A c \in Calls : s.owner[c] <= t.owner[c]
    BY DEF Alike, Loose, MediaStates
  <2>2. QED
    BY Zenon, <2>1 DEF Wanes, Fades, Alike, Turn, SlotsEmpty, Routed
<1>6. QED
  BY Zenon, <1>1, <1>2, <1>3, <1>4, <1>5 DEF Loose, Alike

\* And every peer is still there: the whole invariant is kept.
LEMMA AlikeInv ==
    ASSUME NEW s, NEW t, MediaInv(s), Alike(s, t),
           \A q \in s.peers : \E p \in t.peers : p.b = q.b
    PROVE  MediaInv(t) /\ Wanes(s, t)
<1>1. Loose(t) /\ Wanes(s, t)
  BY Zenon, AlikeKeeps DEF MediaInv
<1>2. \A b : HasPeer(s, b) => HasPeer(t, b)
  BY Zenon DEF HasPeer
<1>3. QED
  BY <1>1, <1>2 DEF MediaInv, RoutesBacked, HoldsBacked, Alike

--------------------------------------------------------------------------
(* The operators, one by one                                               *)

\* Cancelling moves no call's owner epoch back.
LEMMA FencedGrows ==
    ASSUME NEW s \in MediaStates, NEW b \in Bindings
    PROVE  LET t == Fenced(s, b) IN
           /\ t \in MediaStates
           /\ \A c \in Calls : s.owner[c] <= t.owner[c]
           /\ t = [s EXCEPT !.owner = t.owner]
<1> DEFINE e == [s.owner EXCEPT ![b.call] = Bigger(@, b.owner) + 1]
<1>1. b.call \in Calls /\ b.owner \in Nat /\ s.owner \in [Calls -> Nat]
  BY Zenon DEF MediaStates, Bindings
<1>2. e \in [Calls -> Nat] /\ \A c \in Calls : s.owner[c] <= e[c]
  BY <1>1 DEF Bigger
<1>3. Fenced(s, b) = IF s.call = b.call THEN [s EXCEPT !.owner = e] ELSE s
  BY Zenon DEF Fenced
<1> HIDE DEF e
<1>4. CASE s.call = b.call
  BY <1>2, <1>3, <1>4 DEF MediaStates
<1>5. CASE s.call # b.call
  BY <1>1, <1>3, <1>5 DEF MediaStates
<1>6. QED  BY Zenon, <1>4, <1>5

\* Every field is emptied and nothing else touched.
LEMMA ClearedIs ==
    ASSUME NEW s \in MediaStates
    PROVE  /\ Cleared(s) \in MediaStates /\ SlotsEmpty(Cleared(s))
           /\ Cleared(s).call = s.call /\ Cleared(s).owner = s.owner
           /\ Cleared(s).peers = s.peers /\ Cleared(s).service = s.service
           /\ Cleared(s).ret = s.ret /\ Cleared(s).sent = s.sent
BY Zenon DEF Cleared, MediaStates, SlotsEmpty

\* The radio observes a call.
LEMMA ObserveCallKeeps ==
    ASSUME NEW s, MediaInv(s), NEW c \in Calls \cup {NoCall}, NEW a \in BOOLEAN
    PROVE  MediaInv(ObserveCall(s, c, a)) /\ Wanes(s, ObserveCall(s, c, a))
<1> DEFINE t == ObserveCall(s, c, a)
<1>1. s \in MediaStates /\ Loose(s)
  BY Zenon DEF MediaInv, Loose
<1>2. CASE s.call = c
  <2>1. t = [s EXCEPT !.active = a, !.muted = IF a THEN @ ELSE {}]
    BY Zenon, <1>2 DEF ObserveCall
  <2>2. Alike(s, t) /\ t.peers = s.peers
    BY ZenonT(30), <1>1, <2>1 DEF Alike, MediaStates
  <2>3. QED  BY Zenon, <2>2, AlikeInv
<1>3. CASE s.call # c
  <2> DEFINE old == IF Held(s) = {} THEN {} ELSE {Only(Held(s))}
  <2>1. Held(s) \subseteq Bindings
    BY <1>1 DEF Held, MediaStates, Pendings, Claims
  <2>2. old \subseteq Bindings
    BY Zenon, <2>1 DEF Only
  <2>3. t = [Cleared(s) EXCEPT
               !.peers = {}, !.ret = old, !.sent = FALSE, !.muted = {},
               !.call = c, !.active = a,
               !.service = IF old # {} THEN "Recovering" ELSE "AokieActive"]
    BY Zenon, <1>3 DEF ObserveCall
  <2> HIDE DEF old
  <2>4. /\ t \in MediaStates /\ SlotsEmpty(t) /\ t.peers = {} /\ t.ret = old
        /\ ~t.sent /\ t.owner = s.owner
        /\ t.service # "AokieActive" => old # {}
    <3>1. (IF old # {} THEN "Recovering" ELSE "AokieActive") \in ServiceModes
      BY Zenon DEF ServiceModes
    <3> DEFINE u == Cleared(s)
    <3>2. u \in MediaStates /\ SlotsEmpty(u) /\ u.owner = s.owner
      BY Zenon, <1>1, ClearedIs
    <3> HIDE DEF u
    <3>3. t = [u EXCEPT
                 !.peers = {}, !.ret = old, !.sent = FALSE, !.muted = {},
                 !.call = c, !.active = a,
                 !.service = IF old # {} THEN "Recovering" ELSE "AokieActive"]
      BY Zenon, <2>3 DEF u
    <3> HIDE DEF t
    <3>4. QED  BY ZenonT(30), <2>2, <3>1, <3>2, <3>3 DEF MediaStates, SlotsEmpty
  <2> HIDE DEF t
  <2>5. MediaInv(t)
    BY Zenon, <1>1, <2>4, Emptied
  <2>6. Wanes(s, t)
    BY <1>1, <2>4 DEF Wanes, Fades, Turn, Routed, SlotsEmpty, MediaStates
  <2>7. QED  BY Zenon, <2>5, <2>6 DEF t
<1>4. QED  BY Zenon, <1>2, <1>3

\* Time passes for a lease, a claim, a transfer, or the rebound peer.
LEMMA LapsesKeep ==
    ASSUME NEW s, MediaInv(s), NEW t,
           \/ \E l \in Leases : t = LeaseLapses(s, l)
           \/ t \in {ClaimLapses(s), TransferLapses(s), DeadlineLapses(s)}
    PROVE  MediaInv(t) /\ Wanes(s, t)
<1>1. s \in MediaStates /\ Loose(s)
  BY Zenon DEF MediaInv, Loose
<1>2. ASSUME NEW l \in Leases, t = LeaseLapses(s, l)
      PROVE  MediaInv(t) /\ Wanes(s, t)
  <2> DEFINE over1(S) == {IF x.b.lease = l THEN [x EXCEPT !.late = TRUE] ELSE x : x \in S}
  <2>1. ASSUME NEW S \in SUBSET Peers
        PROVE  /\ over1(S) \subseteq Peers
               /\ \A p \in over1(S) : \E q \in S : q.b = p.b
               /\ \A q \in S : \E p \in over1(S) : p.b = q.b
    <3> DEFINE f(x) == IF x.b.lease = l THEN [x EXCEPT !.late = TRUE] ELSE x
    <3>1. \A x \in Peers : f(x) \in Peers /\ f(x).b = x.b
      BY Zenon DEF Peers
    <3>2. over1(S) = {f(x) : x \in S}
      BY Zenon
    <3> HIDE DEF f, over1
    <3>3. QED  BY Zenon, <3>1, <3>2
  <2>2. ASSUME NEW S \in SUBSET Pendings
        PROVE  /\ over1(S) \subseteq Pendings
               /\ over1(S) = {} => S = {}
               /\ \A p \in over1(S) : \E q \in S : q.b = p.b
    <3> DEFINE f(x) == IF x.b.lease = l THEN [x EXCEPT !.late = TRUE] ELSE x
    <3>1. \A x \in Pendings : f(x) \in Pendings /\ f(x).b = x.b
      BY Zenon DEF Pendings
    <3>2. over1(S) = {f(x) : x \in S}
      BY Zenon
    <3> HIDE DEF f, over1
    <3>3. QED  BY Zenon, <3>1, <3>2
  <2>3. t = [s EXCEPT !.peers = over1(s.peers), !.prep = over1(s.prep),
                      !.pcons = over1(s.pcons), !.proute = over1(s.proute)]
    BY Zenon, <1>1, <1>2 DEF LeaseLapses, MediaStates
  <2> HIDE DEF over1
  <2>4. /\ s.prep \in SUBSET Pendings /\ s.pcons \in SUBSET Pendings
        /\ s.proute \in SUBSET Pendings /\ s.peers \in SUBSET Peers
    BY Zenon, <1>1 DEF MediaStates
  <2>5. t \in MediaStates
    BY Zenon, <1>1, <2>1, <2>2, <2>3, <2>4 DEF MediaStates
  <2>6. Alike(s, t) /\ \A q \in s.peers : \E p \in t.peers : p.b = q.b
    BY <1>1, <2>1, <2>2, <2>3, <2>4, <2>5 DEF MediaStates, Alike
  <2>7. QED  BY Zenon, <2>6, AlikeInv
<1>3. CASE t = ClaimLapses(s)
  <2> DEFINE claim == {[c EXCEPT !.late = TRUE] : c \in s.claim}
  <2>1. s.claim \in SUBSET Claims
    BY Zenon, <1>1 DEF MediaStates
  <2>2. /\ claim \subseteq Claims
        /\ \A c \in claim : \E d \in s.claim : d.b = c.b /\ d.confirmed = c.confirmed
    BY ZenonT(30), <2>1 DEF Claims
  <2>3. t = [s EXCEPT !.claim = claim]
    BY Zenon, <1>3 DEF ClaimLapses
  <2> HIDE DEF claim
  <2>4. Alike(s, t) /\ t.peers = s.peers
    BY Zenon, <1>1, <2>2, <2>3 DEF MediaStates, Alike
  <2>5. QED  BY Zenon, <2>4, AlikeInv
<1>4. CASE t = TransferLapses(s)
  <2> DEFINE proute == {[p EXCEPT !.late = TRUE] : p \in s.proute}
  <2>1. s.proute \in SUBSET Pendings
    BY Zenon, <1>1 DEF MediaStates
  <2>2. /\ proute \subseteq Pendings
        /\ proute = {} => s.proute = {}
        /\ \A p \in proute : \E q \in s.proute : q.b = p.b
    BY Zenon, <2>1 DEF Pendings
  <2>3. t = [s EXCEPT !.proute = proute]
    BY Zenon, <1>4 DEF TransferLapses
  <2> HIDE DEF proute
  <2>4. Alike(s, t) /\ t.peers = s.peers
    BY Zenon, <1>1, <2>2, <2>3 DEF MediaStates, Alike
  <2>5. QED  BY Zenon, <2>4, AlikeInv
<1>5. CASE t = DeadlineLapses(s)
  <2> DEFINE claim == {[c EXCEPT !.deadline = "late"] : c \in s.claim}
  <2>1. s.claim \in SUBSET Claims
    BY Zenon, <1>1 DEF MediaStates
  <2>2. /\ claim \subseteq Claims
        /\ \A c \in claim : \E d \in s.claim : d.b = c.b /\ d.confirmed = c.confirmed
    BY <2>1 DEF Claims
  <2>3. t = [s EXCEPT !.claim = claim]
    BY Zenon, <1>5 DEF DeadlineLapses
  <2> HIDE DEF claim
  <2>4. Alike(s, t) /\ t.peers = s.peers
    BY Zenon, <1>1, <2>2, <2>3 DEF MediaStates, Alike
  <2>5. QED  BY Zenon, <2>4, AlikeInv
<1>6. QED  BY Zenon, <1>2, <1>3, <1>4, <1>5

\* A lease is renewed.
LEMMA RenewKeeps ==
    ASSUME NEW s, MediaInv(s), NEW b \in Bindings
    PROVE  MediaInv(Renew(s, b)) /\ Wanes(s, Renew(s, b))
<1> DEFINE again(S) == {IF x.b = b THEN [x EXCEPT !.late = FALSE] ELSE x : x \in S}
           claim == IF ClaimIs(s, b) THEN {[c EXCEPT !.late = FALSE] : c \in s.claim}
                    ELSE s.claim
           t == Renew(s, b)
<1>1. s \in MediaStates
  BY Zenon DEF MediaInv, Loose
<1>2. ASSUME NEW S \in SUBSET Peers
      PROVE  /\ again(S) \subseteq Peers
             /\ \A p \in again(S) : \E q \in S : q.b = p.b
             /\ \A q \in S : \E p \in again(S) : p.b = q.b
  <2> DEFINE f(x) == IF x.b = b THEN [x EXCEPT !.late = FALSE] ELSE x
  <2>1. \A x \in Peers : f(x) \in Peers /\ f(x).b = x.b
    BY Zenon DEF Peers
  <2>2. again(S) = {f(x) : x \in S}
    BY Zenon
  <2> HIDE DEF f, again
  <2>3. QED  BY Zenon, <2>1, <2>2
<1>3. ASSUME NEW S \in SUBSET Pendings
      PROVE  /\ again(S) \subseteq Pendings
             /\ again(S) = {} => S = {}
             /\ \A p \in again(S) : \E q \in S : q.b = p.b
  BY ZenonT(30) DEF Pendings
<1>4. claim \subseteq Claims
      /\ \A c \in claim : \E d \in s.claim : d.b = c.b /\ d.confirmed = c.confirmed
  <2>1. ASSUME NEW S \in SUBSET Claims
        PROVE  /\ {[c EXCEPT !.late = FALSE] : c \in S} \subseteq Claims
               /\ \A c \in {[c EXCEPT !.late = FALSE] : c \in S} :
                     \E d \in S : d.b = c.b /\ d.confirmed = c.confirmed
    BY Zenon DEF Claims
  <2>2. s.claim \in SUBSET Claims
    BY Zenon, <1>1 DEF MediaStates
  <2>3. QED  BY Zenon, <2>1, <2>2
<1>5. t = [s EXCEPT !.peers = again(s.peers), !.proute = again(s.proute),
                    !.pcons = again(s.pcons), !.claim = claim]
  BY Zenon, <1>1 DEF Renew, MediaStates
<1>6. /\ s.pcons \in SUBSET Pendings /\ s.proute \in SUBSET Pendings
      /\ s.peers \in SUBSET Peers
  BY Zenon, <1>1 DEF MediaStates
<1> HIDE DEF again, claim, t
<1>7. /\ again(s.pcons) \subseteq Pendings /\ again(s.proute) \subseteq Pendings
      /\ again(s.pcons) = {} => s.pcons = {}
      /\ again(s.proute) = {} => s.proute = {}
      /\ \A p \in again(s.pcons) : \E q \in s.pcons : q.b = p.b
      /\ \A p \in again(s.proute) : \E q \in s.proute : q.b = p.b
      /\ again(s.peers) \subseteq Peers
      /\ \A p \in again(s.peers) : \E q \in s.peers : q.b = p.b
      /\ \A q \in s.peers : \E p \in again(s.peers) : p.b = q.b
  BY Zenon, <1>2, <1>3, <1>6
<1>8. t \in MediaStates
  BY Zenon, <1>1, <1>4, <1>5, <1>7 DEF MediaStates
<1>9. Alike(s, t) /\ \A q \in s.peers : \E p \in t.peers : p.b = q.b
  BY <1>1, <1>4, <1>5, <1>7, <1>8 DEF MediaStates, Alike
<1>10. QED  BY Zenon, <1>9, AlikeInv DEF t

\* Every field is emptied in the same call: the ways out have this form.
LEMMA Ends ==
    ASSUME NEW s, NEW t, Loose(s), t \in MediaStates, SlotsEmpty(t),
           t.call = s.call, t.peers \subseteq s.peers,
           \A c \in Calls : s.owner[c] <= t.owner[c],
           t.service # "AokieActive" => t.ret # {}, t.sent => t.ret # {} /\ s.sent
    PROVE  MediaInv(t) /\ Wanes(s, t)
<1>1. MediaInv(t)
  BY Zenon, Emptied
<1>2. Wanes(s, t)
  BY Zenon DEF Wanes, Fades, Turn, Routed, SlotsEmpty
<1>3. QED  BY Zenon, <1>1, <1>2

\* By way of the radio,
LEMMA ReturningEnds ==
    ASSUME NEW s, Loose(s), NEW u \in MediaStates, SlotsEmpty(u),
           u.call = s.call, u.peers \subseteq s.peers, u.owner = s.owner,
           NEW b \in Bindings
    PROVE  /\ MediaInv(Returning(u, b)) /\ Wanes(s, Returning(u, b))
           /\ MediaInv(Forget(Returning(u, b), b)) /\ Wanes(s, Forget(Returning(u, b), b))
<1> DEFINE r == Returning(u, b)
           f == Forget(r, b)
<1>1. /\ r \in MediaStates /\ SlotsEmpty(r) /\ r.call = s.call
      /\ r.peers \subseteq s.peers /\ r.owner = s.owner /\ r.ret = {b} /\ ~r.sent
  BY ZenonT(30) DEF Returning, MediaStates, SlotsEmpty, ServiceModes
<1> HIDE DEF r
<1>2. /\ f \in MediaStates /\ SlotsEmpty(f) /\ f.call = s.call
      /\ f.peers \subseteq s.peers /\ f.owner = s.owner /\ f.ret = {b} /\ ~f.sent
  BY <1>1 DEF Forget, MediaStates, SlotsEmpty
<1>3. \A c \in Calls : s.owner[c] <= s.owner[c]
  BY DEF Loose, MediaStates
<1> HIDE DEF f
<1>4. MediaInv(r) /\ Wanes(s, r)
  BY Zenon, <1>1, <1>3, Ends
<1>5. MediaInv(f) /\ Wanes(s, f)
  BY Zenon, <1>2, <1>3, Ends
<1>6. QED  BY Zenon, <1>4, <1>5 DEF r, f

\* or cancelled in place.
LEMMA CancelEnds ==
    ASSUME NEW s, Loose(s), NEW u \in MediaStates, SlotsEmpty(u),
           u.call = s.call, u.peers \subseteq s.peers, u.owner = s.owner,
           u.sent => u.ret # {} /\ s.sent,
           NEW b \in Bindings, NEW d \in Bindings
    PROVE  /\ MediaInv(CancelledInPlace(u, b)) /\ Wanes(s, CancelledInPlace(u, b))
           /\ MediaInv(Forget(CancelledInPlace(u, b), d))
           /\ Wanes(s, Forget(CancelledInPlace(u, b), d))
<1> DEFINE w == Fenced(u, b)
           r == CancelledInPlace(u, b)
           f == Forget(r, d)
<1>1. /\ w \in MediaStates /\ \A c \in Calls : s.owner[c] <= w.owner[c]
      /\ w = [u EXCEPT !.owner = w.owner]
  BY Zenon, FencedGrows
<1>2. r = [w EXCEPT !.service = "AokieActive"]
  BY Zenon DEF CancelledInPlace
<1> HIDE DEF w, r
<1>3. /\ w.call = s.call /\ SlotsEmpty(w) /\ w.peers \subseteq s.peers
      /\ w.sent = u.sent /\ w.ret = u.ret
  BY <1>1 DEF MediaStates, SlotsEmpty
<1>4. /\ r \in MediaStates /\ SlotsEmpty(r) /\ r.call = s.call
      /\ r.peers \subseteq s.peers /\ r.owner = w.owner
      /\ r.service = "AokieActive" /\ r.sent = u.sent /\ r.ret = u.ret
  BY <1>1, <1>2, <1>3 DEF MediaStates, SlotsEmpty, ServiceModes
<1>5. /\ f \in MediaStates /\ SlotsEmpty(f) /\ f.call = s.call
      /\ f.peers \subseteq s.peers /\ f.owner = w.owner
      /\ f.service = "AokieActive" /\ f.sent = u.sent /\ f.ret = u.ret
  BY <1>4 DEF Forget, MediaStates, SlotsEmpty
<1> HIDE DEF f
<1>6. MediaInv(r) /\ Wanes(s, r)
  BY Zenon, <1>1, <1>4, Ends
<1>7. MediaInv(f) /\ Wanes(s, f)
  BY Zenon, <1>1, <1>5, Ends
<1>8. QED  BY Zenon, <1>6, <1>7 DEF r, f

\* A peer of a lease, if there is one, has a binding.
LEMMA SomePeer ==
    ASSUME NEW s \in MediaStates, NEW l, PeersOf(s, l) # {}
    PROVE  /\ Only(PeersOf(s, l)) \in s.peers
           /\ Only(PeersOf(s, l)).b.lease = l
           /\ Only(PeersOf(s, l)).b \in Bindings
BY Zenon DEF PeersOf, Only, MediaStates, Peers

\* A lease is taken back.
LEMMA RevokeKeeps ==
    ASSUME NEW s, MediaInv(s), NEW b \in Bindings
    PROVE  MediaInv(Revoke(s, b)) /\ Wanes(s, Revoke(s, b))
<1> DEFINE peer == IF PeersOf(s, b.lease) = {} THEN b ELSE Only(PeersOf(s, b.lease)).b
           u == Cleared(s)
           v == [u EXCEPT !.peers = Without(s, b.lease)]
<1>1. s \in MediaStates /\ Loose(s) /\ (s.sent => s.ret # {})
  BY Zenon DEF MediaInv, Loose, ServiceOK
<1>2. peer \in Bindings
  BY Zenon, <1>1, SomePeer
<1>3. /\ u \in MediaStates /\ SlotsEmpty(u) /\ u.call = s.call /\ u.peers = s.peers
      /\ u.owner = s.owner /\ u.ret = s.ret /\ u.sent = s.sent
  BY Zenon, <1>1, ClearedIs
<1>4. Revoke(s, b) = IF HasRoute(s, b) THEN Forget(Returning(u, b), b)
                     ELSE Forget(CancelledInPlace(v, peer), b)
  BY Zenon DEF Revoke
<1> HIDE DEF u, peer
<1>5. /\ v \in MediaStates /\ SlotsEmpty(v) /\ v.call = s.call
      /\ v.peers \subseteq s.peers /\ v.owner = s.owner /\ v.ret = s.ret /\ v.sent = s.sent
  BY Zenon, <1>1, <1>3 DEF Without, MediaStates, SlotsEmpty
<1> HIDE DEF v
<1>6. CASE HasRoute(s, b)
  BY Zenon, <1>1, <1>3, <1>4, <1>6, ReturningEnds
<1>7. CASE ~HasRoute(s, b)
  BY Zenon, <1>1, <1>2, <1>4, <1>5, <1>7, CancelEnds
<1>8. QED  BY Zenon, <1>6, <1>7

\* The session is over: everything is closed.
LEMMA FailClosedKeeps ==
    ASSUME NEW s, MediaInv(s)
    PROVE  MediaInv(FailClosedAll(s)) /\ Wanes(s, FailClosedAll(s))
<1> DEFINE u == Cleared(s)
           shut == [u EXCEPT !.peers = {}, !.muted = {}]
<1>1. s \in MediaStates /\ Loose(s) /\ ServiceOK(s)
  BY Zenon DEF MediaInv, Loose
<1>2. u \in MediaStates /\ SlotsEmpty(u) /\ u.call = s.call /\ u.owner = s.owner
      /\ u.ret = s.ret /\ u.sent = s.sent /\ u.service = s.service
  BY Zenon, <1>1, ClearedIs
<1>3. FailClosedAll(s) =
        CASE HeldRoute(s) # {} -> Returning(shut, Only(HeldRoute(s)))
          [] HeldRoute(s) = {} /\ Unheld(s) # {} -> CancelledInPlace(shut, Only(Unheld(s)))
          [] OTHER -> shut
  BY Zenon DEF FailClosedAll
<1> HIDE DEF u
<1>4. /\ shut \in MediaStates /\ SlotsEmpty(shut) /\ shut.call = s.call
      /\ shut.peers \subseteq s.peers /\ shut.owner = s.owner /\ shut.ret = s.ret
      /\ shut.sent = s.sent /\ shut.service = s.service
  BY Zenon, <1>2 DEF MediaStates, SlotsEmpty
<1>5. HeldRoute(s) \subseteq Bindings /\ Unheld(s) \subseteq Bindings
  <2>1. \A c \in s.claim : MediaBinding(c) \in Bindings
    BY Zenon, <1>1 DEF MediaBinding, Only, MediaStates, Claims
  <2>2. QED  BY <1>1, <2>1 DEF HeldRoute, Unheld, MediaStates, Pendings
<1>6. \A S : S # {} => Only(S) \in S
  BY Zenon DEF Only
<1> HIDE DEF shut
<1>7. CASE HeldRoute(s) # {}
  BY <1>1, <1>3, <1>4, <1>5, <1>6, <1>7, ReturningEnds
<1>8. CASE HeldRoute(s) = {} /\ Unheld(s) # {}
  <2>1. shut.sent => shut.ret # {} /\ s.sent
    BY Zenon, <1>1, <1>4 DEF ServiceOK
  <2>2. Only(Unheld(s)) \in Bindings
    BY Zenon, <1>5, <1>6, <1>8
  <2>3. FailClosedAll(s) = CancelledInPlace(shut, Only(Unheld(s)))
    BY Zenon, <1>3, <1>8
  <2>4. QED  BY Zenon, <1>1, <1>4, <2>1, <2>2, <2>3, CancelEnds
<1>9. CASE HeldRoute(s) = {} /\ Unheld(s) = {}
  <2>1. FailClosedAll(s) = shut
    BY Zenon, <1>3, <1>9
  <2>2. s.service # "AokieActive" => s.ret # {}
    BY SMTT(30), <1>1, <1>9 DEF ServiceOK, Routed, HeldRoute, Unheld
  <2>3. \A c \in Calls : s.owner[c] <= s.owner[c]
    BY <1>1 DEF MediaStates
  <2>4. QED  BY Zenon, <1>1, <1>4, <2>1, <2>2, <2>3, Ends DEF ServiceOK
<1>10. QED  BY Zenon, <1>7, <1>8, <1>9

\* A peer is closed, with the route or the claim of its lease.
LEMMA ClosePeerKeeps ==
    ASSUME NEW s, MediaInv(s), NEW l \in Leases, NEW keep \in BOOLEAN, PeersOf(s, l) # {}
    PROVE  MediaInv(ClosePeer(s, l, keep)) /\ Wanes(s, ClosePeer(s, l, keep))
<1> DEFINE b == Only(PeersOf(s, l)).b
           gone == Forget([s EXCEPT !.peers = Without(s, l)], b)
           drop(S) == {x \in S : x.b.lease # l}
           claim == IF keep THEN s.claim ELSE drop(s.claim)
           left == [gone EXCEPT !.prep = drop(@), !.pcons = drop(@), !.claim = claim]
           ended == [left EXCEPT !.proute = {}, !.aroute = {}, !.acons = {}]
           t == ClosePeer(s, l, keep)
<1>1. s \in MediaStates /\ Loose(s) /\ Exclusive(s) /\ ServiceOK(s)
  BY Zenon DEF MediaInv, Loose
<1>2. b \in Bindings /\ b.lease = l /\ \E p \in s.peers : p.b = b
  BY Zenon, <1>1, SomePeer
<1>3. gone = [s EXCEPT !.peers = Without(s, l), !.muted = s.muted \ {b}]
  BY Zenon, <1>1 DEF Forget, MediaStates
<1>4. t = CASE HasRoute(s, b) -> Returning(ended, b)
            [] ~HasRoute(s, b) /\ left # gone -> CancelledInPlace(left, b)
            [] OTHER -> left
  BY Zenon, <1>1, <1>3 DEF ClosePeer, MediaStates
<1> HIDE DEF b, t
<1>5. /\ gone \in MediaStates /\ gone.peers = Without(s, l) /\ gone.call = s.call
      /\ gone.owner = s.owner /\ gone.service = s.service /\ gone.ret = s.ret
      /\ gone.sent = s.sent /\ gone.prep = s.prep /\ gone.claim = s.claim
      /\ gone.pcons = s.pcons /\ gone.acons = s.acons /\ gone.proute = s.proute
      /\ gone.aroute = s.aroute
  BY ZenonT(30), <1>1, <1>3 DEF MediaStates, Without
<1> HIDE DEF gone
<1>6. /\ left \in MediaStates /\ left.peers = Without(s, l) /\ left.call = s.call
      /\ left.owner = s.owner /\ left.service = s.service /\ left.ret = s.ret
      /\ left.sent = s.sent /\ left.prep = drop(s.prep) /\ left.claim = claim
      /\ left.pcons = drop(s.pcons) /\ left.acons = s.acons /\ left.proute = s.proute
      /\ left.aroute = s.aroute
  BY Zenon, <1>5 DEF MediaStates
<1>7. left = [gone EXCEPT !.prep = drop(s.prep), !.pcons = drop(s.pcons), !.claim = claim]
  BY Zenon, <1>5
<1> HIDE DEF left
<1>8. Without(s, l) \subseteq s.peers
  BY Zenon DEF Without
<1>9. claim \subseteq s.claim
  BY Zenon
<1>10. CASE HasRoute(s, b)
  <2>1. s.prep = {} /\ s.claim = {} /\ s.pcons = {}
    BY Zenon, <1>1, <1>10 DEF HasRoute, Exclusive
  <2>2. /\ ended \in MediaStates /\ SlotsEmpty(ended) /\ ended.call = s.call
        /\ ended.peers \subseteq s.peers /\ ended.owner = s.owner
    BY Zenon, <1>6, <1>8, <1>9, <2>1 DEF MediaStates, SlotsEmpty
  <2>3. t = Returning(ended, b)
    BY Zenon, <1>4, <1>10
  <2> HIDE DEF ended
  <2>4. QED  BY Zenon, <1>1, <1>2, <2>2, <2>3, ReturningEnds DEF t
<1>11. CASE ~HasRoute(s, b) /\ left # gone
  <2>2. SlotsEmpty(left)
    <3>1. drop(s.prep) # s.prep => drop(s.prep) = {} /\ s.prep # {}
      BY <1>1 DEF Exclusive
    <3>2. drop(s.pcons) # s.pcons => drop(s.pcons) = {} /\ s.pcons # {}
      BY <1>1 DEF Exclusive
    <3>3. drop(s.claim) # s.claim => drop(s.claim) = {} /\ s.claim # {}
      BY <1>1 DEF Exclusive
    <3>4. claim = s.claim \/ claim = drop(s.claim)
      BY Zenon
    <3>5. /\ drop(s.prep) \subseteq s.prep /\ drop(s.pcons) \subseteq s.pcons
      BY Zenon
    <3> HIDE DEF drop, claim
    <3>6. CASE drop(s.prep) # s.prep
      BY Zenon, <1>1, <1>6, <1>9, <3>1, <3>5, <3>6 DEF Exclusive, SlotsEmpty
    <3>7. CASE drop(s.pcons) # s.pcons
      BY Zenon, <1>1, <1>6, <1>9, <3>2, <3>5, <3>7 DEF Exclusive, SlotsEmpty
    <3>8. CASE claim # s.claim
      BY Zenon, <1>1, <1>6, <1>9, <3>3, <3>4, <3>5, <3>8 DEF Exclusive, SlotsEmpty
    <3>9. drop(s.prep) # s.prep \/ drop(s.pcons) # s.pcons \/ claim # s.claim
      <4>1. SUFFICES ASSUME drop(s.prep) = s.prep, drop(s.pcons) = s.pcons, claim = s.claim
                     PROVE  left = gone
        BY Zenon, <1>11
      <4>2. QED  BY Zenon, <1>5, <1>7, <4>1 DEF MediaStates
    <3>10. QED  BY Zenon, <3>6, <3>7, <3>8, <3>9
  <2>3. t = CancelledInPlace(left, b)
    BY Zenon, <1>4, <1>11
  <2>4. QED  BY <1>1, <1>2, <1>6, <1>8, <2>2, <2>3, CancelEnds DEF t, ServiceOK
<1>12. CASE ~HasRoute(s, b) /\ left = gone
  <2>1. t = gone
    BY Zenon, <1>4, <1>12
  <2>2. Alike(s, gone)
    BY Zenon, <1>5, <1>8 DEF Alike
  <2>3. Loose(gone) /\ Wanes(s, gone)
    BY Zenon, <1>1, <2>2, AlikeKeeps
  <2>4. ASSUME NEW d, NEW modes, FieldOK(s, d, modes), HasPeer(s, d), d # b
        PROVE  HasPeer(gone, d)
    BY Zenon, <1>2, <1>5, <2>4 DEF FieldOK, HasPeer, Without
  <2>5. RoutesBacked(gone)
    BY Zenon, <1>5, <1>12, <2>4 DEF RoutesBacked, MediaInv, Loose, FieldsOK, HasRoute
  <2>6. HoldsBacked(gone)
    <3>1. drop(s.prep) = s.prep /\ drop(s.pcons) = s.pcons
      BY Zenon, <1>5, <1>6, <1>12
    <3>2. \A p \in s.prep \cup s.pcons : p.b # b
      BY Zenon, <1>2, <3>1
    <3>3. QED  BY Zenon, <1>5, <2>4, <3>2 DEF HoldsBacked, MediaInv, Loose, FieldsOK
  <2>7. QED  BY Zenon, <2>1, <2>3, <2>5, <2>6 DEF t, MediaInv
<1>13. QED  BY Zenon, <1>10, <1>11, <1>12

\* The owner's settings change.
LEMMA ConsentKeeps ==
    ASSUME NEW s, MediaInv(s), NEW kinds \in SUBSET Kinds
    PROVE  MediaInv(SetRemoteConsent(s, kinds)) /\ Wanes(s, SetRemoteConsent(s, kinds))
<1> DEFINE refused(S) == {b \in S : KindOf(b.mode) \notin kinds}
           kept == [s EXCEPT !.consent = kinds,
                             !.peers = {p \in s.peers : KindOf(p.b.mode) \in kinds}]
           route == refused(HeldRoute(s))
           other == refused(Unheld(s))
           u == Cleared(kept)
           v == [u EXCEPT !.ret = {}, !.sent = FALSE]
           t == SetRemoteConsent(s, kinds)
<1>1. s \in MediaStates /\ Loose(s)
  BY Zenon DEF MediaInv, Loose
<1>2. t = CASE route # {} -> Forget(Returning(u, Only(route)), Only(route))
            [] route = {} /\ other # {} -> Forget(CancelledInPlace(v, Only(other)), Only(other))
            [] OTHER -> kept
  BY Zenon, <1>1 DEF SetRemoteConsent, MediaStates
<1> HIDE DEF t
<1>3. Alike(s, kept) /\ kept \in MediaStates /\ kept.peers \subseteq s.peers
      /\ kept.peers = {p \in s.peers : KindOf(p.b.mode) \in kinds}
  BY Zenon, <1>1 DEF Alike, MediaStates
<1> HIDE DEF kept
<1>4. /\ u \in MediaStates /\ SlotsEmpty(u) /\ u.call = s.call /\ u.owner = s.owner
      /\ u.peers \subseteq s.peers
  BY Zenon, <1>3, ClearedIs DEF Alike
<1> HIDE DEF u
<1>5. /\ v \in MediaStates /\ SlotsEmpty(v) /\ v.call = s.call /\ v.owner = s.owner
      /\ v.peers \subseteq s.peers /\ ~v.sent
  BY Zenon, <1>4 DEF MediaStates, SlotsEmpty
<1> HIDE DEF v
<1>6. route \subseteq Bindings /\ other \subseteq Bindings
  <2>1. \A c \in s.claim : MediaBinding(c) \in Bindings
    BY Zenon, <1>1 DEF MediaBinding, Only, MediaStates, Claims
  <2>2. QED  BY <1>1, <2>1 DEF HeldRoute, Unheld, MediaStates, Pendings
<1>7. \A S : S # {} => Only(S) \in S
  BY Zenon DEF Only
<1>8. CASE route # {}
  <2>1. Only(route) \in Bindings
    BY Zenon, <1>6, <1>7, <1>8
  <2>2. t = Forget(Returning(u, Only(route)), Only(route))
    BY Zenon, <1>2, <1>8
  <2> HIDE DEF route
  <2>3. QED  BY Zenon, <1>1, <1>4, <2>1, <2>2, ReturningEnds DEF t
<1>9. CASE route = {} /\ other # {}
  <2>1. Only(other) \in Bindings
    BY Zenon, <1>6, <1>7, <1>9
  <2>2. t = Forget(CancelledInPlace(v, Only(other)), Only(other))
    BY Zenon, <1>2, <1>9
  <2> HIDE DEF other
  <2>3. QED  BY Zenon, <1>1, <1>5, <2>1, <2>2, CancelEnds DEF t
<1>10. CASE route = {} /\ other = {}
  <2>1. t = kept
    BY Zenon, <1>2, <1>10
  <2>2. Loose(kept) /\ Wanes(s, kept)
    BY Zenon, <1>1, <1>3, AlikeKeeps
  <2>3. \A b : KindOf(b.mode) \in kinds /\ HasPeer(s, b) => HasPeer(kept, b)
    BY Zenon, <1>3 DEF HasPeer
  <2>4. /\ \A b \in s.acons \cup s.aroute : KindOf(b.mode) \in kinds
        /\ \A p \in s.proute \cup s.pcons \cup s.prep : KindOf(p.b.mode) \in kinds
    BY Zenon, <1>10 DEF HeldRoute, Unheld
  <2>5. RoutesBacked(kept) /\ HoldsBacked(kept)
    <3>1. RoutesBacked(kept)
      BY Zenon, <1>3, <2>3, <2>4 DEF MediaInv, RoutesBacked, Alike
    <3>2. \A p \in kept.pcons : HasPeer(kept, p.b)
      BY <1>3, <2>3, <2>4 DEF MediaInv, HoldsBacked, Alike
    <3>3. \A p \in kept.prep : HasPeer(kept, p.b)
      BY Zenon, <1>3, <2>3, <2>4 DEF MediaInv, HoldsBacked, Alike
    <3>4. QED  BY Zenon, <3>1, <3>2, <3>3 DEF HoldsBacked
  <2>6. QED  BY Zenon, <2>1, <2>2, <2>5 DEF t, MediaInv
<1>11. QED  BY Zenon, <1>8, <1>9, <1>10

LEMMA WanesFurther ==
    ASSUME NEW s \in MediaStates, NEW u \in MediaStates, NEW t \in MediaStates,
           Wanes(s, u), Wanes(u, t)
    PROVE  Wanes(s, t)
<1>1. \A c \in Calls : s.owner[c] <= t.owner[c]
  <2>1. \A c \in Calls : s.owner[c] \in Nat /\ u.owner[c] \in Nat /\ t.owner[c] \in Nat
    BY Zenon DEF MediaStates
  <2>2. QED  BY <2>1 DEF Wanes, Fades
<1>2. QED  BY <1>1 DEF Wanes, Fades

\* The tick of the radio thread: leases that ran out are dropped,
LEMMA ExpirePeersKeeps ==
    ASSUME NEW s, MediaInv(s)
    PROVE  /\ Loose(ExpirePeers(s)) /\ Wanes(s, ExpirePeers(s))
           /\ \A p \in ExpirePeers(s).peers : ~p.late
<1>1. s \in MediaStates /\ Loose(s)
  BY Zenon DEF MediaInv, Loose
<1>2. Alike(s, ExpirePeers(s)) /\ \A p \in ExpirePeers(s).peers : ~p.late
  BY Zenon, <1>1 DEF ExpirePeers, Alike, MediaStates
<1>3. QED  BY Zenon, <1>1, <1>2, AlikeKeeps

\* routes end with their peers,
LEMMA EndRoutesKeeps ==
    ASSUME NEW s, Loose(s), \A p \in s.peers : ~p.late, NEW stalled \in BOOLEAN
    PROVE  LET t == EndRoutes(s, stalled) IN
           /\ Loose(t) /\ RoutesBacked(t) /\ Wanes(s, t)
           /\ \A p \in t.peers : ~p.late
<1> DEFINE gone == {b \in s.acons \cup s.aroute :
                       PeerExpired(s, b.lease) \/ (stalled /\ b \notin s.muted)}
                   \cup {p.b : p \in {q \in s.proute : q.late \/ PeerExpired(s, q.b.lease)}}
           u == [s EXCEPT !.acons = {}, !.aroute = {}, !.proute = {}]
           t == EndRoutes(s, stalled)
<1>1. s \in MediaStates /\ Exclusive(s) /\ FieldsOK(s)
  BY Zenon DEF Loose
<1>2. t = IF gone = {} THEN s ELSE Forget(Returning(u, Only(gone)), Only(gone))
  BY Zenon DEF EndRoutes
<1> HIDE DEF t
<1>3. CASE gone = {}
  <2>1. t = s
    BY Zenon, <1>2, <1>3
  <2>2. ASSUME NEW b, NEW modes, FieldOK(s, b, modes), ~PeerExpired(s, b.lease)
        PROVE  HasPeer(s, b)
    BY Zenon, <2>2 DEF PeerExpired, PeersOf, FieldOK, HasPeer
  <2>3. /\ \A b \in s.acons \cup s.aroute : ~PeerExpired(s, b.lease)
        /\ \A p \in s.proute : ~PeerExpired(s, p.b.lease)
    BY Zenon, <1>3
  <2>4. RoutesBacked(s)
    BY Zenon, <1>1, <2>2, <2>3 DEF RoutesBacked, FieldsOK
  <2>5. Wanes(s, s)
    BY <1>1 DEF Wanes, Fades, MediaStates
  <2>6. QED  BY Zenon, <2>1, <2>4, <2>5 DEF t
<1>4. CASE gone # {}
  <2>1. Only(gone) \in gone
    BY Zenon, <1>4 DEF Only
  <2>2. gone \subseteq Bindings
    BY <1>1 DEF MediaStates, Pendings
  <2>3. s.acons # {} \/ s.aroute # {} \/ s.proute # {}
    BY Zenon, <1>4
  <2>4. /\ u \in MediaStates /\ SlotsEmpty(u) /\ u.call = s.call
        /\ u.peers = s.peers /\ u.owner = s.owner
    BY Zenon, <1>1, <2>3 DEF MediaStates, SlotsEmpty, Exclusive
  <2>5. t = Forget(Returning(u, Only(gone)), Only(gone)) /\ Only(gone) \in Bindings
    BY Zenon, <1>2, <1>4, <2>1, <2>2
  <2> HIDE DEF gone, u
  <2>6. MediaInv(t) /\ Wanes(s, t)
    BY Zenon, <2>4, <2>5, ReturningEnds
  <2>7. t.peers = s.peers
    BY Zenon, <2>4, <2>5 DEF Forget, Returning, MediaStates
  <2>8. QED  BY Zenon, <2>6, <2>7 DEF t, MediaInv
<1>5. QED  BY Zenon, <1>3, <1>4

\* and so do the claims on their way.
LEMMA EndClaimsKeeps ==
    ASSUME NEW s, Loose(s), RoutesBacked(s), \A p \in s.peers : ~p.late
    PROVE  MediaInv(EndClaims(s)) /\ Wanes(s, EndClaims(s))
<1> DEFINE gone == {p.b : p \in {q \in s.pcons \cup s.prep : q.late \/ PeerExpired(s, q.b.lease)}}
                   \cup {MediaBinding(c) : c \in {d \in s.claim : d.late \/ d.deadline = "late"}}
           u == [s EXCEPT !.prep = {}, !.pcons = {}, !.claim = {},
                          !.peers = Without(s, Only(gone).lease)]
           t == EndClaims(s)
<1>1. s \in MediaStates /\ Exclusive(s) /\ FieldsOK(s) /\ ServiceOK(s)
  BY Zenon DEF Loose
<1>2. t = IF gone = {} THEN s ELSE CancelledInPlace(u, Only(gone))
  BY Zenon DEF EndClaims
<1> HIDE DEF t
<1>3. CASE gone = {}
  <2>1. t = s
    BY Zenon, <1>2, <1>3
  <2>2. ASSUME NEW b, NEW modes, FieldOK(s, b, modes), ~PeerExpired(s, b.lease)
        PROVE  HasPeer(s, b)
    BY Zenon, <2>2 DEF PeerExpired, PeersOf, FieldOK, HasPeer
  <2>3. \A p \in s.pcons \cup s.prep : ~PeerExpired(s, p.b.lease)
    BY Zenon, <1>3
  <2>4. HoldsBacked(s)
    BY Zenon, <1>1, <2>2, <2>3 DEF HoldsBacked, FieldsOK
  <2>5. Wanes(s, s)
    BY <1>1 DEF Wanes, Fades, MediaStates
  <2>6. QED  BY Zenon, <2>1, <2>4, <2>5 DEF t, MediaInv
<1>4. CASE gone # {}
  <2>1. Only(gone) \in gone
    BY Zenon, <1>4 DEF Only
  <2>2. gone \subseteq Bindings
    <3>1. \A c \in s.claim : MediaBinding(c) \in Bindings
      BY Zenon, <1>1 DEF MediaBinding, Only, MediaStates, Claims
    <3>2. QED  BY <1>1, <3>1 DEF MediaStates, Pendings
  <2>3. s.pcons # {} \/ s.prep # {} \/ s.claim # {}
    BY Zenon, <1>4
  <2>4. Without(s, Only(gone).lease) \subseteq s.peers
    BY ZenonT(30) DEF Without
  <2>5. /\ u \in MediaStates /\ SlotsEmpty(u) /\ u.call = s.call
        /\ u.peers \subseteq s.peers /\ u.owner = s.owner
        /\ u.sent => u.ret # {} /\ s.sent
    BY ZenonT(30), <1>1, <2>3, <2>4 DEF MediaStates, SlotsEmpty, Exclusive, ServiceOK
  <2>6. t = CancelledInPlace(u, Only(gone)) /\ Only(gone) \in Bindings
    BY Zenon, <1>2, <1>4, <2>1, <2>2
  <2> HIDE DEF gone, u
  <2>7. QED  BY Zenon, <2>5, <2>6, CancelEnds DEF t
<1>5. QED  BY Zenon, <1>3, <1>4

--------------------------------------------------------------------------
(* Operators that begin or settle a turn                                   *)

Doings == {"none", "Prepare", "EnterHuman", "EnterConsult", "Revoke", "ReturnToAokie"}

\* The fields stay in order where the call, its epochs and the peers stay.
LEMMA SameFields ==
    ASSUME NEW s, NEW t, FieldsOK(s), Exclusive(s),
           t.call = s.call, t.owner = s.owner, t.peers = s.peers,
           t.prep = s.prep, t.claim = s.claim, t.pcons = s.pcons, t.acons = s.acons,
           t.proute = s.proute, t.aroute = s.aroute
    PROVE  FieldsOK(t) /\ Exclusive(t)
<1>1. ASSUME NEW b, NEW modes, FieldOK(s, b, modes) PROVE FieldOK(t, b, modes)
  BY Zenon, <1>1 DEF FieldOK, Here
<1>2. FieldsOK(t)
  <2>1. /\ \A p \in t.prep : FieldOK(t, p.b, {"PreparedConsult", "PreparedTalk"})
        /\ \A p \in t.pcons : FieldOK(t, p.b, {"Consult"})
        /\ \A b \in t.acons : FieldOK(t, b, {"Consult"})
        /\ \A p \in t.proute : FieldOK(t, p.b, {"Talk"})
        /\ \A b \in t.aroute : FieldOK(t, b, {"Talk"})
    BY Zenon, <1>1 DEF FieldsOK
  <2>2. \A c \in t.claim :
           /\ c.b.call = t.call /\ c.confirmed = t.owner[c.b.call]
           /\ \A p \in t.peers : p.b.mode # "Monitor" => p.b.lease = c.b.lease
    BY ZenonT(30) DEF FieldsOK
  <2>3. QED  BY Zenon, <2>1, <2>2 DEF FieldsOK
<1>3. Exclusive(t)
  <2>1. /\ \A p \in t.prep : p \in s.prep
        /\ \A p \in t.claim : p \in s.claim
        /\ \A p \in t.pcons : p \in s.pcons
        /\ \A p \in t.proute : p \in s.proute
        /\ \A p \in t.acons : p \in s.acons
        /\ \A p \in t.aroute : p \in s.aroute
    BY Zenon
  <2>2. /\ \A p, q \in t.prep : p.b = q.b
        /\ \A p, q \in t.claim : p.b = q.b
        /\ \A p, q \in t.pcons : p.b = q.b
        /\ \A p, q \in t.proute : p.b = q.b
        /\ \A p, q \in t.acons : p = q
        /\ \A p, q \in t.aroute : p = q
    BY Zenon, <2>1 DEF Exclusive
  <2>3. QED  BY Zenon, <2>2 DEF Exclusive
<1>4. QED  BY Zenon, <1>2, <1>3

\* So do the peers.
LEMMA SamePeers ==
    ASSUME NEW s, NEW t, PeersOK(s), t.call = s.call, t.peers = s.peers
    PROVE  PeersOK(t)
<1>1. \A p \in t.peers : p \in s.peers
  BY Zenon
<1>2. QED  BY Zenon, <1>1 DEF PeersOK

\* One thing is asked of the radio; only a return is marked as dispatched.
LEMMA DispatchKeeps ==
    ASSUME NEW s, MediaInv(s)
    PROVE  LET d == Dispatch(s) IN
           /\ MediaInv(d.m) /\ Fades(s, d.m)
           /\ d.do \in Doings /\ d.b \subseteq Bindings
           /\ d.m.sent => s.sent \/ d.do = "ReturnToAokie"
<1> DEFINE asked(S) == {[p EXCEPT !.sent = TRUE] : p \in S}
           new(S) == {p.b : p \in {q \in S : ~q.sent}}
           d == Dispatch(s)
<1>1. s \in MediaStates /\ Loose(s)
  BY Zenon DEF MediaInv, Loose
<1>2. ASSUME NEW S \in SUBSET Pendings
      PROVE  /\ asked(S) \subseteq Pendings /\ new(S) \subseteq Bindings
             /\ asked(S) = {} => S = {}
             /\ \A p \in asked(S) : \E q \in S : q.b = p.b
  BY Zenon DEF Pendings
<1>3. /\ s.prep \in SUBSET Pendings /\ s.pcons \in SUBSET Pendings
      /\ s.proute \in SUBSET Pendings
  BY Zenon, <1>1 DEF MediaStates
<1>4. d = CASE s.ret # {} /\ ~s.sent ->
                 [do |-> "ReturnToAokie", b |-> {}, m |-> [s EXCEPT !.sent = TRUE]]
            [] s.ret = {} /\ new(s.proute) # {} ->
                 [do |-> "EnterHuman", b |-> new(s.proute),
                  m |-> [s EXCEPT !.proute = asked(s.proute)]]
            [] s.ret = {} /\ new(s.proute) = {} /\ new(s.pcons) # {} ->
                 [do |-> "EnterConsult", b |-> new(s.pcons),
                  m |-> [s EXCEPT !.pcons = asked(s.pcons)]]
            [] s.ret = {} /\ new(s.proute \cup s.pcons) = {} /\ new(s.prep) # {} ->
                 [do |-> "Prepare", b |-> new(s.prep), m |-> [s EXCEPT !.prep = asked(s.prep)]]
            [] OTHER -> [do |-> "none", b |-> {}, m |-> s]
  BY Zenon, <1>1 DEF Dispatch, MediaStates
<1>5. new(s.proute \cup s.pcons) = {} => new(s.proute) = {} /\ new(s.pcons) = {}
  BY Zenon
<1>6. MediaInv(s) /\ Wanes(s, s)
  BY <1>1 DEF Wanes, Fades, MediaStates
<1>7. /\ asked(s.prep) \subseteq Pendings /\ new(s.prep) \subseteq Bindings
      /\ asked(s.pcons) \subseteq Pendings /\ new(s.pcons) \subseteq Bindings
      /\ asked(s.proute) \subseteq Pendings /\ new(s.proute) \subseteq Bindings
      /\ asked(s.pcons) = {} => s.pcons = {}
      /\ asked(s.proute) = {} => s.proute = {}
      /\ \A p \in asked(s.prep) : \E q \in s.prep : q.b = p.b
      /\ \A p \in asked(s.pcons) : \E q \in s.pcons : q.b = p.b
      /\ \A p \in asked(s.proute) : \E q \in s.proute : q.b = p.b
  BY Zenon, <1>2, <1>3
<1> HIDE DEF asked, new, d
<1>8. CASE s.ret # {} /\ ~s.sent
  <2> DEFINE u == [s EXCEPT !.sent = TRUE]
  <2>1. d = [do |-> "ReturnToAokie", b |-> {}, m |-> u]
    BY Zenon, <1>4, <1>8
  <2>2. /\ u \in MediaStates /\ u.call = s.call /\ u.owner = s.owner /\ u.peers = s.peers
        /\ u.prep = s.prep /\ u.claim = s.claim /\ u.pcons = s.pcons /\ u.acons = s.acons
        /\ u.proute = s.proute /\ u.aroute = s.aroute /\ u.service = s.service
        /\ u.ret = s.ret
    BY Zenon, <1>1 DEF MediaStates
  <2> HIDE DEF u
  <2>3. PeersOK(u) /\ Exclusive(u) /\ FieldsOK(u)
    <3>1. PeersOK(s) /\ Exclusive(s) /\ FieldsOK(s)
      BY Zenon, <1>1 DEF Loose
    <3>2. PeersOK(u)
      BY Zenon, <2>2, <3>1, SamePeers
    <3>3. QED  BY Zenon, <2>2, <3>1, <3>2, SameFields
  <2>4. ServiceOK(u)
    BY Zenon, <1>1, <1>8, <2>2 DEF Loose, ServiceOK, Routed
  <2>5. RoutesBacked(u) /\ HoldsBacked(u)
    BY <2>2 DEF MediaInv, RoutesBacked, HoldsBacked, HasPeer
  <2>6. Fades(s, u)
    BY Zenon, <1>6, <2>2 DEF Wanes, Fades, Turn, Routed, SlotsEmpty
  <2>7. d.m = u /\ d.do = "ReturnToAokie" /\ d.b = {}
    BY Zenon, <2>1
  <2>8. QED
    BY Zenon, <2>2, <2>3, <2>4, <2>5, <2>6, <2>7 DEF d, MediaInv, Loose, Doings
<1>9. CASE s.ret = {} /\ new(s.proute) # {}
  <2>1. /\ d.do = "EnterHuman" /\ d.b = new(s.proute)
        /\ d.m = [s EXCEPT !.proute = asked(s.proute)]
    BY Zenon, <1>4, <1>5, <1>9
  <2>2. Alike(s, d.m) /\ d.m.peers = s.peers
    BY <1>1, <1>7, <2>1 DEF Alike, MediaStates
  <2>3. MediaInv(d.m) /\ Wanes(s, d.m)
    BY Zenon, <2>2, AlikeInv
  <2>4. QED  BY Zenon, <1>7, <2>1, <2>3 DEF d, Wanes, Doings
<1>10. CASE s.ret = {} /\ new(s.proute) = {} /\ new(s.pcons) # {}
  <2>1. /\ d.do = "EnterConsult" /\ d.b = new(s.pcons)
        /\ d.m = [s EXCEPT !.pcons = asked(s.pcons)]
    BY Zenon, <1>4, <1>5, <1>10
  <2>2. Alike(s, d.m) /\ d.m.peers = s.peers
    BY <1>1, <1>7, <2>1 DEF Alike, MediaStates
  <2>3. MediaInv(d.m) /\ Wanes(s, d.m)
    BY Zenon, <2>2, AlikeInv
  <2>4. QED  BY Zenon, <1>7, <2>1, <2>3 DEF d, Wanes, Doings
<1>11. CASE s.ret = {} /\ new(s.proute \cup s.pcons) = {} /\ new(s.prep) # {}
  <2>1. /\ d.do = "Prepare" /\ d.b = new(s.prep)
        /\ d.m = [s EXCEPT !.prep = asked(s.prep)]
    BY Zenon, <1>4, <1>5, <1>11
  <2>2. Alike(s, d.m) /\ d.m.peers = s.peers
    BY <1>1, <1>7, <2>1 DEF Alike, MediaStates
  <2>3. MediaInv(d.m) /\ Wanes(s, d.m)
    BY Zenon, <2>2, AlikeInv
  <2>4. QED  BY Zenon, <1>7, <2>1, <2>3 DEF d, Wanes, Doings
<1>12. CASE d = [do |-> "none", b |-> {}, m |-> s]
  BY <1>6, <1>12 DEF d, Wanes, Doings
<1>13. QED  BY Zenon, <1>4, <1>8, <1>9, <1>10, <1>11, <1>12

LEMMA TickKeeps ==
    ASSUME NEW s, MediaInv(s), NEW stalled \in BOOLEAN
    PROVE  LET d == NextTransition(s, stalled) IN
           /\ MediaInv(d.m) /\ Fades(s, d.m)
           /\ d.do \in Doings /\ d.b \subseteq Bindings
           /\ d.m.sent => s.sent \/ d.do = "ReturnToAokie"
<1> DEFINE u1 == ReconcileConsent(s)
           u2 == ExpirePeers(u1)
           u3 == EndRoutes(u2, stalled)
           u4 == EndClaims(u3)
           d == NextTransition(s, stalled)
<1>1. d = Dispatch(u4)
  BY Zenon DEF NextTransition
<1>2. MediaInv(u1) /\ Wanes(s, u1)
  <2>1. CASE s.consent = {}
    <3>1. {} \in SUBSET Kinds
      BY ZenonT(30)
    <3>2. QED  BY Zenon, <2>1, <3>1, ConsentKeeps DEF ReconcileConsent
  <2>2. CASE s.consent # {}
    BY <2>2 DEF ReconcileConsent, Wanes, Fades, MediaInv, Loose, MediaStates
  <2>3. QED  BY Zenon, <2>1, <2>2
<1> HIDE DEF u1
<1>3. Loose(u2) /\ Wanes(u1, u2) /\ \A p \in u2.peers : ~p.late
  BY Zenon, <1>2, ExpirePeersKeeps
<1> HIDE DEF u2
<1>4. Loose(u3) /\ RoutesBacked(u3) /\ Wanes(u2, u3) /\ \A p \in u3.peers : ~p.late
  BY Zenon, <1>3, EndRoutesKeeps
<1> HIDE DEF u3
<1>5. MediaInv(u4) /\ Wanes(u3, u4)
  BY Zenon, <1>4, EndClaimsKeeps
<1> HIDE DEF u4, d
<1>6. /\ s \in MediaStates /\ u1 \in MediaStates /\ u2 \in MediaStates
      /\ u3 \in MediaStates /\ u4 \in MediaStates
  BY Zenon, <1>2, <1>3, <1>4, <1>5 DEF MediaInv, Loose
<1>7. Wanes(s, u2)
  BY Zenon, <1>2, <1>3, <1>6, WanesFurther
<1>8. Wanes(s, u3)
  BY Zenon, <1>4, <1>6, <1>7, WanesFurther
<1>9. Wanes(s, u4)
  BY Zenon, <1>5, <1>6, <1>8, WanesFurther
<1>10. /\ MediaInv(d.m) /\ Fades(u4, d.m)
       /\ d.do \in Doings /\ d.b \subseteq Bindings
       /\ d.m.sent => u4.sent \/ d.do = "ReturnToAokie"
  BY Zenon, <1>1, <1>5, DispatchKeeps
<1>11. d.m \in MediaStates
  BY Zenon, <1>10 DEF MediaInv, Loose
<1>12. Fades(s, d.m)
  <2>1. \A c \in Calls : s.owner[c] <= d.m.owner[c]
    <3>1. \A c \in Calls : /\ s.owner[c] \in Nat /\ u4.owner[c] \in Nat
                           /\ d.m.owner[c] \in Nat
      BY Zenon, <1>6, <1>11 DEF MediaStates
    <3>2. QED  BY <1>9, <1>10, <3>1 DEF Wanes, Fades
  <2>2. \A p \in d.m.peers : \E q \in s.peers : q.b = p.b
    BY ZenonT(30), <1>9, <1>10 DEF Wanes, Fades
  <2>3. Turn(d.m) => Turn(s) /\ d.m.call = s.call /\ s.aroute \subseteq d.m.aroute
    BY Zenon, <1>9, <1>10 DEF Wanes, Fades
  <2>4. (SlotsEmpty(s) => SlotsEmpty(d.m)) /\ (Routed(d.m) => Routed(s))
    BY Zenon, <1>9, <1>10 DEF Wanes, Fades
  <2>5. QED  BY ZenonT(30), <2>1, <2>2, <2>3, <2>4 DEF Fades
<1>13. QED  BY Zenon, <1>9, <1>10, <1>12 DEF d, Wanes

\* The caller is back with Aokie.
LEMMA AckReturnKeeps ==
    ASSUME NEW s, MediaInv(s), MayAckReturn(s)
    PROVE  MediaInv(AckReturn(s)) /\ Wanes(s, AckReturn(s)) /\ ~AckReturn(s).sent
<1> DEFINE b == Only(s.ret)
           u == Cleared(s)
           w == Fenced(u, b)
           r == [w EXCEPT !.ret = {}, !.sent = FALSE, !.service = "AokieActive"]
           t == AckReturn(s)
<1>1. s \in MediaStates /\ Loose(s)
  BY Zenon DEF MediaInv, Loose
<1>2. b \in Bindings
  BY Zenon, <1>1 DEF MayAckReturn, Only, MediaStates
<1>3. t = Forget(r, b)
  BY Zenon DEF AckReturn
<1>4. /\ u \in MediaStates /\ SlotsEmpty(u) /\ u.call = s.call /\ u.peers = s.peers
      /\ u.owner = s.owner
  BY Zenon, <1>1, ClearedIs
<1> HIDE DEF u, b, t
<1>5. /\ w \in MediaStates /\ \A c \in Calls : s.owner[c] <= w.owner[c]
      /\ w = [u EXCEPT !.owner = w.owner]
  BY Zenon, <1>2, <1>4, FencedGrows
<1> HIDE DEF w
<1>6. w.call = s.call /\ SlotsEmpty(w) /\ w.peers = s.peers
  BY Zenon, <1>4, <1>5 DEF MediaStates, SlotsEmpty
<1>7. /\ r \in MediaStates /\ SlotsEmpty(r) /\ r.call = s.call /\ r.peers = s.peers
      /\ r.owner = w.owner /\ r.service = "AokieActive" /\ ~r.sent
  BY Zenon, <1>5, <1>6 DEF MediaStates, SlotsEmpty, ServiceModes
<1> HIDE DEF r
<1>8. /\ t \in MediaStates /\ SlotsEmpty(t) /\ t.call = s.call /\ t.peers = s.peers
      /\ t.owner = w.owner /\ t.service = "AokieActive" /\ ~t.sent
  BY Zenon, <1>3, <1>7 DEF Forget, MediaStates, SlotsEmpty
<1>9. QED  BY Zenon, <1>1, <1>5, <1>8, Ends DEF t

\* A frame without a permit ends its route.
LEMMA TalkLapsesKeeps ==
    ASSUME NEW s, MediaInv(s), NEW b \in s.aroute
    PROVE  MediaInv(TalkLapses(s, b)) /\ Wanes(s, TalkLapses(s, b))
<1> DEFINE u == [s EXCEPT !.aroute = {}]
<1>1. s \in MediaStates /\ Loose(s) /\ Exclusive(s)
  BY Zenon DEF MediaInv, Loose
<1>2. b \in Bindings
  BY Zenon, <1>1 DEF MediaStates
<1>3. /\ u \in MediaStates /\ SlotsEmpty(u) /\ u.call = s.call /\ u.peers = s.peers
      /\ u.owner = s.owner
  BY Zenon, <1>1 DEF MediaStates, SlotsEmpty, Exclusive
<1>4. TalkLapses(s, b) = Returning(u, b)
  BY Zenon DEF TalkLapses
<1> HIDE DEF u
<1>5. QED  BY Zenon, <1>1, <1>2, <1>3, <1>4, ReturningEnds

\* Muting, and a disclosure that has run out, touch neither fields nor peers.
LEMMA MuteKeeps ==
    ASSUME NEW s, MediaInv(s), NEW b \in Bindings, NEW on \in BOOLEAN,
           NEW t \in {SetMuted(s, b, on), [s EXCEPT !.consent = {}]}
    PROVE  MediaInv(t) /\ Wanes(s, t)
<1>1. s \in MediaStates
  BY Zenon DEF MediaInv, Loose
<1>2. (IF on THEN {b} ELSE {}) \subseteq Bindings
  BY Zenon
<1>3. Alike(s, t) /\ t.peers = s.peers
  BY <1>1, <1>2 DEF SetMuted, Alike, MediaStates
<1>4. QED  BY Zenon, <1>3, AlikeInv

\* The soft hold is confirmed: the claim stands under a new owner epoch.
LEMMA AckPrepareKeeps ==
    ASSUME NEW s, MediaInv(s), NEW b \in Bindings, MayAckPrepare(s, b)
    PROVE  LET t == AckPrepare(s, b) IN
           /\ MediaInv(t) /\ t.peers = s.peers /\ t.sent = s.sent /\ ~Routed(t)
           /\ \A c \in Calls : s.owner[c] <= t.owner[c]
           /\ t.owner[t.call] = s.owner[t.call] + 1 /\ t.call = b.call
           /\ s.aroute = {} /\ ~SlotsEmpty(s)
<1> DEFINE e == [s.owner EXCEPT ![b.call] = @ + 1]
           c == [b |-> b, confirmed |-> b.owner + 1, late |-> FALSE,
                 deadline |-> "none", media |-> {}]
           t == AckPrepare(s, b)
<1>1. s \in MediaStates /\ Exclusive(s) /\ PeersOK(s) /\ FieldsOK(s) /\ ServiceOK(s)
  BY Zenon DEF MediaInv, Loose
<1>2. b.call \in Calls /\ b.owner \in Nat /\ s.owner \in [Calls -> Nat]
  BY Zenon, <1>1 DEF MediaStates, Bindings
<1>3. PICK p \in s.prep : p.b = b
  BY Zenon DEF MayAckPrepare, MayAck
<1>4. s.call = b.call /\ s.owner[b.call] = b.owner
  BY Zenon DEF MayAckPrepare, MayAck, Live
<1>5. e \in [Calls -> Nat] /\ e[b.call] = b.owner + 1
      /\ \A k \in Calls : s.owner[k] <= e[k]
  BY <1>2, <1>4
<1>6. c \in Claims
  <2>1. b.owner + 1 \in Nat
    BY <1>2
  <2>2. QED  BY Zenon, <1>2, <2>1 DEF Claims
<1>7. t = [s EXCEPT !.owner = e, !.prep = {}, !.service = "AokieActive", !.claim = {c}]
  BY Zenon, <1>1 DEF AckPrepare, MediaStates
<1>8. c.b = b /\ c.confirmed = b.owner + 1
  BY Zenon
<1> HIDE DEF e, c, t
<1>9. s.claim = {} /\ s.pcons = {} /\ s.acons = {} /\ s.proute = {} /\ s.aroute = {}
  BY Zenon, <1>1, <1>3 DEF Exclusive
<1>10. /\ t \in MediaStates /\ t.call = s.call /\ t.owner = e /\ t.peers = s.peers
       /\ t.prep = {} /\ t.claim = {c} /\ t.pcons = {} /\ t.acons = {}
       /\ t.proute = {} /\ t.aroute = {} /\ t.service = "AokieActive"
       /\ t.ret = s.ret /\ t.sent = s.sent
  BY Zenon, <1>1, <1>5, <1>6, <1>7, <1>9 DEF MediaStates, ServiceModes
<1>11. Exclusive(t) /\ PeersOK(t) /\ ServiceOK(t) /\ RoutesBacked(t) /\ HoldsBacked(t)
  <2>1. Exclusive(t)
    BY Zenon, <1>10 DEF Exclusive
  <2>2. PeersOK(t)
    BY Zenon, <1>1, <1>10, SamePeers
  <2>3. ServiceOK(t)
    <3>1. ~Routed(t)
      BY Zenon, <1>10 DEF Routed
    <3>2. t.sent => t.ret # {}
      BY Zenon, <1>1, <1>10 DEF ServiceOK
    <3>3. QED  BY Zenon, <1>10, <3>1, <3>2 DEF ServiceOK
  <2>4. RoutesBacked(t) /\ HoldsBacked(t)
    BY Zenon, <1>10 DEF RoutesBacked, HoldsBacked
  <2>5. QED  BY Zenon, <2>1, <2>2, <2>3, <2>4
<1>12. FieldsOK(t)
  <2>1. \A q \in t.peers : q.b.mode # "Monitor" => q.b.lease = b.lease
    <3>1. FieldOK(s, b, {"PreparedConsult", "PreparedTalk"})
      BY Zenon, <1>1, <1>3 DEF FieldsOK
    <3>2. QED  BY Zenon, <1>10, <3>1 DEF FieldOK
  <2>2. c.b.call = t.call /\ c.confirmed = t.owner[c.b.call]
    BY Zenon, <1>4, <1>5, <1>8, <1>10
  <2>3. QED  BY Zenon, <1>8, <1>10, <2>1, <2>2 DEF FieldsOK
<1>13. QED
  BY Zenon, <1>2, <1>3, <1>4, <1>5, <1>9, <1>10, <1>11, <1>12
  DEF t, MediaInv, Loose, Routed, SlotsEmpty

\* The route is open.
LEMMA AckEnterKeeps ==
    ASSUME NEW s, MediaInv(s), NEW b \in Bindings, MayAckEnter(s, b)
    PROVE  MediaInv(AckEnter(s, b)) /\ Wanes(s, AckEnter(s, b)) /\ Routed(s)
<1> DEFINE t == AckEnter(s, b)
<1>1. s \in MediaStates /\ Exclusive(s) /\ PeersOK(s) /\ FieldsOK(s) /\ ServiceOK(s)
      /\ RoutesBacked(s)
  BY Zenon DEF MediaInv, Loose
<1>2. PICK p \in s.proute : p.b = b
  BY Zenon DEF MayAckEnter, MayAck
<1>3. /\ s.prep = {} /\ s.claim = {} /\ s.pcons = {} /\ s.acons = {} /\ s.aroute = {}
  BY Zenon, <1>1, <1>2 DEF Exclusive
<1>4. /\ t \in MediaStates /\ t.call = s.call /\ t.owner = s.owner /\ t.peers = s.peers
      /\ t.prep = {} /\ t.claim = {} /\ t.pcons = {} /\ t.acons = {}
      /\ t.proute = {} /\ t.aroute = {b} /\ t.service = "HumanActive"
      /\ t.ret = s.ret /\ t.sent = s.sent
  BY Zenon, <1>1, <1>3 DEF AckEnter, MediaStates, ServiceModes
<1> HIDE DEF t
<1>5. Exclusive(t) /\ PeersOK(t) /\ ServiceOK(t)
  <2>1. Exclusive(t)
    BY Zenon, <1>4 DEF Exclusive
  <2>2. PeersOK(t)
    BY Zenon, <1>1, <1>4, SamePeers
  <2>3. ServiceOK(t)
    <3>1. Routed(t)
      BY Zenon, <1>4 DEF Routed
    <3>2. t.sent => t.ret # {}
      BY Zenon, <1>1, <1>4 DEF ServiceOK
    <3>3. QED  BY Zenon, <1>4, <3>1, <3>2 DEF ServiceOK
  <2>4. QED  BY Zenon, <2>1, <2>2, <2>3
<1>6. FieldsOK(t)
  <2>1. FieldOK(s, b, {"Talk"})
    BY Zenon, <1>1, <1>2 DEF FieldsOK
  <2>2. FieldOK(t, b, {"Talk"})
    BY Zenon, <1>4, <2>1 DEF FieldOK, Here
  <2>3. QED  BY Zenon, <1>4, <2>2 DEF FieldsOK
<1>7. RoutesBacked(t) /\ HoldsBacked(t)
  BY ZenonT(30), <1>1, <1>2, <1>4 DEF RoutesBacked, HoldsBacked, HasPeer
<1>8. Wanes(s, t) /\ Routed(s)
  <2>1. \A c \in Calls : s.owner[c] <= t.owner[c]
    <3>1. \A c \in Calls : s.owner[c] \in Nat
      BY Zenon, <1>1 DEF MediaStates
    <3>2. QED  BY <1>4, <3>1
  <2>2. Routed(s) /\ ~SlotsEmpty(s)
    BY Zenon, <1>2 DEF Routed, SlotsEmpty
  <2>3. Turn(t) => Turn(s) /\ t.call = s.call /\ s.aroute \subseteq t.aroute
    BY Zenon, <1>2, <1>3, <1>4 DEF Turn
  <2>4. QED  BY Zenon, <1>4, <2>1, <2>2, <2>3 DEF Wanes, Fades
<1>9. QED
  BY Zenon, <1>4, <1>5, <1>6, <1>7, <1>8 DEF t, MediaInv, Loose

LEMMA AckEnterConsultKeeps ==
    ASSUME NEW s, MediaInv(s), NEW b \in Bindings, MayAckEnterConsult(s, b)
    PROVE  MediaInv(AckEnterConsult(s, b)) /\ Wanes(s, AckEnterConsult(s, b)) /\ Routed(s)
<1> DEFINE t == AckEnterConsult(s, b)
<1>1. s \in MediaStates /\ Exclusive(s) /\ PeersOK(s) /\ FieldsOK(s) /\ ServiceOK(s)
      /\ HoldsBacked(s)
  BY Zenon DEF MediaInv, Loose
<1>2. PICK p \in s.pcons : p.b = b
  BY Zenon DEF MayAckEnterConsult, MayAck
<1>3. /\ s.prep = {} /\ s.claim = {} /\ s.acons = {} /\ s.proute = {} /\ s.aroute = {}
  BY Zenon, <1>1, <1>2 DEF Exclusive
<1>4. /\ t \in MediaStates /\ t.call = s.call /\ t.owner = s.owner /\ t.peers = s.peers
      /\ t.prep = {} /\ t.claim = {} /\ t.pcons = {} /\ t.acons = {b}
      /\ t.proute = {} /\ t.aroute = {} /\ t.service = "ConsultActive"
      /\ t.ret = s.ret /\ t.sent = s.sent
  BY Zenon, <1>1, <1>3 DEF AckEnterConsult, MediaStates, ServiceModes
<1> HIDE DEF t
<1>5. Exclusive(t) /\ PeersOK(t) /\ ServiceOK(t)
  <2>1. Exclusive(t)
    BY Zenon, <1>4 DEF Exclusive
  <2>2. PeersOK(t)
    BY Zenon, <1>1, <1>4, SamePeers
  <2>3. ServiceOK(t)
    <3>1. Routed(t)
      BY Zenon, <1>4 DEF Routed
    <3>2. t.sent => t.ret # {}
      BY Zenon, <1>1, <1>4 DEF ServiceOK
    <3>3. QED  BY Zenon, <1>4, <3>1, <3>2 DEF ServiceOK
  <2>4. QED  BY Zenon, <2>1, <2>2, <2>3
<1>6. FieldsOK(t)
  <2>1. FieldOK(s, b, {"Consult"})
    BY Zenon, <1>1, <1>2 DEF FieldsOK
  <2>2. FieldOK(t, b, {"Consult"})
    BY Zenon, <1>4, <2>1 DEF FieldOK, Here
  <2>3. QED  BY Zenon, <1>4, <2>2 DEF FieldsOK
<1>7. RoutesBacked(t) /\ HoldsBacked(t)
  BY ZenonT(30), <1>1, <1>2, <1>4 DEF RoutesBacked, HoldsBacked, HasPeer
<1>8. Wanes(s, t) /\ Routed(s)
  <2>1. \A c \in Calls : s.owner[c] <= t.owner[c]
    <3>1. \A c \in Calls : s.owner[c] \in Nat
      BY Zenon, <1>1 DEF MediaStates
    <3>2. QED  BY <1>4, <3>1
  <2>2. Routed(s) /\ ~SlotsEmpty(s)
    BY Zenon, <1>2 DEF Routed, SlotsEmpty
  <2>3. Turn(t) => Turn(s) /\ t.call = s.call /\ s.aroute \subseteq t.aroute
    BY Zenon, <1>2, <1>3, <1>4 DEF Turn
  <2>4. QED  BY Zenon, <1>4, <2>1, <2>2, <2>3 DEF Wanes, Fades
<1>9. QED
  BY Zenon, <1>4, <1>5, <1>6, <1>7, <1>8 DEF t, MediaInv, Loose

\* The late checks of the acknowledgements never find anything: a pending
\* route still has its peer and its owner epoch.
LEMMA EnterFailsNever ==
    ASSUME NEW s, MediaInv(s), NEW b \in Bindings
    PROVE  /\ ~MayAckEnter(s, b) => AckEnterFails(s, b) = s
           /\ AckEnterConsultFails(s, b) = s
<1>1. FieldsOK(s) /\ RoutesBacked(s) /\ HoldsBacked(s)
  BY ZenonT(30) DEF MediaInv, Loose
<1>2. ASSUME NEW p \in s.proute, p.b = b
      PROVE  /\ s.owner[b.call] = b.owner /\ b.mode = "Talk" /\ PeersOf(s, b.lease) # {}
  <2>1. FieldOK(s, b, {"Talk"})
    BY Zenon, <1>1, <1>2 DEF FieldsOK
  <2>2. HasPeer(s, b)
    BY Zenon, <1>1, <1>2 DEF RoutesBacked
  <2>3. PeersOf(s, b.lease) # {}
    BY Zenon, <2>2 DEF HasPeer, PeersOf
  <2>4. QED  BY Zenon, <2>1, <2>3 DEF FieldOK, Here
<1>3. ASSUME NEW p \in s.pcons, p.b = b
      PROVE  PeersOf(s, b.lease) # {}
  BY Zenon, <1>1, <1>3 DEF HoldsBacked, HasPeer, PeersOf
<1>4. ~MayAckEnter(s, b) => AckEnterFails(s, b) = s
  BY Zenon, <1>2 DEF MayAckEnter, MayAck, AckEnterFails
<1>5. AckEnterConsultFails(s, b) = s
  BY Zenon, <1>3 DEF AckEnterConsultFails, MayAck
<1>6. QED  BY Zenon, <1>4, <1>5

\* A peer is opened where MayOpen allows it.
LEMMA InsertPeerKeeps ==
    ASSUME NEW s, MediaInv(s), NEW b \in Bindings, MayOpen(s, b)
    PROVE  LET t == InsertPeer(s, b) IN
           /\ MediaInv(t) /\ t.owner = s.owner /\ t.call = s.call /\ t.sent = s.sent
           /\ t.aroute = s.aroute
           /\ Turn(t) => Turn(s)
           /\ Routed(t) => Routed(s)
           /\ SlotsEmpty(s) => SlotsEmpty(t)
           /\ \A p \in t.peers : p.b = b \/ p \in s.peers
<1> DEFINE new == [b |-> b, late |-> FALSE]
           claim == IF b.mode \in {"Consult", "Talk"}
                    THEN {[c EXCEPT !.deadline = "armed", !.media = {b}] : c \in s.claim}
                    ELSE s.claim
           t == InsertPeer(s, b)
<1>1. s \in MediaStates /\ Exclusive(s) /\ PeersOK(s) /\ FieldsOK(s) /\ ServiceOK(s)
      /\ RoutesBacked(s) /\ HoldsBacked(s)
  BY Zenon DEF MediaInv, Loose
<1>2. new \in Peers /\ new.b = b
  BY Zenon DEF Peers
<1>3. /\ claim \subseteq Claims
      /\ claim = {} <=> s.claim = {}
      /\ \A c \in claim : \E d \in s.claim : d.b = c.b /\ d.confirmed = c.confirmed
  <2>1. ASSUME NEW S \in SUBSET Claims
        PROVE  /\ {[c EXCEPT !.deadline = "armed", !.media = {b}] : c \in S} \subseteq Claims
               /\ {[c EXCEPT !.deadline = "armed", !.media = {b}] : c \in S} = {} <=> S = {}
               /\ \A c \in {[c EXCEPT !.deadline = "armed", !.media = {b}] : c \in S} :
                     \E d \in S : d.b = c.b /\ d.confirmed = c.confirmed
    <3> DEFINE f(c) == [c EXCEPT !.deadline = "armed", !.media = {b}]
    <3>1. \A c \in Claims : /\ f(c) \in Claims /\ f(c).b = c.b
                            /\ f(c).confirmed = c.confirmed
      BY Zenon DEF Claims
    <3> HIDE DEF f
    <3>2. /\ {f(c) : c \in S} \subseteq Claims
          /\ {f(c) : c \in S} = {} <=> S = {}
          /\ \A c \in {f(x) : x \in S} : \E d \in S : d.b = c.b /\ d.confirmed = c.confirmed
      BY Zenon, <3>1
    <3>3. QED  BY Zenon, <3>2 DEF f
  <2>2. s.claim \in SUBSET Claims
    BY Zenon, <1>1 DEF MediaStates
  <2>3. QED  BY Zenon, <2>1, <2>2
<1>4. t = [s EXCEPT !.peers = s.peers \cup {new}, !.claim = claim]
  BY Zenon, <1>1 DEF InsertPeer, MediaStates
<1> HIDE DEF new, claim, t
<1>5. /\ t \in MediaStates /\ t.call = s.call /\ t.owner = s.owner
      /\ t.peers = s.peers \cup {new} /\ t.prep = s.prep /\ t.claim = claim
      /\ t.pcons = s.pcons /\ t.acons = s.acons /\ t.proute = s.proute
      /\ t.aroute = s.aroute /\ t.service = s.service /\ t.ret = s.ret /\ t.sent = s.sent
  BY Zenon, <1>1, <1>2, <1>3, <1>4 DEF MediaStates
<1>6. Exclusive(t) /\ ServiceOK(t)
  <2>1. \A p, q \in t.claim : p.b = q.b
    <3>1. \A p \in t.claim : \E d \in s.claim : d.b = p.b
      BY Zenon, <1>3, <1>5
    <3>2. \A p, q \in s.claim : p.b = q.b
      BY Zenon, <1>1 DEF Exclusive
    <3>3. QED  BY Zenon, <3>1, <3>2
  <2>2. Exclusive(t)
    <3>0. /\ \A p \in t.prep : p \in s.prep
          /\ \A p \in t.pcons : p \in s.pcons
          /\ \A p \in t.proute : p \in s.proute
          /\ \A p \in t.acons : p \in s.acons
          /\ \A p \in t.aroute : p \in s.aroute
      BY Zenon, <1>5
    <3>1. /\ \A p, q \in t.prep : p.b = q.b
          /\ \A p, q \in t.pcons : p.b = q.b
          /\ \A p, q \in t.proute : p.b = q.b
          /\ \A p, q \in t.acons : p = q
          /\ \A p, q \in t.aroute : p = q
      <4>1. /\ \A p, q \in s.prep : p.b = q.b
            /\ \A p, q \in s.pcons : p.b = q.b
            /\ \A p, q \in s.proute : p.b = q.b
            /\ \A p, q \in s.acons : p = q
            /\ \A p, q \in s.aroute : p = q
        BY Zenon, <1>1 DEF Exclusive
      <4>2. QED  BY ZenonT(30), <3>0, <4>1
    <3>2. /\ t.prep # {} => t.claim = {} /\ t.pcons = {} /\ t.acons = {}
                            /\ t.proute = {} /\ t.aroute = {}
          /\ t.claim # {} => t.pcons = {} /\ t.acons = {} /\ t.proute = {} /\ t.aroute = {}
          /\ t.pcons # {} => t.acons = {} /\ t.proute = {} /\ t.aroute = {}
          /\ t.acons # {} => t.proute = {} /\ t.aroute = {}
          /\ t.proute # {} => t.aroute = {}
      <4>1. t.claim # {} <=> s.claim # {}
        BY Zenon, <1>3, <1>5
      <4>2. QED  BY Zenon, <1>1, <1>5, <4>1 DEF Exclusive
    <3>3. QED  BY Zenon, <2>1, <3>1, <3>2 DEF Exclusive
  <2>3. ServiceOK(t)
    <3>1. Routed(t) <=> Routed(s)
      BY Zenon, <1>5 DEF Routed
    <3>2. (t.service # "AokieActive" => Routed(s) \/ s.ret # {}) /\ (Routed(s) => t.service # "AokieActive")
      BY Zenon, <1>1, <1>5 DEF ServiceOK
    <3>3. t.sent => t.ret # {}
      BY Zenon, <1>1, <1>5 DEF ServiceOK
    <3>4. QED  BY Zenon, <1>5, <3>1, <3>2, <3>3 DEF ServiceOK
  <2>4. QED  BY Zenon, <2>2, <2>3
<1>7. /\ s.call = b.call
      /\ \A p \in s.peers : p.b.lease # b.lease
  BY Zenon DEF MayOpen, PeersOf
<1>8. b.mode \in Modes
  BY Zenon DEF Bindings
<1>9. b.mode # "Monitor" =>
          /\ s.prep = {} /\ s.pcons = {} /\ s.acons = {} /\ s.proute = {} /\ s.aroute = {}
          /\ \A p \in s.peers : p.b.mode = "Monitor" \/ p.b.lease = b.lease
          /\ \A c \in s.claim : c.b.lease = b.lease
  <2>1. CASE b.mode \in {"PreparedConsult", "PreparedTalk"}
    BY Zenon, <2>1 DEF MayOpen, SlotsEmpty
  <2>2. CASE b.mode \in {"Consult", "Talk"}
    <3>1. PICK c \in s.claim : c.b.lease = b.lease
      BY Zenon, <2>2 DEF MayOpen
    <3>2. QED  BY Zenon, <1>1, <3>1 DEF Exclusive, FieldsOK
  <2>3. QED  BY Zenon, <1>8, <2>1, <2>2 DEF Modes
<1>10. PeersOK(t)
  BY ZenonT(30), <1>1, <1>2, <1>5, <1>7, <1>9 DEF PeersOK
<1>11. FieldsOK(t)
  <2>1. CASE b.mode = "Monitor"
    <3>1. ASSUME NEW d, NEW modes, FieldOK(s, d, modes), HasPeer(s, d)
          PROVE  FieldOK(t, d, modes)
      BY <1>2, <1>5, <1>7, <2>1, <3>1 DEF FieldOK, Here, HasPeer
    <3>2. /\ \A p \in t.prep : FieldOK(t, p.b, {"PreparedConsult", "PreparedTalk"})
          /\ \A p \in t.pcons : FieldOK(t, p.b, {"Consult"})
          /\ \A d \in t.acons : FieldOK(t, d, {"Consult"})
          /\ \A p \in t.proute : FieldOK(t, p.b, {"Talk"})
          /\ \A d \in t.aroute : FieldOK(t, d, {"Talk"})
      BY Zenon, <1>1, <1>5, <3>1 DEF FieldsOK, RoutesBacked, HoldsBacked
    <3>3. \A c \in t.claim :
             /\ c.b.call = t.call /\ c.confirmed = t.owner[c.b.call]
             /\ \A p \in t.peers : p.b.mode # "Monitor" => p.b.lease = c.b.lease
      <4>1. ASSUME NEW c \in t.claim
            PROVE  /\ c.b.call = t.call /\ c.confirmed = t.owner[c.b.call]
                   /\ \A p \in t.peers : p.b.mode # "Monitor" => p.b.lease = c.b.lease
        <5>1. PICK d \in s.claim : d.b = c.b /\ d.confirmed = c.confirmed
          BY Zenon, <1>3, <1>5
        <5>2. /\ d.b.call = s.call /\ d.confirmed = s.owner[d.b.call]
              /\ \A p \in s.peers : p.b.mode # "Monitor" => p.b.lease = d.b.lease
          BY Zenon, <1>1 DEF FieldsOK
        <5>3. QED  BY Zenon, <1>2, <1>5, <2>1, <5>1, <5>2
      <4>2. QED  BY Zenon, <4>1
    <3>4. QED  BY Zenon, <3>2, <3>3 DEF FieldsOK
  <2>2. CASE b.mode # "Monitor"
    <3>1. ASSUME NEW c \in t.claim
          PROVE  /\ c.b.call = t.call /\ c.confirmed = t.owner[c.b.call]
                 /\ \A p \in t.peers : p.b.mode # "Monitor" => p.b.lease = c.b.lease
      <4>1. PICK d \in s.claim : d.b = c.b /\ d.confirmed = c.confirmed
        BY Zenon, <1>3, <1>5
      <4>2. /\ d.b.call = s.call /\ d.confirmed = s.owner[d.b.call]
            /\ \A p \in s.peers : p.b.mode # "Monitor" => p.b.lease = d.b.lease
        BY Zenon, <1>1 DEF FieldsOK
      <4>3. d.b.lease = b.lease
        BY Zenon, <1>9, <2>2
      <4>4. QED  BY Zenon, <1>2, <1>5, <4>1, <4>2, <4>3
    <3>2. QED  BY Zenon, <1>5, <1>9, <2>2, <3>1 DEF FieldsOK
  <2>3. QED  BY Zenon, <2>1, <2>2
<1>12. RoutesBacked(t) /\ HoldsBacked(t)
  <2>1. \A d : HasPeer(s, d) => HasPeer(t, d)
    BY Zenon, <1>5 DEF HasPeer
  <2>2. QED  BY Zenon, <1>1, <1>5, <2>1 DEF RoutesBacked, HoldsBacked
<1>13. QED
  BY Zenon, <1>2, <1>3, <1>5, <1>6, <1>10, <1>11, <1>12
  DEF t, MediaInv, Loose, Turn, Routed, SlotsEmpty

\* A soft hold is asked for.
LEMMA SoftHoldKeeps ==
    ASSUME NEW s, MediaInv(s), NEW b \in Bindings, MayRequestSoftHold(s, b)
    PROVE  LET t == RequestSoftHold(s, b) IN
           /\ MediaInv(t) /\ t.owner = s.owner /\ t.call = s.call /\ t.sent = s.sent
           /\ t.peers = s.peers /\ s.aroute = {} /\ ~Turn(t) /\ ~Routed(t)
           /\ \E p \in s.peers : p.b.mode # "Monitor"
<1> DEFINE h == [b |-> b, sent |-> FALSE, late |-> FALSE]
           t == RequestSoftHold(s, b)
<1>1. s \in MediaStates /\ Exclusive(s) /\ PeersOK(s) /\ FieldsOK(s) /\ ServiceOK(s)
      /\ RoutesBacked(s) /\ HoldsBacked(s)
  BY Zenon DEF MediaInv, Loose
<1>2. /\ b.mode \in {"PreparedConsult", "PreparedTalk"}
      /\ s.call = b.call /\ s.owner[b.call] = b.owner
      /\ s.prep = {} /\ s.claim = {} /\ s.proute = {} /\ s.aroute = {}
  BY Zenon DEF MayRequestSoftHold, Live
<1>3. PICK q \in s.peers : q.b = b
  BY Zenon DEF MayRequestSoftHold, PeerReady
<1>4. s.pcons = {} /\ s.acons = {}
  <2>1. ASSUME NEW d, FieldOK(s, d, {"Consult"}), HasPeer(s, d)
        PROVE  FALSE
    <3>1. PICK p \in s.peers : p.b = d
      BY Zenon, <2>1 DEF HasPeer
    <3>2. p.b.mode = "Consult"
      BY Zenon, <2>1, <3>1 DEF FieldOK
    <3>3. p.b = q.b
      BY Zenon, <1>1, <1>2, <1>3, <3>2 DEF PeersOK
    <3>4. QED  BY Zenon, <1>2, <1>3, <3>2, <3>3
  <2>2. QED  BY Zenon, <1>1, <2>1 DEF FieldsOK, RoutesBacked, HoldsBacked
<1>5. h \in Pendings /\ h.b = b
  BY Zenon DEF Pendings
<1>6. t = [s EXCEPT !.prep = {h}, !.service = "AokieActive"]
  BY Zenon DEF RequestSoftHold
<1> HIDE DEF h, t
<1>7. /\ t \in MediaStates /\ t.call = s.call /\ t.owner = s.owner /\ t.peers = s.peers
      /\ t.prep = {h} /\ t.claim = {} /\ t.pcons = {} /\ t.acons = {}
      /\ t.proute = {} /\ t.aroute = {} /\ t.service = "AokieActive"
      /\ t.ret = s.ret /\ t.sent = s.sent
  BY Zenon, <1>1, <1>2, <1>4, <1>5, <1>6 DEF MediaStates, ServiceModes
<1>8. Exclusive(t) /\ PeersOK(t) /\ ServiceOK(t)
  <2>1. Exclusive(t)
    BY Zenon, <1>7 DEF Exclusive
  <2>2. PeersOK(t)
    BY Zenon, <1>1, <1>7, SamePeers
  <2>3. ServiceOK(t)
    <3>1. ~Routed(t)
      BY Zenon, <1>7 DEF Routed
    <3>2. t.sent => t.ret # {}
      BY Zenon, <1>1, <1>7 DEF ServiceOK
    <3>3. QED  BY Zenon, <1>7, <3>1, <3>2 DEF ServiceOK
  <2>4. QED  BY Zenon, <2>1, <2>2, <2>3
<1>9. FieldOK(t, b, {"PreparedConsult", "PreparedTalk"})
  BY ZenonT(30), <1>1, <1>2, <1>3, <1>7 DEF FieldOK, Here, PeersOK
<1>10. FieldsOK(t)
  BY Zenon, <1>5, <1>7, <1>9 DEF FieldsOK
<1>11. RoutesBacked(t) /\ HoldsBacked(t)
  BY Zenon, <1>3, <1>5, <1>7 DEF RoutesBacked, HoldsBacked, HasPeer
<1>12. QED
  BY Zenon, <1>2, <1>3, <1>7, <1>8, <1>10, <1>11 DEF t, MediaInv, Loose, Turn, Routed

\* A prepared claim asks for its route: the radio is reserved at once.
LEMMA RequestKeeps ==
    ASSUME NEW s, MediaInv(s), NEW b \in Bindings, NEW t,
           \/ MayRequestConsult(s, b) /\ t = RequestConsult(s, b)
           \/ MayRequestTakeover(s, b) /\ t = RequestTakeover(s, b)
    PROVE  /\ MediaInv(t) /\ t.owner = s.owner /\ t.call = s.call /\ t.sent = s.sent
           /\ t.peers = s.peers /\ s.aroute = {} /\ Turn(s)
<1> DEFINE h == [b |-> b, sent |-> FALSE, late |-> FALSE]
<1>1. s \in MediaStates /\ Exclusive(s) /\ PeersOK(s) /\ FieldsOK(s) /\ ServiceOK(s)
  BY Zenon DEF MediaInv, Loose
<1>2. /\ MayRequest(s, b) /\ b.mode \in {"Consult", "Talk"}
      /\ \/ b.mode = "Consult" /\ t = RequestConsult(s, b)
         \/ b.mode = "Talk" /\ t = RequestTakeover(s, b)
  BY Zenon DEF MayRequestConsult, MayRequestTakeover
<1>3. s.call = b.call /\ s.owner[b.call] = b.owner
  BY Zenon, <1>2 DEF MayRequest, Live
<1>4. PICK q \in s.peers : q.b = b
  BY Zenon, <1>2 DEF MayRequest, PeerReady
<1>5. s.claim # {}
  BY Zenon, <1>2 DEF MayRequest, ClaimReady
<1>6. s.prep = {} /\ s.pcons = {} /\ s.acons = {} /\ s.proute = {} /\ s.aroute = {}
  BY Zenon, <1>1, <1>5 DEF Exclusive
<1>7. h \in Pendings /\ h.b = b
  BY Zenon DEF Pendings
<1>8. \/ b.mode = "Consult" /\ t = [s EXCEPT !.pcons = {h}, !.claim = {},
                                             !.service = "ConsultPending"]
      \/ b.mode = "Talk" /\ t = [s EXCEPT !.proute = {h}, !.claim = {},
                                          !.service = "HumanPending"]
  BY Zenon, <1>2 DEF RequestConsult, RequestTakeover
<1> HIDE DEF h
<1>9. /\ t \in MediaStates /\ t.call = s.call /\ t.owner = s.owner /\ t.peers = s.peers
      /\ t.prep = {} /\ t.claim = {} /\ t.acons = {} /\ t.aroute = {}
      /\ \/ b.mode = "Consult" /\ t.pcons = {h} /\ t.proute = {}
         \/ b.mode = "Talk" /\ t.proute = {h} /\ t.pcons = {}
      /\ t.service # "AokieActive" /\ t.ret = s.ret /\ t.sent = s.sent
  <2>1. CASE b.mode = "Consult"
    <3>1. t = [s EXCEPT !.pcons = {h}, !.claim = {}, !.service = "ConsultPending"]
      BY Zenon, <1>8, <2>1
    <3>2. QED  BY ZenonT(30), <1>1, <1>6, <1>7, <2>1, <3>1 DEF MediaStates, ServiceModes
  <2>2. CASE b.mode = "Talk"
    <3>1. t = [s EXCEPT !.proute = {h}, !.claim = {}, !.service = "HumanPending"]
      BY Zenon, <1>8, <2>2
    <3>2. QED  BY ZenonT(30), <1>1, <1>6, <1>7, <2>2, <3>1 DEF MediaStates, ServiceModes
  <2>3. QED  BY Zenon, <1>2, <2>1, <2>2
<1>10. Exclusive(t) /\ PeersOK(t) /\ ServiceOK(t)
  <2>1. Exclusive(t)
    BY Zenon, <1>9 DEF Exclusive
  <2>2. PeersOK(t)
    BY Zenon, <1>1, <1>9, SamePeers
  <2>3. ServiceOK(t)
    <3>1. Routed(t)
      BY Zenon, <1>9 DEF Routed
    <3>2. t.sent => t.ret # {}
      BY Zenon, <1>1, <1>9 DEF ServiceOK
    <3>3. QED  BY Zenon, <1>9, <3>1, <3>2 DEF ServiceOK
  <2>4. QED  BY Zenon, <2>1, <2>2, <2>3
<1>11. FieldOK(t, b, {b.mode})
  BY Zenon, <1>1, <1>2, <1>3, <1>4, <1>9 DEF FieldOK, Here, PeersOK
<1>12. FieldsOK(t)
  BY Zenon, <1>7, <1>9, <1>11 DEF FieldsOK
<1>13. RoutesBacked(t) /\ HoldsBacked(t)
  BY Zenon, <1>4, <1>7, <1>9 DEF RoutesBacked, HoldsBacked, HasPeer
<1>14. QED
  BY Zenon, <1>5, <1>6, <1>9, <1>10, <1>12, <1>13 DEF MediaInv, Loose, Turn

--------------------------------------------------------------------------
(* The part of the inductive invariant about the threads around the mutex  *)

\* Whoever is on the way to talk was given a newer owner epoch than every
\* turn that is over.
TurnIsNew ==
    \A o \in over : /\ o.owner <= m.owner[o.call]
                    /\ Turn(m) /\ o.call = m.call => o.owner < m.owner[o.call]

\* An opening that the manager may still commit was not begun before the
\* switch in flight.
SwitchOK ==
    switching => /\ SlotsEmpty(m) /\ \A p \in m.peers : p.b.mode = "Monitor"
                 /\ \A o \in opening : o.asked => ~o.fresh \/ o.b.mode = "Monitor"

DecisionOK ==
    /\ Routed(m) => \A d \in decision : ~d.fresh
    /\ \A d \in decision : d.human => ~d.fresh
    /\ ~misacted

\* The inductive invariant.
IInv ==
    TypeOK /\ MediaInv(m) /\ TurnIsNew /\ SwitchOK /\ DecisionOK /\ ReturnIsUnderWay

--------------------------------------------------------------------------
(* The steps                                                               *)

Todos == [do : Doings, b : SUBSET Bindings]

\* A session names bindings only.
LEMMA NamableType == Namable \subseteq Bindings
<1> SUFFICES ASSUME NEW b \in Namable
             PROVE  b \in Bindings
  BY Zenon
<1>1. PICK l \in Leases, c \in Calls :
         b \in [lease : {l}, mode : ModesOf(LeaseKind[l]), call : {c}, owner : 0..MaxOwner[c]]
  BY DEF Namable
<1>2. ModesOf(LeaseKind[l]) \subseteq Modes
  <2>1. LeaseKind[l] \in Kinds
    BY Zenon, RemoteMediaBounds
  <2>2. QED  BY Zenon, <2>1 DEF Kinds, ModesOf, Modes
<1>3. 0..MaxOwner[c] \subseteq Nat
  BY RemoteMediaBounds
<1>4. QED  BY Zenon, <1>1, <1>2, <1>3 DEF Bindings

LEMMA InitOK == Init => IInv
<1> SUFFICES ASSUME Init
             PROVE  IInv
  BY Zenon
<1> USE DEF Init
<1>1. m \in MediaStates
  BY Zenon DEF NewMedia, MediaStates, ServiceModes
<1>2. TypeOK
  BY Zenon, <1>1 DEF TypeOK, Idle
<1>3. SlotsEmpty(m) /\ m.peers = {} /\ m.service = "AokieActive" /\ ~m.sent
  BY Zenon DEF NewMedia, SlotsEmpty
<1>4. MediaInv(m)
  BY Zenon, <1>1, <1>3 DEF MediaInv, Loose, Exclusive, PeersOK, FieldsOK, ServiceOK, Routed,
                    RoutesBacked, HoldsBacked, SlotsEmpty
<1>5. TurnIsNew /\ SwitchOK /\ DecisionOK /\ ReturnIsUnderWay
  BY Zenon, <1>3 DEF TurnIsNew, SwitchOK, DecisionOK, ReturnIsUnderWay
<1>6. QED  BY Zenon, <1>2, <1>4, <1>5 DEF IInv

\* The turns that are over stay older than the one on its way.
LEMMA TurnStep ==
    ASSUME IInv, NEW t, Media(t), MediaInv(t),
           \A c \in Calls : m.owner[c] <= t.owner[c],
           Turn(t) => Turn(m) /\ t.call = m.call /\ m.aroute \subseteq t.aroute
    PROVE  TurnIsNew' /\ over' \subseteq Bindings
<1>1. /\ m \in MediaStates /\ t \in MediaStates /\ FieldsOK(m) /\ over \subseteq Bindings
      /\ TurnIsNew
  BY Zenon DEF IInv, MediaInv, Loose, TypeOK
<1>2. m' = t /\ over' \subseteq over \cup m.aroute /\ \A o \in over' \ over : o \notin t.aroute
  BY Zenon DEF Media
<1>3. over' \subseteq Bindings
  BY Zenon, <1>1, <1>2 DEF MediaStates
<1>4. ASSUME NEW o \in over'
      PROVE  /\ o.owner <= t.owner[o.call]
             /\ Turn(t) /\ o.call = t.call => o.owner < t.owner[o.call]
  <2>1. o.call \in Calls /\ o.owner \in Nat
    BY Zenon, <1>3 DEF Bindings
  <2>2. m.owner[o.call] \in Nat /\ t.owner[o.call] \in Nat /\ m.owner[o.call] <= t.owner[o.call]
    BY ZenonT(30), <1>1, <2>1 DEF MediaStates
  <2>3. CASE o \in over
    BY <1>1, <2>1, <2>2, <2>3 DEF TurnIsNew
  <2>4. CASE o \notin over
    <3>1. o \in m.aroute /\ o \notin t.aroute
      BY Zenon, <1>2, <2>4
    <3>2. o.owner = m.owner[o.call]
      BY Zenon, <1>1, <3>1 DEF FieldsOK, FieldOK, Here
    <3>3. ~Turn(t)
      BY Zenon, <3>1
    <3>4. QED  BY Zenon, <2>1, <2>2, <3>2, <3>3
  <2>5. QED  BY Zenon, <2>3, <2>4
<1>5. QED  BY Zenon, <1>2, <1>3, <1>4 DEF TurnIsNew

\* A step of the mutex that begins nothing keeps everything.
LEMMA FadingStep ==
    ASSUME IInv, NEW t, Media(t), MediaInv(t), Fades(m, t),
           UNCHANGED <<opening, switching, misacted>>,
           todo' \in Todos, t.sent => todo'.do = "ReturnToAokie",
           UNCHANGED decision \/ (Routed(m) /\ NoteHuman)
    PROVE  IInv'
<1>1. m' = t
  BY Zenon DEF Media
<1>2. TurnIsNew' /\ over' \subseteq Bindings
  BY Zenon, TurnStep DEF Fades
<1>3. /\ decision' \subseteq [call : Calls, fresh : BOOLEAN, human : BOOLEAN]
      /\ Routed(t) => \A d \in decision' : ~d.fresh
      /\ \A d \in decision' : d.human => ~d.fresh
  <2>1. /\ decision \subseteq [call : Calls, fresh : BOOLEAN, human : BOOLEAN]
        /\ Routed(m) => \A d \in decision : ~d.fresh
        /\ \A d \in decision : d.human => ~d.fresh
    BY Zenon DEF IInv, TypeOK, DecisionOK
  <2>2. CASE UNCHANGED decision
    BY Zenon, <2>1, <2>2 DEF Fades
  <2>3. CASE Routed(m) /\ NoteHuman
    BY Zenon, <2>1, <2>3 DEF NoteHuman
  <2>4. QED  BY Zenon, <2>2, <2>3
<1>4. TypeOK'
  BY Zenon, <1>1, <1>2, <1>3 DEF IInv, TypeOK, MediaInv, Loose, Todos, Doings
<1>5. SwitchOK'
  BY Zenon, <1>1 DEF IInv, SwitchOK, Fades
<1>6. DecisionOK'
  BY Zenon, <1>1, <1>3 DEF IInv, DecisionOK
<1>7. ReturnIsUnderWay'
  BY Zenon, <1>1 DEF ReturnIsUnderWay
<1>8. QED  BY Zenon, <1>1, <1>2, <1>4, <1>5, <1>6, <1>7 DEF IInv

\* The same where every thread stays where it is.
LEMMA QuietStep ==
    ASSUME IInv, NEW t, Media(t), MediaInv(t), Wanes(m, t), Quiet
    PROVE  IInv'
<1>1. todo' \in Todos /\ (t.sent => todo'.do = "ReturnToAokie")
  BY Zenon DEF IInv, TypeOK, Todos, Doings, ReturnIsUnderWay, Quiet, Wanes
<1>2. QED  BY Zenon, <1>1, FadingStep DEF Quiet, Wanes

\* The same where the radio thread was not returning the caller.
LEMMA RadioStep ==
    ASSUME IInv, NEW t, Media(t), MediaInv(t), Wanes(m, t),
           UNCHANGED <<opening, switching, misacted>>,
           todo.do # "ReturnToAokie", todo' \in Todos,
           UNCHANGED decision \/ (Routed(m) /\ NoteHuman)
    PROVE  IInv'
<1>1. ~t.sent
  BY ZenonT(30) DEF IInv, ReturnIsUnderWay, Wanes
<1>2. QED  BY Zenon, <1>1, FadingStep DEF Wanes

LEMMA StaysMedia == IInv => MediaInv(m) /\ Wanes(m, m)
BY DEF IInv, MediaInv, Loose, MediaStates, Wanes, Fades

\* A fenced decision is fresh no more.
LEMMA FencedDecisions ==
    ASSUME IInv, FenceDecisions
    PROVE  /\ decision' \subseteq [call : Calls, fresh : BOOLEAN, human : BOOLEAN]
           /\ \A d \in decision' : ~d.fresh
BY ZenonT(30) DEF FenceDecisions, IInv, TypeOK

\* The radio thread.
LEMMA RadioKeeps == IInv /\ Radio => IInv'
<1> SUFFICES ASSUME IInv, Radio
             PROVE  IInv'
  BY Zenon
<1>1. /\ MediaInv(m) /\ Wanes(m, m) /\ todo \in Todos /\ Idle \in Todos
      /\ \A b \in Bindings : ToRevoke(b) \in Todos
  BY Zenon, StaysMedia DEF IInv, TypeOK, Todos, Doings, Idle, ToRevoke
<1>2. todo = Idle => todo.do = "none" /\ ~m.sent
  BY DEF Idle, IInv, ReturnIsUnderWay
<1>3. ASSUME NEW c \in Calls \cup {NoCall}, NEW a \in BOOLEAN, CallChanges(c, a)
      PROVE  IInv'
  BY Zenon, <1>1, <1>3, ObserveCallKeeps, QuietStep DEF CallChanges
<1>4. ASSUME NEW stalled \in BOOLEAN, Tick(stalled)
      PROVE  IInv'
  <2> DEFINE d == NextTransition(m, stalled)
  <2>1. /\ MediaInv(d.m) /\ Fades(m, d.m) /\ d.do \in Doings /\ d.b \subseteq Bindings
        /\ d.m.sent => m.sent \/ d.do = "ReturnToAokie"
    BY Zenon, <1>1, TickKeeps
  <2>2. todo = Idle /\ Media(d.m) /\ todo' = [do |-> d.do, b |-> d.b]
        /\ UNCHANGED <<opening, switching, decision, misacted>>
    BY Zenon, <1>4 DEF Tick
  <2> HIDE DEF d
  <2>3. todo' \in Todos /\ todo'.do = d.do
    BY Zenon, <2>1, <2>2 DEF Todos
  <2>4. d.m.sent => todo'.do = "ReturnToAokie"
    BY Zenon, <1>2, <2>1, <2>2, <2>3
  <2>5. QED  BY Zenon, <2>1, <2>2, <2>3, <2>4, FadingStep
<1>5. ASSUME NEW sco \in BOOLEAN, PrepareCaller(sco)
      PROVE  IInv'
  <2>1. PICK b \in todo.b :
           IF sco /\ SameCall(b) /\ MayAckPrepare(m, b)
           THEN Media(AckPrepare(m, b)) /\ todo' = Idle
           ELSE Media(m) /\ todo' = ToRevoke(b)
    BY Zenon, <1>5 DEF PrepareCaller
  <2>2. b \in Bindings /\ todo.do = "Prepare" /\ UNCHANGED <<opening, switching, decision, misacted>>
    BY Zenon, <1>1, <1>5 DEF PrepareCaller, Todos
  <2>3. CASE sco /\ SameCall(b) /\ MayAckPrepare(m, b)
    <3> DEFINE t == AckPrepare(m, b)
    <3>1. /\ MediaInv(t) /\ t.peers = m.peers /\ t.sent = m.sent /\ ~Routed(t)
          /\ \A c \in Calls : m.owner[c] <= t.owner[c]
          /\ t.owner[t.call] = m.owner[t.call] + 1 /\ t.call = b.call
          /\ m.aroute = {} /\ ~SlotsEmpty(m)
      BY Zenon, <1>1, <2>2, <2>3, AckPrepareKeeps
    <3>2. Media(t) /\ todo' = Idle
      BY Zenon, <2>1, <2>3
    <3> HIDE DEF t
    <3>3. m' = t /\ over' = over
      BY Zenon, <3>1, <3>2 DEF Media
    <3>4. ~m.sent /\ ~switching
      BY ZenonT(30), <2>2, <3>1 DEF IInv, ReturnIsUnderWay, SwitchOK
    <3>5. TurnIsNew'
      <4> SUFFICES ASSUME NEW o \in over
                   PROVE  /\ o.owner <= t.owner[o.call]
                          /\ o.call = t.call => o.owner < t.owner[o.call]
        BY Zenon, <3>3 DEF TurnIsNew
      <4>1. o.call \in Calls /\ o.owner \in Nat /\ o.owner <= m.owner[o.call]
        BY Zenon DEF IInv, TypeOK, TurnIsNew, Bindings
      <4>2. /\ m.owner[o.call] \in Nat /\ t.owner[o.call] \in Nat
            /\ m.owner[o.call] <= t.owner[o.call]
        BY Zenon, <3>1, <4>1 DEF IInv, MediaInv, Loose, MediaStates
      <4>3. QED  BY <3>1, <4>1, <4>2
    <3>6. TypeOK'
      BY Zenon, <1>1, <2>2, <3>1, <3>2, <3>3 DEF IInv, TypeOK, MediaInv, Loose, Todos, Doings
    <3>7. SwitchOK' /\ DecisionOK' /\ ReturnIsUnderWay'
      BY Zenon, <2>2, <3>1, <3>3, <3>4 DEF IInv, SwitchOK, DecisionOK, ReturnIsUnderWay
    <3>8. QED  BY Zenon, <3>1, <3>3, <3>5, <3>6, <3>7 DEF IInv
  <2>4. CASE ~(sco /\ SameCall(b) /\ MayAckPrepare(m, b))
    BY Zenon, <1>1, <2>1, <2>2, <2>4, RadioStep
  <2>5. QED  BY Zenon, <2>3, <2>4
<1>6. ASSUME NEW sco \in BOOLEAN, NEW takes \in BOOLEAN, EnterHuman(sco, takes)
      PROVE  IInv'
  <2>1. PICK b \in todo.b :
          IF sco /\ SameCall(b) /\ MayAckEnter(m, b)
          THEN /\ Media(AckEnter(m, b)) /\ NoteHuman
               /\ todo' = IF takes THEN Idle ELSE ToRevoke(b)
          ELSE /\ Media(IF sco /\ SameCall(b) THEN AckEnterFails(m, b) ELSE m)
               /\ todo' = ToRevoke(b) /\ UNCHANGED decision
    BY Zenon, <1>6 DEF EnterHuman
  <2>2. b \in Bindings /\ todo.do = "EnterHuman" /\ UNCHANGED <<opening, switching, misacted>>
    BY Zenon, <1>1, <1>6 DEF EnterHuman, Todos
  <2>3. todo' \in Todos
    BY Zenon, <1>1, <2>1, <2>2
  <2>4. CASE sco /\ SameCall(b) /\ MayAckEnter(m, b)
    BY Zenon, <1>1, <2>1, <2>2, <2>3, <2>4, AckEnterKeeps, RadioStep
  <2>5. CASE ~(sco /\ SameCall(b) /\ MayAckEnter(m, b))
    <3>1. Media(m) /\ UNCHANGED decision
      BY Zenon, <1>1, <2>1, <2>2, <2>5, EnterFailsNever
    <3>2. QED  BY Zenon, <1>1, <2>2, <2>3, <3>1, RadioStep
  <2>6. QED  BY Zenon, <2>4, <2>5
<1>7. ASSUME NEW sco \in BOOLEAN, NEW asked \in BOOLEAN, EnterConsult(sco, asked)
      PROVE  IInv'
  <2>1. PICK b \in todo.b :
          IF sco /\ SameCall(b) /\ MayAckEnterConsult(m, b)
          THEN /\ Media(AckEnterConsult(m, b)) /\ NoteHuman
               /\ todo' = IF asked THEN Idle ELSE ToRevoke(b)
          ELSE /\ Media(IF sco /\ SameCall(b) THEN AckEnterConsultFails(m, b) ELSE m)
               /\ todo' = ToRevoke(b) /\ UNCHANGED decision
    BY Zenon, <1>7 DEF EnterConsult
  <2>2. b \in Bindings /\ todo.do = "EnterConsult" /\ UNCHANGED <<opening, switching, misacted>>
    BY Zenon, <1>1, <1>7 DEF EnterConsult, Todos
  <2>3. todo' \in Todos
    BY Zenon, <1>1, <2>1, <2>2
  <2>4. CASE sco /\ SameCall(b) /\ MayAckEnterConsult(m, b)
    BY Zenon, <1>1, <2>1, <2>2, <2>3, <2>4, AckEnterConsultKeeps, RadioStep
  <2>5. CASE ~(sco /\ SameCall(b) /\ MayAckEnterConsult(m, b))
    <3>1. Media(m) /\ UNCHANGED decision
      BY Zenon, <1>1, <2>1, <2>2, <2>5, EnterFailsNever
    <3>2. QED  BY Zenon, <1>1, <2>2, <2>3, <3>1, RadioStep
  <2>6. QED  BY Zenon, <2>4, <2>5
<1>8. ASSUME RadioRevokes
      PROVE  IInv'
  <2>1. PICK b \in todo.b : Media(IF MayRevoke(m, b) THEN Revoke(m, b) ELSE m)
    BY Zenon, <1>8 DEF RadioRevokes
  <2>2. /\ b \in Bindings /\ todo.do = "Revoke" /\ todo' = Idle
        /\ UNCHANGED <<opening, switching, decision, misacted>>
    BY Zenon, <1>1, <1>8 DEF RadioRevokes, Todos
  <2>3. QED  BY Zenon, <1>1, <2>1, <2>2, RevokeKeeps, RadioStep
<1>9. ASSUME ReturnToAokie
      PROVE  IInv'
  <2>1. /\ Media(IF MayAckReturn(m) THEN AckReturn(m) ELSE m) /\ todo' = Idle
        /\ UNCHANGED <<opening, switching, decision, misacted>>
    BY Zenon, <1>9 DEF ReturnToAokie
  <2>2. CASE MayAckReturn(m)
    BY Zenon, <1>1, <2>1, <2>2, AckReturnKeeps, FadingStep DEF Wanes
  <2>3. CASE ~MayAckReturn(m)
    <3>1. ~m.sent
      BY Zenon, <1>1, <2>3 DEF MayAckReturn, MediaInv, Loose, ServiceOK
    <3>2. QED  BY Zenon, <1>1, <2>1, <2>3, <3>1, FadingStep DEF Wanes
  <2>4. QED  BY Zenon, <2>2, <2>3
<1>10. ASSUME Switch
       PROVE  IInv'
  <2>1. opening' \subseteq [b : Bindings, fresh : BOOLEAN, asked : BOOLEAN]
        /\ \A o \in opening' : ~o.fresh
    <3>1. \A o \in [b : Bindings, fresh : BOOLEAN, asked : BOOLEAN] :
             /\ [o EXCEPT !.fresh = FALSE] \in [b : Bindings, fresh : BOOLEAN, asked : BOOLEAN]
             /\ ~[o EXCEPT !.fresh = FALSE].fresh
      BY Zenon
    <3>2. QED  BY <1>10, <3>1 DEF Switch, IInv, TypeOK
  <2>2. TypeOK' /\ SwitchOK'
    BY Zenon, <1>10, <2>1, FencedDecisions DEF Switch, MaySwitch, SwitchOK, IInv, TypeOK
  <2>3. DecisionOK'
    <3>1. \A d \in decision' : ~d.fresh
      BY Zenon, <1>10, FencedDecisions DEF Switch
    <3>2. ~misacted'
      BY Zenon, <1>10 DEF Switch, IInv, DecisionOK
    <3>3. QED  BY Zenon, <3>1, <3>2 DEF DecisionOK
  <2>4. MediaInv(m)' /\ TurnIsNew' /\ ReturnIsUnderWay'
    BY Zenon, <1>10 DEF Switch, IInv, TurnIsNew, ReturnIsUnderWay
  <2>5. QED  BY Zenon, <2>2, <2>3, <2>4 DEF IInv
<1>11. ASSUME SwitchSettles
       PROVE  IInv'
  BY Zenon, <1>11 DEF SwitchSettles, IInv, TypeOK, TurnIsNew, SwitchOK, DecisionOK, ReturnIsUnderWay
<1>12. QED
  BY Zenon, <1>3, <1>4, <1>5, <1>6, <1>7, <1>8, <1>9, <1>10, <1>11 DEF Radio

\* The gateway sessions and the manager.
LEMMA SessionKeeps == IInv /\ Session => IInv'
<1> SUFFICES ASSUME IInv, Session
             PROVE  IInv'
  BY Zenon
<1>1. MediaInv(m) /\ Wanes(m, m) /\ m \in MediaStates
  BY Zenon, StaysMedia DEF MediaInv, Loose
<1>2. ASSUME NEW b \in Bindings, OpenBegins(b)
      PROVE  IInv'
  <2>1. opening' \subseteq [b : Bindings, fresh : BOOLEAN, asked : BOOLEAN]
        /\ \A o \in opening' : ~o.asked
    BY <1>2 DEF OpenBegins
  <2>2. QED
    BY ZenonT(30), <1>2, <2>1 DEF OpenBegins, IInv, TypeOK, TurnIsNew, SwitchOK, DecisionOK, ReturnIsUnderWay
<1>3. ASSUME NEW b \in Bindings, SoftHold(b)
      PROVE  IInv'
  <2> DEFINE t == RequestSoftHold(m, b)
  <2>1. /\ MediaInv(t) /\ t.owner = m.owner /\ t.call = m.call /\ t.sent = m.sent
        /\ t.peers = m.peers /\ m.aroute = {} /\ ~Turn(t) /\ ~Routed(t)
        /\ \E p \in m.peers : p.b.mode # "Monitor"
    BY Zenon, <1>1, <1>3, SoftHoldKeeps DEF SoftHold
  <2>2. Media(t) /\ Quiet
    BY Zenon, <1>3 DEF SoftHold
  <2> HIDE DEF t
  <2>3. m' = t /\ ~switching
    BY ZenonT(30), <2>1, <2>2 DEF Media, IInv, SwitchOK
  <2>4. TurnIsNew' /\ over' \subseteq Bindings
    BY <1>1, <2>1, <2>2, TurnStep DEF MediaStates
  <2>5. TypeOK'
    BY Zenon, <2>1, <2>2, <2>3, <2>4 DEF IInv, TypeOK, Quiet, MediaInv, Loose
  <2>6. SwitchOK' /\ DecisionOK' /\ ReturnIsUnderWay'
    BY Zenon, <2>1, <2>2, <2>3 DEF Quiet, IInv, SwitchOK, DecisionOK, ReturnIsUnderWay
  <2>7. QED  BY Zenon, <2>1, <2>3, <2>4, <2>5, <2>6 DEF IInv
<1>4. ASSUME NEW b \in Bindings, Consult(b) \/ Takeover(b)
      PROVE  IInv'
  <2>1. PICK t :
          /\ \/ MayRequestConsult(m, b) /\ t = RequestConsult(m, b)
             \/ MayRequestTakeover(m, b) /\ t = RequestTakeover(m, b)
          /\ Media(t) /\ FenceDecisions /\ UNCHANGED <<todo, opening, switching, misacted>>
    BY Zenon, <1>4 DEF Consult, Takeover
  <2>2. /\ MediaInv(t) /\ t.owner = m.owner /\ t.call = m.call /\ t.sent = m.sent
        /\ t.peers = m.peers /\ m.aroute = {} /\ Turn(m)
    BY Zenon, <1>1, <2>1, RequestKeeps
  <2>3. m' = t /\ ~switching
    BY ZenonT(30), <2>1, <2>2 DEF Media, IInv, SwitchOK, Turn, SlotsEmpty
  <2>4. TurnIsNew' /\ over' \subseteq Bindings
    BY <1>1, <2>1, <2>2, TurnStep DEF MediaStates
  <2>5. TypeOK'
    BY Zenon, <2>1, <2>2, <2>3, <2>4, FencedDecisions DEF IInv, TypeOK, MediaInv, Loose
  <2>6. SwitchOK' /\ DecisionOK' /\ ReturnIsUnderWay'
    <3>1. \A d \in decision' : ~d.fresh
      BY Zenon, <2>1, FencedDecisions
    <3>2. ~misacted'
      BY Zenon, <2>1 DEF IInv, DecisionOK
    <3>3. QED
      BY Zenon, <2>1, <2>2, <2>3, <3>1, <3>2 DEF IInv, SwitchOK, DecisionOK, ReturnIsUnderWay
  <2>7. QED  BY Zenon, <2>2, <2>3, <2>4, <2>5, <2>6 DEF IInv
<1>5. ASSUME NEW b \in Bindings, RenewLease(b)
      PROVE  IInv'
  BY Zenon, <1>1, <1>5, RenewKeeps, QuietStep DEF RenewLease
<1>6. ASSUME NEW b \in Bindings, RevokeLease(b)
      PROVE  IInv'
  BY Zenon, <1>1, <1>6, RevokeKeeps, QuietStep DEF RevokeLease
<1>7. ASSUME NEW b \in Bindings, NEW on \in BOOLEAN, Mute(b, on)
      PROVE  IInv'
  BY Zenon, <1>1, <1>7, MuteKeeps, QuietStep DEF Mute
<1>8. ASSUME OpenAdmitted
      PROVE  IInv'
  <2>1. opening' \subseteq [b : Bindings, fresh : BOOLEAN, asked : BOOLEAN]
        /\ (switching => opening' = {})
    <3>1. \A o \in [b : Bindings, fresh : BOOLEAN, asked : BOOLEAN] :
             [o EXCEPT !.asked = TRUE] \in [b : Bindings, fresh : BOOLEAN, asked : BOOLEAN]
      BY Zenon
    <3>2. QED  BY <1>8, <3>1 DEF OpenAdmitted, IInv, TypeOK
  <2>2. QED
    BY Zenon, <1>8, <2>1 DEF OpenAdmitted, IInv, TypeOK, TurnIsNew, SwitchOK, DecisionOK, ReturnIsUnderWay
<1>9. ASSUME OpenCommits
      PROVE  IInv'
  <2>1. PICK o \in opening :
          /\ o.asked
          /\ IF (o.fresh \/ o.b.mode = "Monitor") /\ MayOpen(m, o.b)
             THEN Media(InsertPeer(m, o.b)) ELSE Media(m)
    BY Zenon, <1>9 DEF OpenCommits
  <2>2. opening' = {} /\ UNCHANGED <<todo, switching, decision, misacted>>
    BY Zenon, <1>9 DEF OpenCommits
  <2>3. o.b \in Bindings
    BY Zenon DEF IInv, TypeOK
  <2>4. CASE (o.fresh \/ o.b.mode = "Monitor") /\ MayOpen(m, o.b)
    <3> DEFINE t == InsertPeer(m, o.b)
    <3>1. /\ MediaInv(t) /\ t.owner = m.owner /\ t.call = m.call /\ t.sent = m.sent
          /\ t.aroute = m.aroute
          /\ Turn(t) => Turn(m)
          /\ Routed(t) => Routed(m)
          /\ SlotsEmpty(m) => SlotsEmpty(t)
          /\ \A p \in t.peers : p.b = o.b \/ p \in m.peers
      BY Zenon, <1>1, <2>3, <2>4, InsertPeerKeeps
    <3>2. Media(t) /\ m' = t
      BY ZenonT(30), <2>1, <2>4 DEF Media
    <3> HIDE DEF t
    <3>3. TurnIsNew' /\ over' \subseteq Bindings
      BY <1>1, <3>1, <3>2, TurnStep DEF MediaStates
    <3>4. TypeOK'
      BY Zenon, <2>2, <3>1, <3>2, <3>3 DEF IInv, TypeOK, MediaInv, Loose
    <3>5. SwitchOK'
      <4>1. switching => o.b.mode = "Monitor"
        BY Zenon, <2>1, <2>4 DEF IInv, SwitchOK
      <4>2. QED  BY Zenon, <2>2, <3>1, <3>2, <4>1 DEF IInv, SwitchOK
    <3>6. DecisionOK' /\ ReturnIsUnderWay'
      BY Zenon, <2>2, <3>1, <3>2 DEF IInv, DecisionOK, ReturnIsUnderWay
    <3>7. QED  BY Zenon, <3>1, <3>2, <3>3, <3>4, <3>5, <3>6 DEF IInv
  <2>5. CASE ~((o.fresh \/ o.b.mode = "Monitor") /\ MayOpen(m, o.b))
    <3>1. m' = m /\ over' = over
      BY Zenon, <2>1, <2>5 DEF Media
    <3>2. QED
      BY Zenon, <2>2, <3>1 DEF IInv, TypeOK, TurnIsNew, SwitchOK, DecisionOK, ReturnIsUnderWay
  <2>6. QED  BY Zenon, <2>4, <2>5
<1>10. ASSUME OpenTimesOut
       PROVE  IInv'
  BY Zenon, <1>10 DEF OpenTimesOut, IInv, TypeOK, TurnIsNew, SwitchOK, DecisionOK, ReturnIsUnderWay
<1>11. ASSUME NEW l \in Leases, NEW keep \in BOOLEAN, Close(l, keep)
       PROVE  IInv'
  BY Zenon, <1>1, <1>11, ClosePeerKeeps, QuietStep DEF Close
<1>12. ASSUME FailClosed
       PROVE  IInv'
  BY Zenon, <1>1, <1>12, FailClosedKeeps, QuietStep DEF FailClosed
<1>13. ASSUME NEW kinds \in SUBSET {LeaseKind[l] : l \in Leases}, Consent(kinds)
       PROVE  IInv'
  <2>1. kinds \in SUBSET Kinds
    BY Zenon, RemoteMediaBounds
  <2>2. QED  BY Zenon, <1>1, <1>13, <2>1, ConsentKeeps, QuietStep DEF Consent
<1>14. ASSUME ConsentRunsOut
       PROVE  IInv'
  <2> DEFINE t == [m EXCEPT !.consent = {}]
  <2>1. Alike(m, t) /\ t.peers = m.peers
    BY Zenon, <1>1 DEF Alike, MediaStates
  <2>2. MediaInv(t) /\ Wanes(m, t)
    BY Zenon, <1>1, <2>1, AlikeInv
  <2>3. Media(t) /\ Quiet
    BY Zenon, <1>14 DEF ConsentRunsOut
  <2> HIDE DEF t
  <2>4. QED  BY Zenon, <2>2, <2>3, QuietStep
<1>15. ASSUME LateFrame
       PROVE  IInv'
  BY Zenon, <1>1, <1>15, TalkLapsesKeeps, QuietStep DEF LateFrame
<1>16. CASE \E b \in Namable :
              \/ OpenBegins(b) \/ SoftHold(b) \/ Consult(b) \/ Takeover(b)
              \/ RenewLease(b) \/ RevokeLease(b)
              \/ \E on \in BOOLEAN : Mute(b, on)
  BY Zenon, <1>2, <1>3, <1>4, <1>5, <1>6, <1>7, <1>16, NamableType
<1>17. QED
  BY Zenon, <1>8, <1>9, <1>10, <1>11, <1>12, <1>13, <1>14, <1>15, <1>16 DEF Session

\* The inductive invariant is kept by every step.
LEMMA StepOK == IInv /\ [Next]_vars => IInv'
<1> SUFFICES ASSUME IInv, [Next]_vars
             PROVE  IInv'
  BY Zenon
<1>1. MediaInv(m)
  BY Zenon DEF IInv
<1>2. ASSUME TimePasses
      PROVE  IInv'
  <2>1. Quiet /\ \/ \E l \in Leases : Media(LeaseLapses(m, l))
                 \/ Media(ClaimLapses(m)) \/ Media(TransferLapses(m))
                 \/ Media(DeadlineLapses(m))
    BY Zenon, <1>2 DEF TimePasses
  <2>2. PICK t : /\ Media(t)
                 /\ \/ \E l \in Leases : t = LeaseLapses(m, l)
                    \/ t \in {ClaimLapses(m), TransferLapses(m), DeadlineLapses(m)}
    BY Zenon, <2>1
  <2>3. QED  BY Zenon, <1>1, <2>1, <2>2, LapsesKeep, QuietStep
<1>3. ASSUME Decide
      PROVE  IInv'
  <2>1. m.call \in Calls
    BY Zenon, <1>1, <1>3 DEF Decide, AokieOwns, MediaInv, Loose, MediaStates
  <2>2. ~Routed(m)
    BY ZenonT(30), <1>1, <1>3 DEF Decide, AokieOwns, RadioReserved, MediaInv, Loose, ServiceOK
  <2>3. decision' \subseteq [call : Calls, fresh : BOOLEAN, human : BOOLEAN]
        /\ \A d \in decision' : ~d.human
    BY <1>3, <2>1 DEF Decide
  <2>4. QED
    BY Zenon, <1>3, <2>2, <2>3 DEF Decide, IInv, TypeOK, TurnIsNew, SwitchOK, DecisionOK,
                            ReturnIsUnderWay
<1>4. ASSUME Act
      PROVE  IInv'
  <2>1. misacted' = FALSE
    BY Zenon, <1>4 DEF Act, IInv, DecisionOK, TypeOK
  <2>2. QED
    BY Zenon, <1>4, <2>1 DEF Act, IInv, TypeOK, TurnIsNew, SwitchOK, DecisionOK, ReturnIsUnderWay
<1>5. CASE UNCHANGED vars
  BY Zenon, <1>5 DEF vars, IInv, TypeOK, TurnIsNew, SwitchOK, DecisionOK, ReturnIsUnderWay
<1>6. QED
  BY Zenon, <1>2, <1>3, <1>4, <1>5, RadioKeeps, SessionKeeps DEF Next

--------------------------------------------------------------------------
(* The theorems                                                            *)

\* The inductive invariant holds always.
THEOREM Inductive == Spec => []IInv
BY InitOK, StepOK, PTL DEF Spec

\* An entry of Filled names its field.
InField(s) ==
    \/ \E p \in m.prep : s = [f |-> "prepare", b |-> p.b]
    \/ \E c \in m.claim : s = [f |-> "claim", b |-> c.b]
    \/ \E p \in m.pcons : s = [f |-> "consult asked", b |-> p.b]
    \/ \E b \in m.acons : s = [f |-> "consult", b |-> b]
    \/ \E p \in m.proute : s = [f |-> "talk asked", b |-> p.b]
    \/ \E b \in m.aroute : s = [f |-> "talk", b |-> b]

LEMMA FilledIs == \A s \in Filled(m) : InField(s)
BY Zenon DEF Filled, InField

\* What the fields say about each other.
LEMMA FieldsMean == IInv => OneClaimant /\ NeverBoth /\ ReservedForSomeone /\ RouteIsBacked
<1> SUFFICES ASSUME IInv
             PROVE  OneClaimant /\ NeverBoth /\ ReservedForSomeone /\ RouteIsBacked
  BY Zenon
<1>1. /\ Exclusive(m) /\ PeersOK(m) /\ FieldsOK(m) /\ ServiceOK(m)
      /\ RoutesBacked(m) /\ HoldsBacked(m)
  BY Zenon DEF IInv, MediaInv, Loose
<1>2. \A s, t \in Filled(m) : s = t
  <2> SUFFICES ASSUME NEW s \in Filled(m), NEW t \in Filled(m)
               PROVE  s = t
    BY Zenon
  <2>1. InField(s) /\ InField(t)
    BY Zenon, FilledIs
  <2>2. CASE m.prep # {}
    <3>1. InField(s) /\ InField(t) /\ Exclusive(m)
      BY Zenon, <1>1, <2>1
    <3>2. QED  BY Zenon, <2>2, <3>1 DEF InField, Exclusive
  <2>3. CASE m.claim # {}
    <3>1. InField(s) /\ InField(t) /\ Exclusive(m)
      BY Zenon, <1>1, <2>1
    <3>2. QED  BY Zenon, <2>3, <3>1 DEF InField, Exclusive
  <2>4. CASE m.pcons # {}
    <3>1. InField(s) /\ InField(t) /\ Exclusive(m)
      BY Zenon, <1>1, <2>1
    <3>2. QED  BY Zenon, <2>4, <3>1 DEF InField, Exclusive
  <2>5. CASE m.acons # {}
    <3>1. InField(s) /\ InField(t) /\ Exclusive(m)
      BY Zenon, <1>1, <2>1
    <3>2. QED  BY Zenon, <2>5, <3>1 DEF InField, Exclusive
  <2>6. CASE m.proute # {}
    <3>1. InField(s) /\ InField(t) /\ Exclusive(m)
      BY Zenon, <1>1, <2>1
    <3>2. QED  BY Zenon, <2>6, <3>1 DEF InField, Exclusive
  <2>7. CASE m.aroute # {}
    <3>1. InField(s) /\ InField(t) /\ Exclusive(m)
      BY Zenon, <1>1, <2>1
    <3>2. QED  BY Zenon, <2>7, <3>1 DEF InField, Exclusive
  <2>8. CASE SlotsEmpty(m)
    BY Zenon, <2>1, <2>8 DEF InField, SlotsEmpty
  <2>9. QED  BY Zenon, <2>2, <2>3, <2>4, <2>5, <2>6, <2>7, <2>8 DEF SlotsEmpty
<1>3. \A k, l \in {s.b.lease : s \in Filled(m)}
                  \cup {p.b.lease : p \in {q \in m.peers : q.b.mode # "Monitor"}} : k = l
  <2>1. \A s \in Filled(m), p \in m.peers : p.b.mode # "Monitor" => p.b.lease = s.b.lease
    <3> SUFFICES ASSUME NEW s \in Filled(m), NEW q \in m.peers, q.b.mode # "Monitor"
                 PROVE  q.b.lease = s.b.lease
      BY Zenon
    <3>1. CASE \E p \in m.prep : s = [f |-> "prepare", b |-> p.b]
      <4>1. PICK p \in m.prep : s = [f |-> "prepare", b |-> p.b]
        BY Zenon, <3>1
      <4>2. s.b = p.b
        BY Zenon, <4>1
      <4>3. FieldOK(m, p.b, {"PreparedConsult", "PreparedTalk"})
        BY Zenon, <1>1 DEF FieldsOK
      <4>4. q.b.lease = p.b.lease
        BY Zenon, <4>3 DEF FieldOK
      <4>5. QED  BY Zenon, <4>2, <4>4
    <3>2. CASE \E c \in m.claim : s = [f |-> "claim", b |-> c.b]
      <4>1. PICK c \in m.claim : s = [f |-> "claim", b |-> c.b]
        BY Zenon, <3>2
      <4>2. s.b = c.b
        BY Zenon, <4>1
      <4>3. q.b.lease = c.b.lease
        BY Zenon, <1>1 DEF FieldsOK
      <4>4. QED  BY Zenon, <4>2, <4>3
    <3>3. CASE \E p \in m.pcons : s = [f |-> "consult asked", b |-> p.b]
      <4>1. PICK p \in m.pcons : s = [f |-> "consult asked", b |-> p.b]
        BY Zenon, <3>3
      <4>2. s.b = p.b
        BY Zenon, <4>1
      <4>3. FieldOK(m, p.b, {"Consult"})
        BY Zenon, <1>1 DEF FieldsOK
      <4>4. q.b.lease = p.b.lease
        BY Zenon, <4>3 DEF FieldOK
      <4>5. QED  BY Zenon, <4>2, <4>4
    <3>4. CASE \E b \in m.acons : s = [f |-> "consult", b |-> b]
      <4>1. PICK b \in m.acons : s = [f |-> "consult", b |-> b]
        BY Zenon, <3>4
      <4>2. s.b = b
        BY Zenon, <4>1
      <4>3. FieldOK(m, b, {"Consult"})
        BY Zenon, <1>1 DEF FieldsOK
      <4>4. q.b.lease = b.lease
        BY Zenon, <4>3 DEF FieldOK
      <4>5. QED  BY Zenon, <4>2, <4>4
    <3>5. CASE \E p \in m.proute : s = [f |-> "talk asked", b |-> p.b]
      <4>1. PICK p \in m.proute : s = [f |-> "talk asked", b |-> p.b]
        BY Zenon, <3>5
      <4>2. s.b = p.b
        BY Zenon, <4>1
      <4>3. FieldOK(m, p.b, {"Talk"})
        BY Zenon, <1>1 DEF FieldsOK
      <4>4. q.b.lease = p.b.lease
        BY Zenon, <4>3 DEF FieldOK
      <4>5. QED  BY Zenon, <4>2, <4>4
    <3>6. CASE \E b \in m.aroute : s = [f |-> "talk", b |-> b]
      <4>1. PICK b \in m.aroute : s = [f |-> "talk", b |-> b]
        BY Zenon, <3>6
      <4>2. s.b = b
        BY Zenon, <4>1
      <4>3. FieldOK(m, b, {"Talk"})
        BY Zenon, <1>1 DEF FieldsOK
      <4>4. q.b.lease = b.lease
        BY Zenon, <4>3 DEF FieldOK
      <4>5. QED  BY Zenon, <4>2, <4>4
    <3>7. QED
      BY Zenon, <3>1, <3>2, <3>3, <3>4, <3>5, <3>6, FilledIs DEF InField
  <2>2. \A p, q \in m.peers :
           p.b.mode # "Monitor" /\ q.b.mode # "Monitor" => p.b.lease = q.b.lease
    BY Zenon, <1>1 DEF PeersOK
  <2>3. QED  BY <1>2, <2>1, <2>2
<1>4. NeverBoth
  BY Zenon, <1>1 DEF NeverBoth, HeldRoute, AokieOwns, RadioReserved, ServiceOK, Routed
<1>5. ReservedForSomeone
  BY Zenon, <1>1 DEF ReservedForSomeone, HeldRoute, RadioReserved, ServiceOK, Routed
<1>6. RouteIsBacked
  <2>1. ASSUME NEW b, NEW modes, FieldOK(m, b, modes), HasPeer(m, b)
        PROVE  m.call = b.call /\ m.owner[b.call] = b.owner /\ \E p \in m.peers : p.b = b
    BY Zenon, <2>1 DEF FieldOK, Here, HasPeer
  <2>2. ASSUME NEW b \in m.acons \cup m.aroute
        PROVE  m.call = b.call /\ m.owner[b.call] = b.owner /\ \E p \in m.peers : p.b = b
    <3>1. HasPeer(m, b)
      BY Zenon, <1>1 DEF RoutesBacked
    <3>2. FieldOK(m, b, {"Consult"}) \/ FieldOK(m, b, {"Talk"})
      BY Zenon, <1>1 DEF FieldsOK
    <3>3. QED  BY Zenon, <2>1, <3>1, <3>2
  <2>3. ASSUME NEW q \in m.proute \cup m.pcons
        PROVE  m.call = q.b.call /\ m.owner[q.b.call] = q.b.owner /\ \E p \in m.peers : p.b = q.b
    <3>1. HasPeer(m, q.b)
      BY Zenon, <1>1 DEF RoutesBacked, HoldsBacked
    <3>2. FieldOK(m, q.b, {"Consult"}) \/ FieldOK(m, q.b, {"Talk"})
      BY Zenon, <1>1 DEF FieldsOK
    <3>3. QED  BY Zenon, <2>1, <3>1, <3>2
  <2>4. ASSUME NEW b \in HeldRoute(m) \cup {q.b : q \in m.pcons}
        PROVE  m.call = b.call /\ m.owner[b.call] = b.owner /\ \E p \in m.peers : p.b = b
    <3>1. b \in m.acons \cup m.aroute \/ \E q \in m.proute \cup m.pcons : b = q.b
      BY Zenon DEF HeldRoute
    <3>2. QED  BY ZenonT(30), <2>2, <2>3, <3>1
  <2>5. QED  BY Zenon, <2>4 DEF RouteIsBacked
<1>7. QED  BY Zenon, <1>2, <1>3, <1>4, <1>5, <1>6 DEF OneClaimant

\* Of pending_prepare, prepared_claim, pending_consult, active_consult,
\* pending_route and active_route at most one is ever filled, and every peer
\* that is not a monitor's is of that lease, for any number of leases, calls
\* and claims.
THEOREM AlwaysOneClaimant == Spec => []OneClaimant
BY Inductive, FieldsMean, PTL

\* While a Companion has the caller, or is about to, no action of Aokie
\* passes its owner fence.
THEOREM AlwaysNeverBoth == Spec => []NeverBoth
BY Inductive, FieldsMean, PTL

\* The radio is never reserved without a route or a return that will end it.
THEOREM AlwaysReservedForSomeone == Spec => []ReservedForSomeone
BY Inductive, FieldsMean, PTL

\* An open or pending route always has its own peer, in the current call and
\* under the current owner epoch.
THEOREM AlwaysRouteIsBacked == Spec => []RouteIsBacked
BY Inductive, FieldsMean, PTL

\* A talk binding that has lost the caller never has the caller again: every
\* way back leads through a soft hold, which moves the owner epoch on.
THEOREM AlwaysNoSecondTurn == Spec => []NoSecondTurn
<1>1. IInv => NoSecondTurn
  <2> SUFFICES ASSUME IInv, NEW b \in m.aroute, b \in over
               PROVE  FALSE
    BY Zenon DEF NoSecondTurn
  <2>1. b.call = m.call /\ b.owner = m.owner[b.call] /\ b.owner \in Nat
    BY Zenon DEF IInv, MediaInv, Loose, FieldsOK, FieldOK, Here, MediaStates, Bindings
  <2>2. b.owner < m.owner[b.call]
    BY Zenon, <2>1 DEF IInv, TurnIsNew, Turn
  <2>3. QED  BY <2>1, <2>2
<1>2. QED  BY <1>1, Inductive, PTL

\* No Companion is on its way to the caller while the calls are exchanged.
THEOREM AlwaysSwitchIsAlone == Spec => []SwitchIsAlone
<1>1. IInv => SwitchIsAlone
  BY Zenon DEF IInv, SwitchOK, SwitchIsAlone
<1>2. QED  BY <1>1, Inductive, PTL

\* Aokie never acts on a decision that is older than a Companion's turn.
THEOREM AlwaysActsOnOwnTurn == Spec => []ActsOnOwnTurn
<1>1. IInv => ActsOnOwnTurn
  BY Zenon DEF IInv, DecisionOK, ActsOnOwnTurn
<1>2. QED  BY <1>1, Inductive, PTL

\* A dispatched return is one the radio thread is carrying out.
THEOREM AlwaysReturnIsUnderWay == Spec => []ReturnIsUnderWay
<1>1. IInv => ReturnIsUnderWay
  BY Zenon DEF IInv
<1>2. QED  BY <1>1, Inductive, PTL
=============================================================================
