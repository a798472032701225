---------------------------- MODULE GatewayProofs ----------------------------
(***************************************************************************)
(* What TLAPS proves of Gateway: one line to the caller, no winner without *)
(* a use, no lease that outlives its grounds, no end ordered twice, no     *)
(* signal that waits for a plugin in vain and a fence that grows, for any  *)
(* phones, calls and bounds.                                               *)
(***************************************************************************)
EXTENDS Gateway, WellFoundedInduction, TLAPS

Asks == [ask : Nat, transfer : BOOLEAN, answered : BOOLEAN, fresh : BOOLEAN,
         late : BOOLEAN]
Challenges == [n : Nat, dev : Devices, id : Nat, gen : Nat, fresh : BOOLEAN,
               late : BOOLEAN]

CallOK ==
    /\ scope \in Scopes
    /\ mobiles \subseteq Devices
    /\ snapshot \subseteq Snapshots

OffersOK ==
    /\ pending \subseteq Offers /\ accepted \subseteq Offers
    /\ assistance \subseteq Asks /\ asked \in Nat

\* A lease keeps its id through every renewal, and no two share one.
BookOK ==
    /\ leases \subseteq Leases /\ claim \subseteq Claims
    /\ granted \in Nat /\ fence \in Nat
    /\ \A k, l \in leases : k.id = l.id => k = l
    /\ \A l \in leases : l.id <= granted
    /\ \A c, d \in claim : c = d

\* A challenge still open was never relayed, nor one that is still to come.
EndsOK ==
    /\ issued \in Nat /\ issued <= scope.ends
    /\ challenges \subseteq Challenges
    /\ executed \in [1..scope.ends -> 0..2]
    /\ \A c \in challenges : c.n \in 1..issued /\ executed[c.n] = 0
    /\ \A c, d \in challenges : c.n = d.n => c = d
    /\ \A n \in 1..scope.ends : n > issued => executed[n] = 0

\* The inductive invariant.
IInv ==
    /\ CallOK /\ OffersOK /\ BookOK /\ EndsOK
    /\ ClaimHoldsTheLine /\ WinnerIsBacked /\ LeaseIsCurrent /\ EndedOnce

----------------------------------------------------------------------------
(* Names.                                                                   *)

\* Two records name one jti if they agree in id and generation.
LEMMA SameJti ==
    ASSUME NEW r, NEW q
    PROVE  Jti(r) = Jti(q) <=> r.id = q.id /\ r.gen = q.gen
BY Zenon DEF Jti

\* Ids are unique, so revoking some leases drops no other lease's jti.
LEMMA NamesItsLease ==
    ASSUME BookOK, NEW gone \in SUBSET leases, NEW l \in leases
    PROVE  Jti(l) \in JtisOf(gone) <=> l \in gone
BY SameJti DEF BookOK, JtisOf

LEMMA NoneNamed == ASSUME NEW S PROVE Unnamed(S, {}) = S
BY Zenon DEF Unnamed, JtisOf

----------------------------------------------------------------------------
(* The book: every action revokes leases, grants one, accepts or renews the *)
(* claimed one, or marks one.                                               *)

\* k is the lease l but for its deadline and the signals it has seen.
Marked(k, l) ==
    /\ k \in Leases
    /\ k.id = l.id /\ k.gen = l.gen /\ k.dev = l.dev /\ k.mode = l.mode
    /\ k.prepared = l.prepared /\ k.call = l.call /\ k.owner = l.owner
    /\ k.fence = l.fence /\ k.opp = l.opp

Revokes ==
    \E gone \in SUBSET leases :
       /\ leases' = leases \ gone /\ claim' = Unnamed(claim, gone)
       /\ granted' = granted /\ fence' \in Nat
Marks ==
    \E l \in leases, k \in Leases :
       /\ Marked(k, l)
       /\ leases' = (leases \ {l}) \cup {k}
       /\ claim' = claim /\ granted' = granted /\ fence' = fence
Grants == \E o \in accepted : RequestLease(o)
Accepts == \E c \in claim, e \in 1..scope.owner : AcceptClaim(c, e)
Renews == \E l \in leases : Heartbeat(l)

\* Revoking leases keeps one line.
LEMMA RevokesKeeps ==
    ASSUME BookOK, ClaimHoldsTheLine, Revokes
    PROVE  BookOK' /\ ClaimHoldsTheLine'
<1>1. PICK gone \in SUBSET leases :
        /\ leases' = leases \ gone /\ claim' = Unnamed(claim, gone)
        /\ granted' = granted /\ fence' \in Nat
  BY Zenon DEF Revokes
<1>2. BookOK'
  BY Zenon, <1>1 DEF BookOK, Unnamed
<1>3. ASSUME NEW l \in leases', Talks(l.mode)
      PROVE  \E c \in claim' : Jti(c) = Jti(l)
  <2>1. PICK c \in claim : Jti(c) = Jti(l)
    BY Zenon, <1>1, <1>3 DEF ClaimHoldsTheLine
  <2>2. Jti(l) \notin JtisOf(gone)
    BY Zenon, <1>1, <1>3, NamesItsLease
  <2>3. QED  BY Zenon, <1>1, <2>1, <2>2 DEF Unnamed
<1>4. ASSUME NEW c \in claim'
      PROVE  \E l \in leases' :
               /\ Jti(l) = Jti(c) /\ l.dev = c.dev /\ l.mode = c.mode
               /\ l.fence = c.fence /\ l.call = c.call /\ l.prepared = ~c.active
  <2>1. c \in claim /\ Jti(c) \notin JtisOf(gone)
    BY Zenon, <1>1, <1>4 DEF Unnamed
  <2>2. PICK l \in leases :
               /\ Jti(l) = Jti(c) /\ l.dev = c.dev /\ l.mode = c.mode
               /\ l.fence = c.fence /\ l.call = c.call /\ l.prepared = ~c.active
    BY Zenon, <2>1 DEF ClaimHoldsTheLine
  <2>3. l \notin gone
    BY Zenon, <2>1, <2>2 DEF JtisOf
  <2>4. QED  BY Zenon, <1>1, <2>2, <2>3
<1>5. ClaimHoldsTheLine'
  BY Zenon, <1>3, <1>4 DEF ClaimHoldsTheLine, Jti, Talks
<1>6. QED  BY Zenon, <1>2, <1>5

\* A mark changes nothing the claim is compared with.
LEMMA MarksKeeps ==
    ASSUME BookOK, ClaimHoldsTheLine, Marks
    PROVE  BookOK' /\ ClaimHoldsTheLine'
<1>1. PICK l \in leases, k \in Leases :
        /\ Marked(k, l)
        /\ leases' = (leases \ {l}) \cup {k}
        /\ claim' = claim /\ granted' = granted /\ fence' = fence
  BY Zenon DEF Marks
<1>2. BookOK'
  BY <1>1 DEF BookOK, Marked
<1>3. ClaimHoldsTheLine'
  BY <1>1, SameJti DEF ClaimHoldsTheLine, Marked, Talks
<1>4. QED  BY Zenon, <1>2, <1>3

\* A talk lease is granted only on a free line, under an id of its own.
LEMMA GrantsKeeps ==
    ASSUME CallOK, OffersOK, BookOK, ClaimHoldsTheLine, Grants
    PROVE  BookOK' /\ ClaimHoldsTheLine'
<1>1. PICK o \in accepted : RequestLease(o)
  BY Zenon DEF Grants
<1> DEFINE n == granted + 1
           l == [id |-> n, gen |-> 0, dev |-> o.dev, mode |-> o.opp.mode,
                 prepared |-> Talks(o.opp.mode), call |-> o.opp.call,
                 owner |-> o.opp.owner, fence |-> FenceFor(o), opp |-> o.opp,
                 late |-> FALSE, sent |-> FALSE, heard |-> FALSE]
           c == [id |-> n, gen |-> 0, dev |-> o.dev, mode |-> o.opp.mode,
                 fence |-> FenceFor(o), call |-> o.opp.call, active |-> FALSE]
<1>2. /\ granted' = n /\ leases' = (leases \ Lapsed) \cup {l}
      /\ claim' = IF Talks(o.opp.mode) THEN {c} ELSE Unnamed(claim, Lapsed)
      /\ fence' \in Nat /\ ~LineTaken(o)
  BY <1>1 DEF RequestLease, BookOK
<1>3. o.dev \in Devices /\ o.opp \in Opportunities /\ o.opp.mode \in Modes
      /\ o.opp.call \in Calls /\ o.opp.owner \in Nat
  BY Zenon DEF OffersOK, Offers, Opportunities
<1>4. n \in Nat /\ FenceFor(o) \in Nat
  BY DEF BookOK, FenceFor
<1>5. l \in Leases /\ c \in Claims
  BY <1>3, <1>4 DEF Leases, Claims, Talks
<1>5a. /\ l.id = n /\ l.mode = o.opp.mode /\ Jti(c) = Jti(l) /\ l.dev = c.dev
       /\ l.mode = c.mode /\ l.fence = c.fence /\ l.call = c.call
       /\ Talks(o.opp.mode) => l.prepared = ~c.active
  BY Zenon DEF Jti
<1> HIDE DEF l, c
<1>6. Lapsed \in SUBSET leases
  BY Zenon DEF Lapsed
<1>7. \A k \in leases : k.id \in Nat /\ k.id <= granted /\ k.id # n
  BY DEF BookOK, Leases
<1>8. BookOK'
  <2>1. leases' \subseteq Leases /\ claim' \subseteq Claims /\ granted' \in Nat
    BY Zenon, <1>2, <1>4, <1>5 DEF BookOK, Unnamed
  <2>2. \A k, m \in leases' : k.id = m.id => k = m
    BY <1>2, <1>5a, <1>7 DEF BookOK
  <2>3. \A k \in leases' : k.id <= granted'
    BY <1>2, <1>4, <1>5a, <1>7 DEF BookOK
  <2>4. \A b, d \in claim' : b = d
    BY Zenon, <1>2 DEF BookOK, Unnamed
  <2>5. QED  BY Zenon, <1>2, <2>1, <2>2, <2>3, <2>4 DEF BookOK
<1>9. ASSUME NEW k \in leases \ Lapsed, Talks(k.mode)
      PROVE  \E d \in Unnamed(claim, Lapsed) : Jti(d) = Jti(k)
  <2>1. PICK d \in claim : Jti(d) = Jti(k)
    BY Zenon, <1>9 DEF ClaimHoldsTheLine
  <2>2. QED  BY Zenon, <1>6, <1>9, <2>1, NamesItsLease DEF Unnamed
<1>10. CASE Talks(o.opp.mode)
  <2>1. Unnamed(claim, Lapsed) = {}
    BY Zenon, <1>2, <1>10 DEF LineTaken
  <2>2. claim' = {c} /\ l.prepared = ~c.active
    BY Zenon, <1>2, <1>5a, <1>10
  <2>3. \A k \in leases' : Talks(k.mode) => \E d \in claim' : Jti(d) = Jti(k)
    BY Zenon, <1>2, <1>5a, <1>9, <2>1, <2>2
  <2>4. \A d \in claim' : \E k \in leases' :
               /\ Jti(k) = Jti(d) /\ k.dev = d.dev /\ k.mode = d.mode
               /\ k.fence = d.fence /\ k.call = d.call /\ k.prepared = ~d.active
    BY Zenon, <1>2, <1>5a, <2>2
  <2>5. QED  BY Zenon, <1>8, <2>3, <2>4 DEF ClaimHoldsTheLine, Jti, Talks
<1>11. CASE ~Talks(o.opp.mode)
  <2>1. claim' = Unnamed(claim, Lapsed) /\ ~Talks(l.mode)
    BY Zenon, <1>2, <1>5a, <1>11
  <2>2. \A k \in leases' : Talks(k.mode) => \E d \in claim' : Jti(d) = Jti(k)
    BY Zenon, <1>2, <1>9, <2>1
  <2>3. \A d \in claim' : \E k \in leases' :
               /\ Jti(k) = Jti(d) /\ k.dev = d.dev /\ k.mode = d.mode
               /\ k.fence = d.fence /\ k.call = d.call /\ k.prepared = ~d.active
    BY <1>2, <2>1 DEF ClaimHoldsTheLine, Unnamed, JtisOf
  <2>4. QED  BY Zenon, <1>8, <2>2, <2>3 DEF ClaimHoldsTheLine, Jti, Talks
<1>12. QED  BY Zenon, <1>10, <1>11

\* What an accepted claim keeps.
LEMMA AcceptedClaim ==
    ASSUME NEW c \in Claims, NEW g \in Nat
    PROVE  LET d == [c EXCEPT !.active = TRUE, !.gen = g]
           IN  /\ d \in Claims /\ d.id = c.id /\ d.gen = g /\ d.dev = c.dev
               /\ d.mode = c.mode /\ d.fence = c.fence /\ d.call = c.call
               /\ d.active = TRUE
BY Zenon DEF Claims

\* The accepted claim and its lease move to the new jti together.
LEMMA AcceptsKeeps ==
    ASSUME CallOK, BookOK, ClaimHoldsTheLine, Accepts
    PROVE  BookOK' /\ ClaimHoldsTheLine'
<1>1. PICK c \in claim, e \in 1..scope.owner : AcceptClaim(c, e)
  BY Zenon DEF Accepts
<1> DEFINE A(l, g) == [l EXCEPT !.owner = e, !.prepared = FALSE, !.late = FALSE,
                                !.gen = g, !.sent = FALSE, !.heard = FALSE]
           D(g) == [c EXCEPT !.active = TRUE, !.gen = g]
<1>2. PICK l \in leases :
        /\ Jti(l) = Jti(c)
        /\ leases' = {A(l, l.gen + 1)} /\ claim' = {D(A(l, l.gen + 1).gen)}
  BY <1>1, Zenon DEF AcceptClaim
<1>3. granted' = granted /\ fence' = fence
  BY <1>1, Zenon DEF AcceptClaim
<1>4. l \in Leases /\ c \in Claims /\ e \in Nat /\ l.gen \in Nat /\ l.gen + 1 \in Nat
  BY GatewayScopes DEF BookOK, CallOK, Leases
<1>5. \A g \in Nat :
        /\ A(l, g) \in Leases /\ A(l, g).id = l.id /\ A(l, g).gen = g
        /\ A(l, g).dev = l.dev /\ A(l, g).mode = l.mode
        /\ A(l, g).fence = l.fence /\ A(l, g).call = l.call
        /\ A(l, g).prepared = FALSE
  BY <1>4, Zenon DEF Leases
<1>6. \A g \in Nat :
        /\ D(g) \in Claims /\ D(g).id = c.id /\ D(g).gen = g /\ D(g).dev = c.dev
        /\ D(g).mode = c.mode /\ D(g).fence = c.fence /\ D(g).call = c.call
        /\ D(g).active = TRUE
  BY <1>4, AcceptedClaim, Zenon
<1> HIDE DEF A, D
<1>7. PICK a \in Leases, d \in Claims :
        /\ leases' = {a} /\ claim' = {d} /\ a.id = l.id /\ d.id = c.id
        /\ a.gen = l.gen + 1 /\ d.gen = l.gen + 1
        /\ a.dev = l.dev /\ a.mode = l.mode /\ a.fence = l.fence /\ a.call = l.call
        /\ d.dev = c.dev /\ d.mode = c.mode /\ d.fence = c.fence /\ d.call = c.call
        /\ a.prepared = FALSE /\ d.active = TRUE
  BY Zenon, <1>2, <1>4, <1>5, <1>6
<1>8. PICK k \in leases :
               /\ Jti(k) = Jti(c) /\ k.dev = c.dev /\ k.mode = c.mode
               /\ k.fence = c.fence /\ k.call = c.call
  BY Zenon DEF ClaimHoldsTheLine
<1>9. k = l
  BY <1>2, <1>8, SameJti DEF BookOK
<1>10. BookOK'
  BY Zenon, <1>3, <1>7 DEF BookOK
<1>11. Jti(a) = Jti(d)
  BY <1>2, <1>7, SameJti
<1>12. /\ a.dev = d.dev /\ a.mode = d.mode /\ a.fence = d.fence
       /\ a.call = d.call /\ a.prepared = ~d.active
  BY <1>7, <1>8, <1>9, Zenon
<1>13. ClaimHoldsTheLine'
  BY <1>7, <1>11, <1>12, ZenonT(30) DEF ClaimHoldsTheLine, Jti, Talks
<1>14. QED  BY Zenon, <1>10, <1>13

\* What a renewed lease and claim keep.
LEMMA RenewedLease ==
    ASSUME NEW l \in Leases, NEW g \in Nat
    PROVE  LET a == [l EXCEPT !.gen = g]
           IN  /\ a \in Leases /\ a.id = l.id /\ a.gen = g /\ a.dev = l.dev
               /\ a.mode = l.mode /\ a.fence = l.fence /\ a.call = l.call
               /\ a.owner = l.owner /\ a.opp = l.opp /\ a.prepared = l.prepared
BY Zenon DEF Leases

LEMMA RenewedClaim ==
    ASSUME NEW c \in Claims, NEW g \in Nat
    PROVE  LET d == [c EXCEPT !.gen = g]
           IN  /\ d \in Claims /\ d.id = c.id /\ d.gen = g /\ d.dev = c.dev
               /\ d.mode = c.mode /\ d.fence = c.fence /\ d.call = c.call
               /\ d.active = c.active
BY Zenon DEF Claims

\* A renewed lease takes its claim along, and no other lease's.
LEMMA RenewsKeeps ==
    ASSUME BookOK, ClaimHoldsTheLine, Renews
    PROVE  BookOK' /\ ClaimHoldsTheLine'
<1>1. PICK l \in leases : Heartbeat(l)
  BY Zenon DEF Renews
<1> DEFINE A == [l EXCEPT !.gen = l.gen + 1]
           D(c) == IF Jti(c) = Jti(l) THEN [c EXCEPT !.gen = l.gen + 1] ELSE c
<1>2. /\ leases' = (leases \ {l}) \cup {A}
      /\ claim' = {D(c) : c \in claim}
      /\ granted' = granted /\ fence' = fence
  BY Zenon, <1>1 DEF Heartbeat, ClaimRenewed
<1>3. l \in Leases /\ l.gen + 1 \in Nat
  BY DEF BookOK, Leases
<1>4. /\ A \in Leases /\ A.id = l.id /\ A.gen = l.gen + 1 /\ A.dev = l.dev
      /\ A.mode = l.mode /\ A.fence = l.fence /\ A.call = l.call
      /\ A.prepared = l.prepared
  BY Zenon, <1>3, RenewedLease
<1>5. ASSUME NEW c \in claim
      PROVE  /\ D(c) \in Claims /\ D(c).id = c.id /\ D(c).dev = c.dev
             /\ D(c).mode = c.mode /\ D(c).fence = c.fence
             /\ D(c).call = c.call /\ D(c).active = c.active
             /\ Jti(c) = Jti(l) => D(c).gen = l.gen + 1
             /\ Jti(c) # Jti(l) => D(c) = c
  <2>1. c \in Claims
    BY Zenon DEF BookOK
  <2>2. CASE Jti(c) = Jti(l)
    BY Zenon, <1>3, <2>1, <2>2, RenewedClaim
  <2>3. CASE Jti(c) # Jti(l)
    BY Zenon, <2>1, <2>3
  <2>4. QED  BY Zenon, <2>2, <2>3
<1> HIDE DEF A, D
<1>6. BookOK'
  <2>1. leases' \subseteq Leases /\ claim' \subseteq Claims
    BY Zenon, <1>2, <1>4, <1>5 DEF BookOK
  <2>2. \A k, m \in leases' : k.id = m.id => k = m
    BY <1>2, <1>4 DEF BookOK
  <2>3. \A c, d \in claim' : c = d
    BY <1>2 DEF BookOK
  <2>4. QED  BY Zenon, <1>2, <1>4, <2>1, <2>2, <2>3 DEF BookOK
<1>7. ASSUME NEW k \in leases', Talks(k.mode)
      PROVE  \E d \in claim' : Jti(d) = Jti(k)
  <2>1. CASE k = A
    <3>1. PICK c \in claim : Jti(c) = Jti(l)
      BY Zenon, <1>4, <1>7, <2>1 DEF ClaimHoldsTheLine
    <3>2. Jti(D(c)) = Jti(A)
      BY <1>4, <1>5, <3>1, SameJti
    <3>3. QED  BY Zenon, <1>2, <2>1, <3>2
  <2>2. CASE k # A
    <3>1. k \in leases /\ k # l
      BY Zenon, <1>2, <2>2
    <3>2. PICK c \in claim : Jti(c) = Jti(k)
      BY Zenon, <1>7, <3>1 DEF ClaimHoldsTheLine
    <3>3. Jti(c) # Jti(l)
      BY <3>1, <3>2, SameJti DEF BookOK
    <3>4. QED  BY Zenon, <1>2, <1>5, <3>2, <3>3
  <2>3. QED  BY Zenon, <2>1, <2>2
<1>8. ASSUME NEW d \in claim'
      PROVE  \E k \in leases' :
               /\ Jti(k) = Jti(d) /\ k.dev = d.dev /\ k.mode = d.mode
               /\ k.fence = d.fence /\ k.call = d.call /\ k.prepared = ~d.active
  <2>1. PICK c \in claim : d = D(c)
    BY Zenon, <1>2
  <2>2. PICK k \in leases :
               /\ Jti(k) = Jti(c) /\ k.dev = c.dev /\ k.mode = c.mode
               /\ k.fence = c.fence /\ k.call = c.call /\ k.prepared = ~c.active
    BY Zenon DEF ClaimHoldsTheLine
  <2>3. CASE k = l
    <3>1. Jti(c) = Jti(l)
      BY Zenon, <2>2, <2>3
    <3>2. Jti(A) = Jti(d)
      BY <1>4, <1>5, <2>1, <3>1, SameJti
    <3>3. A \in leases'
      BY Zenon, <1>2
    <3>4. /\ A.dev = d.dev /\ A.mode = d.mode /\ A.fence = d.fence
          /\ A.call = d.call /\ A.prepared = ~d.active
      BY Zenon, <1>4, <1>5, <2>1, <2>2, <2>3
    <3>5. QED  BY Zenon, <3>2, <3>3, <3>4
  <2>4. CASE k # l
    <3>1. Jti(c) # Jti(l)
      BY <2>2, <2>4, SameJti DEF BookOK
    <3>2. QED  BY <1>2, <1>5, <2>1, <2>2, <2>4, <3>1
  <2>5. QED  BY Zenon, <2>3, <2>4
<1>9. ClaimHoldsTheLine'
  BY Zenon, <1>7, <1>8 DEF ClaimHoldsTheLine, Jti, Talks
<1>10. QED  BY Zenon, <1>6, <1>9

\* Revoking a set of leases, as the handlers do it.
LEMMA BookAfterRevokes ==
    ASSUME BookOK, NEW gone \in SUBSET leases, BookAfter(gone)
    PROVE  Revokes
BY Zenon DEF Revokes, BookAfter, BookOK

\* A step that leaves the book alone.
LEMMA UnchangedRevokes ==
    ASSUME BookOK, leases' = leases, claim' = claim, granted' = granted, fence' = fence
    PROVE  Revokes
<1>1. claim' = Unnamed(claim, {}) /\ leases' = leases \ {}
  BY Zenon, NoneNamed
<1>2. QED  BY Zenon, <1>1 DEF Revokes, BookOK

\* A lease marked late, sent or heard.
LEMMA MarkedLease ==
    ASSUME NEW l \in Leases
    PROVE  /\ Marked([l EXCEPT !.late = TRUE], l)
           /\ Marked([l EXCEPT !.sent = TRUE], l)
           /\ Marked([l EXCEPT !.heard = TRUE], l)
BY Zenon DEF Marked, Leases

\* What an action does to the book.
LEMMA BookMoves ==
    ASSUME IInv, Next
    PROVE  Revokes \/ Marks \/ Grants \/ Accepts \/ Renews
<1> USE DEF IInv
<1>1. ASSUME NEW drop \in SUBSET mobiles, PluginRotates(drop)  PROVE Revokes
  BY Zenon, <1>1, BookAfterRevokes DEF PluginRotates, LeasesOf
<1>2. ASSUME NEW drop \in SUBSET mobiles, PluginReconnects(drop)  PROVE Revokes
  <2>1. PICK kept \in SUBSET leases :
          /\ leases' = kept /\ claim' = Unnamed(claim, leases \ kept)
    BY <1>2, Zenon DEF PluginReconnects
  <2>2. granted' = granted /\ fence' = fence
    BY Zenon, <1>2 DEF PluginReconnects
  <2>3. leases' = leases \ (leases \ kept) /\ leases \ kept \in SUBSET leases
    BY Zenon, <2>1
  <2>4. QED  BY Zenon, <2>1, <2>2, <2>3 DEF Revokes, BookOK
<1>3. ASSUME PluginLeaves  PROVE Revokes
  <2>1. PICK kept \in SUBSET leases :
          /\ leases' = kept /\ claim' = Unnamed(claim, leases \ kept)
    BY <1>3, Zenon DEF PluginLeaves
  <2>2. granted' = granted /\ fence' = fence
    BY Zenon, <1>3 DEF PluginLeaves
  <2>3. leases' = leases \ (leases \ kept) /\ leases \ kept \in SUBSET leases
    BY Zenon, <2>1
  <2>4. QED  BY Zenon, <2>1, <2>2, <2>3 DEF Revokes, BookOK
<1>4. ASSUME PluginConnects \/ GraceEnds  PROVE Revokes
  <2>1. /\ leases' = {} /\ claim' = {} /\ granted' = granted /\ fence' = fence
    BY Zenon, <1>4 DEF PluginConnects, GraceEnds, Forgotten, ForgottenCall
  <2>2. Unnamed(claim, leases) = {}
    BY Zenon DEF Unnamed, JtisOf, ClaimHoldsTheLine
  <2>3. leases' = leases \ leases
    BY Zenon, <2>1
  <2>4. QED  BY Zenon, <2>1, <2>2, <2>3 DEF Revokes, BookOK
<1>5. ASSUME NEW d \in scope.devices, NEW r \in BOOLEAN, MobileConnects(d, r)
      PROVE  Revokes
  <2>1. CASE r
    BY Zenon, <1>5, <2>1, UnchangedRevokes DEF MobileConnects, book
  <2>2. CASE ~r
    BY Zenon, <1>5, <2>2, BookAfterRevokes DEF MobileConnects, Recovered, LeasesOf
  <2>3. QED  BY Zenon, <2>1, <2>2
<1>6. ASSUME NEW d \in scope.devices, MobileLeaves(d)  PROVE Revokes
  BY Zenon, <1>6, BookAfterRevokes DEF MobileLeaves, Recovered, LeasesOf
<1>7. ASSUME NEW s, NEW moved \in BOOLEAN, Snapshot(s, moved)  PROVE Revokes
  <2>1. PICK gone \in SUBSET leases : BookAfter(gone)
    BY Zenon, <1>7 DEF Snapshot
  <2>2. QED  BY Zenon, <2>1, BookAfterRevokes
<1>8. ASSUME Idle  PROVE Revokes
  <2>1. CASE snapshot = {} /\ idle # {}
    BY Zenon, <1>8, <2>1, UnchangedRevokes DEF Idle, book
  <2>2. CASE ~(snapshot = {} /\ idle # {})
    <3>1. BookAfter(leases)
      BY <1>8, <2>2, Zenon DEF Idle
    <3>2. QED  BY Zenon, <3>1, BookAfterRevokes
  <2>3. QED  BY Zenon, <2>1, <2>2
<1>9. ASSUME NEW o \in pending, AnswerOffer(o)  PROVE Revokes
  BY Zenon, <1>9, UnchangedRevokes DEF AnswerOffer, book
<1>10. ASSUME NEW o \in accepted, OfferLapses(o)  PROVE Revokes
  BY Zenon, <1>10, UnchangedRevokes DEF OfferLapses, book
<1>11. ASSUME NEW o \in accepted, RefuseLease(o)  PROVE Revokes
  BY Zenon, <1>11, BookAfterRevokes DEF RefuseLease, Lapsed
<1>12. ASSUME NEW o \in accepted, RequestPanics(o)  PROVE Revokes
  <2>1. /\ leases' = leases \ Lapsed /\ claim' = Unnamed(claim, Lapsed)
        /\ granted' = granted /\ fence' \in Nat
    BY <1>12 DEF RequestPanics, BookOK
  <2>2. QED  BY Zenon, <2>1 DEF Revokes, Lapsed
<1>13. ASSUME NEW c \in claim, RejectClaim(c)  PROVE Revokes
  <2>1. BookAfter({l \in leases : Jti(l) = Jti(c)})
    BY Zenon, <1>13 DEF RejectClaim
  <2>2. QED  BY Zenon, <2>1, BookAfterRevokes
<1>14. ASSUME NEW l \in leases, LeaseLapses(l) \/ MobileSignal(l) \/ PluginSignal(l)
       PROVE  Marks
  <2>1. l \in Leases
    BY Zenon DEF BookOK
  <2>2. CASE LeaseLapses(l)
    BY <2>1, <2>2, MarkedLease, Zenon DEF LeaseLapses, Marks, Marked
  <2>3. CASE MobileSignal(l)
    BY <2>1, <2>3, MarkedLease, Zenon DEF MobileSignal, Marks, Marked
  <2>4. CASE PluginSignal(l)
    BY <2>1, <2>4, MarkedLease, Zenon DEF PluginSignal, Marks, Marked
  <2>5. QED  BY Zenon, <1>14, <2>2, <2>3, <2>4
<1>15. ASSUME NEW l \in leases, MobileRevoke(l) \/ PluginRevoke(l)  PROVE Revokes
  <2>1. BookAfter({l})
    BY Zenon, <1>15 DEF MobileRevoke, PluginRevoke, Revoke
  <2>2. QED  BY Zenon, <2>1, BookAfterRevokes
<1>16. ASSUME Helping  PROVE Revokes
  BY Zenon, <1>16, UnchangedRevokes DEF Helping, AskForHelp, AskLapses, AnswerHelp, book
<1>17. ASSUME NEW b \in BOOLEAN, EndResult(b)  PROVE Revokes
  <2>1. PICK gone \in SUBSET leases : BookAfter(gone)
    BY Zenon, <1>17 DEF EndResult
  <2>2. QED  BY Zenon, <2>1, BookAfterRevokes
<1>18. ASSUME Controls, ~\E b \in BOOLEAN : EndResult(b)  PROVE Revokes
  <2>1. UNCHANGED book
    BY Zenon, <1>18 DEF Controls, MuteRequest, EndChallenge, MuteStatus, ChallengeLapses,
                 EndConfirm
  <2>2. QED  BY Zenon, <2>1, UnchangedRevokes DEF book
<1>19. CASE Sockets
  BY Zenon, <1>19, <1>1, <1>2, <1>3, <1>4, <1>5, <1>6 DEF Sockets
<1>20. CASE Publications
  BY <1>20, <1>7, <1>8, Zenon DEF Publications
<1>21. CASE Claiming
  BY Zenon, <1>21, <1>9, <1>10, <1>11, <1>12, <1>13, <1>14, <1>15
     DEF Claiming, Grants, Accepts, Renews
<1>22. QED  BY Zenon, <1>16, <1>17, <1>18, <1>19, <1>20, <1>21 DEF Next

\* Every step keeps the book in order and one line to the caller.
LEMMA BookKept ==
    ASSUME IInv, Next
    PROVE  BookOK' /\ ClaimHoldsTheLine'
BY Zenon, BookMoves, RevokesKeeps, MarksKeeps, GrantsKeeps, AcceptsKeeps, RenewsKeeps DEF IInv

----------------------------------------------------------------------------
(* Winners.                                                                 *)

Backed(W, Q, L) ==
    \A w \in W : \/ \E o \in Q : o.opp = w.opp /\ o.dev = w.dev
               \/ \E l \in L : l.opp = w.opp /\ l.dev = w.dev

\* A winner goes with the lease that used its opportunity.
LEMMA RevokedBacked ==
    ASSUME WinnerIsBacked, NEW gone
    PROVE  Backed(WinnersAfter(gone), accepted, leases \ gone)
BY Zenon DEF WinnerIsBacked, Backed, WinnersAfter

\* A winner goes with its accepted offer.
LEMMA ReleasedBacked ==
    ASSUME NEW W, NEW Q, NEW L, NEW S, Backed(W, Q, L)
    PROVE  Backed(Released(W, S), Q \ S, L)
BY Zenon DEF Backed, Released

\* refresh_pending_mobile_offers releases the winners of what it prunes.
LEMMA RefreshedBacked ==
    ASSUME NEW S, NEW moved, NEW A, NEW D, NEW P, NEW Q, NEW W,
           Backed(W, Q, leases'), RefreshOffers(S, moved, A, D, P, Q, W)
    PROVE  WinnerIsBacked'
<1>1. CASE \E s \in S : ~s.ended
  <2>1. PICK kept \in SUBSET Q :
          accepted' = kept /\ winners' = Released(W, Q \ kept)
    BY <1>1, Zenon DEF RefreshOffers
  <2>2. Backed(Released(W, Q \ kept), Q \ (Q \ kept), leases')
    BY Zenon, ReleasedBacked
  <2>3. Q \ (Q \ kept) = kept
    BY Zenon, <2>1
  <2>4. QED  BY <2>1, <2>2, <2>3, Zenon DEF Backed, WinnerIsBacked
<1>2. CASE ~\E s \in S : ~s.ended
  <2>1. winners' = {}
    BY Zenon, <1>2 DEF RefreshOffers
  <2>2. QED  BY Zenon, <2>1 DEF WinnerIsBacked
<1>3. QED  BY Zenon, <1>1, <1>2

\* A step that moves neither winners nor their offers, nor the leases' names.
LEMMA StillBacked ==
    ASSUME WinnerIsBacked, winners' = winners, accepted' = accepted,
           \A l \in leases : \E k \in leases' : k.opp = l.opp /\ k.dev = l.dev
    PROVE  WinnerIsBacked'
BY DEF WinnerIsBacked

\* Revoking leases takes their winners.
LEMMA AfterRevoking ==
    ASSUME WinnerIsBacked, NEW gone, leases' = leases \ gone,
           winners' = WinnersAfter(gone), accepted' = accepted
    PROVE  WinnerIsBacked'
BY RevokedBacked DEF Backed, WinnerIsBacked

\* A snapshot revokes some leases and refreshes what is left of the offers.
LEMMA SnapshotRefreshes ==
    ASSUME NEW s, NEW moved, Snapshot(s, moved)
    PROVE  \E gone, kept, P, Q, W :
             /\ gone \subseteq leases /\ leases' = leases \ gone
             /\ kept \subseteq {[r EXCEPT !.fresh = r.fresh /\ ~moved] : r \in assistance}
             /\ assistance' = kept
             /\ P \subseteq pending /\ Q \subseteq accepted
             /\ W = {} \/ (Q = accepted /\ W = WinnersAfter(gone))
             /\ RefreshOffers({s}, moved \/ drift, kept, mobiles, P, Q, W)
<1> DEFINE regresses == \/ \E p \in snapshot : SnapshotRegresses(p, s)
                        \/ \E t \in idle : s.call <= t
           changed == \E p \in snapshot : p.call # s.call \/ p.owner # s.owner
           reset == regresses \/ changed \/ s.ended
           gone == IF reset THEN leases
                   ELSE {l \in leases : l.mode \notin s.allows}
           kept == IF reset \/ "help" \notin s.allows THEN {}
                   ELSE {[r EXCEPT !.fresh = @ /\ ~moved] : r \in assistance}
           P == IF reset THEN {} ELSE pending
           Q == IF reset THEN {} ELSE accepted
           W == IF reset THEN {} ELSE WinnersAfter(gone)
<1>1. /\ BookAfter(gone) /\ assistance' = kept
      /\ RefreshOffers({s}, moved \/ drift, kept, mobiles, P, Q, W)
  BY Zenon DEF Snapshot
<1>2. gone \subseteq leases
  BY Zenon
<1>3. kept \subseteq {[r EXCEPT !.fresh = r.fresh /\ ~moved] : r \in assistance}
  BY Zenon
<1> HIDE DEF regresses, changed, gone, kept
<1>4. P \subseteq pending /\ Q \subseteq accepted
  BY Zenon
<1>5. W = {} \/ (Q = accepted /\ W = WinnersAfter(gone))
  BY Zenon
<1> HIDE DEF P, Q, W
<1>6. leases' = leases \ gone
  BY Zenon, <1>1 DEF BookAfter
<1>7. QED  BY <1>1, <1>2, <1>3, <1>4, <1>5, <1>6, Zenon

\* Every step keeps every winner backed.
LEMMA WinnersKept ==
    ASSUME IInv, Next
    PROVE  WinnerIsBacked'
<1> USE DEF IInv
<1>1. ASSUME NEW drop \in SUBSET mobiles, PluginRotates(drop)  PROVE WinnerIsBacked'
  <2> DEFINE gone == LeasesOf(Devices \ mobiles')
  <2>1. /\ leases' = leases \ gone /\ accepted' = accepted \ OffersOf(drop)
        /\ winners' = Released(WinnersAfter(gone), OffersOf(drop))
    BY Zenon, <1>1 DEF PluginRotates, BookAfter
  <2> HIDE DEF gone
  <2>2. Backed(winners', accepted', leases')
    BY Zenon, <2>1, RevokedBacked, ReleasedBacked
  <2>3. QED  BY Zenon, <2>2 DEF Backed, WinnerIsBacked
<1>2. ASSUME NEW drop \in SUBSET mobiles, PluginReconnects(drop)
      PROVE  WinnerIsBacked'
  <2>1. PICK kept \in SUBSET leases :
          /\ leases' = kept
          /\ RefreshOffers(snapshot, drift, assistance, mobiles', pending,
                           accepted \ OffersOf(drop),
                           Released(WinnersAfter(leases \ kept), OffersOf(drop)))
    BY <1>2, Zenon DEF PluginReconnects
  <2>2. leases \ (leases \ kept) = leases'
    BY Zenon, <2>1
  <2>3. Backed(WinnersAfter(leases \ kept), accepted, leases')
    BY Zenon, <2>2, RevokedBacked
  <2>4. Backed(Released(WinnersAfter(leases \ kept), OffersOf(drop)),
               accepted \ OffersOf(drop), leases')
    BY Zenon, <2>3, ReleasedBacked
  <2>5. QED  BY Zenon, <2>1, <2>4, RefreshedBacked
<1>3. ASSUME PluginLeaves  PROVE WinnerIsBacked'
  <2>1. PICK kept \in SUBSET leases :
          leases' = kept /\ winners' = WinnersAfter(leases \ kept)
    BY <1>3, Zenon DEF PluginLeaves
  <2>2. leases' = leases \ (leases \ kept) /\ accepted' = accepted
    BY Zenon, <1>3, <2>1 DEF PluginLeaves
  <2>3. QED  BY Zenon, <2>1, <2>2, AfterRevoking
<1>4. ASSUME PluginConnects \/ GraceEnds  PROVE WinnerIsBacked'
  BY Zenon, <1>4 DEF PluginConnects, GraceEnds, Forgotten, ForgottenCall, WinnerIsBacked
<1>5. ASSUME NEW d \in scope.devices, NEW r \in BOOLEAN, MobileConnects(d, r)
      PROVE  WinnerIsBacked'
  <2>1. CASE r
    <3>1. /\ RefreshOffers(snapshot, drift, assistance, mobiles', pending,
                           accepted, winners)
          /\ leases' = leases
      BY <1>5, <2>1, Zenon DEF MobileConnects, book
    <3>2. Backed(winners, accepted, leases')
      BY Zenon, <3>1 DEF Backed, WinnerIsBacked
    <3>3. QED  BY Zenon, <3>1, <3>2, RefreshedBacked
  <2>2. CASE ~r
    <3>1. /\ leases' = leases \ LeasesOf({d})
          /\ RefreshOffers(snapshot, drift, assistance, mobiles', pending,
                           accepted \ OffersOf({d}),
                           Released(WinnersAfter(LeasesOf({d})), OffersOf({d})))
      BY <1>5, <2>2, Zenon DEF MobileConnects, Recovered, BookAfter
    <3>2. Backed(Released(WinnersAfter(LeasesOf({d})), OffersOf({d})),
                 accepted \ OffersOf({d}), leases')
      BY <3>1, RevokedBacked, ReleasedBacked, Zenon
    <3>3. QED  BY Zenon, <3>1, <3>2, RefreshedBacked
  <2>3. QED  BY Zenon, <2>1, <2>2
<1>6. ASSUME NEW d \in scope.devices, MobileLeaves(d)  PROVE WinnerIsBacked'
  <2>1. /\ leases' = leases \ LeasesOf({d}) /\ accepted' = accepted \ OffersOf({d})
        /\ winners' = Released(WinnersAfter(LeasesOf({d})), OffersOf({d}))
    BY Zenon, <1>6 DEF MobileLeaves, Recovered, BookAfter
  <2>2. Backed(winners', accepted', leases')
    BY Zenon, <2>1, RevokedBacked, ReleasedBacked
  <2>3. QED  BY Zenon, <2>2 DEF Backed, WinnerIsBacked
<1>7. ASSUME NEW s, NEW moved \in BOOLEAN, Snapshot(s, moved)  PROVE WinnerIsBacked'
  <2>1. PICK gone, kept, P, Q, W :
          /\ leases' = leases \ gone
          /\ W = {} \/ (Q = accepted /\ W = WinnersAfter(gone))
          /\ RefreshOffers({s}, moved \/ drift, kept, mobiles, P, Q, W)
    BY <1>7, SnapshotRefreshes, Zenon
  <2>2. Backed(W, Q, leases')
    <3>1. CASE W = {}
      BY Zenon, <3>1 DEF Backed
    <3>2. CASE W # {}
      BY Zenon, <2>1, <3>2, RevokedBacked
    <3>3. QED  BY Zenon, <3>1, <3>2
  <2>3. QED  BY Zenon, <2>1, <2>2, RefreshedBacked
<1>8. ASSUME Idle  PROVE WinnerIsBacked'
  <2>1. CASE snapshot = {} /\ idle # {}
    BY Zenon, <1>8, <2>1 DEF Idle, book, offers, WinnerIsBacked
  <2>2. CASE ~(snapshot = {} /\ idle # {})
    BY Zenon, <1>8, <2>2 DEF Idle, WinnerIsBacked
  <2>3. QED  BY Zenon, <2>1, <2>2
<1>9. ASSUME NEW o \in pending, AnswerOffer(o)  PROVE WinnerIsBacked'
  BY <1>9 DEF AnswerOffer, WinnerIsBacked, book
<1>10. ASSUME NEW o \in accepted, OfferLapses(o)  PROVE WinnerIsBacked'
  <2> DEFINE p == [o EXCEPT !.late = TRUE]
  <2>1. /\ accepted' = (accepted \ {o}) \cup {p}
        /\ winners' = winners /\ leases' = leases
    BY Zenon, <1>10 DEF OfferLapses, book
  <2>2. p.opp = o.opp /\ p.dev = o.dev
    BY Zenon DEF OffersOK, Offers
  <2> HIDE DEF p
  <2>3. QED  BY <2>1, <2>2 DEF WinnerIsBacked
<1>11. ASSUME NEW o \in accepted, RequestLease(o)  PROVE WinnerIsBacked'
  <2> DEFINE l == [id |-> granted + 1, gen |-> 0, dev |-> o.dev, mode |-> o.opp.mode,
                   prepared |-> Talks(o.opp.mode), call |-> o.opp.call,
                   owner |-> o.opp.owner, fence |-> FenceFor(o), opp |-> o.opp,
                   late |-> FALSE, sent |-> FALSE, heard |-> FALSE]
  <2>0. l.opp = o.opp /\ l.dev = o.dev
    BY Zenon
  <2>1. /\ accepted' = accepted \ {o} /\ winners' = WinnersAfter(Lapsed)
        /\ leases' = (leases \ Lapsed) \cup {l}
    BY <1>11, Zenon DEF RequestLease
  <2> HIDE DEF l
  <2>2. Backed(WinnersAfter(Lapsed), accepted, leases \ Lapsed)
    BY Zenon, RevokedBacked
  <2>3. QED  BY <2>0, <2>1, <2>2 DEF Backed, WinnerIsBacked
<1>12. ASSUME NEW o \in accepted, RefuseLease(o) \/ RequestPanics(o)
       PROVE  WinnerIsBacked'
  <2>1. /\ leases' = leases \ Lapsed /\ winners' = WinnersAfter(Lapsed)
        /\ accepted' = accepted
    BY Zenon, <1>12 DEF RefuseLease, RequestPanics, BookAfter
  <2>2. QED  BY Zenon, <2>1, AfterRevoking
<1>13. ASSUME NEW c \in claim, RejectClaim(c)  PROVE WinnerIsBacked'
  <2>1. PICK gone \in SUBSET leases :
          /\ leases' = leases \ gone
          /\ RefreshOffers(snapshot, drift, assistance, mobiles, pending, accepted,
                           WinnersAfter(gone))
    BY <1>13, Zenon DEF RejectClaim, BookAfter
  <2>2. Backed(WinnersAfter(gone), accepted, leases')
    BY Zenon, <2>1, RevokedBacked
  <2>3. QED  BY Zenon, <2>1, <2>2, RefreshedBacked
<1>14. ASSUME NEW c \in claim, NEW e \in 1..scope.owner, AcceptClaim(c, e)
       PROVE  WinnerIsBacked'
  <2> DEFINE A(l, g) == [l EXCEPT !.owner = e, !.prepared = FALSE, !.late = FALSE,
                                  !.gen = g, !.sent = FALSE, !.heard = FALSE]
  <2>1. PICK l \in leases :
          leases' = {A(l, l.gen + 1)} /\ winners' = WinnersAfter(leases \ {l})
    BY <1>14, Zenon DEF AcceptClaim
  <2>2. accepted' = accepted
    BY <1>14, Zenon DEF AcceptClaim
  <2>3. \A g : A(l, g).opp = l.opp /\ A(l, g).dev = l.dev
    BY DEF BookOK, Leases
  <2> HIDE DEF A
  <2>4. Backed(WinnersAfter(leases \ {l}), accepted, leases \ (leases \ {l}))
    BY Zenon, RevokedBacked
  <2>5. QED  BY <2>1, <2>2, <2>3, <2>4, ZenonT(30) DEF Backed, WinnerIsBacked
<1>15. ASSUME NEW l \in leases, Heartbeat(l)  PROVE WinnerIsBacked'
  <2>1. /\ leases' = (leases \ {l}) \cup {[l EXCEPT !.gen = l.gen + 1]}
        /\ winners' = winners /\ accepted' = accepted
    BY Zenon, <1>15 DEF Heartbeat, offers
  <2>2. /\ [l EXCEPT !.gen = l.gen + 1].opp = l.opp
        /\ [l EXCEPT !.gen = l.gen + 1].dev = l.dev
    BY Zenon DEF BookOK, Leases
  <2>3. QED  BY <2>1, <2>2, StillBacked, Zenon
<1>16. ASSUME NEW l \in leases, LeaseLapses(l) \/ MobileSignal(l) \/ PluginSignal(l)
       PROVE  WinnerIsBacked'
  <2>1. PICK k : Marked(k, l) /\ leases' = (leases \ {l}) \cup {k}
    BY <1>16, MarkedLease, Zenon DEF LeaseLapses, MobileSignal, PluginSignal, BookOK
  <2>2. winners' = winners /\ accepted' = accepted
    BY Zenon, <1>16 DEF LeaseLapses, MobileSignal, PluginSignal, offers
  <2>3. QED  BY Zenon, <2>1, <2>2, StillBacked DEF Marked
<1>17. ASSUME NEW l \in leases, MobileRevoke(l) \/ PluginRevoke(l)
       PROVE  WinnerIsBacked'
  BY Zenon, <1>17, AfterRevoking DEF MobileRevoke, PluginRevoke, Revoke, BookAfter
<1>18. ASSUME NEW t \in BOOLEAN, AskForHelp(t)  PROVE WinnerIsBacked'
  <2>1. /\ RefreshOffers(snapshot, drift, assistance', mobiles, pending, accepted,
                         winners)
        /\ leases' = leases
    BY Zenon, <1>18 DEF AskForHelp, book
  <2>2. Backed(winners, accepted, leases')
    BY Zenon, <2>1 DEF Backed, WinnerIsBacked
  <2>3. QED  BY Zenon, <2>1, <2>2, RefreshedBacked
<1>19. ASSUME NEW r \in assistance,
              AskLapses(r) \/ \E d \in mobiles : AnswerHelp(r, d)
       PROVE  WinnerIsBacked'
  BY Zenon, <1>19 DEF AskLapses, AnswerHelp, offers, book, WinnerIsBacked
<1>20. ASSUME NEW b \in BOOLEAN, EndResult(b)  PROVE WinnerIsBacked'
  <2>1. PICK gone \in SUBSET leases :
          leases' = leases \ gone /\ winners' = WinnersAfter(gone)
    BY Zenon, <1>20 DEF EndResult, BookAfter
  <2>2. accepted' = accepted
    BY Zenon, <1>20 DEF EndResult
  <2>3. QED  BY Zenon, <2>1, <2>2, AfterRevoking
<1>21. ASSUME Controls, ~\E b \in BOOLEAN : EndResult(b)  PROVE WinnerIsBacked'
  <2>1. UNCHANGED <<book, offers>>
    BY Zenon, <1>21 DEF Controls, MuteRequest, EndChallenge, MuteStatus, ChallengeLapses,
                 EndConfirm
  <2>2. QED  BY Zenon, <2>1 DEF book, offers, WinnerIsBacked
<1>22. CASE Sockets
  BY Zenon, <1>22, <1>1, <1>2, <1>3, <1>4, <1>5, <1>6 DEF Sockets
<1>23. CASE Publications
  BY <1>23, <1>7, <1>8, Zenon DEF Publications
<1>24. CASE Claiming
  BY Zenon, <1>24, <1>9, <1>10, <1>11, <1>12, <1>13, <1>14, <1>15, <1>16, <1>17
     DEF Claiming
<1>25. CASE Helping
  BY Zenon, <1>25, <1>18, <1>19 DEF Helping
<1>26. QED  BY Zenon, <1>20, <1>21, <1>22, <1>23, <1>24, <1>25 DEF Next

----------------------------------------------------------------------------
(* Leases and their grounds.                                                *)

\* The leases that are not revoked keep their grounds.
LEMMA RevokedCurrent ==
    ASSUME BookOK, LeaseIsCurrent, NEW gone \in SUBSET leases,
           leases' = leases \ gone, resumable' = resumable \ JtisOf(gone),
           snapshot' = snapshot, plugin' = plugin,
           \A l \in leases' : l.dev \in mobiles'
    PROVE  LeaseIsCurrent'
<1>1. \A l \in leases' : Jti(l) \in resumable => Jti(l) \in resumable'
  BY Zenon, NamesItsLease
<1>2. QED  BY <1>1, Zenon DEF LeaseIsCurrent, Jti

LEMMA BookAfterCurrent ==
    ASSUME BookOK, LeaseIsCurrent, NEW gone \in SUBSET leases, BookAfter(gone),
           snapshot' = snapshot, plugin' = plugin, mobiles' = mobiles
    PROVE  LeaseIsCurrent'
<1>1. \A l \in leases' : l.dev \in mobiles'
  BY Zenon DEF BookAfter, LeaseIsCurrent
<1>2. QED  BY Zenon, <1>1, RevokedCurrent DEF BookAfter

\* Nothing a lease rests on has moved.
LEMMA UnchangedCurrent ==
    ASSUME LeaseIsCurrent, leases' = leases, resumable' = resumable,
           snapshot' = snapshot, plugin' = plugin, mobiles \subseteq mobiles'
    PROVE  LeaseIsCurrent'
BY Zenon DEF LeaseIsCurrent, Jti

\* Every step leaves no lease that has lost its grounds.
LEMMA CurrentKept ==
    ASSUME IInv, Next
    PROVE  LeaseIsCurrent'
<1> USE DEF IInv
<1>1. ASSUME NEW drop \in SUBSET mobiles, PluginRotates(drop)  PROVE LeaseIsCurrent'
  <2>1. /\ BookAfter(LeasesOf(Devices \ mobiles'))
        /\ snapshot' = snapshot /\ plugin' = plugin
    BY Zenon, <1>1 DEF PluginRotates, call
  <2>2. LeasesOf(Devices \ mobiles') \in SUBSET leases
    BY Zenon DEF LeasesOf
  <2>3. \A l \in leases' : l.dev \in mobiles'
    BY Zenon, <2>1 DEF BookAfter, LeasesOf, BookOK, Leases
  <2>4. QED  BY <2>1, <2>2, <2>3, RevokedCurrent, Zenon DEF BookAfter
<1>2. ASSUME NEW drop \in SUBSET mobiles, PluginReconnects(drop)
      PROVE  LeaseIsCurrent'
  <2>1. /\ leases' \subseteq leases /\ \A l \in leases' : l.dev \in mobiles'
        /\ plugin' = "live" /\ snapshot' = snapshot
    BY Zenon, <1>2 DEF PluginReconnects
  <2>2. QED  BY Zenon, <2>1 DEF LeaseIsCurrent
<1>3. ASSUME PluginLeaves  PROVE LeaseIsCurrent'
  <2>1. /\ leases' = {l \in leases : Waits(l)} /\ resumable' = JtisOf(leases')
        /\ snapshot' = snapshot /\ mobiles' = mobiles
    BY Zenon, <1>3 DEF PluginLeaves, call
  <2>2. \A l \in leases' : Jti(l) \in resumable' /\ l.prepared
    BY Zenon, <2>1 DEF JtisOf, Waits
  <2>3. QED  BY <2>1, <2>2, Zenon DEF LeaseIsCurrent, Jti
<1>4. ASSUME PluginConnects \/ GraceEnds  PROVE LeaseIsCurrent'
  BY Zenon, <1>4 DEF PluginConnects, GraceEnds, Forgotten, ForgottenCall, LeaseIsCurrent
<1>5. ASSUME NEW d \in scope.devices, NEW r \in BOOLEAN, MobileConnects(d, r)
      PROVE  LeaseIsCurrent'
  <2>1. /\ plugin' = plugin /\ snapshot' = snapshot /\ mobiles \subseteq mobiles'
    BY <1>5, Zenon DEF MobileConnects
  <2>2. CASE r
    <3>1. leases' = leases /\ resumable' = resumable
      BY Zenon, <1>5, <2>2 DEF MobileConnects, book
    <3>2. QED  BY Zenon, <2>1, <3>1, UnchangedCurrent
  <2>3. CASE ~r
    <3>1. BookAfter(LeasesOf({d})) /\ LeasesOf({d}) \in SUBSET leases
      BY <1>5, <2>3, Zenon DEF MobileConnects, Recovered, LeasesOf
    <3>2. \A l \in leases' : l.dev \in mobiles'
      BY Zenon, <2>1, <3>1 DEF BookAfter, LeaseIsCurrent
    <3>3. QED  BY <2>1, <3>1, <3>2, RevokedCurrent, Zenon DEF BookAfter
  <2>4. QED  BY Zenon, <2>2, <2>3
<1>6. ASSUME NEW d \in scope.devices, MobileLeaves(d)  PROVE LeaseIsCurrent'
  <2>1. /\ BookAfter(LeasesOf({d})) /\ LeasesOf({d}) \in SUBSET leases
        /\ snapshot' = snapshot /\ plugin' = plugin /\ mobiles' = mobiles \ {d}
    BY Zenon, <1>6 DEF MobileLeaves, Recovered, LeasesOf, call
  <2>2. \A l \in leases' : l.dev \in mobiles'
    BY Zenon, <2>1 DEF BookAfter, LeasesOf, LeaseIsCurrent
  <2>3. QED  BY Zenon, <2>1, <2>2, RevokedCurrent DEF BookAfter
<1>7. ASSUME NEW s, NEW moved \in BOOLEAN, Snapshot(s, moved)  PROVE LeaseIsCurrent'
  <2> DEFINE regresses == \/ \E p \in snapshot : SnapshotRegresses(p, s)
                          \/ \E t \in idle : s.call <= t
             changed == \E p \in snapshot : p.call # s.call \/ p.owner # s.owner
             reset == regresses \/ changed \/ s.ended
  <2>1. leases' = leases \ (IF reset THEN leases
                            ELSE {l \in leases : l.mode \notin s.allows})
    BY <1>7, Zenon DEF Snapshot, BookAfter
  <2>2. /\ snapshot' = {s} /\ plugin = "live" /\ plugin' = plugin
        /\ mobiles' = mobiles
    BY Zenon, <1>7 DEF Snapshot
  <2> HIDE DEF regresses
  <2>3. CASE reset
    BY Zenon, <2>1, <2>3 DEF LeaseIsCurrent
  <2>4. CASE ~reset
    <3>1. \A l \in leases' : l \in leases /\ l.mode \in s.allows
      BY Zenon, <2>1, <2>4
    <3>2. \A l \in leases' : l.call = s.call /\ l.owner = s.owner /\ ~s.ended
      BY <2>4, <3>1 DEF LeaseIsCurrent
    <3>3. QED  BY Zenon, <2>2, <3>1, <3>2 DEF LeaseIsCurrent
  <2>5. QED  BY Zenon, <2>3, <2>4
<1>8. ASSUME Idle  PROVE LeaseIsCurrent'
  <2>1. CASE snapshot = {} /\ idle # {}
    BY Zenon, <1>8, <2>1, UnchangedCurrent DEF Idle, book, call
  <2>2. CASE ~(snapshot = {} /\ idle # {})
    BY Zenon, <1>8, <2>2 DEF Idle, BookAfter, LeaseIsCurrent
  <2>3. QED  BY Zenon, <2>1, <2>2
<1>9. ASSUME NEW o, AnswerOffer(o) \/ OfferLapses(o)  PROVE LeaseIsCurrent'
  BY Zenon, <1>9, UnchangedCurrent DEF AnswerOffer, OfferLapses, book, call, conn
<1>10. ASSUME NEW o \in accepted, RequestLease(o)  PROVE LeaseIsCurrent'
  <2> DEFINE l == [id |-> granted + 1, gen |-> 0, dev |-> o.dev, mode |-> o.opp.mode,
                   prepared |-> Talks(o.opp.mode), call |-> o.opp.call,
                   owner |-> o.opp.owner, fence |-> FenceFor(o), opp |-> o.opp,
                   late |-> FALSE, sent |-> FALSE, heard |-> FALSE]
  <2>1. /\ l.dev = o.dev /\ l.mode = o.opp.mode /\ l.call = o.opp.call
        /\ l.owner = o.opp.owner
    BY Zenon
  <2>2. MayRequestLease(o) /\ leases' = (leases \ Lapsed) \cup {l}
    BY <1>10, Zenon DEF RequestLease
  <2> HIDE DEF l
  <2>3. plugin = "live" /\ plugin' = plugin /\ mobiles' = mobiles /\ snapshot' = snapshot
    BY <1>10, Zenon DEF RequestLease, conn, call
  <2>4. /\ \E s \in snapshot : /\ l.call = s.call /\ l.owner = s.owner
                               /\ l.mode \in s.allows /\ ~s.ended
        /\ l.dev \in mobiles
    BY Zenon, <2>1, <2>2 DEF MayRequestLease, Reads
  <2>5. QED  BY Zenon, <2>2, <2>3, <2>4 DEF LeaseIsCurrent
<1>11. ASSUME NEW o \in accepted, RefuseLease(o) \/ RequestPanics(o)
       PROVE  LeaseIsCurrent'
  <2>1. /\ leases' = leases \ Lapsed /\ resumable' = resumable \ JtisOf(Lapsed)
        /\ snapshot' = snapshot /\ plugin' = plugin /\ mobiles' = mobiles
    BY Zenon, <1>11 DEF RefuseLease, RequestPanics, BookAfter, conn, call
  <2>2. Lapsed \in SUBSET leases
    BY Zenon DEF Lapsed
  <2>3. \A l \in leases' : l.dev \in mobiles'
    BY Zenon, <2>1 DEF LeaseIsCurrent
  <2>4. QED  BY Zenon, <2>1, <2>2, <2>3, RevokedCurrent
<1>12. ASSUME NEW c \in claim, RejectClaim(c)  PROVE LeaseIsCurrent'
  <2>1. PICK gone \in SUBSET leases : BookAfter(gone)
    BY <1>12, Zenon DEF RejectClaim
  <2>2. snapshot' = snapshot /\ plugin' = plugin /\ mobiles' = mobiles
    BY Zenon, <1>12 DEF RejectClaim, conn
  <2>3. QED  BY Zenon, <2>1, <2>2, BookAfterCurrent
<1>13. ASSUME NEW c \in claim, NEW e \in 1..scope.owner, AcceptClaim(c, e)
       PROVE  LeaseIsCurrent'
  <2> DEFINE A(l, g) == [l EXCEPT !.owner = e, !.prepared = FALSE, !.late = FALSE,
                                  !.gen = g, !.sent = FALSE, !.heard = FALSE]
             S(s) == [s EXCEPT !.owner = e,
                               !.service = IF c.mode = "takeover"
                                           THEN "takeover" ELSE "aokie"]
  <2>1. PICK l \in leases : leases' = {A(l, l.gen + 1)}
    BY <1>13, Zenon DEF AcceptClaim
  <2>2. /\ snapshot' = {S(s) : s \in snapshot}
        /\ plugin = "live" /\ plugin' = plugin /\ mobiles' = mobiles
    BY <1>13, Zenon DEF AcceptClaim, conn
  <2>3. \A g : /\ A(l, g).dev = l.dev /\ A(l, g).mode = l.mode
               /\ A(l, g).call = l.call /\ A(l, g).owner = e
    BY DEF BookOK, Leases
  <2>4. \A s \in snapshot : /\ S(s).call = s.call /\ S(s).owner = e
                            /\ S(s).allows = s.allows /\ S(s).ended = s.ended
    BY Zenon DEF CallOK, Snapshots
  <2> HIDE DEF A, S
  <2>5. PICK s \in snapshot : /\ l.call = s.call /\ l.mode \in s.allows /\ ~s.ended
                             /\ l.dev \in mobiles
    BY Zenon DEF LeaseIsCurrent
  <2>6. S(s) \in snapshot'
    BY Zenon, <2>2
  <2>7. QED  BY <2>1, <2>2, <2>3, <2>4, <2>5, <2>6 DEF LeaseIsCurrent
<1>14. ASSUME NEW l \in leases, Heartbeat(l)  PROVE LeaseIsCurrent'
  <2> DEFINE a == [l EXCEPT !.gen = l.gen + 1]
  <2>1. /\ leases' = (leases \ {l}) \cup {a} /\ plugin = "live"
        /\ snapshot' = snapshot /\ plugin' = plugin /\ mobiles' = mobiles
    BY Zenon, <1>14 DEF Heartbeat, Bound, conn, call
  <2>2. a.dev = l.dev /\ a.mode = l.mode /\ a.call = l.call /\ a.owner = l.owner
    BY Zenon DEF BookOK, Leases
  <2> HIDE DEF a
  <2>3. QED  BY Zenon, <2>1, <2>2 DEF LeaseIsCurrent
<1>15. ASSUME NEW l \in leases, LeaseLapses(l) \/ MobileSignal(l) \/ PluginSignal(l)
       PROVE  LeaseIsCurrent'
  <2>1. PICK k : Marked(k, l) /\ leases' = (leases \ {l}) \cup {k}
    BY <1>15, MarkedLease, Zenon DEF LeaseLapses, MobileSignal, PluginSignal, BookOK
  <2>2. /\ snapshot' = snapshot /\ plugin' = plugin /\ mobiles' = mobiles
        /\ resumable' = resumable
    BY Zenon, <1>15 DEF LeaseLapses, MobileSignal, PluginSignal, conn, call
  <2>3. Jti(k) = Jti(l)
    BY Zenon, <2>1, SameJti DEF Marked
  <2>4. QED  BY <2>1, <2>2, <2>3, ZenonT(30) DEF LeaseIsCurrent, Marked, Jti
<1>16. ASSUME NEW l \in leases, MobileRevoke(l) \/ PluginRevoke(l)
       PROVE  LeaseIsCurrent'
  <2>1. /\ BookAfter({l}) /\ snapshot' = snapshot /\ plugin' = plugin
        /\ mobiles' = mobiles
    BY Zenon, <1>16 DEF MobileRevoke, PluginRevoke, Revoke, conn, call
  <2>2. QED  BY Zenon, <2>1, BookAfterCurrent
<1>17. ASSUME Helping  PROVE LeaseIsCurrent'
  BY Zenon, <1>17, UnchangedCurrent
     DEF Helping, AskForHelp, AskLapses, AnswerHelp, book, conn, call
<1>18. ASSUME NEW b \in BOOLEAN, EndResult(b)  PROVE LeaseIsCurrent'
  <2>1. PICK gone \in SUBSET leases : BookAfter(gone)
    BY Zenon, <1>18 DEF EndResult
  <2>2. snapshot' = snapshot /\ plugin' = plugin /\ mobiles' = mobiles
    BY Zenon, <1>18 DEF EndResult, conn, call
  <2>3. QED  BY Zenon, <2>1, <2>2, BookAfterCurrent
<1>19. ASSUME Controls, ~\E b \in BOOLEAN : EndResult(b)  PROVE LeaseIsCurrent'
  <2>1. UNCHANGED <<book, conn, snapshot>>
    BY Zenon, <1>19 DEF Controls, MuteRequest, EndChallenge, MuteStatus, ChallengeLapses,
                 EndConfirm, call
  <2>2. QED  BY Zenon, <2>1, UnchangedCurrent DEF book, conn
<1>20. CASE Sockets
  BY Zenon, <1>20, <1>1, <1>2, <1>3, <1>4, <1>5, <1>6 DEF Sockets
<1>21. CASE Publications
  BY <1>21, <1>7, <1>8, Zenon DEF Publications
<1>22. CASE Claiming
  BY Zenon, <1>22, <1>9, <1>10, <1>11, <1>12, <1>13, <1>14, <1>15, <1>16 DEF Claiming
<1>23. QED  BY Zenon, <1>17, <1>18, <1>19, <1>20, <1>21, <1>22 DEF Next

----------------------------------------------------------------------------
(* The published call, the offers and the requests for help.                *)

LEMMA ScopeKept ==
    ASSUME Next
    PROVE  scope' = scope
<1>0. ASSUME NEW s, NEW moved, Snapshot(s, moved)
      PROVE  scope' = scope
  BY Zenon, <1>0 DEF Snapshot
<1>1. CASE Sockets
  BY <1>1, Zenon DEF Sockets, PluginRotates, PluginReconnects, PluginConnects,
              PluginLeaves, GraceEnds, Forgotten, ForgottenCall, MobileConnects,
              MobileLeaves
<1>2. CASE Publications
  BY <1>0, <1>2, Zenon DEF Publications, Idle
<1>3. CASE Claiming
  BY <1>3, Zenon DEF Claiming, AnswerOffer, OfferLapses, RequestLease, RefuseLease,
              RequestPanics, RejectClaim, AcceptClaim, Heartbeat, LeaseLapses,
              MobileRevoke, PluginRevoke, Revoke, MobileSignal, PluginSignal
<1>4. CASE Helping
  BY Zenon, <1>4 DEF Helping, AskForHelp, AskLapses, AnswerHelp
<1>5. CASE Controls
  BY <1>5, Zenon DEF Controls, MuteRequest, EndChallenge, MuteStatus, ChallengeLapses,
              EndConfirm, EndResult
<1>6. QED  BY Zenon, <1>1, <1>2, <1>3, <1>4, <1>5 DEF Next

LEMMA CallKept ==
    ASSUME IInv, Next
    PROVE  CallOK'
<1> USE DEF IInv
<1>0. ASSUME NEW s, NEW moved, Snapshot(s, moved)
      PROVE  mobiles' = mobiles
  BY Zenon, <1>0 DEF Snapshot
<1>1. scope' = scope
  BY Zenon, ScopeKept
<1>2. CASE Sockets
  <2>1. mobiles' \subseteq mobiles \cup scope.devices /\ snapshot' \subseteq snapshot
    BY <1>2, Zenon DEF Sockets, PluginRotates, PluginReconnects, PluginConnects,
                PluginLeaves, GraceEnds, Forgotten, ForgottenCall, MobileConnects,
                MobileLeaves, call
  <2>2. QED  BY Zenon, <1>1, <2>1, GatewayScopes DEF CallOK
<1>3. CASE Publications
  <2>1. mobiles' = mobiles
    BY <1>0, <1>3, Zenon DEF Publications, Idle
  <2>2. CASE Idle
    BY Zenon, <1>1, <2>1, <2>2 DEF Idle, CallOK, call
  <2>3. ASSUME NEW c \in Calls, NEW e \in 1..scope.owner, NEW ok \in scope.consents,
               NEW v \in scope.services, NEW over \in BOOLEAN, NEW moved \in BOOLEAN,
               Snapshot([call |-> c, owner |-> e, allows |-> ok, service |-> v,
                         ended |-> over], moved)
        PROVE  snapshot' \subseteq Snapshots
    <3>1. e \in Nat /\ ok \in Consents /\ v \in {"aokie", "consult", "takeover"}
      BY GatewayScopes DEF CallOK, Consents, Modes
    <3>2. [call |-> c, owner |-> e, allows |-> ok, service |-> v, ended |-> over]
            \in Snapshots
      BY Zenon, <3>1 DEF Snapshots
    <3>3. QED  BY Zenon, <2>3, <3>2 DEF Snapshot
  <2>4. QED  BY <1>1, <1>3, <2>1, <2>2, <2>3, ZenonT(30) DEF Publications, CallOK
<1>4. ASSUME NEW c \in claim, NEW e \in 1..scope.owner, AcceptClaim(c, e)
      PROVE  CallOK'
  <2> DEFINE S(s) == [s EXCEPT !.owner = e,
                               !.service = IF c.mode = "takeover"
                                           THEN "takeover" ELSE "aokie"]
  <2>1. snapshot' = {S(s) : s \in snapshot} /\ mobiles' = mobiles
    BY <1>4, Zenon DEF AcceptClaim, conn
  <2>2. e \in Nat
    BY GatewayScopes DEF CallOK
  <2>3. \A s \in snapshot : S(s) \in Snapshots
    BY <2>2, Zenon DEF CallOK, Snapshots
  <2> HIDE DEF S
  <2>4. QED  BY Zenon, <1>1, <2>1, <2>3 DEF CallOK
<1>5. CASE Claiming
  <2>1. \/ \E c \in claim, e \in 1..scope.owner : AcceptClaim(c, e)
        \/ mobiles' = mobiles /\ snapshot' = snapshot
    BY <1>5, ZenonT(30) DEF Claiming, AnswerOffer, OfferLapses, RequestLease, RefuseLease,
                RequestPanics, RejectClaim, Heartbeat, LeaseLapses, MobileRevoke,
                PluginRevoke, Revoke, MobileSignal, PluginSignal, conn, call
  <2>2. QED  BY Zenon, <1>1, <1>4, <2>1 DEF CallOK
<1>6. CASE Helping \/ Controls
  <2>1. mobiles' = mobiles /\ snapshot' = snapshot
    BY <1>6, Zenon DEF Helping, Controls, AskForHelp, AskLapses, AnswerHelp, MuteRequest,
                EndChallenge, MuteStatus, ChallengeLapses, EndConfirm, EndResult,
                conn, call
  <2>2. QED  BY Zenon, <1>1, <2>1 DEF CallOK
<1>7. QED  BY Zenon, <1>2, <1>3, <1>5, <1>6 DEF Next

\* refresh_pending_mobile_offers mints well-formed offers.
LEMMA RefreshedOffers ==
    ASSUME NEW S \in SUBSET Snapshots, NEW moved, NEW A \in SUBSET Asks,
           NEW D \in SUBSET Devices, NEW P \in SUBSET Offers, NEW Q \in SUBSET Offers,
           NEW W, RefreshOffers(S, moved, A, D, P, Q, W)
    PROVE  pending' \subseteq Offers /\ accepted' \subseteq Offers
<1>1. TransferAsk(A) \in Nat
  <2>1. CASE \E r \in LiveAsk(A) : r.transfer
    <3>1. (CHOOSE r \in LiveAsk(A) : r.transfer) \in A
      BY Zenon, <2>1 DEF LiveAsk
    <3>2. QED  BY Zenon, <2>1, <3>1 DEF TransferAsk, Asks
  <2>2. QED  BY Zenon, <2>1 DEF TransferAsk
<1>2. CASE \E s \in S : ~s.ended
  <2> DEFINE s == CHOOSE s \in S : TRUE
             kept == {o \in Q : StillGood(o, s, moved, A, D)}
             won == Released(W, Q \ kept)
  <2>1. s \in Snapshots
    BY Zenon, <1>2
  <2>2. /\ accepted' = kept
        /\ pending' = {o \in P : StillGood(o, s, moved, A, D)} \cup Minted(s, A, D, won)
    BY <1>2, Zenon DEF RefreshOffers
  <2> HIDE DEF s, won
  <2>3. \A m \in Modes : Opportunity(s, m, A) \in Opportunities
    BY Zenon, <1>1, <2>1 DEF Opportunity, Opportunities, Snapshots
  <2>4. \A d \in D, m \in Modes :
          [dev |-> d, opp |-> Opportunity(s, m, A), late |-> FALSE] \in Offers
    BY Zenon, <2>3 DEF Offers
  <2>5. Minted(s, A, D, won) \subseteq Offers
    <3> DEFINE made(d, m) == [dev |-> d, opp |-> Opportunity(s, m, A), late |-> FALSE]
               open == {m \in s.allows \cap Modes :
                          /\ m = "consult" => ConsultAsk(A)
                          /\ \A w \in won : w.opp # Opportunity(s, m, A)}
    <3>1. Minted(s, A, D, won) = {made(d, m) : d \in D, m \in open}
      BY DEF Minted
    <3>2. open \subseteq Modes
      BY Zenon
    <3>3. \A d \in D, m \in Modes : made(d, m) \in Offers
      BY Zenon, <2>4
    <3> HIDE DEF made, open
    <3>4. QED  BY <3>1, <3>2, <3>3
  <2>6. QED  BY Zenon, <2>2, <2>5
<1>3. CASE ~\E s \in S : ~s.ended
  BY Zenon, <1>3 DEF RefreshOffers
<1>4. QED  BY Zenon, <1>2, <1>3

LEMMA OffersKept ==
    ASSUME IInv, Next
    PROVE  OffersOK'
<1> USE DEF IInv
<1>0. /\ mobiles' \in SUBSET Devices /\ mobiles \in SUBSET Devices
      /\ snapshot \in SUBSET Snapshots
  BY Zenon, CallKept DEF CallOK
<1>0a. /\ pending \in SUBSET Offers /\ accepted \in SUBSET Offers
       /\ assistance \in SUBSET Asks /\ asked \in Nat
  BY Zenon DEF OffersOK
<1>1. CASE Sockets
  <2>1. /\ asked' = asked /\ assistance' \subseteq assistance
    BY <1>1, Zenon DEF Sockets, PluginRotates, PluginReconnects, PluginConnects,
                PluginLeaves, GraceEnds, Forgotten, ForgottenCall, MobileConnects,
                MobileLeaves, help
  <2>2. ASSUME NEW drop \in SUBSET mobiles, PluginReconnects(drop)
        PROVE  pending' \subseteq Offers /\ accepted' \subseteq Offers
    <3>1. PICK W : RefreshOffers(snapshot, drift, assistance, mobiles', pending,
                                 accepted \ OffersOf(drop), W)
      BY <2>2, Zenon DEF PluginReconnects
    <3>2. accepted \ OffersOf(drop) \in SUBSET Offers
      BY Zenon, <1>0a
    <3>3. QED  BY Zenon, <1>0, <1>0a, <3>1, <3>2, RefreshedOffers
  <2>3. ASSUME NEW d \in scope.devices, NEW r \in BOOLEAN, MobileConnects(d, r)
        PROVE  pending' \subseteq Offers /\ accepted' \subseteq Offers
    <3>1. accepted \ OffersOf({d}) \in SUBSET Offers
      BY Zenon, <1>0a
    <3>2. CASE r
      <4>1. RefreshOffers(snapshot, drift, assistance, mobiles', pending, accepted,
                          winners)
        BY <2>3, <3>2, Zenon DEF MobileConnects
      <4>2. QED  BY Zenon, <1>0, <1>0a, <4>1, RefreshedOffers
    <3>3. CASE ~r
      <4>1. RefreshOffers(snapshot, drift, assistance, mobiles', pending,
                          accepted \ OffersOf({d}),
                          Released(WinnersAfter(LeasesOf({d})), OffersOf({d})))
        BY <2>3, <3>3, Zenon DEF MobileConnects
      <4>2. QED  BY Zenon, <1>0, <1>0a, <3>1, <4>1, RefreshedOffers
    <3>4. QED  BY Zenon, <3>2, <3>3
  <2>4. ASSUME NEW drop \in SUBSET mobiles, PluginRotates(drop)
        PROVE  pending' \subseteq pending /\ accepted' \subseteq accepted
    BY Zenon, <2>4 DEF PluginRotates
  <2>5. ASSUME PluginConnects \/ PluginLeaves \/ GraceEnds
        PROVE  pending' \subseteq pending /\ accepted' \subseteq accepted
    BY Zenon, <2>5 DEF PluginConnects, PluginLeaves, GraceEnds, Forgotten, ForgottenCall
  <2>6. ASSUME NEW d \in scope.devices, MobileLeaves(d)
        PROVE  pending' \subseteq pending /\ accepted' \subseteq accepted
    BY <2>6, Zenon DEF MobileLeaves
  <2>7. pending' \subseteq Offers /\ accepted' \subseteq Offers
    BY Zenon, <1>1, <1>0a, <2>2, <2>3, <2>4, <2>5, <2>6 DEF Sockets
  <2>8. QED  BY Zenon, <1>0a, <2>1, <2>7 DEF OffersOK
<1>2. ASSUME NEW s, NEW moved \in BOOLEAN, Snapshot(s, moved)  PROVE OffersOK'
  <2> DEFINE fresh(r) == [r EXCEPT !.fresh = r.fresh /\ ~moved]
  <2>1. \A r \in assistance : fresh(r) \in Asks
    BY <1>0a, ZenonT(30) DEF Asks
  <2>2. PICK kept, P, Q, W :
          /\ kept \subseteq {fresh(r) : r \in assistance} /\ assistance' = kept
          /\ P \subseteq pending /\ Q \subseteq accepted
          /\ RefreshOffers({s}, moved \/ drift, kept, mobiles, P, Q, W)
    BY <1>2, SnapshotRefreshes, ZenonT(30)
  <2> HIDE DEF fresh
  <2>3. kept \in SUBSET Asks /\ P \in SUBSET Offers /\ Q \in SUBSET Offers
    BY Zenon, <1>0a, <2>1, <2>2
  <2>4. {s} \in SUBSET Snapshots /\ asked' = asked
    BY Zenon, <1>2, CallKept DEF Snapshot, CallOK
  <2>5. pending' \subseteq Offers /\ accepted' \subseteq Offers
    BY Zenon, <1>0, <2>2, <2>3, <2>4, RefreshedOffers
  <2>6. QED  BY Zenon, <1>0a, <2>2, <2>3, <2>4, <2>5 DEF OffersOK
<1>3. ASSUME Idle  PROVE OffersOK'
  <2>1. CASE snapshot = {} /\ idle # {}
    BY <1>3, <2>1, Zenon DEF Idle, offers, help, OffersOK
  <2>2. CASE ~(snapshot = {} /\ idle # {})
    BY Zenon, <1>3, <2>2 DEF Idle, OffersOK
  <2>3. QED  BY Zenon, <2>1, <2>2
<1>4. ASSUME NEW o \in accepted, OfferLapses(o)  PROVE OffersOK'
  <2>1. [o EXCEPT !.late = TRUE] \in Offers
    BY <1>0a, Zenon DEF Offers
  <2>2. QED  BY <1>4, <2>1, Zenon DEF OfferLapses, help, OffersOK
<1>5. ASSUME NEW c \in claim, RejectClaim(c)  PROVE OffersOK'
  <2>1. PICK W : RefreshOffers(snapshot, drift, assistance, mobiles, pending,
                               accepted, W)
    BY <1>5, Zenon DEF RejectClaim
  <2>2. pending' \subseteq Offers /\ accepted' \subseteq Offers
    BY Zenon, <1>0, <1>0a, <2>1, RefreshedOffers
  <2>3. UNCHANGED help
    BY Zenon, <1>5 DEF RejectClaim
  <2>4. QED  BY Zenon, <2>2, <2>3 DEF OffersOK, help
<1>6. ASSUME NEW c \in claim, NEW e \in 1..scope.owner, AcceptClaim(c, e)
      PROVE  OffersOK'
  <2>1. /\ assistance' = {[r EXCEPT !.fresh = FALSE] : r \in assistance}
        /\ pending' = pending /\ accepted' = accepted /\ asked' = asked
    BY <1>6, Zenon DEF AcceptClaim
  <2>2. \A r \in assistance : [r EXCEPT !.fresh = FALSE] \in Asks
    BY <1>0a, Zenon DEF Asks
  <2>3. assistance' \subseteq Asks
    BY Zenon, <2>1, <2>2
  <2>4. QED  BY Zenon, <2>1, <2>3 DEF OffersOK
<1>7. ASSUME Claiming, ~\E o \in accepted : OfferLapses(o),
             ~\E c \in claim : RejectClaim(c),
             ~\E c \in claim, e \in 1..scope.owner : AcceptClaim(c, e)
      PROVE  OffersOK'
  <2>1. /\ UNCHANGED help /\ pending' \subseteq pending
        /\ accepted' \subseteq accepted \cup pending
    BY <1>7, Zenon DEF Claiming, AnswerOffer, RequestLease, RefuseLease, RequestPanics,
                Heartbeat, LeaseLapses, MobileRevoke, PluginRevoke, Revoke,
                MobileSignal, PluginSignal, offers
  <2>2. QED  BY Zenon, <2>1 DEF OffersOK, help
<1>8. ASSUME NEW t \in BOOLEAN, AskForHelp(t)  PROVE OffersOK'
  <2>1. asked' = asked + 1 /\ asked' \in Nat
    BY <1>8, <1>0a DEF AskForHelp
  <2>2. /\ assistance' = {[ask |-> asked', transfer |-> t, answered |-> FALSE,
                           fresh |-> TRUE, late |-> FALSE]}
        /\ RefreshOffers(snapshot, drift, assistance', mobiles, pending, accepted,
                         winners)
    BY <1>8, Zenon DEF AskForHelp
  <2>3. assistance' \in SUBSET Asks
    BY <2>1, <2>2 DEF Asks
  <2>4. pending' \subseteq Offers /\ accepted' \subseteq Offers
    BY <1>0, <1>0a, <2>2, <2>3, RefreshedOffers, Zenon
  <2>5. QED  BY Zenon, <2>1, <2>3, <2>4 DEF OffersOK
<1>9. ASSUME NEW r \in assistance,
             AskLapses(r) \/ \E d \in mobiles : AnswerHelp(r, d)
      PROVE  OffersOK'
  <2>1. [r EXCEPT !.late = TRUE] \in Asks /\ [r EXCEPT !.answered = TRUE] \in Asks
    BY <1>0a, Zenon DEF Asks
  <2>2. /\ \/ assistance' = {[r EXCEPT !.late = TRUE]}
           \/ assistance' = {[r EXCEPT !.answered = TRUE]}
        /\ UNCHANGED <<offers, asked>>
    BY Zenon, <1>9 DEF AskLapses, AnswerHelp
  <2>3. QED  BY <1>0a, <2>1, <2>2, Zenon DEF OffersOK, offers
<1>10. ASSUME NEW q \in mutes, MuteStatus(q)  PROVE OffersOK'
  <2>1. assistance' = {[r EXCEPT !.fresh = FALSE] : r \in assistance}
        /\ UNCHANGED <<offers, asked>>
    BY Zenon, <1>10 DEF MuteStatus, Moved
  <2>2. \A r \in assistance : [r EXCEPT !.fresh = FALSE] \in Asks
    BY <1>0a, Zenon DEF Asks
  <2>3. assistance' \subseteq Asks
    BY Zenon, <2>1, <2>2
  <2>4. QED  BY Zenon, <1>0a, <2>1, <2>3 DEF OffersOK, offers
<1>11. ASSUME Controls, ~\E q \in mutes : MuteStatus(q)  PROVE OffersOK'
  <2>1. UNCHANGED <<pending, accepted, help>>
    BY <1>11, Zenon DEF Controls, MuteRequest, EndChallenge, ChallengeLapses, EndConfirm,
                 EndResult, offers
  <2>2. QED  BY Zenon, <2>1 DEF OffersOK, help
<1>12. CASE Publications
  BY <1>12, <1>2, <1>3, Zenon DEF Publications
<1>13. CASE Claiming
  BY Zenon, <1>13, <1>4, <1>5, <1>6, <1>7
<1>14. CASE Helping
  BY Zenon, <1>14, <1>8, <1>9 DEF Helping
<1>15. QED  BY Zenon, <1>1, <1>10, <1>11, <1>12, <1>13, <1>14 DEF Next

----------------------------------------------------------------------------
(* Ending the caller's call.                                                *)

\* Challenges only go, or lose a flag.
Withers ==
    /\ \A c \in challenges' : c \in Challenges /\ \E d \in challenges : c.n = d.n
    /\ \A c, d \in challenges' : c.n = d.n => c = d
    /\ UNCHANGED <<executed, issued>>

LEMMA WithersKeeps ==
    ASSUME EndsOK, EndedOnce, Withers, scope' = scope
    PROVE  EndsOK' /\ EndedOnce'
BY DEF EndsOK, EndedOnce, Withers

LEMMA FewerWithers ==
    ASSUME EndsOK, challenges' \subseteq challenges, UNCHANGED <<executed, issued>>
    PROVE  Withers
BY Zenon DEF EndsOK, Withers

\* Every step keeps each confirmation good for one relay.
LEMMA EndsKept ==
    ASSUME IInv, Next, scope' = scope
    PROVE  EndsOK' /\ EndedOnce'
<1> USE DEF IInv
<1>1. CASE Sockets
  <2>1. challenges' \subseteq challenges /\ UNCHANGED <<executed, issued>>
    BY <1>1, Zenon DEF Sockets, PluginRotates, PluginReconnects, PluginConnects,
                PluginLeaves, GraceEnds, Forgotten, ForgottenCall, MobileConnects,
                MobileLeaves, Recovered, EndsAfter, Unnamed, ends
  <2>2. QED  BY Zenon, <2>1, FewerWithers, WithersKeeps
<1>2. ASSUME NEW s, NEW moved, Snapshot(s, moved)
      PROVE  challenges' \subseteq challenges /\ UNCHANGED <<executed, issued>>
  <2>1. PICK gone : challenges' = IF moved \/ snapshot # {s} THEN {}
                                  ELSE Unnamed(challenges, gone)
    BY <1>2, Zenon DEF Snapshot
  <2>2. UNCHANGED <<executed, issued>>
    BY Zenon, <1>2 DEF Snapshot
  <2>3. QED  BY Zenon, <2>1, <2>2 DEF Unnamed
<1>3. CASE Publications
  <2>1. challenges' \subseteq challenges /\ UNCHANGED <<executed, issued>>
    BY <1>2, <1>3, Zenon DEF Publications, Idle, ends
  <2>2. QED  BY Zenon, <2>1, FewerWithers, WithersKeeps
<1>4. CASE Claiming
  <2>1. challenges' \subseteq challenges /\ UNCHANGED <<executed, issued>>
    BY <1>4, ZenonT(30) DEF Claiming, AnswerOffer, OfferLapses, RequestLease, RefuseLease,
                RequestPanics, RejectClaim, AcceptClaim, Heartbeat, LeaseLapses,
                MobileRevoke, PluginRevoke, Revoke, MobileSignal, PluginSignal,
                EndsAfter, Unnamed, ends
  <2>2. QED  BY Zenon, <2>1, FewerWithers, WithersKeeps
<1>5. CASE Helping
  <2>1. challenges' \subseteq challenges /\ UNCHANGED <<executed, issued>>
    BY Zenon, <1>5 DEF Helping, AskForHelp, AskLapses, AnswerHelp, ends
  <2>2. QED  BY Zenon, <2>1, FewerWithers, WithersKeeps
<1>6. ASSUME NEW l \in leases, MuteRequest(l)  PROVE EndsOK' /\ EndedOnce'
  <2>1. challenges' \subseteq challenges /\ UNCHANGED <<executed, issued>>
    BY <1>6, Zenon DEF MuteRequest, ends
  <2>2. QED  BY Zenon, <2>1, FewerWithers, WithersKeeps
<1>7. ASSUME NEW b \in BOOLEAN, EndResult(b)  PROVE EndsOK' /\ EndedOnce'
  <2>1. challenges' \subseteq challenges /\ UNCHANGED <<executed, issued>>
    BY Zenon, <1>7 DEF EndResult, Unnamed
  <2>2. QED  BY Zenon, <2>1, FewerWithers, WithersKeeps
<1>8. ASSUME NEW q \in mutes, MuteStatus(q)  PROVE EndsOK' /\ EndedOnce'
  <2> DEFINE stale(c) == [c EXCEPT !.fresh = FALSE]
  <2>1. challenges' = {stale(c) : c \in challenges} /\ UNCHANGED <<executed, issued>>
    BY Zenon, <1>8 DEF MuteStatus, Moved
  <2>2. \A c \in challenges : stale(c) \in Challenges /\ stale(c).n = c.n
    BY ZenonT(30) DEF EndsOK, Challenges
  <2> HIDE DEF stale
  <2>3. Withers
    BY <2>1, <2>2 DEF Withers, EndsOK
  <2>4. QED  BY Zenon, <2>3, WithersKeeps
<1>9. ASSUME NEW c \in challenges, ChallengeLapses(c)  PROVE EndsOK' /\ EndedOnce'
  <2> DEFINE k == [c EXCEPT !.late = TRUE]
  <2>1. challenges' = (challenges \ {c}) \cup {k} /\ UNCHANGED <<executed, issued>>
    BY Zenon, <1>9 DEF ChallengeLapses
  <2>2. k \in Challenges /\ k.n = c.n
    BY Zenon DEF EndsOK, Challenges
  <2> HIDE DEF k
  <2>3. Withers
    BY <2>1, <2>2 DEF Withers, EndsOK
  <2>4. QED  BY Zenon, <2>3, WithersKeeps
<1>10. ASSUME NEW l \in leases, EndChallenge(l)  PROVE EndsOK' /\ EndedOnce'
  <2> DEFINE k == [n |-> issued + 1, dev |-> l.dev, id |-> l.id, gen |-> l.gen,
                   fresh |-> TRUE, late |-> FALSE]
  <2>1. /\ challenges' = {c \in challenges : ~c.late /\ c.dev # l.dev} \cup {k}
        /\ issued < scope.ends /\ issued' = issued + 1 /\ executed' = executed
    BY Zenon, <1>10 DEF EndChallenge
  <2>2. k \in Challenges /\ k.n = issued + 1
    BY DEF EndsOK, Challenges, BookOK, Leases
  <2>3. scope.ends \in Nat
    BY Zenon, GatewayScopes DEF CallOK
  <2> HIDE DEF k
  <2>4. /\ issued' \in Nat /\ issued' <= scope.ends /\ challenges' \subseteq Challenges
    BY <2>1, <2>2, <2>3 DEF EndsOK
  <2>5. \A c \in challenges' : c.n \in 1..issued' /\ executed[c.n] = 0
    BY <2>1, <2>2, <2>3 DEF EndsOK
  <2>6. \A c, d \in challenges' : c.n = d.n => c = d
    BY <2>1, <2>2 DEF EndsOK
  <2>7. \A n \in 1..scope.ends : n > issued' => executed[n] = 0
    BY <2>1, <2>3 DEF EndsOK
  <2>8. QED  BY Zenon, <2>1, <2>4, <2>5, <2>6, <2>7 DEF EndsOK, EndedOnce
<1>11. ASSUME NEW c \in challenges, EndConfirm(c)  PROVE EndsOK' /\ EndedOnce'
  <2>1. challenges' = challenges \ {c} /\ issued' = issued
    BY Zenon, <1>11 DEF EndConfirm, Consumed
  <2>2. CASE c.late
    <3>1. executed' = executed
      BY Zenon, <1>11, <2>2 DEF EndConfirm
    <3>2. QED  BY Zenon, <2>1, <3>1, FewerWithers, WithersKeeps
  <2>3. CASE ~c.late
    <3>1. executed' = [executed EXCEPT ![c.n] = IF @ < 2 THEN @ + 1 ELSE @]
      BY Zenon, <1>11, <2>3 DEF EndConfirm
    <3>2. scope.ends \in Nat
      BY Zenon, GatewayScopes DEF CallOK
    <3>3. c.n \in 1..issued /\ c.n \in 1..scope.ends /\ executed[c.n] = 0
      BY <3>2 DEF EndsOK
    <3>4. /\ executed' \in [1..scope.ends -> 0..2] /\ executed'[c.n] = 1
          /\ \A n \in 1..scope.ends : n # c.n => executed'[n] = executed[n]
      BY <3>1, <3>3 DEF EndsOK
    <3>5. EndsOK'
      BY <2>1, <3>2, <3>3, <3>4 DEF EndsOK
    <3>6. EndedOnce'
      BY <3>4 DEF EndedOnce
    <3>7. QED  BY Zenon, <3>5, <3>6
  <2>4. QED  BY Zenon, <2>2, <2>3
<1>12. CASE Controls
  BY Zenon, <1>12, <1>6, <1>7, <1>8, <1>9, <1>10, <1>11 DEF Controls
<1>13. QED  BY Zenon, <1>1, <1>3, <1>4, <1>5, <1>12 DEF Next

----------------------------------------------------------------------------
(* The queue of signals that wait for the plugin.                           *)

\* The jtis that are named in a queue.
Waiting(q) == {q[i] : i \in 1..Len(q)}

\* Signals wait only while the plugin is away, and only those of leases that
\* will be proposed to it again.
QueueOK ==
    /\ queued \in Seq(Jtis)
    /\ \A j \in Waiting(queued) : /\ plugin = "grace" /\ j \in resumable
                                  /\ \E l \in leases : Jti(l) = j

\* Induction up to n, for a set.
LEMMA UpTo ==
    ASSUME NEW n \in Nat, NEW T, 0 \in T, \A i \in 1..n : i - 1 \in T => i \in T
    PROVE  \A i \in 0..n : i \in T
<1> DEFINE bad == {i \in Nat : i \in 0..n /\ i \notin T}
<1> SUFFICES ASSUME bad # {} PROVE FALSE
  OBVIOUS
<1>1. PICK m \in bad : \A i \in bad : ~(i < m)
  <2>1. bad \subseteq Nat
    BY Zenon
  <2>2. PICK m \in bad : \A y \in bad : ~ (<<y, m>> \in OpToRel(<, Nat))
    BY NatLessThanWellFounded, WFMin, Zenon, <2>1
  <2>3. QED  BY Zenon, <2>2 DEF OpToRel
<1>2. m # 0 /\ m \in 1..n
  OBVIOUS
<1>3. m - 1 \notin bad
  BY <1>1, <1>2
<1>4. QED  BY <1>2, <1>3

\* What revoke_one retains of a queue is some of what it held, and nothing of
\* the leases that are gone.
LEMMA RetainedSignals ==
    ASSUME queued \in Seq(Jtis), NEW gone
    PROVE  /\ Retained(gone) \in Seq(Jtis)
           /\ Waiting(Retained(gone)) \subseteq Waiting(queued) \ JtisOf(gone)
<1> DEFINE q == queued
           N == Len(q)
           J == JtisOf(gone)
           step(x, i) == IF q[i] \in J THEN x ELSE Append(x, q[i])
           Rec(f, m) == f = [i \in 0..m |-> IF i = 0 THEN <<>> ELSE step(f[i - 1], i)]
           Good(x) == x \in Seq(Jtis) /\ Waiting(x) \subseteq Waiting(q) \ J
           kept == CHOOSE f : Rec(f, N)
<1>1. N \in Nat /\ \A i \in 1..N : q[i] \in Jtis /\ q[i] \in Waiting(q)
  BY DEF Waiting
<1>2. Retained(gone) = kept[N]
  BY Zenon DEF Retained
<1>3. Good(<<>>)
  BY DEF Waiting
<1>4. ASSUME NEW i \in 1..N, NEW x, Good(x)  PROVE Good(step(x, i))
  <2>1. CASE q[i] \in J
    BY Zenon, <1>4, <2>1
  <2>2. CASE q[i] \notin J
    <3> DEFINE y == Append(x, q[i])
    <3>1. y \in Seq(Jtis) /\ Len(y) = Len(x) + 1 /\ Len(x) \in Nat /\ y[Len(x) + 1] = q[i]
          /\ \A k \in 1..Len(x) : y[k] = x[k]
      BY <1>1, <1>4
    <3> HIDE DEF y
    <3>2. \A k \in 1..Len(y) : k \in 1..Len(x) \/ k = Len(x) + 1
      BY <3>1
    <3>3. \A k \in 1..Len(y) : y[k] = q[i] \/ y[k] \in Waiting(x)
      BY Zenon, <3>1, <3>2 DEF Waiting
    <3>4. Waiting(y) \subseteq Waiting(q) \ J
      BY Zenon, <1>1, <1>4, <2>2, <3>3 DEF Waiting
    <3>5. QED  BY Zenon, <2>2, <3>1, <3>4 DEF y
  <2>3. QED  BY Zenon, <2>1, <2>2
<1> HIDE DEF step, Good
<1>5. \E f : Rec(f, N)
  <2> DEFINE T == {m \in 0..N : \E f : Rec(f, m)}
  <2>1. 0 \in T
    <3> DEFINE f == [i \in 0..0 |-> <<>>]
    <3>1. Rec(f, 0)
      OBVIOUS
    <3>2. 0 \in 0..N
      BY <1>1
    <3> HIDE DEF Rec, f
    <3>3. QED  BY Zenon, <3>1, <3>2
  <2>2. ASSUME NEW m \in 1..N, m - 1 \in T  PROVE m \in T
    <3>1. PICK f : Rec(f, m - 1)
      BY Zenon, <2>2
    <3> DEFINE h == [i \in 0..m |-> IF i = m THEN step(f[m - 1], m) ELSE f[i]]
    <3>2. \A i \in 0..(m - 1) : h[i] = f[i]
      BY <1>1
    <3>3. \A i \in 0..(m - 1) : f[i] = IF i = 0 THEN <<>> ELSE step(f[i - 1], i)
      BY Zenon, <3>1
    <3>4. \A i \in 0..m : h[i] = IF i = 0 THEN <<>> ELSE step(h[i - 1], i)
      <4>1. h[m] = step(f[m - 1], m) /\ m # 0 /\ m - 1 \in 0..(m - 1)
        BY <1>1
      <4>2. \A i \in 0..m : i = m \/ (i \in 0..(m - 1) /\ (i # 0 => i - 1 \in 0..(m - 1)))
        BY <1>1
      <4> HIDE DEF h
      <4>3. QED  BY Zenon, <3>2, <3>3, <4>1, <4>2
    <3>5. Rec(h, m)
      BY Zenon, <3>4
    <3>6. m \in 0..N
      BY <1>1
    <3> HIDE DEF Rec, h
    <3>7. QED  BY Zenon, <3>5, <3>6
  <2> HIDE DEF T
  <2>3. \A m \in 0..N : m \in T
    BY Zenon, <1>1, <2>1, <2>2, UpTo
  <2>4. N \in 0..N
    BY <1>1
  <2>5. QED  BY Zenon, <2>3, <2>4 DEF T
<1>6. Rec(kept, N)
  <2> HIDE DEF Rec
  <2>1. QED  BY Zenon, <1>5
<1> HIDE DEF kept
<1>7. kept[0] = <<>> /\ \A i \in 1..N : kept[i] = step(kept[i - 1], i)
  BY <1>1, <1>6
<1>8. Good(kept[N])
  <2> DEFINE T == {m \in 0..N : Good(kept[m])}
  <2>1. 0 \in T
    BY <1>1, <1>3, <1>7
  <2>2. \A m \in 1..N : m - 1 \in T => m \in T
    <3>1. \A m \in 1..N : m \in 0..N
      BY <1>1
    <3>2. QED  BY Zenon, <1>4, <1>7, <3>1
  <2> HIDE DEF T
  <2>3. \A m \in 0..N : m \in T
    BY Zenon, <1>1, <2>1, <2>2, UpTo
  <2>4. N \in 0..N
    BY <1>1
  <2>5. QED  BY Zenon, <2>3, <2>4 DEF T
<1>9. QED  BY Zenon, <1>2, <1>8 DEF Good

LEMMA QueueCleared == ASSUME queued' = <<>> PROVE QueueOK'
<1>1. <<>> \in Seq(Jtis) /\ Waiting(<<>>) = {}
  BY DEF Waiting
<1>2. Waiting(queued') = {} /\ queued' \in Seq(Jtis)
  BY Zenon, <1>1
<1>3. QED  BY Zenon, <1>2 DEF QueueOK, Waiting

\* While the plugin is there the queue is empty and stays so.
LEMMA QueueIdle ==
    ASSUME QueueOK, plugin = "live", queued' = queued \/ \E gone : queued' = Retained(gone)
    PROVE  QueueOK'
<1>1. queued \in Seq(Jtis) /\ Waiting(queued) = {}
  BY Zenon DEF QueueOK
<1>2. queued' \in Seq(Jtis) /\ Waiting(queued') \subseteq Waiting(queued)
  BY Zenon, <1>1, RetainedSignals
<1>3. QED  BY Zenon, <1>1, <1>2 DEF QueueOK, Waiting

\* Leases go with their signals.
LEMMA QueueShrinks ==
    ASSUME QueueOK, NEW gone, queued' = Retained(gone), plugin' = plugin,
           resumable' = resumable \ JtisOf(gone), leases \ gone \subseteq leases'
    PROVE  QueueOK'
<1>1. queued' \in Seq(Jtis) /\ Waiting(queued') \subseteq Waiting(queued) \ JtisOf(gone)
  BY Zenon, RetainedSignals DEF QueueOK
<1>2. ASSUME NEW j \in Waiting(queued')
      PROVE  plugin = "grace" /\ j \in resumable' /\ \E l \in leases' : Jti(l) = j
  <2>1. j \in Waiting(queued) /\ j \notin JtisOf(gone)
    BY Zenon, <1>1, <1>2
  <2>2. PICK l \in leases : Jti(l) = j
    BY Zenon, <2>1 DEF QueueOK
  <2>3. l \notin gone
    BY Zenon, <2>1, <2>2 DEF JtisOf
  <2>4. plugin = "grace" /\ j \in resumable
    BY Zenon, <2>1 DEF QueueOK
  <2>5. QED  BY Zenon, <2>1, <2>2, <2>3, <2>4
<1>3. QED  BY Zenon, <1>1, <1>2 DEF QueueOK, Waiting, Jti

\* Leases that keep their jtis keep their signals.
LEMMA QueueStays ==
    ASSUME QueueOK, UNCHANGED <<queued, plugin, resumable>>,
           \A l \in leases : \E k \in leases' : Jti(k) = Jti(l)
    PROVE  QueueOK'
<1>1. ASSUME NEW j \in Waiting(queued)
      PROVE  plugin = "grace" /\ j \in resumable /\ \E l \in leases' : Jti(l) = j
  <2>1. PICK l \in leases : Jti(l) = j
    BY Zenon, <1>1 DEF QueueOK
  <2>2. plugin = "grace" /\ j \in resumable
    BY Zenon, <1>1 DEF QueueOK
  <2>3. QED  BY Zenon, <2>1, <2>2
<1>2. queued' = queued /\ plugin' = plugin /\ resumable' = resumable
  BY Zenon
<1>3. queued' \in Seq(Jtis)
  BY Zenon, <1>2 DEF QueueOK
<1>4. \A j \in Waiting(queued') : plugin' = "grace" /\ j \in resumable' /\ \E l \in leases' : Jti(l) = j
  BY Zenon, <1>1, <1>2
<1>5. QED  BY Zenon, <1>3, <1>4 DEF QueueOK, Waiting, Jti

\* Every step keeps the queue.
LEMMA QueueKept ==
    ASSUME IInv, QueueOK, Next
    PROVE  QueueOK'
<1> USE DEF IInv
<1>1. ASSUME NEW gone, BookAfter(gone), plugin' = plugin  PROVE QueueOK'
  BY Zenon, <1>1, QueueShrinks DEF BookAfter
<1>2. ASSUME UNCHANGED <<book, plugin>>  PROVE QueueOK'
  BY Zenon, <1>2, QueueStays DEF book
<1>3. ASSUME NEW l \in leases, NEW k, leases' = (leases \ {l}) \cup {k}, Jti(k) = Jti(l),
             UNCHANGED <<queued, plugin, resumable>>
      PROVE  QueueOK'
  <2>1. \A x \in leases : \E y \in leases' : Jti(y) = Jti(x)
    BY Zenon, <1>3
  <2>2. QED  BY Zenon, <1>3, <2>1, QueueStays
<1>4. \A l \in leases : /\ Jti([l EXCEPT !.late = TRUE]) = Jti(l)
                        /\ Jti([l EXCEPT !.sent = TRUE]) = Jti(l)
                        /\ Jti([l EXCEPT !.heard = TRUE]) = Jti(l)
  BY Zenon DEF BookOK, Leases, Jti
<1>5. CASE Sockets
  <2>1. ASSUME NEW drop, PluginRotates(drop)  PROVE QueueOK'
    BY Zenon, <1>1, <2>1 DEF PluginRotates
  <2>2. ASSUME NEW drop, PluginReconnects(drop)  PROVE QueueOK'
    BY Zenon, <2>2, QueueCleared DEF PluginReconnects
  <2>3. CASE PluginConnects \/ PluginLeaves \/ GraceEnds
    BY Zenon, <2>3, QueueCleared DEF PluginConnects, PluginLeaves, GraceEnds, Forgotten,
                                     ForgottenCall
  <2>4. ASSUME NEW d, NEW r, MobileConnects(d, r)  PROVE QueueOK'
    <3>1. plugin' = plugin /\ (UNCHANGED book \/ BookAfter(LeasesOf({d})))
      BY Zenon, <2>4 DEF MobileConnects, Recovered
    <3>2. QED  BY Zenon, <1>1, <1>2, <3>1
  <2>5. ASSUME NEW d, MobileLeaves(d)  PROVE QueueOK'
    BY Zenon, <1>1, <2>5 DEF MobileLeaves, Recovered
  <2>6. QED  BY Zenon, <1>5, <2>1, <2>2, <2>3, <2>4, <2>5 DEF Sockets
<1>6. CASE Publications
  <2>1. ASSUME NEW s, NEW moved, Snapshot(s, moved)  PROVE QueueOK'
    <3>1. plugin' = plugin /\ \E gone : BookAfter(gone)
      BY Zenon, <2>1 DEF Snapshot
    <3>2. QED  BY Zenon, <1>1, <3>1
  <2>2. CASE Idle
    <3>1. plugin' = plugin /\ (UNCHANGED book \/ BookAfter(leases))
      BY Zenon, <2>2 DEF Idle
    <3>2. QED  BY Zenon, <1>1, <1>2, <3>1
  <2>3. QED  BY Zenon, <1>6, <2>1, <2>2 DEF Publications
<1>7. CASE Claiming
  <2>1. ASSUME NEW o, AnswerOffer(o) \/ OfferLapses(o)  PROVE QueueOK'
    BY Zenon, <1>2, <2>1 DEF AnswerOffer, OfferLapses, conn
  <2>2. ASSUME NEW o, RequestLease(o)  PROVE QueueOK'
    BY Zenon, <2>2, QueueIdle DEF RequestLease
  <2>3. ASSUME NEW o, RefuseLease(o)  PROVE QueueOK'
    BY Zenon, <1>1, <2>3 DEF RefuseLease, conn
  <2>4. ASSUME NEW o, RequestPanics(o)  PROVE QueueOK'
    BY Zenon, <2>4, QueueShrinks DEF RequestPanics
  <2>5. ASSUME NEW c, RejectClaim(c)  PROVE QueueOK'
    BY Zenon, <1>1, <2>5 DEF RejectClaim, conn
  <2>6. ASSUME NEW c, NEW e, AcceptClaim(c, e)  PROVE QueueOK'
    <3>1. plugin = "live" /\ \E gone : queued' = Retained(gone)
      BY Zenon, <2>6 DEF AcceptClaim
    <3>2. QED  BY Zenon, <3>1, QueueIdle
  <2>7. ASSUME NEW l, Heartbeat(l)  PROVE QueueOK'
    BY Zenon, <2>7, QueueIdle DEF Heartbeat, Bound
  <2>8. ASSUME NEW l, LeaseLapses(l)  PROVE QueueOK'
    BY Zenon, <1>3, <1>4, <2>8 DEF LeaseLapses, conn
  <2>9. ASSUME NEW l, MobileRevoke(l) \/ PluginRevoke(l)  PROVE QueueOK'
    BY Zenon, <1>1, <2>9 DEF MobileRevoke, PluginRevoke, Revoke, conn
  <2>10. ASSUME NEW l, MobileSignal(l)  PROVE QueueOK'
    <3>1. /\ l \in leases /\ leases' = (leases \ {l}) \cup {[l EXCEPT !.sent = TRUE]}
          /\ UNCHANGED <<plugin, resumable>>
      BY Zenon, <2>10 DEF MobileSignal, conn
    <3>2. CASE queued' = queued
      BY Zenon, <1>3, <1>4, <3>1, <3>2
    <3>3. CASE /\ plugin = "grace" /\ Jti(l) \in resumable /\ queued' = Append(queued, Jti(l))
      <4>1. Jti(l) \in Jtis /\ queued \in Seq(Jtis)
        BY Zenon, <3>1 DEF BookOK, Leases, Jti, Jtis, QueueOK
      <4>2. queued' \in Seq(Jtis) /\ Waiting(queued') \subseteq Waiting(queued) \cup {Jti(l)}
        <5> DEFINE x == queued
                   j == Jti(l)
                   y == Append(x, j)
        <5> HIDE DEF j, x
        <5>1. x \in Seq(Jtis) /\ j \in Jtis
          BY Zenon, <4>1 DEF x, j
        <5>2. y \in Seq(Jtis) /\ Len(y) = Len(x) + 1 /\ Len(x) \in Nat /\ y[Len(x) + 1] = j
              /\ \A k \in 1..Len(x) : y[k] = x[k]
          BY <5>1
        <5> HIDE DEF y
        <5>3. \A k \in 1..Len(y) : k \in 1..Len(x) \/ k = Len(x) + 1
          BY <5>2
        <5>4. Waiting(y) \subseteq Waiting(x) \cup {j}
          BY Zenon, <5>2, <5>3 DEF Waiting
        <5>5. y = queued'
          BY Zenon, <3>3 DEF x, y, j
        <5>6. QED  BY Zenon, <5>2, <5>4, <5>5 DEF x, j
      <4>3. \A k \in leases : \E y \in leases' : Jti(y) = Jti(k)
        BY Zenon, <1>4, <3>1
      <4>4. ASSUME NEW j \in Waiting(queued')
            PROVE  plugin = "grace" /\ j \in resumable /\ \E y \in leases' : Jti(y) = j
        <5>1. CASE j = Jti(l)
          BY Zenon, <3>1, <3>3, <4>3, <5>1
        <5>2. CASE j \in Waiting(queued)
          <6>1. PICK k \in leases : Jti(k) = j
            BY Zenon, <5>2 DEF QueueOK
          <6>2. j \in resumable
            BY Zenon, <5>2 DEF QueueOK
          <6>3. QED  BY Zenon, <3>3, <4>3, <6>1, <6>2
        <5>3. QED  BY Zenon, <4>2, <4>4, <5>1, <5>2
      <4>5. QED  BY Zenon, <3>1, <4>2, <4>4 DEF QueueOK, Waiting, Jti
    <3>4. QED  BY Zenon, <2>10, <3>2, <3>3 DEF MobileSignal
  <2>11. ASSUME NEW l, PluginSignal(l)  PROVE QueueOK'
    BY Zenon, <1>3, <1>4, <2>11 DEF PluginSignal, conn
  <2>12. QED  BY Zenon, <1>7, <2>1, <2>2, <2>3, <2>4, <2>5, <2>6, <2>7, <2>8, <2>9, <2>10, <2>11
                 DEF Claiming
<1>8. CASE Helping
  BY Zenon, <1>2, <1>8 DEF Helping, AskForHelp, AskLapses, AnswerHelp, conn
<1>9. CASE Controls
  <2>1. ASSUME NEW b, EndResult(b)  PROVE QueueOK'
    <3>1. plugin' = plugin /\ \E gone : BookAfter(gone)
      BY Zenon, <2>1 DEF EndResult, conn
    <3>2. QED  BY Zenon, <1>1, <3>1
  <2>2. ASSUME NEW c, \/ MuteRequest(c) \/ EndChallenge(c) \/ MuteStatus(c)
                      \/ ChallengeLapses(c) \/ EndConfirm(c)
        PROVE  QueueOK'
    BY Zenon, <1>2, <2>2 DEF MuteRequest, EndChallenge, MuteStatus, ChallengeLapses, EndConfirm,
                             conn
  <2>3. QED  BY Zenon, <1>9, <2>1, <2>2 DEF Controls
<1>10. QED  BY Zenon, <1>5, <1>6, <1>7, <1>8, <1>9 DEF Next

----------------------------------------------------------------------------
(* The fence of the line.                                                   *)

\* next_fence moves only where a lease is asked for, and only up.
LEMMA FenceMoves ==
    ASSUME IInv, Next
    PROVE  fence' = fence \/ fence' = fence + 1
<1>1. CASE Sockets
  BY Zenon, <1>1 DEF Sockets, PluginRotates, PluginReconnects, PluginConnects, PluginLeaves,
                     GraceEnds, Forgotten, MobileConnects, MobileLeaves, Recovered, BookAfter,
                     book
<1>2. CASE Publications
  <2>1. ASSUME NEW s, NEW moved, Snapshot(s, moved)  PROVE fence' = fence
    <3>1. \E gone : BookAfter(gone)
      BY Zenon, <2>1 DEF Snapshot
    <3>2. QED  BY Zenon, <3>1 DEF BookAfter
  <2>2. QED  BY Zenon, <1>2, <2>1 DEF Publications, Idle, BookAfter, book
<1>3. CASE Claiming
  <2>1. ASSUME NEW o, RequestLease(o) \/ RequestPanics(o)
        PROVE  fence' = fence \/ fence' = fence + 1
    BY Zenon, <2>1 DEF RequestLease, RequestPanics
  <2>2. ASSUME NEW o, AnswerOffer(o) \/ OfferLapses(o) \/ RefuseLease(o) \/ RejectClaim(o)
        PROVE  fence' = fence
    BY Zenon, <2>2 DEF AnswerOffer, OfferLapses, RefuseLease, RejectClaim, BookAfter, book
  <2>3. ASSUME NEW l, \/ Heartbeat(l) \/ LeaseLapses(l) \/ MobileRevoke(l) \/ PluginRevoke(l)
                      \/ MobileSignal(l) \/ PluginSignal(l)
        PROVE  fence' = fence
    BY Zenon, <2>3 DEF Heartbeat, LeaseLapses, MobileRevoke, PluginRevoke, Revoke, MobileSignal,
                       PluginSignal, BookAfter
  <2>4. ASSUME NEW c, NEW e, AcceptClaim(c, e)  PROVE fence' = fence
    BY Zenon, <2>4 DEF AcceptClaim
  <2>5. QED  BY Zenon, <1>3, <2>1, <2>2, <2>3, <2>4 DEF Claiming
<1>4. CASE Helping
  BY Zenon, <1>4 DEF Helping, AskForHelp, AskLapses, AnswerHelp, book
<1>5. CASE Controls
  BY Zenon, <1>5 DEF Controls, MuteRequest, EndChallenge, MuteStatus, ChallengeLapses, EndConfirm,
                     EndResult, BookAfter, book
<1>6. QED  BY Zenon, <1>1, <1>2, <1>3, <1>4, <1>5 DEF Next

\* A claim that was not there before was granted, at the next fence.
LEMMA ClaimMoves ==
    ASSUME IInv, Next, NEW c \in claim', \A d \in claim : d.id # c.id
    PROVE  c.mode = "takeover" => c.fence = fence + 1
<1> USE DEF IInv
<1>1. Revokes \/ Marks \/ Grants \/ Accepts \/ Renews
  BY Zenon, BookMoves
<1>2. ~Revokes /\ ~Marks
  BY Zenon DEF Revokes, Marks, Unnamed
<1>3. ~Accepts
  <2>1. SUFFICES ASSUME NEW b \in claim, NEW e, AcceptClaim(b, e)  PROVE FALSE
    BY Zenon DEF Accepts
  <2>2. PICK g : claim' = {[b EXCEPT !.active = TRUE, !.gen = g]}
    BY Zenon, <2>1 DEF AcceptClaim
  <2>3. c.id = b.id
    BY Zenon, <2>2 DEF BookOK, Claims
  <2>4. QED  BY Zenon, <2>3
<1>4. ~Renews
  <2>1. SUFFICES ASSUME NEW l \in leases, Heartbeat(l)  PROVE FALSE
    BY Zenon DEF Renews
  <2>2. PICK b \in claim : c = IF Jti(b) = Jti(l) THEN [b EXCEPT !.gen = l.gen + 1] ELSE b
    BY Zenon, <2>1 DEF Heartbeat, ClaimRenewed
  <2>3. c.id = b.id
    BY Zenon, <2>2 DEF BookOK, Claims
  <2>4. QED  BY Zenon, <2>3
<1>5. ASSUME NEW o \in accepted, RequestLease(o), c.mode = "takeover"
      PROVE  c.fence = fence + 1
  <2>1. CASE Talks(o.opp.mode)
    <3> DEFINE r == [id |-> granted + 1, gen |-> 0, dev |-> o.dev, mode |-> o.opp.mode,
                     fence |-> FenceFor(o), call |-> o.opp.call, active |-> FALSE]
    <3>1. claim' = {r}
      BY Zenon, <1>5, <2>1 DEF RequestLease
    <3>2. r.mode = o.opp.mode /\ r.fence = FenceFor(o)
      BY ZenonT(30)
    <3> HIDE DEF r
    <3>3. c = r
      BY Zenon, <3>1
    <3>4. QED  BY Zenon, <1>5, <3>2, <3>3 DEF FenceFor
  <2>2. CASE ~Talks(o.opp.mode)
    BY Zenon, <1>5, <2>2 DEF RequestLease, Unnamed
  <2>3. QED  BY Zenon, <2>1, <2>2
<1>6. QED  BY Zenon, <1>1, <1>2, <1>3, <1>4, <1>5 DEF Grants

----------------------------------------------------------------------------
(* The invariant is inductive.                                              *)

LEMMA IInvInit == Init => IInv
<1>1. ASSUME Init  PROVE IInv
  <2>1. scope.ends \in Nat
    BY Zenon, <1>1, GatewayScopes DEF Init
  <2>2. CallOK /\ OffersOK /\ BookOK
    BY Zenon, <1>1 DEF Init, CallOK, OffersOK, BookOK
  <2>3. EndsOK /\ EndedOnce
    BY <1>1, <2>1 DEF Init, EndsOK, EndedOnce
  <2>4. ClaimHoldsTheLine /\ WinnerIsBacked /\ LeaseIsCurrent
    BY Zenon, <1>1 DEF Init, ClaimHoldsTheLine, WinnerIsBacked, LeaseIsCurrent
  <2>5. QED  BY Zenon, <2>2, <2>3, <2>4 DEF IInv
<1>2. QED  BY Zenon, <1>1

LEMMA IInvStep == IInv /\ [Next]_vars => IInv'
<1> SUFFICES ASSUME IInv, [Next]_vars  PROVE IInv'
  BY Zenon
<1>1. CASE Next
  <2>1. CallOK' /\ OffersOK'
    BY Zenon, <1>1, CallKept, OffersKept
  <2>2. scope' = scope
    BY Zenon, <1>1, ScopeKept
  <2>3. EndsOK' /\ EndedOnce'
    BY Zenon, <1>1, <2>2, EndsKept
  <2>4. BookOK' /\ ClaimHoldsTheLine' /\ WinnerIsBacked' /\ LeaseIsCurrent'
    BY Zenon, <1>1, BookKept, WinnersKept, CurrentKept
  <2>5. QED  BY Zenon, <2>1, <2>3, <2>4 DEF IInv
<1>2. CASE UNCHANGED vars
  <2>1. UNCHANGED <<scope, plugin, mobiles, snapshot, pending, accepted, winners,
                    assistance, asked, leases, claim, granted, fence, resumable,
                    issued, challenges, executed>>
    BY Zenon, <1>2 DEF vars, conn, call, offers, book, help, ends
  <2>2. CallOK' /\ OffersOK' /\ BookOK' /\ EndsOK'
    BY Zenon, <2>1 DEF IInv, CallOK, OffersOK, BookOK, EndsOK
  <2>3. ClaimHoldsTheLine' /\ WinnerIsBacked' /\ EndedOnce'
    BY <2>1, Zenon DEF IInv, ClaimHoldsTheLine, WinnerIsBacked, EndedOnce
  <2>4. LeaseIsCurrent'
    BY Zenon, <2>1, UnchangedCurrent DEF IInv
  <2>5. QED  BY Zenon, <2>2, <2>3, <2>4 DEF IInv
<1>3. QED  BY Zenon, <1>1, <1>2

LEMMA IInvHolds == Spec => []IInv
BY IInvInit, IInvStep, PTL DEF Spec

\* At most one talk lease, and it is the claim's: handle_lease_request,
\* handle_claim_decision, handle_lease_heartbeat and every revocation.
THEOREM OneLineHolds == Spec => []ClaimHoldsTheLine
<1>1. IInv => ClaimHoldsTheLine  BY Zenon DEF IInv
<1>2. QED  BY <1>1, IInvHolds, PTL

\* An opportunity is held only by an accepted offer or a lease: the releases
\* in recover_device, revoke_one and refresh_pending_mobile_offers.
THEOREM WinnerIsBackedHolds == Spec => []WinnerIsBacked
<1>1. IInv => WinnerIsBacked  BY Zenon DEF IInv
<1>2. QED  BY <1>1, IInvHolds, PTL

\* A lease is revoked with what it rests on: handle_snapshot, handle_idle,
\* register_*, unregister and handle_claim_decision.
THEOREM LeaseIsCurrentHolds == Spec => []LeaseIsCurrent
<1>1. IInv => LeaseIsCurrent  BY Zenon DEF IInv
<1>2. QED  BY <1>1, IInvHolds, PTL

\* handle_end_caller_confirm relays a confirmation at most once, although a
\* new plugin authority forgets which were used.
THEOREM EndedOnceHolds == Spec => []EndedOnce
<1>1. IInv => EndedOnce  BY Zenon DEF IInv
<1>2. QED  BY <1>1, IInvHolds, PTL

\* While the plugin reconnects, only signals of leases that it will be
\* proposed again wait for it: handle_mobile_rtc queues them, revoke_one and
\* every way the plugin leaves or comes back take them out.
THEOREM QueueIsResumableHolds == Spec => []QueueIsResumable
<1>1. Init => QueueOK
  <2>1. ASSUME Init  PROVE QueueOK
    <3>1. queued = <<>>
      BY Zenon, <2>1 DEF Init
    <3>2. queued \in Seq(Jtis) /\ Waiting(queued) = {}
      BY <3>1 DEF Waiting
    <3>3. QED  BY Zenon, <3>2 DEF QueueOK
  <2>2. QED  BY Zenon, <2>1
<1>2. IInv /\ QueueOK /\ [Next]_vars => QueueOK'
  <2>1. ASSUME IInv, QueueOK, UNCHANGED vars  PROVE QueueOK'
    <3>1. queued' = queued /\ plugin' = plugin /\ resumable' = resumable /\ leases' = leases
      BY Zenon, <2>1 DEF vars, conn, book
    <3>2. QED  BY Zenon, <2>1, <3>1 DEF QueueOK, Waiting, Jti
  <2>2. QED  BY Zenon, <2>1, QueueKept
<1>3. QueueOK => QueueIsResumable
  BY Zenon DEF QueueOK, QueueIsResumable, Waiting
<1>4. QED  BY <1>1, <1>2, <1>3, IInvHolds, PTL DEF Spec

\* The fence of the line never goes back, not with a new authority either, and
\* a new takeover claim is above every fence before it: next_fence in
\* handle_lease_request.
THEOREM FenceGrowsHolds == Spec => FenceGrows
<1> DEFINE Grows == /\ fence' >= fence
                    /\ \A c \in claim' : (c.mode = "takeover" /\ ~\E d \in claim : d.id = c.id)
                                            => c.fence > fence
<1>1. IInv /\ [Next]_vars => [Grows]_vars
  <2>1. ASSUME IInv, Next  PROVE Grows
    <3>1. fence \in Nat
      BY Zenon, <2>1 DEF IInv, BookOK
    <3>2. fence' = fence \/ fence' = fence + 1
      BY Zenon, <2>1, FenceMoves
    <3>3. fence' >= fence /\ fence + 1 > fence
      BY <3>1, <3>2
    <3>4. QED  BY Zenon, <2>1, <3>3, ClaimMoves
  <2>2. QED  BY Zenon, <2>1
<1>2. QED  BY <1>1, IInvHolds, PTL DEF Spec, FenceGrows
=============================================================================
