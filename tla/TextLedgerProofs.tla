-------------------------- MODULE TextLedgerProofs --------------------------
(***************************************************************************)
(* The ledger of one radio run keeps its texts: the invariant Ledger of a  *)
(* run's record, and that every operation of TextLedger keeps it and       *)
(* answers each text it stops holding. The phone, the attempts in flight   *)
(* and the slips are those of TextAttempts.                                *)
(***************************************************************************)
EXTENDS TextAttempts, WellFoundedInduction, TLAPS

--------------------------------------------------------------------------
(* Queues                                                                  *)

\* What holds of 0 and passes from each number to the next holds up to n.
LEMMA Induct ==
    ASSUME NEW n \in Nat, NEW T, 0 \in T, \A i \in 1..n : i - 1 \in T => i \in T
    PROVE  \A i \in 0..n : i \in T
<1> DEFINE bad == {i \in Nat : i \in 0..n /\ i \notin T}
<1> SUFFICES ASSUME bad # {} PROVE FALSE
  OBVIOUS
<1>1. PICK m \in bad : \A i \in bad : ~(i < m)
  <2> bad \subseteq Nat
    BY Zenon
  <2>1. PICK m \in bad : \A y \in bad : ~ (<<y, m>> \in OpToRel(<, Nat))
    BY NatLessThanWellFounded, WFMin, Zenon
  <2> QED BY Zenon, <2>1 DEF OpToRel
<1>2. m # 0 /\ m \in 1..n
  OBVIOUS
<1>3. m - 1 \notin bad
  BY <1>1, <1>2
<1> QED BY <1>2, <1>3

\* f is g's steps from b, one after the other.
IsFold(f, n, g, b) == f = [i \in 0..n |-> IF i = 0 THEN b ELSE g[i][f[i - 1]]]

\* The pass over a queue that LinkDown, SwitchPhone, Expire and LastWords write
\* as a recursive function exists: n steps, each defined on what the one before
\* leaves.
LEMMA Fold ==
    ASSUME NEW n \in Nat, NEW S, NEW g, NEW b \in S[0],
           \A i \in 1..n : \A x \in S[i - 1] : g[i][x] \in S[i]
    PROVE  \E f : IsFold(f, n, g, b)
<1> DEFINE F(f, m) == f = [i \in 0..m |-> IF i = 0 THEN b ELSE g[i][f[i - 1]]]
           T == {m \in 0..n : \E f : F(f, m)}
<1>1. 0 \in T
  <2> DEFINE f == [i \in 0..0 |-> b]
  <2>1. F(f, 0)
    OBVIOUS
  <2> HIDE DEF F, f
  <2>2. 0 \in 0..n
    OBVIOUS
  <2> QED BY Zenon, <2>1, <2>2
<1>2. ASSUME NEW m \in 1..n, m - 1 \in T PROVE m \in T
  <2>1. PICK f : F(f, m - 1)
    BY Zenon, <1>2
  <2> DEFINE h == [i \in 0..m |-> IF i = m THEN g[m][f[m - 1]] ELSE f[i]]
  <2>2. \A i \in 0..(m - 1) : h[i] = f[i]
    OBVIOUS
  <2>3. \A i \in 0..(m - 1) : f[i] = IF i = 0 THEN b ELSE g[i][f[i - 1]]
    BY Zenon, <2>1
  <2>4. \A i \in 0..m : h[i] = IF i = 0 THEN b ELSE g[i][h[i - 1]]
    BY <2>2, <2>3
  <2>5. F(h, m)
    BY Zenon, <2>4
  <2> HIDE DEF F, h
  <2>6. m \in 0..n
    OBVIOUS
  <2> QED BY Zenon, <2>5, <2>6
<1>3. \A i \in 0..n : i \in T
  <2> HIDE DEF T
  <2>1. \A m \in 1..n : m - 1 \in T => m \in T
    BY Zenon, <1>2
  <2> QED BY <1>1, <2>1, Induct, Zenon
<1>4. n \in T
  <2> HIDE DEF T
  <2> QED BY <1>3
<1> QED BY <1>4, Zenon DEF IsFold

\* A loop over a queue (the drain loops of run_runtime): when each step leads
\* from S[i - 1] to S[i], the pass is in S[i] after i steps.
LEMMA Passes ==
    ASSUME NEW n \in Nat, NEW S, NEW g, NEW b \in S[0],
           \A i \in 1..n : \A x \in S[i - 1] : g[i][x] \in S[i]
    PROVE  /\ \A h : /\ h[0] = b
                     /\ \A i \in 1..n : h[i - 1] \in S[i - 1] => h[i] = g[i][h[i - 1]]
                     => \A i \in 0..n : h[i] \in S[i]
           /\ \E f : /\ IsFold(f, n, g, b)
                     /\ \A i \in 0..n : f[i] \in S[i]
<1>1. ASSUME NEW h, h[0] = b,
             \A i \in 1..n : h[i - 1] \in S[i - 1] => h[i] = g[i][h[i - 1]]
      PROVE  \A i \in 0..n : h[i] \in S[i]
  <2> DEFINE T == {i \in 0..n : h[i] \in S[i]}
  <2>1. 0 \in T
    BY <1>1
  <2>2. \A i \in 1..n : i - 1 \in T => i \in T
    BY <1>1
  <2>3. \A i \in 0..n : i \in T
    <3> HIDE DEF T
    <3> QED BY <2>1, <2>2, Induct, Zenon
  <2> QED BY Zenon, <2>3
<1>2. PICK f : IsFold(f, n, g, b)
  BY Fold, Zenon
<1>3. f[0] = b /\ \A i \in 1..n : f[i] = g[i][f[i - 1]]
  BY <1>2 DEF IsFold
<1>4. \A i \in 0..n : f[i] \in S[i]
  BY Zenon, <1>1, <1>3
<1>5. \E h : /\ IsFold(h, n, g, b)
             /\ \A i \in 0..n : h[i] \in S[i]
  BY <1>2, <1>4, Zenon
<1> QED BY <1>1, <1>5, Zenon

(* Sequences of things with an id *)

\* push_back: the entries of a queue with one more, and that they stay of
\* different texts.
LEMMA AppendIds ==
    ASSUME NEW S, NEW q \in Seq(S), NEW x \in S
    PROVE  /\ Append(q, x) \in Seq(S)
           /\ Range(Append(q, x)) = Range(q) \cup {x}
           /\ Sole(q) /\ ~In(q, x.id) => Sole(Append(q, x))
<1> DEFINE p == Append(q, x)
<1>1. p \in Seq(S) /\ Len(p) = Len(q) + 1 /\ DOMAIN p = 1..(Len(q) + 1) /\ DOMAIN q = 1..Len(q)
  OBVIOUS
<1>2. \A i \in DOMAIN q : p[i] = q[i]
  OBVIOUS
<1>3. p[Len(q) + 1] = x
  OBVIOUS
<1> HIDE DEF p
<1>4. Range(p) = Range(q) \cup {x}
  BY <1>1, <1>2, <1>3 DEF Range
<1>5. ASSUME Sole(q), ~In(q, x.id) PROVE Sole(p)
  <2>1. \A i \in DOMAIN q : q[i].id # x.id
    BY Zenon, <1>5 DEF In, Range
  <2> QED BY <1>1, <1>2, <1>3, <1>5, <2>1 DEF Sole
<1> QED BY Zenon, <1>1, <1>4, <1>5 DEF p

\* push_front, as AppendIds.
LEMMA ConsIds ==
    ASSUME NEW S, NEW q \in Seq(S), NEW x \in S
    PROVE  /\ << x >> \o q \in Seq(S)
           /\ Range(<< x >> \o q) = Range(q) \cup {x}
           /\ Sole(q) /\ ~In(q, x.id) => Sole(<< x >> \o q)
<1> DEFINE p == << x >> \o q
<1>1. p \in Seq(S) /\ Len(p) = Len(q) + 1 /\ DOMAIN p = 1..(Len(q) + 1) /\ DOMAIN q = 1..Len(q)
  OBVIOUS
<1>2. \A i \in DOMAIN q : p[i + 1] = q[i]
  OBVIOUS
<1>3. p[1] = x
  OBVIOUS
<1> HIDE DEF p
<1>4. Range(p) = Range(q) \cup {x}
  <2>1. \A i \in DOMAIN p : i = 1 \/ (i - 1 \in DOMAIN q /\ p[i] = q[i - 1])
    BY <1>1, <1>2
  <2>2. \A i \in DOMAIN q : i + 1 \in DOMAIN p
    BY <1>1
  <2> QED BY SMTT(30), <1>1, <1>2, <1>3, <2>1, <2>2 DEF Range
<1>5. ASSUME Sole(q), ~In(q, x.id) PROVE Sole(p)
  <2>1. \A i \in DOMAIN q : q[i].id # x.id
    BY Zenon, <1>5 DEF In, Range
  <2>2. \A i \in DOMAIN p : i = 1 \/ (i - 1 \in DOMAIN q /\ p[i] = q[i - 1])
    BY <1>1, <1>2
  <2> QED BY SMTT(30), <1>1, <1>3, <1>5, <2>1, <2>2 DEF Sole
<1> QED BY Zenon, <1>1, <1>4, <1>5 DEF p

\* pop_front: the entries of a queue without its first.
LEMMA TailIds ==
    ASSUME NEW S, NEW q \in Seq(S), q # << >>
    PROVE  /\ Tail(q) \in Seq(S) /\ Head(q) \in S
           /\ Range(q) = Range(Tail(q)) \cup {Head(q)}
           /\ Sole(q) => Sole(Tail(q)) /\ ~In(Tail(q), Head(q).id)
<1> DEFINE p == Tail(q)
<1>1. p \in Seq(S) /\ Len(q) = Len(p) + 1 /\ DOMAIN p = 1..Len(p) /\ DOMAIN q = 1..(Len(p) + 1)
  OBVIOUS
<1>2. \A i \in DOMAIN p : p[i] = q[i + 1]
  OBVIOUS
<1>3. Head(q) = q[1] /\ Head(q) \in S
  OBVIOUS
<1> HIDE DEF p
<1>a. Len(p) \in Nat
  BY <1>1
<1>b. \A i \in DOMAIN p : i + 1 \in DOMAIN q /\ i + 1 # 1
  BY <1>1, <1>a
<1>4. Range(q) = Range(p) \cup {Head(q)}
  <2>1. \A i \in DOMAIN q : i = 1 \/ (i - 1 \in DOMAIN p /\ q[i] = p[i - 1])
    BY <1>1, <1>2, <1>a
  <2>2. 1 \in DOMAIN q
    BY <1>1, <1>a
  <2> QED BY <1>2, <1>3, <1>b, <2>1, <2>2 DEF Range
<1>5. ASSUME Sole(q) PROVE Sole(p) /\ ~In(p, Head(q).id)
  <2>1. Sole(p)
    BY <1>1, <1>2, <1>5, <1>b DEF Sole
  <2>2. 1 \in DOMAIN q
    BY <1>1, <1>a
  <2>3. \A i \in DOMAIN p : p[i].id # Head(q).id
    BY Zenon, <1>2, <1>3, <1>5, <1>b, <2>2 DEF Sole
  <2> QED BY Zenon, <2>1, <2>3 DEF In, Range
<1> QED BY Zenon, <1>1, <1>3, <1>4, <1>5 DEF p

\* The entries of two queues drained one after the other, by their places.
LEMMA ConcatShape ==
    ASSUME NEW S, NEW q \in Seq(S), NEW u \in Seq(S)
    PROVE  /\ q \o u \in Seq(S) /\ Len(q \o u) = Len(q) + Len(u)
           /\ \A i \in 1..(Len(q) + Len(u)) :
                 (q \o u)[i] = IF i <= Len(q) THEN q[i] ELSE u[i - Len(q)]
OBVIOUS

\* The same, as sets; their texts differ when those of the parts do.
LEMMA ConcatIds ==
    ASSUME NEW S, NEW q \in Seq(S), NEW u \in Seq(S)
    PROVE  /\ q \o u \in Seq(S)
           /\ Range(q \o u) = Range(q) \cup Range(u)
           /\ Sole(q) /\ Sole(u) /\ (\A x \in Range(u) : ~In(q, x.id)) => Sole(q \o u)
<1> DEFINE p == q \o u
<1>1. p \in Seq(S) /\ Len(p) = Len(q) + Len(u) /\ DOMAIN p = 1..(Len(q) + Len(u))
      /\ DOMAIN q = 1..Len(q) /\ DOMAIN u = 1..Len(u) /\ Len(q) \in Nat /\ Len(u) \in Nat
  OBVIOUS
<1>2. \A i \in DOMAIN p : p[i] = IF i <= Len(q) THEN q[i] ELSE u[i - Len(q)]
  OBVIOUS
<1> HIDE DEF p
<1>3. \A i \in DOMAIN p : \/ i \in DOMAIN q /\ p[i] = q[i]
                          \/ i - Len(q) \in DOMAIN u /\ i \notin DOMAIN q /\ p[i] = u[i - Len(q)]
  BY <1>1, <1>2
<1>4. \A i \in DOMAIN q : i \in DOMAIN p /\ p[i] = q[i]
  BY <1>1, <1>2
<1>5. \A i \in DOMAIN u : i + Len(q) \in DOMAIN p /\ p[i + Len(q)] = u[i]
  BY <1>1, <1>2
<1>6. Range(p) = Range(q) \cup Range(u)
  BY <1>3, <1>4, <1>5 DEF Range
<1>7. ASSUME Sole(q), Sole(u), \A x \in Range(u) : ~In(q, x.id) PROVE Sole(p)
  <2>1. \A i \in DOMAIN q, j \in DOMAIN u : q[i].id # u[j].id
    BY Zenon, <1>7 DEF In, Range
  <2>2. ASSUME NEW i \in DOMAIN p, NEW j \in DOMAIN p, p[i].id = p[j].id PROVE i = j
    <3>1. CASE i \in DOMAIN q /\ j \in DOMAIN q
      BY Zenon, <1>4, <1>7, <2>2, <3>1 DEF Sole
    <3>2. CASE i \in DOMAIN q /\ j \notin DOMAIN q
      BY Zenon, <1>3, <1>4, <2>1, <2>2, <3>2
    <3>3. CASE i \notin DOMAIN q /\ j \in DOMAIN q
      BY Zenon, <1>3, <1>4, <2>1, <2>2, <3>3
    <3>4. CASE i \notin DOMAIN q /\ j \notin DOMAIN q
      <4>1. i - Len(q) = j - Len(q)
        BY <1>3, <1>7, <2>2, <3>4 DEF Sole
      <4> QED BY <4>1, <1>1
    <3> QED BY Zenon, <3>1, <3>2, <3>3, <3>4
  <2> QED BY Zenon, <2>2 DEF Sole
<1> QED BY Zenon, <1>1, <1>6, <1>7 DEF p

\* take_ready_op's remove: the entries of a queue without its k-th.
LEMMA RemoveIds ==
    ASSUME NEW S, NEW q \in Seq(S), NEW k \in DOMAIN q
    PROVE  /\ Without(q, k) \in Seq(S) /\ q[k] \in S
           /\ Range(q) = Range(Without(q, k)) \cup {q[k]}
           /\ Sole(q) => Sole(Without(q, k)) /\ ~In(Without(q, k), q[k].id)
<1> DEFINE p == Without(q, k)
<1>0. DOMAIN q = 1..Len(q) /\ Len(q) \in Nat /\ k \in 1..Len(q) /\ q[k] \in S
  OBVIOUS
<1>3. p \in Seq(S) /\ DOMAIN p = 1..(Len(q) - 1)
      /\ \A i \in DOMAIN p : p[i] = IF i < k THEN q[i] ELSE q[i + 1]
  <2>1. p \in [1..(Len(q) - 1) -> S]
    BY <1>0 DEF Without
  <2>2. Len(q) - 1 \in Nat
    BY <1>0
  <2>3. p \in Seq(S)
    BY <2>1, <2>2
  <2> QED BY Zenon, <2>1, <2>3 DEF Without
<1> HIDE DEF p
<1>4. \A i \in DOMAIN q : \/ i = k \/ (i < k /\ i \in DOMAIN p /\ p[i] = q[i])
                          \/ (i > k /\ i - 1 \in DOMAIN p /\ p[i - 1] = q[i])
  BY <1>0, <1>3
<1>5. \A i \in DOMAIN p : \E j \in DOMAIN q : j # k /\ p[i] = q[j] /\ j = IF i < k THEN i ELSE i + 1
  BY <1>0, <1>3
<1>6. Range(q) = Range(p) \cup {q[k]}
  BY <1>4, <1>5 DEF Range
<1>7. ASSUME Sole(q) PROVE Sole(p) /\ ~In(p, q[k].id)
  <2>1. Sole(p)
    <3> SUFFICES ASSUME NEW i \in DOMAIN p, NEW j \in DOMAIN p, p[i].id = p[j].id PROVE i = j
      BY Zenon DEF Sole
    <3>1. (IF i < k THEN i ELSE i + 1) = (IF j < k THEN j ELSE j + 1)
      BY Zenon, <1>5, <1>7 DEF Sole
    <3> QED BY <3>1, <1>3, <1>0
  <2>2. \A i \in DOMAIN p : p[i].id # q[k].id
    BY Zenon, <1>5, <1>7 DEF Sole
  <2> QED BY Zenon, <2>1, <2>2 DEF In, Range
<1> QED BY Zenon, <1>0, <1>3, <1>6, <1>7 DEF p

\* A queue whose entries are changed in place keeps its texts.
LEMMA SameIds ==
    ASSUME NEW S, NEW q \in Seq(S), NEW p, DOMAIN p = DOMAIN q,
           p = [i \in DOMAIN q |-> p[i]], \A i \in DOMAIN q : p[i] \in S /\ p[i].id = q[i].id
    PROVE  /\ p \in Seq(S)
           /\ Sole(q) => Sole(p)
           /\ \A t : In(p, t) <=> In(q, t)
<1>1. DOMAIN q = 1..Len(q) /\ Len(q) \in Nat
  OBVIOUS
<1>2. p \in [1..Len(q) -> S]
  BY Zenon, <1>1
<1>3. p \in Seq(S)
  BY <1>1, <1>2
<1> QED BY SMTT(30), <1>3 DEF Sole, In, Range

--------------------------------------------------------------------------
(* The ledger's invariant, and the ways a text is queued and answered      *)

\* op may be put back into the queue of s.
Loose(s, Q, op) ==
    /\ op \in Ops /\ IsOpen(s, op.id)
    /\ \A p \in Carriers(s, Q) : p.id # op.id
    /\ \A o \in s.open : o.id = op.id => Cold(op, o)

\* The entries of a queue of S are in S.
LEMMA RangeType == ASSUME NEW S, NEW q \in Seq(S) PROVE Range(q) \subseteq S
BY DEF Range

\* An operation taken from the rest Q of a queue may be put back.
LEMMA TakenOut ==
    ASSUME NEW s, NEW Q, NEW op, Ledger(s, Q \cup {op}), \A p \in Q : p.id # op.id
    PROVE  Ledger(s, Q) /\ Loose(s, Q, op)
<1>1. Ledger(s, Q)
  <2>1. Carrying(s, Q)
    BY Zenon DEF Ledger, Carrying, Carriers, SoleIn
  <2>2. Phases(s, Q)
    BY Zenon DEF Ledger, Phases
  <2> QED BY Zenon, <2>1, <2>2 DEF Ledger
<1>2. \A p \in Carriers(s, Q) : p.id # op.id
  BY Zenon DEF Ledger, Carrying, Carriers, In
<1>3. op \in Ops /\ IsOpen(s, op.id)
  BY Zenon DEF Ledger, Carrying, Carriers
<1>4. \A o \in s.open : o.id = op.id => Cold(op, o)
  BY Zenon DEF Ledger, Phases
<1> QED BY Zenon, <1>1, <1>2, <1>3, <1>4 DEF Loose

\* push_back and push_front of an operation that may be put back keep the
\* ledger.
LEMMA Enqueued ==
    ASSUME NEW s, NEW Q, NEW op, Ledger(s, Q), Loose(s, Q, op),
           NEW q \in {Append(s.ops, op), << op >> \o s.ops}
    PROVE  Ledger([s EXCEPT !.ops = q], Q) /\ Held([s EXCEPT !.ops = q]) = Held(s)
<1> DEFINE n == [s EXCEPT !.ops = q]
<1>0. s \in Runs /\ s.ops \in Seq(Ops) /\ op \in Ops
  BY Zenon DEF Ledger, Runs, Loose
<1>a. ~In(s.ops, op.id)
  BY Zenon DEF Loose, Carriers, In
<1>b. Sole(s.ops)
  BY Zenon DEF Ledger, Carrying
<1>1. q \in Seq(Ops) /\ Range(q) = Range(s.ops) \cup {op} /\ Sole(q)
  <2>1. CASE q = Append(s.ops, op)
    BY <1>0, <1>a, <1>b, <2>1, AppendIds, ZenonT(30)
  <2>2. CASE q = << op >> \o s.ops
    BY <1>0, <1>a, <1>b, <2>2, ConsIds, ZenonT(30)
  <2> QED BY Zenon, <2>1, <2>2
<1>2. /\ n \in Runs /\ n.open = s.open /\ n.active = s.active /\ n.put = s.put
      /\ n.said = s.said /\ n.answered = s.answered /\ n.ops = q
  BY Zenon, <1>0, <1>1 DEF Runs
<1> HIDE DEF n
<1>3. \A t : IsOpen(n, t) <=> IsOpen(s, t)
  BY Zenon, <1>2 DEF IsOpen
<1>4. Carriers(n, Q) = Carriers(s, Q) \cup {op}
  BY Zenon, <1>1, <1>2 DEF Carriers
<1>5. Carrying(n, Q)
  <2>1. \A t : In(n.ops, t) <=> In(s.ops, t) \/ op.id = t
    BY Zenon, <1>1, <1>2 DEF In
  <2>2. \A p \in Q \cup s.active : p.id # op.id
    BY Zenon DEF Loose, Carriers
  <2>3. \A p \in Carriers(n, Q) : IsOpen(n, p.id)
    BY Zenon, <1>3, <1>4 DEF Ledger, Carrying, Loose
  <2> QED BY Zenon, <1>1, <1>2, <2>1, <2>2, <2>3 DEF Ledger, Carrying
<1>6. Phases(n, Q)
  BY Zenon, <1>1, <1>2 DEF Ledger, Phases, Loose
<1>7. Spoken(n)
  BY Zenon, <1>2, <1>3 DEF Ledger, Spoken
<1>8. Held(n) = Held(s)
  BY Zenon, <1>2, <1>3 DEF Held
<1> QED BY Zenon, <1>2, <1>5, <1>6, <1>7, <1>8 DEF Ledger, n

\* remember_answer keeps the newest answer and some of the older ones.
LEMMA RememberType ==
    ASSUME NEW kept \in Seq(Words), NEW x \in Words
    PROVE  Remember(kept, x) \in Seq(Words) /\ Range(Remember(kept, x)) \subseteq Range(kept) \cup {x}
<1>1. CASE Len(kept) >= TEXT_ANSWERS_KEPT
  <2>1. kept # << >>
    BY <1>1, AttemptConstants
  <2>2. Tail(kept) \in Seq(Words) /\ Range(Tail(kept)) \subseteq Range(kept)
    BY Zenon, <2>1, TailIds
  <2>3. Remember(kept, x) = Append(Tail(kept), x)
    BY Zenon, <1>1 DEF Remember
  <2>4. /\ Append(Tail(kept), x) \in Seq(Words)
        /\ Range(Append(Tail(kept), x)) = Range(Tail(kept)) \cup {x}
    <3> DEFINE p == Tail(kept)
    <3>1. p \in Seq(Words)
      BY Zenon, <2>2
    <3> HIDE DEF p
    <3>2. Append(p, x) \in Seq(Words) /\ Range(Append(p, x)) = Range(p) \cup {x}
      BY <3>1, AppendIds
    <3> QED BY Zenon, <3>2 DEF p
  <2> QED BY Zenon, <2>2, <2>3, <2>4
<1>2. CASE ~(Len(kept) >= TEXT_ANSWERS_KEPT)
  BY <1>2, AppendIds DEF Remember
<1> QED BY Zenon, <1>1, <1>2

\* sent and fail: closing an open text that no operation carries, with an
\* answer that is true, keeps the ledger and answers what it held.
LEMMA Answered ==
    ASSUME NEW s, NEW Q, NEW t \in Texts, NEW a \in Answers, Ledger(s, Q),
           \A p \in Carriers(s, Q) : p.id # t,
           IsOpen(s, t) => Honest(t, a, flight[t])
    PROVE  Ledger(Answer(s, t, a), Q) /\ Held(Answer(s, t, a)) = Held(s)
<1>1. CASE ~IsOpen(s, t)
  BY Zenon, <1>1 DEF Answer
<1>2. CASE IsOpen(s, t)
  <2> DEFINE n == Answer(s, t, a)
             x == [id |-> t, a |-> a]
  <2>0. s \in Runs /\ s.said \in Seq(Words) /\ s.answered \in Seq(Words) /\ x \in Words
        /\ s.open \subseteq OpenTexts
    BY Zenon DEF Ledger, Runs, Words
  <2>1. Remember(s.answered, x) \in Seq(Words)
        /\ Range(Remember(s.answered, x)) \subseteq Range(s.answered) \cup {x}
    BY <2>0, RememberType
  <2>2. ~In(s.said, t)
    BY Zenon, <1>2 DEF Ledger, Spoken, In
  <2>3. Append(s.said, x) \in Seq(Words) /\ Range(Append(s.said, x)) = Range(s.said) \cup {x}
        /\ Sole(Append(s.said, x))
    <3>1. x.id = t /\ Sole(s.said)
      BY Zenon DEF Ledger, Spoken
    <3> HIDE DEF x
    <3> QED BY <2>0, <2>2, <3>1, AppendIds
  <2>4. /\ n \in Runs /\ n.open = {o \in s.open : o.id # t} /\ n.active = s.active /\ n.put = s.put
        /\ n.said = Append(s.said, x) /\ n.answered = Remember(s.answered, x) /\ n.ops = s.ops
    <3>1. n = [s EXCEPT !.said = Append(s.said, x), !.open = {o \in s.open : o.id # t},
                        !.answered = Remember(s.answered, x)]
      BY Zenon, <1>2, <2>0 DEF Answer, Say, Runs
    <3> HIDE DEF n, x
    <3>2. {o \in s.open : o.id # t} \in SUBSET OpenTexts
      BY Zenon, <2>0
    <3> QED BY Zenon, <2>0, <2>1, <2>3, <3>1, <3>2 DEF Runs, Words
  <2>5. x.id = t /\ x.a = a
    BY Zenon
  <2> HIDE DEF n, x
  <2>6. \A u : IsOpen(n, u) <=> IsOpen(s, u) /\ u # t
    BY Zenon, <2>4 DEF IsOpen
  <2>7. Carrying(n, Q)
    BY Zenon, <2>4, <2>6 DEF Ledger, Carrying, Carriers, SoleIn
  <2>8. Phases(n, Q)
    BY Zenon, <2>4 DEF Ledger, Phases
  <2>9. Spoken(n)
    <3>1. flight[t] # NoRequest
      <4>1. PICK o \in s.open : o.id = t
        BY Zenon, <1>2 DEF IsOpen
      <4> QED BY Zenon, <2>0, <4>1, AttemptConstants DEF Ledger, Phases, OpenTexts
    <3>2. \A y \in Range(n.said) : ~IsOpen(n, y.id) /\ flight[y.id] # NoRequest
                                   /\ Honest(y.id, y.a, flight[y.id])
      BY Zenon, <1>2, <2>3, <2>4, <2>5, <2>6, <3>1 DEF Ledger, Spoken
    <3>3. \A y \in Range(n.answered) : y.a = "sent" => phone[y.id].n > 0
      BY Zenon, <1>2, <2>1, <2>4, <2>5 DEF Ledger, Spoken, Honest
    <3> QED BY Zenon, <2>3, <2>4, <3>2, <3>3 DEF Spoken
  <2>10. Held(n) = Held(s)
    BY <1>2, <2>3, <2>4, <2>5, <2>6 DEF Held, In
  <2> QED BY Zenon, <2>4, <2>7, <2>8, <2>9, <2>10 DEF Ledger, n
<1> QED BY Zenon, <1>1, <1>2

\* failed: reporting a text that no operation carries is true, in doubt when
\* its PUT is out.
LEMMA FailedL ==
    ASSUME NEW s, NEW Q, NEW t \in Texts, Ledger(s, Q),
           \A p \in Carriers(s, Q) : p.id # t
    PROVE  Ledger(Failed(s, t), Q) /\ Held(Failed(s, t)) = Held(s)
<1> DEFINE a == IF PutIsOut(s, t) THEN "doubt" ELSE "failed"
<1>1. ASSUME IsOpen(s, t) PROVE Honest(t, a, flight[t])
  <2>1. PICK o \in s.open : o.id = t
    BY Zenon, <1>1 DEF IsOpen
  <2>2. a = "failed" => ~o.out
    BY Zenon, <2>1 DEF PutIsOut
  <2>3. Astray(o.r, t) => o.out
    BY Zenon, <2>1 DEF Ledger, Phases
  <2>4. flight[t] = o.r /\ a # "sent"
    BY Zenon, <2>1 DEF Ledger, Phases
  <2> QED BY Zenon, <2>2, <2>3, <2>4 DEF Honest
<1>2. a \in Answers
  BY Zenon DEF Answers
<1>3. Failed(s, t) = Answer(s, t, a)
  BY Zenon DEF Failed
<1> QED BY <1>1, <1>2, <1>3, Answered

--------------------------------------------------------------------------
(* Marks, the operation in flight                                          *)

\* What an operation of the ledger promises: the invariant, and the same texts.
Sound(s, n, Q) == Ledger(n, Q) /\ Held(n) = Held(s)

\* ... and has the same operation in flight.
Kept(s, n) == Held(n) = Held(s) /\ n.active = s.active

\* The parts of a run's record have their types.
LEMMA Fields ==
    ASSUME NEW s \in Runs
    PROVE  /\ s.open \subseteq OpenTexts /\ s.answered \in Seq(Words) /\ s.said \in Seq(Words)
           /\ s.ops \in Seq(Ops) /\ Range(s.ops) \subseteq Ops /\ s.active \subseteq Ops
           /\ s.put \in PutStates /\ s.quiet \in BOOLEAN
BY Zenon, RangeType DEF Runs, Words

\* The text t may be marked as out (b) or as not taken (~b).
MayMark(s, Q, t, b) ==
    /\ \A p \in Carriers(s, Q) : p.id # t
    /\ b = FALSE => \A o \in s.open : o.id = t => ~Astray(o.r, t)

\* n is s with the text t marked so.
IsMarked(s, n, Q, t, b) ==
    /\ Ledger(n, Q) /\ Kept(s, n)
    /\ \A u : IsOpen(n, u) <=> IsOpen(s, u)
    /\ \A o \in n.open : \E p \in s.open : o.id = p.id /\ o.r = p.r /\ (o.id = t => o.out = b)
    /\ n.ops = s.ops /\ n.put = s.put /\ n.quiet = s.quiet

\* put_went_out and put_not_taken keep the ledger; not_taken only when the
\* phone has no copy that a look could have found.
LEMMA Marked ==
    ASSUME NEW s, NEW Q, NEW t \in Texts, NEW b \in BOOLEAN, Ledger(s, Q), MayMark(s, Q, t, b)
    PROVE  IsMarked(s, MarkPut(s, t, b), Q, t, b)
<1> DEFINE m(o) == IF o.id = t THEN [o EXCEPT !.out = b] ELSE o
           n == MarkPut(s, t, b)
<1>a. \A p \in Carriers(s, Q) : p.id # t
  BY Zenon DEF MayMark
<1>b. b = FALSE => \A o \in s.open : o.id = t => ~Astray(o.r, t)
  BY Zenon DEF MayMark
<1>0. s \in Runs /\ s.open \subseteq OpenTexts
  BY Zenon, Fields DEF Ledger
<1>1. \A o \in OpenTexts : m(o) \in OpenTexts /\ m(o).id = o.id /\ m(o).r = o.r
                           /\ m(o).out = IF o.id = t THEN b ELSE o.out
  BY Zenon DEF OpenTexts
<1>2. n.open = {m(o) : o \in s.open} /\ n \in Runs /\ n.ops = s.ops /\ n.active = s.active
      /\ n.put = s.put /\ n.said = s.said /\ n.answered = s.answered /\ n.quiet = s.quiet
  <2>1. n = [s EXCEPT !.open = {m(o) : o \in s.open}]
    BY Zenon, <1>0 DEF MarkPut, Runs
  <2>2. {m(o) : o \in s.open} \in SUBSET OpenTexts
    BY Zenon, <1>0, <1>1
  <2> HIDE DEF m, n
  <2> QED BY Zenon, <1>0, <2>1, <2>2 DEF Runs
<1> HIDE DEF m, n
<1>4. \A o \in n.open : \E p \in s.open : o = m(p) /\ o.id = p.id /\ o.r = p.r
                                          /\ o.out = IF p.id = t THEN b ELSE p.out
  BY <1>0, <1>1, <1>2
<1>5. \A p \in s.open : m(p) \in n.open /\ m(p).id = p.id
  BY Zenon, <1>0, <1>1, <1>2
<1>6. \A u : IsOpen(n, u) <=> IsOpen(s, u)
  BY <1>4, <1>5 DEF IsOpen
<1>7. Carrying(n, Q)
  <2>1. SoleIn(n.open)
    BY <1>4 DEF Ledger, Carrying, SoleIn
  <2> QED BY Zenon, <2>1, <1>2, <1>6 DEF Ledger, Carrying, Carriers
<1>8. Phases(n, Q)
  <2> SUFFICES ASSUME NEW o \in n.open
               PROVE  /\ Astray(o.r, o.id) => o.out
                      /\ flight[o.id] = o.r
                      /\ \A op \in Range(n.ops) \cup Q : op.id = o.id => Cold(op, o)
                      /\ \A op \in n.active : op.id = o.id => Hot(op, n.put, o)
    BY Zenon DEF Phases
  <2>1. PICK p \in s.open : o = m(p) /\ o.id = p.id /\ o.r = p.r
                            /\ o.out = IF p.id = t THEN b ELSE p.out
    BY Zenon, <1>4
  <2>2. CASE p.id # t
    <3>1. o = p
      BY Zenon, <2>1, <2>2 DEF m
    <3> QED BY Zenon, <3>1, <1>2 DEF Ledger, Phases
  <2>3. CASE p.id = t
    BY <1>a, <1>b, <2>1, <2>3, <1>2 DEF Ledger, Phases, Carriers
  <2> QED BY Zenon, <2>2, <2>3
<1>9. Spoken(n)
  BY Zenon, <1>2, <1>6 DEF Ledger, Spoken
<1>10. Kept(s, n)
  BY Zenon, <1>2, <1>6 DEF Kept, Held
<1> QED BY Zenon, <1>2, <1>4, <1>6, <1>7, <1>8, <1>9, <1>10 DEF Ledger, IsMarked, n

\* n is s with its operation op taken out of flight.
IsRested(s, n, Q, op) ==
    /\ Ledger(n, Q) /\ Held(n) = Held(s) /\ n.active = {} /\ n.open = s.open
    /\ n.put = "none" /\ n.quiet = s.quiet /\ n.ops = s.ops
    /\ op \in Ops /\ IsOpen(n, op.id)
    /\ \A p \in Carriers(n, Q) : p.id # op.id
    /\ \A o \in n.open : o.id = op.id => Hot(op, s.put, o)
    /\ s.active = {op}

\* The operation in flight ends (handle_map_runtime_event): nothing else
\* carries its text.
LEMMA Rested ==
    ASSUME NEW s, NEW Q, NEW op \in s.active, Ledger(s, Q)
    PROVE  IsRested(s, Rest(s), Q, op)
<1> DEFINE n == Rest(s)
<1>0. s \in Runs /\ op \in Ops
  BY Zenon, Fields DEF Ledger
<1>1. n \in Runs /\ n.active = {} /\ n.open = s.open /\ n.put = "none" /\ n.ops = s.ops
      /\ n.said = s.said /\ n.answered = s.answered /\ n.quiet = s.quiet
  BY Zenon, <1>0 DEF Rest, Runs, PutStates
<1> HIDE DEF n
<1>2. \A u : IsOpen(n, u) <=> IsOpen(s, u)
  BY Zenon, <1>1 DEF IsOpen
<1>3. Carriers(n, Q) \subseteq Carriers(s, Q)
  BY Zenon, <1>1 DEF Carriers
<1>4. Carrying(n, Q)
  BY Zenon, <1>1, <1>2, <1>3 DEF Ledger, Carrying, Single
<1>5. Phases(n, Q) /\ Spoken(n)
  BY Zenon, <1>1, <1>2 DEF Ledger, Phases, Spoken
<1>6. Held(n) = Held(s)
  BY Zenon, <1>1, <1>2 DEF Held
<1>7. \A p \in Carriers(n, Q) : p.id # op.id
  BY Zenon, <1>1 DEF Carriers, Ledger, Carrying, In
<1>8. IsOpen(n, op.id)
  BY Zenon, <1>2 DEF Ledger, Carrying, Carriers
<1>9. \A o \in n.open : o.id = op.id => Hot(op, s.put, o)
  BY Zenon, <1>1 DEF Ledger, Phases
<1>10. s.active = {op}
  BY Zenon DEF Ledger, Carrying, Single
<1> QED BY Zenon, <1>0, <1>1, <1>4, <1>5, <1>6, <1>7, <1>8, <1>9, <1>10 DEF Ledger, IsRested, n

\* op goes in flight.
Activate(s, op, put, q) == [s EXCEPT !.active = {op}, !.put = put, !.quiet = q]

\* op may go in flight.
MayRun(s, Q, op, put) ==
    /\ s.active = {} /\ IsOpen(s, op.id) /\ \A p \in Carriers(s, Q) : p.id # op.id
    /\ \A o \in s.open : o.id = op.id => Hot(op, put, o)

\* An operation put in flight, its PUT in the state put, keeps the ledger.
LEMMA Activated ==
    ASSUME NEW s, NEW Q, NEW op \in Ops, NEW put \in PutStates, NEW q \in BOOLEAN, Ledger(s, Q),
           MayRun(s, Q, op, put)
    PROVE  Sound(s, Activate(s, op, put, q), Q)
<1> DEFINE n == Activate(s, op, put, q)
<1>a. /\ s.active = {} /\ IsOpen(s, op.id) /\ \A p \in Carriers(s, Q) : p.id # op.id
      /\ \A o \in s.open : o.id = op.id => Hot(op, put, o)
  BY Zenon DEF MayRun
<1>0. s \in Runs
  BY Zenon DEF Ledger
<1>1. n \in Runs /\ n.active = {op} /\ n.open = s.open /\ n.put = put /\ n.ops = s.ops
      /\ n.said = s.said /\ n.answered = s.answered
  BY Zenon, <1>0 DEF Runs, Activate
<1> HIDE DEF n
<1>2. \A u : IsOpen(n, u) <=> IsOpen(s, u)
  BY Zenon, <1>1 DEF IsOpen
<1>3. Carriers(n, Q) = Carriers(s, Q) \cup {op}
  BY Zenon, <1>a, <1>1 DEF Carriers
<1>4. Carrying(n, Q)
  <2>1. ~In(n.ops, op.id) /\ \A p \in Q : p.id # op.id
    BY Zenon, <1>a, <1>1 DEF Carriers, In
  <2> QED BY Zenon, <1>a, <1>1, <1>2, <1>3, <2>1 DEF Ledger, Carrying, Single
<1>5. Phases(n, Q) /\ Spoken(n)
  BY <1>a, <1>1, <1>2 DEF Ledger, Phases, Spoken
<1>6. Held(n) = Held(s)
  BY Zenon, <1>1, <1>2 DEF Held
<1> QED BY Zenon, <1>1, <1>4, <1>5, <1>6 DEF Ledger, Sound, n

\* The phone's quiet time begins or ends.
LEMMA Quieted ==
    ASSUME NEW s, NEW Q, NEW b \in BOOLEAN, Ledger(s, Q)
    PROVE  LET n == [s EXCEPT !.quiet = b] IN Ledger(n, Q) /\ Kept(s, n) /\ n.open = s.open
                                              /\ n.ops = s.ops
<1> DEFINE n == [s EXCEPT !.quiet = b]
<1>0. s \in Runs
  BY Zenon DEF Ledger
<1>1. n \in Runs /\ n.active = s.active /\ n.open = s.open /\ n.put = s.put /\ n.ops = s.ops
      /\ n.said = s.said /\ n.answered = s.answered
  BY Zenon, <1>0 DEF Runs
<1> HIDE DEF n
<1>2. \A u : IsOpen(n, u) <=> IsOpen(s, u)
  BY Zenon, <1>1 DEF IsOpen
<1>3. Carrying(n, Q) /\ Phases(n, Q) /\ Spoken(n) /\ Held(n) = Held(s)
  BY Zenon, <1>1, <1>2 DEF Ledger, Carrying, Carriers, Phases, Spoken, Held
<1> QED BY Zenon, <1>1, <1>3 DEF Ledger, Kept, n

\* p may wait where op may: the same text, a send or a snapshot boxing it.
Alike(op, p) == p \in Ops /\ p.id = op.id /\ (p.k = op.k \/ {p.k, op.k} \subseteq {"send", "snapshot"})

\* mark_tried and the boxing of a send change nothing that the ledger asks of
\* it.
LEMMA LooseAlike ==
    ASSUME NEW s, NEW Q, NEW op, NEW p, Loose(s, Q, op), Alike(op, p)
    PROVE  Loose(s, Q, p)
BY Zenon DEF Loose, Alike, Cold

\* n keeps the ledger and the operation in flight.
Good(s, n, Q) == Ledger(n, Q) /\ Kept(s, n)

\* Enqueued, the operation in flight kept.
LEMMA EnqueuedK ==
    ASSUME NEW s, NEW Q, NEW op, Ledger(s, Q), Loose(s, Q, op), NEW n,
           \/ n = [s EXCEPT !.ops = Append(s.ops, op)]
           \/ n = [s EXCEPT !.ops = << op >> \o s.ops]
    PROVE  Good(s, n, Q)
<1>0. s \in Runs
  BY Zenon DEF Ledger
<1>1. n.active = s.active
  BY Zenon, <1>0 DEF Runs
<1>2. Ledger(n, Q) /\ Held(n) = Held(s)
  <2>1. CASE n = [s EXCEPT !.ops = Append(s.ops, op)]
    <3> DEFINE q == Append(s.ops, op)
    <3>1. Ledger([s EXCEPT !.ops = q], Q) /\ Held([s EXCEPT !.ops = q]) = Held(s)
      BY Enqueued, Zenon
    <3> QED BY Zenon, <2>1, <3>1
  <2>2. CASE n = [s EXCEPT !.ops = << op >> \o s.ops]
    <3> DEFINE q == << op >> \o s.ops
    <3>1. Ledger([s EXCEPT !.ops = q], Q) /\ Held([s EXCEPT !.ops = q]) = Held(s)
      BY Enqueued, Zenon
    <3> QED BY Zenon, <2>2, <3>1
  <2> QED BY Zenon, <2>1, <2>2
<1> QED BY Zenon, <1>1, <1>2 DEF Kept, Good

\* Answered, the operation in flight kept.
LEMMA AnsweredK ==
    ASSUME NEW s, NEW Q, NEW t \in Texts, NEW a \in Answers, Ledger(s, Q),
           \A p \in Carriers(s, Q) : p.id # t,
           IsOpen(s, t) => Honest(t, a, flight[t])
    PROVE  Ledger(Answer(s, t, a), Q) /\ Kept(s, Answer(s, t, a))
<1>1. s \in Runs
  BY Zenon DEF Ledger
<1>2. Answer(s, t, a).active = s.active
  BY Zenon, <1>1 DEF Answer, Say, Runs
<1> QED BY Zenon, <1>2, Answered DEF Kept

\* FailedL, the operation in flight kept.
LEMMA FailedK ==
    ASSUME NEW s, NEW Q, NEW t \in Texts, Ledger(s, Q),
           \A p \in Carriers(s, Q) : p.id # t
    PROVE  Ledger(Failed(s, t), Q) /\ Kept(s, Failed(s, t))
<1>1. s \in Runs
  BY Zenon DEF Ledger
<1>2. Failed(s, t).active = s.active
  BY Zenon, <1>1 DEF Failed, Answer, Say, Runs
<1> QED BY Zenon, <1>2, FailedL DEF Kept

--------------------------------------------------------------------------
(* requeue_or_report                                                       *)

\* requeue_or_report of an operation whose PUT did not go out: requeued or
\* reported, its text is kept.
LEMMA Requeued ==
    ASSUME NEW s, NEW Q, NEW op, Ledger(s, Q), Loose(s, Q, op),
           NEW stop \in {"not_started", "not_delivered", "in_flight"},
           op.k = "send" => stop # "in_flight"
    PROVE  Good(s, requeue_or_report(s, op, stop, "lost"), Q)
<1>0. op \in Ops /\ IsOpen(s, op.id) /\ op.id \in Texts /\ \A p \in Carriers(s, Q) : p.id # op.id
  BY Zenon DEF Loose, Ops
<1>1. Good(s, Failed(s, op.id), Q)
  BY Zenon, <1>0, FailedK DEF Good
<1>2. ASSUME NEW p, Alike(op, p) PROVE Good(s, [s EXCEPT !.ops = Append(s.ops, p)], Q)
  BY Zenon, <1>2, LooseAlike, EnqueuedK
<1>3. ASSUME NEW p, Alike(op, p), NEW x \in {"not_started", "not_delivered"}
      PROVE  Good(s, RequeueSend(s, p, x, "lost"), Q)
  <2>1. p.id = op.id /\ p \in Ops
    BY Zenon, <1>3 DEF Alike
  <2> DEFINE again == [p EXCEPT !.wait = IF x = "not_started" THEN @ ELSE TRUE]
  <2>2. Alike(op, again)
    BY Zenon, <1>0, <1>3 DEF Alike, Ops
  <2>3. RequeueSend(s, p, x, "lost") \in {Failed(s, op.id), [s EXCEPT !.ops = Append(s.ops, again)]}
    BY Zenon, <1>0, <2>1 DEF RequeueSend
  <2> HIDE DEF again
  <2> QED BY Zenon, <1>1, <1>2, <2>2, <2>3
<1>4. CASE op.k = "send"
  <2>1. Alike(op, op)
    BY Zenon, <1>0 DEF Alike
  <2>2. requeue_or_report(s, op, stop, "lost") = RequeueSend(s, op, stop, "lost")
    BY Zenon, <1>4 DEF requeue_or_report
  <2> QED BY Zenon, <1>3, <1>4, <2>1, <2>2
<1>5. CASE op.k = "snapshot"
  <2> DEFINE p == [op EXCEPT !.k = "send", !.before = IF stop = "not_started" THEN @ ELSE "none"]
  <2>1. Alike(op, p)
    BY Zenon, <1>0, <1>5 DEF Alike, Ops, OpKinds, Snapshots
  <2>2. requeue_or_report(s, op, stop, "lost") = RequeueSend(s, p, "not_started", "lost")
    BY Zenon, <1>5 DEF requeue_or_report, RequeueSnapshot
  <2> HIDE DEF p
  <2> QED BY Zenon, <1>3, <2>1, <2>2
<1>6. CASE op.k \notin {"send", "snapshot"}
  <2> DEFINE again == [op EXCEPT !.wait = IF stop = "not_started" THEN @ ELSE TRUE]
  <2>1. Alike(op, again)
    BY Zenon, <1>0 DEF Alike, Ops
  <2>2. requeue_or_report(s, op, stop, "lost") \in {Failed(s, op.id), [s EXCEPT !.ops = Append(s.ops, again)]}
    BY Zenon, <1>0, <1>6 DEF requeue_or_report, RequeueLook
  <2> HIDE DEF again
  <2> QED BY Zenon, <1>1, <1>2, <2>1, <2>2
<1> QED BY Zenon, <1>4, <1>5, <1>6

\* Two operations of the ledger, one after the other.
LEMMA KeptTwice ==
    ASSUME NEW s, NEW m, NEW n, NEW Q, Kept(s, m), Good(m, n, Q)
    PROVE  Good(s, n, Q)
BY Zenon DEF Kept, Good

\* requeue_or_report of the operation in flight: a PUT that may have arrived is
\* requeued as a look, one that the phone refused is failed for certain, and
\* the text is kept or answered in every case.
LEMMA Stopped ==
    ASSUME NEW s, NEW Q, NEW op \in s.active, Ledger(s, Q), NEW why \in {"lost", "refused", "error"},
           why = "refused" => s.put = "refused",
           why = "error" => s.put = "erred"
    PROVE  LET n == Stop(s, op, why) IN Ledger(n, Q) /\ Held(n) = Held(s) /\ n.active = {}
<1> DEFINE m == Rest(s)
<1>0. s \in Runs
  BY Zenon DEF Ledger
<1>1. /\ Ledger(m, Q) /\ Held(m) = Held(s) /\ m.active = {} /\ m.open = s.open
      /\ op \in Ops /\ IsOpen(m, op.id)
      /\ \A p \in Carriers(m, Q) : p.id # op.id
      /\ \A o \in m.open : o.id = op.id => Hot(op, s.put, o)
  BY Zenon, Rested DEF IsRested
<1>2. Stop(s, op, why) = requeue_or_report(m, op, "in_flight", why)
  BY Zenon, <1>0 DEF Stop, Rest
<1> HIDE DEF m
<1> SUFFICES Good(m, requeue_or_report(m, op, "in_flight", why), Q)
  BY Zenon, <1>1, <1>2 DEF Good, Kept
<1>3. op.id \in Texts
  BY Zenon, <1>1 DEF Ops
<1>4. CASE op.k # "send"
  <2>1. s.put = "none" /\ why = "lost"
    <3>1. PICK o \in m.open : o.id = op.id
      BY Zenon, <1>1 DEF IsOpen
    <3> QED BY Zenon, <1>1, <1>4, <3>1 DEF Hot
  <2>2. Loose(m, Q, op)
    BY Zenon, <1>1, <2>1 DEF Loose, Hot
  <2> QED BY Zenon, <1>1, <1>4, <2>1, <2>2, Requeued
<1>5. CASE op.k = "send" /\ why = "refused"
  <2>1. Honest(op.id, "failed", flight[op.id])
    <3>1. PICK o \in m.open : o.id = op.id
      BY Zenon, <1>1 DEF IsOpen
    <3>2. ~Astray(o.r, o.id)
      BY Zenon, <1>1, <1>5, <3>1 DEF Hot
    <3>3. flight[o.id] = o.r
      BY Zenon, <1>1 DEF Ledger, Phases
    <3> QED BY Zenon, <3>1, <3>2, <3>3 DEF Honest
  <2>2. requeue_or_report(m, op, "in_flight", why) = Answer(m, op.id, "failed")
    BY Zenon, <1>1, <1>5 DEF requeue_or_report, RequeueSend
  <2> QED BY Zenon, <1>1, <1>3, <2>1, <2>2, AnsweredK DEF Good, Answers
<1>6. CASE op.k = "send" /\ why # "refused"
  <2> DEFINE b == why = "lost"
             p == MarkPut(m, op.id, b)
             again == [op EXCEPT !.wait = TRUE]
             next == IF b THEN [again EXCEPT !.k = "look_sent"] ELSE again
  <2>1. \A o \in m.open : o.id = op.id /\ Astray(o.r, o.id) => b /\ phone[o.id].now # "none"
    BY Zenon, <1>1, <1>6, Fields, <1>0 DEF Hot, Cold, PutStates
  <2>2. /\ Ledger(p, Q) /\ Kept(m, p) /\ IsOpen(p, op.id)
        /\ \A o \in p.open : \E x \in m.open : o.id = x.id /\ o.r = x.r
        /\ p.ops = m.ops
    <3>1. b \in BOOLEAN /\ MayMark(m, Q, op.id, b)
      BY Zenon, <1>1, <2>1 DEF MayMark
    <3> HIDE DEF b
    <3>2. IsMarked(m, p, Q, op.id, b)
      BY <1>1, <1>3, <3>1, Marked, Zenon
    <3> HIDE DEF p
    <3> QED BY Zenon, <1>1, <3>2 DEF IsMarked
  <2>3. \A x \in Carriers(p, Q) : x.id # op.id
    BY Zenon, <1>1, <2>2 DEF Carriers, Kept
  <2>4. next \in Ops /\ next.id = op.id /\ (b => next.k = "look_sent")
    BY Zenon, <1>1, <1>6 DEF Ops, OpKinds
  <2>5. Loose(p, Q, next)
    <3>1. \A o \in p.open : o.id = next.id => Cold(next, o)
      <4> HIDE DEF next, p, b
      <4> QED BY Zenon, <2>1, <2>2, <2>4 DEF Cold
    <3> HIDE DEF next, p
    <3> QED BY Zenon, <2>2, <2>3, <2>4, <3>1 DEF Loose
  <2>6. requeue_or_report(m, op, "in_flight", why) \in
            {Failed(p, op.id), [p EXCEPT !.ops = Append(p.ops, next)]}
    BY Zenon, <1>1, <1>6 DEF requeue_or_report, RequeueSend, put_went_out, put_not_taken
  <2> HIDE DEF next, p, b
  <2>7. Good(p, Failed(p, op.id), Q)
    BY Zenon, <1>3, <2>2, <2>3, FailedK DEF Good
  <2>8. Good(p, [p EXCEPT !.ops = Append(p.ops, next)], Q)
    BY Zenon, <2>2, <2>5, EnqueuedK
  <2> QED BY Zenon, <2>2, <2>6, <2>7, <2>8, KeptTwice
<1> QED BY Zenon, <1>4, <1>5, <1>6

--------------------------------------------------------------------------
(* Operations start and complete                                           *)

\* take_ready_op: the operation taken may be put back.
LEMMA Dequeued ==
    ASSUME NEW s, NEW Q, NEW i \in DOMAIN s.ops, Ledger(s, Q)
    PROVE  LET n == [s EXCEPT !.ops = Without(s.ops, i)] IN
           /\ Ledger(n, Q) /\ Kept(s, n) /\ Loose(n, Q, s.ops[i])
           /\ n.ops = Without(s.ops, i) /\ n.put = s.put /\ n.quiet = s.quiet
<1> DEFINE q == Without(s.ops, i)
           n == [s EXCEPT !.ops = q]
           op == s.ops[i]
<1>0. s \in Runs /\ s.ops \in Seq(Ops) /\ Sole(s.ops)
  BY Zenon, Fields DEF Ledger, Carrying
<1>1. q \in Seq(Ops) /\ op \in Ops /\ Range(s.ops) = Range(q) \cup {op} /\ Sole(q) /\ ~In(q, op.id)
  BY Zenon, <1>0, RemoveIds
<1> HIDE DEF q
<1>2. n \in Runs /\ n.active = s.active /\ n.open = s.open /\ n.put = s.put /\ n.ops = q
      /\ n.said = s.said /\ n.answered = s.answered /\ n.quiet = s.quiet
  BY Zenon, <1>0, <1>1 DEF Runs
<1> HIDE DEF n, op
<1>3. \A u : IsOpen(n, u) <=> IsOpen(s, u)
  BY Zenon, <1>2 DEF IsOpen
<1>4. \A u : In(n.ops, u) => In(s.ops, u)
  BY Zenon, <1>1, <1>2 DEF In
<1>5. Carriers(n, Q) \subseteq Carriers(s, Q)
  BY Zenon, <1>1, <1>2 DEF Carriers
<1>6. Carrying(n, Q)
  BY Zenon, <1>1, <1>2, <1>3, <1>4, <1>5 DEF Ledger, Carrying
<1>7. Phases(n, Q) /\ Spoken(n)
  BY Zenon, <1>1, <1>2, <1>3 DEF Ledger, Phases, Spoken
<1>8. Kept(s, n)
  BY Zenon, <1>2, <1>3 DEF Held, Kept
<1>9. Loose(n, Q, op)
  <2>1. \A p \in Carriers(n, Q) : p.id # op.id
    BY Zenon, <1>1, <1>2 DEF Carriers, In, Ledger, Carrying
  <2>2. IsOpen(n, op.id)
    BY Zenon, <1>1, <1>3 DEF Ledger, Carrying, Carriers
  <2>3. \A o \in n.open : o.id = op.id => Cold(op, o)
    BY Zenon, <1>1, <1>2 DEF Ledger, Phases
  <2> QED BY Zenon, <1>1, <2>1, <2>2, <2>3 DEF Loose
<1> QED BY Zenon, <1>2, <1>6, <1>7, <1>8, <1>9 DEF Ledger, n, op, q

\* mark_tried leaves an operation of the same text.
LEMMA MarkTried ==
    ASSUME NEW s, NEW op \in Ops
    PROVE  Alike(op, mark_tried(s, op))
<1>1. CASE op.k # "send"
  BY Zenon, <1>1 DEF mark_tried, Alike
<1>2. CASE op.k = "send" /\ op.before = "not" /\ ~s.quiet
  BY Zenon, <1>2 DEF mark_tried, Alike, Ops, OpKinds
<1>3. CASE op.k = "send" /\ ~(op.before = "not" /\ ~s.quiet)
  <2>1. mark_tried(s, op) = [op EXCEPT !.before = IF op.before = "not" THEN "none" ELSE op.before,
                                       !.tried = TRUE, !.old = op.tried /\ op.old]
    BY Zenon, <1>3 DEF mark_tried, Ops
  <2> QED BY Zenon, <2>1 DEF Alike, Ops, Snapshots
<1> QED BY Zenon, <1>1, <1>2, <1>3

\* drive_map_runtime: starting an operation, or failing to, keeps the ledger.
LEMMA StartL ==
    ASSUME NEW s, NEW i \in DOMAIN s.ops, Ledger(s, {}), s.active = {}
    PROVE  /\ Sound(s, Start(s, i), {})
           /\ Sound(s, StartFails(s, i), {})
           /\ Sound(s, FeedFails(s, i), {})
<1> DEFINE m == [s EXCEPT !.ops = Without(s.ops, i)]
           op == Taken(s, i)
<1>0. s \in Runs /\ s.put = "none" /\ s.quiet \in BOOLEAN
  BY Zenon, Fields DEF Ledger, Carrying
<1>1. Ledger(m, {}) /\ Kept(s, m) /\ Loose(m, {}, s.ops[i])
      /\ m.ops = Without(s.ops, i) /\ m.put = s.put /\ m.quiet = s.quiet
  BY Dequeued
<1>2. Loose(m, {}, op)
  <2>1. s.ops[i] \in Ops
    BY Zenon, <1>1 DEF Loose
  <2>2. Alike(s.ops[i], op)
    BY Zenon, <2>1, MarkTried DEF Taken
  <2> HIDE DEF m, op
  <2> QED BY Zenon, <1>1, <2>2, LooseAlike
<1>3. /\ Start(s, i) = Activate(m, op, "none", m.quiet)
      /\ StartFails(s, i) = requeue_or_report(m, op, "not_delivered", "lost")
      /\ FeedFails(s, i) = [m EXCEPT !.ops = << op >> \o m.ops]
  BY Zenon, <1>0, <1>1 DEF Start, StartFails, FeedFails, Activate, Runs
<1> HIDE DEF m, op
<1>4. Sound(s, Start(s, i), {})
  <2>1. op \in Ops /\ IsOpen(m, op.id) /\ (\A p \in Carriers(m, {}) : p.id # op.id)
        /\ \A o \in m.open : o.id = op.id => Hot(op, "none", o)
    BY Zenon, <1>2 DEF Loose, Hot
  <2>2. m.active = {} /\ m.quiet \in BOOLEAN
    BY Zenon, <1>0, <1>1 DEF Kept
  <2>3. "none" \in PutStates
    BY Zenon DEF PutStates
  <2>4. MayRun(m, {}, op, "none")
    BY Zenon, <2>1, <2>2 DEF MayRun
  <2>5. Sound(m, Activate(m, op, "none", m.quiet), {})
    BY <1>1, <2>1, <2>2, <2>3, <2>4, Activated, Zenon
  <2> QED BY Zenon, <1>1, <1>3, <2>5 DEF Sound, Kept
<1>5. Sound(s, StartFails(s, i), {})
  BY <1>1, <1>2, <1>3, Requeued DEF Sound, Good, Kept
<1>6. Sound(s, FeedFails(s, i), {})
  <2> DEFINE n == FeedFails(s, i)
  <2>1. n = [m EXCEPT !.ops = << op >> \o m.ops]
    BY Zenon, <1>3
  <2> HIDE DEF n
  <2>2. Good(m, n, {})
    BY <1>1, <1>2, <2>1, EnqueuedK, Zenon
  <2> QED BY Zenon, <1>1, <2>2 DEF Sound, Good, Kept, n
<1> QED BY Zenon, <1>4, <1>5, <1>6

\* note_put_out: the text is in doubt before the phone can have it.
LEMMA PutOutL ==
    ASSUME NEW s, NEW op \in s.active, Ledger(s, {}), op.k = "send", s.put = "none"
    PROVE  Sound(s, PutOut(s, op), {})
<1> DEFINE m == Rest(s)
           p == MarkPut(m, op.id, TRUE)
<1>0. s \in Runs
  BY Zenon DEF Ledger
<1>1. /\ Ledger(m, {}) /\ Held(m) = Held(s) /\ m.active = {} /\ m.open = s.open /\ m.put = "none"
      /\ op \in Ops /\ IsOpen(m, op.id) /\ s.active = {op} /\ m.ops = s.ops
      /\ \A x \in Carriers(m, {}) : x.id # op.id
      /\ \A o \in m.open : o.id = op.id => Hot(op, s.put, o)
  <2>1. IsRested(s, m, {}, op)
    BY Rested, Zenon
  <2> HIDE DEF m
  <2> QED BY Zenon, <2>1 DEF IsRested
<1>2. op.id \in Texts
  BY Zenon, <1>1 DEF Ops
<1>3. /\ Ledger(p, {}) /\ Kept(m, p) /\ IsOpen(p, op.id)
      /\ \A o \in p.open : \E x \in m.open : o.id = x.id /\ o.r = x.r /\ (o.id = op.id => o.out = TRUE)
      /\ p.ops = m.ops
  <2>1. MayMark(m, {}, op.id, TRUE)
    BY Zenon, <1>1 DEF MayMark
  <2> HIDE DEF m
  <2>2. IsMarked(m, p, {}, op.id, TRUE)
    BY <1>1, <1>2, <2>1, Marked, Zenon
  <2> HIDE DEF p
  <2> QED BY Zenon, <1>1, <2>2 DEF IsMarked
<1>4. PutOut(s, op) = Activate(p, op, "out", TRUE)
  <2>1. s.active = {op}
    BY Zenon, <1>1
  <2> QED BY Zenon, <1>0, <2>1 DEF PutOut, put_went_out, MarkPut, Rest, Activate, Runs
<1> HIDE DEF m, p
<1>5. \A o \in p.open : o.id = op.id => Hot(op, "out", o)
  BY <1>1, <1>3 DEF Hot, Cold
<1>6. p.active = {} /\ \A x \in Carriers(p, {}) : x.id # op.id
  BY Zenon, <1>1, <1>3 DEF Kept, Carriers
<1>7. "out" \in PutStates
  BY Zenon DEF PutStates
<1>8. MayRun(p, {}, op, "out")
  BY Zenon, <1>3, <1>5, <1>6 DEF MayRun
<1>9. Sound(p, Activate(p, op, "out", TRUE), {})
  BY <1>1, <1>3, <1>7, <1>8, Activated, Zenon
<1> QED BY Zenon, <1>1, <1>3, <1>4, <1>9 DEF Sound, Kept

\* An operation whose PUT did not go out may be put back.
LEMMA RestedLoose ==
    ASSUME NEW s, NEW op \in s.active, Ledger(s, {}), s.put = "none"
    PROVE  Loose(Rest(s), {}, op)
BY Zenon, Rested DEF IsRested, Loose, Hot

\* An acknowledged PUT answers sent, of a text the phone took.
LEMMA PutDoneL ==
    ASSUME NEW s, NEW op \in s.active, Ledger(s, {}), phone[op.id].n > 0
    PROVE  Sound(s, PutDone(s, op), {})
<1> DEFINE m == Rest(s)
           n == [m EXCEPT !.quiet = TRUE]
<1>1. /\ Ledger(m, {}) /\ Held(m) = Held(s) /\ op \in Ops
      /\ \A x \in Carriers(m, {}) : x.id # op.id
  BY Zenon, Rested DEF IsRested
<1>2. Ledger(n, {}) /\ Kept(m, n) /\ n.ops = m.ops
  <2> HIDE DEF m
  <2> QED BY Zenon, <1>1, Quieted
<1>3. PutDone(s, op) = Answer(n, op.id, "sent")
  BY Zenon DEF PutDone
<1> HIDE DEF m, n
<1>4. \A x \in Carriers(n, {}) : x.id # op.id
  BY Zenon, <1>1, <1>2 DEF Carriers, Kept
<1>5. op.id \in Texts /\ Honest(op.id, "sent", flight[op.id]) /\ "sent" \in Answers
  BY Zenon, <1>1 DEF Ops, Honest, Answers
<1> QED BY Zenon, <1>1, <1>2, <1>3, <1>4, <1>5, AnsweredK DEF Sound, Kept

\* The sent folder listed, or not to be had, the send is next.
LEMMA SnapshotDoneL ==
    ASSUME NEW s, NEW op \in s.active, Ledger(s, {}), op.k = "snapshot",
           NEW before \in Snapshots
    PROVE  Sound(s, SnapshotDone(s, op, before), {})
<1> DEFINE m == Rest(s)
           p == [op EXCEPT !.k = "send", !.before = before]
<1>1. /\ Ledger(m, {}) /\ Held(m) = Held(s) /\ op \in Ops /\ m.open = s.open
      /\ IsOpen(m, op.id) /\ \A o \in m.open : o.id = op.id => Hot(op, s.put, o)
  BY Zenon, Rested DEF IsRested
<1>2. s.put = "none"
  BY Zenon, <1>1 DEF Hot, IsOpen
<1>3. Loose(m, {}, op)
  BY Zenon, <1>2, RestedLoose
<1>4. Alike(op, p)
  BY Zenon, <1>1 DEF Alike, Ops, OpKinds
<1>5. SnapshotDone(s, op, before) = [m EXCEPT !.ops = << p >> \o m.ops]
  <2>1. IsOpen(s, op.id)
    BY Zenon, <1>1 DEF IsOpen
  <2> QED BY Zenon, <2>1 DEF SnapshotDone, PushFront
<1> HIDE DEF m, p
<1>6. Loose(m, {}, p)
  BY Zenon, <1>3, <1>4, LooseAlike
<1> QED BY <1>1, <1>5, <1>6, EnqueuedK DEF Sound, Good, Kept

\* The two listings of VerifySent: a copy the phone has, and did not move from
\* one folder to the other between them, is found; so the text is sent again
\* only when the phone has none.
LEMMA LookDoneL ==
    ASSUME NEW s, NEW op \in s.active, Ledger(s, {}), op.k \in {"look_sent", "look_outbox"},
           NEW found \in Found(op), phone[op.id].now \in Slots,
           \/ phone[op.id].now = "none" /\ phone[op.id].then = "none"
           \/ phone[op.id].n > 0
    PROVE  Sound(s, LookDone(s, op, found), {})
<1> DEFINE m == Rest(s)
<1>1. /\ Ledger(m, {}) /\ Held(m) = Held(s) /\ op \in Ops /\ m.open = s.open
      /\ IsOpen(m, op.id) /\ (\A o \in m.open : o.id = op.id => Hot(op, s.put, o))
      /\ \A x \in Carriers(m, {}) : x.id # op.id
  BY Zenon, Rested DEF IsRested
<1>2. s.put = "none"
  BY Zenon, <1>1 DEF Hot, IsOpen
<1>3. Loose(m, {}, op)
  BY Zenon, <1>2, RestedLoose
<1>4. found \in BOOLEAN /\ op.id \in Texts
  BY Zenon, <1>1 DEF Found, Ops
<1>5. CASE found
  <2>1. phone[op.id].n > 0
    <3>1. CASE phone[op.id].now = "none" /\ phone[op.id].then = "none"
      BY Zenon, <1>5, <3>1 DEF Found
    <3> QED BY Zenon, <3>1
  <2> QED BY Zenon, <1>5, <2>1, PutDoneL DEF LookDone
<1>6. CASE ~found /\ op.k = "look_sent"
  <2> DEFINE p == [op EXCEPT !.k = "look_outbox", !.wait = FALSE]
  <2>1. LookDone(s, op, found) = [m EXCEPT !.ops = << p >> \o m.ops]
    BY Zenon, <1>6 DEF LookDone, PushFront
  <2>2. p \in Ops /\ p.id = op.id /\ p.k = "look_outbox"
    BY Zenon, <1>1 DEF Ops, OpKinds
  <2>3. phone[op.id].now # "sent"
    BY Zenon, <1>6 DEF Found
  <2> HIDE DEF m, p
  <2>4. Loose(m, {}, p)
    BY Zenon, <1>3, <2>2, <2>3 DEF Loose, Cold, Slots
  <2>5. Good(m, LookDone(s, op, found), {})
    BY Zenon, <1>1, <2>1, <2>4, EnqueuedK
  <2> QED BY Zenon, <1>1, <2>5 DEF Sound, Good, Kept
<1>7. CASE ~found /\ op.k = "look_outbox"
  <2> DEFINE p == [op EXCEPT !.k = "send", !.wait = FALSE]
             n == MarkPut(m, op.id, FALSE)
  <2>1. LookDone(s, op, found) = [n EXCEPT !.ops = << p >> \o n.ops]
    BY Zenon, <1>7 DEF LookDone, PushFront, put_not_taken
  <2>2. p \in Ops /\ p.id = op.id
    BY Zenon, <1>1 DEF Ops, OpKinds
  <2>3. phone[op.id].now # "outbox"
    BY Zenon, <1>7 DEF Found
  <2>4. \A o \in m.open : o.id = op.id => ~Astray(o.r, op.id)
    <3> HIDE DEF m
    <3> QED BY Zenon, <1>3, <1>7, <2>3 DEF Loose, Cold
  <2>5. /\ Ledger(n, {}) /\ Kept(m, n) /\ IsOpen(n, op.id)
        /\ \A o \in n.open : \E x \in m.open : o.id = x.id /\ o.r = x.r
        /\ n.ops = m.ops
    <3>1. MayMark(m, {}, op.id, FALSE)
      BY Zenon, <1>1, <2>4 DEF MayMark
    <3> HIDE DEF m
    <3>2. IsMarked(m, n, {}, op.id, FALSE)
      BY <1>1, <1>4, <3>1, Marked, Zenon
    <3> HIDE DEF n
    <3> QED BY Zenon, <1>1, <3>2 DEF IsMarked
  <2> HIDE DEF m, n, p
  <2>6. Loose(n, {}, p)
    <3>1. \A x \in Carriers(n, {}) : x.id # p.id
      BY Zenon, <1>1, <2>2, <2>5 DEF Carriers, Kept
    <3>2. \A o \in n.open : o.id = p.id => Cold(p, o)
      BY <2>2, <2>4, <2>5 DEF Cold
    <3> QED BY Zenon, <2>2, <2>5, <3>1, <3>2 DEF Loose
  <2>7. Good(n, LookDone(s, op, found), {})
    BY Zenon, <2>1, <2>5, <2>6, EnqueuedK
  <2> QED BY Zenon, <1>1, <2>5, <2>7 DEF Sound, Good, Kept
<1> QED BY Zenon, <1>4, <1>5, <1>6, <1>7

\* TextLedger::sweep: a look dropped for an answer that is no listing leaves
\* its text in doubt.
LEMMA LookGarbledL ==
    ASSUME NEW s, NEW op \in s.active, Ledger(s, {})
    PROVE  Sound(s, LookGarbled(s, op), {})
<1> DEFINE m == Rest(s)
<1>1. /\ Ledger(m, {}) /\ Held(m) = Held(s) /\ op \in Ops
      /\ \A x \in Carriers(m, {}) : x.id # op.id
  BY Zenon, Rested DEF IsRested
<1>2. op.id \in Texts
  BY Zenon, <1>1 DEF Ops
<1>3. LookGarbled(s, op) = Failed(m, op.id)
  BY Zenon DEF LookGarbled
<1> HIDE DEF m
<1> QED BY <1>1, <1>2, <1>3, FailedK DEF Sound, Kept

--------------------------------------------------------------------------
(* Passes over the queue                                                   *)

\* The operations of a queue from the n-th on.
After(q, n) == {q[j] : j \in {i \in DOMAIN q : i > n}}

\* One step of a pass over a queue takes one operation out of the rest.
LEMMA AfterStep ==
    ASSUME NEW q \in Seq(Ops), Sole(q), NEW i \in 1..Len(q)
    PROVE  /\ After(q, i - 1) = After(q, i) \cup {q[i]}
           /\ \A p \in After(q, i) : p.id # q[i].id
           /\ q[i] \in Ops /\ q[i].id \in Texts
<1>1. DOMAIN q = 1..Len(q) /\ Len(q) \in Nat /\ i \in DOMAIN q /\ q[i] \in Ops
  OBVIOUS
<1>2. \A j \in DOMAIN q : j > i - 1 <=> (j > i \/ j = i)
  BY <1>1
<1>3. After(q, i - 1) = After(q, i) \cup {q[i]}
  BY Zenon, <1>1, <1>2 DEF After
<1>4. \A p \in After(q, i) : p.id # q[i].id
  BY <1>1 DEF After, Sole
<1> QED BY Zenon, <1>1, <1>3, <1>4 DEF Ops

\* Before the pass the whole queue is the rest, and the queue is empty.
LEMMA Emptied ==
    ASSUME NEW s, Ledger(s, {}), NEW n, n = [s EXCEPT !.ops = << >>]
    PROVE  Good(s, n, After(s.ops, 0)) /\ n.put = s.put
<1>0. s \in Runs /\ s.ops \in Seq(Ops)
  BY Zenon, Fields DEF Ledger
<1>1. After(s.ops, 0) = Range(s.ops) /\ Range(s.ops) \subseteq Ops
  BY <1>0, RangeType DEF After, Range
<1>2. n \in Runs /\ n.active = s.active /\ n.open = s.open /\ n.put = s.put /\ n.ops = << >>
      /\ n.said = s.said /\ n.answered = s.answered
  <2>1. << >> \in Seq(Ops)
    OBVIOUS
  <2> QED BY Zenon, <1>0, <2>1 DEF Runs
<1>3. Range(n.ops) = {} /\ Sole(n.ops)
  BY <1>2 DEF Range, Sole
<1>4. \A u : (IsOpen(n, u) <=> IsOpen(s, u)) /\ ~In(n.ops, u)
  BY Zenon, <1>2, <1>3 DEF IsOpen, In
<1>5. Carriers(n, Range(s.ops)) = Carriers(s, {})
  BY Zenon, <1>2, <1>3 DEF Carriers
<1>6. Carrying(n, Range(s.ops))
  <2>1. SoleIn(Range(s.ops))
    BY Zenon DEF Ledger, Carrying, Sole, SoleIn, Range
  <2>2. \A op \in Range(s.ops) : \A p \in s.active : p.id # op.id
    BY Zenon DEF Ledger, Carrying, In
  <2> QED BY ZenonT(30), <1>2, <1>3, <1>4, <1>5, <2>1, <2>2 DEF Ledger, Carrying
<1>7. Phases(n, Range(s.ops))
  BY Zenon, <1>2, <1>3 DEF Ledger, Phases
<1>8. Spoken(n)
  BY Zenon, <1>2, <1>4 DEF Ledger, Spoken
<1>9. Held(n) = Held(s)
  BY Zenon, <1>2, <1>4 DEF Held
<1> QED BY Zenon, <1>1, <1>2, <1>6, <1>7, <1>8, <1>9 DEF Ledger, Good, Kept

\* After it nothing is.
LEMMA AfterAll ==
    ASSUME NEW q \in Seq(Ops)
    PROVE  After(q, Len(q)) = {}
BY DEF After

\* What a pass over the queue leaves, at each step of it.
Passing(s, q, i) == {x \in Runs : Ledger(x, After(q, i)) /\ Held(x) = Held(s) /\ x.active = {}}

\* Requeueing, reporting or keeping one operation of the rest keeps the ledger.
LEMMA PassingStep ==
    ASSUME NEW s, NEW q \in Seq(Ops), Sole(q), NEW i \in 1..Len(q), NEW x \in Passing(s, q, i - 1)
    PROVE  /\ requeue_or_report(x, q[i], "not_started", "lost") \in Passing(s, q, i)
           /\ Failed(x, q[i].id) \in Passing(s, q, i)
           /\ [x EXCEPT !.ops = Append(x.ops, q[i])] \in Passing(s, q, i)
<1>0. x \in Runs /\ Ledger(x, After(q, i - 1)) /\ Held(x) = Held(s) /\ x.active = {}
  BY Zenon DEF Passing
<1>1. Ledger(x, After(q, i)) /\ Loose(x, After(q, i), q[i])
  <2>1. After(q, i - 1) = After(q, i) \cup {q[i]} /\ \A p \in After(q, i) : p.id # q[i].id
    BY Zenon, AfterStep
  <2> QED BY Zenon, <1>0, <2>1, TakenOut
<1>2. Good(x, requeue_or_report(x, q[i], "not_started", "lost"), After(q, i))
  BY Zenon, <1>1, Requeued
<1>3. Good(x, Failed(x, q[i].id), After(q, i))
  BY Zenon, <1>1, AfterStep, FailedK DEF Loose, Good
<1>4. Good(x, [x EXCEPT !.ops = Append(x.ops, q[i])], After(q, i))
  BY Zenon, <1>1, EnqueuedK
<1> QED BY Zenon, <1>0, <1>2, <1>3, <1>4 DEF Good, Kept, Passing, Ledger

\* The link drops: the operation in flight and each queued one pass
\* requeue_or_report, and no text is lost.
LEMMA LinkDownL ==
    ASSUME NEW s, Ledger(s, {})
    PROVE  LinkDown(s) \in Passing(s, s.ops, Len(s.ops))
<1> DEFINE N == Len(s.ops)
           idle == [s EXCEPT !.ops = << >>]
           b == IF s.active = {} THEN idle ELSE Stop(idle, CHOOSE op \in s.active : TRUE, "lost")
           step(x, i) == requeue_or_report(x, s.ops[i], "not_started", "lost")
           g == [i \in 1..N |-> [x \in Runs |-> step(x, i)]]
           S == [i \in 0..N |-> Passing(s, s.ops, i)]
           Rec(f) == f = [n \in 0..N |-> IF n > 0 THEN step(f[n - 1], n) ELSE b]
           pass == CHOOSE f : Rec(f)
<1>0. s \in Runs /\ s.ops \in Seq(Ops) /\ Sole(s.ops) /\ N \in Nat
  BY Fields DEF Ledger, Carrying
<1>1. LinkDown(s) = pass[N]
  BY Zenon DEF LinkDown
<1>2. b \in Passing(s, s.ops, 0)
  <2>0. Good(s, idle, After(s.ops, 0)) /\ idle.put = s.put
    BY Emptied, Zenon
  <2>1. CASE s.active = {}
    BY Zenon, <2>0, <2>1 DEF Good, Kept, Passing, Ledger
  <2>2. CASE s.active # {}
    <3> DEFINE op == CHOOSE x \in s.active : TRUE
    <3>1. op \in s.active
      BY Zenon, <2>2
    <3> HIDE DEF op, idle
    <3>2. op \in idle.active /\ Ledger(idle, After(s.ops, 0))
      BY Zenon, <2>0, <3>1 DEF Good, Kept
    <3>3. Ledger(Stop(idle, op, "lost"), After(s.ops, 0)) /\ Held(Stop(idle, op, "lost")) = Held(idle)
          /\ Stop(idle, op, "lost").active = {}
      BY Zenon, <3>2, Stopped
    <3>4. b = Stop(idle, op, "lost")
      BY Zenon, <2>2 DEF op
    <3> HIDE DEF b
    <3> QED BY Zenon, <2>0, <3>3, <3>4 DEF Good, Kept, Passing, Ledger
  <2> QED BY Zenon, <2>1, <2>2
<1>3. \A i \in 1..N : \A x \in Passing(s, s.ops, i - 1) : step(x, i) \in Passing(s, s.ops, i)
  BY <1>0, PassingStep, Zenon
<1> HIDE DEF b, step
<1>4. /\ \A i \in 0..N : S[i] = Passing(s, s.ops, i) /\ S[i] \subseteq Runs
      /\ \A i \in 1..N : i - 1 \in 0..N /\ \A x \in Runs : g[i][x] = step(x, i)
  BY <1>0 DEF Passing
<1> HIDE DEF N, S, g
<1>5. b \in S[0] /\ \A i \in 1..N : \A x \in S[i - 1] : g[i][x] \in S[i]
  BY <1>0, <1>2, <1>3, <1>4
<1>6. \E f : Rec(f)
  <2>1. PICK f : /\ IsFold(f, N, g, b)
                 /\ \A i \in 0..N : f[i] \in S[i]
    BY <1>0, <1>5, Passes, Zenon
  <2>2. \A n \in 0..N : f[n] = IF n > 0 THEN step(f[n - 1], n) ELSE b
    <3>1. \A n \in 0..N : f[n] = IF n = 0 THEN b ELSE g[n][f[n - 1]]
      BY Zenon, <2>1 DEF IsFold
    <3>2. \A n \in 1..N : f[n - 1] \in Runs
      BY <1>0, <1>4, <2>1
    <3>3. \A n \in 0..N : n # 0 => n > 0 /\ n \in 1..N
      BY <1>0
    <3>4. ~(0 > 0)
      OBVIOUS
    <3> QED BY Zenon, <1>4, <3>1, <3>2, <3>3, <3>4
  <2>3. f = [n \in 0..N |-> f[n]]
    BY Zenon, <2>1 DEF IsFold
  <2>4. Rec(f)
    BY Zenon, <2>2, <2>3
  <2> QED BY <2>4, Zenon
<1>7. Rec(pass)
  <2> HIDE DEF Rec
  <2> QED BY <1>6, Zenon
<1> HIDE DEF pass
<1>8. pass[0] = b /\ \A i \in 1..N : pass[i - 1] \in S[i - 1] => pass[i] = g[i][pass[i - 1]]
  BY <1>0, <1>4, <1>7
<1>9. \A i \in 0..N : pass[i] \in S[i]
  BY <1>0, <1>5, <1>8, Passes, ZenonT(30)
<1>10. N \in 0..N
  BY <1>0
<1> QED BY Zenon, <1>1, <1>4, <1>9, <1>10 DEF N

--------------------------------------------------------------------------
(* Another phone, and texts that wait too long                             *)

\* switch_map_phone reports every queued text; none is queued after it.
LEMMA SwitchPhoneL ==
    ASSUME NEW s, Ledger(s, {}), s.active = {}
    PROVE  Sound(s, SwitchPhone(s), {}) /\ SwitchPhone(s).ops = << >> /\ SwitchPhone(s).active = {}
<1> DEFINE N == Len(s.ops)
           b == [s EXCEPT !.ops = << >>]
           T(i) == {x \in Passing(s, s.ops, i) : x.ops = << >>}
           step(x, i) == Failed(x, s.ops[i].id)
           g == [i \in 1..N |-> [x \in Runs |-> step(x, i)]]
           S == [i \in 0..N |-> T(i)]
           Rec(f) == f = [n \in 0..N |-> IF n = 0 THEN [s EXCEPT !.ops = << >>] ELSE Failed(f[n - 1], s.ops[n].id)]
           pass == CHOOSE f : Rec(f)
<1>0. s \in Runs /\ s.ops \in Seq(Ops) /\ Sole(s.ops) /\ N \in Nat
  BY Fields DEF Ledger, Carrying
<1>1. SwitchPhone(s) = pass[N]
  BY Zenon DEF SwitchPhone
<1>2. b \in T(0)
  <2>1. Good(s, b, After(s.ops, 0)) /\ b.ops = << >>
    BY <1>0, Emptied, Zenon DEF Runs
  <2> HIDE DEF b
  <2> QED BY Zenon, <2>1 DEF Good, Kept, Passing, Ledger
<1>3. ASSUME NEW i \in 1..N, NEW x \in T(i - 1) PROVE step(x, i) \in T(i)
  <2>1. x \in Passing(s, s.ops, i - 1) /\ x \in Runs /\ x.ops = << >>
    BY Zenon, <1>3 DEF Passing
  <2>2. Failed(x, s.ops[i].id) \in Passing(s, s.ops, i)
    BY <1>0, <2>1, PassingStep, Zenon
  <2>3. Failed(x, s.ops[i].id).ops = << >>
    BY Zenon, <2>1 DEF Failed, Answer, Say, Runs
  <2> QED BY Zenon, <2>2, <2>3
<1>4. \A i \in 0..N : T(i) \subseteq Runs
  BY Zenon DEF Passing
<1>r. \A f : Rec(f) <=> f = [n \in 0..N |-> IF n = 0 THEN b ELSE step(f[n - 1], n)]
  BY Zenon
<1> HIDE DEF b, step, T
<1>5. /\ \A i \in 0..N : S[i] = T(i) /\ S[i] \subseteq Runs
      /\ \A i \in 1..N : i - 1 \in 0..N /\ \A x \in Runs : g[i][x] = step(x, i)
  BY <1>0, <1>4
<1> HIDE DEF N, S, g, Rec
<1>6. b \in S[0] /\ \A i \in 1..N : \A x \in S[i - 1] : g[i][x] \in S[i]
  BY <1>0, <1>2, <1>3, <1>5
<1>7. \E f : Rec(f)
  <2>1. PICK f : /\ IsFold(f, N, g, b)
                 /\ \A i \in 0..N : f[i] \in S[i]
    BY <1>0, <1>6, Passes, Zenon
  <2>2. \A n \in 0..N : f[n] = IF n = 0 THEN b ELSE step(f[n - 1], n)
    <3>1. \A n \in 0..N : f[n] = IF n = 0 THEN b ELSE g[n][f[n - 1]]
      BY Zenon, <2>1 DEF IsFold
    <3>2. \A n \in 1..N : f[n - 1] \in Runs
      BY <1>0, <1>5, <2>1
    <3>3. \A n \in 0..N : n # 0 => n \in 1..N
      BY <1>0
    <3> QED BY Zenon, <1>5, <3>1, <3>2, <3>3
  <2>3. f = [n \in 0..N |-> f[n]]
    BY Zenon, <2>1 DEF IsFold
  <2>4. f = [n \in 0..N |-> IF n = 0 THEN b ELSE step(f[n - 1], n)]
    BY Zenon, <2>2, <2>3
  <2>5. Rec(f)
    BY <1>r, <2>4, Zenon
  <2> QED BY <2>5, Zenon
<1>8. Rec(pass)
  BY <1>7, Zenon
<1> HIDE DEF pass
<1>9. pass = [n \in 0..N |-> IF n = 0 THEN b ELSE step(pass[n - 1], n)]
  BY <1>8, <1>r, Zenon
<1>10. pass[0] = b /\ \A i \in 1..N : pass[i - 1] \in S[i - 1] => pass[i] = g[i][pass[i - 1]]
  BY <1>0, <1>5, <1>9
<1>11. \A i \in 0..N : pass[i] \in S[i]
  BY <1>0, <1>6, <1>10, Passes, Zenon
<1>12. N \in 0..N /\ pass[N] \in T(N)
  BY <1>0, <1>5, <1>11
<1> QED BY Zenon, <1>1, <1>12, <1>0, AfterAll DEF T, N, Passing, Sound

\* expire_waiting_texts reports the overdue ones and keeps the others.
LEMMA ExpireL ==
    ASSUME NEW s, Ledger(s, {}), s.active = {}
    PROVE  Sound(s, Expire(s), {}) /\ Expire(s).active = {}
<1> DEFINE N == Len(s.ops)
           b == [s EXCEPT !.ops = << >>]
           T(i) == Passing(s, s.ops, i)
           step(x, i) == IF Overdue(s.ops[i]) THEN Failed(x, s.ops[i].id) ELSE [x EXCEPT !.ops = Append(x.ops, s.ops[i])]
           g == [i \in 1..N |-> [x \in Runs |-> step(x, i)]]
           S == [i \in 0..N |-> T(i)]
           Rec(f) == f = [n \in 0..N |-> IF n = 0 THEN [s EXCEPT !.ops = << >>]
                                           ELSE IF Overdue(s.ops[n]) THEN Failed(f[n - 1], s.ops[n].id)
                                           ELSE [f[n - 1] EXCEPT !.ops = Append(f[n - 1].ops, s.ops[n])]]
           pass == CHOOSE f : Rec(f)
<1>0. s \in Runs /\ s.ops \in Seq(Ops) /\ Sole(s.ops) /\ N \in Nat
  BY Fields DEF Ledger, Carrying
<1>1. Expire(s) = pass[N]
  BY Zenon DEF Expire
<1>2. b \in T(0)
  <2>1. Good(s, b, After(s.ops, 0))
    BY <1>0, Emptied, Zenon
  <2> HIDE DEF b
  <2> QED BY Zenon, <2>1 DEF Good, Kept, Passing, Ledger
<1>3. ASSUME NEW i \in 1..N, NEW x \in T(i - 1) PROVE step(x, i) \in T(i)
  <2>1. x \in Passing(s, s.ops, i - 1)
    BY Zenon, <1>3
  <2>2. Failed(x, s.ops[i].id) \in Passing(s, s.ops, i)
        /\ [x EXCEPT !.ops = Append(x.ops, s.ops[i])] \in Passing(s, s.ops, i)
    BY <1>0, <2>1, PassingStep, Zenon
  <2> QED BY <2>2, Zenon
<1>4. \A i \in 0..N : T(i) \subseteq Runs
  BY Zenon DEF Passing
<1>r. \A f : Rec(f) <=> f = [n \in 0..N |-> IF n = 0 THEN b ELSE step(f[n - 1], n)]
  BY ZenonT(30)
<1> HIDE DEF b, step, T
<1>5. /\ \A i \in 0..N : S[i] = T(i) /\ S[i] \subseteq Runs
      /\ \A i \in 1..N : i - 1 \in 0..N /\ \A x \in Runs : g[i][x] = step(x, i)
  BY <1>0, <1>4
<1> HIDE DEF N, S, g, Rec
<1>6. b \in S[0] /\ \A i \in 1..N : \A x \in S[i - 1] : g[i][x] \in S[i]
  BY <1>0, <1>2, <1>3, <1>5
<1>7. \E f : Rec(f)
  <2>1. PICK f : /\ IsFold(f, N, g, b)
                 /\ \A i \in 0..N : f[i] \in S[i]
    BY <1>0, <1>6, Passes, Zenon
  <2>2. \A n \in 0..N : f[n] = IF n = 0 THEN b ELSE step(f[n - 1], n)
    <3>1. \A n \in 0..N : f[n] = IF n = 0 THEN b ELSE g[n][f[n - 1]]
      BY Zenon, <2>1 DEF IsFold
    <3>2. \A n \in 1..N : f[n - 1] \in Runs
      BY <1>0, <1>5, <2>1
    <3> QED BY <1>0, <1>5, <3>1, <3>2
  <2>3. f = [n \in 0..N |-> f[n]]
    BY Zenon, <2>1 DEF IsFold
  <2>4. f = [n \in 0..N |-> IF n = 0 THEN b ELSE step(f[n - 1], n)]
    BY Zenon, <2>2, <2>3
  <2>5. Rec(f)
    BY <1>r, <2>4, Zenon
  <2> QED BY <2>5, Zenon
<1>8. Rec(pass)
  BY <1>7, Zenon
<1> HIDE DEF pass
<1>9. pass = [n \in 0..N |-> IF n = 0 THEN b ELSE step(pass[n - 1], n)]
  BY <1>8, <1>r, Zenon
<1>10. pass[0] = b /\ \A i \in 1..N : pass[i - 1] \in S[i - 1] => pass[i] = g[i][pass[i - 1]]
  BY <1>0, <1>5, <1>9
<1>11. \A i \in 0..N : pass[i] \in S[i]
  BY <1>0, <1>6, <1>10, Passes, Zenon
<1>12. N \in 0..N /\ pass[N] \in T(N)
  BY <1>0, <1>5, <1>11
<1> QED BY Zenon, <1>1, <1>12, <1>0, AfterAll DEF T, N, Passing, Sound

--------------------------------------------------------------------------
(* The run ends; time                                                      *)

\* What the ledger reports of the texts it leaves open is true, one answer a
\* text, and of those texts only.
LEMMA ReportsL ==
    ASSUME NEW s, Ledger(s, {})
    PROVE  /\ Reports(s) \subseteq Words /\ SoleIn(Reports(s))
           /\ \A x \in Reports(s) : /\ ~In(s.said, x.id) /\ flight[x.id] # NoRequest
                                    /\ Honest(x.id, x.a, flight[x.id])
           /\ \A t : IsOpen(s, t) <=> \E x \in Reports(s) : x.id = t
<1> DEFINE word(o) == [id |-> o.id, a |-> IF o.out THEN "doubt" ELSE "failed"]
<1>1. s \in Runs /\ s.open \subseteq OpenTexts
  BY Zenon, Fields DEF Ledger
<1>2. \A o \in s.open : word(o) \in Words /\ word(o).id = o.id
                        /\ word(o).a = IF o.out THEN "doubt" ELSE "failed"
  BY Zenon, <1>1 DEF OpenTexts, Words, Answers
<1>3. Reports(s) = {word(o) : o \in s.open}
  BY Zenon DEF Reports
<1> HIDE DEF word
<1>4. \A x \in Reports(s) : \E o \in s.open : x = word(o)
  BY Zenon, <1>3
<1>5. \A o \in s.open : word(o) \in Reports(s)
  BY Zenon, <1>3
<1>6. SoleIn(Reports(s))
  BY SMTT(30), <1>2, <1>4 DEF Ledger, Carrying, SoleIn
<1>7. ASSUME NEW x \in Reports(s)
      PROVE  /\ ~In(s.said, x.id) /\ flight[x.id] # NoRequest
             /\ Honest(x.id, x.a, flight[x.id])
  <2>1. PICK o \in s.open : x = word(o)
    BY Zenon, <1>4
  <2>2. x.id = o.id /\ x.a = IF o.out THEN "doubt" ELSE "failed"
    BY Zenon, <1>2, <2>1
  <2>3. flight[o.id] = o.r /\ (Astray(o.r, o.id) => o.out) /\ o.r # NoRequest
    BY Zenon, <1>1, AttemptConstants DEF Ledger, Phases, OpenTexts
  <2>4. ~In(s.said, x.id)
    BY Zenon, <2>2 DEF Ledger, Spoken, In, IsOpen
  <2> QED BY Zenon, <2>2, <2>3, <2>4 DEF Honest
<1> QED BY SMTT(30), <1>2, <1>4, <1>5, <1>6, <1>7 DEF IsOpen

\* Drop of the ledger: every open text is answered, in doubt when its PUT is
\* out, and no other.
LEMMA EndRunL ==
    ASSUME NEW s, Ledger(s, {}), NEW n \in EndRun(s)
    PROVE  Sound(s, n, {}) /\ n.open = {} /\ n.active = {} /\ n.ops = << >>
<1>0. s \in Runs /\ s.said \in Seq(Words)
  BY Zenon, Fields DEF Ledger
<1>1. PICK w \in Orders(Reports(s)) : n = [NewRun EXCEPT !.said = s.said \o w]
  BY Zenon DEF EndRun
<1>2. w \in Seq(Reports(s)) /\ IsInjective(w) /\ Range(w) = Reports(s)
  BY Zenon DEF Orders
<1>3. w \in Seq(Words)
  BY <1>2, ReportsL
<1>4. Sole(w)
  <2>1. \A i \in DOMAIN w : w[i] \in Reports(s)
    BY Zenon, <1>2 DEF Range
  <2> QED BY Zenon, <1>2, <2>1, ReportsL DEF Sole, SoleIn, IsInjective
<1>5. \A x \in Range(w) : ~In(s.said, x.id)
  BY Zenon, <1>2, ReportsL
<1>6. /\ s.said \o w \in Seq(Words) /\ Sole(s.said \o w)
      /\ Range(s.said \o w) = Range(s.said) \cup Range(w)
  <2>1. Sole(s.said)
    BY Zenon DEF Ledger, Spoken
  <2> QED BY SMTT(30), <1>0, <1>3, <1>4, <1>5, <2>1, ConcatIds
<1>7. /\ n \in Runs /\ n.open = {} /\ n.active = {} /\ n.ops = << >> /\ n.answered = << >>
      /\ n.put = "none" /\ n.said = s.said \o w
  <2>1. << >> \in Seq(Ops) /\ << >> \in Seq(Words)
    OBVIOUS
  <2> QED BY Zenon, <1>1, <1>6, <2>1 DEF NewRun, Runs, PutStates, Words
<1>8. Range(n.ops) = {} /\ Range(n.answered) = {} /\ Sole(n.ops)
  BY <1>7 DEF Range, Sole
<1>9. Carrying(n, {}) /\ Phases(n, {})
  BY Zenon, <1>7, <1>8 DEF Carrying, Phases, Carriers, SoleIn, Single
<1>10. \A t : ~IsOpen(n, t)
  BY Zenon, <1>7 DEF IsOpen
<1>11. Spoken(n)
  <2>1. ASSUME NEW x \in Range(n.said) PROVE flight[x.id] # NoRequest /\ Honest(x.id, x.a, flight[x.id])
    <3>1. CASE x \in Range(s.said)
      BY Zenon, <3>1 DEF Ledger, Spoken
    <3>2. CASE x \in Reports(s)
      BY Zenon, <3>2, ReportsL
    <3> QED BY Zenon, <1>2, <1>6, <1>7, <3>1, <3>2
  <2> QED BY Zenon, <1>6, <1>7, <1>8, <1>10, <2>1 DEF Spoken
<1>12. Held(n) = Held(s)
  <2>1. \A t : In(n.said, t) <=> In(s.said, t) \/ \E x \in Reports(s) : x.id = t
    BY Zenon, <1>2, <1>6, <1>7 DEF In
  <2> QED BY <1>10, <2>1, ReportsL DEF Held
<1> QED BY Zenon, <1>7, <1>9, <1>11, <1>12 DEF Ledger, Sound

\* Operations with the same kinds and texts.
Recast(s, n) ==
    /\ n \in Runs /\ n.open = s.open /\ n.put = s.put /\ n.said = s.said /\ n.answered = s.answered
    /\ Sole(n.ops) /\ Single(n.active) /\ (n.active = {} => s.active = {})
    /\ \A op \in Range(n.ops) : \E p \in Range(s.ops) : p.id = op.id /\ p.k = op.k
    /\ \A op \in n.active : \E p \in s.active : p.id = op.id /\ p.k = op.k

\* Clocks that run out change no kind and no text of an operation.
LEMMA RecastL ==
    ASSUME NEW s, NEW n, Ledger(s, {}), Recast(s, n)
    PROVE  Sound(s, n, {})
<1>1. \A t : (IsOpen(n, t) <=> IsOpen(s, t)) /\ (In(n.ops, t) => In(s.ops, t))
  BY Zenon DEF Recast, IsOpen, In
<1>2. \A op \in Carriers(n, {}) : \E p \in Carriers(s, {}) : p.id = op.id
  BY Zenon DEF Recast, Carriers
<1>3. Carrying(n, {})
  <2>1. \A op \in n.active : ~In(n.ops, op.id)
    BY Zenon, <1>1 DEF Recast, Ledger, Carrying
  <2>2. \A op \in Carriers(n, {}) : IsOpen(n, op.id)
    BY Zenon, <1>1, <1>2 DEF Ledger, Carrying
  <2> QED BY Zenon, <2>1, <2>2 DEF Recast, Ledger, Carrying
<1>4. Phases(n, {})
  <2> SUFFICES ASSUME NEW o \in n.open
               PROVE  /\ Astray(o.r, o.id) => o.out
                      /\ flight[o.id] = o.r
                      /\ \A op \in Range(n.ops) : op.id = o.id => Cold(op, o)
                      /\ \A op \in n.active : op.id = o.id => Hot(op, n.put, o)
    BY Zenon DEF Phases
  <2>1. o \in s.open /\ n.put = s.put
    BY Zenon DEF Recast
  <2>2. ASSUME NEW op \in Range(n.ops), op.id = o.id PROVE Cold(op, o)
    <3>1. PICK p \in Range(s.ops) : p.id = op.id /\ p.k = op.k
      BY Zenon DEF Recast
    <3> QED BY SMTT(30), <2>1, <2>2, <3>1 DEF Ledger, Phases, Cold
  <2>3. ASSUME NEW op \in n.active, op.id = o.id PROVE Hot(op, n.put, o)
    <3>1. PICK p \in s.active : p.id = op.id /\ p.k = op.k
      BY Zenon DEF Recast
    <3>2. Hot(p, s.put, o)
      BY Zenon, <2>1, <2>3, <3>1 DEF Ledger, Phases
    <3> QED BY Zenon, <2>1, <3>1, <3>2 DEF Hot, Cold
  <2> QED BY Zenon, <2>1, <2>2, <2>3 DEF Ledger, Phases
<1>5. Spoken(n) /\ Held(n) = Held(s)
  BY Zenon, <1>1 DEF Recast, Ledger, Spoken, Held
<1> QED BY Zenon, <1>3, <1>4, <1>5 DEF Recast, Ledger, Sound

\* Time keeps the ledger.
LEMMA TimeL ==
    ASSUME NEW s, Ledger(s, {})
    PROVE  /\ \A t \in Texts : Sound(s, GrowOld(s, t), {}) /\ (s.active = {} => GrowOld(s, t).active = {})
           /\ \A i \in DOMAIN s.ops : Sound(s, WaitOver(s, i), {}) /\ WaitOver(s, i).active = s.active
           /\ Sound(s, QuietOver(s), {}) /\ QuietOver(s).active = s.active
<1>0. s \in Runs /\ s.ops \in Seq(Ops) /\ s.active \subseteq Ops
  BY Zenon, Fields DEF Ledger
<1>1. ASSUME NEW t \in Texts
      PROVE  Sound(s, GrowOld(s, t), {}) /\ (s.active = {} => GrowOld(s, t).active = {})
  <2> DEFINE aged(op) == IF op.id = t THEN [op EXCEPT !.old = TRUE] ELSE op
             q == [i \in DOMAIN s.ops |-> aged(s.ops[i])]
             A == {aged(op) : op \in s.active}
             n == GrowOld(s, t)
  <2>1. \A op \in Ops : aged(op) \in Ops /\ aged(op).id = op.id /\ aged(op).k = op.k
    BY Zenon DEF Ops
  <2>2. n = [s EXCEPT !.ops = q, !.active = A]
    BY Zenon, <1>0 DEF GrowOld, Runs
  <2> HIDE DEF aged, n
  <2>3. DOMAIN q = DOMAIN s.ops /\ \A i \in DOMAIN s.ops : q[i] = aged(s.ops[i]) /\ s.ops[i] \in Ops
    BY <1>0
  <2>4. q \in Seq(Ops) /\ (Sole(s.ops) => Sole(q))
    <3> HIDE DEF q
    <3>1. q = [i \in DOMAIN s.ops |-> q[i]]
      BY Zenon DEF q
    <3>2. \A i \in DOMAIN s.ops : q[i] \in Ops /\ q[i].id = s.ops[i].id
      BY Zenon, <2>1, <2>3
    <3> QED BY <1>0, <2>3, <3>1, <3>2, SameIds, Zenon
  <2>5. A \subseteq Ops /\ \A op \in A : \E p \in s.active : op = aged(p)
    BY Zenon, <1>0, <2>1
  <2>6. s.active = {} <=> A = {}
    BY Zenon
  <2> HIDE DEF q, A
  <2>7. /\ n \in Runs /\ n.open = s.open /\ n.put = s.put /\ n.said = s.said
        /\ n.answered = s.answered /\ n.ops = q /\ n.active = A
    BY Zenon, <1>0, <2>2, <2>4, <2>5 DEF Runs
  <2>8. Sole(n.ops) /\ Single(n.active)
    BY ZenonT(30), <2>4, <2>5, <2>7 DEF Ledger, Carrying, Single
  <2>9. \A op \in Range(n.ops) : \E p \in Range(s.ops) : p.id = op.id /\ p.k = op.k
    BY SMTT(30), <2>1, <2>3, <2>7 DEF Range
  <2>10. \A op \in n.active : \E p \in s.active : p.id = op.id /\ p.k = op.k
    BY SMTT(30), <1>0, <2>1, <2>5, <2>7
  <2>11. Recast(s, n)
    BY Zenon, <2>6, <2>7, <2>8, <2>9, <2>10 DEF Recast
  <2> QED BY Zenon, <2>6, <2>7, <2>11, RecastL DEF n
<1>2. ASSUME NEW i \in DOMAIN s.ops
      PROVE  Sound(s, WaitOver(s, i), {}) /\ WaitOver(s, i).active = s.active
  <2> DEFINE p == [s.ops[i] EXCEPT !.wait = FALSE]
             q == [s.ops EXCEPT ![i] = p]
             n == WaitOver(s, i)
  <2>0. s.ops[i] \in Ops
    BY <1>0
  <2>1. s.ops[i] \in Ops /\ p \in Ops /\ p.id = s.ops[i].id /\ p.k = s.ops[i].k
    BY Zenon, <2>0 DEF Ops
  <2>2. n = [s EXCEPT !.ops = q]
    BY Zenon, <1>0 DEF WaitOver, Runs
  <2> HIDE DEF p, n
  <2>3. DOMAIN q = DOMAIN s.ops /\ \A j \in DOMAIN s.ops : q[j] = (IF j = i THEN p ELSE s.ops[j]) /\ s.ops[j] \in Ops
    BY <1>0
  <2>4. q \in Seq(Ops) /\ (Sole(s.ops) => Sole(q))
    <3>1. q = [j \in DOMAIN s.ops |-> q[j]]
      BY Zenon, <1>0
    <3> HIDE DEF q
    <3>2. \A j \in DOMAIN s.ops : q[j] \in Ops /\ q[j].id = s.ops[j].id
      BY Zenon, <2>1, <2>3
    <3> QED BY <1>0, <2>3, <3>1, <3>2, SameIds, Zenon
  <2> HIDE DEF q
  <2>5. /\ n \in Runs /\ n.open = s.open /\ n.put = s.put /\ n.said = s.said
        /\ n.answered = s.answered /\ n.ops = q /\ n.active = s.active
    BY Zenon, <1>0, <2>2, <2>4 DEF Runs
  <2>6. \A op \in Range(n.ops) : \E x \in Range(s.ops) : x.id = op.id /\ x.k = op.k
    BY SMTT(30), <2>1, <2>3, <2>5 DEF Range
  <2>7. Recast(s, n)
    BY Zenon, <2>4, <2>5, <2>6 DEF Recast, Ledger, Carrying
  <2> QED BY Zenon, <2>5, <2>7, RecastL DEF n
<1>3. Sound(s, QuietOver(s), {}) /\ QuietOver(s).active = s.active
  BY Zenon, Quieted DEF QuietOver, Sound, Kept
<1> QED BY Zenon, <1>1, <1>2, <1>3

--------------------------------------------------------------------------
(* Texts come in, answers go out                                           *)

\* n holds the text t besides.
Gained(s, n, t) == Ledger(n, {}) /\ Held(n) = Held(s) \cup {t} /\ n.active = s.active

\* A text that the run does not hold may be answered with what is true of it.
LEMMA SayL ==
    ASSUME NEW s, Ledger(s, {}), NEW t \in Texts, t \notin Held(s), NEW a \in Answers,
           flight[t] # NoRequest, Honest(t, a, flight[t])
    PROVE  Gained(s, Say(s, t, a), t)
<1> DEFINE n == Say(s, t, a)
           x == [id |-> t, a |-> a]
<1>0. s \in Runs /\ s.said \in Seq(Words) /\ x \in Words /\ x.id = t /\ x.a = a
  BY Zenon, Fields DEF Ledger, Words
<1>1. ~IsOpen(s, t) /\ ~In(s.said, t) /\ Sole(s.said)
  BY Zenon DEF Held, Ledger, Spoken
<1>2. n = [s EXCEPT !.said = Append(s.said, x)]
  BY Zenon, <1>0 DEF Say, Runs
<1> HIDE DEF n, x
<1>3. Append(s.said, x) \in Seq(Words) /\ Range(Append(s.said, x)) = Range(s.said) \cup {x}
      /\ Sole(Append(s.said, x))
  BY <1>0, <1>1, AppendIds
<1>4. /\ n \in Runs /\ n.open = s.open /\ n.active = s.active /\ n.put = s.put /\ n.ops = s.ops
      /\ n.said = Append(s.said, x) /\ n.answered = s.answered
  BY Zenon, <1>0, <1>2, <1>3 DEF Runs, Words
<1>5. \A u : (IsOpen(n, u) <=> IsOpen(s, u)) /\ (In(n.said, u) <=> In(s.said, u) \/ u = t)
  BY Zenon, <1>0, <1>3, <1>4 DEF IsOpen, In
<1>6. Carrying(n, {}) /\ Phases(n, {})
  BY Zenon, <1>4, <1>5 DEF Ledger, Carrying, Carriers, Phases
<1>7. Spoken(n)
  BY Zenon, <1>0, <1>1, <1>3, <1>4, <1>5 DEF Ledger, Spoken
<1>8. Held(n) = Held(s) \cup {t}
  BY Zenon, <1>5 DEF Held
<1> QED BY Zenon, <1>4, <1>6, <1>7, <1>8 DEF Ledger, Gained, n

\* SmsSent or SmsSendFailed is read by the plugin's radio thread: the run holds
\* the text no more.
LEMMA HeardL ==
    ASSUME NEW s, Ledger(s, {}), s.said # << >>
    PROVE  LET n == [s EXCEPT !.said = Tail(s.said)]
           IN  /\ Ledger(n, {}) /\ Held(n) = Held(s) \ {Head(s.said).id}
               /\ n.active = s.active /\ n.open = s.open
               /\ Head(s.said) \in Words /\ Head(s.said).id \in Held(s)
               /\ flight[Head(s.said).id] # NoRequest
               /\ Honest(Head(s.said).id, Head(s.said).a, flight[Head(s.said).id])
<1> DEFINE x == Head(s.said)
           q == Tail(s.said)
           n == [s EXCEPT !.said = q]
<1>0. s \in Runs /\ s.said \in Seq(Words)
  BY Zenon, Fields DEF Ledger
<1>1. q \in Seq(Words) /\ x \in Words /\ Range(s.said) = Range(q) \cup {x} /\ Sole(q) /\ ~In(q, x.id)
  <2>1. Sole(s.said)
    BY Zenon DEF Ledger, Spoken
  <2> QED BY Zenon, <1>0, <2>1, TailIds
<1> HIDE DEF q, x
<1>2. /\ n \in Runs /\ n.open = s.open /\ n.active = s.active /\ n.put = s.put /\ n.ops = s.ops
      /\ n.said = q /\ n.answered = s.answered
  BY Zenon, <1>0, <1>1 DEF Runs, Words
<1> HIDE DEF n
<1>3. \A u : (IsOpen(n, u) <=> IsOpen(s, u)) /\ (In(s.said, u) <=> In(n.said, u) \/ u = x.id)
  BY Zenon, <1>1, <1>2 DEF IsOpen, In
<1>4. Carrying(n, {}) /\ Phases(n, {})
  BY Zenon, <1>2, <1>3 DEF Ledger, Carrying, Carriers, Phases
<1>5. Spoken(n)
  BY Zenon, <1>1, <1>2, <1>3 DEF Ledger, Spoken
<1>6. ~IsOpen(s, x.id) /\ flight[x.id] # NoRequest /\ Honest(x.id, x.a, flight[x.id])
  BY Zenon, <1>1 DEF Ledger, Spoken
<1>7. Held(n) = Held(s) \ {x.id} /\ x.id \in Held(s)
  BY ZenonT(30), <1>1, <1>2, <1>3, <1>6 DEF Held, Words
<1> QED BY Zenon, <1>1, <1>2, <1>4, <1>5, <1>6, <1>7 DEF Ledger, n, q, x

\* open: a text that the run does not hold and the phone did not take is handed
\* over.
LEMMA OpenedL ==
    ASSUME NEW s, Ledger(s, {}), NEW t \in Texts, t \notin Held(s), NEW r \in Requests,
           flight[t] = r, r \notin tookOf
    PROVE  LET n == Open(Forget(s, t), t, r)
           IN  /\ Gained(s, n, t) /\ IsOpen(n, t) /\ \A p \in Carriers(n, {}) : p.id # t
<1> DEFINE f == Forget(s, t).answered
           y == [id |-> t, r |-> r, out |-> FALSE]
           n == Open(Forget(s, t), t, r)
<1>0. s \in Runs /\ s.answered \in Seq(Words) /\ s.open \subseteq OpenTexts
  BY Zenon, Fields DEF Ledger
<1>1. f \in Seq(Words) /\ Range(f) \subseteq Range(s.answered)
  <2>1. CASE AnswerAt(s, t) = {}
    BY Zenon, <1>0, <2>1 DEF Forget, Runs
  <2>2. CASE AnswerAt(s, t) # {}
    <3> DEFINE k == CHOOSE i \in AnswerAt(s, t) : TRUE
    <3>1. k \in DOMAIN s.answered
      BY Zenon, <2>2 DEF AnswerAt
    <3>2. f = Without(s.answered, k)
      BY Zenon, <1>0, <2>2 DEF Forget, Runs
    <3> HIDE DEF k, f
    <3>3. f \in Seq(Words) /\ Range(s.answered) = Range(f) \cup {s.answered[k]}
      BY <1>0, <3>1, <3>2, RemoveIds, Zenon
    <3> QED BY Zenon, <3>3
  <2> QED BY Zenon, <2>1, <2>2
<1>2. n = [s EXCEPT !.answered = f, !.open = s.open \cup {y}]
  BY Zenon, <1>0 DEF Forget, Open, Runs
<1>3. y \in OpenTexts /\ y.id = t /\ y.r = r /\ y.out = FALSE
  BY Zenon DEF OpenTexts
<1> HIDE DEF f, n, y
<1>4. /\ n \in Runs /\ n.open = s.open \cup {y} /\ n.active = s.active /\ n.put = s.put
      /\ n.ops = s.ops /\ n.said = s.said /\ n.answered = f
  <2>1. s.open \cup {y} \in SUBSET OpenTexts
    BY Zenon, <1>0, <1>3
  <2> QED BY Zenon, <1>0, <1>1, <1>2, <2>1 DEF Runs, Words
<1>5. ~IsOpen(s, t) /\ ~In(s.said, t)
  BY Zenon DEF Held
<1>6. \A u : IsOpen(n, u) <=> IsOpen(s, u) \/ u = t
  BY Zenon, <1>3, <1>4 DEF IsOpen
<1>7. Carriers(n, {}) = Carriers(s, {}) /\ \A p \in Carriers(n, {}) : p.id # t
  BY Zenon, <1>4, <1>5 DEF Ledger, Carrying, Carriers
<1>8. Carrying(n, {})
  <2>1. SoleIn(n.open)
    BY ZenonT(30), <1>3, <1>4, <1>5 DEF Ledger, Carrying, SoleIn, IsOpen
  <2> QED BY ZenonT(30), <1>4, <1>6, <1>7, <2>1 DEF Ledger, Carrying
<1>9. Phases(n, {})
  <2>1. \A op \in Range(s.ops) \cup s.active : op.id # t
    BY Zenon, <1>4, <1>7 DEF Carriers
  <2>2. ~Astray(r, t)
    BY Zenon DEF Astray
  <2> QED BY Zenon, <1>3, <1>4, <2>1, <2>2 DEF Ledger, Phases
<1>10. Spoken(n)
  <2>1. \A x \in Range(n.said) : ~IsOpen(n, x.id)
    BY Zenon, <1>4, <1>5, <1>6 DEF Ledger, Spoken, In
  <2> QED BY Zenon, <1>1, <1>4, <2>1 DEF Ledger, Spoken
<1>11. Held(n) = Held(s) \cup {t}
  BY Zenon, <1>4, <1>6 DEF Held
<1>12. Ledger(n, {}) /\ IsOpen(n, t)
  BY Zenon, <1>4, <1>6, <1>8, <1>9, <1>10 DEF Ledger
<1> QED BY Zenon, <1>4, <1>7, <1>11, <1>12 DEF Gained, n

\* SendSms: take_in opens, answers again or fails a text that the run did not
\* hold.
LEMMA TakeInL ==
    ASSUME NEW s, Ledger(s, {}), NEW t \in Texts, t \notin Held(s), NEW r \in Requests,
           flight[t] = r, r \notin tookOf, NEW fits \in BOOLEAN
    PROVE  Gained(s, TakeIn(s, t, r, fits), t)
<1> DEFINE again == {i \in AnswerAt(s, t) : s.answered[i].a # "failed"}
           m == Open(Forget(s, t), t, r)
           n == TakeIn(s, t, r, fits)
<1>0. s \in Runs /\ s.answered \in Seq(Words) /\ ~IsOpen(s, t)
  BY Zenon, Fields DEF Ledger, Held
<1>1. Gained(s, m, t) /\ IsOpen(m, t) /\ \A p \in Carriers(m, {}) : p.id # t
  BY Zenon, OpenedL
<1>2. CASE again # {}
  <2> DEFINE k == CHOOSE i \in again : TRUE
             a == s.answered[k].a
  <2>1. k \in again
    BY Zenon, <1>2
  <2>2. n = Say(s, t, a)
    BY <1>0, <1>2, Zenon DEF TakeIn
  <2> HIDE DEF k
  <2>3. k \in DOMAIN s.answered /\ s.answered[k].id = t /\ a # "failed"
    BY Zenon, <2>1 DEF AnswerAt
  <2>4. s.answered[k] \in Words /\ s.answered[k] \in Range(s.answered)
    BY SMTT(30), <1>0, <2>3 DEF Range
  <2>5. a \in Answers /\ Honest(t, a, flight[t])
    BY Zenon, <2>3, <2>4 DEF Words, Honest, Ledger, Spoken
  <2> HIDE DEF a
  <2>6. flight[t] # NoRequest
    BY Zenon, AttemptConstants
  <2> QED BY Zenon, <2>2, <2>5, <2>6, SayL
<1>3. CASE again = {} /\ ~fits
  <2>1. n = Failed(m, t)
    BY <1>0, <1>3, Zenon DEF TakeIn
  <2> HIDE DEF m, n
  <2>2. Ledger(Failed(m, t), {}) /\ Kept(m, Failed(m, t))
    BY Zenon, <1>1, FailedK DEF Gained
  <2> QED BY Zenon, <1>1, <2>1, <2>2 DEF Gained, Kept, n
<1>4. CASE again = {} /\ fits
  <2> DEFINE op == NewSend(t)
  <2>1. n = [m EXCEPT !.ops = Append(m.ops, op)]
    <3>1. m \in Runs
      BY Zenon, <1>1 DEF Gained, Ledger
    <3>2. n = [m EXCEPT !.ops = Append(@, op)]
      BY <1>0, <1>4, Zenon DEF TakeIn
    <3> HIDE DEF m, n, op
    <3> QED BY Zenon, <3>1, <3>2 DEF Runs
  <2>2. op \in Ops /\ op.id = t
    BY Zenon DEF NewSend, Ops, OpKinds, Snapshots
  <2>3. ASSUME NEW o \in m.open, o.id = t PROVE Cold(op, o)
    <3> HIDE DEF m
    <3>1. flight[o.id] = o.r
      BY Zenon, <1>1 DEF Gained, Ledger, Phases
    <3> QED BY Zenon, <2>3, <3>1 DEF Cold, Astray
  <2>4. Loose(m, {}, op)
    <3> HIDE DEF m, op
    <3> QED BY Zenon, <1>1, <2>2, <2>3 DEF Loose
  <2> HIDE DEF m, n, op
  <2>5. Good(m, n, {})
    BY <1>1, <2>1, <2>4, EnqueuedK, Zenon DEF Gained
  <2> QED BY Zenon, <1>1, <2>5 DEF Gained, Good, Kept, n
<1> QED BY Zenon, <1>2, <1>3, <1>4

\* SendSms after SendSms: a run takes in texts of which it holds none.
LEMMA TakeAllL ==
    ASSUME NEW s, Ledger(s, {}), NEW coming \in Seq(Pairs), Sole(coming),
           \A x \in Range(coming) : flight[x.id] = x.r /\ x.r \notin tookOf /\ x.id \notin Held(s)
    PROVE  Ledger(TakeAll(s, coming), {})
<1> DEFINE N == Len(coming)
           T(i) == {x \in Runs : Ledger(x, {}) /\ Held(x) = Held(s) \cup {coming[j].id : j \in 1..i}}
           step(x, i) == TakeIn(x, coming[i].id, coming[i].r, TRUE)
           g == [i \in 1..N |-> [x \in Runs |-> step(x, i)]]
           S == [i \in 0..N |-> T(i)]
           Rec(f) == f = [n \in 0..N |-> IF n = 0 THEN s ELSE TakeIn(f[n - 1], coming[n].id, coming[n].r, TRUE)]
           taken == CHOOSE f : Rec(f)
<1>1. TakeAll(s, coming) = taken[N]
  BY Zenon DEF TakeAll
<1>r. \A f : Rec(f) <=> f = [n \in 0..N |-> IF n = 0 THEN s ELSE step(f[n - 1], n)]
  BY Zenon
<1>3. N \in Nat /\ DOMAIN coming = 1..N /\ \A i \in 1..N : coming[i] \in Pairs /\ coming[i] \in Range(coming)
  BY DEF Range
<1>4. \A i \in 1..N : /\ coming[i].id \in Texts /\ coming[i].r \in Requests /\ coming[i].id \notin Held(s)
                      /\ flight[coming[i].id] = coming[i].r /\ coming[i].r \notin tookOf
  BY ZenonT(30), <1>3 DEF Pairs
<1>5. s \in T(0)
  BY DEF Ledger
<1>6. ASSUME NEW i \in 1..N, NEW x \in T(i - 1) PROVE step(x, i) \in T(i)
  <2> DEFINE t == coming[i].id
             J(k) == {coming[j].id : j \in 1..k}
  <2>1. Ledger(x, {}) /\ Held(x) = Held(s) \cup J(i - 1)
    BY Zenon, <1>6
  <2>2. J(i) = J(i - 1) \cup {t}
    <3>1. 1..i = 1..(i - 1) \cup {i}
      BY <1>3
    <3> QED BY Zenon, <3>1
  <2>3. t \notin J(i - 1)
    <3>1. \A j \in 1..(i - 1) : j \in DOMAIN coming /\ j # i /\ i \in DOMAIN coming
      BY SMTT(30), <1>3
    <3>2. \A j \in 1..(i - 1) : coming[j].id # t
      BY Zenon, <3>1 DEF Sole
    <3> QED BY Zenon, <3>2
  <2> HIDE DEF J
  <2>4. t \in Texts /\ coming[i].r \in Requests /\ t \notin Held(x)
        /\ flight[t] = coming[i].r /\ coming[i].r \notin tookOf
    BY Zenon, <1>4, <2>1, <2>3
  <2>5. Gained(x, step(x, i), t)
    BY <2>1, <2>4, TakeInL, Zenon
  <2> QED BY Zenon, <2>1, <2>2, <2>5 DEF Gained, Ledger, J
<1>7. \A i \in 0..N : T(i) \subseteq Runs
  BY Zenon
<1> HIDE DEF step, T
<1>8. /\ \A i \in 0..N : S[i] = T(i) /\ S[i] \subseteq Runs
      /\ \A i \in 1..N : i - 1 \in 0..N /\ \A x \in Runs : g[i][x] = step(x, i)
  BY SMTT(30), <1>3, <1>7
<1> HIDE DEF N, S, g, Rec
<1>9. s \in S[0] /\ \A i \in 1..N : \A x \in S[i - 1] : g[i][x] \in S[i]
  BY SMTT(30), <1>3, <1>5, <1>6, <1>8
<1>10. \E f : Rec(f)
  <2>1. PICK f : /\ IsFold(f, N, g, s)
                 /\ \A i \in 0..N : f[i] \in S[i]
    <3> DEFINE b == s
    <3>1. b \in S[0]
      BY Zenon, <1>9
    <3> HIDE DEF b
    <3>2. \E f : IsFold(f, N, g, b) /\ \A i \in 0..N : f[i] \in S[i]
      BY <1>3, <1>9, <3>1, Passes, Zenon
    <3> QED BY <3>2, Zenon DEF b
  <2>2. \A n \in 0..N : f[n] = IF n = 0 THEN s ELSE step(f[n - 1], n)
    <3>1. \A n \in 0..N : f[n] = IF n = 0 THEN s ELSE g[n][f[n - 1]]
      BY Zenon, <2>1 DEF IsFold
    <3>2. \A n \in 1..N : f[n - 1] \in Runs
      BY Zenon, <1>3, <1>8, <2>1
    <3> QED BY SMTT(30), <1>3, <1>8, <3>1, <3>2
  <2>3. f = [n \in 0..N |-> f[n]]
    BY Zenon, <2>1 DEF IsFold
  <2>4. f = [n \in 0..N |-> IF n = 0 THEN s ELSE step(f[n - 1], n)]
    BY Zenon, <2>2, <2>3
  <2>5. Rec(f)
    BY <1>r, <2>4, Zenon
  <2> QED BY <2>5, Zenon
<1>11. Rec(taken)
  BY <1>10, Zenon
<1> HIDE DEF taken
<1>12. taken = [n \in 0..N |-> IF n = 0 THEN s ELSE step(taken[n - 1], n)]
  BY <1>11, <1>r, Zenon
<1>13. taken[0] = s /\ \A i \in 1..N : taken[i - 1] \in S[i - 1] => taken[i] = g[i][taken[i - 1]]
  BY <1>3, <1>8, <1>12
<1>14. \A i \in 0..N : taken[i] \in S[i]
  BY <1>3, <1>9, <1>13, Passes, ZenonT(30)
<1>15. taken[N] \in T(N)
  BY <1>3, <1>8, <1>14
<1> QED BY Zenon, <1>1, <1>15 DEF T
=============================================================================
