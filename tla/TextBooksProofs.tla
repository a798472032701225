-------------------------- MODULE TextBooksProofs ---------------------------
(***************************************************************************)
(* Texts: the inductive invariant of the threads around the ledger, the    *)
(* connector, the outbox and the phone, and that it survives every step    *)
(* that leaves the ledger of the run alone or throws it away.  The steps   *)
(* of the runtime are in TextsProofs.                                      *)
(***************************************************************************)
EXTENDS Texts, TLAPS

--------------------------------------------------------------------------
(* The inductive invariant                                                 *)

\* The texts in the two channels, none of which the runtime has yet.
Queues ==
    /\ Sole(ctl) /\ Sole(cmds) /\ \A x \in Range(ctl) : ~In(cmds, x.id)
    /\ \A x \in Range(ctl) \cup Range(cmds) :
          flight[x.id] = x.r /\ x.r \notin tookOf /\ x.id \notin Held(run)

\* A copy at the phone is one it took.
PhoneOK == \A t \in Texts : phone[t].now # "none" \/ phone[t].then # "none" => phone[t].n > 0

\* Which thread is there, and what is gone with it.
Stations ==
    /\ radio # "up" => ctl = << >> /\ emitting = {} /\ run = NewRun /\ mode = "over"
    /\ radio = "none" => flight = Nobody
    /\ mode # "up" => run.open = {} /\ ~link
    /\ mode = "over" => cmds = << >>
    /\ ~link => run.active = {}
    /\ plugin = "down" => radio = "none" /\ conn = {} /\ sweeping = {} /\ live = {}
    /\ Single(conn) /\ Single(emitting)
    /\ \A c \in conn : c.at = "hand" => flight[TextOf[c.r]] = NoRequest
    /\ \A c \in conn : journal[c.r] # "none"
    /\ \A t \in Texts : flight[t] # NoRequest => TextOf[flight[t]] = t

\* What the host is told, or is about to be.
Told == outbox \cup live \cup emitting

\* A request that got as far as the radio has its row for good.
Used(r) ==
    \/ r \in tookOf \/ flight[TextOf[r]] = r \/ r \in Range(tries)
    \/ \E k \in Told : k.a = "failed" /\ k.r = r

\* A request in use has its reservation, and the connector is past handing it
\* over: a request id is used once.
Spent ==
    \A r \in Requests : Used(r) => journal[r] # "none" /\ \A c \in conn : c.r = r => c.at = "queued"

\* What is told is true, a definite failure names its attempt, and that attempt
\* is over.
Truth ==
    \A k \in Told :
        /\ Honest(k.id, k.a, k.r)
        /\ k.a = "failed" => k.r \in Requests /\ TextOf[k.r] = k.id /\ flight[k.id] # k.r
        /\ k.a # "failed" => k.r = NoRequest

\* The radio thread has taken an outcome of t and not written it.
Emitting(t) == \E k \in emitting : k.id = t

\* A text with an outcome is at rest.
Settled(t) ==
    /\ t \in sweeping /\ (flight[t] # NoRequest \/ Emitting(t)) => Slipped(t, {"swept"})
    /\ ~Slipped(t, {"raced", "swept"}) =>
          /\ HasOutcome(t) \/ Emitting(t) => flight[t] = NoRequest
          /\ HasOutcome(t) => ~Emitting(t) /\ t \notin sweeping
          /\ ~(Known(Key(t, "sent", NoRequest)) /\ Known(Key(t, "doubt", NoRequest)))

\* The attempts handed over, the one not yet recorded included.
AttemptsOf(q, C) ==
    IF \E c \in C : c.at = "queued" THEN Append(q, (CHOOSE c \in C : TRUE).r) ELSE q

Attempts == AttemptsOf(tries, conn)

\* r is the last attempt of its text in q.
LastIn(q, r) == \E i \in DOMAIN q : q[i] = r /\ \A j \in DOMAIN q : j > i => TextOf[q[j]] # TextOf[r]

\* No attempt is in q twice.
Inj(q) == \A i, j \in DOMAIN q : q[i] = q[j] => i = j

\* An attempt in flight is the last of its text, unless its result was not
\* recorded.
Order ==
    /\ Inj(Attempts)
    /\ \A t \in Texts : flight[t] # NoRequest =>
          /\ flight[t] \in Range(Attempts) => LastIn(Attempts, flight[t])
          /\ flight[t] \in Range(Attempts) \/ Slipped(t, {"unrecorded"})

\* The windows through which a text may be sent twice.
Doubles == {"moved", "raced", "unrecorded", "swept", "unsealed"}

\* Where a text that the phone took is kept from being sent again.
Where(t, r) ==
    \/ flight[t] = r /\ t \in Held(run)
    \/ \E k \in emitting : k.id = t /\ k.a # "failed"
    \/ HasOutcome(t)
    \/ radio = "dead" \/ plugin = "down" \/ t \in sweeping

\* Outside these windows the phone took a text once, and it has its outcome or
\* its last attempt is the one the phone took and is kept somewhere.
TakenOnce(t) ==
    phone[t].n > 0 /\ ~Slipped(t, Doubles) =>
        /\ phone[t].n = 1
        /\ \/ \E a \in {"sent", "doubt"} : Key(t, a, NoRequest) \in outbox
           \/ \E r \in tookOf : TextOf[r] = t /\ LastIn(Attempts, r) /\ Where(t, r)

\* The windows through which an outcome may be lost.
Losses == {"dropped", "unkept", "unsealed", "swept"}

\* OwedOrAnswered, for the attempts not yet recorded too, and with the attempt
\* that the carrier carries.
Owed(r) ==
    LET t == TextOf[r] IN
    \/ HasOutcome(t) \/ Known(Key(t, "failed", r))
    \/ flight[t] = r /\ (In(ctl, t) \/ In(cmds, t) \/ t \in Held(run))
    \/ \E k \in emitting : k.id = t /\ (k.a # "failed" \/ k.r = r)
    \/ radio = "dead" \/ plugin = "down" \/ t \in sweeping
    \/ Slipped(t, Losses)

\* The sweep asks about the last attempt only: that it failed for certain says
\* that the earlier ones were answered.
Earlier ==
    \A i, j \in DOMAIN Attempts :
        /\ i < j /\ TextOf[Attempts[i]] = TextOf[Attempts[j]]
        /\ Known(Key(TextOf[Attempts[j]], "failed", Attempts[j]))
        => \/ HasOutcome(TextOf[Attempts[j]])
           \/ Known(Key(TextOf[Attempts[j]], "failed", Attempts[i]))
           \/ Slipped(TextOf[Attempts[j]], Losses)

\* The inductive invariant.
IInv ==
    /\ TypeOK /\ PhoneOK /\ Ledger(run, {}) /\ Queues /\ Stations /\ Spent /\ Truth
    /\ (\A t \in Texts : Settled(t)) /\ Order /\ (\A t \in Texts : TakenOnce(t))
    /\ (\A r \in Range(Attempts) : Owed(r)) /\ Earlier

--------------------------------------------------------------------------
(* Queues                                                                  *)

\* push_back: the entries of a queue with one more, and that they stay of
\* different texts.
LEMMA Appended ==
    ASSUME NEW S, NEW q \in Seq(S), NEW x \in S
    PROVE  /\ Append(q, x) \in Seq(S)
           /\ Range(Append(q, x)) = Range(q) \cup {x}
           /\ Sole(q) /\ ~In(q, x.id) => Sole(Append(q, x))
<1> DEFINE p == Append(q, x)
<1>1. p \in Seq(S) /\ Len(p) = Len(q) + 1 /\ DOMAIN p = 1..(Len(q) + 1) /\ DOMAIN q = 1..Len(q)
  OBVIOUS
<1>2. \A i \in DOMAIN q : p[i] = q[i]
  OBVIOUS
<1>3. p[Len(q) + 1] = x
  OBVIOUS
<1> HIDE DEF p
<1>4. Range(p) = Range(q) \cup {x}
  BY <1>1, <1>2, <1>3 DEF Range
<1>5. ASSUME Sole(q), ~In(q, x.id) PROVE Sole(p)
  <2>1. \A i \in DOMAIN q : q[i].id # x.id
    BY Zenon, <1>5 DEF In, Range
  <2> QED BY <1>1, <1>2, <1>3, <1>5, <2>1 DEF Sole
<1> QED BY Zenon, <1>1, <1>4, <1>5 DEF p

\* pop_front: the entries of a queue without its first.
LEMMA Shortened ==
    ASSUME NEW S, NEW q \in Seq(S), q # << >>
    PROVE  /\ Tail(q) \in Seq(S) /\ Head(q) \in S
           /\ Range(q) = Range(Tail(q)) \cup {Head(q)}
           /\ Sole(q) => Sole(Tail(q)) /\ ~In(Tail(q), Head(q).id)
<1> DEFINE p == Tail(q)
<1>1. p \in Seq(S) /\ Len(q) = Len(p) + 1 /\ DOMAIN p = 1..Len(p) /\ DOMAIN q = 1..(Len(p) + 1)
  OBVIOUS
<1>2. \A i \in DOMAIN p : p[i] = q[i + 1]
  OBVIOUS
<1>3. Head(q) = q[1] /\ Head(q) \in S
  OBVIOUS
<1> HIDE DEF p
<1>a. Len(p) \in Nat
  BY <1>1
<1>b. \A i \in DOMAIN p : i + 1 \in DOMAIN q /\ i + 1 # 1
  BY <1>1, <1>a
<1>4. Range(q) = Range(p) \cup {Head(q)}
  <2>1. \A i \in DOMAIN q : i = 1 \/ (i - 1 \in DOMAIN p /\ q[i] = p[i - 1])
    BY <1>1, <1>2, <1>a
  <2>2. 1 \in DOMAIN q
    BY <1>1, <1>a
  <2> QED BY <1>2, <1>3, <1>b, <2>1, <2>2 DEF Range
<1>5. ASSUME Sole(q) PROVE Sole(p) /\ ~In(p, Head(q).id)
  <2>1. Sole(p)
    BY <1>1, <1>2, <1>5, <1>b DEF Sole
  <2>2. 1 \in DOMAIN q
    BY <1>1, <1>a
  <2>3. \A i \in DOMAIN p : p[i].id # Head(q).id
    BY Zenon, <1>2, <1>3, <1>5, <1>b, <2>2 DEF Sole
  <2> QED BY Zenon, <2>1, <2>3 DEF In, Range
<1> QED BY Zenon, <1>1, <1>3, <1>4, <1>5 DEF p

\* The entries of a queue of S are in S.
LEMMA Entries == ASSUME NEW S, NEW q \in Seq(S) PROVE Range(q) \subseteq S
BY DEF Range

\* The parts of a run's record have their types.
LEMMA RunFields ==
    ASSUME NEW s \in Runs
    PROVE  /\ s.open \subseteq OpenTexts /\ s.answered \in Seq(Words) /\ s.said \in Seq(Words)
           /\ s.ops \in Seq(Ops) /\ Range(s.ops) \subseteq Ops /\ s.active \subseteq Ops
           /\ s.put \in PutStates /\ s.quiet \in BOOLEAN
BY Zenon, Entries DEF Runs, Words

--------------------------------------------------------------------------
(* The ledger carries over                                                 *)

\* What a step may do to the rest when the ledger goes to s.
CarriesOver(s) ==
    /\ run' = s /\ tookOf' = tookOf /\ slips \subseteq slips'
    /\ \A t \in Held(s) : flight'[t] = flight[t]
    /\ \A t \in Texts : phone[t].n > 0 => phone'[t].n > 0
    /\ \A op \in s.active : phone'[op.id].now = phone[op.id].now
    /\ s.ops # << >> =>
          \A o \in s.open : Astray(o.r, o.id) => phone'[o.id].now = phone[o.id].now

\* The ledger goes to s while the channels, the phone and the plugin around it
\* take a step that CarriesOver allows: its invariant carries over.
LEMMA Transfer ==
    ASSUME NEW s, Ledger(s, {}), CarriesOver(s)
    PROVE  Ledger(run, {})'
<1>0. s \in Runs /\ run' = s /\ s.open \subseteq OpenTexts /\ s.said \in Seq(Words) /\ s.ops \in Seq(Ops)
      /\ s.answered \in Seq(Words)
  BY Zenon, RunFields DEF CarriesOver, Ledger
<1>1. Carrying(run, {})'
  BY Zenon, <1>0 DEF Ledger, Carrying, Carriers, IsOpen, In
<1>2. \A r, t : r \in tookOf' /\ ~Slipped(t, {"moved"})' => Astray(r, t)
  BY Zenon DEF CarriesOver, Astray, Slipped
<1>3. \A o \in s.open : o.id \in Texts /\ o.id \in Held(s)
  BY Zenon, <1>0 DEF OpenTexts, Held, IsOpen
<1>4. \A x \in Range(s.said) : x.id \in Texts /\ x.id \in Held(s)
  BY Zenon, <1>0, Entries DEF Words, Held, In
<1>5. Phases(run, {})'
  <2> SUFFICES ASSUME NEW o \in s.open
               PROVE  /\ Astray(o.r, o.id)' => o.out
                      /\ flight'[o.id] = o.r
                      /\ \A op \in Range(s.ops) : op.id = o.id => Cold(op, o)'
                      /\ \A op \in s.active : op.id = o.id => Hot(op, s.put, o)'
    BY Zenon, <1>0 DEF Phases
  <2>1. Astray(o.r, o.id)' => Astray(o.r, o.id)
    BY Zenon, <1>2 DEF Astray
  <2>2. s.ops # << >> => (Astray(o.r, o.id) => phone'[o.id].now = phone[o.id].now)
    BY Zenon DEF CarriesOver
  <2>3. flight'[o.id] = o.r /\ (Astray(o.r, o.id) => o.out)
    BY Zenon, <1>3 DEF CarriesOver, Ledger, Phases
  <2>4. ASSUME NEW op \in Range(s.ops), op.id = o.id PROVE Cold(op, o)'
    <3>1. s.ops # << >>
      BY <2>4 DEF Range
    <3>2. Cold(op, o)
      BY Zenon, <2>4 DEF Ledger, Phases
    <3> QED BY Zenon, <2>1, <2>2, <3>1, <3>2 DEF Cold
  <2>5. ASSUME NEW op \in s.active, op.id = o.id PROVE Hot(op, s.put, o)'
    <3>1. Hot(op, s.put, o)
      BY Zenon, <2>5 DEF Ledger, Phases
    <3>2. phone'[o.id].now = phone[o.id].now
      BY Zenon, <2>5 DEF CarriesOver
    <3> QED BY Zenon, <2>1, <3>1, <3>2 DEF Hot, Cold
  <2> QED BY Zenon, <2>1, <2>3, <2>4, <2>5
<1>6. Spoken(run)'
  <2>1. ASSUME NEW x \in Range(s.said)
        PROVE  flight'[x.id] # NoRequest /\ Honest(x.id, x.a, flight[x.id])'
    <3>1. flight[x.id] # NoRequest /\ Honest(x.id, x.a, flight[x.id]) /\ flight'[x.id] = flight[x.id]
      BY Zenon, <1>4 DEF Ledger, Spoken, CarriesOver
    <3>2. Astray(flight[x.id], x.id)' => Astray(flight[x.id], x.id)
      BY Zenon, <1>2, <3>1 DEF Astray
    <3> QED BY Zenon, <1>4, <3>1, <3>2 DEF Honest, CarriesOver
  <2>2. \A x \in Range(s.answered) : x.id \in Texts
    BY Zenon, <1>0, Entries DEF Words
  <2> QED BY Zenon, <1>0, <2>1, <2>2 DEF Ledger, Spoken, CarriesOver, IsOpen
<1> QED BY Zenon, <1>0, <1>1, <1>5, <1>6 DEF Ledger

\* The part of the invariant that the runtime's own steps rest on.
Base == TypeOK /\ PhoneOK /\ Ledger(run, {}) /\ Stations

\* What is known of the operation in flight.
LEMMA Active ==
    ASSUME Base, NEW op \in run.active
    PROVE  /\ link /\ mode = "up" /\ op \in Ops /\ op.id \in Texts /\ IsOpen(run, op.id)
           /\ \A o \in run.open : o.id = op.id => Hot(op, run.put, o)
<1>1. link /\ mode = "up"
  BY Zenon DEF Base, Stations
<1>2. op \in Ops /\ op.id \in Texts
  BY Zenon, RunFields DEF Base, Ledger, Ops
<1>3. IsOpen(run, op.id) /\ \A o \in run.open : o.id = op.id => Hot(op, run.put, o)
  BY Zenon DEF Base, Ledger, Carrying, Carriers, Phases
<1> QED BY Zenon, <1>1, <1>2, <1>3

\* The copies of each text at the phone.
PhoneType == [Texts -> [n : Nat, now : Slots, then : Slots, listed : BOOLEAN]]

\* A step that leaves run, phone and the attempts of its texts alone keeps the
\* ledger.
LEMMA SameRun ==
    ASSUME Base, UNCHANGED <<run, phone, tookOf>>, slips \subseteq slips',
           \A t \in Held(run) : flight'[t] = flight[t]
    PROVE  Ledger(run, {})' /\ Held(run)' = Held(run) /\ PhoneOK'
<1>1. Ledger(run, {})
  BY Zenon DEF Base
<1>2. CarriesOver(run)
  BY Zenon DEF CarriesOver
<1>3. Ledger(run, {})'
  BY Zenon, <1>1, <1>2, Transfer
<1> QED BY Zenon, <1>3 DEF Held, IsOpen, In, Base, PhoneOK

\* A new run holds nothing.
LEMMA NewRunL == Ledger(NewRun, {}) /\ Held(NewRun) = {} /\ NewRun \in Runs /\ NewRun.open = {} /\ NewRun.active = {}
<1>1. << >> \in Seq(Ops) /\ << >> \in Seq([id : Texts, a : Answers])
  OBVIOUS
<1>2. NewRun \in Runs
  BY Zenon, <1>1 DEF NewRun, Runs, PutStates
<1>3. NewRun.open = {} /\ NewRun.active = {} /\ NewRun.ops = << >> /\ NewRun.put = "none" /\ NewRun.said = << >>
      /\ NewRun.answered = << >>
  BY Zenon DEF NewRun
<1>4. Range(<< >>) = {} /\ Sole(<< >>) /\ \A t : ~In(<< >>, t)
  BY DEF Range, Sole, In
<1>5. Carrying(NewRun, {}) /\ Phases(NewRun, {}) /\ Spoken(NewRun)
  BY Zenon, <1>3, <1>4 DEF Carrying, Carriers, Phases, Spoken, SoleIn, Single
<1>6. Held(NewRun) = {}
  BY Zenon, <1>3, <1>4 DEF Held, IsOpen
<1> QED BY Zenon, <1>2, <1>3, <1>5, <1>6 DEF Ledger

\* A run that is gone with its thread holds nothing.
LEMMA GoneRun ==
    ASSUME Base, run' = NewRun, UNCHANGED <<phone, tookOf>>, slips \subseteq slips'
    PROVE  Ledger(run, {})' /\ Held(run)' = {} /\ PhoneOK'
<1> DEFINE s == NewRun
<1>1. Ledger(s, {}) /\ Held(s) = {} /\ s.open = {} /\ s.active = {} /\ run' = s
  BY Zenon, NewRunL
<1> HIDE DEF s
<1>2. CarriesOver(s)
  BY Zenon, <1>1 DEF CarriesOver
<1>3. Ledger(run, {})'
  BY Zenon, <1>1, <1>2, Transfer
<1> QED BY Zenon, <1>1, <1>3 DEF Held, IsOpen, In, Base, PhoneOK

\* The phone takes a copy of the attempt in hand, o.
Copies(o) ==
    /\ tookOf' = tookOf \cup {o.r} /\ o.r \in Requests /\ flight[o.id] = o.r /\ o.id \in Texts
    /\ phone' = [phone EXCEPT ![o.id] = TakesCopy(@)]
    /\ ~Astray(o.r, o.id) /\ o.id \in Held(run) /\ TextOf[o.r] = o.id

\* What PhoneAnswers does.
AnswersL ==
    /\ Ledger(run, {})' /\ Held(run)' = Held(run) /\ PhoneOK' /\ phone' \in PhoneType
    /\ UNCHANGED <<mode, link, cmds, elsewhere, slips>> /\ run'.active = run.active /\ run'.open = run.open
    /\ mode = "up" /\ link
    /\ UNCHANGED <<phone, tookOf>> \/ \E o \in run.open : Copies(o)

\* The phone's record of a text with one more copy.
LEMMA CopyL ==
    ASSUME NEW p \in [n : Nat, now : Slots, then : Slots, listed : BOOLEAN]
    PROVE  /\ TakesCopy(p) \in [n : Nat, now : Slots, then : Slots, listed : BOOLEAN]
           /\ TakesCopy(p).n > 0 /\ TakesCopy(p).now = "outbox" /\ TakesCopy(p).n = p.n + 1
<1> DEFINE m == p.n + 1
<1>1. TakesCopy(p) = [p EXCEPT !.n = m, !.now = "outbox"] /\ "outbox" \in Slots
  BY Zenon DEF TakesCopy, Slots
<1>2. m \in Nat /\ m > 0
  OBVIOUS
<1> HIDE DEF m
<1>3. TakesCopy(p) \in [n : Nat, now : Slots, then : Slots, listed : BOOLEAN]
  BY Zenon, <1>1, <1>2
<1>4. TakesCopy(p).n = m /\ TakesCopy(p).now = "outbox"
  BY Zenon, <1>1
<1> QED BY Zenon, <1>2, <1>3, <1>4 DEF m

\* PhoneAnswers: the phone takes a copy of the attempt in flight that it did
\* not have, or refuses it.
LEMMA AnswersOK == ASSUME Base, PhoneAnswers PROVE AnswersL
<1>1. PICK op \in run.active :
        /\ run.put = "out"
        /\ \/ /\ run' = [run EXCEPT !.put = "taken"]
              /\ phone' = [phone EXCEPT ![op.id] = TakesCopy(@)]
              /\ tookOf' = tookOf \cup {o.r : o \in {x \in run.open : x.id = op.id}}
           \/ /\ \E a \in {"refused", "erred"} : run' = [run EXCEPT !.put = a]
              /\ UNCHANGED <<phone, tookOf>>
        /\ UNCHANGED <<mode, link, cmds, elsewhere, slips>>
  BY Zenon DEF PhoneAnswers
<1>2. link /\ mode = "up" /\ op \in Ops /\ op.id \in Texts /\ IsOpen(run, op.id)
  BY Zenon, Active
<1>3. PICK o \in run.open : o.id = op.id
  BY Zenon, <1>2 DEF IsOpen
<1>4. op.k = "send" /\ o.out /\ ~Astray(o.r, o.id)
  BY Zenon, <1>1, <1>3, Active DEF Hot
<1>5. run \in Runs /\ run.open \subseteq OpenTexts /\ Ledger(run, {}) /\ phone \in PhoneType
      /\ run.active \subseteq Ops /\ run.said \in Seq(Words) /\ run.answered \in Seq(Words)
  BY Zenon, RunFields DEF Base, Ledger, TypeOK, PhoneType
<1>6. o.r \in Requests /\ flight[o.id] = o.r /\ o.id \in Texts /\ TextOf[o.r] = o.id
  <2>1. o.r \in Requests /\ flight[o.id] = o.r /\ o.id \in Texts
    BY Zenon, <1>5 DEF OpenTexts, Ledger, Phases
  <2> QED BY Zenon, <2>1, TextConstants, AttemptConstants DEF Base, Stations
<1>7. {x \in run.open : x.id = op.id} = {o}
  BY Zenon, <1>3, <1>5 DEF Ledger, Carrying, SoleIn
<1>8. o.id \in Held(run)
  BY Zenon, <1>6 DEF Held, IsOpen
<1>9. PICK a \in {"taken", "refused", "erred"} :
         /\ run' = [run EXCEPT !.put = a]
         /\ \/ a = "taken" /\ Copies(o)
            \/ a # "taken" /\ UNCHANGED <<phone, tookOf>>
  <2>1. CASE /\ run' = [run EXCEPT !.put = "taken"]
             /\ phone' = [phone EXCEPT ![op.id] = TakesCopy(@)]
             /\ tookOf' = tookOf \cup {x.r : x \in {y \in run.open : y.id = op.id}}
    <3>1. tookOf' = tookOf \cup {o.r}
      BY Zenon, <1>7, <2>1
    <3>2. Copies(o)
      BY Zenon, <1>3, <1>4, <1>6, <1>8, <2>1, <3>1 DEF Copies
    <3> QED BY Zenon, <2>1, <3>2
  <2>2. CASE /\ \E a \in {"refused", "erred"} : run' = [run EXCEPT !.put = a]
             /\ UNCHANGED <<phone, tookOf>>
    BY Zenon, <2>2
  <2> QED BY Zenon, <1>1, <2>1, <2>2
<1>10. /\ run' \in Runs /\ run'.open = run.open /\ run'.active = run.active /\ run'.ops = run.ops
       /\ run'.said = run.said /\ run'.answered = run.answered /\ run'.put = a
  BY Zenon, <1>5, <1>9 DEF Runs, PutStates
<1>11. phone' \in PhoneType /\ \A t \in Texts : /\ phone[t].n > 0 => phone'[t].n > 0
                                                /\ t # o.id => phone'[t] = phone[t]
       /\ (a = "taken" => phone'[o.id].now = "outbox" /\ phone'[o.id].n > 0)
  <2>1. CASE Copies(o)
    <3> DEFINE p == phone[o.id]
    <3>1. p \in [n : Nat, now : Slots, then : Slots, listed : BOOLEAN]
      BY Zenon, <1>5, <1>6 DEF PhoneType
    <3> HIDE DEF p
    <3>2. /\ TakesCopy(p) \in [n : Nat, now : Slots, then : Slots, listed : BOOLEAN]
          /\ TakesCopy(p).n > 0 /\ TakesCopy(p).now = "outbox"
      BY Zenon, <3>1, CopyL
    <3>3. phone' = [phone EXCEPT ![o.id] = TakesCopy(p)]
      BY Zenon, <2>1 DEF Copies, p
    <3> QED BY Zenon, <1>5, <1>6, <3>2, <3>3 DEF PhoneType
  <2>2. CASE a # "taken" /\ UNCHANGED <<phone, tookOf>>
    BY Zenon, <1>5, <2>2
  <2> QED BY Zenon, <1>9, <2>1, <2>2
<1>12. tookOf' \subseteq tookOf \cup {o.r} /\ (a # "taken" => tookOf' = tookOf)
  BY Zenon, <1>9 DEF Copies
<1>13. \A t \in Texts : t # o.id => flight[t] # o.r
  BY Zenon, <1>6, TextConstants, AttemptConstants DEF Base, Stations
<1>14. \A r, t : r # o.r \/ a # "taken" => (Astray(r, t)' <=> Astray(r, t))
  <2>1. UNCHANGED slips
    BY Zenon, <1>1
  <2>2. tookOf \subseteq tookOf'
    BY Zenon, <1>9 DEF Copies
  <2> QED BY Zenon, <1>12, <2>1, <2>2 DEF Astray, Slipped
<1>15. flight' = flight
  BY Zenon, <1>1 DEF elsewhere, radioVars
<1>16. Phases(run, {})'
  <2> SUFFICES ASSUME NEW q \in run.open
               PROVE  /\ Astray(q.r, q.id)' => q.out
                      /\ flight'[q.id] = q.r
                      /\ \A p \in Range(run.ops) : p.id = q.id => Cold(p, q)'
                      /\ \A p \in run.active : p.id = q.id => Hot(p, a, q)'
    BY Zenon, <1>10 DEF Phases
  <2>1. /\ Astray(q.r, q.id) => q.out
        /\ flight[q.id] = q.r
        /\ \A p \in Range(run.ops) : p.id = q.id => Cold(p, q)
        /\ \A p \in run.active : p.id = q.id => Hot(p, run.put, q)
    BY Zenon, <1>5 DEF Ledger, Phases
  <2>2. run.active = {op} /\ ~In(run.ops, op.id)
    BY Zenon, <1>5 DEF Ledger, Carrying, Single
  <2>3. CASE q = o
    <3>1. \A p \in Range(run.ops) : p.id # o.id
      BY Zenon, <1>3, <2>2 DEF In
    <3>2. Hot(op, a, o)'
      <4>1. a # "none" /\ (a # "taken" => ~Astray(o.r, o.id)')
        BY Zenon, <1>4, <1>14
      <4>2. a = "taken" => phone'[o.id].now # "none"
        BY Zenon, <1>6, <1>11
      <4> QED BY Zenon, <1>4, <4>1, <4>2 DEF Hot
    <3> QED BY Zenon, <1>4, <1>15, <2>1, <2>2, <2>3, <3>1, <3>2
  <2>4. CASE q # o
    <3>1. q.id # o.id /\ q.id \in Texts
      BY Zenon, <1>5, <2>4 DEF Ledger, Carrying, SoleIn, OpenTexts
    <3>2. q.r # o.r
      BY Zenon, <1>13, <2>1, <3>1
    <3>3. phone'[q.id] = phone[q.id] /\ (Astray(q.r, q.id)' <=> Astray(q.r, q.id))
      BY Zenon, <1>11, <1>14, <3>1, <3>2
    <3>4. \A p \in Range(run.ops) : p.id = q.id => Cold(p, q)'
      BY Zenon, <2>1, <3>3 DEF Cold
    <3>5. \A p \in run.active : p.id # q.id
      BY Zenon, <1>3, <2>2, <3>1
    <3> QED BY Zenon, <1>15, <2>1, <3>3, <3>4, <3>5
  <2> QED BY Zenon, <2>3, <2>4
<1>17. Spoken(run)'
  <2>1. ASSUME NEW x \in Range(run.said)
        PROVE  flight'[x.id] # NoRequest /\ Honest(x.id, x.a, flight[x.id])'
    <3>1. x.id \in Texts /\ x.id # o.id
      <4>1. x \in Words
        BY Zenon, <1>5, Entries
      <4>2. x.id \in Texts
        BY Zenon, <4>1 DEF Words
      <4>3. ~IsOpen(run, x.id)
        BY Zenon, <1>5 DEF Ledger, Spoken
      <4> QED BY Zenon, <4>2, <4>3 DEF IsOpen
    <3>2. flight[x.id] # o.r
      BY Zenon, <1>13, <3>1
    <3> QED BY Zenon, <1>5, <1>11, <1>14, <1>15, <3>1, <3>2 DEF Ledger, Spoken, Honest
  <2>2. \A x \in Range(run.answered) : x.id \in Texts
    BY Zenon, <1>5, Entries DEF Words
  <2> QED BY Zenon, <1>5, <1>10, <1>11, <2>1, <2>2 DEF Ledger, Spoken, IsOpen
<1>18. Carrying(run, {})'
  BY Zenon, <1>5, <1>10, <1>1 DEF Ledger, Carrying, Carriers, In, IsOpen
<1>19. Ledger(run, {})'
  BY Zenon, <1>5, <1>10, <1>16, <1>17, <1>18 DEF Ledger
<1>20. Held(run)' = Held(run)
  BY Zenon, <1>10 DEF Held, IsOpen, In
<1>21. PhoneOK'
  <2> SUFFICES ASSUME NEW t \in Texts PROVE phone'[t].now # "none" \/ phone'[t].then # "none" => phone'[t].n > 0
    BY Zenon DEF PhoneOK
  <2>1. CASE a = "taken" /\ t = o.id
    BY Zenon, <1>11, <2>1
  <2>2. CASE ~(a = "taken" /\ t = o.id)
    <3>1. phone'[t] = phone[t]
      BY Zenon, <1>9, <1>11, <2>2
    <3> QED BY Zenon, <3>1 DEF Base, PhoneOK
  <2> QED BY Zenon, <2>1, <2>2
<1>22. UNCHANGED <<phone, tookOf>> \/ Copies(o)
  BY Zenon, <1>9
<1> QED BY Zenon, <1>1, <1>2, <1>10, <1>11, <1>19, <1>20, <1>21, <1>22 DEF AnswersL

--------------------------------------------------------------------------
(* Attempts and their order                                                *)

\* The requests that the connector may have in hand.
Asks == [r : Requests, at : {"outcome", "flight", "hand", "queued", "again"}]

\* The attempts are the recorded ones and the one in hand that was handed over.
LEMMA AttemptsOfL ==
    ASSUME NEW q \in Seq(Requests), NEW C \in SUBSET Asks, Single(C)
    PROVE  /\ \A c \in C : c.at = "queued" => AttemptsOf(q, C) = Append(q, c.r)
           /\ (\A c \in C : c.at # "queued") => AttemptsOf(q, C) = q
           /\ AttemptsOf(q, C) \in Seq(Requests)
           /\ Range(q) \subseteq Range(AttemptsOf(q, C))
<1>1. ASSUME NEW c \in C, c.at = "queued"
      PROVE  AttemptsOf(q, C) = Append(q, c.r) /\ c.r \in Requests
  <2>1. (CHOOSE x \in C : TRUE) = c
    BY Zenon DEF Single
  <2> QED BY Zenon, <1>1, <2>1 DEF AttemptsOf, Asks
<1>2. (\A c \in C : c.at # "queued") => AttemptsOf(q, C) = q
  BY Zenon DEF AttemptsOf
<1>3. ASSUME NEW x \in Requests PROVE Append(q, x) \in Seq(Requests) /\ Range(q) \subseteq Range(Append(q, x))
  BY Appended
<1> QED BY Zenon, <1>1, <1>2, <1>3

\* The places of a sequence with one more.
LEMMA AppendAt ==
    ASSUME NEW q \in Seq(Requests), NEW x \in Requests
    PROVE  /\ DOMAIN Append(q, x) = DOMAIN q \cup {Len(q) + 1} /\ DOMAIN q = 1..Len(q) /\ Len(q) \in Nat
           /\ \A i \in DOMAIN q : Append(q, x)[i] = q[i] /\ i < Len(q) + 1 /\ i # Len(q) + 1 /\ i \in Nat
                                  /\ q[i] \in Requests
           /\ Append(q, x)[Len(q) + 1] = x
OBVIOUS

\* One more attempt is the last of its text and of no other.
LEMMA LastAppend ==
    ASSUME NEW q \in Seq(Requests), NEW x \in Requests
    PROVE  /\ Append(q, x) \in Seq(Requests) /\ Range(Append(q, x)) = Range(q) \cup {x}
           /\ LastIn(Append(q, x), x)
           /\ \A r : LastIn(q, r) /\ TextOf[r] # TextOf[x] => LastIn(Append(q, x), r)
           /\ \A r : LastIn(Append(q, x), r) /\ r # x => LastIn(q, r) /\ TextOf[r] # TextOf[x]
           /\ Inj(Append(q, x)) <=> Inj(q) /\ x \notin Range(q)
<1> DEFINE p == Append(q, x)
           N == Len(q) + 1
<1>1. /\ DOMAIN p = DOMAIN q \cup {N} /\ N \in Nat
      /\ \A i \in DOMAIN q : p[i] = q[i] /\ i < N /\ i # N /\ i \in Nat /\ q[i] \in Requests
      /\ p[N] = x
  BY AppendAt
<1>2. p \in Seq(Requests) /\ Range(p) = Range(q) \cup {x}
  BY Appended
<1> HIDE DEF p, N
<1>3. LastIn(p, x)
  <2>1. \A j \in DOMAIN p : ~(j > N)
    BY <1>1
  <2> QED BY Zenon, <1>1, <2>1 DEF LastIn
<1>4. ASSUME NEW r, LastIn(q, r), TextOf[r] # TextOf[x] PROVE LastIn(p, r)
  BY Zenon, <1>1, <1>4 DEF LastIn
<1>5. ASSUME NEW r, LastIn(p, r), r # x PROVE LastIn(q, r) /\ TextOf[r] # TextOf[x]
  <2>1. PICK i \in DOMAIN p : p[i] = r /\ \A j \in DOMAIN p : j > i => TextOf[p[j]] # TextOf[r]
    BY Zenon, <1>5 DEF LastIn
  <2>2. i \in DOMAIN q /\ q[i] = r /\ N > i
    BY Zenon, <1>1, <1>5, <2>1
  <2>3. \A j \in DOMAIN q : j > i => TextOf[q[j]] # TextOf[r]
    BY Zenon, <1>1, <2>1
  <2> QED BY Zenon, <1>1, <2>1, <2>2, <2>3 DEF LastIn
<1>6. Inj(p) <=> Inj(q) /\ x \notin Range(q)
  <2>1. ASSUME Inj(p) PROVE Inj(q) /\ x \notin Range(q)
    BY Zenon, <1>1, <2>1 DEF Inj, Range
  <2>2. ASSUME Inj(q), x \notin Range(q) PROVE Inj(p)
    <3>1. \A i \in DOMAIN q : q[i] # x
      BY Zenon, <2>2 DEF Range
    <3> QED BY Zenon, <1>1, <2>2, <3>1 DEF Inj
  <2> QED BY Zenon, <2>1, <2>2
<1> QED BY Zenon, <1>2, <1>3, <1>4, <1>5, <1>6 DEF p

\* A text has one last attempt.
LEMMA LastSame ==
    ASSUME NEW q \in Seq(Requests), NEW r, NEW u, LastIn(q, r), LastIn(q, u), TextOf[r] = TextOf[u]
    PROVE  r = u
<1>1. PICK i \in DOMAIN q : q[i] = r /\ \A j \in DOMAIN q : j > i => TextOf[q[j]] # TextOf[r]
  BY Zenon DEF LastIn
<1>2. PICK k \in DOMAIN q : q[k] = u /\ \A j \in DOMAIN q : j > k => TextOf[q[j]] # TextOf[u]
  BY Zenon DEF LastIn
<1>3. i \in Nat /\ k \in Nat
  OBVIOUS
<1>4. i = k
  BY <1>1, <1>2, <1>3
<1> QED BY Zenon, <1>1, <1>2, <1>4

\* The places that LastTry chooses from.
Lasts(q, t) == {i \in DOMAIN q : TextOf[q[i]] = t /\ \A j \in (i + 1)..Len(q) : TextOf[q[j]] # t}

\* LastTry (the later row of the journal wins in texts_left_open) is the last
\* attempt; TextsProofs shows it by induction.
LastTries ==
    \A r \in Range(tries) :
        /\ LastTry(TextOf[r]) \in Range(tries) /\ TextOf[LastTry(TextOf[r])] = TextOf[r]
        /\ LastIn(tries, LastTry(TextOf[r]))
        /\ LastIn(tries, r) => LastTry(TextOf[r]) = r

--------------------------------------------------------------------------
(* Steps that only move texts about                                        *)

\* What is known and owed of each text.
Books ==
    /\ Truth /\ (\A t \in Texts : Settled(t)) /\ Order /\ (\A t \in Texts : TakenOnce(t))
    /\ (\A r \in Range(Attempts) : Owed(r)) /\ Earlier

\* A thread or a channel has the text.
Carries(t) == In(ctl, t) \/ In(cmds, t) \/ t \in Held(run)

\* A step that only moves texts about.
Frame ==
    /\ UNCHANGED <<tookOf, flight, emitting, sweeping, outbox, live>> /\ Attempts' = Attempts
    /\ slips \subseteq slips'
    /\ radio = "dead" => radio' = "dead"
    /\ plugin = "down" => plugin' = "down"
    /\ \A t \in Texts : phone'[t].n = phone[t].n
    /\ Held(run) \subseteq Held(run)'
    /\ \A t \in Texts : Carries(t) => Carries(t)' \/ Slipped(t, Losses)'

\* A slip is not forgotten.
LEMMA SlipsStay ==
    ASSUME slips \subseteq slips'
    PROVE  \A t, W : Slipped(t, W) => Slipped(t, W)'
BY Zenon DEF Slipped

\* What is known depends on the outbox and the live keys only.
LEMMA KnownSame ==
    ASSUME UNCHANGED <<outbox, live>>
    PROVE  (\A k : Known(k)' <=> Known(k)) /\ (\A t : HasOutcome(t)' <=> HasOutcome(t))
BY Zenon DEF Known, HasOutcome

\* The attempts are requests; recording the one in hand leaves them as they
\* are.
LEMMA AttemptsType ==
    ASSUME TypeOK, Stations
    PROVE  /\ Attempts \in Seq(Requests) /\ Range(tries) \subseteq Range(Attempts)
           /\ \A r \in Range(Attempts) : r \in Requests /\ TextOf[r] \in Texts
           /\ \A i \in DOMAIN Attempts : Attempts[i] \in Range(Attempts) /\ i \in Nat
           /\ \A c \in conn : c.at = "queued" => Attempts = Append(tries, c.r)
           /\ (\A c \in conn : c.at # "queued") => Attempts = tries
<1>1. tries \in Seq(Requests) /\ conn \in SUBSET Asks /\ Single(conn)
  BY Zenon DEF TypeOK, Asks, Stations
<1>2. /\ Attempts \in Seq(Requests) /\ Range(tries) \subseteq Range(Attempts)
      /\ \A c \in conn : c.at = "queued" => Attempts = Append(tries, c.r)
      /\ (\A c \in conn : c.at # "queued") => Attempts = tries
  BY Zenon, <1>1, AttemptsOfL DEF Attempts
<1>3. Range(Attempts) \subseteq Requests
  BY Zenon, <1>2, Entries
<1>4. \A i \in DOMAIN Attempts : Attempts[i] \in Range(Attempts) /\ i \in Nat
  BY <1>2 DEF Range
<1> QED BY Zenon, <1>2, <1>3, <1>4, TextConstants, AttemptConstants

\* A step that only moves texts about keeps what is known and owed of each.
LEMMA FrameL ==
    ASSUME Base, Books, Frame
    PROVE  Books'
<1>1. UNCHANGED <<tookOf, flight, emitting, sweeping, outbox, live>> /\ Attempts' = Attempts
      /\ (radio = "dead" => radio' = "dead") /\ (plugin = "down" => plugin' = "down")
      /\ (\A t \in Texts : phone'[t].n = phone[t].n)
  BY Zenon DEF Frame
<1>2. \A t, W : Slipped(t, W) => Slipped(t, W)'
  BY Zenon, SlipsStay DEF Frame
<1>3. (\A k : Known(k)' <=> Known(k)) /\ (\A t : HasOutcome(t)' <=> HasOutcome(t))
  BY Zenon, <1>1, KnownSame
<1>4. Told' = Told /\ Told \subseteq Keys /\ \A t : Emitting(t)' <=> Emitting(t)
  BY Zenon, <1>1 DEF Told, Emitting, TypeOK, Base
<1>5. Truth'
  <2>1. \A r, t : Astray(r, t)' => Astray(r, t)
    BY Zenon, <1>1, <1>2 DEF Astray
  <2>2. \A k \in Told : k.id \in Texts
    BY Zenon, <1>4 DEF Keys
  <2> QED BY Zenon, <1>1, <1>4, <2>1, <2>2 DEF Books, Truth, Honest
<1>6. \A t \in Texts : Settled(t)'
  BY Zenon, <1>1, <1>2, <1>3, <1>4 DEF Books, Settled
<1>7. Order'
  BY Zenon, <1>1, <1>2 DEF Books, Order
<1>8. \A t \in Texts : TakenOnce(t)'
  <2>1. \A t \in Texts : \A r : Where(t, r) => Where(t, r)'
    BY Zenon, <1>1, <1>3 DEF Where, Frame
  <2> QED BY Zenon, <1>1, <1>2, <2>1 DEF Books, TakenOnce
<1>9. \A r \in Range(Attempts)' : Owed(r)'
  <2> SUFFICES ASSUME NEW r \in Range(Attempts) PROVE Owed(r)'
    BY Zenon, <1>1
  <2> DEFINE t == TextOf[r]
  <2>1. Owed(r)
    BY Zenon DEF Books
  <2>2. flight[t] = r /\ Carries(t) => flight'[t] = r /\ (Carries(t)' \/ Slipped(t, Losses)')
    <3>1. t \in Texts
      BY Zenon, AttemptsType DEF Base
    <3> QED BY Zenon, <1>1, <3>1 DEF Frame
  <2> QED BY Zenon, <1>1, <1>2, <1>3, <2>1, <2>2 DEF Owed, Carries
<1>10. Earlier'
  BY Zenon, <1>1, <1>2, <1>3 DEF Books, Earlier
<1> QED BY Zenon, <1>5, <1>6, <1>7, <1>8, <1>9, <1>10 DEF Books

--------------------------------------------------------------------------
(* The runtime's and the phone's steps keep the invariant                  *)

\* The threads' part of the invariant.
Mech == Base /\ Queues /\ Spent

\* The windows.
SlipType == [id : Texts, why : {"raced", "unrecorded", "moved", "dropped", "unkept", "swept", "unsealed"}]

\* The windows of a set of texts.
LEMMA SlipL ==
    ASSUME NEW S \in SUBSET Texts,
           NEW w \in {"raced", "unrecorded", "moved", "dropped", "unkept", "swept", "unsealed"}
    PROVE  Slip(S, w) \subseteq SlipType /\ \A t \in S : [id |-> t, why |-> w] \in Slip(S, w)
BY Zenon DEF Slip, SlipType

\* The bound on faults is kept.
LEMMA FaultsL ==
    ASSUME TypeOK, Fault \/ UNCHANGED faults
    PROVE  faults' \in 0..MaxFaults
BY TextConstants, AttemptConstants DEF TypeOK, Fault

\* No step forgets a slip, and each takes one fault at most.
Bounds == faults' \in 0..MaxFaults /\ slips \subseteq slips' /\ slips' \subseteq SlipType

\* A step through no window keeps the bounds.
LEMMA NoSlip ==
    ASSUME TypeOK, Fault \/ UNCHANGED faults, UNCHANGED slips
    PROVE  Bounds
BY Zenon, FaultsL DEF Bounds, TypeOK, SlipType

--------------------------------------------------------------------------
(* The connector                                                           *)

\* A step of the connector alone.
Quiet == UNCHANGED <<runVars, radioVars, hostVars, plugin, sweeping>> /\ Bounds

\* The parts of an event's key: sms_attempt_failed_key names the attempt, the
\* other keys only the text.
LEMMA KeyL ==
    /\ \A t, a, r : Key(t, a, r).id = t /\ Key(t, a, r).a = a
    /\ \A t, r : Key(t, "failed", r).r = r
    /\ \A t, a, r : a # "failed" => Key(t, a, r).r = NoRequest /\ Key(t, a, r) = Key(t, a, NoRequest)
BY Zenon DEF Key

\* A text that the run holds is in texts_in_flight.
LEMMA HeldInFlight ==
    ASSUME Ledger(run, {})
    PROVE  \A t \in Held(run) : flight[t] # NoRequest
<1>1. run.open \subseteq OpenTexts
  BY Zenon, RunFields DEF Ledger
<1>2. \A o \in run.open : flight[o.id] \in Requests
  BY Zenon, <1>1 DEF Ledger, Phases, OpenTexts
<1>3. \A x \in Range(run.said) : flight[x.id] # NoRequest
  BY Zenon DEF Ledger, Spoken
<1> QED BY Zenon, <1>2, <1>3, TextConstants, AttemptConstants DEF Held, IsOpen, In

\* What a step of the connector alone leaves.
LEMMA QuietSame ==
    ASSUME Quiet
    PROVE  /\ UNCHANGED <<run, mode, link, cmds, phone, tookOf, radio, ctl, flight, emitting, plugin, sweeping,
                          outbox, live>>
           /\ faults' \in 0..MaxFaults /\ slips \subseteq slips' /\ slips' \subseteq SlipType
BY Zenon DEF Quiet, runVars, radioVars, hostVars, Bounds

\* A step of the connector keeps the threads' part when the request in hand is
\* reserved and a used one is past handing over.
LEMMA QuietMech ==
    ASSUME Mech, Quiet, conn' \subseteq Asks, Single(conn'), plugin = "down" => conn' = {},
           \A c \in conn' : (c.at = "hand" => flight[TextOf[c.r]] = NoRequest) /\ journal'[c.r] # "none",
           journal' \in [Requests -> {"none", "pending", "queued", "done"}], tries' \in Seq(Requests),
           \A r \in Requests : Used(r)' => journal'[r] # "none" /\ \A c \in conn' : c.r = r => c.at = "queued"
    PROVE  Mech'
<1>1. Base /\ Queues /\ TypeOK /\ Stations
  BY Zenon DEF Mech, Base
<1>2. UNCHANGED <<run, mode, link, cmds, phone, tookOf, radio, ctl, flight, emitting, plugin, sweeping, outbox, live>>
      /\ faults' \in 0..MaxFaults /\ slips \subseteq slips' /\ slips' \subseteq SlipType
  BY Zenon, QuietSame
<1>3. Ledger(run, {})' /\ Held(run)' = Held(run) /\ PhoneOK'
  BY Zenon, <1>1, <1>2, SameRun
<1>4. TypeOK'
  BY Zenon, <1>1, <1>2 DEF TypeOK, Asks, SlipType
<1>5. Stations'
  BY Zenon, <1>1, <1>2 DEF Stations
<1>6. Queues'
  BY Zenon, <1>1, <1>2, <1>3 DEF Queues
<1>7. Spent'
  BY Zenon DEF Spent
<1> QED BY Zenon, <1>3, <1>4, <1>5, <1>6, <1>7 DEF Mech, Base

\* ... and what is known and owed, when it makes no attempt.
LEMMA QuietBooks ==
    ASSUME Base, Books, Quiet, Attempts' = Attempts
    PROVE  Books'
<1>1. UNCHANGED <<run, mode, link, cmds, phone, tookOf, radio, ctl, flight, emitting, plugin, sweeping, outbox, live>>
      /\ slips \subseteq slips'
  BY Zenon, QuietSame
<1>2. Held(run)' = Held(run)
  BY Zenon, <1>1 DEF Held, IsOpen, In
<1>3. Frame
  BY Zenon, <1>1, <1>2 DEF Frame, Carries, In
<1> QED BY Zenon, <1>3, FrameL

\* ... and uses no request.
LEMMA UsedSame ==
    ASSUME Quiet, UNCHANGED tries
    PROVE  \A r : Used(r)' <=> Used(r)
BY Zenon, QuietSame DEF Used, Told

\* The connector has one request in hand.
LEMMA Unchosen ==
    ASSUME TypeOK, Stations, NEW c \in conn
    PROVE  c \in Asks /\ conn = {c} /\ c.r \in Requests /\ TextOf[c.r] \in Texts /\ plugin = "up"
BY TextConstants, AttemptConstants DEF TypeOK, Stations, Single, Asks

\* When none in hand was handed over the attempts are the recorded ones.
LEMMA NoAttempt ==
    ASSUME TypeOK, tries' \in Seq(Requests), conn' \in SUBSET Asks, Single(conn'), \A c \in conn' : c.at # "queued"
    PROVE  Attempts' = tries'
BY Zenon, AttemptsOfL DEF Attempts

\* Ask (the journal's reservation) keeps the invariant.
LEMMA AskOK == ASSUME Mech, Books, NEW r \in Requests, Ask(r) PROVE Mech' /\ Books'
<1>1. Base /\ TypeOK /\ Stations /\ Spent
  BY Zenon DEF Mech, Base
<1>2. /\ plugin = "up" /\ conn = {} /\ journal[r] = "none" /\ conn' = {[r |-> r, at |-> "outcome"]}
      /\ journal' = [journal EXCEPT ![r] = "pending"] /\ UNCHANGED tries
      /\ UNCHANGED <<runVars, radioVars, hostVars, plugin, sweeping>> /\ UNCHANGED <<slips, faults>>
  BY Zenon DEF Ask
<1>3. Quiet
  BY Zenon, <1>1, <1>2, NoSlip DEF Quiet
<1>4. conn' \subseteq Asks /\ Single(conn') /\ \A c \in conn' : c.at = "outcome" /\ c.r = r
  BY <1>2 DEF Asks, Single
<1>5. journal' \in [Requests -> {"none", "pending", "queued", "done"}] /\ journal'[r] = "pending"
      /\ tries' \in Seq(Requests) /\ \A u \in Requests : u # r => journal'[u] = journal[u]
  BY Zenon, <1>1, <1>2 DEF TypeOK
<1>6. \A u : Used(u)' <=> Used(u)
  BY Zenon, <1>2, <1>3, UsedSame
<1>7. ~Used(r)
  BY Zenon, <1>1, <1>2 DEF Spent
<1>8. \A u \in Requests : Used(u)' => journal'[u] # "none" /\ \A c \in conn' : c.r = u => c.at = "queued"
  BY Zenon, <1>1, <1>4, <1>5, <1>6, <1>7 DEF Spent
<1>9. Mech'
  BY Zenon, <1>2, <1>3, <1>4, <1>5, <1>8, QuietMech
<1>10. Attempts = tries /\ Attempts' = tries
  BY Zenon, <1>1, <1>2, <1>4, <1>5, AttemptsType, NoAttempt
<1> QED BY Zenon, <1>1, <1>3, <1>9, <1>10, QuietBooks

\* Refused (settle_journalled abandons the reservation) keeps it: a request
\* that was handed over is never abandoned.
LEMMA RefusedOK == ASSUME Mech, Books, Refused PROVE Mech' /\ Books'
<1>1. Base /\ TypeOK /\ Stations /\ Spent
  BY Zenon DEF Mech, Base
<1>2. PICK c \in conn : /\ c.at \in {"outcome", "hand"} /\ conn' = {} /\ journal' = [journal EXCEPT ![c.r] = "none"]
                        /\ UNCHANGED tries
                        /\ UNCHANGED <<runVars, radioVars, hostVars, plugin, sweeping>> /\ UNCHANGED <<slips, faults>>
  BY Zenon DEF Refused, Refuse
<1>3. Quiet
  BY Zenon, <1>1, <1>2, NoSlip DEF Quiet
<1>4. conn' \subseteq Asks /\ Single(conn') /\ conn = {c} /\ c.r \in Requests
  BY Zenon, <1>1, <1>2, Unchosen DEF Asks, Single
<1>5. journal' \in [Requests -> {"none", "pending", "queued", "done"}]
      /\ tries' \in Seq(Requests) /\ \A u \in Requests : u # c.r => journal'[u] = journal[u]
  BY Zenon, <1>1, <1>2 DEF TypeOK
<1>6. \A u : Used(u)' <=> Used(u)
  BY Zenon, <1>2, <1>3, UsedSame
<1>7. ~Used(c.r)
  BY Zenon, <1>1, <1>2, <1>4 DEF Spent
<1>8. \A u \in Requests : Used(u)' => journal'[u] # "none" /\ \A d \in conn' : d.r = u => d.at = "queued"
  BY Zenon, <1>1, <1>2, <1>5, <1>6, <1>7 DEF Spent
<1>9. Mech'
  BY Zenon, <1>2, <1>3, <1>4, <1>5, <1>8, QuietMech
<1>10. Attempts = tries /\ Attempts' = tries
  BY Zenon, <1>1, <1>2, <1>4, <1>5, AttemptsType, NoAttempt
<1> QED BY Zenon, <1>1, <1>3, <1>9, <1>10, QuietBooks

\* LookOutcome and LookFlight (text_outcome, texts_in_flight) keep it.
LEMMA LooksOK == ASSUME Mech, Books, LookOutcome \/ LookFlight PROVE Mech' /\ Books'
<1>1. Base /\ TypeOK /\ Stations /\ Spent
  BY Zenon DEF Mech, Base
<1>2. PICK c \in conn, a \in {"again", "flight", "hand"} :
         /\ c.at \in {"outcome", "flight"} /\ conn' = {[c EXCEPT !.at = a]}
         /\ a = "hand" => flight[TextOf[c.r]] = NoRequest
         /\ UNCHANGED <<tries, journal>>
         /\ UNCHANGED <<runVars, radioVars, hostVars, plugin, sweeping>> /\ UNCHANGED <<slips, faults>>
  BY Zenon DEF LookOutcome, LookFlight
<1>3. Quiet
  BY Zenon, <1>1, <1>2, NoSlip DEF Quiet
<1>4. conn = {c} /\ c \in Asks /\ c.r \in Requests /\ plugin = "up"
  BY Zenon, <1>1, Unchosen
<1>5. conn' \subseteq Asks /\ Single(conn') /\ \A d \in conn' : d.at = a /\ d.r = c.r
  BY Zenon, <1>2, <1>4 DEF Asks, Single
<1>6. journal' \in [Requests -> {"none", "pending", "queued", "done"}]
      /\ tries' \in Seq(Requests) /\ journal'[c.r] # "none"
  BY Zenon, <1>1, <1>2 DEF TypeOK, Stations
<1>7. \A u : Used(u)' <=> Used(u)
  BY Zenon, <1>2, <1>3, UsedSame
<1>8. ~Used(c.r)
  BY Zenon, <1>1, <1>2, <1>4 DEF Spent
<1>9. \A u \in Requests : Used(u)' => journal'[u] # "none" /\ \A d \in conn' : d.r = u => d.at = "queued"
  BY Zenon, <1>1, <1>2, <1>5, <1>7, <1>8 DEF Spent
<1>10. Mech'
  BY Zenon, <1>2, <1>3, <1>4, <1>5, <1>6, <1>9, QuietMech
<1>11. Attempts = tries /\ Attempts' = tries
  BY Zenon, <1>1, <1>2, <1>4, <1>5, <1>6, AttemptsType, NoAttempt
<1> QED BY Zenon, <1>1, <1>3, <1>10, <1>11, QuietBooks

\* Record (settle_journalled) keeps it: the attempt in hand becomes a recorded
\* one.
LEMMA RecordOK == ASSUME Mech, Books, Record PROVE Mech' /\ Books'
<1>1. Base /\ TypeOK /\ Stations /\ Spent
  BY Zenon DEF Mech, Base
<1>2. PICK c \in conn, a \in {"queued", "done"} :
         /\ c.at \in {"queued", "again"} /\ conn' = {} /\ journal' = [journal EXCEPT ![c.r] = a]
         /\ tries' = IF c.at = "queued" THEN Append(tries, c.r) ELSE tries
         /\ UNCHANGED <<runVars, radioVars, hostVars, plugin, sweeping>> /\ UNCHANGED <<slips, faults>>
  BY Zenon DEF Record
<1>3. Quiet
  BY Zenon, <1>1, <1>2, NoSlip DEF Quiet
<1>4. conn' \subseteq Asks /\ Single(conn') /\ conn = {c} /\ c.r \in Requests
  BY Zenon, <1>1, <1>2, Unchosen DEF Asks, Single
<1>5. tries \in Seq(Requests) /\ Append(tries, c.r) \in Seq(Requests) /\ Range(Append(tries, c.r)) = Range(tries) \cup {c.r}
  BY <1>1, <1>4, Appended DEF TypeOK
<1>6. tries' \in Seq(Requests) /\ Range(tries') \subseteq Range(tries) \cup {c.r}
  BY Zenon, <1>2, <1>5
<1>7. journal' \in [Requests -> {"none", "pending", "queued", "done"}]
      /\ \A u \in Requests : IF u # c.r THEN journal'[u] = journal[u] ELSE journal'[u] # "none"
  BY Zenon, <1>1, <1>2 DEF TypeOK
<1>8. \A u : Used(u)' => Used(u) \/ u = c.r
  <2>1. UNCHANGED <<tookOf, flight, outbox, live, emitting>>
    BY Zenon, <1>3, QuietSame
  <2> QED BY Zenon, <1>6, <2>1 DEF Used, Told
<1>9. \A u \in Requests : Used(u)' => journal'[u] # "none" /\ \A d \in conn' : d.r = u => d.at = "queued"
  BY Zenon, <1>1, <1>2, <1>7, <1>8 DEF Spent
<1>10. Mech'
  BY ZenonT(30), <1>2, <1>3, <1>4, <1>6, <1>7, <1>9, QuietMech
<1>11. Attempts' = tries'
  BY Zenon, <1>1, <1>2, <1>4, <1>6, NoAttempt
<1>12. Attempts = tries'
  BY Zenon, <1>1, <1>2, <1>4, AttemptsType
<1> QED BY ZenonT(30), <1>1, <1>3, <1>10, <1>11, <1>12, QuietBooks

\* RecordFails keeps it: the attempt is forgotten, and the slip says so.
LEMMA RecordFailsOK == ASSUME Mech, Books, RecordFails PROVE Mech' /\ Books'
<1>1. Base /\ TypeOK /\ Stations /\ Spent
  BY Zenon DEF Mech, Base
<1>2. PICK c \in conn :
         /\ c.at = "queued" /\ conn' = {} /\ Fault
         /\ slips' = slips \cup Slip({TextOf[c.r]}, "unrecorded")
         /\ UNCHANGED <<runVars, radioVars, hostVars, plugin, journal, tries, sweeping>>
  BY Zenon DEF RecordFails
<1> DEFINE t == TextOf[c.r]
<1>3. conn' \subseteq Asks /\ Single(conn') /\ conn = {c} /\ c.r \in Requests /\ t \in Texts
  BY Zenon, <1>1, <1>2, Unchosen DEF Asks, Single
<1>4. Slip({t}, "unrecorded") \subseteq SlipType /\ [id |-> t, why |-> "unrecorded"] \in Slip({t}, "unrecorded")
  BY Zenon, <1>3, SlipL
<1>5. Quiet
  BY Zenon, <1>1, <1>2, <1>4, FaultsL DEF Quiet, Bounds, TypeOK, SlipType
<1>6. journal' \in [Requests -> {"none", "pending", "queued", "done"}] /\ tries' \in Seq(Requests)
      /\ tries \in Seq(Requests)
  BY Zenon, <1>1, <1>2 DEF TypeOK
<1>7. \A u : Used(u)' <=> Used(u)
  BY Zenon, <1>2, <1>5, UsedSame
<1>8. \A u \in Requests : Used(u)' => journal'[u] # "none" /\ \A d \in conn' : d.r = u => d.at = "queued"
  BY Zenon, <1>1, <1>2, <1>7 DEF Spent
<1>9. Mech'
  BY Zenon, <1>2, <1>3, <1>5, <1>6, <1>8, QuietMech
<1>10. Attempts' = tries /\ Attempts = Append(tries, c.r)
  BY Zenon, <1>1, <1>2, <1>3, <1>6, NoAttempt, AttemptsType
<1>11. UNCHANGED <<run, mode, link, cmds, phone, tookOf, radio, ctl, flight, emitting, plugin, sweeping, outbox, live>>
  BY Zenon, <1>5, QuietSame
<1>12. \A W : "unrecorded" \in W => \E s \in slips' : s.id = t /\ s.why \in W
  BY <1>2, <1>4
<1>13. \A u, W : Slipped(u, W) => Slipped(u, W)'
  BY Zenon, <1>2, SlipsStay
<1>14. Held(run)' = Held(run) /\ Told' = Told /\ Told \subseteq Keys /\ \A u : Emitting(u)' <=> Emitting(u)
  BY Zenon, <1>1, <1>11 DEF Held, IsOpen, In, Told, Emitting, TypeOK
<1>15. (\A k : Known(k)' <=> Known(k)) /\ (\A u : HasOutcome(u)' <=> HasOutcome(u))
  BY Zenon, <1>11, KnownSame
<1>16. Truth /\ (\A u \in Texts : Settled(u)) /\ Order /\ (\A u \in Texts : TakenOnce(u))
       /\ (\A r \in Range(Attempts) : Owed(r)) /\ Earlier
  BY Zenon DEF Books
<1>17. Truth'
  <2>1. \A r, u : Astray(r, u)' => Astray(r, u)
    BY Zenon, <1>11, <1>13 DEF Astray
  <2>2. \A k \in Told : k.id \in Texts
    BY Zenon, <1>14 DEF Keys
  <2> QED BY Zenon, <1>11, <1>14, <1>16, <2>1, <2>2 DEF Truth, Honest
<1>18. \A u \in Texts : Settled(u)'
  BY Zenon, <1>11, <1>13, <1>14, <1>15, <1>16 DEF Settled
<1>19. /\ Range(Attempts) = Range(tries) \cup {c.r} /\ c.r \notin Range(tries) /\ Inj(tries)
       /\ \A r : LastIn(Attempts, r) /\ r # c.r => LastIn(tries, r)
  BY Zenon, <1>3, <1>6, <1>10, <1>16, LastAppend DEF Order
<1>20. Order'
  <2> SUFFICES ASSUME NEW u \in Texts, flight[u] # NoRequest
               PROVE  /\ flight[u] \in Range(tries) => LastIn(tries, flight[u])
                      /\ flight[u] \in Range(tries) \/ Slipped(u, {"unrecorded"})'
    BY Zenon, <1>10, <1>11, <1>19 DEF Order
  <2>1. flight[u] \in Range(tries) => LastIn(tries, flight[u])
    BY Zenon, <1>16, <1>19 DEF Order
  <2>2. ASSUME flight[u] \notin Range(tries) PROVE Slipped(u, {"unrecorded"})'
    <3>1. CASE flight[u] = c.r
      <4>1. u = t
        BY Zenon, <1>1, <3>1, TextConstants, AttemptConstants DEF Stations
      <4> QED BY Zenon, <1>12, <4>1 DEF Slipped
    <3>2. CASE flight[u] # c.r
      BY Zenon, <1>13, <1>16, <1>19, <2>2, <3>2 DEF Order
    <3> QED BY Zenon, <3>1, <3>2
  <2> QED BY Zenon, <2>1, <2>2
<1>21. \A u \in Texts : TakenOnce(u)'
  <2> SUFFICES ASSUME NEW u \in Texts, phone[u].n > 0, ~Slipped(u, Doubles)'
               PROVE  /\ phone[u].n = 1
                      /\ \/ \E a \in {"sent", "doubt"} : Key(u, a, NoRequest) \in outbox
                         \/ \E r \in tookOf : TextOf[r] = u /\ LastIn(tries, r) /\ Where(u, r)'
    BY Zenon, <1>10, <1>11 DEF TakenOnce
  <2>1. u # t /\ ~Slipped(u, Doubles)
    <3>1. "unrecorded" \in Doubles
      BY Zenon DEF Doubles
    <3>2. Slipped(t, Doubles)'
      BY Zenon, <1>12, <3>1 DEF Slipped
    <3> QED BY Zenon, <1>13, <3>2
  <2>2. \A r : Where(u, r) => Where(u, r)'
    BY Zenon, <1>11, <1>14, <1>15 DEF Where
  <2>3. \A r \in tookOf : TextOf[r] = u /\ LastIn(Attempts, r) => LastIn(tries, r)
    BY Zenon, <1>19, <2>1
  <2> QED BY Zenon, <1>16, <2>1, <2>2, <2>3 DEF TakenOnce
<1>22. \A r \in Range(Attempts') : Owed(r)'
  BY ZenonT(30), <1>10, <1>11, <1>13, <1>14, <1>15, <1>16, <1>19 DEF Owed, In
<1>23. Earlier'
  <2>1. \A i \in DOMAIN tries : i \in DOMAIN Attempts /\ Attempts[i] = tries[i]
    BY <1>3, <1>6, <1>10, AppendAt
  <2> QED BY <1>10, <1>13, <1>15, <1>16, <2>1 DEF Earlier
<1> QED BY ZenonT(30), <1>9, <1>17, <1>18, <1>20, <1>21, <1>22, <1>23 DEF Books

\* HandOver keeps the threads' part: the text is in no channel and in no run,
\* for it was not in flight.
LEMMA HandMech == ASSUME Mech, Books, HandOver PROVE Mech'
<1>1. Base /\ TypeOK /\ Stations /\ Spent /\ Queues /\ Ledger(run, {})
  BY Zenon DEF Mech, Base
<1>2. PICK c \in conn : LET t == TextOf[c.r] IN
        /\ c.at = "hand" /\ radio = "up"
        /\ flight' = [flight EXCEPT ![t] = c.r]
        /\ ctl' = Append(ctl, [id |-> t, r |-> c.r])
        /\ conn' = {[c EXCEPT !.at = "queued"]}
        /\ slips' = slips
              \cup (IF HasOutcome(t) \/ \E k \in emitting : k.id = t THEN Slip({t}, "raced") ELSE {})
              \cup (IF t \in sweeping THEN Slip({t}, "swept") ELSE {})
        /\ UNCHANGED <<runVars, radio, emitting, hostVars, plugin, journal, tries, sweeping,
                       faults>>
  BY Zenon DEF HandOver
<1> DEFINE t == TextOf[c.r]
           x == [id |-> t, r |-> c.r]
<1>3. conn = {c} /\ c \in Asks /\ c.r \in Requests /\ t \in Texts /\ plugin = "up"
  BY Zenon, <1>1, Unchosen
<1>4. flight[t] = NoRequest /\ journal[c.r] # "none" /\ ~Used(c.r)
  BY Zenon, <1>1, <1>2, <1>3 DEF Stations, Spent
<1>5. x \in Pairs /\ x.id = t /\ x.r = c.r
  BY Zenon, <1>3 DEF Pairs
<1>6. conn' \subseteq Asks /\ Single(conn') /\ \A d \in conn' : d.at = "queued" /\ d.r = c.r
  BY Zenon, <1>2, <1>3 DEF Asks, Single
<1>7. flight \in [Texts -> Requests \cup {NoRequest}] /\ ctl \in Seq(Pairs) /\ cmds \in Seq(Pairs)
  BY Zenon, <1>1 DEF TypeOK
<1>8. flight' \in [Texts -> Requests \cup {NoRequest}] /\ flight'[t] = c.r
      /\ \A u \in Texts : u # t => flight'[u] = flight[u]
  BY Zenon, <1>2, <1>3, <1>7
<1>9. UNCHANGED <<run, mode, link, cmds, phone, tookOf, radio, emitting, plugin, journal, tries, sweeping, outbox, live, faults>>
  BY Zenon, <1>2 DEF runVars, hostVars
<1>10. t \notin Held(run) /\ \A y \in Range(ctl) \cup Range(cmds) : y.id # t /\ y.id \in Texts
  <2>1. \A y \in Range(ctl) \cup Range(cmds) : y.id \in Texts /\ y.r \in Requests
    <3>1. Range(ctl) \subseteq Pairs /\ Range(cmds) \subseteq Pairs
      BY Zenon, <1>7, Entries
    <3> QED BY Zenon, <3>1 DEF Pairs
  <2> QED BY Zenon, <1>1, <1>4, <2>1, HeldInFlight, TextConstants, AttemptConstants DEF Queues
<1>11. slips \subseteq slips' /\ slips' \subseteq SlipType
  <2>1. Slip({t}, "raced") \subseteq SlipType /\ Slip({t}, "swept") \subseteq SlipType
    BY Zenon, <1>3, SlipL
  <2>2. slips \subseteq SlipType
    BY Zenon, <1>1 DEF TypeOK, SlipType
  <2> QED BY Zenon, <1>2, <2>1, <2>2
<1>12. Ledger(run, {})' /\ Held(run)' = Held(run) /\ PhoneOK'
  <2>1. \A u \in Held(run) : flight'[u] = flight[u]
    BY Zenon, <1>8, <1>10 DEF Held
  <2> QED BY Zenon, <1>1, <1>9, <1>11, <2>1, SameRun
<1>13. ctl' \in Seq(Pairs) /\ Range(ctl') = Range(ctl) \cup {x} /\ Sole(ctl')
  <2>1. ~In(ctl, x.id)
    BY Zenon, <1>5, <1>10 DEF In
  <2> HIDE DEF x
  <2>2. ctl' = Append(ctl, x)
    BY Zenon, <1>2 DEF x
  <2> QED BY <1>1, <1>5, <1>7, <2>1, <2>2, Appended DEF Queues
<1>14. TypeOK'
  BY Zenon, <1>1, <1>6, <1>8, <1>9, <1>11, <1>13 DEF TypeOK, Asks, SlipType
<1>15. Stations'
  BY Zenon, <1>1, <1>2, <1>3, <1>4, <1>6, <1>8, <1>9 DEF Stations
<1>16. Queues'
  <2>1. c.r \notin tookOf
    BY Zenon, <1>4 DEF Used
  <2>2. \A y \in Range(ctl') \cup Range(cmds) : flight'[y.id] = y.r /\ y.r \notin tookOf /\ y.id \notin Held(run)
    BY ZenonT(30), <1>1, <1>5, <1>8, <1>10, <1>13, <2>1 DEF Queues
  <2>3. \A y \in Range(ctl') : ~In(cmds, y.id)
    BY Zenon, <1>1, <1>5, <1>10, <1>13 DEF Queues, In
  <2> QED BY ZenonT(30), <1>1, <1>9, <1>12, <1>13, <2>2, <2>3 DEF Queues
<1>17. Spent'
  <2>1. \A u \in Requests : Used(u)' => Used(u) \/ u = c.r
    BY Zenon, <1>8, <1>9, TextConstants, AttemptConstants DEF Used, Told
  <2> QED BY Zenon, <1>1, <1>4, <1>6, <1>9, <2>1 DEF Spent
<1> QED BY Zenon, <1>12, <1>14, <1>15, <1>16, <1>17 DEF Mech, Base

--------------------------------------------------------------------------
(* The plugin's radio thread                                               *)

\* HandOver keeps what is known and owed: the new attempt is the last of its
\* text, and a text that has an outcome by now is raced.
LEMMA HandBooks == ASSUME Mech, Books, HandOver PROVE Books'
<1>1. Base /\ TypeOK /\ Stations /\ Spent /\ Queues /\ Ledger(run, {})
  BY Zenon DEF Mech, Base
<1>2. PICK c \in conn : LET t == TextOf[c.r] IN
        /\ c.at = "hand" /\ radio = "up"
        /\ flight' = [flight EXCEPT ![t] = c.r]
        /\ ctl' = Append(ctl, [id |-> t, r |-> c.r])
        /\ conn' = {[c EXCEPT !.at = "queued"]}
        /\ slips' = slips
              \cup (IF HasOutcome(t) \/ \E k \in emitting : k.id = t THEN Slip({t}, "raced") ELSE {})
              \cup (IF t \in sweeping THEN Slip({t}, "swept") ELSE {})
        /\ UNCHANGED <<runVars, radio, emitting, hostVars, plugin, journal, tries, sweeping,
                       faults>>
  BY Zenon DEF HandOver
<1> DEFINE t == TextOf[c.r]
           x == [id |-> t, r |-> c.r]
<1>3. conn = {c} /\ c \in Asks /\ c.r \in Requests /\ t \in Texts /\ plugin = "up"
  BY Zenon, <1>1, Unchosen
<1>4. flight[t] = NoRequest /\ ~Used(c.r)
  BY Zenon, <1>1, <1>2, <1>3 DEF Stations, Spent
<1>5. x \in Pairs /\ x.id = t
  BY Zenon, <1>3 DEF Pairs
<1>6. flight'[t] = c.r /\ \A u \in Texts : u # t => flight'[u] = flight[u]
  BY Zenon, <1>1, <1>2, <1>3 DEF TypeOK
<1>7. UNCHANGED <<run, mode, link, cmds, phone, tookOf, radio, emitting, plugin, journal, tries, sweeping, outbox, live>>
  BY Zenon, <1>2 DEF runVars, hostVars
<1>8. Range(ctl') = Range(ctl) \cup {x}
  <2> HIDE DEF x
  <2>2. ctl' = Append(ctl, x) /\ ctl \in Seq(Pairs)
    BY Zenon, <1>1, <1>2 DEF x, TypeOK
  <2> QED BY <1>5, <2>2, Appended
<1>9. tries \in Seq(Requests) /\ conn' \in SUBSET Asks /\ Single(conn') /\ \E d \in conn' : d.at = "queued" /\ d.r = c.r
  <2> DEFINE d == [c EXCEPT !.at = "queued"]
  <2>1. d \in Asks /\ d.at = "queued" /\ d.r = c.r
    BY <1>3 DEF Asks
  <2>2. conn' = {d}
    BY Zenon, <1>2
  <2> HIDE DEF d
  <2>3. tries \in Seq(Requests)
    BY Zenon, <1>1 DEF TypeOK
  <2> QED BY Zenon, <2>1, <2>2, <2>3 DEF Single
<1>10. Attempts = tries /\ Attempts' = Append(tries, c.r)
  <2>1. Attempts = tries
    BY Zenon, <1>1, <1>2, <1>3, AttemptsType
  <2>2. Attempts' = Append(tries, c.r)
    BY <1>7, <1>9, AttemptsOfL DEF Attempts
  <2> QED BY Zenon, <2>1, <2>2
<1>11. \A u, W : Slipped(u, W) => Slipped(u, W)'
  BY Zenon, <1>2, SlipsStay
<1>12. HasOutcome(t) \/ Emitting(t) => Slipped(t, {"raced"})' /\ Slipped(t, {"raced", "swept"})' /\ Slipped(t, Doubles)'
  <2>1. [id |-> t, why |-> "raced"] \in Slip({t}, "raced")
    BY Zenon, <1>3, SlipL
  <2>2. HasOutcome(t) \/ Emitting(t) => [id |-> t, why |-> "raced"] \in slips'
    BY Zenon, <1>2, <2>1 DEF Emitting
  <2> QED BY Zenon, <2>2 DEF Slipped, Doubles
<1>13. t \in sweeping => Slipped(t, {"swept"})' /\ Slipped(t, {"raced", "swept"})' /\ Slipped(t, Doubles)'
  <2>1. [id |-> t, why |-> "swept"] \in Slip({t}, "swept")
    BY Zenon, <1>3, SlipL
  <2>2. t \in sweeping => [id |-> t, why |-> "swept"] \in slips'
    BY Zenon, <1>2, <2>1
  <2> QED BY Zenon, <2>2 DEF Slipped, Doubles
<1>14. Held(run)' = Held(run) /\ Told' = Told /\ Told \subseteq Keys /\ \A u : Emitting(u)' <=> Emitting(u)
  BY Zenon, <1>1, <1>7 DEF Held, IsOpen, In, Told, Emitting, TypeOK
<1>15. (\A k : Known(k)' <=> Known(k)) /\ (\A u : HasOutcome(u)' <=> HasOutcome(u))
  BY Zenon, <1>7, KnownSame
<1>16. Truth /\ (\A u \in Texts : Settled(u)) /\ Order /\ (\A u \in Texts : TakenOnce(u))
       /\ (\A r \in Range(Attempts) : Owed(r)) /\ Earlier
  BY Zenon DEF Books
<1> HIDE DEF t
<1>17. Truth'
  <2>1. \A r, u : Astray(r, u)' => Astray(r, u)
    BY Zenon, <1>7, <1>11 DEF Astray
  <2>2. \A k \in Told : k.id \in Texts
    BY Zenon, <1>14 DEF Keys
  <2>3. \A k \in Told : k.a = "failed" => k.r # c.r
    BY Zenon, <1>4 DEF Used
  <2>4. \A k \in Told : k.a = "failed" => flight'[k.id] # k.r
    BY Zenon, <1>6, <1>16, <2>2, <2>3 DEF Truth
  <2> QED BY ZenonT(30), <1>7, <1>14, <1>16, <2>1, <2>2, <2>4 DEF Truth, Honest
<1>18. ASSUME NEW u \in Texts PROVE Settled(u)'
  <2>1. CASE u = t
    <3>1. Known(Key(t, "sent", NoRequest)) => HasOutcome(t)
      BY Zenon DEF HasOutcome
    <3> QED BY Zenon, <1>7, <1>12, <1>13, <1>14, <1>15, <2>1, <3>1 DEF Settled
  <2>2. CASE u # t
    BY Zenon, <1>6, <1>7, <1>11, <1>14, <1>15, <1>16, <2>2 DEF Settled
  <2> QED BY Zenon, <2>1, <2>2
<1>19. /\ Range(Attempts') = Range(tries) \cup {c.r} /\ LastIn(Attempts', c.r)
       /\ \A r : LastIn(tries, r) /\ TextOf[r] # t => LastIn(Attempts', r)
       /\ Inj(Attempts')
  <2>1. c.r \notin Range(tries) /\ Inj(tries)
    BY Zenon, <1>4, <1>10, <1>16 DEF Used, Order
  <2> QED BY Zenon, <1>3, <1>9, <1>10, <2>1, LastAppend DEF t
<1>20. Order'
  <2> SUFFICES ASSUME NEW u \in Texts, flight'[u] # NoRequest
               PROVE  /\ flight'[u] \in Range(Attempts') => LastIn(Attempts', flight'[u])
                      /\ flight'[u] \in Range(Attempts') \/ Slipped(u, {"unrecorded"})'
    BY Zenon, <1>19 DEF Order
  <2>1. CASE u = t
    BY Zenon, <1>6, <1>19, <2>1
  <2>2. CASE u # t
    <3>1. flight'[u] = flight[u] /\ TextOf[flight[u]] = u /\ flight[u] # c.r
      BY Zenon, <1>1, <1>6, <2>2 DEF Stations, t
    <3> QED BY Zenon, <1>10, <1>11, <1>16, <1>19, <2>2, <3>1 DEF Order
  <2> QED BY Zenon, <2>1, <2>2
<1>21. ASSUME NEW u \in Texts PROVE TakenOnce(u)'
  <2> SUFFICES ASSUME phone[u].n > 0, ~Slipped(u, Doubles)'
               PROVE  /\ phone[u].n = 1
                      /\ \/ \E a \in {"sent", "doubt"} : Key(u, a, NoRequest) \in outbox
                         \/ \E r \in tookOf : TextOf[r] = u /\ LastIn(Attempts', r) /\ Where(u, r)'
    BY Zenon, <1>7 DEF TakenOnce
  <2>1. ~Slipped(u, Doubles)
    BY Zenon, <1>11
  <2>2. CASE u = t
    <3>1. ~HasOutcome(t) /\ ~Emitting(t) /\ t \notin sweeping
      BY Zenon, <1>12, <1>13, <2>2
    <3>2. \A r \in tookOf : ~Where(t, r)
      BY ZenonT(30), <1>1, <1>2, <1>3, <1>4, <3>1, TextConstants, AttemptConstants DEF Where, Emitting, TypeOK
    <3>3. \A a \in {"sent", "doubt"} : Key(t, a, NoRequest) \notin outbox
      BY Zenon, <3>1 DEF HasOutcome, Known
    <3> QED BY Zenon, <1>3, <1>16, <2>1, <2>2, <3>2, <3>3 DEF TakenOnce
  <2>3. CASE u # t
    <3>1. \A r : Where(u, r) => Where(u, r)'
      BY Zenon, <1>6, <1>7, <1>14, <1>15, <2>3 DEF Where
    <3>2. \A r \in tookOf : TextOf[r] = u /\ LastIn(Attempts, r) => LastIn(Attempts', r)
      BY Zenon, <1>10, <1>19, <2>3
    <3> QED BY Zenon, <1>16, <2>1, <3>1, <3>2 DEF TakenOnce
  <2> QED BY Zenon, <2>2, <2>3
<1>22. ASSUME NEW r \in Range(Attempts') PROVE Owed(r)'
  <2>1. CASE r = c.r
    <3>1. In(ctl', t)
      BY Zenon, <1>5, <1>8 DEF In
    <3> QED BY Zenon, <1>6, <2>1, <3>1 DEF Owed, t
  <2>2. CASE r # c.r
    <3>1. r \in Range(Attempts) /\ r \in Requests /\ TextOf[r] \in Texts
      BY Zenon, <1>1, <1>10, <1>19, <2>2, AttemptsType
    <3>2. flight[TextOf[r]] = r => flight'[TextOf[r]] = r
      BY Zenon, <1>4, <1>6, <3>1, TextConstants, AttemptConstants
    <3>3. \A u : In(ctl, u) => In(ctl', u)
      BY Zenon, <1>8 DEF In
    <3>4. Owed(r)
      BY Zenon, <1>16, <3>1
    <3> QED BY Zenon, <1>7, <1>11, <1>14, <1>15, <3>2, <3>3, <3>4 DEF Owed
  <2> QED BY Zenon, <2>1, <2>2
<1>23. Earlier'
  <2>0. PICK q : q = Attempts'
    BY Zenon
  <2>1. DOMAIN q = DOMAIN tries \cup {Len(tries) + 1} /\ Len(tries) \in Nat /\ q[Len(tries) + 1] = c.r
        /\ \A i \in DOMAIN tries : q[i] = tries[i] /\ i \in Nat /\ i < Len(tries) + 1
    BY <1>3, <1>9, <1>10, <2>0, AppendAt
  <2>2. ~Known(Key(t, "failed", c.r))
    BY <1>4, KeyL DEF Known, Used, Told
  <2>3. ASSUME NEW i \in DOMAIN q, NEW j \in DOMAIN q, i < j, TextOf[q[i]] = TextOf[q[j]],
               Known(Key(TextOf[q[j]], "failed", q[j]))
        PROVE  \/ HasOutcome(TextOf[q[j]])
               \/ Known(Key(TextOf[q[j]], "failed", q[i]))
               \/ Slipped(TextOf[q[j]], Losses)
    <3>1. q[j] # c.r
      BY Zenon, <2>2, <2>3 DEF t
    <3>2. i \in DOMAIN tries /\ j \in DOMAIN tries
      BY <2>1, <2>3, <3>1
    <3> QED BY Zenon, <1>10, <1>16, <2>1, <2>3, <3>2 DEF Earlier
  <2> QED BY Zenon, <1>11, <1>15, <2>0, <2>3 DEF Earlier
<1> QED BY ZenonT(30), <1>17, <1>18, <1>20, <1>21, <1>22, <1>23 DEF Books

\* The plugin's radio thread hears, or finds, what became of a text in flight.
Speaks(t, a) ==
    /\ t \in Texts /\ a \in Answers /\ flight[t] \in Requests /\ Honest(t, a, flight[t])
    /\ emitting = {} /\ emitting' = {Key(t, a, flight[t])}
    /\ flight' = [flight EXCEPT ![t] = NoRequest]
    /\ UNCHANGED <<phone, tookOf, radio, plugin, conn, journal, tries, sweeping, outbox, live, slips>>
    /\ Held(run) \ {t} \subseteq Held(run)'
    /\ \A u \in Texts : u # t /\ Carries(u) => Carries(u)'

\* Taking a text out of flight for its event keeps the threads' part.
LEMMA SpeaksMech ==
    ASSUME TypeOK, Stations, Spent, NEW t, NEW a, Speaks(t, a)
    PROVE  /\ Spent' /\ flight' \in [Texts -> Requests \cup {NoRequest}] /\ emitting' \subseteq Keys
           /\ Single(emitting')
           /\ \A u \in Texts : flight'[u] # NoRequest => TextOf[flight'[u]] = u
           /\ \A c \in conn : c.at = "hand" => flight'[TextOf[c.r]] = NoRequest
<1>1. t \in Texts /\ a \in Answers /\ flight[t] \in Requests /\ flight \in [Texts -> Requests \cup {NoRequest}]
      /\ emitting = {} /\ emitting' = {Key(t, a, flight[t])} /\ flight' = [flight EXCEPT ![t] = NoRequest]
      /\ UNCHANGED <<tookOf, conn, journal, tries, outbox, live>>
  BY Zenon DEF Speaks, TypeOK
<1>2. flight' \in [Texts -> Requests \cup {NoRequest}] /\ flight'[t] = NoRequest
      /\ \A u \in Texts : u # t => flight'[u] = flight[u]
  BY Zenon, <1>1
<1>3. TextOf[flight[t]] = t
  BY Zenon, <1>1, TextConstants, AttemptConstants DEF Stations
<1>4. \A u \in Requests : Used(u)' => Used(u)
  <2>1. \A k \in emitting' : k.a = "failed" => k.r = flight[t]
    BY <1>1, KeyL
  <2> QED BY <1>1, <1>2, <1>3, <2>1, TextConstants, AttemptConstants DEF Used, Told
<1>5. Spent'
  BY Zenon, <1>1, <1>4 DEF Spent
<1>6. emitting' \subseteq Keys /\ Single(emitting')
  BY <1>1 DEF Keys, Key, Single
<1>7. \A c \in conn : TextOf[c.r] \in Texts
  BY Zenon, TextConstants, AttemptConstants DEF TypeOK
<1> QED BY Zenon, <1>2, <1>5, <1>6, <1>7 DEF Stations

\* ... and what is known and owed: the event names the attempt that was in
\* flight.
LEMMA SpeaksBooks ==
    ASSUME Base, Books, NEW t, NEW a, Speaks(t, a)
    PROVE  Books'
<1>1. t \in Texts /\ a \in Answers /\ flight[t] \in Requests /\ Honest(t, a, flight[t])
      /\ emitting = {} /\ emitting' = {Key(t, a, flight[t])}
      /\ UNCHANGED <<phone, tookOf, radio, plugin, conn, journal, tries, sweeping, outbox, live, slips>>
  BY Zenon DEF Speaks
<1>2. TypeOK /\ Stations /\ TextOf[flight[t]] = t
  BY Zenon, <1>1, TextConstants, AttemptConstants DEF Base, Stations
<1>3. flight'[t] = NoRequest /\ \A u \in Texts : u # t => flight'[u] = flight[u]
  BY Zenon, <1>1, <1>2 DEF TypeOK, Speaks
<1>4. Attempts' = Attempts
  BY Zenon, <1>1 DEF Attempts
<1>5. (\A k : Known(k)' <=> Known(k)) /\ (\A u : HasOutcome(u)' <=> HasOutcome(u))
  BY Zenon, <1>1, KnownSame
<1>6. \A u, W : Slipped(u, W)' <=> Slipped(u, W)
  BY Zenon, <1>1 DEF Slipped
<1>7. (\A u : Emitting(u)' <=> u = t) /\ \A u : ~Emitting(u)
  BY <1>1, KeyL DEF Emitting
<1>8. Truth /\ (\A u \in Texts : Settled(u)) /\ Order /\ (\A u \in Texts : TakenOnce(u))
       /\ (\A r \in Range(Attempts) : Owed(r)) /\ Earlier
  BY Zenon DEF Books
<1>9. Truth'
  <2>1. \A r, u : Astray(r, u)' <=> Astray(r, u)
    BY Zenon, <1>1, <1>6 DEF Astray
  <2>2. \A k \in Told : k.id \in Texts
    BY Zenon, <1>2 DEF Keys, Told, TypeOK
  <2>3. \A k \in Told : /\ Honest(k.id, k.a, k.r)'
                        /\ k.a = "failed" => k.r \in Requests /\ TextOf[k.r] = k.id /\ flight'[k.id] # k.r
                        /\ k.a # "failed" => k.r = NoRequest
    BY Zenon, <1>1, <1>3, <1>8, <2>1, <2>2, TextConstants, AttemptConstants DEF Truth, Honest
  <2>4. PICK k : k = Key(t, a, flight[t])
    BY Zenon
  <2>5. k.id = t /\ k.a = a /\ (a = "failed" => k.r = flight[t]) /\ (a # "failed" => k.r = NoRequest)
    BY <2>4, KeyL
  <2>6. flight'[t] # flight[t]
    BY Zenon, <1>1, <1>3, TextConstants, AttemptConstants
  <2>7. Honest(k.id, k.a, k.r)'
    BY Zenon, <1>1, <2>1, <2>5 DEF Honest
  <2>8. /\ k.a = "failed" => k.r \in Requests /\ TextOf[k.r] = k.id /\ flight'[k.id] # k.r
        /\ k.a # "failed" => k.r = NoRequest
    BY Zenon, <1>1, <1>2, <2>5, <2>6
  <2>9. Told' \subseteq Told \cup {k}
    BY Zenon, <1>1, <2>4 DEF Told
  <2> QED BY Zenon, <2>3, <2>7, <2>8, <2>9 DEF Truth
<1>10. ASSUME NEW u \in Texts PROVE Settled(u)'
  <2>1. CASE u = t
    <3>1. flight[t] # NoRequest
      BY ZenonT(30), <1>1, TextConstants, AttemptConstants
    <3> QED BY Zenon, <1>1, <1>3, <1>5, <1>6, <1>7, <1>8, <2>1, <3>1 DEF Settled
  <2>2. CASE u # t
    BY <1>1, <1>3, <1>5, <1>6, <1>7, <1>8, <2>2 DEF Settled
  <2> QED BY Zenon, <2>1, <2>2
<1>11. Order'
  <2>1. \A u \in Texts : flight'[u] # NoRequest => flight'[u] = flight[u]
    BY Zenon, <1>3
  <2> QED BY Zenon, <1>4, <1>6, <1>8, <2>1 DEF Order
<1>12. ASSUME NEW u \in Texts PROVE TakenOnce(u)'
  <2>1. ASSUME NEW r \in tookOf, Where(u, r), ~Slipped(u, Doubles) PROVE Where(u, r)'
    <3>1. CASE flight[u] = r /\ u \in Held(run)
      <4>1. CASE u = t
        <5>1. ~Slipped(u, {"moved"})
          BY Zenon, <2>1 DEF Slipped, Doubles
        <5>2. a # "failed"
          BY Zenon, <1>1, <3>1, <4>1, <5>1 DEF Honest, Astray
        <5>3. PICK k : k = Key(t, a, flight[t])
          BY Zenon
        <5>4. k \in emitting' /\ k.id = u /\ k.a # "failed"
          BY <1>1, <4>1, <5>2, <5>3, KeyL
        <5> QED BY Zenon, <5>4 DEF Where
      <4>2. CASE u # t
        BY Zenon, <1>3, <3>1, <4>2 DEF Where, Speaks
      <4> QED BY Zenon, <4>1, <4>2
    <3>2. CASE HasOutcome(u) \/ radio = "dead" \/ plugin = "down" \/ u \in sweeping
      BY Zenon, <1>1, <1>5, <3>2 DEF Where
    <3> QED BY Zenon, <1>1, <2>1, <3>1, <3>2 DEF Where
  <2> QED BY Zenon, <1>1, <1>4, <1>6, <1>8, <2>1 DEF TakenOnce
<1>13. ASSUME NEW r \in Range(Attempts') PROVE Owed(r)'
  <2>1. Owed(r) /\ TextOf[r] \in Texts
    BY Zenon, <1>2, <1>4, <1>8, AttemptsType
  <2> DEFINE u == TextOf[r]
  <2>2. CASE flight[u] = r /\ Carries(u)
    <3>1. CASE u = t
      <4>1. PICK k : k = Key(t, a, flight[t])
        BY Zenon
      <4>2. k \in emitting' /\ k.id = t /\ (k.a # "failed" \/ k.r = r)
        BY <1>1, <2>2, <3>1, <4>1, KeyL
      <4> QED BY Zenon, <3>1, <4>2 DEF Owed
    <3>2. CASE u # t
      BY Zenon, <1>3, <2>1, <2>2, <3>2 DEF Owed, Carries, Speaks
    <3> QED BY Zenon, <3>1, <3>2
  <2>3. CASE ~(flight[u] = r /\ Carries(u))
    BY Zenon, <1>1, <1>5, <1>6, <2>1, <2>3 DEF Owed, Carries
  <2> QED BY Zenon, <2>2, <2>3
<1>14. Earlier'
  BY ZenonT(30), <1>4, <1>5, <1>6, <1>8 DEF Earlier
<1> QED BY Zenon, <1>9, <1>10, <1>11, <1>12, <1>13, <1>14 DEF Books

\* The first text of the radio thread's channel is in flight and nobody else
\* has it.
LEMMA HeadOfCtl ==
    ASSUME Base, Queues, ctl # << >>
    PROVE  LET x == Head(ctl) IN
           /\ x \in Pairs /\ x.id \in Texts /\ x.r \in Requests
           /\ x.id \notin Held(run) /\ flight[x.id] = x.r /\ x.r \notin tookOf
           /\ ~In(cmds, x.id) /\ ~In(Tail(ctl), x.id)
           /\ Tail(ctl) \in Seq(Pairs) /\ Sole(Tail(ctl)) /\ Range(ctl) = Range(Tail(ctl)) \cup {x}
<1>1. ctl \in Seq(Pairs)
  BY Zenon DEF Base, TypeOK
<1>2. /\ Head(ctl) \in Pairs /\ Head(ctl) \in Range(ctl) /\ Range(ctl) = Range(Tail(ctl)) \cup {Head(ctl)}
      /\ Tail(ctl) \in Seq(Pairs) /\ Sole(Tail(ctl)) /\ ~In(Tail(ctl), Head(ctl).id)
  BY <1>1, Shortened DEF Queues
<1> QED BY Zenon, <1>2 DEF Queues, Pairs

\* RadioForwards (RadioControl::SendSms) keeps the invariant: handed on, or
\* failed under its attempt when the runtime is gone.
LEMMA ForwardsOK == ASSUME Mech, Books, RadioForwards PROVE Mech' /\ Books'
<1>1. Base /\ TypeOK /\ Stations /\ Spent /\ Queues /\ cmds \in Seq(Pairs)
  BY Zenon DEF Mech, Base, TypeOK
<1>2. /\ radio = "up" /\ emitting = {} /\ ctl # << >> /\ ctl' = Tail(ctl)
      /\ UNCHANGED <<run, mode, link, phone, tookOf, radio, plugin, conn, journal, tries, sweeping, outbox, live, slips, faults>>
  BY Zenon DEF RadioForwards, connVars, hostVars
<1>3. PICK x : x = Head(ctl)
  BY Zenon
<1>4. \/ mode # "over" /\ cmds' = Append(cmds, x) /\ UNCHANGED <<flight, emitting>>
      \/ /\ mode = "over" /\ flight' = [flight EXCEPT ![x.id] = NoRequest]
         /\ emitting' = {Key(x.id, "failed", flight[x.id])} /\ UNCHANGED cmds
  BY Zenon, <1>3 DEF RadioForwards
<1>5. /\ x \in Pairs /\ x.id \in Texts /\ x.r \in Requests
      /\ x.id \notin Held(run) /\ flight[x.id] = x.r /\ x.r \notin tookOf
      /\ ~In(cmds, x.id) /\ ~In(ctl', x.id)
      /\ ctl' \in Seq(Pairs) /\ Sole(ctl') /\ Range(ctl) = Range(ctl') \cup {x}
  BY Zenon, <1>1, <1>2, <1>3, HeadOfCtl
<1>6. Bounds
  BY Zenon, <1>1, <1>2, NoSlip
<1>7. Held(run)' = Held(run)
  BY Zenon, <1>2 DEF Held, IsOpen, In
<1>8. CASE mode # "over" /\ cmds' = Append(cmds, x) /\ UNCHANGED <<flight, emitting>>
  <2>1. cmds' \in Seq(Pairs) /\ Range(cmds') = Range(cmds) \cup {x} /\ Sole(cmds')
    BY <1>1, <1>5, <1>8, Appended DEF Queues
  <2>2. Ledger(run, {})' /\ PhoneOK'
    BY Zenon, <1>1, <1>2, <1>8, SameRun
  <2>3. TypeOK'
    BY Zenon, <1>1, <1>2, <1>5, <1>6, <1>8, <2>1 DEF TypeOK, Bounds, SlipType
  <2>4. Stations'
    BY Zenon, <1>1, <1>2, <1>8 DEF Stations
  <2>5. Queues'
    <3>1. \A y \in Range(ctl') : y \in Range(ctl) /\ y.id # x.id
      BY Zenon, <1>5 DEF In
    <3>2. \A y \in Range(ctl') : ~In(cmds', y.id)
      BY Zenon, <1>1, <2>1, <3>1 DEF Queues, In
    <3>3. \A y \in Range(ctl') \cup Range(cmds') : flight[y.id] = y.r /\ y.r \notin tookOf /\ y.id \notin Held(run)
      BY Zenon, <1>1, <1>5, <2>1, <3>1 DEF Queues
    <3> QED BY Zenon, <1>2, <1>5, <1>7, <1>8, <2>1, <3>2, <3>3 DEF Queues
  <2>6. Spent'
    BY Zenon, <1>1, <1>2, <1>8 DEF Spent, Used, Told
  <2>7. Mech'
    BY Zenon, <2>2, <2>3, <2>4, <2>5, <2>6 DEF Mech, Base
  <2>8. Attempts' = Attempts
    BY Zenon, <1>2 DEF Attempts
  <2>9. \A t \in Texts : Carries(t) => Carries(t)'
    BY Zenon, <1>5, <1>7, <2>1 DEF Carries, In
  <2>10. Frame
    BY Zenon, <1>2, <1>7, <1>8, <2>8, <2>9 DEF Frame
  <2> QED BY Zenon, <1>1, <2>7, <2>10, FrameL
<1>9. CASE /\ mode = "over" /\ flight' = [flight EXCEPT ![x.id] = NoRequest]
           /\ emitting' = {Key(x.id, "failed", flight[x.id])} /\ UNCHANGED cmds
  <2>1. \A u \in Texts : u # x.id /\ Carries(u) => Carries(u)'
    BY Zenon, <1>5, <1>7, <1>9 DEF Carries, In
  <2>2. "failed" \in Answers /\ Honest(x.id, "failed", flight[x.id])
    BY Zenon, <1>5 DEF Answers, Honest, Astray
  <2>3. Speaks(x.id, "failed")
    BY Zenon, <1>2, <1>5, <1>7, <1>9, <2>1, <2>2 DEF Speaks
  <2>4. /\ Spent' /\ flight' \in [Texts -> Requests \cup {NoRequest}] /\ emitting' \subseteq Keys
        /\ Single(emitting')
        /\ \A u \in Texts : flight'[u] # NoRequest => TextOf[flight'[u]] = u
        /\ \A c \in conn : c.at = "hand" => flight'[TextOf[c.r]] = NoRequest
    BY Zenon, <1>1, <2>3, SpeaksMech
  <2>5. \A u \in Texts : u # x.id => flight'[u] = flight[u]
    BY Zenon, <1>1, <1>5, <1>9 DEF TypeOK
  <2>6. Ledger(run, {})' /\ PhoneOK'
    <3>1. \A u \in Held(run) : flight'[u] = flight[u]
      BY Zenon, <1>5, <2>5 DEF Held
    <3> QED BY Zenon, <1>1, <1>2, <3>1, SameRun
  <2>7. TypeOK'
    BY ZenonT(30), <1>1, <1>2, <1>5, <1>6, <1>9, <2>4 DEF TypeOK, Bounds, SlipType
  <2>8. Stations'
    BY Zenon, <1>1, <1>2, <1>9, <2>4 DEF Stations
  <2>9. Queues'
    <3>1. \A y \in Range(ctl') : y \in Range(ctl) /\ y.id # x.id
      BY Zenon, <1>5 DEF In
    <3>2. \A y \in Range(cmds) : y.id # x.id
      BY Zenon, <1>5 DEF In
    <3>3. \A y \in Range(ctl) \cup Range(cmds) : y.id \in Texts
      <4>1. Range(ctl) \subseteq Pairs /\ Range(cmds) \subseteq Pairs
        BY Zenon, <1>1, Entries DEF TypeOK
      <4> QED BY Zenon, <4>1 DEF Pairs
    <3> QED BY ZenonT(30), <1>1, <1>2, <1>5, <1>7, <1>9, <2>5, <3>1, <3>2, <3>3 DEF Queues
  <2>10. Mech'
    BY Zenon, <2>4, <2>6, <2>7, <2>8, <2>9 DEF Mech, Base
  <2> QED BY Zenon, <1>1, <2>3, <2>10, SpeaksBooks
<1> QED BY Zenon, <1>4, <1>8, <1>9

\* The attempt in flight is not an earlier one of its text.
LEMMA NotEarlier ==
    ASSUME Base, Order, NEW i \in DOMAIN Attempts, NEW j \in DOMAIN Attempts, i < j,
           TextOf[Attempts[i]] = TextOf[Attempts[j]]
    PROVE  flight[TextOf[Attempts[j]]] # Attempts[i] /\ Attempts[i] # Attempts[j]
<1>1. /\ Attempts[i] \in Range(Attempts) /\ Attempts[i] \in Requests /\ TextOf[Attempts[i]] \in Texts
      /\ i \in Nat /\ j \in Nat
  BY Zenon, AttemptsType DEF Base
<1>2. Attempts[i] # Attempts[j]
  BY <1>1 DEF Order, Inj
<1>3. ASSUME flight[TextOf[Attempts[j]]] = Attempts[i] PROVE FALSE
  <2>1. LastIn(Attempts, Attempts[i])
    BY Zenon, <1>1, <1>3, TextConstants, AttemptConstants DEF Order
  <2>2. PICK k \in DOMAIN Attempts : Attempts[k] = Attempts[i]
           /\ \A m \in DOMAIN Attempts : m > k => TextOf[Attempts[m]] # TextOf[Attempts[i]]
    BY Zenon, <2>1 DEF LastIn
  <2>3. k = i
    BY Zenon, <2>2 DEF Order, Inj
  <2> QED BY Zenon, <1>1, <2>2, <2>3
<1> QED BY Zenon, <1>2, <1>3

\* Emit (emit_event) keeps it, written to the outbox or given live.
LEMMA EmitOK == ASSUME Mech, Books, Emit PROVE Mech' /\ Books'
<1>1. Base /\ TypeOK /\ Stations /\ Spent /\ Queues
  BY Zenon DEF Mech, Base
<1>2. /\ radio = "up" /\ emitting' = {}
      /\ UNCHANGED <<run, mode, link, cmds, phone, tookOf, radio, ctl, flight, plugin, conn, journal, tries, sweeping, slips>>
  BY Zenon DEF Emit, runVars, connVars
<1>3. PICK k \in emitting : /\ \/ outbox' = outbox \cup {k} /\ live' = live
                               \/ live' = live \cup {k} /\ outbox' = outbox
                            /\ Fault \/ UNCHANGED faults
  BY Zenon DEF Emit
<1>4. emitting = {k} /\ k \in Keys /\ k.id \in Texts /\ k.a \in Answers /\ plugin = "up" /\ k \in Told
  <2>1. emitting = {k} /\ plugin = "up"
    BY Zenon, <1>1, <1>2 DEF Stations, Single, TypeOK
  <2>2. k \in Keys
    BY Zenon, <1>1 DEF TypeOK
  <2> QED BY Zenon, <2>1, <2>2 DEF Keys, Told
<1>5. k = [id |-> k.id, a |-> k.a, r |-> k.r]
  BY Zenon, <1>4 DEF Keys
<1>6. \A q : Known(q)' <=> Known(q) \/ q = k
  BY <1>3 DEF Known
<1>7. Told' = Told
  BY Zenon, <1>2, <1>3, <1>4 DEF Told
<1>8. Ledger(run, {})' /\ Held(run)' = Held(run) /\ PhoneOK'
  BY Zenon, <1>1, <1>2, SameRun
<1>9. Bounds
  BY Zenon, <1>1, <1>2, <1>3, NoSlip
<1>10. TypeOK'
  BY Zenon, <1>1, <1>2, <1>3, <1>4, <1>9 DEF TypeOK, Bounds, SlipType
<1>11. Stations'
  BY Zenon, <1>1, <1>2, <1>4 DEF Stations, Single
<1>12. Queues' /\ Spent'
  <2>1. Queues'
    BY Zenon, <1>1, <1>2, <1>8 DEF Queues
  <2>2. Spent'
    BY Zenon, <1>1, <1>2, <1>7 DEF Spent, Used
  <2> QED BY Zenon, <2>1, <2>2
<1>13. Mech'
  BY Zenon, <1>8, <1>10, <1>11, <1>12 DEF Mech, Base
<1>14. Truth /\ (\A u \in Texts : Settled(u)) /\ Order /\ (\A u \in Texts : TakenOnce(u))
       /\ (\A r \in Range(Attempts) : Owed(r)) /\ Earlier
  BY Zenon DEF Books
<1>15. \A u, W : Slipped(u, W)' <=> Slipped(u, W)
  BY Zenon, <1>2 DEF Slipped
<1>16. Attempts' = Attempts
  BY Zenon, <1>2 DEF Attempts
<1>17. /\ k.a # "failed" => k.a \in {"sent", "doubt"} /\ k = Key(k.id, k.a, NoRequest)
       /\ k.a = "failed" => k = Key(k.id, "failed", k.r)
  BY Zenon, <1>4, <1>5, <1>14 DEF Truth, Key, Answers
<1>18. /\ \A u : HasOutcome(u) => HasOutcome(u)'
       /\ k.a # "failed" => HasOutcome(k.id)'
       /\ \A u : u # k.id => (HasOutcome(u)' <=> HasOutcome(u))
  BY <1>6, <1>17, KeyL DEF HasOutcome
<1>19. (\A u : ~Emitting(u)') /\ \A u : Emitting(u) <=> u = k.id
  BY Zenon, <1>2, <1>4 DEF Emitting
<1>20. Truth'
  BY Zenon, <1>2, <1>7, <1>14, <1>15 DEF Truth, Honest, Astray
<1>21. ASSUME NEW u \in Texts PROVE Settled(u)'
  <2>1. CASE u = k.id
    <3>1. SUFFICES ASSUME ~Slipped(u, {"raced", "swept"})
                   PROVE  /\ flight[u] = NoRequest /\ u \notin sweeping
                          /\ ~(Known(Key(u, "sent", NoRequest)) \/ Known(Key(u, "doubt", NoRequest)))
                          /\ ~(Key(u, "sent", NoRequest) = k /\ Key(u, "doubt", NoRequest) = k)
      BY Zenon, <1>2, <1>6, <1>14, <1>15, <1>19 DEF Settled
    <3>2. ~Slipped(u, {"swept"}) /\ Emitting(u)
      BY Zenon, <1>19, <2>1, <3>1 DEF Slipped
    <3>3. flight[u] = NoRequest /\ u \notin sweeping /\ ~HasOutcome(u)
      BY Zenon, <1>14, <3>1, <3>2 DEF Settled
    <3>4. Key(u, "sent", NoRequest).a # Key(u, "doubt", NoRequest).a
      BY KeyL
    <3> QED BY Zenon, <3>3, <3>4 DEF HasOutcome
  <2>2. CASE u # k.id
    <3>1. \A a : Known(Key(u, a, NoRequest))' <=> Known(Key(u, a, NoRequest))
      BY <1>6, <2>2, KeyL
    <3> QED BY ZenonT(30), <1>2, <1>14, <1>15, <1>18, <1>19, <2>2, <3>1 DEF Settled
  <2> QED BY Zenon, <2>1, <2>2
<1>22. Order'
  BY Zenon, <1>2, <1>14, <1>15, <1>16 DEF Order
<1>23. ASSUME NEW u \in Texts PROVE TakenOnce(u)'
  <2>1. \A r : Where(u, r) => Where(u, r)'
    BY Zenon, <1>2, <1>4, <1>8, <1>18 DEF Where
  <2>2. outbox \subseteq outbox'
    BY Zenon, <1>3
  <2> QED BY Zenon, <1>2, <1>14, <1>15, <1>16, <2>1, <2>2 DEF TakenOnce
<1>24. ASSUME NEW r \in Range(Attempts') PROVE Owed(r)'
  <2>1. Owed(r)
    BY Zenon, <1>14, <1>16
  <2> QED BY ZenonT(30), <1>2, <1>4, <1>6, <1>8, <1>15, <1>17, <1>18, <2>1 DEF Owed
<1>25. Earlier'
  <2>0. PICK q : q = Attempts
    BY Zenon
  <2>1. ASSUME NEW i \in DOMAIN q, NEW j \in DOMAIN q, i < j, TextOf[q[i]] = TextOf[q[j]],
               Known(Key(TextOf[q[j]], "failed", q[j]))'
        PROVE  \/ HasOutcome(TextOf[q[j]])'
               \/ Known(Key(TextOf[q[j]], "failed", q[i]))'
               \/ Slipped(TextOf[q[j]], Losses)'
    <3> DEFINE t == TextOf[q[j]]
    <3>1. CASE Known(Key(t, "failed", q[j]))
      BY ZenonT(30), <1>6, <1>14, <1>15, <1>18, <2>0, <2>1, <3>1 DEF Earlier
    <3>2. CASE Key(t, "failed", q[j]) = k
      <4>1. k.id = t /\ k.r = q[j] /\ k.a = "failed"
        BY <3>2, KeyL
      <4>2. flight[t] # q[i] /\ q[i] # q[j]
        BY Zenon, <1>1, <1>14, <2>0, <2>1, NotEarlier
      <4>3. Owed(q[i])
        BY Zenon, <1>1, <1>14, <2>0, AttemptsType
      <4>4. t \in sweeping => Slipped(t, Losses)
        <5>1. t \in sweeping => Slipped(t, {"swept"})
          BY Zenon, <1>4, <1>14, <1>19, <4>1 DEF Settled
        <5> QED BY Zenon, <5>1 DEF Slipped, Losses
      <4>5. HasOutcome(t) \/ Known(Key(t, "failed", q[i])) \/ Slipped(t, Losses)
        BY ZenonT(30), <1>2, <1>4, <2>1, <4>1, <4>2, <4>3, <4>4 DEF Owed
      <4> QED BY Zenon, <1>6, <1>15, <1>18, <4>5
    <3> QED BY Zenon, <1>6, <2>1, <3>1, <3>2
  <2> QED BY Zenon, <1>16, <2>0, <2>1 DEF Earlier
<1> QED BY Zenon, <1>13, <1>20, <1>21, <1>22, <1>23, <1>24, <1>25 DEF Books

--------------------------------------------------------------------------
(* The phone's answer, threads that end                                    *)

\* An empty queue has no entries.
LEMMA EmptyQ == Sole(<< >>) /\ Range(<< >>) = {} /\ \A t : ~In(<< >>, t)
BY DEF Sole, Range, In

\* PhoneAnswers keeps the threads' part.
LEMMA AnswersMech == ASSUME Mech, PhoneAnswers PROVE Mech'
<1>1. Base /\ TypeOK /\ Stations /\ Spent /\ Queues
  BY Zenon DEF Mech, Base
<1>2. AnswersL /\ (Fault \/ UNCHANGED faults)
  BY Zenon, <1>1, AnswersOK DEF PhoneAnswers
<1>3. /\ Ledger(run, {})' /\ Held(run)' = Held(run) /\ PhoneOK' /\ phone' \in PhoneType
      /\ run'.active = run.active /\ run'.open = run.open
      /\ mode = "up" /\ link
      /\ UNCHANGED <<mode, link, cmds, slips, radio, ctl, flight, emitting, plugin, conn, journal, tries, sweeping, outbox, live>>
  BY Zenon, <1>2 DEF AnswersL, elsewhere, radioVars, connVars, hostVars
<1>4. Bounds
  BY Zenon, <1>1, <1>2, <1>3, NoSlip
<1>5. tookOf' = tookOf \/ \E o \in run.open : Copies(o)
  BY Zenon, <1>2 DEF AnswersL
<1>6. \A r \in tookOf' : r \in tookOf \/ (r \in Requests /\ TextOf[r] \in Texts /\ flight[TextOf[r]] = r /\ TextOf[r] \in Held(run))
  BY Zenon, <1>5 DEF Copies
<1>7. TypeOK'
  <2>1. tookOf' \subseteq Requests /\ run' \in Runs
    BY Zenon, <1>1, <1>3, <1>6 DEF TypeOK, Ledger
  <2> QED BY Zenon, <1>1, <1>3, <1>4, <2>1 DEF TypeOK, Bounds, SlipType, PhoneType
<1>8. Stations'
  <2>1. radio = "up"
    BY Zenon, <1>1, <1>3 DEF Stations
  <2> QED BY Zenon, <1>1, <1>3, <2>1 DEF Stations
<1>9. Queues'
  <2>1. \A x \in Range(ctl) \cup Range(cmds) : x.r \notin tookOf'
    <3>1. Range(ctl) \subseteq Pairs /\ Range(cmds) \subseteq Pairs
      BY Zenon, <1>1, Entries DEF TypeOK
    <3>2. \A x \in Range(ctl) \cup Range(cmds) : x.id \in Texts /\ x.r \in Requests
      BY Zenon, <3>1 DEF Pairs
    <3>3. \A x \in Range(ctl) \cup Range(cmds) : TextOf[x.r] = x.id /\ x.id \notin Held(run) /\ x.r \notin tookOf
      BY ZenonT(30), <1>1, <3>2, TextConstants, AttemptConstants DEF Queues, Stations
    <3> QED BY Zenon, <1>6, <3>3
  <2> QED BY Zenon, <1>1, <1>3, <2>1 DEF Queues
<1>10. Spent'
  BY Zenon, <1>1, <1>3, <1>6 DEF Spent, Used, Told
<1> QED BY Zenon, <1>3, <1>7, <1>8, <1>9, <1>10 DEF Mech, Base

\* PhoneAnswers keeps what is known and owed: the phone takes a copy only of
\* the last attempt of a text that it has none of, but for the windows of
\* Doubles.
LEMMA AnswersBooks == ASSUME Mech, Books, PhoneAnswers PROVE Books'
<1>1. Base /\ TypeOK /\ Stations /\ Spent /\ Queues
  BY Zenon DEF Mech, Base
<1>2. AnswersL
  BY Zenon, <1>1, AnswersOK
<1>3. /\ Held(run)' = Held(run) /\ phone' \in PhoneType
      /\ UNCHANGED <<mode, link, cmds, slips, radio, ctl, flight, emitting, plugin, conn, journal, tries, sweeping, outbox, live>>
  BY Zenon, <1>2 DEF AnswersL, elsewhere, radioVars, connVars, hostVars
<1>4. Attempts' = Attempts
  BY Zenon, <1>3 DEF Attempts
<1>5. CASE UNCHANGED <<phone, tookOf>>
  <2>1. Frame
    BY Zenon, <1>3, <1>4, <1>5 DEF Frame, Carries, In
  <2> QED BY Zenon, <1>1, <2>1, FrameL
<1>6. ASSUME NEW o \in run.open, Copies(o) PROVE Books'
  <2>1. /\ tookOf' = tookOf \cup {o.r} /\ o.r \in Requests /\ flight[o.id] = o.r /\ o.id \in Texts
        /\ phone' = [phone EXCEPT ![o.id] = TakesCopy(phone[o.id])]
        /\ ~Astray(o.r, o.id) /\ o.id \in Held(run) /\ TextOf[o.r] = o.id
    BY Zenon, <1>6 DEF Copies
  <2> DEFINE t == o.id
  <2>2. (\A k : Known(k)' <=> Known(k)) /\ (\A u : HasOutcome(u)' <=> HasOutcome(u))
    BY Zenon, <1>3, KnownSame
  <2>3. \A u, W : Slipped(u, W)' <=> Slipped(u, W)
    BY Zenon, <1>3 DEF Slipped
  <2>4. Told' = Told /\ Told \subseteq Keys /\ \A u : Emitting(u)' <=> Emitting(u)
    BY Zenon, <1>1, <1>3 DEF Told, Emitting, TypeOK
  <2>5. Truth /\ (\A u \in Texts : Settled(u)) /\ Order /\ (\A u \in Texts : TakenOnce(u))
         /\ (\A r \in Range(Attempts) : Owed(r)) /\ Earlier
    BY Zenon DEF Books
  <2>6. \A u \in Texts : u # t => phone'[u] = phone[u]
    BY Zenon, <1>1, <2>1 DEF TypeOK
  <2>7. phone'[t].n = phone[t].n + 1 /\ phone[t].n \in Nat
    <3>1. phone[t] \in [n : Nat, now : Slots, then : Slots, listed : BOOLEAN] /\ phone'[t] = TakesCopy(phone[t])
      BY Zenon, <1>1, <2>1 DEF TypeOK
    <3>2. TakesCopy(phone[t]).n = phone[t].n + 1
      BY Zenon, <3>1, CopyL
    <3> QED BY Zenon, <3>1, <3>2
  <2>8. Truth'
    <3>1. ASSUME NEW k \in Told PROVE Honest(k.id, k.a, k.r)'
      <4>1. k.id \in Texts
        BY Zenon, <2>4 DEF Keys
      <4>2. k.a = "sent" => phone'[k.id].n > 0
        <5>1. k.a = "sent" => phone[k.id].n > 0
          BY Zenon, <2>5 DEF Truth, Honest
        <5> QED BY <2>6, <2>7, <4>1, <5>1
      <4>3. ASSUME k.a = "failed", Astray(k.r, k.id)' PROVE FALSE
        <5>1. ~Slipped(k.id, {"moved"}) /\ (k.r \in tookOf \/ k.r = o.r)
          BY Zenon, <2>1, <2>3, <4>3 DEF Astray
        <5>2. k.r = o.r
          BY Zenon, <2>5, <4>3, <5>1 DEF Truth, Honest, Astray
        <5> QED BY Zenon, <2>1, <2>5, <4>3, <5>2 DEF Truth
      <4> QED BY Zenon, <4>2, <4>3 DEF Honest
    <3> QED BY Zenon, <1>3, <2>4, <2>5, <3>1 DEF Truth
  <2>9. \A u \in Texts : Settled(u)'
    BY Zenon, <1>3, <2>2, <2>3, <2>4, <2>5 DEF Settled
  <2>10. Order'
    BY Zenon, <1>3, <1>4, <2>3, <2>5 DEF Order
  <2>11. ASSUME NEW u \in Texts PROVE TakenOnce(u)'
    <3>1. CASE u # t
      <4>1. \A r : Where(u, r) => Where(u, r)'
        BY Zenon, <1>3, <2>2 DEF Where
      <4> QED BY ZenonT(30), <1>3, <1>4, <2>1, <2>3, <2>5, <2>6, <3>1, <4>1 DEF TakenOnce
    <3>2. CASE u = t
      <4> SUFFICES ASSUME ~Slipped(t, Doubles)
                   PROVE  phone'[t].n = 1 /\ \E r \in tookOf' : TextOf[r] = t /\ LastIn(Attempts, r) /\ Where(t, r)'
        BY Zenon, <1>4, <2>3, <3>2 DEF TakenOnce
      <4>1. ~Slipped(t, {"raced", "swept"}) /\ ~Slipped(t, {"moved"}) /\ ~Slipped(t, {"unrecorded"})
        BY Zenon DEF Slipped, Doubles
      <4>2. LastIn(Attempts, o.r) /\ flight[t] # NoRequest
        BY Zenon, <2>1, <2>5, <4>1, TextConstants, AttemptConstants DEF Order
      <4>3. ~(phone[t].n > 0)
        <5> SUFFICES ASSUME phone[t].n > 0 PROVE FALSE
          BY Zenon
        <5>1. ~HasOutcome(t)
          BY Zenon, <2>1, <2>5, <4>1, <4>2 DEF Settled
        <5>2. \A a \in {"sent", "doubt"} : Key(t, a, NoRequest) \notin outbox
          BY Zenon, <5>1 DEF HasOutcome, Known
        <5>3. PICK r \in tookOf : TextOf[r] = t /\ LastIn(Attempts, r)
          BY Zenon, <2>1, <2>5, <5>2 DEF TakenOnce
        <5>4. Attempts \in Seq(Requests)
          BY Zenon, <1>1, AttemptsType
        <5>5. r = o.r
          BY Zenon, <2>1, <4>2, <5>3, <5>4, LastSame
        <5> QED BY Zenon, <2>1, <4>1, <5>5 DEF Astray
      <4>4. phone'[t].n = 1
        BY <2>7, <4>3
      <4>5. Where(t, o.r)'
        BY Zenon, <1>3, <2>1 DEF Where
      <4> QED BY Zenon, <2>1, <4>2, <4>4, <4>5
    <3> QED BY Zenon, <3>1, <3>2
  <2>12. \A r \in Range(Attempts') : Owed(r)'
    BY Zenon, <1>3, <1>4, <2>2, <2>3, <2>5 DEF Owed
  <2>13. Earlier'
    BY ZenonT(30), <1>4, <2>2, <2>3, <2>5 DEF Earlier
  <2> QED BY Zenon, <2>8, <2>9, <2>10, <2>11, <2>12, <2>13 DEF Books
<1> QED BY Zenon, <1>2, <1>5, <1>6 DEF AnswersL

\* RadioStarts keeps the invariant.
LEMMA StartsOK == ASSUME Mech, Books, RadioStarts PROVE Mech' /\ Books'
<1>1. Base /\ TypeOK /\ Stations /\ Spent /\ Queues
  BY Zenon DEF Mech, Base
<1>2. /\ plugin = "up" /\ conn = {} /\ radio = "none" /\ radio' = "up" /\ mode' = "up"
      /\ UNCHANGED <<run, link, cmds, phone, tookOf, ctl, flight, emitting, plugin, conn, journal, tries, sweeping, outbox, live,
                   slips, faults>>
  BY Zenon DEF RadioStarts, connVars, hostVars
<1>3. Ledger(run, {})' /\ Held(run)' = Held(run) /\ PhoneOK' /\ Bounds
  BY Zenon, <1>1, <1>2, SameRun, NoSlip
<1>4. TypeOK'
  BY Zenon, <1>1, <1>2 DEF TypeOK
<1>5. Stations'
  BY Zenon, <1>1, <1>2 DEF Stations
<1>6. Queues' /\ Spent'
  BY Zenon, <1>1, <1>2, <1>3 DEF Queues, Spent, Used, Told
<1>7. Mech'
  BY Zenon, <1>3, <1>4, <1>5, <1>6 DEF Mech, Base
<1>8. Attempts' = Attempts
  BY Zenon, <1>2 DEF Attempts
<1>9. Frame
  BY Zenon, <1>2, <1>3, <1>8 DEF Frame, Carries, In
<1> QED BY Zenon, <1>1, <1>7, <1>9, FrameL

\* RadioDies keeps it: what was in its channels is owed by the sweep of the
\* dead radio.
LEMMA DiesOK == ASSUME Mech, Books, RadioDies PROVE Mech' /\ Books'
<1>1. Base /\ TypeOK /\ Stations /\ Spent /\ Queues
  BY Zenon DEF Mech, Base
<1>2. /\ radio = "up" /\ Fault /\ radio' = "dead" /\ ctl' = << >> /\ emitting' = {}
      /\ run' = NewRun /\ mode' = "over" /\ link' = FALSE /\ cmds' = << >>
      /\ UNCHANGED <<phone, tookOf, flight, plugin, conn, journal, tries, sweeping, outbox, live, slips>>
  BY Zenon DEF RadioDies, RadioGone, connVars, hostVars
<1>3. Ledger(run, {})' /\ Held(run)' = {} /\ PhoneOK' /\ Bounds
  BY Zenon, <1>1, <1>2, GoneRun, NoSlip
<1>4. NewRun.open = {} /\ NewRun.active = {} /\ NewRun \in Runs /\ << >> \in Seq(Pairs)
  BY NewRunL
<1>5. TypeOK'
  BY Zenon, <1>1, <1>2, <1>3, <1>4 DEF TypeOK, Bounds
<1>6. Stations'
  BY Zenon, <1>1, <1>2, <1>4 DEF Stations, Single
<1>7. Told' \subseteq Told /\ Told \subseteq Keys
  BY Zenon, <1>1, <1>2 DEF Told, TypeOK
<1>8. Queues' /\ Spent'
  <2>1. Queues'
    BY Zenon, <1>2, EmptyQ DEF Queues
  <2>2. Spent'
    BY Zenon, <1>1, <1>2, <1>7 DEF Spent, Used
  <2> QED BY Zenon, <2>1, <2>2
<1>9. Mech'
  BY Zenon, <1>3, <1>5, <1>6, <1>8 DEF Mech, Base
<1>10. Attempts' = Attempts
  BY Zenon, <1>2 DEF Attempts
<1>11. (\A k : Known(k)' <=> Known(k)) /\ (\A u : HasOutcome(u)' <=> HasOutcome(u))
  BY Zenon, <1>2, KnownSame
<1>12. \A u, W : Slipped(u, W)' <=> Slipped(u, W)
  BY Zenon, <1>2 DEF Slipped
<1>13. Truth /\ (\A u \in Texts : Settled(u)) /\ Order /\ (\A u \in Texts : TakenOnce(u))
         /\ (\A r \in Range(Attempts) : Owed(r)) /\ Earlier
  BY Zenon DEF Books
<1>14. Truth'
  BY Zenon, <1>2, <1>7, <1>12, <1>13 DEF Truth, Honest, Astray
<1>15. \A u \in Texts : Settled(u)'
  <2>1. \A u : ~Emitting(u)'
    BY Zenon, <1>2 DEF Emitting
  <2> QED BY Zenon, <1>2, <1>11, <1>12, <1>13, <2>1 DEF Settled
<1>16. Order'
  BY Zenon, <1>2, <1>10, <1>12, <1>13 DEF Order
<1>17. \A u \in Texts : TakenOnce(u)'
  <2>1. \A u, r : Where(u, r)'
    BY Zenon, <1>2 DEF Where
  <2> QED BY Zenon, <1>2, <1>10, <1>12, <1>13, <2>1 DEF TakenOnce
<1>18. \A r : Owed(r)'
  BY Zenon, <1>2 DEF Owed
<1>19. Earlier'
  BY ZenonT(30), <1>10, <1>11, <1>12, <1>13 DEF Earlier
<1> QED BY Zenon, <1>9, <1>14, <1>15, <1>16, <1>17, <1>18, <1>19 DEF Books

--------------------------------------------------------------------------
(* The sweep                                                               *)

\* SweepWrites (write_texts_left_open) keeps it: in doubt, or unsealed.
LEMMA SweepWritesOK == ASSUME Mech, Books, SweepWrites PROVE Mech' /\ Books'
<1>1. Base /\ TypeOK /\ Stations /\ Spent /\ Queues
  BY Zenon DEF Mech, Base
<1>2. /\ sweeping # {} /\ sweeping' = {}
      /\ UNCHANGED <<run, mode, link, cmds, phone, tookOf, radio, ctl, flight, emitting, plugin, conn, journal, tries, live>>
  BY Zenon DEF SweepWrites, runVars, radioVars
<1> DEFINE N == {Key(t, "doubt", NoRequest) : t \in sweeping}
<1>3. \/ outbox' = outbox \cup N /\ UNCHANGED <<slips, faults>>
      \/ /\ Fault /\ slips' = slips \cup Slip(sweeping, "unsealed")
         /\ UNCHANGED outbox
  BY Zenon DEF SweepWrites
<1>4. sweeping \subseteq Texts
  BY Zenon, <1>1 DEF TypeOK
<1>5. \A k \in N : k.id \in sweeping /\ k.a = "doubt" /\ k.r = NoRequest /\ k = Key(k.id, "doubt", NoRequest) /\ k \in Keys
  BY <1>4 DEF Key, Keys, Answers
<1>6. \A t \in sweeping : Key(t, "doubt", NoRequest) \in N
  BY Zenon
<1> HIDE DEF N
<1>7. /\ Slip(sweeping, "unsealed") \subseteq SlipType
      /\ \A t \in sweeping : [id |-> t, why |-> "unsealed"] \in Slip(sweeping, "unsealed")
  BY Zenon, <1>4, SlipL
<1>8. Bounds
  BY Zenon, <1>1, <1>3, <1>7, FaultsL DEF Bounds, TypeOK, SlipType
<1>9. Ledger(run, {})' /\ Held(run)' = Held(run) /\ PhoneOK'
  BY Zenon, <1>1, <1>2, <1>8, SameRun DEF Bounds
<1>10. outbox' \subseteq outbox \cup N /\ outbox \subseteq outbox'
  BY Zenon, <1>3
<1>11. TypeOK'
  <2>1. outbox' \subseteq Keys
    BY Zenon, <1>1, <1>5, <1>10 DEF TypeOK
  <2> QED BY Zenon, <1>1, <1>2, <1>8, <2>1 DEF TypeOK, Bounds, SlipType
<1>12. Stations'
  BY Zenon, <1>1, <1>2 DEF Stations
<1>13. Queues'
  BY Zenon, <1>1, <1>2, <1>9 DEF Queues
<1>14. Told \subseteq Told' /\ Told' \subseteq Told \cup N /\ Told \subseteq Keys
  BY Zenon, <1>1, <1>2, <1>10 DEF Told, TypeOK
<1>15. Spent'
  <2>1. \A r \in Requests : Used(r)' => Used(r)
    BY Zenon, <1>2, <1>5, <1>14 DEF Used
  <2> QED BY Zenon, <1>1, <1>2, <2>1 DEF Spent
<1>16. Mech'
  BY Zenon, <1>9, <1>11, <1>12, <1>13, <1>15 DEF Mech, Base
<1>17. Attempts' = Attempts /\ \A u : Emitting(u)' <=> Emitting(u)
  BY Zenon, <1>2 DEF Attempts, Emitting
<1>18. \A u, W : Slipped(u, W) => Slipped(u, W)'
  BY Zenon, <1>8, SlipsStay DEF Bounds
<1>19. Truth /\ (\A u \in Texts : Settled(u)) /\ Order /\ (\A u \in Texts : TakenOnce(u))
         /\ (\A r \in Range(Attempts) : Owed(r)) /\ Earlier
  BY Zenon DEF Books
<1>20. /\ \A k : Known(k) => Known(k)'
       /\ \A k : Known(k)' => Known(k) \/ k \in N
  BY Zenon, <1>2, <1>10 DEF Known
<1>21. \A u : HasOutcome(u) => HasOutcome(u)'
  BY Zenon, <1>20 DEF HasOutcome
<1>22. \A t \in sweeping : HasOutcome(t)' \/ (Slipped(t, Doubles)' /\ Slipped(t, Losses)')
  <2>1. CASE outbox' = outbox \cup N
    BY Zenon, <1>6, <2>1 DEF HasOutcome, Known
  <2>2. CASE slips' = slips \cup Slip(sweeping, "unsealed")
    <3>1. ASSUME NEW t \in sweeping PROVE Slipped(t, Doubles)' /\ Slipped(t, Losses)'
      <4>1. [id |-> t, why |-> "unsealed"] \in slips'
        BY Zenon, <1>7, <2>2
      <4> QED BY Zenon, <4>1 DEF Slipped, Doubles, Losses
    <3> QED BY Zenon, <3>1
  <2> QED BY Zenon, <1>3, <2>1, <2>2
<1>23. \A t, r : Known(Key(t, "failed", r))' => Known(Key(t, "failed", r))
  BY <1>5, <1>20, KeyL
<1>24. Truth'
  <2>1. \A r, u : Astray(r, u)' => Astray(r, u)
    BY Zenon, <1>2, <1>18 DEF Astray
  <2>2. \A k \in Told : k.id \in Texts
    BY Zenon, <1>14 DEF Keys
  <2> QED BY Zenon, <1>2, <1>5, <1>14, <1>19, <2>1, <2>2 DEF Truth, Honest
<1>25. ASSUME NEW u \in Texts PROVE Settled(u)'
  <2> SUFFICES ASSUME ~Slipped(u, {"raced", "swept"})
               PROVE  /\ HasOutcome(u)' \/ Emitting(u) => flight[u] = NoRequest
                      /\ HasOutcome(u)' => ~Emitting(u)
                      /\ ~(Known(Key(u, "sent", NoRequest))' /\ Known(Key(u, "doubt", NoRequest))')
    BY Zenon, <1>2, <1>17, <1>18 DEF Settled
  <2>1. CASE u \in sweeping
    <3>1. ~Slipped(u, {"swept"})
      BY Zenon DEF Slipped
    <3>2. flight[u] = NoRequest /\ ~Emitting(u) /\ ~HasOutcome(u)
      BY Zenon, <1>19, <2>1, <3>1 DEF Settled
    <3>3. ~Known(Key(u, "sent", NoRequest))'
      <4>1. ~Known(Key(u, "sent", NoRequest))
        BY Zenon, <3>2 DEF HasOutcome
      <4> QED BY <1>5, <1>20, <4>1, KeyL
    <3> QED BY Zenon, <3>2, <3>3
  <2>2. CASE u \notin sweeping
    <3>1. \A a : Known(Key(u, a, NoRequest))' <=> Known(Key(u, a, NoRequest))
      BY <1>5, <1>20, <2>2, KeyL
    <3>2. HasOutcome(u)' <=> HasOutcome(u)
      BY Zenon, <3>1 DEF HasOutcome
    <3> QED BY Zenon, <1>19, <3>1, <3>2 DEF Settled
  <2> QED BY Zenon, <2>1, <2>2
<1>26. Order'
  BY Zenon, <1>2, <1>17, <1>18, <1>19 DEF Order
<1>27. ASSUME NEW u \in Texts PROVE TakenOnce(u)'
  <2>1. \A r : Where(u, r) => Where(u, r)' \/ Slipped(u, Doubles)'
    BY Zenon, <1>2, <1>9, <1>21, <1>22 DEF Where
  <2> QED BY Zenon, <1>2, <1>10, <1>17, <1>18, <1>19, <2>1 DEF TakenOnce
<1>28. ASSUME NEW r \in Range(Attempts') PROVE Owed(r)'
  <2>1. Owed(r)
    BY Zenon, <1>17, <1>19
  <2> QED BY Zenon, <1>2, <1>9, <1>18, <1>20, <1>21, <1>22, <2>1 DEF Owed
<1>29. Earlier'
  BY Zenon, <1>17, <1>18, <1>19, <1>20, <1>21, <1>23 DEF Earlier
<1> QED BY Zenon, <1>16, <1>24, <1>25, <1>26, <1>27, <1>28, <1>29 DEF Books

\* A sweep begins: the radio or the process that is swept after is gone.
SweepBegins ==
    /\ conn = {} /\ radio # "up" /\ emitting = {} /\ flight' = Nobody
    /\ sweeping' = sweeping \cup LeftOpen(outbox \cup live)
    /\ UNCHANGED <<run, mode, link, cmds, phone, tookOf, ctl, emitting, conn, journal, tries, outbox, live, slips, faults>>

\* texts_left_open: a text that was handed over is left open, has an outcome,
\* or its last attempt failed for certain.
LEMMA LeftOpenL ==
    ASSUME TypeOK, NEW kept
    PROVE  /\ LeftOpen(kept) \subseteq Texts
           /\ \A t \in LeftOpen(kept) : Key(t, "sent", NoRequest) \notin kept /\ Key(t, "doubt", NoRequest) \notin kept
           /\ \A r \in Range(tries) :
                 \/ TextOf[r] \in LeftOpen(kept)
                 \/ \E a \in {"sent", "doubt"} : Key(TextOf[r], a, NoRequest) \in kept
                 \/ Key(TextOf[r], "failed", LastTry(TextOf[r])) \in kept
<1>1. Range(tries) \subseteq Requests
  BY Zenon, Entries DEF TypeOK
<1>2. {TextOf[r] : r \in Range(tries)} \subseteq Texts
  BY Zenon, <1>1, TextConstants, AttemptConstants
<1> QED BY Zenon, <1>2 DEF LeftOpen

\* A sweep keeps what is known and owed: by Earlier, a text it does not report
\* has an answer for each of its attempts.
LEMMA SweepBeginsOK ==
    ASSUME Mech, Books, LastTries, SweepBegins
    PROVE  /\ Books' /\ Ledger(run, {})' /\ PhoneOK' /\ Queues' /\ Spent'
           /\ flight' = Nobody /\ flight' \in [Texts -> Requests \cup {NoRequest}] /\ sweeping' \subseteq Texts
           /\ \A t \in Texts : flight'[t] = NoRequest
<1>1. Base /\ TypeOK /\ Stations /\ Spent /\ Queues
  BY Zenon DEF Mech, Base
<1>2. /\ conn = {} /\ radio # "up" /\ emitting = {} /\ flight' = Nobody
      /\ sweeping' = sweeping \cup LeftOpen(outbox \cup live)
      /\ UNCHANGED <<run, mode, link, cmds, phone, tookOf, ctl, emitting, conn, journal, tries, outbox, live, slips, faults>>
  BY Zenon DEF SweepBegins
<1>3. run = NewRun /\ ctl = << >> /\ cmds = << >> /\ Held(run) = {}
  BY Zenon, <1>1, <1>2, NewRunL DEF Stations
<1>4. \A t \in Texts : flight'[t] = NoRequest
  BY Zenon, <1>2 DEF Nobody
<1>5. flight' \in [Texts -> Requests \cup {NoRequest}]
  BY Zenon, <1>2 DEF Nobody
<1>6. Ledger(run, {})' /\ PhoneOK' /\ Held(run)' = {}
  BY Zenon, <1>1, <1>2, <1>3, SameRun
<1>7. Queues'
  BY Zenon, <1>2, <1>3, EmptyQ DEF Queues
<1>8. Told' = Told /\ Told \subseteq Keys
  BY Zenon, <1>1, <1>2 DEF Told, TypeOK
<1>9. Spent'
  <2>1. \A r \in Requests : Used(r)' => Used(r)
    BY Zenon, <1>2, <1>4, <1>8, TextConstants, AttemptConstants DEF Used
  <2> QED BY Zenon, <1>1, <1>2, <2>1 DEF Spent
<1>10. LeftOpen(outbox \cup live) \subseteq Texts /\ sweeping' \subseteq Texts
  BY Zenon, <1>1, <1>2, LeftOpenL DEF TypeOK
<1>11. Attempts' = Attempts /\ Attempts = tries /\ tries \in Seq(Requests)
  BY Zenon, <1>1, <1>2, AttemptsType DEF Attempts, TypeOK
<1>12. (\A k : Known(k)' <=> Known(k)) /\ (\A u : HasOutcome(u)' <=> HasOutcome(u))
  BY Zenon, <1>2, KnownSame
<1>13. \A u, W : Slipped(u, W)' <=> Slipped(u, W)
  BY Zenon, <1>2 DEF Slipped
<1>14. Truth /\ (\A u \in Texts : Settled(u)) /\ Order /\ (\A u \in Texts : TakenOnce(u))
         /\ (\A r \in Range(Attempts) : Owed(r)) /\ Earlier
  BY Zenon DEF Books
<1>15. \A r \in Range(tries) : \/ TextOf[r] \in sweeping' \/ HasOutcome(TextOf[r])
                               \/ Known(Key(TextOf[r], "failed", LastTry(TextOf[r])))
  BY Zenon, <1>1, <1>2, LeftOpenL DEF HasOutcome, Known
<1>16. Truth'
  <2>1. \A k \in Told : k.id \in Texts
    BY Zenon, <1>8 DEF Keys
  <2> QED BY ZenonT(30), <1>2, <1>4, <1>8, <1>13, <1>14, <2>1, TextConstants, AttemptConstants DEF Truth, Honest, Astray
<1>17. ASSUME NEW u \in Texts PROVE Settled(u)'
  <2>1. ~Emitting(u)'
    BY Zenon, <1>2 DEF Emitting
  <2>2. HasOutcome(u) => u \notin LeftOpen(outbox \cup live)
    BY Zenon, <1>1, LeftOpenL DEF HasOutcome, Known
  <2> QED BY Zenon, <1>2, <1>4, <1>12, <1>13, <1>14, <2>1, <2>2 DEF Settled
<1>18. Order'
  BY Zenon, <1>4, <1>11, <1>13, <1>14 DEF Order
<1>19. ASSUME NEW u \in Texts PROVE TakenOnce(u)'
  <2>1. ASSUME NEW r \in tookOf, TextOf[r] = u, LastIn(Attempts, r), ~Slipped(u, Doubles) PROVE Where(u, r)'
    <3>1. r \in Range(tries) /\ LastTry(u) = r
      <4>1. r \in Range(tries)
        BY Zenon, <1>11, <2>1 DEF LastIn, Range
      <4> QED BY Zenon, <1>11, <2>1, <4>1 DEF LastTries
    <3>2. ~Known(Key(u, "failed", r))
      <4>1. ~Slipped(u, {"moved"})
        BY Zenon, <2>1 DEF Slipped, Doubles
      <4>2. ASSUME Key(u, "failed", r) \in Told PROVE FALSE
        <5>1. PICK k \in Told : k = Key(u, "failed", r)
          BY Zenon, <4>2
        <5>2. k.id = u /\ k.a = "failed" /\ k.r = r
          BY <5>1, KeyL
        <5> QED BY Zenon, <1>14, <2>1, <4>1, <5>2 DEF Truth, Honest, Astray
      <4> QED BY Zenon, <4>2 DEF Known, Told
    <3>3. u \in sweeping' \/ HasOutcome(u)
      BY Zenon, <1>15, <2>1, <3>1, <3>2
    <3> QED BY Zenon, <1>12, <3>3 DEF Where
  <2> QED BY Zenon, <1>2, <1>11, <1>13, <1>14, <2>1 DEF TakenOnce
<1>20. ASSUME NEW r \in Range(Attempts') PROVE Owed(r)'
  <2> DEFINE t == TextOf[r]
  <2>1. r \in Range(tries)
    BY Zenon, <1>11
  <2>2. CASE t \in sweeping' \/ HasOutcome(t)
    BY Zenon, <1>12, <2>2 DEF Owed
  <2>3. CASE Known(Key(t, "failed", LastTry(t)))
    <3>1. PICK z : z = LastTry(t)
      BY Zenon
    <3>2. z \in Range(tries) /\ TextOf[z] = t /\ LastIn(tries, z)
      BY Zenon, <1>11, <2>1, <3>1 DEF LastTries
    <3>3. CASE z = r
      BY Zenon, <1>12, <2>3, <3>1, <3>3 DEF Owed
    <3>4. CASE z # r
      <4>1. PICK i \in DOMAIN tries : tries[i] = r
        BY Zenon, <2>1 DEF Range
      <4>2. PICK j \in DOMAIN tries : tries[j] = z /\ \A m \in DOMAIN tries : m > j => TextOf[tries[m]] # TextOf[z]
        BY Zenon, <3>2 DEF LastIn
      <4>3. i < j
        <5>1. i \in Nat /\ j \in Nat
          BY <1>11
        <5> QED BY <3>2, <3>4, <4>1, <4>2, <5>1
      <4>4. HasOutcome(t) \/ Known(Key(t, "failed", r)) \/ Slipped(t, Losses)
        BY ZenonT(30), <1>11, <1>14, <2>3, <3>1, <3>2, <4>1, <4>2, <4>3 DEF Earlier
      <4> QED BY Zenon, <1>12, <1>13, <4>4 DEF Owed
    <3> QED BY Zenon, <3>3, <3>4
  <2> QED BY Zenon, <1>15, <2>1, <2>2, <2>3
<1>21. Earlier'
  BY <1>11, <1>12, <1>13, <1>14 DEF Earlier
<1>22. Books'
  BY Zenon, <1>16, <1>17, <1>18, <1>19, <1>20, <1>21 DEF Books
<1> QED BY Zenon, <1>2, <1>4, <1>5, <1>6, <1>7, <1>9, <1>10, <1>22

\* Reap (reap_finished_radio) keeps the invariant.
LEMMA ReapOK == ASSUME Mech, Books, LastTries, Reap PROVE Mech' /\ Books'
<1>1. Base /\ TypeOK /\ Stations /\ Spent /\ Queues
  BY Zenon DEF Mech, Base
<1>2. /\ plugin = "up" /\ conn = {} /\ radio = "dead" /\ radio' = "none" /\ flight' = Nobody /\ plugin' = plugin
      /\ sweeping' = sweeping \cup LeftOpen(outbox \cup live)
      /\ UNCHANGED <<run, mode, link, cmds, phone, tookOf, ctl, emitting, conn, journal, tries, outbox, live, slips, faults>>
  BY Zenon DEF Reap, Sweep, runVars, hostVars
<1>3. emitting = {} /\ ctl = << >> /\ run = NewRun /\ mode = "over"
  BY Zenon, <1>1, <1>2 DEF Stations
<1>4. SweepBegins
  BY Zenon, <1>2, <1>3 DEF SweepBegins
<1>5. /\ Books' /\ Ledger(run, {})' /\ PhoneOK' /\ Queues' /\ Spent'
      /\ flight' = Nobody /\ flight' \in [Texts -> Requests \cup {NoRequest}] /\ sweeping' \subseteq Texts
      /\ \A t \in Texts : flight'[t] = NoRequest
  BY Zenon, <1>4, SweepBeginsOK
<1>6. TypeOK'
  BY Zenon, <1>1, <1>2, <1>5 DEF TypeOK
<1>7. Stations'
  BY ZenonT(30), <1>1, <1>2, <1>3, <1>5 DEF Stations, Nobody
<1> QED BY Zenon, <1>5, <1>6, <1>7 DEF Mech, Base

\* Restart (plugin.init) keeps it.
LEMMA RestartOK == ASSUME Mech, Books, LastTries, Restart PROVE Mech' /\ Books'
<1>1. Base /\ TypeOK /\ Stations /\ Spent /\ Queues
  BY Zenon DEF Mech, Base
<1>2. /\ plugin = "down" /\ plugin' = "up" /\ sweeping' = sweeping \cup LeftOpen(outbox)
      /\ UNCHANGED <<run, mode, link, cmds, phone, tookOf, radio, ctl, flight, emitting, conn, journal, tries, outbox, live, slips, faults>>
  BY Zenon DEF Restart, Sweep, runVars, radioVars, hostVars
<1>3. /\ radio = "none" /\ conn = {} /\ sweeping = {} /\ live = {} /\ emitting = {} /\ ctl = << >> /\ run = NewRun
      /\ mode = "over" /\ flight = Nobody
  BY Zenon, <1>1, <1>2 DEF Stations
<1>4. outbox \cup live = outbox
  BY Zenon, <1>3
<1>5. SweepBegins
  BY Zenon, <1>2, <1>3, <1>4 DEF SweepBegins
<1>6. /\ Books' /\ Ledger(run, {})' /\ PhoneOK' /\ Queues' /\ Spent'
      /\ flight' = Nobody /\ flight' \in [Texts -> Requests \cup {NoRequest}] /\ sweeping' \subseteq Texts
      /\ \A t \in Texts : flight'[t] = NoRequest
  BY Zenon, <1>5, SweepBeginsOK
<1>7. TypeOK'
  BY Zenon, <1>1, <1>2, <1>6 DEF TypeOK
<1>8. Stations'
  BY Zenon, <1>1, <1>2, <1>3, <1>6 DEF Stations, Nobody
<1> QED BY Zenon, <1>6, <1>7, <1>8 DEF Mech, Base

--------------------------------------------------------------------------
(* The process ends                                                        *)

\* The process ends, and N is what its radio still had to say.
Gone(N) ==
    /\ plugin = "up" /\ plugin' = "down" /\ conn' = {} /\ sweeping' = {} /\ live' = {}
    /\ radio' = "none" /\ ctl' = << >> /\ emitting' = {} /\ flight' = Nobody
    /\ run' = NewRun /\ mode' = "over" /\ link' = FALSE /\ cmds' = << >>
    /\ UNCHANGED <<phone, tookOf, journal, tries>> /\ outbox' = outbox \cup N /\ Bounds
    /\ N \subseteq Keys /\ SoleIn(N) /\ (N # {} => conn = {} /\ radio = "up" /\ emitting = {})
    /\ \A k \in N : /\ flight[k.id] # NoRequest /\ k = Key(k.id, k.a, flight[k.id])
                    /\ Honest(k.id, k.a, flight[k.id])
    /\ \A c \in conn : c.at = "queued" => Slipped(TextOf[c.r], {"unrecorded"})'
    /\ \A k \in live \ outbox : Slipped(k.id, {"unkept"})'

\* The end of the process keeps the threads' part.
LEMMA GoneMech == ASSUME Mech, NEW N, Gone(N) PROVE Mech'
<1>1. Base /\ TypeOK /\ Stations /\ Spent /\ Queues
  BY Zenon DEF Mech, Base
<1>2. /\ plugin = "up" /\ plugin' = "down" /\ conn' = {} /\ sweeping' = {} /\ live' = {}
      /\ radio' = "none" /\ ctl' = << >> /\ emitting' = {} /\ flight' = Nobody
      /\ run' = NewRun /\ mode' = "over" /\ link' = FALSE /\ cmds' = << >>
      /\ UNCHANGED <<phone, tookOf, journal, tries>> /\ outbox' = outbox \cup N /\ Bounds
      /\ N \subseteq Keys
  BY Zenon DEF Gone
<1>3. Ledger(run, {})' /\ PhoneOK' /\ NewRun.open = {} /\ NewRun.active = {} /\ NewRun \in Runs
  BY Zenon, <1>1, <1>2, GoneRun, NewRunL DEF Bounds
<1>4. flight' \in [Texts -> Requests \cup {NoRequest}] /\ \A t \in Texts : flight'[t] = NoRequest
  BY Zenon, <1>2 DEF Nobody
<1>5. TypeOK'
  <2>1. << >> \in Seq(Pairs)
    OBVIOUS
  <2> QED BY Zenon, <1>1, <1>2, <1>3, <1>4, <2>1 DEF TypeOK, Bounds, SlipType
<1>6. Stations'
  <2>1. Single({})
    BY Zenon DEF Single
  <2> QED BY Zenon, <1>2, <1>3, <1>4, <2>1 DEF Stations, Nobody
<1>7. Queues'
  BY Zenon, <1>2, EmptyQ DEF Queues
<1>8. Spent'
  <2>1. ASSUME NEW r \in Requests, Used(r)' PROVE Used(r)
    <3>1. flight'[TextOf[r]] # r
      BY Zenon, <1>4, TextConstants, AttemptConstants
    <3>2. CASE r \in tookOf \/ r \in Range(tries)
      BY Zenon, <3>2 DEF Used
    <3>3. CASE \E k \in outbox : k.a = "failed" /\ k.r = r
      BY Zenon, <3>3 DEF Used, Told
    <3>4. ASSUME NEW k \in N, k.a = "failed", k.r = r PROVE Used(r)
      <4>1. k.id \in Texts
        BY Zenon, <1>2 DEF Keys
      <4>2. flight[k.id] # NoRequest /\ k = Key(k.id, "failed", flight[k.id])
        BY Zenon, <3>4 DEF Gone
      <4>3. r = flight[k.id]
        BY <3>4, <4>2, KeyL
      <4>4. TextOf[r] = k.id
        BY Zenon, <1>1, <4>1, <4>2, <4>3 DEF Stations
      <4> QED BY Zenon, <4>3, <4>4 DEF Used
    <3> QED BY ZenonT(30), <1>2, <2>1, <3>1, <3>2, <3>3, <3>4 DEF Used, Told
  <2> QED BY Zenon, <1>1, <1>2, <2>1 DEF Spent
<1> QED BY Zenon, <1>3, <1>5, <1>6, <1>7, <1>8 DEF Mech, Base

\* The end of the process keeps what is known and owed: the sweep of the next
\* one owes what was under way, and what was only given live is unkept.
LEMMA GoneBooks == ASSUME Mech, Books, NEW N, Gone(N) PROVE Books'
<1>1. Base /\ TypeOK /\ Stations
  BY Zenon DEF Mech, Base
<1>2. /\ plugin = "up" /\ plugin' = "down" /\ conn' = {} /\ sweeping' = {} /\ live' = {} /\ emitting' = {}
      /\ UNCHANGED <<phone, tookOf, tries>> /\ outbox' = outbox \cup N /\ slips \subseteq slips'
      /\ N \subseteq Keys /\ (N # {} => conn = {} /\ radio = "up" /\ emitting = {})
  BY Zenon DEF Gone, Bounds
<1>3. \A t \in Texts : flight'[t] = NoRequest
  BY Zenon DEF Gone, Nobody
<1>4. \A u, W : Slipped(u, W) => Slipped(u, W)'
  BY Zenon, <1>2, SlipsStay
<1>5. tries \in Seq(Requests) /\ Attempts' = tries
  <2>1. tries \in Seq(Requests) /\ conn' \in SUBSET Asks /\ Single(conn')
    BY Zenon, <1>1, <1>2 DEF TypeOK, Single
  <2> QED BY Zenon, <1>1, <1>2, <2>1, NoAttempt
<1>6. Truth /\ (\A u \in Texts : Settled(u)) /\ Order /\ (\A u \in Texts : TakenOnce(u))
         /\ (\A r \in Range(Attempts) : Owed(r)) /\ Earlier
  BY Zenon DEF Books
<1>7. \A k \in N : /\ k.id \in Texts /\ k.a \in Answers /\ flight[k.id] \in Requests /\ TextOf[flight[k.id]] = k.id
                   /\ k = Key(k.id, k.a, flight[k.id]) /\ Honest(k.id, k.a, flight[k.id])
                   /\ (k.a = "failed" => k.r = flight[k.id]) /\ (k.a # "failed" => k.r = NoRequest)
  <2> SUFFICES ASSUME NEW k \in N
               PROVE  /\ k.id \in Texts /\ k.a \in Answers /\ flight[k.id] \in Requests /\ TextOf[flight[k.id]] = k.id
                      /\ k = Key(k.id, k.a, flight[k.id]) /\ Honest(k.id, k.a, flight[k.id])
                      /\ (k.a = "failed" => k.r = flight[k.id]) /\ (k.a # "failed" => k.r = NoRequest)
    BY Zenon
  <2>1. k.id \in Texts /\ k.a \in Answers
    BY Zenon, <1>2 DEF Keys
  <2>2. flight[k.id] # NoRequest /\ k = Key(k.id, k.a, flight[k.id]) /\ Honest(k.id, k.a, flight[k.id])
    BY Zenon DEF Gone
  <2>3. flight[k.id] \in Requests /\ TextOf[flight[k.id]] = k.id
    BY Zenon, <1>1, <2>1, <2>2 DEF TypeOK, Stations
  <2> QED BY <2>1, <2>2, <2>3, KeyL
<1>8. /\ \A k : Known(k)' => Known(k) \/ k \in N
      /\ \A k : Known(k) => Known(k)' \/ (k \in live /\ k \notin outbox)
  BY Zenon, <1>2 DEF Known
<1>9. \A k \in live \ outbox : Slipped(k.id, Losses)'
  <2>1. \A k \in live \ outbox : Slipped(k.id, {"unkept"})'
    BY Zenon DEF Gone
  <2> QED BY Zenon, <2>1 DEF Slipped, Losses
<1>10. /\ \A t : HasOutcome(t) => HasOutcome(t)' \/ Slipped(t, Losses)'
       /\ \A t, r : Known(Key(t, "failed", r)) => Known(Key(t, "failed", r))' \/ Slipped(t, Losses)'
  <2>1. \A t, a, r : Known(Key(t, a, r)) => Known(Key(t, a, r))' \/ Slipped(t, Losses)'
    <3>1. SUFFICES ASSUME NEW t, NEW a, NEW r, Known(Key(t, a, r)), ~Known(Key(t, a, r))'
                   PROVE  Slipped(t, Losses)'
      BY Zenon
    <3>2. PICK k : k = Key(t, a, r)
      BY Zenon
    <3>3. k \in live \ outbox /\ k.id = t
      BY Zenon, <1>8, <3>1, <3>2, KeyL
    <3> QED BY Zenon, <1>9, <3>3
  <2> QED BY Zenon, <2>1 DEF HasOutcome
<1>11. Truth'
  <2>1. \A r, u : Astray(r, u)' => Astray(r, u)
    BY Zenon, <1>2, <1>4 DEF Astray
  <2>2. \A k \in Told : k.id \in Texts
    BY Zenon, <1>1 DEF Keys, Told, TypeOK
  <2>3. Told' \subseteq Told \cup N
    BY Zenon, <1>2 DEF Told
  <2>4. ASSUME NEW k \in Told
        PROVE  /\ Honest(k.id, k.a, k.r)'
               /\ k.a = "failed" => k.r \in Requests /\ TextOf[k.r] = k.id /\ flight'[k.id] # k.r
               /\ k.a # "failed" => k.r = NoRequest
    BY ZenonT(30), <1>2, <1>3, <1>6, <2>1, <2>2, TextConstants, AttemptConstants DEF Truth, Honest
  <2>5. ASSUME NEW k \in N
        PROVE  /\ Honest(k.id, k.a, k.r)'
               /\ k.a = "failed" => k.r \in Requests /\ TextOf[k.r] = k.id /\ flight'[k.id] # k.r
               /\ k.a # "failed" => k.r = NoRequest
    <3>1. Honest(k.id, k.a, k.r)'
      BY Zenon, <1>2, <1>7, <2>1 DEF Honest
    <3> QED BY Zenon, <1>3, <1>7, <3>1, TextConstants, AttemptConstants
  <2> QED BY Zenon, <2>3, <2>4, <2>5 DEF Truth
<1>12. ASSUME NEW u \in Texts PROVE Settled(u)'
  <2>1. ~Emitting(u)'
    BY Zenon, <1>2 DEF Emitting
  <2> SUFFICES ASSUME ~Slipped(u, {"raced", "swept"}),
                      Known(Key(u, "sent", NoRequest))', Known(Key(u, "doubt", NoRequest))'
               PROVE  FALSE
    BY Zenon, <1>2, <1>3, <1>4, <2>1 DEF Settled
  <2>2. PICK k : k = Key(u, "sent", NoRequest)
    BY Zenon
  <2>3. PICK m : m = Key(u, "doubt", NoRequest)
    BY Zenon
  <2>4. k.id = u /\ m.id = u /\ k.a = "sent" /\ m.a = "doubt"
    BY <2>2, <2>3, KeyL
  <2>5. (Known(k) \/ k \in N) /\ (Known(m) \/ m \in N)
    BY Zenon, <1>8, <2>2, <2>3
  <2>6. k \in N \/ m \in N => flight[u] # NoRequest
    BY Zenon, <1>7, <2>4, TextConstants, AttemptConstants
  <2>7. ~(k \in N /\ m \in N)
    BY Zenon, <2>4 DEF Gone, SoleIn
  <2>8. Known(k) \/ Known(m) => HasOutcome(u)
    BY Zenon, <2>2, <2>3 DEF HasOutcome
  <2> QED BY Zenon, <1>6, <2>2, <2>3, <2>5, <2>6, <2>7, <2>8 DEF Settled
<1>13. /\ Inj(tries)
       /\ \A r : LastIn(Attempts, r) => LastIn(tries, r) \/ Slipped(TextOf[r], Doubles)'
       /\ \A i \in DOMAIN tries : i \in DOMAIN Attempts /\ Attempts[i] = tries[i]
  <2>1. CASE \A c \in conn : c.at # "queued"
    <3>1. Attempts = tries
      BY Zenon, <1>1, <2>1, AttemptsType
    <3> QED BY Zenon, <1>6, <3>1 DEF Order
  <2>2. ASSUME NEW c \in conn, c.at = "queued"
        PROVE  /\ Inj(tries)
               /\ \A r : LastIn(Attempts, r) => LastIn(tries, r) \/ Slipped(TextOf[r], Doubles)'
               /\ \A i \in DOMAIN tries : i \in DOMAIN Attempts /\ Attempts[i] = tries[i]
    <3>1. Attempts = Append(tries, c.r) /\ c.r \in Requests
      BY Zenon, <1>1, <2>2, AttemptsType, Unchosen
    <3>2. Slipped(TextOf[c.r], Doubles)'
      <4>1. Slipped(TextOf[c.r], {"unrecorded"})'
        BY Zenon, <2>2 DEF Gone
      <4> QED BY Zenon, <4>1 DEF Slipped, Doubles
    <3>3. Inj(tries) /\ \A r : LastIn(Attempts, r) /\ r # c.r => LastIn(tries, r)
      BY Zenon, <1>5, <1>6, <3>1, LastAppend DEF Order
    <3>4. \A i \in DOMAIN tries : i \in DOMAIN Attempts /\ Attempts[i] = tries[i]
      BY <1>5, <3>1, AppendAt
    <3> QED BY Zenon, <3>2, <3>3, <3>4
  <2> QED BY Zenon, <2>1, <2>2
<1>14. Order'
  BY Zenon, <1>3, <1>5, <1>13 DEF Order
<1>15. ASSUME NEW u \in Texts PROVE TakenOnce(u)'
  <2>1. \A r : Where(u, r)'
    BY Zenon, <1>2 DEF Where
  <2>2. \A r \in tookOf : TextOf[r] = u /\ LastIn(Attempts, r) => LastIn(tries, r) \/ Slipped(u, Doubles)'
    BY Zenon, <1>13
  <2> QED BY Zenon, <1>2, <1>4, <1>5, <1>6, <2>1, <2>2 DEF TakenOnce
<1>16. \A r : Owed(r)'
  BY Zenon, <1>2 DEF Owed
<1>17. Earlier'
  <2>0. PICK q : q = tries
    BY Zenon
  <2>1. ASSUME NEW i \in DOMAIN q, NEW j \in DOMAIN q, i < j, TextOf[q[i]] = TextOf[q[j]],
               Known(Key(TextOf[q[j]], "failed", q[j]))'
        PROVE  \/ HasOutcome(TextOf[q[j]])'
               \/ Known(Key(TextOf[q[j]], "failed", q[i]))'
               \/ Slipped(TextOf[q[j]], Losses)'
    <3>1. PICK t : t = TextOf[q[j]]
      BY Zenon
    <3>2. /\ i \in DOMAIN Attempts /\ j \in DOMAIN Attempts /\ Attempts[i] = q[i] /\ Attempts[j] = q[j]
          /\ TextOf[Attempts[i]] = TextOf[Attempts[j]] /\ t \in Texts
      BY ZenonT(30), <1>1, <1>13, <2>0, <2>1, <3>1, AttemptsType
    <3>3. HasOutcome(t) \/ Known(Key(t, "failed", q[i])) \/ Slipped(t, Losses)
      <4>1. CASE Known(Key(t, "failed", q[j]))
        BY Zenon, <1>6, <2>1, <3>1, <3>2, <4>1 DEF Earlier
      <4>2. CASE Key(t, "failed", q[j]) \in N
        <5>1. PICK k \in N : k = Key(t, "failed", q[j])
          BY Zenon, <4>2
        <5>2. k.id = t /\ flight[t] # NoRequest
          BY <1>7, <5>1, KeyL, TextConstants, AttemptConstants
        <5>3. radio = "up" /\ emitting = {} /\ plugin = "up"
          BY Zenon, <1>2, <5>1
        <5>4. flight[t] # q[i]
          BY ZenonT(30), <1>1, <1>6, <2>1, <3>1, <3>2, NotEarlier
        <5>5. Owed(q[i])
          BY Zenon, <1>1, <1>6, <3>2, AttemptsType
        <5>6. t \in sweeping => Slipped(t, Losses)
          <6>1. t \in sweeping => Slipped(t, {"swept"})
            BY Zenon, <1>6, <3>2, <5>2 DEF Settled
          <6> QED BY Zenon, <6>1 DEF Slipped, Losses
        <5> QED BY ZenonT(30), <2>1, <3>1, <5>3, <5>4, <5>5, <5>6 DEF Owed
      <4> QED BY Zenon, <1>8, <2>1, <3>1, <4>1, <4>2
    <3> QED BY Zenon, <1>4, <1>10, <3>1, <3>3
  <2> QED BY Zenon, <1>5, <2>0, <2>1 DEF Earlier
<1> QED BY Zenon, <1>11, <1>12, <1>14, <1>15, <1>16, <1>17 DEF Books

\* The texts whose outcome was only given live.
LEMMA UnkeptL ==
    ASSUME TypeOK
    PROVE  /\ Slip({k.id : k \in live \ outbox}, "unkept") \subseteq SlipType
           /\ \A k \in live \ outbox : [id |-> k.id, why |-> "unkept"] \in Slip({x.id : x \in live \ outbox}, "unkept")
<1>1. {k.id : k \in live \ outbox} \subseteq Texts
  BY DEF TypeOK, Keys
<1> QED BY Zenon, <1>1, SlipL

\* Crash keeps the invariant.
LEMMA CrashOK == ASSUME Mech, Books, Crash PROVE Mech' /\ Books'
<1>1. TypeOK /\ Stations
  BY Zenon DEF Mech, Base
<1> DEFINE A == {TextOf[c.r] : c \in {d \in conn : d.at = "queued"}}
           B == {k.id : k \in live \ outbox}
<1>2. /\ plugin = "up" /\ Fault /\ ProcessGone /\ outbox' = outbox
      /\ slips' = slips \cup Slip(A, "unrecorded") \cup Slip(B, "unkept")
  BY Zenon DEF Crash
<1>3. A \subseteq Texts
  BY <1>1, TextConstants, AttemptConstants DEF TypeOK
<1>4. Slip(A, "unrecorded") \subseteq SlipType /\ \A t \in A : [id |-> t, why |-> "unrecorded"] \in Slip(A, "unrecorded")
  BY Zenon, <1>3, SlipL
<1>5. Slip(B, "unkept") \subseteq SlipType /\ \A k \in live \ outbox : [id |-> k.id, why |-> "unkept"] \in Slip(B, "unkept")
  BY Zenon, <1>1, UnkeptL
<1>6. Bounds
  BY Zenon, <1>1, <1>2, <1>4, <1>5, FaultsL DEF Bounds, TypeOK, SlipType
<1>7. ASSUME NEW c \in conn, c.at = "queued" PROVE Slipped(TextOf[c.r], {"unrecorded"})'
  <2>1. PICK t : t = TextOf[c.r]
    BY Zenon
  <2>2. [id |-> t, why |-> "unrecorded"] \in slips'
    BY Zenon, <1>2, <1>4, <1>7, <2>1
  <2> QED BY Zenon, <2>1, <2>2 DEF Slipped
<1>8. ASSUME NEW k \in live \ outbox PROVE Slipped(k.id, {"unkept"})'
  <2>1. [id |-> k.id, why |-> "unkept"] \in slips'
    BY Zenon, <1>2, <1>5
  <2> QED BY Zenon, <2>1 DEF Slipped
<1>9. Gone({})
  <2>1. SoleIn({})
    BY Zenon DEF SoleIn
  <2> QED BY Zenon, <1>2, <1>6, <1>7, <1>8, <2>1 DEF Gone, ProcessGone, RadioGone
<1> QED BY Zenon, <1>9, GoneMech, GoneBooks

--------------------------------------------------------------------------
(* The theorems                                                            *)

\* The invariant holds of a new installation.
LEMMA InitL == ASSUME Init PROVE Mech /\ Books
<1>1. /\ run = NewRun /\ mode = "over" /\ link = FALSE /\ cmds = << >>
      /\ phone = [t \in Texts |-> [n |-> 0, now |-> "none", then |-> "none", listed |-> FALSE]]
      /\ tookOf = {}
      /\ radio = "none" /\ ctl = << >> /\ flight = Nobody /\ emitting = {}
      /\ plugin = "up" /\ conn = {} /\ journal = [r \in Requests |-> "none"]
      /\ tries = << >> /\ sweeping = {}
      /\ outbox = {} /\ live = {}
      /\ slips = {} /\ faults = 0
  BY Zenon DEF Init
<1>2. Ledger(NewRun, {}) /\ Held(NewRun) = {} /\ NewRun \in Runs /\ NewRun.open = {} /\ NewRun.active = {}
  BY Zenon, NewRunL
<1>3. \A t \in Texts : flight[t] = NoRequest /\ phone[t].n = 0 /\ phone[t].now = "none" /\ phone[t].then = "none"
  BY Zenon, <1>1 DEF Nobody
<1>4. TypeOK
  <2>1. << >> \in Seq(Pairs) /\ << >> \in Seq(Requests) /\ 0 \in 0..MaxFaults
    BY TextConstants, AttemptConstants
  <2>2. phone \in [Texts -> [n : Nat, now : Slots, then : Slots, listed : BOOLEAN]]
    BY Zenon, <1>1 DEF Slots
  <2>3. flight \in [Texts -> Requests \cup {NoRequest}]
    BY Zenon, <1>1 DEF Nobody
  <2> QED BY ZenonT(30), <1>1, <1>2, <2>1, <2>2, <2>3 DEF TypeOK
<1>5. PhoneOK
  BY Zenon, <1>3 DEF PhoneOK
<1>6. Stations
  BY Zenon, <1>1, <1>2, <1>3 DEF Stations, Single
<1>7. Queues
  BY Zenon, <1>1, EmptyQ DEF Queues
<1>8. Told = {} /\ Attempts = << >> /\ Range(tries) = {}
  <2>1. Attempts = << >>
    BY Zenon, <1>1 DEF Attempts, AttemptsOf
  <2> QED BY Zenon, <1>1, <2>1, EmptyQ DEF Told
<1>9. Spent
  BY Zenon, <1>1, <1>3, <1>8, TextConstants, AttemptConstants DEF Spent, Used
<1>10. Books
  <2>1. Truth
    BY Zenon, <1>8 DEF Truth
  <2>2. \A t \in Texts : Settled(t)
    BY Zenon, <1>1 DEF Settled, HasOutcome, Known, Emitting
  <2>3. Order
    BY <1>3, <1>8 DEF Order, Inj
  <2>4. \A t \in Texts : TakenOnce(t)
    BY <1>3 DEF TakenOnce
  <2>5. (\A r \in Range(Attempts) : Owed(r)) /\ Earlier
    BY <1>8, EmptyQ DEF Earlier
  <2> QED BY Zenon, <2>1, <2>2, <2>3, <2>4, <2>5 DEF Books
<1> QED BY ZenonT(30), <1>1, <1>2, <1>4, <1>5, <1>6, <1>7, <1>9, <1>10 DEF Mech, Base

\* It is about nothing but the variables.
LEMMA Stutter == ASSUME Mech, Books, UNCHANGED vars PROVE Mech' /\ Books'
<1>1. UNCHANGED <<run, mode, link, cmds, phone, tookOf, radio, ctl, flight, emitting, plugin, conn, journal, tries,
                  sweeping, outbox, live, slips, faults>>
  BY Zenon DEF vars, runVars, radioVars, connVars, hostVars
<1>2. Base /\ TypeOK /\ Stations /\ Queues /\ Spent
  BY Zenon DEF Mech, Base
<1>3. Ledger(run, {})' /\ Held(run)' = Held(run) /\ PhoneOK'
  BY Zenon, <1>1, <1>2, SameRun
<1>4. TypeOK'
  BY Zenon, <1>1, <1>2 DEF TypeOK
<1>5. Stations'
  BY Zenon, <1>1, <1>2 DEF Stations
<1>6. Queues' /\ Spent'
  BY Zenon, <1>1, <1>2, <1>3 DEF Queues, Spent, Used, Told
<1>7. Mech'
  BY Zenon, <1>3, <1>4, <1>5, <1>6 DEF Mech, Base
<1>8. Attempts' = Attempts
  BY Zenon, <1>1 DEF Attempts
<1>9. Frame
  BY Zenon, <1>1, <1>3, <1>8 DEF Frame, Carries, In
<1> QED BY Zenon, <1>2, <1>7, <1>9, FrameL

\* It implies the five properties.
LEMMA Consequences ==
    ASSUME Mech, Books
    PROVE  IInv /\ DoubtIsKept /\ ToldTheTruth /\ NotSentTwice /\ OneOutcome /\ OwedOrAnswered
<1>1. Base /\ TypeOK /\ Stations /\ Queues /\ Spent /\ Ledger(run, {}) /\ PhoneOK
  BY Zenon DEF Mech, Base
<1>2. Truth /\ (\A t \in Texts : Settled(t)) /\ Order /\ (\A t \in Texts : TakenOnce(t))
      /\ (\A r \in Range(Attempts) : Owed(r)) /\ Earlier
  BY Zenon DEF Books
<1>3. IInv
  BY Zenon, <1>1, <1>2 DEF IInv
<1>4. DoubtIsKept
  BY Zenon, <1>1 DEF DoubtIsKept, Ledger, Phases, Astray
<1>5. ToldTheTruth
  BY Zenon, <1>2 DEF ToldTheTruth, Truth, Honest, Astray, Told
<1>6. NotSentTwice
  <2>1. \A t \in Texts : phone[t].n \in Nat
    BY Zenon, <1>1 DEF TypeOK
  <2>2. \A n \in Nat : n > 1 => n > 0 /\ n # 1
    OBVIOUS
  <2> QED BY Zenon, <1>2, <2>1, <2>2 DEF NotSentTwice, TakenOnce, Doubles
<1>7. OneOutcome
  BY Zenon, <1>2 DEF OneOutcome, Settled
<1>8. OwedOrAnswered
  <2> SUFFICES ASSUME NEW r \in Range(tries)
               PROVE  \/ HasOutcome(TextOf[r]) \/ Known(Key(TextOf[r], "failed", r))
                      \/ Carried(TextOf[r], r)
                      \/ radio = "dead" \/ plugin = "down" \/ TextOf[r] \in sweeping
                      \/ Slipped(TextOf[r], {"dropped", "unkept", "unsealed", "swept"})
    BY Zenon DEF OwedOrAnswered
  <2> DEFINE t == TextOf[r]
  <2>1. Owed(r)
    BY Zenon, <1>1, <1>2, AttemptsType
  <2>2. ASSUME flight[t] = r, In(ctl, t) \/ In(cmds, t) \/ t \in Held(run) PROVE Carried(t, r)
    <3>1. CASE t \in Held(run)
      BY Zenon, <3>1 DEF Held, IsOpen, In, Carried
    <3>2. ASSUME NEW x \in Range(ctl) \cup Range(cmds), x.id = t PROVE Carried(t, r)
      <4>1. Range(ctl) \subseteq Pairs /\ Range(cmds) \subseteq Pairs
        BY Zenon, <1>1, Entries DEF TypeOK
      <4>2. x \in Pairs /\ x.r = r
        BY Zenon, <1>1, <2>2, <3>2, <4>1 DEF Queues
      <4>3. x = [id |-> t, r |-> r]
        BY Zenon, <3>2, <4>2 DEF Pairs
      <4> QED BY Zenon, <3>2, <4>3 DEF Carried
    <3> QED BY Zenon, <2>2, <3>1, <3>2 DEF In
  <2> QED BY Zenon, <2>1, <2>2 DEF Owed, Carried, Losses
<1> QED BY Zenon, <1>3, <1>4, <1>5, <1>6, <1>7, <1>8
=============================================================================
