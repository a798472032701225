---------------------------- MODULE TextsProofs -----------------------------
(***************************************************************************)
(* Texts: the steps of the runtime keep the inductive invariant of         *)
(* TextBooksProofs, and the five theorems it gives.                        *)
(***************************************************************************)
EXTENDS TextLedgerProofs, TextBooksProofs

--------------------------------------------------------------------------
(* Steps of the runtime that keep its texts                                *)

\* A step of the runtime or of the phone that neither takes in a text nor
\* loses one, and gives the phone none.
Steady ==
    /\ Ledger(run, {})' /\ Held(run)' = Held(run) /\ PhoneOK'
    /\ UNCHANGED <<cmds, tookOf, elsewhere>> /\ slips \subseteq slips'
    /\ phone' \in [Texts -> [n : Nat, now : Slots, then : Slots, listed : BOOLEAN]]
    /\ \A t \in Texts : phone'[t].n = phone[t].n
    /\ radio # "up" => run' = run /\ mode' = mode
    /\ mode' # "up" => run'.open = {} /\ ~link'
    /\ ~link' => run'.active = {}
    /\ mode' = "over" <=> mode = "over"
    /\ mode' \in {"up", "reopening", "over"} /\ link' \in BOOLEAN

\* A step of the ledger alone that keeps its texts is Steady.
LEMMA DoesL ==
    ASSUME Base, NEW s, Sound(run, s, {}), RunDoes(s), mode = "up",
           ~link => s.active = {}
    PROVE  Steady
<1>0. phone \in [Texts -> [n : Nat, now : Slots, then : Slots, listed : BOOLEAN]]
      /\ radio = "up" /\ mode \in {"up", "reopening", "over"} /\ link \in BOOLEAN
  BY Zenon DEF Base, TypeOK, Stations
<1>1. run' = s /\ UNCHANGED <<mode, link, cmds, phone, tookOf, elsewhere, slips>>
  BY Zenon DEF RunDoes
<1>2. UNCHANGED flight
  BY Zenon, <1>1 DEF elsewhere, radioVars
<1>3. CarriesOver(s)
  BY Zenon, <1>1, <1>2 DEF CarriesOver
<1>4. Ledger(run, {})'
  BY Zenon, <1>3, Transfer DEF Sound
<1>5. Held(run)' = Held(run)
  BY Zenon, <1>1 DEF Sound, Held, IsOpen, In
<1>6. PhoneOK'
  BY Zenon, <1>1 DEF Base, PhoneOK
<1> QED BY Zenon, <1>0, <1>1, <1>4, <1>5, <1>6 DEF Steady

\* RunStarts (drive_map_runtime) neither loses nor answers a text.
LEMMA StartsSteady == ASSUME Base, RunStarts PROVE Steady
<1>1. mode = "up" /\ link /\ run.active = {} /\ Ledger(run, {})
  BY Zenon DEF RunStarts, Base
<1>2. PICK i \in Ready(run) : RunDoes(Start(run, i)) \/ RunDoes(StartFails(run, i)) \/ RunDoes(FeedFails(run, i))
  BY Zenon DEF RunStarts
<1>3. i \in DOMAIN run.ops
  BY Zenon DEF Ready
<1>4. Sound(run, Start(run, i), {}) /\ Sound(run, StartFails(run, i), {}) /\ Sound(run, FeedFails(run, i), {})
  BY <1>1, <1>3, StartL, Zenon
<1> QED BY <1>1, <1>2, <1>4, DoesL, Zenon

\* RunPuts (note_put_out) neither.
LEMMA PutsSteady == ASSUME Base, RunPuts PROVE Steady
<1>1. PICK op \in run.active : op.k = "send" /\ run.put = "none" /\ RunDoes(PutOut(run, op))
  BY Zenon DEF RunPuts
<1>2. link /\ mode = "up" /\ Ledger(run, {})
  BY Zenon, Active DEF Base
<1>3. Sound(run, PutOut(run, op), {})
  BY <1>1, <1>2, PutOutL, Zenon
<1> QED BY <1>1, <1>2, <1>3, DoesL, Zenon

\* Whatever ends the operation in flight keeps its text.
LEMMA StopSound ==
    ASSUME Base, NEW op \in run.active, NEW why \in {"lost", "refused", "error"},
           why = "refused" => run.put = "refused", why = "error" => run.put = "erred"
    PROVE  Sound(run, Stop(run, op, why), {})
<1>1. Ledger(run, {})
  BY Zenon DEF Base
<1>2. Ledger(Stop(run, op, why), {}) /\ Held(Stop(run, op, why)) = Held(run)
  BY <1>1, Stopped
<1> QED BY Zenon, <1>2 DEF Sound

\* The phone's answer to a PUT arrives (handle_map_runtime_event).
LEMMA AnsweredSteady == ASSUME Base, PutAnswered PROVE Steady
<1>1. PICK op \in run.active :
         /\ RunDoes(CASE run.put = "taken" -> PutDone(run, op)
                      [] run.put = "refused" -> Stop(run, op, "refused")
                      [] run.put = "erred" -> Stop(run, op, "error")
                      [] OTHER -> run)
         /\ run.put \in {"taken", "refused", "erred"}
  BY Zenon DEF PutAnswered
<1>2. link /\ mode = "up" /\ Ledger(run, {})
  BY Zenon, Active DEF Base
<1>3. CASE run.put = "taken"
  <2>1. RunDoes(PutDone(run, op))
    BY <1>1, <1>3, Zenon
  <2>2. PICK o \in run.open : o.id = op.id
    BY Zenon, Active DEF IsOpen
  <2>3. phone[op.id].now # "none"
    BY Zenon, <1>3, <2>2, Active DEF Hot
  <2>4. phone[op.id].n > 0
    BY Zenon, <2>3, Active DEF Base, PhoneOK
  <2>5. Sound(run, PutDone(run, op), {})
    BY <1>2, <2>4, PutDoneL, Zenon
  <2> QED BY <1>2, <2>1, <2>5, DoesL, Zenon
<1>4. CASE run.put = "refused"
  <2>1. run.put # "taken"
    BY Zenon, <1>4
  <2>2. RunDoes(Stop(run, op, "refused"))
    BY Zenon, <1>1, <1>4, <2>1
  <2>3. Sound(run, Stop(run, op, "refused"), {})
    BY Zenon, <1>4, StopSound
  <2> QED BY <1>2, <2>2, <2>3, DoesL, Zenon
<1>5. CASE run.put = "erred"
  <2>2. RunDoes(Stop(run, op, "error"))
    BY Zenon, <1>1, <1>5
  <2>3. Sound(run, Stop(run, op, "error"), {})
    BY Zenon, <1>5, StopSound
  <2> QED BY <1>2, <2>2, <2>3, DoesL, Zenon
<1> QED BY Zenon, <1>1, <1>3, <1>4, <1>5

\* The MAS session fails under an operation.
LEMMA FailsSteady == ASSUME Base, SessionFails PROVE Steady
<1>1. PICK op \in run.active : RunDoes(Stop(run, op, "lost"))
  BY Zenon DEF SessionFails
<1>2. link /\ mode = "up"
  BY Zenon, Active
<1>3. Sound(run, Stop(run, op, "lost"), {})
  BY Zenon, StopSound
<1> QED BY <1>1, <1>2, <1>3, DoesL, Zenon

\* A listing cannot be read.
LEMMA GarbledSteady == ASSUME Base, Garbled PROVE Steady
<1>1. PICK op \in run.active :
         RunDoes(IF op.k = "snapshot" THEN SnapshotDone(run, op, "none") ELSE LookGarbled(run, op))
  BY Zenon DEF Garbled
<1>2. link /\ mode = "up" /\ Ledger(run, {})
  BY Zenon, Active DEF Base
<1>3. CASE op.k = "snapshot"
  <2>1. RunDoes(SnapshotDone(run, op, "none")) /\ "none" \in Snapshots
    BY <1>1, <1>3, Zenon DEF Snapshots
  <2>2. Sound(run, SnapshotDone(run, op, "none"), {})
    BY <1>2, <1>3, <2>1, SnapshotDoneL, Zenon
  <2> QED BY <1>2, <2>1, <2>2, DoesL, Zenon
<1>4. CASE op.k # "snapshot"
  <2>1. RunDoes(LookGarbled(run, op))
    BY <1>1, <1>4, Zenon
  <2>2. Sound(run, LookGarbled(run, op), {})
    BY <1>2, LookGarbledL, Zenon
  <2> QED BY <1>2, <2>1, <2>2, DoesL, Zenon
<1> QED BY Zenon, <1>3, <1>4

\* expire_waiting_texts, while no phone is connected.
LEMMA ExpiresSteady == ASSUME Base, Expires PROVE Steady
<1>1. mode = "up" /\ ~link /\ RunDoes(Expire(run)) /\ Ledger(run, {})
  BY Zenon DEF Expires, Base
<1>2. run.active = {}
  BY Zenon, <1>1 DEF Base, Stations
<1>3. Sound(run, Expire(run), {}) /\ Expire(run).active = {}
  BY <1>1, <1>2, ExpireL, Zenon
<1> QED BY <1>1, <1>3, DoesL, Zenon

\* A listing arrives: the snapshot before a PUT, or a look.
LEMMA ListedSteady == ASSUME Base, Listed PROVE Steady
<1>1. PICK op \in run.active :
         /\ op.k # "send"
         /\ \/ /\ op.k = "snapshot"
               /\ run' = SnapshotDone(run, op, "taken")
               /\ phone' = [phone EXCEPT ![op.id].listed = phone[op.id].then = "sent"]
            \/ /\ op.k # "snapshot"
               /\ \E found \in Found(op) : run' = LookDone(run, op, found)
               /\ UNCHANGED phone
         /\ UNCHANGED <<mode, link, cmds, tookOf, elsewhere, slips, faults>>
  BY Zenon DEF Listed
<1>2. link /\ mode = "up" /\ Ledger(run, {}) /\ op \in Ops /\ op.id \in Texts
  BY Zenon, Active DEF Base
<1>3. CASE op.k = "snapshot"
  <2>1. "taken" \in Snapshots
    BY Zenon DEF Snapshots
  <2>2. Sound(run, SnapshotDone(run, op, "taken"), {})
    BY <1>2, <1>3, <2>1, SnapshotDoneL, Zenon
  <2> DEFINE s == SnapshotDone(run, op, "taken")
  <2> HIDE DEF s
  <2>3. run' = s /\ Sound(run, s, {}) /\ UNCHANGED <<mode, link, cmds, tookOf, slips>> /\ UNCHANGED elsewhere
    BY Zenon, <1>1, <1>3, <2>2 DEF s
  <2>4. phone \in PhoneType
    BY Zenon DEF Base, TypeOK, PhoneType
  <2>5. phone' \in PhoneType /\ \A t \in Texts : phone'[t].n = phone[t].n /\ phone'[t].now = phone[t].now
                                                 /\ phone'[t].then = phone[t].then
    <3> DEFINE b == (phone[op.id].then = "sent")
    <3>1. b \in BOOLEAN /\ phone' = [phone EXCEPT ![op.id].listed = b]
      BY Zenon, <1>1, <1>3
    <3> HIDE DEF b
    <3> QED BY Zenon, <1>2, <2>4, <3>1 DEF PhoneType
  <2>6. s.open \subseteq OpenTexts /\ s.active \subseteq Ops
    BY Zenon, <2>3, Fields DEF Sound, Ledger
  <2>7. CarriesOver(s)
    BY Zenon, <2>3, <2>5, <2>6 DEF CarriesOver, elsewhere, radioVars, OpenTexts, Ops
  <2>8. Ledger(run, {})'
    BY Zenon, <2>3, <2>7, Transfer DEF Sound
  <2>9. Held(run)' = Held(run)
    BY Zenon, <2>3 DEF Sound, Held, IsOpen, In
  <2>10. PhoneOK'
    BY Zenon, <2>5 DEF Base, PhoneOK
  <2>11. radio = "up"
    BY Zenon, <1>2 DEF Base, Stations
  <2> QED BY Zenon, <1>2, <2>3, <2>5, <2>8, <2>9, <2>10, <2>11 DEF Steady, PhoneType
<1>4. CASE op.k # "snapshot"
  <2>1. PICK found \in Found(op) : run' = LookDone(run, op, found)
    BY <1>1, <1>4, Zenon
  <2>2. RunDoes(LookDone(run, op, found))
    BY Zenon, <1>1, <1>4, <2>1 DEF RunDoes
  <2>3. op.k \in {"look_sent", "look_outbox"}
    BY Zenon, <1>1, <1>2, <1>4 DEF Ops, OpKinds
  <2>4. phone[op.id].now \in Slots
    BY Zenon, <1>2 DEF Base, TypeOK
  <2>5. \/ phone[op.id].now = "none" /\ phone[op.id].then = "none"
        \/ phone[op.id].n > 0
    BY Zenon, <1>2 DEF Base, PhoneOK
  <2>6. Sound(run, LookDone(run, op, found), {})
    BY <1>2, <2>3, <2>4, <2>5, LookDoneL, Zenon
  <2> QED BY <1>2, <2>2, <2>6, DoesL, Zenon
<1> QED BY Zenon, <1>3, <1>4

\* The phone link drops.
LEMMA DropsSteady == ASSUME Base, LinkDrops PROVE Steady
<1> DEFINE s == LinkDown(run)
<1>1. link /\ run' = s /\ link' = FALSE /\ UNCHANGED <<mode, cmds, phone, tookOf, elsewhere, slips>>
  BY Zenon DEF LinkDrops
<1>2. Ledger(run, {}) /\ run.ops \in Seq(Ops)
  BY Zenon, Fields DEF Base, Ledger
<1>3. s \in Passing(run, run.ops, Len(run.ops))
  BY <1>2, LinkDownL, Zenon
<1> HIDE DEF s
<1>4. Ledger(s, {}) /\ Held(s) = Held(run) /\ s.active = {}
  BY Zenon, <1>2, <1>3, AfterAll DEF Passing
<1>5. CarriesOver(s)
  BY Zenon, <1>1 DEF CarriesOver, elsewhere, radioVars
<1>6. Ledger(run, {})'
  BY Zenon, <1>4, <1>5, Transfer
<1>7. Held(run)' = Held(run)
  BY Zenon, <1>1, <1>4 DEF Held, IsOpen, In
<1>8. PhoneOK' /\ mode = "up" /\ radio = "up"
  BY Zenon, <1>1 DEF Base, PhoneOK, Stations
<1> QED BY Zenon, <1>1, <1>4, <1>6, <1>7, <1>8 DEF Steady, Base, TypeOK

\* A phone connects, the same or another (switch_map_phone).
LEMMA ComesSteady == ASSUME Base, LinkComes PROVE Steady
<1>1. mode = "up" /\ ~link /\ link' = TRUE /\ UNCHANGED <<mode, cmds, tookOf, elsewhere, slips>>
  BY Zenon DEF LinkComes
<1>2. Ledger(run, {}) /\ run.active = {} /\ radio = "up"
  BY Zenon, <1>1 DEF Base, Stations
<1>3. CASE UNCHANGED <<run, phone>>
  <2>1. CarriesOver(run)
    BY Zenon, <1>1, <1>3 DEF CarriesOver, elsewhere, radioVars
  <2>2. Ledger(run, {})'
    BY Zenon, <1>2, <2>1, Transfer
  <2>3. PhoneOK' /\ Held(run)' = Held(run)
    BY Zenon, <1>3 DEF Base, PhoneOK, Held, IsOpen, In
  <2> QED BY Zenon, <1>1, <1>2, <1>3, <2>2, <2>3 DEF Steady, Base, TypeOK
<1>4. CASE /\ run' = SwitchPhone(run)
           /\ phone' = [t \in Texts |-> [phone[t] EXCEPT !.now = "none", !.then = "none",
                                                         !.listed = FALSE]]
  <2> DEFINE s == SwitchPhone(run)
  <2>1. Sound(run, s, {}) /\ s.ops = << >> /\ s.active = {}
    BY <1>2, SwitchPhoneL, Zenon
  <2> HIDE DEF s
  <2>2. phone \in PhoneType
    BY Zenon DEF Base, TypeOK, PhoneType
  <2>3. \A t \in Texts : LET p == [phone[t] EXCEPT !.now = "none", !.then = "none", !.listed = FALSE]
                         IN  /\ p \in [n : Nat, now : Slots, then : Slots, listed : BOOLEAN]
                             /\ p.n = phone[t].n /\ p.now = "none" /\ p.then = "none"
    BY Zenon, <2>2 DEF PhoneType, Slots
  <2>4. phone' \in PhoneType /\ \A t \in Texts : phone'[t].n = phone[t].n
                                /\ phone'[t].now = "none" /\ phone'[t].then = "none"
    BY Zenon, <1>4, <2>3 DEF PhoneType
  <2>5. CarriesOver(s)
    BY Zenon, <1>1, <1>4, <2>1, <2>4 DEF CarriesOver, elsewhere, radioVars, s
  <2>6. Ledger(run, {})'
    BY Zenon, <2>1, <2>5, Transfer DEF Sound
  <2>7. run' = s
    BY Zenon, <1>4 DEF s
  <2>8. Held(run)' = Held(run)
    BY Zenon, <2>1, <2>7 DEF Sound, Held, IsOpen, In
  <2>9. PhoneOK'
    BY Zenon, <2>4 DEF PhoneOK
  <2> QED BY Zenon, <1>1, <1>2, <2>4, <2>6, <2>8, <2>9 DEF Steady, PhoneType
<1> QED BY Zenon, <1>3, <1>4 DEF LinkComes

\* The run ends with the dongle (run_runtime_supervised).
LEMMA ReopensSteady == ASSUME Base, Reopens PROVE Steady
<1>0. PICK s \in EndRun(run) : run' = s
  BY Zenon DEF Reopens
<1>1. mode = "up" /\ run' = s /\ link' = FALSE /\ mode' = "reopening"
      /\ UNCHANGED <<cmds, phone, tookOf, elsewhere, slips>>
  BY Zenon, <1>0 DEF Reopens
<1>2. Ledger(run, {}) /\ radio = "up"
  BY Zenon, <1>1 DEF Base, Stations
<1>3. Sound(run, s, {}) /\ s.open = {} /\ s.active = {}
  BY <1>2, EndRunL, Zenon
<1>5. CarriesOver(s)
  BY Zenon, <1>1 DEF CarriesOver, elsewhere, radioVars
<1>6. Ledger(run, {})'
  BY Zenon, <1>3, <1>5, Transfer DEF Sound
<1>7. Held(run)' = Held(run)
  BY Zenon, <1>1, <1>3 DEF Sound, Held, IsOpen, In
<1>8. PhoneOK'
  BY Zenon, <1>1 DEF Base, PhoneOK
<1> QED BY Zenon, <1>1, <1>2, <1>3, <1>6, <1>7, <1>8 DEF Steady, Base, TypeOK

\* The next run starts.
LEMMA ReopenedSteady == ASSUME Base, Reopened PROVE Steady
<1>1. mode = "reopening" /\ mode' = "up" /\ UNCHANGED <<run, link, cmds, phone, tookOf, elsewhere, slips>>
  BY Zenon DEF Reopened
<1>2. Ledger(run, {}) /\ radio = "up" /\ (~link => run.active = {})
  BY Zenon, <1>1 DEF Base, Stations
<1>5. CarriesOver(run)
  BY Zenon, <1>1 DEF CarriesOver, elsewhere, radioVars
<1>6. Ledger(run, {})'
  BY Zenon, <1>2, <1>5, Transfer
<1>7. Held(run)' = Held(run) /\ PhoneOK'
  BY Zenon, <1>1 DEF Held, IsOpen, In, Base, PhoneOK
<1> QED BY Zenon, <1>1, <1>2, <1>6, <1>7 DEF Steady, Base, TypeOK

\* Time does nothing to a run that holds nothing.
LEMMA Nothing ==
    /\ \A t : GrowOld(NewRun, t) = NewRun
    /\ QuietOver(NewRun) = NewRun /\ DOMAIN NewRun.ops = {}
<1>1. ASSUME NEW t PROVE GrowOld(NewRun, t) = NewRun
  <2> DEFINE aged(op) == IF op.id = t THEN [op EXCEPT !.old = TRUE] ELSE op
             q == << >>
  <2>1. [i \in DOMAIN q |-> aged(q[i])] = q
    OBVIOUS
  <2>2. {aged(op) : op \in {}} = {}
    BY Zenon
  <2>3. GrowOld(NewRun, t) = [NewRun EXCEPT !.ops = [i \in DOMAIN q |-> aged(q[i])],
                                            !.active = {aged(op) : op \in {}}]
    BY Zenon DEF GrowOld, NewRun
  <2>4. GrowOld(NewRun, t) = [NewRun EXCEPT !.ops = q, !.active = {}]
    BY Zenon, <2>1, <2>2, <2>3
  <2> QED BY Zenon, <2>4 DEF NewRun
<1>2. QuietOver(NewRun) = NewRun /\ DOMAIN NewRun.ops = {}
  <2>1. NewRun.quiet = FALSE /\ NewRun.ops = << >>
    BY Zenon DEF NewRun
  <2>2. QuietOver(NewRun) = NewRun
    <3>1. << >> \in Seq(Ops) /\ << >> \in Seq([id : Texts, a : Answers])
      OBVIOUS
    <3>2. NewRun \in Runs
      BY Zenon, <3>1 DEF NewRun, Runs, PutStates
    <3>3. ASSUME NEW s \in Runs, s.quiet = FALSE PROVE [s EXCEPT !.quiet = FALSE] = s
      BY Zenon, <3>3 DEF Runs
    <3> QED BY Zenon, <2>1, <3>2, <3>3 DEF QuietOver
  <2> QED BY <2>1, <2>2
<1> QED BY Zenon, <1>1, <1>2

\* Time passes for the ledger.
LEMMA TimeSteady == ASSUME Base, Time PROVE Steady
<1>1. run' # run /\ UNCHANGED <<mode, link, cmds, phone, tookOf, elsewhere, slips>>
  BY Zenon DEF Time
<1>2. Ledger(run, {}) /\ run \in Runs
  BY Zenon DEF Base, Ledger
<1>3. \E s : run' = s /\ Sound(run, s, {}) /\ (run.active = {} => s.active = {}) /\ s.open = run.open
             /\ (run = NewRun => s = run)
  <2>1. CASE \E t \in Texts : run' = GrowOld(run, t)
    <3>1. PICK t \in Texts : run' = GrowOld(run, t)
      BY Zenon, <2>1
    <3>2. GrowOld(run, t).open = run.open
      BY Zenon, <1>2 DEF GrowOld, Runs
    <3>3. Sound(run, GrowOld(run, t), {}) /\ (run.active = {} => GrowOld(run, t).active = {})
      BY <1>2, TimeL, Zenon
    <3> QED BY <3>1, <3>2, <3>3, Nothing, Zenon
  <2>2. CASE \E i \in DOMAIN run.ops : run' = WaitOver(run, i)
    <3>1. PICK i \in DOMAIN run.ops : run' = WaitOver(run, i)
      BY Zenon, <2>2
    <3>2. WaitOver(run, i).open = run.open
      BY Zenon, <1>2 DEF WaitOver, Runs
    <3>3. Sound(run, WaitOver(run, i), {}) /\ WaitOver(run, i).active = run.active
      BY <1>2, TimeL, Zenon
    <3>4. run # NewRun
      BY Zenon, <3>1, Nothing
    <3> QED BY <3>1, <3>2, <3>3, <3>4, Zenon
  <2>3. CASE run' = QuietOver(run)
    <3>2. QuietOver(run).open = run.open
      BY Zenon, <1>2 DEF QuietOver, Runs
    <3>3. Sound(run, QuietOver(run), {}) /\ QuietOver(run).active = run.active
      BY <1>2, TimeL, Zenon
    <3> QED BY <2>3, <3>2, <3>3, Nothing, Zenon
  <2> QED BY <2>1, <2>2, <2>3, Zenon DEF Time
<1>4. PICK s : run' = s /\ Sound(run, s, {}) /\ (run.active = {} => s.active = {}) /\ s.open = run.open
               /\ (run = NewRun => s = run)
  BY <1>3, Zenon
<1>5. CarriesOver(s)
  BY Zenon, <1>1, <1>4 DEF CarriesOver, elsewhere, radioVars
<1>6. Ledger(run, {})'
  BY Zenon, <1>4, <1>5, Transfer DEF Sound
<1>7. Held(run)' = Held(run)
  BY Zenon, <1>4 DEF Sound, Held, IsOpen, In
<1>8. PhoneOK'
  BY Zenon, <1>1 DEF Base, PhoneOK
<1>9. radio = "up"
  BY Zenon, <1>1, <1>4 DEF Base, Stations
<1> QED BY Zenon, <1>1, <1>4, <1>6, <1>7, <1>8, <1>9 DEF Steady, Base, TypeOK, Stations

\* The phone moves a copy to its sent folder; under a look that hides it, and
\* the slip says so.
LEMMA FilesSteady == ASSUME Base, NEW t \in Texts, PhoneFiles(t) PROVE Steady
<1>1. UNCHANGED <<run, mode, link, cmds, tookOf, radioVars, connVars, hostVars, faults>>
  BY Zenon DEF PhoneFiles
<1>2. phone \in PhoneType /\ Ledger(run, {})
  BY Zenon DEF Base, TypeOK, PhoneType
<1>3. slips \subseteq slips'
  BY Zenon DEF PhoneFiles
<1>4. /\ phone' \in PhoneType
      /\ \A u \in Texts : /\ phone'[u].n = phone[u].n
                          /\ phone'[u].now # "none" <=> phone[u].now # "none"
                          /\ phone'[u].then # "none" <=> phone[u].then # "none"
                          /\ u # t => phone'[u].now = phone[u].now
  BY <1>2 DEF PhoneFiles, PhoneType, Slots
<1>5. ASSUME NEW op \in Range(run.ops) \cup run.active, op.k = "look_outbox", op.id = t
      PROVE  phone'[t].now = phone[t].now \/ Slipped(t, {"moved"})'
  <2>1. CASE phone[t].now = "outbox" /\ phone' = [phone EXCEPT ![t].now = "sent"] /\ slips' = slips \cup Slip({t}, "moved")
    <3>1. [id |-> t, why |-> "moved"] \in slips'
      BY Zenon, <2>1 DEF Slip
    <3> QED BY Zenon, <3>1 DEF Slipped
  <2>2. CASE phone' = [phone EXCEPT ![t].then = "sent"]
    BY Zenon, <1>2, <2>2 DEF PhoneType
  <2> QED BY Zenon, <1>5, <2>1, <2>2 DEF PhoneFiles
<1>6. \A r, u : Astray(r, u)' => Astray(r, u)
  BY Zenon, <1>1, <1>3 DEF Astray, Slipped
<1>7. run.open \subseteq OpenTexts
  BY Zenon, <1>2, Fields DEF Ledger
<1>8. ASSUME NEW o \in run.open, NEW op \in Range(run.ops) \cup run.active, op.id = o.id, Cold(op, o)
      PROVE  Cold(op, o)'
  <2>1. o.id \in Texts
    BY Zenon, <1>7 DEF OpenTexts
  <2>2. ASSUME Astray(o.r, o.id)' , op.k = "look_outbox" PROVE phone'[o.id].now = phone[o.id].now
    BY Zenon, <1>4, <1>5, <1>8, <2>1, <2>2 DEF Astray
  <2> QED BY Zenon, <1>4, <1>6, <1>8, <2>1, <2>2 DEF Cold
<1>9. Phases(run, {})'
  <2> SUFFICES ASSUME NEW o \in run.open
               PROVE  /\ Astray(o.r, o.id)' => o.out
                      /\ flight'[o.id] = o.r
                      /\ \A op \in Range(run.ops) : op.id = o.id => Cold(op, o)'
                      /\ \A op \in run.active : op.id = o.id => Hot(op, run.put, o)'
    BY Zenon, <1>1 DEF Phases
  <2>1. o.id \in Texts
    BY Zenon, <1>7 DEF OpenTexts
  <2>2. /\ Astray(o.r, o.id) => o.out
        /\ flight[o.id] = o.r
        /\ \A op \in Range(run.ops) : op.id = o.id => Cold(op, o)
        /\ \A op \in run.active : op.id = o.id => Hot(op, run.put, o)
    BY Zenon, <1>2 DEF Ledger, Phases
  <2>3. \A op \in Range(run.ops) : op.id = o.id => Cold(op, o)'
    BY Zenon, <1>8, <2>2
  <2>4. ASSUME NEW op \in run.active, op.id = o.id PROVE Hot(op, run.put, o)'
    <3>1. Hot(op, run.put, o)
      BY Zenon, <2>2, <2>4
    <3>2. Cold(op, o) => Cold(op, o)'
      BY Zenon, <1>8, <2>4
    <3> QED BY Zenon, <1>1, <1>4, <1>6, <2>1, <3>1, <3>2 DEF Hot
  <2> QED BY Zenon, <1>1, <1>6, <2>2, <2>3, <2>4 DEF radioVars
<1>10. Spoken(run)'
  <2>1. run.said \in Seq(Words) /\ run.answered \in Seq(Words)
    BY Zenon, <1>2, Fields DEF Ledger
  <2>2. \A x \in Range(run.said) \cup Range(run.answered) : x.id \in Texts
    BY Zenon, <2>1, RangeType DEF Words
  <2>3. \A x \in Range(run.said) : Honest(x.id, x.a, flight[x.id])'
    BY Zenon, <1>1, <1>2, <1>4, <1>6, <2>2 DEF Ledger, Spoken, Honest, radioVars
  <2> QED BY Zenon, <1>1, <1>2, <1>4, <2>2, <2>3 DEF Ledger, Spoken, IsOpen, radioVars
<1>11. Carrying(run, {})'
  BY Zenon, <1>1, <1>2 DEF Ledger, Carrying, Carriers, In, IsOpen
<1>12. Ledger(run, {})'
  BY Zenon, <1>1, <1>2, <1>9, <1>10, <1>11 DEF Ledger
<1>13. Held(run)' = Held(run)
  BY Zenon, <1>1 DEF Held, IsOpen, In
<1>14. PhoneOK'
  BY Zenon, <1>4 DEF Base, PhoneOK
<1> QED BY Zenon, <1>1, <1>3, <1>4, <1>12, <1>13, <1>14 DEF Steady, Base, TypeOK, Stations, elsewhere, PhoneType

\* The steps of the runtime and the phone that move no text across the
\* channels.
SteadyStep ==
    \/ RunStarts \/ RunPuts \/ PutAnswered \/ Listed \/ Garbled \/ SessionFails \/ LinkDrops
    \/ LinkComes \/ Expires \/ Time \/ Reopens \/ Reopened \/ \E t \in Texts : PhoneFiles(t)

\* All of them are Steady.
LEMMA SteadyL == ASSUME Base, SteadyStep PROVE Steady
BY StartsSteady, PutsSteady, AnsweredSteady, ListedSteady, GarbledSteady, FailsSteady, DropsSteady,
   ComesSteady, ExpiresSteady, TimeSteady, ReopensSteady, ReopenedSteady, FilesSteady, Zenon
   DEF SteadyStep

--------------------------------------------------------------------------
(* Steps that take a text in or out                                        *)

\* What RadioHears takes from the runtime.
HearsL ==
    LET x == Head(run.said) IN
    /\ x \in Words /\ x.id \in Held(run) /\ flight[x.id] \in Requests
    /\ Honest(x.id, x.a, flight[x.id])
    /\ Ledger(run, {})' /\ Held(run)' = Held(run) \ {x.id} /\ PhoneOK'
    /\ run'.active = run.active /\ run'.open = run.open

\* RadioHears (SmsSent, SmsSendFailed) takes a true answer of the attempt in
\* flight.
LEMMA HearsOK == ASSUME Base, RadioHears PROVE HearsL
<1> DEFINE x == Head(run.said)
           s == [run EXCEPT !.said = Tail(run.said)]
<1>0. Ledger(run, {}) /\ run.said # << >> /\ run \in Runs /\ flight \in [Texts -> Requests \cup {NoRequest}]
      /\ flight' = [flight EXCEPT ![x.id] = NoRequest] /\ UNCHANGED <<phone, tookOf, slips>>
  BY Zenon DEF Base, RadioHears, Ledger, TypeOK
<1>1. run' = s
  BY Zenon, <1>0 DEF RadioHears, Runs
<1>2. /\ Ledger(s, {}) /\ Held(s) = Held(run) \ {x.id}
      /\ s.active = run.active /\ s.open = run.open
      /\ x \in Words /\ x.id \in Held(run)
      /\ flight[x.id] # NoRequest /\ Honest(x.id, x.a, flight[x.id])
  BY Zenon, <1>0, HeardL
<1> HIDE DEF s
<1>3. x.id \in Texts
  BY Zenon, <1>2 DEF Words
<1>4. \A t \in Held(s) : t \in Texts /\ t # x.id
  BY Zenon, <1>2 DEF Held
<1>5. CarriesOver(s)
  BY Zenon, <1>0, <1>1, <1>3, <1>4 DEF CarriesOver
<1>6. Ledger(run, {})'
  BY Zenon, <1>2, <1>5, Transfer
<1>7. Held(run)' = Held(run) \ {x.id} /\ PhoneOK'
  BY Zenon, <1>0, <1>1, <1>2 DEF Held, IsOpen, In, Base, PhoneOK
<1> QED BY Zenon, <1>0, <1>1, <1>2, <1>3, <1>6, <1>7 DEF HearsL

\* The runtime takes a text of its channel.
Gains ==
    /\ cmds # << >> /\ mode # "over" /\ cmds' = Tail(cmds)
    /\ Held(run)' = Held(run) \cup {Head(cmds).id} /\ Ledger(run, {})' /\ PhoneOK'
    /\ phone' \in PhoneType /\ \A t \in Texts : phone'[t].n = phone[t].n
    /\ UNCHANGED <<mode, link, tookOf, elsewhere, slips>>
    /\ run'.active = run.active /\ (mode # "up" => run'.open = {})

\* The first text of the runtime's channel is in flight, and neither the run
\* nor the phone has it.
LEMMA HeadOfCmds ==
    ASSUME Base, Queues, cmds # << >>
    PROVE  LET x == Head(cmds) IN
           /\ x \in Pairs /\ x \in Range(cmds) /\ x.id \in Texts /\ x.r \in Requests
           /\ x.id \notin Held(run) /\ flight[x.id] = x.r /\ x.r \notin tookOf
<1>1. cmds \in Seq(Pairs)
  BY Zenon DEF Base, TypeOK
<1>2. Head(cmds) \in Pairs /\ Head(cmds) \in Range(cmds)
  BY <1>1, TailIds
<1> QED BY Zenon, <1>2 DEF Queues, Pairs

\* SendSms at the runtime: the text leaves the channel and is held.
LEMMA TakesInGains == ASSUME Base, Queues, RunTakesIn PROVE Gains
<1> DEFINE x == Head(cmds)
<1>0. mode = "up" /\ cmds # << >> /\ cmds' = Tail(cmds) /\ UNCHANGED <<mode, link, tookOf, elsewhere, slips, faults>>
  BY Zenon DEF RunTakesIn
<1>1. PICK fits \in BOOLEAN :
             /\ run' = TakeIn(run, x.id, x.r, fits)
             /\ phone' = IF ~IsOpen(run, x.id) /\ IsOpen(run', x.id)
                         THEN [phone EXCEPT ![x.id] = Handed(@)] ELSE phone
  BY Zenon DEF RunTakesIn
<1>2. /\ x \in Pairs /\ x.id \in Texts /\ x.r \in Requests
      /\ x.id \notin Held(run) /\ flight[x.id] = x.r /\ x.r \notin tookOf
  BY Zenon, <1>0, HeadOfCmds
<1> DEFINE s == TakeIn(run, x.id, x.r, fits)
<1> HIDE DEF x
<1>3. Ledger(run, {}) /\ phone \in PhoneType
  BY Zenon DEF Base, TypeOK, PhoneType
<1>4. Gained(run, s, x.id)
  BY <1>2, <1>3, TakeInL, Zenon
<1>5. run' = s
  BY Zenon, <1>1
<1> HIDE DEF s
<1>6. /\ phone' \in PhoneType
      /\ \A t \in Texts : /\ phone'[t].n = phone[t].n
                          /\ t # x.id => phone'[t] = phone[t]
                          /\ phone[t].n = 0 /\ phone[t].now = "none" /\ phone[t].then = "none"
                               => phone'[t].now = "none" /\ phone'[t].then = "none"
  <2>1. CASE phone' = phone
    BY Zenon, <1>3, <2>1
  <2>2. CASE phone' = [phone EXCEPT ![x.id] = Handed(phone[x.id])]
    <3> DEFINE p == phone[x.id]
    <3>1. p \in [n : Nat, now : Slots, then : Slots, listed : BOOLEAN]
      BY Zenon, <1>2, <1>3 DEF PhoneType
    <3> HIDE DEF p
    <3>2. /\ Handed(p) \in [n : Nat, now : Slots, then : Slots, listed : BOOLEAN]
          /\ Handed(p).n = p.n /\ Handed(p).now = "none"
          /\ p.now = "none" /\ p.then = "none" => Handed(p).then = "none"
      BY Zenon, <3>1 DEF Handed, Slots
    <3>3. phone' = [phone EXCEPT ![x.id] = Handed(p)]
      BY Zenon, <2>2 DEF p
    <3> QED BY Zenon, <1>2, <1>3, <3>2, <3>3 DEF PhoneType, p
  <2> QED BY Zenon, <1>1, <2>1, <2>2
<1>7. CarriesOver(s)
  <2>1. Ledger(s, {}) /\ s.active = run.active /\ s.open \subseteq OpenTexts /\ s.active \subseteq Ops
    BY Zenon, <1>4, Fields DEF Gained, Ledger
  <2>2. \A op \in s.active : op.id # x.id /\ op.id \in Texts
    BY Zenon, <1>2, <1>3, <2>1 DEF Ledger, Carrying, Carriers, Held, Ops
  <2>3. \A o \in s.open : o.id \in Texts /\ (o.id = x.id => ~Astray(o.r, o.id))
    <3>1. \A o \in s.open : flight[o.id] = o.r /\ o.id \in Texts
      BY Zenon, <2>1 DEF Ledger, Phases, OpenTexts
    <3> QED BY Zenon, <1>2, <3>1 DEF Astray
  <2> QED BY Zenon, <1>0, <1>5, <1>6, <2>2, <2>3 DEF CarriesOver, elsewhere, radioVars
<1>8. Ledger(run, {})'
  BY Zenon, <1>4, <1>7, Transfer DEF Gained
<1>9. Held(run)' = Held(run) \cup {x.id}
  BY Zenon, <1>4, <1>5 DEF Gained, Held, IsOpen, In
<1>10. PhoneOK'
  <2> SUFFICES ASSUME NEW t \in Texts PROVE phone'[t].now # "none" \/ phone'[t].then # "none" => phone'[t].n > 0
    BY Zenon DEF PhoneOK
  <2>1. phone[t].n \in Nat
    BY Zenon, <1>3 DEF PhoneType
  <2>2. phone[t].now # "none" \/ phone[t].then # "none" => phone[t].n > 0
    BY Zenon DEF Base, PhoneOK
  <2> QED BY <1>6, <2>1, <2>2
<1> QED BY Zenon, <1>0, <1>4, <1>5, <1>6, <1>8, <1>9, <1>10 DEF Gains, Gained, x

\* The supervisor answers busy while the dongle is reopened: the text leaves
\* the channel and its failure is held.
LEMMA BusyGains == ASSUME Base, Queues, AnswersBusy PROVE Gains
<1> DEFINE x == Head(cmds)
           s == Say(run, x.id, "failed")
<1>0. /\ mode = "reopening" /\ cmds # << >> /\ cmds' = Tail(cmds) /\ run' = s
      /\ UNCHANGED <<mode, link, phone, tookOf, elsewhere, slips, faults>>
  BY Zenon DEF AnswersBusy
<1>2. /\ x \in Pairs /\ x.id \in Texts /\ x.r \in Requests
      /\ x.id \notin Held(run) /\ flight[x.id] = x.r /\ x.r \notin tookOf
  BY Zenon, <1>0, HeadOfCmds
<1> HIDE DEF x
<1>3. Ledger(run, {}) /\ phone \in PhoneType /\ run \in Runs
  BY Zenon DEF Base, TypeOK, PhoneType
<1>4. "failed" \in Answers /\ Honest(x.id, "failed", flight[x.id]) /\ flight[x.id] # NoRequest
  BY Zenon, <1>2, TextConstants, AttemptConstants DEF Answers, Honest, Astray
<1>5. Gained(run, s, x.id)
  BY <1>2, <1>3, <1>4, SayL, Zenon
<1>6. s.open = run.open
  BY Zenon, <1>3 DEF Say, Runs
<1> HIDE DEF s
<1>7. CarriesOver(s)
  BY Zenon, <1>0 DEF CarriesOver, elsewhere, radioVars
<1>8. Ledger(run, {})'
  BY Zenon, <1>5, <1>7, Transfer DEF Gained
<1>9. Held(run)' = Held(run) \cup {x.id} /\ PhoneOK'
  BY Zenon, <1>0, <1>5 DEF Gained, Held, IsOpen, In, Base, PhoneOK
<1>10. run.open = {}
  BY Zenon, <1>0 DEF Base, Stations
<1> QED BY Zenon, <1>0, <1>3, <1>5, <1>6, <1>8, <1>9, <1>10 DEF Gains, Gained, x

\* The runtime thread returns: its ledger reports every text it holds.
LEMMA GivesUpL ==
    ASSUME Base, GivesUp
    PROVE  /\ Ledger(run, {})' /\ Held(run)' = Held(run) /\ PhoneOK'
           /\ run'.open = {} /\ run'.active = {} /\ slips \subseteq slips'
<1>0. PICK s \in EndRun(run) : run' = s
  BY Zenon DEF GivesUp
<1>1. run' = s /\ slips \subseteq slips' /\ UNCHANGED <<phone, tookOf, elsewhere>>
  BY Zenon, <1>0 DEF GivesUp
<1>2. Ledger(run, {})
  BY Zenon DEF Base
<1>3. Sound(run, s, {}) /\ s.open = {} /\ s.active = {}
  BY <1>2, EndRunL, Zenon
<1>4. CarriesOver(s)
  BY Zenon, <1>1 DEF CarriesOver, elsewhere, radioVars
<1>5. Ledger(run, {})'
  BY Zenon, <1>3, <1>4, Transfer DEF Sound
<1>6. Held(run)' = Held(run) /\ PhoneOK'
  BY Zenon, <1>1, <1>3 DEF Sound, Held, IsOpen, In, Base, PhoneOK
<1> QED BY Zenon, <1>1, <1>3, <1>5, <1>6

--------------------------------------------------------------------------
(* The runtime's and the phone's steps keep the invariant                  *)

\* ... so do the steps of the runtime and the phone.
LEMMA SteadyBounds == ASSUME TypeOK, SteadyStep PROVE Bounds
<1>1. CASE RunStarts
  BY Zenon, <1>1, NoSlip DEF RunStarts, RunDoes
<1>2. CASE RunPuts
  BY Zenon, <1>2, NoSlip DEF RunPuts, RunDoes
<1>3. CASE PutAnswered
  <2>1. UNCHANGED faults /\ UNCHANGED slips
    BY <1>3, Zenon DEF PutAnswered, RunDoes
  <2> QED BY Zenon, <2>1, NoSlip
<1>4. CASE Listed
  BY Zenon, <1>4, NoSlip DEF Listed
<1>5. CASE Garbled
  <2>1. Fault /\ UNCHANGED slips
    BY <1>5, Zenon DEF Garbled, RunDoes
  <2> QED BY Zenon, <2>1, NoSlip
<1>6. CASE SessionFails
  BY Zenon, <1>6, NoSlip DEF SessionFails, RunDoes
<1>7. CASE LinkDrops
  BY Zenon, <1>7, NoSlip DEF LinkDrops
<1>8. CASE LinkComes
  BY Zenon, <1>8, NoSlip DEF LinkComes
<1>9. CASE Expires
  BY Zenon, <1>9, NoSlip DEF Expires, RunDoes
<1>10. CASE Time
  BY Zenon, <1>10, NoSlip DEF Time
<1>11. CASE Reopens
  BY Zenon, <1>11, NoSlip DEF Reopens
<1>12. CASE Reopened
  BY Zenon, <1>12, NoSlip DEF Reopened
<1>13. ASSUME NEW t \in Texts, PhoneFiles(t) PROVE Bounds
  <2>1. slips' = slips \/ slips' = slips \cup Slip({t}, "moved")
    BY Zenon, <1>13 DEF PhoneFiles
  <2>2. Slip({t}, "moved") \subseteq SlipType
    BY Zenon, SlipL
  <2>3. UNCHANGED faults
    BY Zenon, <1>13 DEF PhoneFiles
  <2> QED BY Zenon, <2>1, <2>2, <2>3, FaultsL DEF Bounds, TypeOK, SlipType
<1> QED BY Zenon, <1>1, <1>2, <1>3, <1>4, <1>5, <1>6, <1>7, <1>8, <1>9, <1>10, <1>11, <1>12, <1>13 DEF SteadyStep

\* They keep the threads' part of the invariant.
LEMMA SteadyMech == ASSUME Mech, SteadyStep PROVE Mech'
<1>1. Base /\ Queues /\ Spent /\ TypeOK /\ Stations
  BY Zenon DEF Mech, Base
<1>2. Steady /\ Bounds
  BY Zenon, <1>1, SteadyL, SteadyBounds
<1>3. UNCHANGED <<cmds, tookOf, radio, ctl, flight, emitting, plugin, conn, journal, tries, sweeping, outbox, live>>
  BY Zenon, <1>2 DEF Steady, elsewhere, radioVars, connVars, hostVars
<1>4. TypeOK'
  <2>1. run' \in Runs /\ mode' \in {"up", "reopening", "over"} /\ link' \in BOOLEAN
        /\ phone' \in [Texts -> [n : Nat, now : Slots, then : Slots, listed : BOOLEAN]]
    BY Zenon, <1>2 DEF Steady, Ledger
  <2> QED BY Zenon, <1>1, <1>2, <1>3, <2>1 DEF TypeOK, Bounds, SlipType
<1>5. Stations'
  BY Zenon, <1>1, <1>2, <1>3 DEF Stations, Steady
<1>6. Queues'
  BY Zenon, <1>1, <1>2, <1>3 DEF Queues, Steady
<1>7. Spent'
  BY Zenon, <1>1, <1>3 DEF Spent, Used, Told
<1> QED BY Zenon, <1>2, <1>4, <1>5, <1>6, <1>7 DEF Mech, Base, Steady

\* They keep what is known and owed.
LEMMA SteadyBooks == ASSUME Mech, Books, SteadyStep PROVE Books'
<1>1. Base /\ Steady
  BY Zenon, SteadyL DEF Mech
<1>2. UNCHANGED <<cmds, tookOf, radio, ctl, flight, emitting, plugin, conn, journal, tries, sweeping, outbox, live>>
  BY Zenon, <1>1 DEF Steady, elsewhere, radioVars, connVars, hostVars
<1>3. Attempts' = Attempts
  BY Zenon, <1>2 DEF Attempts
<1>4. Frame
  BY Zenon, <1>1, <1>2, <1>3 DEF Frame, Steady, Carries, In
<1> QED BY Zenon, <1>1, <1>4, FrameL

\* The runtime's taking a text from its channel keeps the threads' part.
LEMMA GainsMech ==
    ASSUME Mech, RunTakesIn \/ AnswersBusy
    PROVE  Mech'
<1>1. Base /\ Queues /\ Spent /\ TypeOK /\ Stations /\ cmds \in Seq(Pairs)
  BY Zenon DEF Mech, Base, TypeOK
<1>2. Gains /\ Bounds
  BY Zenon, <1>1, TakesInGains, BusyGains, NoSlip DEF RunTakesIn, AnswersBusy
<1>3. UNCHANGED <<mode, link, slips, tookOf, radio, ctl, flight, emitting, plugin, conn, journal, tries, sweeping, outbox, live>>
  BY Zenon, <1>2 DEF Gains, elsewhere, radioVars, connVars, hostVars
<1> DEFINE x == Head(cmds)
<1>4. cmds # << >> /\ cmds' = Tail(cmds) /\ Held(run)' = Held(run) \cup {x.id}
  BY Zenon, <1>2 DEF Gains
<1>5. /\ cmds' \in Seq(Pairs) /\ Range(cmds) = Range(cmds') \cup {x} /\ Sole(cmds') /\ ~In(cmds', x.id)
  BY Zenon, <1>1, <1>4, TailIds DEF Queues
<1> HIDE DEF x
<1>6. TypeOK'
  <2>1. run' \in Runs /\ phone' \in [Texts -> [n : Nat, now : Slots, then : Slots, listed : BOOLEAN]]
    BY Zenon, <1>2 DEF Gains, Ledger, PhoneType
  <2> QED BY Zenon, <1>1, <1>2, <1>3, <1>5, <2>1 DEF TypeOK, Bounds, SlipType
<1>7. Stations'
  <2>1. mode # "over"
    BY Zenon, <1>2 DEF Gains
  <2> QED BY <1>1, <1>2, <1>3, <2>1 DEF Stations, Gains
<1>8. Queues'
  <2>1. \A y \in Range(ctl) : y.id # x.id /\ ~In(cmds', y.id)
    BY Zenon, <1>1, <1>5 DEF Queues, In
  <2>2. \A y \in Range(cmds') : y.id # x.id /\ y \in Range(cmds)
    BY Zenon, <1>5 DEF In
  <2> QED BY Zenon, <1>1, <1>3, <1>4, <1>5, <2>1, <2>2 DEF Queues
<1>9. Spent'
  BY Zenon, <1>1, <1>3 DEF Spent, Used, Told
<1> QED BY Zenon, <1>2, <1>6, <1>7, <1>8, <1>9 DEF Mech, Base, Gains

\* ... and what is known and owed.
LEMMA GainsBooks == ASSUME Mech, Books, RunTakesIn \/ AnswersBusy PROVE Books'
<1>1. Base /\ Queues /\ cmds \in Seq(Pairs)
  BY Zenon DEF Mech, Base, TypeOK
<1>2. Gains
  BY Zenon, <1>1, TakesInGains, BusyGains
<1>3. UNCHANGED <<mode, link, slips, tookOf, radio, ctl, flight, emitting, plugin, conn, journal, tries, sweeping, outbox, live>>
  BY Zenon, <1>2 DEF Gains, elsewhere, radioVars, connVars, hostVars
<1> DEFINE x == Head(cmds)
<1>4. cmds # << >> /\ cmds' = Tail(cmds) /\ Held(run)' = Held(run) \cup {x.id}
  BY Zenon, <1>2 DEF Gains
<1>5. Range(cmds) = Range(cmds') \cup {x}
  BY Zenon, <1>1, <1>4, TailIds
<1> HIDE DEF x
<1>6. Attempts' = Attempts
  BY Zenon, <1>3 DEF Attempts
<1>7. \A t \in Texts : Carries(t) => Carries(t)'
  BY Zenon, <1>3, <1>4, <1>5 DEF Carries, In
<1>8. Frame
  BY Zenon, <1>2, <1>3, <1>4, <1>6, <1>7 DEF Frame, Gains
<1> QED BY Zenon, <1>1, <1>8, FrameL

--------------------------------------------------------------------------
(* The plugin's radio thread                                               *)

\* RadioHears keeps it.
LEMMA HearsStep == ASSUME Mech, Books, RadioHears PROVE Mech' /\ Books'
<1>1. Base /\ TypeOK /\ Stations /\ Spent /\ Queues
  BY Zenon DEF Mech, Base
<1>2. /\ radio = "up" /\ emitting = {} /\ run.said # << >>
      /\ UNCHANGED <<mode, link, cmds, phone, tookOf, radio, ctl, plugin, conn, journal, tries, sweeping, outbox, live, slips, faults>>
  BY Zenon DEF RadioHears, connVars, hostVars
<1>3. PICK x : x = Head(run.said)
  BY Zenon
<1>4. emitting' = {Key(x.id, x.a, flight[x.id])} /\ flight' = [flight EXCEPT ![x.id] = NoRequest]
  BY Zenon, <1>3 DEF RadioHears
<1>5. /\ x \in Words /\ x.id \in Held(run) /\ flight[x.id] \in Requests
      /\ Honest(x.id, x.a, flight[x.id])
      /\ Ledger(run, {})' /\ Held(run)' = Held(run) \ {x.id} /\ PhoneOK'
      /\ run'.active = run.active /\ run'.open = run.open
  BY Zenon, <1>1, <1>3, HearsOK DEF HearsL
<1>6. x.id \in Texts /\ x.a \in Answers
  BY Zenon, <1>5 DEF Words
<1>7. \A u \in Texts : u # x.id /\ Carries(u) => Carries(u)'
  BY Zenon, <1>2, <1>5 DEF Carries, In
<1>8. Speaks(x.id, x.a)
  BY Zenon, <1>2, <1>4, <1>5, <1>6, <1>7 DEF Speaks
<1>9. /\ Spent' /\ flight' \in [Texts -> Requests \cup {NoRequest}] /\ emitting' \subseteq Keys
      /\ Single(emitting')
      /\ \A u \in Texts : flight'[u] # NoRequest => TextOf[flight'[u]] = u
      /\ \A c \in conn : c.at = "hand" => flight'[TextOf[c.r]] = NoRequest
  BY Zenon, <1>1, <1>8, SpeaksMech
<1>10. Bounds /\ run' \in Runs
  BY Zenon, <1>1, <1>2, <1>5, NoSlip DEF Ledger
<1>11. TypeOK'
  BY Zenon, <1>1, <1>2, <1>9, <1>10 DEF TypeOK, Bounds, SlipType
<1>12. Stations'
  BY Zenon, <1>1, <1>2, <1>5, <1>9 DEF Stations
<1>13. Queues'
  <2>1. \A y \in Range(ctl) \cup Range(cmds) : y.id # x.id
    BY Zenon, <1>1, <1>5 DEF Queues
  <2>2. \A y \in Range(ctl) \cup Range(cmds) : y.id \in Texts
    <3>1. Range(ctl) \subseteq Pairs /\ Range(cmds) \subseteq Pairs
      BY Zenon, <1>1, RangeType DEF TypeOK
    <3> QED BY Zenon, <3>1 DEF Pairs
  <2>3. \A u \in Texts : u # x.id => flight'[u] = flight[u]
    BY Zenon, <1>1, <1>4, <1>6 DEF TypeOK
  <2> QED BY Zenon, <1>1, <1>2, <1>5, <2>1, <2>2, <2>3 DEF Queues
<1>14. Mech'
  BY Zenon, <1>5, <1>9, <1>11, <1>12, <1>13 DEF Mech, Base
<1> QED BY Zenon, <1>1, <1>8, <1>14, SpeaksBooks

--------------------------------------------------------------------------
(* The phone's answer, threads that end                                    *)

\* GivesUp keeps the invariant: the texts in the runtime's channel are dropped,
\* and the slip says so.
LEMMA GivesUpOK == ASSUME Mech, Books, GivesUp PROVE Mech' /\ Books'
<1>1. Base /\ TypeOK /\ Stations /\ Spent /\ Queues /\ cmds \in Seq(Pairs)
  BY Zenon DEF Mech, Base, TypeOK
<1>2. /\ mode = "up" /\ Fault /\ mode' = "over" /\ link' = FALSE /\ cmds' = << >>
      /\ slips' = slips \cup Slip({x.id : x \in Range(cmds)}, "dropped")
      /\ UNCHANGED <<phone, tookOf, radio, ctl, flight, emitting, plugin, conn, journal, tries, sweeping, outbox, live>>
  BY Zenon DEF GivesUp, elsewhere, radioVars, connVars, hostVars
<1>3. /\ Ledger(run, {})' /\ Held(run)' = Held(run) /\ PhoneOK'
      /\ run'.open = {} /\ run'.active = {} /\ slips \subseteq slips'
  BY Zenon, <1>1, GivesUpL
<1> DEFINE S == {x.id : x \in Range(cmds)}
<1>4. S \subseteq Texts
  <2>1. Range(cmds) \subseteq Pairs
    BY Zenon, <1>1, RangeType
  <2> QED BY Zenon, <2>1 DEF Pairs
<1>5. Slip(S, "dropped") \subseteq SlipType /\ \A t \in S : [id |-> t, why |-> "dropped"] \in Slip(S, "dropped")
  BY Zenon, <1>4, SlipL
<1>6. slips' \subseteq SlipType /\ faults' \in 0..MaxFaults
  BY Zenon, <1>1, <1>2, <1>5, FaultsL DEF TypeOK, SlipType
<1>7. TypeOK'
  <2>1. run' \in Runs /\ cmds' \in Seq(Pairs)
    BY <1>2, <1>3 DEF Ledger
  <2> QED BY Zenon, <1>1, <1>2, <1>6, <2>1 DEF TypeOK, SlipType
<1>8. Stations'
  <2>1. radio = "up"
    BY Zenon, <1>1, <1>2 DEF Stations
  <2> QED BY Zenon, <1>1, <1>2, <1>3, <2>1 DEF Stations
<1>9. Queues'
  BY Zenon, <1>1, <1>2, <1>3, EmptyQ DEF Queues
<1>10. Spent'
  BY Zenon, <1>1, <1>2 DEF Spent, Used, Told
<1>11. Mech'
  BY Zenon, <1>3, <1>7, <1>8, <1>9, <1>10 DEF Mech, Base
<1>12. Attempts' = Attempts
  BY Zenon, <1>2 DEF Attempts
<1>13. \A t \in Texts : Carries(t) => Carries(t)' \/ Slipped(t, Losses)'
  <2>1. ASSUME NEW t \in Texts, In(cmds, t) PROVE Slipped(t, Losses)'
    <3>1. t \in S
      BY Zenon, <2>1 DEF In
    <3>2. [id |-> t, why |-> "dropped"] \in slips'
      BY Zenon, <1>2, <1>5, <3>1
    <3> QED BY Zenon, <3>2 DEF Slipped, Losses
  <2> QED BY Zenon, <1>2, <1>3, <2>1 DEF Carries, In
<1>14. Frame
  BY Zenon, <1>2, <1>3, <1>12, <1>13 DEF Frame
<1> QED BY Zenon, <1>1, <1>11, <1>14, FrameL

--------------------------------------------------------------------------
(* The process ends                                                        *)

\* Answers that are true, one a text.
Truthful(W) ==
    /\ W \subseteq Words /\ SoleIn(W)
    /\ \A x \in W : flight[x.id] # NoRequest /\ Honest(x.id, x.a, flight[x.id])

\* A stop that is asked for: the texts in both channels are taken in, and all
\* that the run says until it is gone is true, once a text.
LEMMA LastWordsL ==
    ASSUME Ledger(run, {}), Queues, cmds \in Seq(Pairs), ctl \in Seq(Pairs)
    PROVE  Truthful(LastWords)
<1> DEFINE coming == cmds \o ctl
           last == TakeAll(run, coming)
           refusals == {[id |-> x.id, a |-> "failed"] : x \in Range(coming)}
<1>1. LastWords = IF mode = "up" THEN Range(last.said) \cup Reports(last)
                  ELSE Range(run.said) \cup refusals
  BY Zenon DEF LastWords
<1>2. coming \in Seq(Pairs) /\ Sole(coming) /\ Range(coming) = Range(cmds) \cup Range(ctl)
  BY ConcatIds DEF Queues
<1>3. \A x \in Range(coming) : flight[x.id] = x.r /\ x.r \notin tookOf /\ x.id \notin Held(run)
  BY Zenon, <1>2 DEF Queues
<1> HIDE DEF coming
<1>4. ASSUME NEW s, Ledger(s, {})
      PROVE  Range(s.said) \subseteq Words /\ SoleIn(Range(s.said))
  <2>1. s.said \in Seq(Words) /\ Sole(s.said)
    BY Zenon, <1>4, Fields DEF Ledger, Spoken
  <2>2. Range(s.said) \subseteq Words
    BY Zenon, <2>1, RangeType
  <2> QED BY Zenon, <2>1, <2>2 DEF SoleIn, Sole, Range
<1>5. CASE mode = "up"
  <2>1. Ledger(last, {})
    BY Zenon, <1>2, <1>3, TakeAllL
  <2> HIDE DEF last
  <2>2. LastWords = Range(last.said) \cup Reports(last)
    BY Zenon, <1>1, <1>5
  <2>3. Reports(last) \subseteq Words /\ SoleIn(Reports(last))
        /\ \A x \in Reports(last) : /\ ~In(last.said, x.id) /\ flight[x.id] # NoRequest
                                    /\ Honest(x.id, x.a, flight[x.id])
    BY Zenon, <2>1, ReportsL
  <2>4. \A x \in Range(last.said) : flight[x.id] # NoRequest /\ Honest(x.id, x.a, flight[x.id])
    BY Zenon, <2>1 DEF Ledger, Spoken
  <2>5. SoleIn(Range(last.said) \cup Reports(last))
    BY Zenon, <1>4, <2>1, <2>3 DEF SoleIn, In
  <2> QED BY Zenon, <1>4, <2>1, <2>2, <2>3, <2>4, <2>5 DEF Truthful
<1>6. CASE mode # "up"
  <2>1. LastWords = Range(run.said) \cup refusals
    BY Zenon, <1>1, <1>6
  <2>2. Range(coming) \subseteq Pairs
    BY Zenon, <1>2, RangeType
  <2>3. \A x \in Pairs : [id |-> x.id, a |-> "failed"] \in Words
    BY Zenon DEF Pairs, Words, Answers
  <2>4. ASSUME NEW w \in refusals
        PROVE  /\ w \in Words /\ w.a = "failed" /\ ~In(run.said, w.id)
               /\ flight[w.id] # NoRequest /\ Honest(w.id, w.a, flight[w.id])
    <3>1. PICK x \in Range(coming) : w = [id |-> x.id, a |-> "failed"]
      BY Zenon
    <3>2. w.id = x.id /\ w.a = "failed" /\ x.r \in Requests /\ x.id \in Texts
      BY Zenon, <2>2, <3>1 DEF Pairs
    <3> QED BY Zenon, <1>3, <2>2, <2>3, <3>1, <3>2, AttemptConstants DEF Honest, Astray, Held
  <2>5. SoleIn(refusals)
    BY <2>3, <2>4 DEF SoleIn, Words
  <2> HIDE DEF refusals
  <2>6. \A x \in Range(run.said) : flight[x.id] # NoRequest /\ Honest(x.id, x.a, flight[x.id])
    BY Zenon DEF Ledger, Spoken
  <2>7. SoleIn(Range(run.said) \cup refusals)
    BY Zenon, <1>4, <2>4, <2>5 DEF SoleIn, In
  <2> QED BY Zenon, <1>4, <2>1, <2>4, <2>6, <2>7 DEF Truthful
<1> QED BY Zenon, <1>5, <1>6

\* ShutDown (plugin.shutdown) keeps it: the last words of the run are written,
\* each under the attempt in flight.
LEMMA ShutDownOK == ASSUME Mech, Books, ShutDown PROVE Mech' /\ Books'
<1>1. TypeOK /\ Stations /\ Ledger(run, {}) /\ Queues /\ cmds \in Seq(Pairs) /\ ctl \in Seq(Pairs)
  BY Zenon DEF Mech, Base, TypeOK
<1> DEFINE N == {Key(x.id, x.a, flight[x.id]) : x \in LastWords}
           B == {k.id : k \in live \ outbox}
<1>2. /\ plugin = "up" /\ conn = {} /\ radio = "up" /\ emitting = {} /\ Fault /\ ProcessGone
      /\ outbox' = outbox \cup N /\ slips' = slips \cup Slip(B, "unkept")
  BY Zenon DEF ShutDown
<1>3. Truthful(LastWords)
  BY Zenon, <1>1, LastWordsL
<1> DEFINE W == LastWords
<1> HIDE DEF W
<1>4. W \subseteq Words /\ SoleIn(W) /\ \A x \in W : flight[x.id] # NoRequest /\ Honest(x.id, x.a, flight[x.id])
  BY Zenon, <1>3 DEF Truthful, W
<1>6. /\ \A k \in N : \E x \in W : k = Key(x.id, x.a, flight[x.id]) /\ k.id = x.id /\ k.a = x.a /\ x \in Words
  BY <1>4, KeyL DEF W
<1> HIDE DEF N
<1>7. Slip(B, "unkept") \subseteq SlipType /\ \A k \in live \ outbox : [id |-> k.id, why |-> "unkept"] \in Slip(B, "unkept")
  BY Zenon, <1>1, UnkeptL
<1>8. Bounds
  BY Zenon, <1>1, <1>2, <1>7, FaultsL DEF Bounds, TypeOK, SlipType
<1>9. ASSUME NEW k \in live \ outbox PROVE Slipped(k.id, {"unkept"})'
  <2>1. [id |-> k.id, why |-> "unkept"] \in slips'
    BY Zenon, <1>2, <1>7
  <2> QED BY Zenon, <2>1 DEF Slipped
<1>10. ASSUME NEW k \in N
       PROVE  /\ flight[k.id] # NoRequest /\ k = Key(k.id, k.a, flight[k.id])
              /\ Honest(k.id, k.a, flight[k.id]) /\ k \in Keys
  <2>1. PICK x \in W : k = Key(x.id, x.a, flight[x.id]) /\ k.id = x.id /\ k.a = x.a /\ x \in Words
    BY Zenon, <1>6
  <2>2. x.id \in Texts /\ x.a \in Answers /\ flight[x.id] \in Requests \cup {NoRequest}
    BY Zenon, <1>1, <2>1 DEF Words, TypeOK
  <2>3. k \in Keys
    BY Zenon, <2>1, <2>2 DEF Key, Keys
  <2>4. flight[x.id] # NoRequest /\ Honest(x.id, x.a, flight[x.id])
    BY Zenon, <1>4
  <2> QED BY Zenon, <2>1, <2>3, <2>4
<1>11. SoleIn(N)
  <2> SUFFICES ASSUME NEW k \in N, NEW m \in N, k.id = m.id PROVE k = m
    BY Zenon DEF SoleIn
  <2>1. PICK x \in W : k = Key(x.id, x.a, flight[x.id]) /\ k.id = x.id
    BY Zenon, <1>6
  <2>2. PICK y \in W : m = Key(y.id, y.a, flight[y.id]) /\ m.id = y.id
    BY Zenon, <1>6
  <2>3. x = y
    BY Zenon, <1>4, <2>1, <2>2 DEF SoleIn
  <2> QED BY Zenon, <2>1, <2>2, <2>3
<1>12. Gone(N)
  BY Zenon, <1>2, <1>8, <1>9, <1>10, <1>11 DEF Gone, ProcessGone, RadioGone
<1> QED BY Zenon, <1>12, GoneMech, GoneBooks

--------------------------------------------------------------------------
(* The last attempt of a text                                              *)

\* A text that was attempted has a last attempt.
LEMMA LastExists ==
    ASSUME NEW q \in Seq(Requests), NEW r \in Range(q)
    PROVE  \E i \in DOMAIN q : TextOf[q[i]] = TextOf[r] /\ LastIn(q, q[i]) /\ i \in Lasts(q, TextOf[r])
<1> DEFINE t == TextOf[r]
           N == Len(q)
           T == {k \in 0..N : \A j \in DOMAIN q : j > N - k => TextOf[q[j]] # t}
<1>0. N \in Nat /\ DOMAIN q = 1..N
  OBVIOUS
<1>1. SUFFICES ASSUME \A i \in DOMAIN q : TextOf[q[i]] = t => \E j \in DOMAIN q : j > i /\ TextOf[q[j]] = t
               PROVE FALSE
  <2>1. CASE \E i \in DOMAIN q : TextOf[q[i]] = t /\ ~\E j \in DOMAIN q : j > i /\ TextOf[q[j]] = t
    <3>1. PICK i \in DOMAIN q : TextOf[q[i]] = t /\ \A j \in DOMAIN q : j > i => TextOf[q[j]] # t
      BY Zenon, <2>1
    <3>2. LastIn(q, q[i])
      BY Zenon, <3>1 DEF LastIn
    <3>3. \A j \in (i + 1)..N : j \in DOMAIN q /\ j > i
      BY <1>0
    <3>4. i \in Lasts(q, t)
      BY Zenon, <3>1, <3>3 DEF Lasts
    <3> QED BY Zenon, <3>1, <3>2, <3>4
  <2> QED BY Zenon, <2>1
<1>2. 0 \in T
  BY <1>0
<1>3. ASSUME NEW k \in 1..N, k - 1 \in T PROVE k \in T
  <2>1. \A j \in DOMAIN q : j > N - (k - 1) => TextOf[q[j]] # t
    BY Zenon, <1>3
  <2>2. ASSUME NEW j \in DOMAIN q, j > N - k PROVE TextOf[q[j]] # t
    <3>1. \A i \in DOMAIN q : i > j => i > N - (k - 1)
      BY <1>0, <2>2
    <3>2. ~\E i \in DOMAIN q : i > j /\ TextOf[q[i]] = t
      BY Zenon, <2>1, <3>1
    <3> QED BY Zenon, <1>1, <3>2
  <2> QED BY <1>0, <2>2
<1>4. \A i \in 0..N : i \in T
  <2> HIDE DEF T
  <2>1. \A m \in 1..N : m - 1 \in T => m \in T
    BY Zenon, <1>3
  <2> QED BY <1>0, <1>2, <2>1, Induct, Zenon
<1>5. N \in T
  BY <1>0, <1>4
<1>6. \A j \in DOMAIN q : TextOf[q[j]] # t
  BY <1>0, <1>5
<1> QED BY Zenon, <1>6 DEF Range

\* LastTry (the later row of the journal wins in texts_left_open) is the last
\* attempt.
LEMMA LastTryIs ==
    ASSUME tries \in Seq(Requests), NEW r \in Range(tries)
    PROVE  /\ LastTry(TextOf[r]) \in Range(tries) /\ TextOf[LastTry(TextOf[r])] = TextOf[r]
           /\ LastIn(tries, LastTry(TextOf[r]))
           /\ LastIn(tries, r) => LastTry(TextOf[r]) = r
<1> DEFINE t == TextOf[r]
           k == CHOOSE i \in Lasts(tries, t) : TRUE
<1>1. Lasts(tries, t) # {}
  BY Zenon, LastExists
<1>2. LastTry(t) = tries[k]
  <2>1. \A i \in DOMAIN tries :
            (TextOf[tries[i]] = t /\ \A j \in (i + 1)..Len(tries) : TextOf[tries[j]] # t) <=> i \in Lasts(tries, t)
    BY Zenon DEF Lasts
  <2>2. (CHOOSE i \in DOMAIN tries : TextOf[tries[i]] = t /\ \A j \in (i + 1)..Len(tries) : TextOf[tries[j]] # t) = k
    <3>1. Lasts(tries, t) \subseteq DOMAIN tries
      BY Zenon DEF Lasts
    <3>2. PICK m \in Lasts(tries, t) : TRUE
      BY Zenon, <1>1
    <3>3. \A i \in Lasts(tries, t) : i = m
      <4>1. ASSUME NEW i \in Lasts(tries, t) PROVE i = m
        <5>1. i \in Nat /\ m \in Nat /\ i <= Len(tries) /\ m <= Len(tries) /\ Len(tries) \in Nat
          BY <3>1
        <5> QED BY <5>1 DEF Lasts
      <4> QED BY Zenon, <4>1
    <3>4. k = m
      BY Zenon, <1>1, <3>3
    <3>5. \A i \in DOMAIN tries :
             (TextOf[tries[i]] = t /\ \A j \in (i + 1)..Len(tries) : TextOf[tries[j]] # t) <=> i = m
      BY Zenon, <2>1, <3>1, <3>2, <3>3
    <3>6. m \in DOMAIN tries
      BY Zenon, <3>1, <3>2
    <3> QED BY Zenon, <3>4, <3>5, <3>6
  <2> QED BY <2>2, Zenon DEF LastTry
<1>3. k \in Lasts(tries, t)
  BY Zenon, <1>1
<1> HIDE DEF k
<1>4. k \in DOMAIN tries /\ TextOf[tries[k]] = t
  BY Zenon, <1>3 DEF Lasts
<1>5. LastIn(tries, tries[k])
  <2>1. \A j \in DOMAIN tries : j > k => j \in (k + 1)..Len(tries)
    BY <1>4
  <2> QED BY Zenon, <1>3, <1>4, <2>1 DEF Lasts, LastIn
<1>6. LastIn(tries, r) => tries[k] = r
  BY Zenon, <1>4, <1>5, LastSame
<1> QED BY Zenon, <1>2, <1>4, <1>5, <1>6 DEF Range

--------------------------------------------------------------------------
(* The theorems                                                            *)

\* Every step keeps it.
LEMMA StepL == ASSUME Mech, Books, Next PROVE Mech' /\ Books'
<1>0. LastTries
  BY LastTryIs, Zenon DEF LastTries, Mech, Base, TypeOK
<1>1. CASE Connector
  BY <1>1, AskOK, RefusedOK, LooksOK, HandMech, HandBooks, RecordOK, RecordFailsOK, Zenon DEF Connector
<1>2. CASE Radio
  BY <1>2, ForwardsOK, HearsStep, EmitOK, Zenon DEF Radio
<1>3. CASE Life
  BY <1>0, <1>3, SweepWritesOK, DiesOK, ReapOK, StartsOK, CrashOK, ShutDownOK, RestartOK, Zenon DEF Life
<1>4. CASE Runtime \/ Handset
  <2>1. SteadyStep \/ RunTakesIn \/ AnswersBusy \/ GivesUp \/ PhoneAnswers
    BY <1>4, Zenon DEF Runtime, Handset, SteadyStep
  <2> QED BY <2>1, SteadyMech, SteadyBooks, GainsMech, GainsBooks, GivesUpOK, AnswersMech, AnswersBooks, Zenon
<1> QED BY <1>1, <1>2, <1>3, <1>4, Zenon DEF Next

\* So it always holds.
LEMMA Inductive == Spec => [](Mech /\ Books)
<1>1. Init => Mech /\ Books
  BY Zenon, InitL
<1>2. Mech /\ Books /\ [Next]_vars => (Mech /\ Books)'
  BY Zenon, StepL, Stutter
<1> QED BY <1>1, <1>2, PTL DEF Spec

\* The inductive invariant holds in every state: of every run's ledger, of the
\* channels around it, and of what is known and owed of each text.
THEOREM TextsInductive == Spec => []IInv
BY Inductive, Consequences, PTL

\* DoubtIsKept for every number of texts, requests and faults: while a copy of
\* an attempt may be at the phone unacknowledged, the ledger holds it as out
\* (note_put_out, requeue_or_report), but for a copy a look missed.
THEOREM DoubtIsKeptHolds == Spec => []DoubtIsKept
BY Inductive, Consequences, PTL

\* ToldTheTruth: the host is told sent only of a text the phone took, and
\* failed for certain only of an attempt it did not take (event_handler.rs),
\* but for a copy a look missed.
THEOREM ToldTheTruthHolds == Spec => []ToldTheTruth
BY Inductive, Consequences, PTL

\* NotSentTwice: through lost acknowledgements, retries, reopened radios and
\* restarts the phone is given a text once (VerifySent, take_in, text_outcome),
\* but for the windows it names.
THEOREM NotSentTwiceHolds == Spec => []NotSentTwice
BY Inductive, Consequences, PTL

\* OneOutcome: the host never has both a sent and an in-doubt outcome of a text
\* (fail_texts_left_open, text_outcome), but for the windows it names.
THEOREM OneOutcomeHolds == Spec => []OneOutcome
BY Inductive, Consequences, PTL

\* OwedOrAnswered: a text answered queued has its outcome or somebody still
\* owes it one, but for the windows it names.
THEOREM OwedOrAnsweredHolds == Spec => []OwedOrAnswered
BY Inductive, Consequences, PTL
=============================================================================
