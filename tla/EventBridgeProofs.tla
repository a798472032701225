------------------------- MODULE EventBridgeProofs -------------------------
(***************************************************************************)
(* What TLAPS proves of EventBridge, for any number of keys, contents and  *)
(* attempts and whatever goes wrong.                                       *)
(***************************************************************************)
EXTENDS EventBridge, TLAPS

\* The rows outbox.rs inserts have the table's shape.
LEMMA InsertedRows ==
    \A b \in Bodies : FreshRow(b) \in StoredRow /\ QuarantineRow(b) \in StoredRow
BY Zenon DEF StoredRow, Statuses, Payloads, FreshRow, QuarantineRow

\* Every UPDATE of outbox.rs leaves a row of the table's shape.
LEMMA RowStatements ==
    ASSUME NEW r \in Row
    PROVE  /\ fill_quarantined(r) \in Row
           /\ \A b \in Bodies : fill_or_insert(r, b) \in Row
           /\ mark_sent(r) \in Row /\ mark_failed(r) \in Row /\ mark_emitted(r) \in Row
           /\ mark_dead_typed(r) \in Row /\ redrive_dead(r) \in Row
<1> DEFINE Updates(q) ==
       /\ fill_quarantined(q) \in Row
       /\ mark_sent(q) \in Row /\ mark_dead_typed(q) \in Row /\ redrive_dead(q) \in Row
       /\ \A s \in {"pending", "failed"} : CountAttempt(q, s) \in Row
<1>1. ASSUME r = NoRow PROVE Updates(r)
  <2>1. r.status = "none" /\ r \in Row
    BY Zenon, <1>1 DEF Row, NoRow
  <2>2. QED
    BY Zenon, <2>1 DEF fill_quarantined, mark_sent, mark_dead_typed, redrive_dead,
                CountAttempt, Retryable, Quarantined
<1>2. ASSUME r \in StoredRow PROVE Updates(r)
  <2> USE <1>2 DEF StoredRow, Statuses, Payloads, Row
  <2>1. fill_quarantined(r) \in Row
    BY Zenon DEF fill_quarantined
  <2>2. mark_sent(r) \in Row /\ mark_dead_typed(r) \in Row
    BY Zenon DEF mark_sent, mark_dead_typed
  <2>3. redrive_dead(r) \in Row
    BY Zenon DEF redrive_dead
  <2>4. ASSUME NEW s \in {"pending", "failed"} PROVE CountAttempt(r, s) \in Row
    <3>1. r.attempts + 1 \in Nat
      OBVIOUS
    <3>2. (IF OutOfRetries(r) THEN "dead" ELSE s) \in Statuses
      BY Zenon, <2>4
    <3>3. QED
      BY Zenon, <3>1, <3>2 DEF CountAttempt
  <2>5. QED  BY Zenon, <2>1, <2>2, <2>3, <2>4
<1>3. Updates(r)
  BY Zenon, <1>1, <1>2 DEF Row
<1>4. \A b \in Bodies : fill_or_insert(r, b) \in Row
  BY Zenon, <1>3, InsertedRows DEF fill_or_insert, Row
<1>5. QED
  BY Zenon, <1>3, <1>4 DEF mark_failed, mark_emitted

\* The host's journal stays a function from keys to contents.
LEMMA JournaledType ==
    ASSUME NEW j \in [Keys -> Bodies \cup {NoBody}], NEW lines \in SUBSET Event
    PROVE  Journaled(j, lines) \in [Keys -> Bodies \cup {NoBody}]
<1>1. ASSUME NEW k \in Keys
      PROVE  Journaled(j, lines)[k] \in Bodies \cup {NoBody}
  <2>1. CASE j[k] = NoBody /\ \E m \in lines : m.key = k
    <3>1. (CHOOSE m \in lines : m.key = k) \in lines
      BY Zenon, <2>1
    <3>2. QED  BY Zenon, <2>1, <3>1 DEF Journaled, Event
  <2>2. CASE ~(j[k] = NoBody /\ \E m \in lines : m.key = k)
    BY Zenon, <2>2 DEF Journaled
  <2>3. QED  BY Zenon, <2>1, <2>2
<1>2. QED  BY Zenon, <1>1 DEF Journaled

\* What a thread's move through its function keeps of ThreadsOK and ReplayOK.
LEMMA GotoType ==
    ASSUME TypeOK, NEW t \in Threads,
           NEW step \in {"idle", "take", "reseal", "insert", "compare", "fill", "hold",
                         "send", "sendLive", "sendOnce", "query", "bookOk", "bookFail"},
           Goto(t, step), pc[t] # "idle", t = "replay" => step = "query" \/ step = "reseal",
           mode' = mode,
           mine' \in [Threads -> SUBSET Event], waiting' \in [Threads -> SUBSET Event],
           UNCHANGED replayVars
    PROVE  ThreadsOK' /\ ReplayOK'
BY Zenon, BridgeConstants DEF TypeOK, ThreadsOK, ReplayOK, Goto, Threads, replayVars

\* The rows, the threads' locals, the wire and the journal keep their types.
THEOREM TypeCorrect == Spec => []TypeOK
<1>1. Init => TypeOK
  <2> SUFFICES ASSUME Init PROVE TypeOK
    BY Zenon
  <2> USE BridgeConstants DEF Init
  <2>1. RowsOK
    BY Zenon DEF RowsOK, Row
  <2>2. ThreadsOK
    BY Zenon DEF ThreadsOK, Threads
  <2>3. ReplayOK /\ HostOK /\ CountersOK
    BY Zenon DEF ReplayOK, HostOK, CountersOK, Threads
  <2>4. QED  BY Zenon, <2>1, <2>2, <2>3 DEF TypeOK
<1>2. TypeOK /\ [Next]_vars => TypeOK'
  <2> SUFFICES ASSUME TypeOK, [Next]_vars PROVE TypeOK'
    BY Zenon
  <2> USE BridgeConstants
  <2>1. CASE UNCHANGED vars
    BY Zenon, <2>1 DEF vars, TypeOK, RowsOK, ThreadsOK, ReplayOK, HostOK, CountersOK
  <2>2. ASSUME NEW t \in Emitters, EmitBegin(t) PROVE TypeOK'
    <3> USE <2>2 DEF EmitBegin, TypeOK
    <3>1. PICK e \in Event : emits' = [emits EXCEPT ![e.key] = @ + 1]
                             /\ job' = [job EXCEPT ![t] = e]
      BY Zenon
    <3>2. RowsOK' /\ HostOK'
      BY Zenon DEF RowsOK, HostOK, rowVars, hostVars
    <3>3. ThreadsOK' /\ ReplayOK'
      BY Zenon, <3>1 DEF ThreadsOK, ReplayOK, RowsOK, Threads, replayVars
    <3>4. CountersOK'
      BY <3>1 DEF CountersOK, Event, histVars
    <3>5. QED  BY Zenon, <3>2, <3>3, <3>4
  <2>3. ASSUME NEW t \in Emitters, Insert(t) PROVE TypeOK'
    <3> USE <2>3 DEF Insert, TypeOK
    <3>1. job[t] \in Event /\ t \in Threads /\ t # "replay"
      BY Zenon DEF ThreadsOK, Threads
    <3>2. RowsOK'
      BY <3>1, InsertedRows DEF RowsOK, Event, Row
    <3>3. ThreadsOK' /\ ReplayOK'
      BY Zenon, <3>1, GotoType DEF Stored, Live, ThreadsOK
    <3>4. HostOK' /\ CountersOK'
      BY Zenon DEF HostOK, CountersOK, hostVars, boundVars, histVars
    <3>5. QED  BY Zenon, <3>2, <3>3, <3>4
  <2>4. ASSUME NEW t \in Emitters, Compare(t) PROVE TypeOK'
    <3>1. t \in Threads /\ t # "replay"
      BY Zenon DEF Threads
    <3>2. PICK step \in {"idle", "send", "sendLive", "fill", "hold"} : Goto(t, step)
      BY Zenon, <2>4 DEF Compare, Stored, Live
    <3>3. pc[t] = "compare" /\ UNCHANGED <<rowVars, mode, mine, waiting, replayVars,
                                           hostVars, boundVars, histVars>>
      BY Zenon, <2>4 DEF Compare
    <3>4. ThreadsOK' /\ ReplayOK'
      <4>1. /\ mode' = mode /\ UNCHANGED replayVars
            /\ mine' \in [Threads -> SUBSET Event] /\ waiting' \in [Threads -> SUBSET Event]
        BY Zenon, <3>3 DEF TypeOK, ThreadsOK
      <4>2. QED  BY Zenon, <3>1, <3>2, <3>3, <4>1, GotoType
    <3>5. RowsOK' /\ HostOK' /\ CountersOK'
      BY Zenon, <3>3 DEF TypeOK, RowsOK, HostOK, CountersOK, rowVars, hostVars, boundVars, histVars
    <3>6. QED  BY Zenon, <3>4, <3>5 DEF TypeOK
  <2>5. ASSUME NEW t \in Emitters, Fill(t) PROVE TypeOK'
    <3> USE <2>5 DEF Fill, TypeOK
    <3>1. job[t] \in Event /\ t \in Threads /\ t # "replay"
      BY Zenon DEF ThreadsOK, Threads
    <3>2. RowsOK'
      BY <3>1, RowStatements DEF RowsOK, Event
    <3>3. ThreadsOK' /\ ReplayOK'
      BY Zenon, <3>1, GotoType DEF Stored, Live, ThreadsOK
    <3>4. HostOK' /\ CountersOK'
      BY Zenon DEF HostOK, CountersOK, hostVars, boundVars, histVars
    <3>5. QED  BY Zenon, <3>2, <3>3, <3>4
  <2>6. ASSUME NEW t \in Emitters, Hold(t) PROVE TypeOK'
    <3> USE <2>6 DEF Hold, TypeOK
    <3>1. job[t] \in Event /\ t \in Threads /\ t # "replay"
      BY Zenon DEF ThreadsOK, Threads
    <3>2. RowsOK' /\ CountersOK'
      BY Zenon, <3>1 DEF RowsOK, CountersOK, Event, boundVars
    <3>3. ThreadsOK' /\ ReplayOK'
      BY Zenon, <3>1, GotoType DEF Live, ThreadsOK
    <3>4. HostOK'
      BY Zenon DEF HostOK, hostVars
    <3>5. QED  BY Zenon, <3>2, <3>3, <3>4
  <2>7. ASSUME NEW t \in Emitters, Send(t) PROVE TypeOK'
    <3> USE <2>7 DEF Send, TypeOK
    <3>1. job[t] \in Event /\ t \in Threads /\ t # "replay"
      BY Zenon DEF ThreadsOK, Threads
    <3>2. RowsOK' /\ CountersOK'
      BY Zenon DEF RowsOK, CountersOK, rowVars, boundVars, histVars
    <3>3. ThreadsOK' /\ ReplayOK'
      BY Zenon, <3>1, GotoType DEF ThreadsOK
    <3>4. HostOK'
      BY Zenon, <3>1 DEF HostOK
    <3>5. QED  BY Zenon, <3>2, <3>3, <3>4
  <2>8. ASSUME NEW t \in Emitters, Book(t) PROVE TypeOK'
    <3> USE <2>8 DEF Book, TypeOK
    <3>1. job[t] \in Event /\ t \in Threads /\ t # "replay"
      BY Zenon DEF ThreadsOK, Threads
    <3>2. RowsOK'
      BY <3>1, RowStatements DEF RowsOK, Booked, Event
    <3>3. ThreadsOK' /\ ReplayOK'
      BY Zenon, <3>1, GotoType DEF ThreadsOK
    <3>4. HostOK' /\ CountersOK'
      BY Zenon, <3>1 DEF HostOK, CountersOK, Event, hostVars, boundVars
    <3>5. QED  BY Zenon, <3>2, <3>3, <3>4
  <2>9. ASSUME NEW t \in Threads, TakeHeld(t) PROVE TypeOK'
    <3> USE <2>9 DEF TakeHeld, TypeOK
    <3>1. RowsOK' /\ HostOK' /\ CountersOK'
      BY Zenon DEF RowsOK, HostOK, CountersOK, hostVars, boundVars, histVars
    <3>2. mine' \in [Threads -> SUBSET Event] /\ waiting' \in [Threads -> SUBSET Event]
      BY Zenon DEF ThreadsOK, RowsOK
    <3>3. ThreadsOK' /\ ReplayOK'
      BY Zenon, <3>2, GotoType DEF AfterReseal
    <3>4. QED  BY Zenon, <3>1, <3>3
  <2>10. ASSUME NEW t \in Threads, ResealOne(t) PROVE TypeOK'
    <3> USE <2>10 DEF ResealOne, TypeOK
    <3>1. RowsOK'
      <4>1. PICK e \in mine[t] : rows' \in {rows, [rows EXCEPT ![e.key] = fill_or_insert(@, e.body)]}
        BY Zenon
      <4>2. e.key \in Keys /\ e.body \in Bodies
        BY DEF ThreadsOK, Event
      <4>3. fill_or_insert(rows[e.key], e.body) \in Row
        BY Zenon, <4>2, RowStatements DEF RowsOK
      <4>4. QED  BY <4>1, <4>2, <4>3 DEF RowsOK
    <3>2. ThreadsOK' /\ ReplayOK'
      BY DEF ThreadsOK, ReplayOK, emitVars, replayVars
    <3>3. HostOK' /\ CountersOK'
      BY Zenon DEF HostOK, CountersOK, hostVars, boundVars, histVars
    <3>4. QED  BY Zenon, <3>1, <3>2, <3>3
  <2>11. ASSUME NEW t \in Threads, PutBack(t) PROVE TypeOK'
    <3> USE <2>11 DEF PutBack, TypeOK
    <3>1. RowsOK' /\ HostOK' /\ CountersOK'
      BY Zenon DEF RowsOK, HostOK, CountersOK, ThreadsOK, hostVars, boundVars, histVars
    <3>2. mine' \in [Threads -> SUBSET Event] /\ waiting' \in [Threads -> SUBSET Event]
      BY Zenon DEF ThreadsOK
    <3>3. ThreadsOK' /\ ReplayOK'
      BY Zenon, <3>2, GotoType DEF AfterReseal
    <3>4. QED  BY Zenon, <3>1, <3>3
  <2>12. CASE ReplayBegin \/ ReplayBeginReseal \/ ReplayOpened \/ ReplayEnd
    <3> USE <2>12 DEF ReplayBegin, ReplayBeginReseal, ReplayOpened, ReplayEnd, TypeOK
    <3>1. RowsOK' /\ HostOK' /\ CountersOK'
      BY Zenon DEF RowsOK, HostOK, CountersOK, rowVars, hostVars, boundVars, histVars
    <3>2. ThreadsOK' /\ ReplayOK'
      BY DEF ThreadsOK, ReplayOK, Threads, replayVars
    <3>3. QED  BY Zenon, <3>1, <3>2
  <2>13. CASE ReplayQuery
    <3> USE <2>13 DEF ReplayQuery, TypeOK
    <3>1. DueRows \subseteq Read
      <4>1. ASSUME NEW k \in Keys, DueForRetry(rows[k]) PROVE rows[k] \in StoredRow
        BY <4>1 DEF RowsOK, Row, NoRow, DueForRetry, Retryable
      <4>2. ASSUME NEW k \in Keys, DueForRetry(rows[k])
            PROVE  [key |-> k, body |-> rows[k].body, attempts |-> rows[k].attempts,
                    opened |-> rows[k].payload = "sealed"] \in Read
        BY Zenon, <4>1, <4>2 DEF Read, StoredRow
      <4>3. QED  BY Zenon, <4>2 DEF DueRows
    <3>2. RowsOK' /\ HostOK' /\ CountersOK'
      BY Zenon DEF RowsOK, HostOK, CountersOK, rowVars, hostVars, boundVars, histVars
    <3>3. ThreadsOK' /\ ReplayOK'
      BY Zenon, <3>1 DEF ThreadsOK, ReplayOK, Threads
    <3>4. QED  BY Zenon, <3>2, <3>3
  <2>14. CASE ReplayOpen \/ ReplayUnopened
    <3> USE <2>14 DEF ReplayOpen, ReplayUnopened, TypeOK
    <3>1. RowsOK'
      <4>1. CASE ReplayOpen
        BY Zenon, <4>1 DEF RowsOK, rowVars
      <4>2. CASE ReplayUnopened
        <5>1. cur.key \in Keys
          BY Zenon, <4>2 DEF ReplayOK, Read
        <5>2. mark_dead_typed(rows[cur.key]) \in Row
          BY Zenon, <5>1, RowStatements DEF RowsOK
        <5>3. QED
          <6>1. rows' = rows \/ rows' = [rows EXCEPT ![cur.key] = mark_dead_typed(@)]
            BY Zenon, <4>2
          <6>2. rows \in [Keys -> Row]
            BY Zenon DEF RowsOK
          <6>3. rows' \in [Keys -> Row]
            BY ONLY <5>1, <5>2, <6>1, <6>2
          <6>4. QED  BY Zenon, <4>2, <6>3 DEF RowsOK
      <4>3. QED  BY Zenon, <4>1, <4>2
    <3>2. ThreadsOK' /\ ReplayOK'
      BY DEF ThreadsOK, ReplayOK, Threads
    <3>3. HostOK' /\ CountersOK'
      BY Zenon DEF HostOK, CountersOK, hostVars, boundVars, histVars
    <3>4. QED  BY Zenon, <3>1, <3>2, <3>3
  <2>15. CASE ReplaySend
    <3> USE <2>15 DEF ReplaySend, TypeOK
    <3>1. PICK e \in batch : /\ batch' = batch \ {e} /\ cur' = e
                             /\ wire' \in {wire, wire \cup {[key |-> e.key, body |-> e.body]}}
                             /\ pc' \in {[pc EXCEPT !["replay"] = "bookOk"],
                                        [pc EXCEPT !["replay"] = "bookFail"]}
      BY Zenon
    <3>2. [key |-> e.key, body |-> e.body] \in Event
      BY Zenon DEF ReplayOK, Read, Event
    <3>3. RowsOK' /\ HostOK' /\ CountersOK'
      BY Zenon, <3>1, <3>2 DEF RowsOK, HostOK, CountersOK, rowVars, boundVars, histVars
    <3>4. ThreadsOK' /\ ReplayOK'
      BY <3>1 DEF ThreadsOK, ReplayOK, Threads
    <3>5. QED  BY Zenon, <3>3, <3>4
  <2>16. CASE ReplayBook
    <3> USE <2>16 DEF ReplayBook, TypeOK
    <3>1. cur.key \in Keys
      BY Zenon DEF ReplayOK, Read
    <3>2. RowsOK'
      BY <3>1, RowStatements DEF RowsOK
    <3>3. ThreadsOK' /\ ReplayOK'
      BY Zenon DEF ThreadsOK, ReplayOK, Threads
    <3>4. HostOK' /\ CountersOK'
      BY Zenon DEF HostOK, CountersOK, hostVars, boundVars, histVars
    <3>5. QED  BY Zenon, <3>2, <3>3, <3>4
  <2>17. CASE Prune \/ HandleAck \/ Redrive
    <3> USE <2>17 DEF Prune, HandleAck, Redrive, TypeOK
    <3>1. RowsOK'
      BY RowStatements DEF RowsOK, HostOK, Row
    <3>2. ThreadsOK' /\ ReplayOK'
      BY Zenon DEF ThreadsOK, ReplayOK, emitVars, replayVars
    <3>3. HostOK' /\ CountersOK'
      BY DEF HostOK, CountersOK, hostVars, boundVars, histVars
    <3>4. QED  BY Zenon, <3>1, <3>2, <3>3
  <2>18. CASE HostReceive
    <3> USE <2>18 DEF HostReceive, TypeOK
    <3>1. PICK m \in wire : /\ wire' = wire \ {m}
                            /\ journal' = Journaled(journal, {m})
                            /\ acks' = IF mode = "AckExpected" THEN acks \cup {m.key} ELSE acks
      BY Zenon
    <3>2. journal' \in [Keys -> Bodies \cup {NoBody}]
      BY Zenon, <3>1, JournaledType DEF HostOK
    <3>3. HostOK'
      BY Zenon, <3>1, <3>2 DEF HostOK, Event
    <3>4. RowsOK' /\ ThreadsOK' /\ ReplayOK' /\ CountersOK'
      BY Zenon DEF RowsOK, ThreadsOK, ReplayOK, CountersOK, rowVars, emitVars, replayVars, boundVars, histVars
    <3>5. QED  BY Zenon, <3>3, <3>4
  <2>19. CASE Time \/ KeyGoesAway \/ KeyComesBack \/ PayloadDamaged
    <3> USE <2>19 DEF Time, BackoffElapsed, RetryWindowElapsed, KeyPauseOver,
                      KeyGoesAway, KeyComesBack, PayloadDamaged, TypeOK
    <3>1. ASSUME NEW r \in Row, Retryable(r) \/ r.status = "dead"
          PROVE  /\ [r EXCEPT !.due = TRUE] \in Row /\ [r EXCEPT !.aged = TRUE] \in Row
                 /\ [r EXCEPT !.payload = "unreadable"] \in Row
      <4>1. r \in StoredRow
        BY <3>1 DEF Row, NoRow, Retryable
      <4>2. QED  BY Zenon, <4>1 DEF Row, StoredRow, Payloads
    <3>2. RowsOK'
      <4>1. CASE \E k \in Keys : /\ Retryable(rows[k]) \/ rows[k].status = "dead"
                                 /\ rows' \in {[rows EXCEPT ![k].due = TRUE],
                                              [rows EXCEPT ![k].aged = TRUE],
                                              [rows EXCEPT ![k].payload = "unreadable"]}
                                 /\ UNCHANGED <<held, keyOk, keyWait>>
        <5>1. PICK k \in Keys : /\ Retryable(rows[k]) \/ rows[k].status = "dead"
                                /\ rows' \in {[rows EXCEPT ![k].due = TRUE],
                                             [rows EXCEPT ![k].aged = TRUE],
                                             [rows EXCEPT ![k].payload = "unreadable"]}
          BY Zenon, <4>1
        <5>2. rows[k] \in Row
          BY Zenon DEF RowsOK
        <5>3. \E r \in Row : rows' = [rows EXCEPT ![k] = r]
          <6>1. /\ [rows[k] EXCEPT !.due = TRUE] \in Row /\ [rows[k] EXCEPT !.aged = TRUE] \in Row
                /\ [rows[k] EXCEPT !.payload = "unreadable"] \in Row
            BY Zenon, <3>1, <5>1, <5>2
          <6>2. QED  BY ONLY Zenon, <5>1, <6>1
        <5>4. QED  BY ONLY Zenon, <4>1, <5>3, TypeOK DEF TypeOK, RowsOK
      <4>2. CASE rows' = rows /\ held' = held /\ keyOk' \in BOOLEAN /\ keyWait' \in BOOLEAN
        BY Zenon, <4>2 DEF RowsOK
      <4>3. QED  BY Zenon, <4>1, <4>2 DEF RowsOK
    <3>3. ThreadsOK' /\ ReplayOK'
      BY DEF ThreadsOK, ReplayOK, emitVars, replayVars
    <3>4. HostOK' /\ CountersOK'
      BY Zenon DEF HostOK, CountersOK, hostVars, boundVars, histVars
    <3>5. QED  BY Zenon, <3>2, <3>3, <3>4
  <2>20. CASE Crash
    <3> USE <2>20 DEF Crash, TypeOK
    <3>1. HostOK'
      BY Zenon, JournaledType DEF HostOK
    <3>2. RowsOK'
      BY Zenon DEF RowsOK
    <3>3. CountersOK'
      BY DEF CountersOK
    <3>4. ThreadsOK' /\ ReplayOK'
      BY Zenon DEF ThreadsOK, ReplayOK, Threads
    <3>5. QED  BY Zenon, <3>1, <3>2, <3>3, <3>4
  <2>21. QED
    BY Zenon, <2>1, <2>2, <2>3, <2>4, <2>5, <2>6, <2>7, <2>8, <2>9, <2>10, <2>11, <2>12, <2>13,
       <2>14, <2>15, <2>16, <2>17, <2>18, <2>19, <2>20
       DEF Next, Emit, Reseal, Replay, Environment
<1>3. QED
  BY <1>1, <1>2, PTL DEF Spec
-----------------------------------------------------------------------------
(* What a step may do to the status of a row, and the safety properties    *)
(* that follow from it.                                                    *)

\* The status moves of every statement except mark_sent.
Moved(r, s) ==
    \/ s.status = r.status
    \/ r.status = "none" /\ s.status \in {"pending", "dead"}
    \/ Retryable(r) /\ s.status \in {"pending", "failed", "dead"}
    \/ r.status = "dead" /\ s.status = "pending"
    \/ r.status \in {"sent", "dead"} /\ s.status = "none"

\* A row becomes sent by an acknowledgement or by a Legacy write.
BecomesSent(k) ==
    /\ Retryable(rows[k]) /\ rows'[k].status = "sent"
    /\ k \in acks \/ k \in legacySent'

\* The statements of outbox.rs other than mark_sent make those moves.
LEMMA StatementMoves ==
    ASSUME NEW r \in Row
    PROVE  /\ Moved(r, fill_quarantined(r)) /\ Moved(r, mark_failed(r)) /\ Moved(r, mark_emitted(r))
           /\ Moved(r, mark_dead_typed(r)) /\ Moved(r, redrive_dead(r))
           /\ \A b : Moved(r, fill_or_insert(r, b))
<1>1. CASE r = NoRow
  BY Zenon, <1>1 DEF NoRow, Moved, fill_quarantined, fill_or_insert, mark_failed, mark_emitted, CountAttempt,
              mark_dead_typed, redrive_dead, Retryable, Quarantined, Exists, FreshRow
<1>2. CASE r \in StoredRow
  <2> USE <1>2 DEF StoredRow, Moved
  <2>1. Moved(r, fill_quarantined(r))
    BY Zenon DEF fill_quarantined, Quarantined
  <2>2. ASSUME NEW s \in {"pending", "failed"} PROVE Moved(r, CountAttempt(r, s))
    BY Zenon DEF CountAttempt, Retryable
  <2>3. Moved(r, mark_dead_typed(r)) /\ Moved(r, redrive_dead(r))
    BY Zenon DEF mark_dead_typed, redrive_dead, Retryable
  <2>4. \A b : Moved(r, fill_or_insert(r, b))
    BY Zenon, <2>1 DEF fill_or_insert, Exists, Statuses
  <2>5. QED  BY Zenon, <2>1, <2>2, <2>3, <2>4 DEF mark_failed, mark_emitted
<1>3. QED  BY Zenon, <1>1, <1>2 DEF Row

\* mark_sent moves a retryable row to sent and nothing else.
LEMMA MarkSentMoves ==
    ASSUME NEW r \in Row
    PROVE  mark_sent(r) = r \/ (Retryable(r) /\ mark_sent(r).status = "sent")
BY Zenon DEF mark_sent, Retryable, Row, StoredRow, NoRow

\* One step moves the status of a row along Moved, or acknowledges it.
LEMMA StepMoves ==
    ASSUME TypeOK, [Next]_vars, NEW k \in Keys
    PROVE  Moved(rows[k], rows'[k]) \/ BecomesSent(k)
<1> DEFINE Goal == Moved(rows[k], rows'[k]) \/ BecomesSent(k)
<1>r. rows \in [Keys -> Row] /\ rows[k] \in Row
  BY Zenon DEF TypeOK, RowsOK
<1>u. ASSUME rows'[k] = rows[k] PROVE Goal
  BY Zenon, <1>u DEF Moved
<1>1. ASSUME UNCHANGED rows PROVE Goal
  BY Zenon, <1>1, <1>u
<1>2. ASSUME NEW t \in Emitters, Insert(t) PROVE Goal
  <2>1. \/ UNCHANGED rows
        \/ /\ ~Exists(rows[job[t].key])
           /\ rows' \in {[rows EXCEPT ![job[t].key] = FreshRow(job[t].body)],
                         [rows EXCEPT ![job[t].key] = QuarantineRow(job[t].body)]}
    BY Zenon, <1>2 DEF Insert
  <2>2. CASE job[t].key = k /\ ~UNCHANGED rows
    BY <1>r, <2>1, <2>2 DEF Moved, Exists, FreshRow, QuarantineRow
  <2>3. CASE job[t].key # k
    BY Zenon, <1>r, <1>u, <2>1, <2>3
  <2>4. QED  BY Zenon, <1>1, <2>2, <2>3
<1>3. ASSUME NEW t \in Emitters, Fill(t) PROVE Goal
  <2>1. UNCHANGED rows \/ rows' = [rows EXCEPT ![job[t].key] = fill_quarantined(@)]
    BY Zenon, <1>3 DEF Fill
  <2>2. QED  BY Zenon, <1>r, <1>u, <2>1, StatementMoves
<1>4. ASSUME NEW t \in Emitters, Book(t) PROVE Goal
  <2>1. CASE job[t].key = k /\ rows' = [rows EXCEPT ![k] = Booked(t, @)]
    <3>1. rows'[k] = Booked(t, rows[k])
      BY Zenon, <1>r, <2>1
    <3>2. CASE pc[t] = "bookOk" /\ mode = "Legacy"
      <4>1. rows'[k] = mark_sent(rows[k]) /\ (Retryable(rows[k]) => k \in legacySent' \/ UNCHANGED rows)
        BY Zenon, <1>4, <2>1, <3>1, <3>2 DEF Book, Booked
      <4>2. QED  BY Zenon, <1>r, <1>u, <4>1, MarkSentMoves DEF BecomesSent
    <3>3. CASE ~(pc[t] = "bookOk" /\ mode = "Legacy")
      BY Zenon, <1>4, <1>r, <3>1, <3>3, StatementMoves DEF Book, Booked
    <3>4. QED  BY Zenon, <3>2, <3>3
  <2>2. CASE job[t].key # k
    BY Zenon, <1>4, <1>r, <1>u, <2>2 DEF Book
  <2>3. QED  BY Zenon, <1>1, <1>4, <2>1, <2>2 DEF Book
<1>5. ASSUME NEW t \in Threads, ResealOne(t) PROVE Goal
  <2>1. PICK e \in mine[t] : rows' \in {rows, [rows EXCEPT ![e.key] = fill_or_insert(@, e.body)]}
    BY Zenon, <1>5 DEF ResealOne
  <2>2. QED  BY <1>r, <1>u, <2>1, StatementMoves
<1>6. CASE ReplayUnopened
  <2>1. UNCHANGED rows \/ rows' = [rows EXCEPT ![cur.key] = mark_dead_typed(@)]
    BY Zenon, <1>6 DEF ReplayUnopened
  <2>2. QED  BY Zenon, <1>r, <1>u, <2>1, StatementMoves
<1>7. CASE ReplayBook
  <2>1. rows'[k] \in {rows[k], mark_emitted(rows[k]), mark_failed(rows[k])}
    BY Zenon, <1>r, <1>7 DEF ReplayBook
  <2>2. QED  BY Zenon, <1>r, <1>u, <2>1, StatementMoves
<1>8. CASE Prune
  <2>1. PICK j \in Keys : rows[j].status \in {"sent", "dead"} /\ rows' = [rows EXCEPT ![j] = NoRow]
    BY Zenon, <1>8 DEF Prune
  <2>2. QED  BY Zenon, <1>r, <1>u, <2>1 DEF Moved, NoRow
<1>9. CASE HandleAck
  <2>1. PICK j \in acks : rows' \in {rows, [rows EXCEPT ![j] = mark_sent(@)]}
    BY Zenon, <1>9 DEF HandleAck
  <2>2. QED  BY Zenon, <1>r, <1>u, <2>1, MarkSentMoves DEF BecomesSent
<1>10. CASE Redrive
  <2>1. rows'[k] \in {rows[k], redrive_dead(rows[k])}
    BY Zenon, <1>10 DEF Redrive
  <2>2. QED  BY Zenon, <1>r, <1>u, <2>1, StatementMoves
<1>11. CASE BackoffElapsed \/ RetryWindowElapsed \/ PayloadDamaged
  <2>1. PICK j \in Keys : /\ Retryable(rows[j]) \/ rows[j].status = "dead"
                          /\ rows' \in {[rows EXCEPT ![j] = [rows[j] EXCEPT !.due = TRUE]],
                                       [rows EXCEPT ![j] = [rows[j] EXCEPT !.aged = TRUE]],
                                       [rows EXCEPT ![j] = [rows[j] EXCEPT !.payload = "unreadable"]]}
    BY Zenon, <1>11 DEF BackoffElapsed, RetryWindowElapsed, PayloadDamaged
  <2>2. rows[j] \in StoredRow
    BY <1>r, <2>1 DEF Row, NoRow, Retryable
  <2>3. rows'[j].status = rows[j].status
    BY <1>r, <2>1, <2>2 DEF StoredRow
  <2>4. rows'[k].status = rows[k].status
    BY Zenon, <1>r, <2>1, <2>3
  <2>5. QED  BY Zenon, <2>4 DEF Moved
<1>12. ASSUME NEW t \in Threads,
              EmitBegin(t) \/ Compare(t) \/ Hold(t) \/ Send(t) \/ TakeHeld(t) \/ PutBack(t)
       PROVE  Goal
  BY Zenon, <1>1, <1>12 DEF EmitBegin, Compare, Hold, Send, TakeHeld, PutBack, rowVars
<1>13. CASE \/ ReplayBegin \/ ReplayBeginReseal \/ ReplayQuery \/ ReplayOpen \/ ReplayOpened
            \/ ReplaySend \/ ReplayEnd
            \/ HostReceive \/ KeyPauseOver \/ KeyGoesAway \/ KeyComesBack \/ Crash
  BY Zenon, <1>1, <1>13 DEF ReplayBegin, ReplayBeginReseal, ReplayQuery, ReplayOpen, ReplayOpened, ReplaySend, ReplayEnd, HostReceive,
                     KeyPauseOver, KeyGoesAway, KeyComesBack, Crash, rowVars
<1>14. CASE UNCHANGED vars
  BY Zenon, <1>1, <1>14 DEF vars
<1>15. Emitters \subseteq Threads
  BY Zenon, BridgeConstants DEF Threads
<1>16. QED
  BY Zenon, <1>2, <1>3, <1>4, <1>5, <1>6, <1>7, <1>8, <1>9, <1>10, <1>11, <1>12, <1>13, <1>14, <1>15
     DEF Next, Emit, Reseal, Replay, Time, Environment

\* The host journals a key once; what it was sent it has.
LEMMA JournalGrows ==
    ASSUME NEW j \in [Keys -> Bodies \cup {NoBody}], NEW lines \in SUBSET Event
    PROVE  /\ \A k \in Keys : j[k] # NoBody => Journaled(j, lines)[k] = j[k]
           /\ \A m \in lines : Journaled(j, lines)[m.key] # NoBody
<1>1. ASSUME NEW m \in lines PROVE Journaled(j, lines)[m.key] # NoBody
  <2>1. m.key \in Keys
    BY Zenon DEF Event
  <2>2. CASE j[m.key] = NoBody
    <3>1. (CHOOSE n \in lines : n.key = m.key) \in lines
      BY Zenon
    <3>2. (CHOOSE n \in lines : n.key = m.key).body \in Bodies
      BY Zenon, <3>1 DEF Event
    <3>3. QED  BY Zenon, <2>1, <2>2, <3>2, OutboxConstants DEF Journaled
  <2>3. CASE j[m.key] # NoBody
    BY Zenon, <2>1, <2>3 DEF Journaled
  <2>4. QED  BY Zenon, <2>2, <2>3
<1>2. QED  BY Zenon, <1>1 DEF Journaled

\* The host's journal only grows, and it acknowledges only what it has; a key
\* is counted as sent by a Legacy write only in a process of that mode.
LEMMA StepHost ==
    ASSUME TypeOK, [Next]_vars
    PROVE  /\ \A k \in Keys : journal[k] # NoBody => journal'[k] = journal[k]
           /\ \A k \in acks' : k \in acks \/ journal'[k] # NoBody
           /\ legacySent \subseteq legacySent'
           /\ legacySent' # legacySent => "Legacy" \in Modes
<1> DEFINE Goal == /\ \A k \in Keys : journal[k] # NoBody => journal'[k] = journal[k]
                   /\ \A k \in acks' : k \in acks \/ journal'[k] # NoBody
                   /\ legacySent \subseteq legacySent'
                   /\ legacySent' # legacySent => "Legacy" \in Modes
<1>t. wire \subseteq Event /\ journal \in [Keys -> Bodies \cup {NoBody}] /\ mode \in Modes
  BY Zenon DEF TypeOK, HostOK, ThreadsOK
<1>1. ASSUME UNCHANGED <<journal, legacySent>>, acks' \subseteq acks PROVE Goal
  BY Zenon, <1>1
<1>2. ASSUME NEW t \in Threads, EmitBegin(t) \/ Insert(t) \/ Compare(t) \/ Fill(t) \/ Hold(t) \/ Send(t)
                                \/ TakeHeld(t) \/ ResealOne(t) \/ PutBack(t)
      PROVE  Goal
  <2>1. UNCHANGED <<journal, acks, legacySent>>
    BY Zenon, <1>2 DEF EmitBegin, Insert, Compare, Fill, Hold, Send, TakeHeld, ResealOne, PutBack,
                hostVars, histVars
  <2>2. QED  BY Zenon, <1>1, <2>1
<1>3. ASSUME NEW t \in Emitters, Book(t) PROVE Goal
  BY Zenon, <1>t, <1>3 DEF Book, hostVars
<1>4. CASE Replay
  <2>1. UNCHANGED <<journal, acks, legacySent>>
    BY Zenon, <1>4 DEF Replay, ReplayBegin, ReplayBeginReseal, ReplayQuery, ReplayOpen, ReplayUnopened,
                ReplayOpened, ReplaySend, ReplayBook, ReplayEnd, hostVars, histVars
  <2>2. QED  BY Zenon, <1>1, <2>1
<1>5. CASE Prune \/ HandleAck \/ Redrive
  <2>1. UNCHANGED <<journal, legacySent>> /\ acks' \subseteq acks
    BY Zenon, <1>5 DEF Prune, HandleAck, Redrive, hostVars, histVars
  <2>2. QED  BY Zenon, <1>1, <2>1
<1>6. CASE HostReceive
  <2>1. PICK m \in wire : /\ journal' = Journaled(journal, {m})
                          /\ acks' = IF mode = "AckExpected" THEN acks \cup {m.key} ELSE acks
                          /\ legacySent' = legacySent
    BY Zenon, <1>6 DEF HostReceive, histVars
  <2>2. {m} \in SUBSET Event
    BY Zenon, <1>t
  <2>3. QED  BY <1>t, <2>1, <2>2, JournalGrows
<1>7. CASE Crash
  <2>1. PICK lines \in SUBSET wire : journal' = Journaled(journal, lines)
    BY Zenon, <1>7 DEF Crash
  <2>2. acks' = {} /\ legacySent' = legacySent
    BY Zenon, <1>7 DEF Crash
  <2>3. QED  BY Zenon, <1>t, <2>1, <2>2, JournalGrows
<1>8. CASE Time \/ KeyGoesAway \/ KeyComesBack \/ PayloadDamaged \/ UNCHANGED vars
  <2>1. UNCHANGED <<journal, acks, legacySent>>
    BY Zenon, <1>8 DEF Time, BackoffElapsed, RetryWindowElapsed, KeyPauseOver, KeyGoesAway, KeyComesBack,
                PayloadDamaged, vars, hostVars, histVars
  <2>2. QED  BY Zenon, <1>1, <2>1
<1>9. Emitters \subseteq Threads
  BY Zenon, BridgeConstants DEF Threads
<1>10. QED
  BY Zenon, <1>2, <1>3, <1>4, <1>5, <1>6, <1>7, <1>8, <1>9 DEF Next, Emit, Reseal, Environment

\* SentIsJournaled with what keeps it: an acknowledgement on its way is of a
\* journaled key, and only a Legacy process counts its own writes.
SentInv ==
    /\ SentIsJournaled
    /\ \A k \in acks : journal[k] # NoBody
    /\ legacySent # {} => "Legacy" \in Modes

\* SentInv holds at the start and is kept by every step.
LEMMA SentInvariant == Spec => []SentInv
<1>1. Init => SentInv
  BY DEF Init, SentInv, SentIsJournaled, NoRow
<1>2. TypeOK /\ SentInv /\ [Next]_vars => SentInv'
  <2> SUFFICES ASSUME TypeOK, SentInv, [Next]_vars PROVE SentInv'
    BY Zenon
  <2>1. acks \subseteq Keys
    BY Zenon DEF TypeOK, HostOK
  <2>2. ASSUME NEW k \in Keys, rows'[k].status = "sent"
        PROVE  journal'[k] # NoBody \/ k \in legacySent'
    <3>1. rows[k].status = "sent" \/ BecomesSent(k)
      BY Zenon, <2>2, StepMoves DEF Moved
    <3>2. journal[k] # NoBody \/ k \in legacySent \/ k \in legacySent'
      BY Zenon, <3>1 DEF BecomesSent, SentInv, SentIsJournaled
    <3>3. QED  BY Zenon, <3>2, StepHost
  <2>3. \A k \in acks' : journal'[k] # NoBody
    BY Zenon, <2>1, StepHost DEF SentInv
  <2>4. legacySent' # {} => "Legacy" \in Modes
    BY Zenon, StepHost DEF SentInv
  <2>5. QED  BY Zenon, <2>2, <2>3, <2>4 DEF SentInv, SentIsJournaled
<1>3. QED
  BY <1>1, <1>2, TypeCorrect, PTL DEF Spec

\* No row of the outbox says sent unless the host's journal has the event, or
\* a Legacy write counted it: for any keys, threads, faults and kills.
THEOREM SentIsJournaledHolds == Spec => []SentIsJournaled
BY SentInvariant, PTL DEF SentInv

\* Late bookkeeping of any thread never drags a row out of sent.
THEOREM SentIsTerminalHolds == Spec => SentIsTerminal
<1>1. TypeOK /\ [Next]_vars =>
        [\A k \in Keys : rows[k].status = "sent" => rows'[k].status \in {"sent", "none"}]_vars
  BY Zenon, StepMoves DEF Moved, BecomesSent, Retryable
<1>2. QED
  BY <1>1, TypeCorrect, PTL DEF Spec, SentIsTerminal

\* The bridge implements the ledger: an accepted event is owed until the host
\* has it or it is buried, and what was delivered stays delivered.
THEOREM LedgerImplemented == Spec => LedgerSpec
<1>1. Init => Ledger!Init
  BY DEF Init, Ledger!Init, LedgerState, NoRow
<1>2. TypeOK /\ SentInv /\ SentInv' /\ [Next]_vars => [Ledger!Next]_LedgerState
  <2> SUFFICES ASSUME TypeOK, SentInv, SentInv', [Next]_vars PROVE Ledger!Next
    BY Zenon
  <2>1. ASSUME NEW k \in Keys
        PROVE  rows[k].status \in {"none", "pending", "failed", "sent", "dead"}
    BY DEF TypeOK, RowsOK, Row, StoredRow, Statuses, NoRow
  <2>2. ASSUME NEW k \in Keys
        PROVE  rows'[k].status \in {"none", "pending", "failed", "sent", "dead"}
    BY Zenon, <2>1, StepMoves DEF Moved, BecomesSent
  <2>3. LedgerState' \in [Keys -> Ledger!States]
    BY Zenon, <2>2 DEF LedgerState, Ledger!States
  <2>4. ASSUME NEW k \in Keys
        PROVE  LedgerState'[k] = LedgerState[k] \/ <<LedgerState[k], LedgerState'[k]>> \in Ledger!Moves
    <3>1. CASE journal[k] # NoBody
      BY Zenon, <3>1, StepHost DEF LedgerState
    <3>2. CASE journal[k] = NoBody /\ journal'[k] # NoBody
      BY Zenon, <2>1, <3>2 DEF LedgerState, Ledger!Moves
    <3>3. CASE journal[k] = NoBody /\ journal'[k] = NoBody
      <4>1. rows'[k].status = "sent" \/ rows[k].status = "sent" => "Legacy" \in Modes
        BY Zenon, <3>3 DEF SentInv, SentIsJournaled
      <4>2. QED
        BY Zenon, <2>1, <2>2, <3>3, <4>1, StepMoves DEF LedgerState, Ledger!Moves, Moved, BecomesSent, Retryable
    <3>4. QED  BY Zenon, <3>1, <3>2, <3>3
  <2>5. QED  BY Zenon, <2>3, <2>4 DEF Ledger!Next
<1>3. QED
  BY <1>1, <1>2, TypeCorrect, SentInvariant, PTL DEF Spec, LedgerSpec, Ledger!Spec
-----------------------------------------------------------------------------
(* A host that cannot acknowledge is sent nothing.                         *)

\* In a process whose host cannot acknowledge no emitter is on its way to a
\* write and the replay thread never starts.
SilentInv ==
    mode = "RequireAck" =>
        /\ \A t \in Threads : pc[t] \notin {"send", "sendLive", "sendOnce"}
        /\ pc["replay"] = "idle"

\* SilentInv holds at the start and is kept by every step.
LEMMA SilentInvariant == Spec => []SilentInv
<1>1. Init => SilentInv
  BY DEF Init, SilentInv, Threads
<1>2. TypeOK /\ SilentInv /\ [Next]_vars => SilentInv'
  <2> SUFFICES ASSUME TypeOK, SilentInv, [Next]_vars, mode' = "RequireAck"
               PROVE  /\ \A t \in Threads : pc'[t] \notin {"send", "sendLive", "sendOnce"}
                      /\ pc'["replay"] = "idle"
    BY Zenon DEF SilentInv
  <2> DEFINE Goal == /\ \A t \in Threads : pc'[t] \notin {"send", "sendLive", "sendOnce"}
                     /\ pc'["replay"] = "idle"
  <2>p. PICK steps : /\ pc \in [Threads -> steps] /\ "replay" \in Threads
                     /\ Emitters \subseteq Threads \ {"replay"}
    BY Zenon, BridgeConstants DEF TypeOK, ThreadsOK, Threads
  <2>1. CASE Crash
    <3>1. pc' = [t \in Threads |-> "idle"]
      BY Zenon, <2>1 DEF Crash
    <3>2. QED  BY Zenon, <2>p, <3>1
  <2>2. ASSUME mode' = mode PROVE SilentInv /\ mode = "RequireAck"
    BY Zenon, <2>2
  <2>3. ASSUME mode' = mode, NEW t \in Threads \ {"replay"},
               NEW step \in {"idle", "take", "reseal", "insert", "compare", "fill", "hold",
                             "bookOk", "bookFail"},
               pc' = [pc EXCEPT ![t] = step]
        PROVE  Goal
    BY Zenon, <2>2, <2>3, <2>p DEF SilentInv
  <2>4. ASSUME mode' = mode, pc' = pc PROVE Goal
    BY Zenon, <2>2, <2>4 DEF SilentInv
  <2>5. ASSUME NEW t \in Emitters, Emit(t) PROVE Goal
    <3>1. mode' = mode
      BY Zenon, <2>5 DEF Emit, EmitBegin, Insert, Compare, Fill, Hold, Send, Book
    <3>2. Stored = "idle" /\ \A step : Live(step) = "idle"
      BY Zenon, <2>2, <3>1 DEF Stored, Live
    <3>3. ~Send(t)
      BY Zenon, <2>2, <2>p, <3>1 DEF SilentInv, Send
    <3>4. \E step \in {"idle", "take", "insert", "compare", "fill", "hold"} :
             pc' = [pc EXCEPT ![t] = step]
      BY Zenon, <2>5, <3>2, <3>3 DEF Emit, EmitBegin, Insert, Compare, Fill, Hold, Book, Goto
    <3>5. QED  BY Zenon, <2>3, <2>p, <3>1, <3>4
  <2>6. ASSUME NEW t \in Threads, Reseal(t) PROVE Goal
    <3>1. mode' = mode /\ pc[t] # "idle"
      BY Zenon, <2>6 DEF Reseal, TakeHeld, ResealOne, PutBack
    <3>2. t # "replay"
      BY Zenon, <2>2, <3>1 DEF SilentInv
    <3>3. pc' = pc \/ \E step \in {"reseal", "insert"} : pc' = [pc EXCEPT ![t] = step]
      BY Zenon, <2>6, <3>2 DEF Reseal, TakeHeld, ResealOne, PutBack, Goto, AfterReseal, emitVars
    <3>4. QED  BY Zenon, <2>3, <2>4, <3>1, <3>2, <3>3
  <2>7. ~Replay
    <3>1. ASSUME Replay PROVE FALSE
      <4>1. mode' = mode
        BY Zenon, <3>1 DEF Replay, ReplayBegin, ReplayBeginReseal, ReplayQuery, ReplayOpen,
                    ReplayUnopened, ReplayOpened, ReplaySend, ReplayBook, ReplayEnd
      <4>2. mode # "AckExpected" /\ pc["replay"] = "idle"
        BY Zenon, <2>2, <4>1 DEF SilentInv
      <4>3. QED
        BY Zenon, <3>1, <4>2 DEF Replay, ReplayBegin, ReplayBeginReseal, ReplayQuery, ReplayOpen,
                          ReplayUnopened, ReplayOpened, ReplaySend, ReplayBook, ReplayEnd
    <3>2. QED  BY Zenon, <3>1
  <2>8. CASE Prune \/ HandleAck \/ Redrive \/ HostReceive \/ Time
             \/ KeyGoesAway \/ KeyComesBack \/ PayloadDamaged \/ UNCHANGED vars
    <3>1. mode' = mode /\ pc' = pc
      BY Zenon, <2>8 DEF Prune, HandleAck, Redrive, HostReceive, Time, BackoffElapsed, RetryWindowElapsed,
                  KeyPauseOver, KeyGoesAway, KeyComesBack, PayloadDamaged, vars, emitVars
    <3>2. QED  BY Zenon, <2>4, <3>1
  <2>9. QED
    BY Zenon, <2>1, <2>5, <2>6, <2>7, <2>8 DEF Next, Environment
<1>3. QED
  BY <1>1, <1>2, TypeCorrect, PTL DEF Spec

\* No step of any thread puts a line on the wire to a host that cannot
\* acknowledge (EmitMode::RequireAck): for any keys, threads and faults.
THEOREM NothingSentUnacknowledgedHolds == Spec => NothingSentUnacknowledged
<1>1. TypeOK /\ SilentInv /\ [Next]_vars => [mode = "RequireAck" => wire' \subseteq wire]_vars
  <2> SUFFICES ASSUME TypeOK, SilentInv, Next, mode = "RequireAck" PROVE wire' \subseteq wire
    BY Zenon DEF vars
  <2>1. Emitters \subseteq Threads
    BY Zenon, BridgeConstants DEF Threads
  <2>2. ASSUME NEW t \in Emitters, Emit(t) PROVE wire' = wire
    <3>1. ~Send(t)
      BY Zenon, <2>1 DEF SilentInv, Send
    <3>2. QED  BY Zenon, <2>2, <3>1 DEF Emit, EmitBegin, Insert, Compare, Fill, Hold, Book, hostVars
  <2>3. ASSUME NEW t \in Threads, Reseal(t) PROVE wire' = wire
    BY Zenon, <2>3 DEF Reseal, TakeHeld, ResealOne, PutBack, hostVars
  <2>4. CASE Replay
    <3>1. ~ReplaySend
      BY Zenon DEF SilentInv, ReplaySend
    <3>2. QED  BY Zenon, <2>4, <3>1 DEF Replay, ReplayBegin, ReplayBeginReseal, ReplayQuery, ReplayOpen,
                    ReplayUnopened, ReplayOpened, ReplayBook, ReplayEnd, hostVars
  <2>5. CASE Prune \/ HandleAck \/ Redrive \/ HostReceive \/ Crash
    BY Zenon, <2>5 DEF Prune, HandleAck, Redrive, HostReceive, Crash, hostVars
  <2>6. CASE Time \/ KeyGoesAway \/ KeyComesBack \/ PayloadDamaged
    BY Zenon, <2>6 DEF Time, BackoffElapsed, RetryWindowElapsed, KeyPauseOver, KeyGoesAway,
                KeyComesBack, PayloadDamaged, hostVars
  <2>7. QED  BY Zenon, <2>2, <2>3, <2>4, <2>5, <2>6 DEF Next, Environment
<1>2. QED
  BY <1>1, TypeCorrect, SilentInvariant, PTL DEF Spec, NothingSentUnacknowledged
-----------------------------------------------------------------------------
(* What buries an accepted event, as long as the sealing key never goes.   *)

\* While the key stays, nothing is quarantined or held, and the replay thread
\* takes a row for damaged only when its payload is and stays unreadable.
KeyInv ==
    /\ keyOk /\ held = {}
    /\ \A t \in Threads : /\ mine[t] = {} /\ waiting[t] = {}
                          /\ pc[t] \notin {"reseal", "fill", "hold"}
    /\ \A t \in Emitters : pc[t] \in {"take", "insert", "compare"} => sealOk[t]
    /\ \A k \in Keys : Exists(rows[k]) => rows[k].payload # "marker"
    /\ pc["replay"] \notin {"open", "unopened"} => raw = {}
    /\ \A e \in raw : e.opened \/ rows[e.key].payload = "unreadable"
    /\ pc["replay"] = "unopened" => rows[cur.key].payload = "unreadable"

\* A statement makes no quarantine row and repairs no damaged payload.
Kept(r, s) ==
    /\ Exists(s) /\ s.payload = "marker" => Exists(r) /\ r.payload = "marker"
    /\ r.payload = "unreadable" => s.payload = "unreadable"

\* It buries the row only for cause.
ForCause(r, s) ==
    Retryable(r) /\ s.status = "dead" =>
        \/ r.aged /\ s.attempts >= MAX_ATTEMPTS
        \/ r.payload = "unreadable"

\* The statements of outbox.rs keep the first; all but mark_dead_typed the
\* second.
LEMMA StatementsKeep ==
    ASSUME NEW r \in Row
    PROVE  /\ Kept(r, mark_dead_typed(r))
           /\ \A s \in {fill_quarantined(r), mark_sent(r), mark_failed(r), mark_emitted(r),
                        redrive_dead(r)} : Kept(r, s) /\ ForCause(r, s)
<1> DEFINE Good(s) == Kept(r, s) /\ ForCause(r, s)
<1>1. CASE r = NoRow
  <2>1. \A s \in {fill_quarantined(r), mark_sent(r), mark_failed(r), mark_emitted(r),
                  redrive_dead(r), mark_dead_typed(r)} : s = r
    BY Zenon, <1>1 DEF NoRow, fill_quarantined, mark_sent, mark_failed, mark_emitted, CountAttempt,
                redrive_dead, mark_dead_typed, Retryable, Quarantined
  <2>2. Good(r)
    BY Zenon, <1>1 DEF Kept, ForCause, NoRow, Exists, Retryable
  <2>3. QED  BY Zenon, <2>1, <2>2
<1>2. CASE r \in StoredRow
  <2> USE <1>2 DEF StoredRow, Exists, Retryable
  <2>1. Good(fill_quarantined(r)) /\ Good(redrive_dead(r))
    BY Zenon DEF Kept, ForCause, fill_quarantined, redrive_dead, Quarantined, Statuses
  <2>2. Good(mark_sent(r)) /\ Kept(r, mark_dead_typed(r))
    BY Zenon DEF Kept, ForCause, mark_sent, mark_dead_typed, Statuses
  <2>3. ASSUME NEW q \in {"pending", "failed"} PROVE Good(CountAttempt(r, q))
    <3>1. CASE Retryable(r)
      <4>1. /\ CountAttempt(r, q).payload = r.payload
            /\ CountAttempt(r, q).attempts = r.attempts + 1
            /\ CountAttempt(r, q).status = IF OutOfRetries(r) THEN "dead" ELSE q
        BY Zenon, <3>1 DEF CountAttempt
      <4>2. OutOfRetries(r) => r.aged /\ r.attempts + 1 >= MAX_ATTEMPTS
        BY Zenon DEF OutOfRetries
      <4>3. QED  BY Zenon, <2>3, <3>1, <4>1, <4>2 DEF Kept, ForCause
    <3>2. CASE ~Retryable(r)
      BY Zenon, <3>2 DEF CountAttempt, Kept, ForCause
    <3>3. QED  BY Zenon, <3>1, <3>2
  <2>4. Good(mark_failed(r)) /\ Good(mark_emitted(r))
    BY Zenon, <2>3 DEF mark_failed, mark_emitted
  <2>5. QED  BY Zenon, <2>1, <2>2, <2>4
<1>3. QED  BY Zenon, <1>1, <1>2 DEF Row

\* So does every step of the bridge, but for the pruning of a row.
LEMMA StepKeeps ==
    ASSUME TypeOK, KeyInv, [Next]_vars, NEW k \in Keys
    PROVE  /\ ForCause(rows[k], rows'[k])
           /\ \/ Kept(rows[k], rows'[k])
              \/ Prune /\ rows'[k] = NoRow
<1> DEFINE Good == ForCause(rows[k], rows'[k]) /\ Kept(rows[k], rows'[k])
<1>r. rows \in [Keys -> Row] /\ rows[k] \in Row
  BY Zenon DEF TypeOK, RowsOK
<1>u. ASSUME rows'[k] = rows[k] PROVE Good
  BY Zenon, <1>u DEF ForCause, Kept, Retryable
<1>1. ASSUME UNCHANGED rows PROVE Good
  BY Zenon, <1>1, <1>u
<1>s. ASSUME rows'[k] \in {fill_quarantined(rows[k]), mark_sent(rows[k]), mark_failed(rows[k]),
                           mark_emitted(rows[k]), redrive_dead(rows[k])}
      PROVE  Good
  BY Zenon, <1>r, <1>s, StatementsKeep
<1>2. ASSUME NEW t \in Emitters, Insert(t) PROVE Good
  <2>1. pc[t] = "insert" /\ sealOk[t]
    BY Zenon, <1>2 DEF Insert, KeyInv
  <2>2. \/ UNCHANGED rows
        \/ /\ ~Exists(rows[job[t].key])
           /\ rows' = [rows EXCEPT ![job[t].key] = FreshRow(job[t].body)]
    BY Zenon, <1>2, <2>1 DEF Insert
  <2>3. CASE job[t].key = k /\ ~UNCHANGED rows
    <3>1. rows'[k] = FreshRow(job[t].body) /\ ~Exists(rows[k])
      BY Zenon, <1>r, <2>2, <2>3
    <3>2. rows[k] = NoRow
      BY Zenon, <1>r, <3>1 DEF Row, StoredRow, Statuses, Exists
    <3>3. QED  BY <3>1, <3>2 DEF ForCause, Kept, Exists, Retryable, NoRow, FreshRow
  <2>4. CASE job[t].key # k
    BY Zenon, <1>r, <1>u, <2>2, <2>4
  <2>5. QED  BY Zenon, <1>1, <2>3, <2>4
<1>3. ASSUME NEW t \in Threads, Fill(t) \/ ResealOne(t) \/ Hold(t) PROVE Good
  BY Zenon, <1>3 DEF KeyInv, Fill, ResealOne, Hold
<1>4. ASSUME NEW t \in Emitters, Book(t) PROVE Good
  <2>1. CASE job[t].key = k /\ rows' = [rows EXCEPT ![k] = Booked(t, @)]
    <3>1. rows'[k] = Booked(t, rows[k])
      BY Zenon, <1>r, <2>1
    <3>2. QED  BY Zenon, <1>s, <3>1 DEF Booked
  <2>2. CASE job[t].key # k
    BY Zenon, <1>4, <1>r, <1>u, <2>2 DEF Book
  <2>3. QED  BY Zenon, <1>1, <1>4, <2>1, <2>2 DEF Book
<1>5. CASE ReplayUnopened
  <2>1. UNCHANGED rows \/ rows' = [rows EXCEPT ![cur.key] = mark_dead_typed(@)]
    BY Zenon, <1>5 DEF ReplayUnopened
  <2>2. rows[cur.key].payload = "unreadable"
    BY Zenon, <1>5 DEF ReplayUnopened, KeyInv
  <2>3. CASE cur.key = k /\ ~UNCHANGED rows
    <3>1. rows'[k] = mark_dead_typed(rows[k])
      BY Zenon, <1>r, <2>1, <2>3
    <3>2. QED  BY Zenon, <1>r, <2>2, <2>3, <3>1, StatementsKeep DEF ForCause
  <2>4. CASE cur.key # k
    BY Zenon, <1>r, <1>u, <2>1, <2>4
  <2>5. QED  BY Zenon, <1>1, <2>3, <2>4
<1>6. CASE ReplayBook
  <2>1. rows'[k] \in {rows[k], mark_emitted(rows[k]), mark_failed(rows[k])}
    BY Zenon, <1>r, <1>6 DEF ReplayBook
  <2>2. QED  BY Zenon, <1>s, <1>u, <2>1
<1>7. CASE Prune
  <2>1. PICK j \in Keys : rows[j].status \in {"sent", "dead"} /\ rows' = [rows EXCEPT ![j] = NoRow]
    BY Zenon, <1>7 DEF Prune
  <2>2. CASE j = k
    <3>1. rows'[k] = NoRow
      BY Zenon, <1>r, <2>1, <2>2
    <3>2. QED  BY <1>7, <3>1 DEF ForCause, NoRow
  <2>3. CASE j # k
    BY Zenon, <1>r, <1>u, <2>1, <2>3
  <2>4. QED  BY Zenon, <2>2, <2>3
<1>8. CASE HandleAck
  <2>1. PICK j \in acks : rows' \in {rows, [rows EXCEPT ![j] = mark_sent(@)]}
    BY Zenon, <1>8 DEF HandleAck
  <2>2. rows'[k] \in {rows[k], mark_sent(rows[k])}
    BY Zenon, <1>r, <2>1
  <2>3. QED  BY Zenon, <1>s, <1>u, <2>2
<1>9. CASE Redrive
  <2>1. rows'[k] \in {rows[k], redrive_dead(rows[k])}
    BY Zenon, <1>9 DEF Redrive
  <2>2. QED  BY Zenon, <1>s, <1>u, <2>1
<1>10. CASE BackoffElapsed \/ RetryWindowElapsed \/ PayloadDamaged
  <2>1. PICK j \in Keys : /\ Retryable(rows[j]) \/ rows[j].status = "dead"
                          /\ rows' \in {[rows EXCEPT ![j] = [rows[j] EXCEPT !.due = TRUE]],
                                       [rows EXCEPT ![j] = [rows[j] EXCEPT !.aged = TRUE]],
                                       [rows EXCEPT ![j] = [rows[j] EXCEPT !.payload = "unreadable"]]}
    BY Zenon, <1>10 DEF BackoffElapsed, RetryWindowElapsed, PayloadDamaged
  <2>2. rows[j] \in StoredRow
    BY <1>r, <2>1 DEF Row, NoRow, Retryable
  <2>3. CASE j = k
    <3>1. rows'[k] \in {[rows[k] EXCEPT !.due = TRUE], [rows[k] EXCEPT !.aged = TRUE],
                        [rows[k] EXCEPT !.payload = "unreadable"]}
      BY Zenon, <1>r, <2>1, <2>3
    <3>2. rows'[k].status = rows[k].status /\ rows'[k].payload \in {rows[k].payload, "unreadable"}
      BY Zenon, <2>2, <2>3, <3>1 DEF StoredRow
    <3>3. QED  BY Zenon, <3>2 DEF ForCause, Kept, Retryable, Exists
  <2>4. CASE j # k
    BY Zenon, <1>r, <1>u, <2>1, <2>4
  <2>5. QED  BY Zenon, <2>3, <2>4
<1>11. ASSUME NEW t \in Threads,
              EmitBegin(t) \/ Compare(t) \/ Send(t) \/ TakeHeld(t) \/ PutBack(t)
       PROVE  Good
  BY Zenon, <1>1, <1>11 DEF EmitBegin, Compare, Send, TakeHeld, PutBack, rowVars
<1>12. CASE \/ ReplayBegin \/ ReplayBeginReseal \/ ReplayQuery \/ ReplayOpen \/ ReplayOpened
            \/ ReplaySend \/ ReplayEnd
            \/ HostReceive \/ KeyPauseOver \/ KeyGoesAway \/ KeyComesBack \/ Crash
  BY Zenon, <1>1, <1>12 DEF ReplayBegin, ReplayBeginReseal, ReplayQuery, ReplayOpen, ReplayOpened,
                     ReplaySend, ReplayEnd, HostReceive, KeyPauseOver, KeyGoesAway,
                     KeyComesBack, Crash, rowVars
<1>13. CASE UNCHANGED vars
  BY Zenon, <1>1, <1>13 DEF vars
<1>14. Emitters \subseteq Threads
  BY Zenon, BridgeConstants DEF Threads
<1>15. QED
  BY Zenon, <1>2, <1>3, <1>4, <1>5, <1>6, <1>7, <1>8, <1>9, <1>10, <1>11, <1>12, <1>13, <1>14
     DEF Next, Emit, Reseal, Replay, Time, Environment

\* KeyInv holds at the start and, where the key never goes away, is kept by
\* every step.
LEMMA KeyInvariant ==
    ASSUME "key" \notin Faults
    PROVE  Spec => []KeyInv
<1>1. Init => KeyInv
  BY BridgeConstants DEF Init, KeyInv, Threads, NoRow, Exists
<1>2. TypeOK /\ KeyInv /\ [Next]_vars => KeyInv'
  <2> SUFFICES ASSUME TypeOK, KeyInv, [Next]_vars PROVE KeyInv'
    BY Zenon
  <2> DEFINE Rows == \A k \in Keys : Exists(rows[k]) => rows[k].payload # "marker"
             Held == keyOk /\ held = {}
             Locals == \A t \in Threads : /\ mine[t] = {} /\ waiting[t] = {}
                                          /\ pc[t] \notin {"reseal", "fill", "hold"}
             Seals == \A t \in Emitters : pc[t] \in {"take", "insert", "compare"} => sealOk[t]
             Reads == /\ pc["replay"] \notin {"open", "unopened"} => raw = {}
                      /\ \A e \in raw : e.opened \/ rows[e.key].payload = "unreadable"
                      /\ pc["replay"] = "unopened" => rows[cur.key].payload = "unreadable"
  <2>t. /\ pc \in [Threads -> {"idle", "take", "reseal", "insert", "compare", "fill", "hold",
                               "send", "sendLive", "sendOnce", "bookOk", "bookFail",
                               "query", "open", "unopened", "replay"}]
        /\ sealOk \in [Threads -> BOOLEAN]
        /\ mine \in [Threads -> SUBSET Event] /\ waiting \in [Threads -> SUBSET Event]
        /\ raw \subseteq Read /\ (pc["replay"] = "unopened" => cur \in Read)
        /\ \A e \in Read : e.key \in Keys
        /\ "replay" \in Threads /\ Emitters \subseteq Threads \ {"replay"}
    BY Zenon, BridgeConstants DEF TypeOK, ThreadsOK, ReplayOK, Threads, Read
  <2>i. Rows /\ Held /\ Locals /\ Seals /\ Reads
    BY Zenon DEF KeyInv
  <2>g. ASSUME Held', Locals', Seals', Reads' PROVE KeyInv'
    <3>1. ASSUME NEW k \in Keys, Exists(rows'[k]) PROVE rows'[k].payload # "marker"
      BY <2>i, <3>1, StepKeeps DEF Kept, Exists, NoRow
    <3>2. QED  BY Zenon, <2>g, <3>1 DEF KeyInv
  <2>n. Next => keyOk'
    BY Zenon, <2>i DEF Next, Environment, Time, Replay, Emit, Reseal, rowVars,
                EmitBegin, Insert, Compare, Fill, Hold, Send, Book, TakeHeld, ResealOne, PutBack,
                ReplayBegin, ReplayBeginReseal, ReplayQuery, ReplayOpen, ReplayUnopened,
                ReplayOpened, ReplaySend, ReplayBook, ReplayEnd, Prune, HandleAck, Redrive,
                HostReceive, BackoffElapsed, RetryWindowElapsed, KeyPauseOver, KeyGoesAway,
                KeyComesBack, PayloadDamaged, Crash
  <2>k. ASSUME ~Prune, NEW k \in Keys, rows[k].payload = "unreadable"
        PROVE  rows'[k].payload = "unreadable"
    BY Zenon, <2>k, StepKeeps DEF Kept
  <2>r. ASSUME ~Prune, raw' = raw, cur' = cur, pc'["replay"] = pc["replay"] PROVE Reads'
    <3>1. \A e \in raw' : e.opened \/ rows'[e.key].payload = "unreadable"
      BY Zenon, <2>i, <2>k, <2>r, <2>t
    <3>2. pc'["replay"] = "unopened" => rows'[cur'.key].payload = "unreadable"
      BY Zenon, <2>i, <2>k, <2>r, <2>t
    <3>3. QED  BY Zenon, <2>i, <2>r, <3>1, <3>2
  <2>1. ASSUME NEW t \in Emitters, Emit(t) PROVE KeyInv'
    <3>1. ~Fill(t) /\ ~Hold(t)
      BY Zenon, <2>i, <2>t DEF Fill, Hold
    <3>2. /\ held' = held /\ mine' = mine /\ waiting' = waiting
          /\ raw' = raw /\ cur' = cur
      BY Zenon, <2>1, <3>1 DEF Emit, EmitBegin, Insert, Compare, Send, Book, rowVars, replayVars
    <3>3. ~Prune
      <4>1. pc' # pc
        BY Zenon, <2>1, <2>t, <3>1 DEF Emit, EmitBegin, Insert, Compare, Send, Book, Goto, Stored, Live
      <4>2. QED  BY Zenon, <4>1 DEF Prune, emitVars
    <3>4. ASSUME NEW step \in {"idle", "insert", "compare", "send", "sendLive", "bookOk", "bookFail"},
                 Goto(t, step), step \in {"insert", "compare"} => sealOk[t]
          PROVE  Locals' /\ Seals' /\ pc'["replay"] = pc["replay"]
      BY Zenon, <2>i, <2>t, <3>2, <3>4 DEF Goto
    <3>5. CASE EmitBegin(t)
      <4>1. /\ sealOk' = [sealOk EXCEPT ![t] = TRUE] /\ pc' = [pc EXCEPT ![t] = "take"]
        BY Zenon, <2>i, <3>5 DEF EmitBegin
      <4>2. Locals' /\ Seals' /\ pc'["replay"] = pc["replay"]
        BY Zenon, <2>i, <2>t, <3>2, <4>1
      <4>3. QED  BY Zenon, <2>1, <2>g, <2>i, <2>n, <2>r, <3>2, <3>3, <4>2 DEF Next
    <3>6. CASE Insert(t) \/ Compare(t) \/ Send(t) \/ Book(t)
      <4>1. \E step \in {"idle", "insert", "compare", "send", "sendLive", "bookOk", "bookFail"} :
               Goto(t, step) /\ (step \in {"insert", "compare"} => sealOk[t])
        <5>1. CASE Insert(t)
          <6>1. sealOk[t]
            BY Zenon, <2>i, <5>1 DEF Insert
          <6>2. QED  BY Zenon, <5>1, <6>1 DEF Insert, Stored, Live
        <5>2. CASE Compare(t)
          <6>1. sealOk[t] /\ (Exists(rows[job[t].key]) => rows[job[t].key].payload # "marker")
            BY Zenon, <2>1, <2>i, <2>t, <5>2 DEF Compare, TypeOK, ThreadsOK, Event
          <6>2. QED  BY Zenon, <5>2, <6>1 DEF Compare, Stored, Live
        <5>3. CASE Send(t) \/ Book(t)
          BY Zenon, <5>3 DEF Send, Book
        <5>4. QED  BY Zenon, <3>6, <5>1, <5>2, <5>3
      <4>2. Locals' /\ Seals' /\ pc'["replay"] = pc["replay"]
        BY Zenon, <3>4, <4>1
      <4>3. QED  BY Zenon, <2>1, <2>g, <2>i, <2>n, <2>r, <3>2, <3>3, <4>2 DEF Next
    <3>7. QED  BY Zenon, <2>1, <3>1, <3>5, <3>6 DEF Emit
  <2>2. ASSUME NEW t \in Threads, Reseal(t) PROVE KeyInv'
    <3>1. TakeHeld(t)
      BY Zenon, <2>2, <2>i DEF Reseal, ResealOne, PutBack
    <3>2. /\ Goto(t, AfterReseal(t)) /\ mine' = [mine EXCEPT ![t] = {}] /\ waiting' = waiting
          /\ held' = {} /\ raw' = raw /\ cur' = cur /\ rows' = rows /\ pc[t] = "take"
      BY Zenon, <2>i, <3>1 DEF TakeHeld, replayVars
    <3>3. pc' = [pc EXCEPT ![t] = AfterReseal(t)] /\ (t # "replay" => sealOk' = sealOk)
      BY Zenon, <3>2 DEF Goto, AfterReseal
    <3>4. Locals' /\ Seals'
      <4>1. CASE t = "replay"
        <5>1. \A u \in Emitters : pc'[u] = pc[u] /\ sealOk'[u] = sealOk[u]
          BY Zenon, <2>t, <3>2, <3>3, <4>1 DEF Goto
        <5>2. QED  BY Zenon, <2>i, <2>t, <3>2, <3>3, <4>1, <5>1 DEF AfterReseal
      <4>2. CASE t # "replay"
        BY Zenon, <2>i, <2>t, <3>2, <3>3, <4>2 DEF AfterReseal
      <4>3. QED  BY Zenon, <4>1, <4>2
    <3>5. Reads'
      BY Zenon, <2>i, <2>t, <3>2, <3>3 DEF AfterReseal
    <3>6. QED  BY Zenon, <2>2, <2>g, <2>n, <3>2, <3>4, <3>5 DEF Next
  <2>3. CASE Replay
    <3>1. /\ held' = held /\ mine' = mine /\ waiting' = waiting /\ sealOk' = sealOk
      BY Zenon, <2>3 DEF Replay, ReplayBegin, ReplayBeginReseal, ReplayQuery, ReplayOpen, ReplayUnopened,
                  ReplayOpened, ReplaySend, ReplayBook, ReplayEnd, rowVars
    <3>2. PICK step \in {"idle", "take", "query", "open", "unopened", "replay", "bookOk", "bookFail"} :
             pc' = [pc EXCEPT !["replay"] = step]
      <4>1. ASSUME pc' = pc, pc["replay"] = "open"
            PROVE  pc' = [pc EXCEPT !["replay"] = "open"]
        BY Zenon, <2>t, <4>1
      <4>2. QED
        BY Zenon, <2>3, <4>1 DEF Replay, ReplayBegin, ReplayBeginReseal, ReplayQuery, ReplayOpen, ReplayUnopened,
                  ReplayOpened, ReplaySend, ReplayBook, ReplayEnd
    <3>3. Held' /\ Locals' /\ Seals'
      BY Zenon, <2>3, <2>i, <2>n, <2>t, <3>1, <3>2 DEF Next
    <3>4. ~Prune
      <4>1. ASSUME Prune PROVE FALSE
        <5>1. pc["replay"] = "idle" /\ pc' = pc
          BY Zenon, <4>1 DEF Prune, emitVars
        <5>2. pc'["replay"] # "idle"
          BY Zenon, <2>3, <2>t, <5>1 DEF Replay, ReplayBegin, ReplayBeginReseal, ReplayQuery, ReplayOpen,
                  ReplayUnopened, ReplayOpened, ReplaySend, ReplayBook, ReplayEnd
        <5>3. QED  BY Zenon, <5>1, <5>2
      <4>2. QED  BY Zenon, <4>1
    <3>5. Reads'
      <4>1. CASE ReplayQuery
        <5>1. raw' \subseteq DueRows /\ pc' = [pc EXCEPT !["replay"] = "open"] /\ rows' = rows
          BY Zenon, <4>1 DEF ReplayQuery, rowVars
        <5>2. ASSUME NEW e \in DueRows PROVE e.opened \/ rows[e.key].payload = "unreadable"
          <6>1. PICK k \in Keys : /\ DueForRetry(rows[k])
                                  /\ e = [key |-> k, body |-> rows[k].body,
                                          attempts |-> rows[k].attempts,
                                          opened |-> rows[k].payload = "sealed"]
            BY Zenon DEF DueRows
          <6>2. rows[k].payload \in {"sealed", "unreadable"}
            BY <2>i, <6>1 DEF DueForRetry, Retryable, Exists, TypeOK, RowsOK, Row, StoredRow, Payloads, NoRow
          <6>3. QED  BY Zenon, <6>1, <6>2
        <5>3. QED  BY Zenon, <2>t, <5>1, <5>2
      <4>2. CASE ReplayOpen
        <5>1. PICK e \in raw : /\ raw' = raw \ {e}
                               /\ \/ pc' = pc
                                  \/ /\ ~(keyOk /\ e.opened) /\ cur' = e
                                     /\ pc' = [pc EXCEPT !["replay"] = "unopened"]
          BY Zenon, <4>2 DEF ReplayOpen
        <5>2. pc["replay"] = "open" /\ rows' = rows
          BY Zenon, <4>2 DEF ReplayOpen, rowVars
        <5>3. QED  BY Zenon, <2>i, <2>t, <5>1, <5>2
      <4>3. CASE ReplayUnopened
        <5>1. raw' \subseteq raw /\ pc' = [pc EXCEPT !["replay"] = "open"]
          BY Zenon, <4>3 DEF ReplayUnopened
        <5>2. QED  BY Zenon, <2>i, <2>k, <2>t, <3>4, <5>1
      <4>4. CASE \/ ReplayBegin \/ ReplayBeginReseal \/ ReplayOpened \/ ReplaySend
                 \/ ReplayBook \/ ReplayEnd
        <5>1. raw' = raw /\ raw = {} /\ pc'["replay"] \notin {"open", "unopened"}
          BY ZenonT(30), <2>i, <2>t, <4>4 DEF ReplayBegin, ReplayBeginReseal, ReplayOpened, ReplaySend,
                  ReplayBook, ReplayEnd, replayVars
        <5>2. QED  BY Zenon, <5>1
      <4>5. QED  BY Zenon, <2>3, <4>1, <4>2, <4>3, <4>4 DEF Replay
    <3>6. QED  BY Zenon, <2>g, <3>3, <3>5
  <2>4. CASE Prune
    <3>1. /\ pc["replay"] = "idle"
          /\ UNCHANGED <<held, keyOk, pc, sealOk, mine, waiting, raw, cur>>
      BY Zenon, <2>4 DEF Prune, emitVars, replayVars
    <3>2. QED  BY Zenon, <2>g, <2>i, <3>1
  <2>5. CASE HandleAck \/ Redrive \/ HostReceive \/ Time \/ PayloadDamaged \/ UNCHANGED vars
    <3>1. UNCHANGED <<held, keyOk, pc, sealOk, mine, waiting, raw, cur>>
      BY Zenon, <2>5 DEF HandleAck, Redrive, HostReceive, Time, BackoffElapsed, RetryWindowElapsed,
                  KeyPauseOver, PayloadDamaged, rowVars, emitVars, replayVars, vars
    <3>2. ~Prune => Reads'
      BY Zenon, <2>r, <3>1
    <3>3. QED  BY Zenon, <2>4, <2>g, <2>i, <3>1, <3>2
  <2>6. CASE KeyGoesAway \/ KeyComesBack
    BY Zenon, <2>6, <2>i DEF KeyGoesAway, KeyComesBack
  <2>7. CASE Crash
    <3>1. /\ pc' = [t \in Threads |-> "idle"] /\ mine' = [t \in Threads |-> {}]
          /\ waiting' = [t \in Threads |-> {}] /\ raw' = {} /\ held' = {} /\ keyOk' = keyOk
      BY Zenon, <2>7 DEF Crash
    <3>2. QED  BY Zenon, <2>g, <2>i, <2>t, <3>1
  <2>8. QED
    BY Zenon, <2>1, <2>2, <2>3, <2>4, <2>5, <2>6, <2>7 DEF Next, Environment
<1>3. QED
  BY <1>1, <1>2, TypeCorrect, PTL DEF Spec

\* As long as the sealing key never goes away, an accepted event is buried
\* only by MAX_ATTEMPTS emissions over the whole retry window or because its
\* payload is damaged: for any keys, threads and other faults.
THEOREM BuriedForCauseHolds ==
    ASSUME "key" \notin Faults
    PROVE  Spec => BuriedForCause
<1>1. TypeOK /\ KeyInv /\ [Next]_vars =>
        [\A k \in Keys : Retryable(rows[k]) /\ rows'[k].status = "dead" =>
            \/ rows[k].aged /\ rows'[k].attempts >= MAX_ATTEMPTS
            \/ rows[k].payload = "unreadable"]_vars
  BY Zenon, StepKeeps DEF ForCause
<1>2. QED
  BY <1>1, TypeCorrect, KeyInvariant, PTL DEF Spec, BuriedForCause
=============================================================================
