---------------------------- MODULE EventBridge ----------------------------
(***************************************************************************)
(* Delivery of essential events from the plugin to its host: the threads   *)
(* that emit (the RPC thread "main" and the "radio" thread, emit_event),   *)
(* the "replay" thread (replay_once), the acknowledgements the main thread *)
(* handles (event.ack), the payloads that wait for a sealing key           *)
(* (HELD_SEALS), and a plugin that may be killed between any two steps.    *)
(* Sources: event_bridge.rs, outbox.rs, connector.rs (event.ack,           *)
(* outbox.redrive), all under crates/aokie-plugin/src.                     *)
(*                                                                         *)
(* One action is one SQL statement, one write to the host, or one critical *)
(* section on HELD_SEALS, so every interleaving of the three threads that  *)
(* the code allows is a behaviour.  Clocks are reduced to the comparisons  *)
(* made with them: BackoffElapsed and RetryWindowElapsed let the time of a *)
(* row pass; retention (7 and 14 days) may have passed at any prune.       *)
(***************************************************************************)
EXTENDS Outbox, FiniteSets

CONSTANTS
    Keys,             \* idempotency keys
    Emitters,         \* the threads that emit: "main", "radio" or both
    Modes,            \* the EmitModes a process may negotiate with its host
    Faults,           \* what may go wrong: a statement ("db"; "fill" is the one
                      \* that fills a quarantine row), a write to the host
                      \* ("send"), the sealing key, a stored payload
    MAX_HELD_SEALS,   \* events that may wait for a seal in memory
    MaxEmits,         \* bound: emit_event calls per key
    MaxCrashes,       \* bound: kills of the plugin process
    MaxRedrives,      \* bound: outbox.redrive commands
    AttemptCap        \* bound: emissions of a row inside its retry window

ASSUME BridgeConstants ==
    /\ Emitters \subseteq {"main", "radio"}
    /\ Modes \subseteq {"Legacy", "AckExpected", "RequireAck"}
    /\ Modes # {}
    /\ Faults \subseteq {"db", "fill", "send", "key", "payload"}
    /\ MAX_HELD_SEALS \in Nat
    /\ MaxEmits \in Nat /\ MaxCrashes \in Nat /\ MaxRedrives \in Nat
    /\ AttemptCap \in Nat

VARIABLES
    rows,         \* the outbox file: Keys -> Row
    held,         \* HELD_SEALS: events waiting for a seal
    keyOk,        \* whether the system gives the sealing key now
    keyWait,      \* the replay connection's pause after the key was refused
    mode,         \* this process's EmitMode
    pc, job,      \* per emitter thread: where it is in emit_event, on what
    sealOk,       \* per emitter thread: whether its own seal worked
    mine,         \* per thread: what reseal_held took out of held
    waiting,      \* per thread: what reseal_held will put back
    raw, batch,   \* the replay thread: rows read, and those of them that opened
    cur,          \* the row it is emitting, or that did not open
    wire,         \* lines written to the host and not yet read by it
    acks,         \* event.ack notifications not yet handled
    journal,      \* the host's durable journal: Keys -> Bodies or NoBody
    emits, crashes, redrives,   \* counters of the bounds
    pruned,       \* history: keys whose row was pruned by retention
    legacySent,   \* history: keys marked sent by a Legacy write
    everHeld      \* history: keys put in held by this process

vars == <<rows, held, keyOk, keyWait, mode, pc, job, sealOk, mine, waiting,
          raw, batch, cur, wire, acks, journal, emits, crashes, redrives,
          pruned, legacySent, everHeld>>

rowVars == <<rows, held, keyOk, keyWait>>
emitVars == <<pc, job, sealOk>>
replayVars == <<raw, batch, cur>>
hostVars == <<wire, acks, journal>>
boundVars == <<emits, crashes, redrives>>
histVars == <<pruned, legacySent, everHeld>>

Threads == {"main", "radio", "replay"}

Event == [key : Keys, body : Bodies]

\* A row as due_for_retry read it: its attempt generation, and whether its
\* payload opened.
Read == [key : Keys, body : Bodies, attempts : Nat, opened : BOOLEAN]

NoRead == [key |-> "none"]

KeysOf(S) == {e.key : e \in S}

Init ==
    /\ rows = [k \in Keys |-> NoRow]
    /\ held = {} /\ keyOk = TRUE /\ keyWait = FALSE
    /\ mode \in Modes
    /\ pc = [t \in Threads |-> "idle"]
    /\ job = [t \in Threads |-> NoRead]
    /\ sealOk = [t \in Threads |-> FALSE]
    /\ mine = [t \in Threads |-> {}]
    /\ waiting = [t \in Threads |-> {}]
    /\ raw = {} /\ batch = {} /\ cur = NoRead
    /\ wire = {} /\ acks = {} /\ journal = [k \in Keys |-> NoBody]
    /\ emits = [k \in Keys |-> 0] /\ crashes = 0 /\ redrives = 0
    /\ pruned = {} /\ legacySent = {} /\ everHeld = {}

\* Thread t goes on at a step of its function; one that returns (idle) drops
\* its locals, and one past its INSERT no longer needs its seal.
Goto(t, step) ==
    /\ pc' = [pc EXCEPT ![t] = step]
    /\ job' = IF step = "idle" THEN [job EXCEPT ![t] = NoRead] ELSE job
    /\ sealOk' = IF step \in {"insert", "reseal", "compare", "fill"} THEN sealOk
                 ELSE [sealOk EXCEPT ![t] = FALSE]
-----------------------------------------------------------------------------
(* reseal_held, run by an emitter whose seal worked and by the replay      *)
(* thread before it reads.                                                 *)

\* Where a thread goes on after reseal_held.
AfterReseal(t) == IF t = "replay" THEN "query" ELSE "insert"

\* Take every held event of this file out of HELD_SEALS, under its lock.
TakeHeld(t) ==
    /\ pc[t] = "take"
    /\ Goto(t, IF held = {} THEN AfterReseal(t) ELSE "reseal")
    /\ mine' = [mine EXCEPT ![t] = held]
    /\ held' = {}
    /\ UNCHANGED <<rows, keyOk, keyWait, mode, waiting,
                   replayVars, hostVars, boundVars, histVars>>

\* One held event: sealed and its row filled in (inserted again when it was
\* pruned), or kept because the row could not be written.
ResealOne(t) ==
    /\ pc[t] = "reseal" /\ keyOk
    /\ \E e \in mine[t] :
          /\ mine' = [mine EXCEPT ![t] = @ \ {e}]
          /\ \/ /\ rows' = [rows EXCEPT ![e.key] = fill_or_insert(@, e.body)]
                /\ UNCHANGED waiting
             \/ /\ "fill" \in Faults
                /\ waiting' = [waiting EXCEPT ![t] = @ \cup {e}]
                /\ UNCHANGED rows
    /\ UNCHANGED <<held, keyOk, keyWait, mode, emitVars, replayVars,
                   hostVars, boundVars, histVars>>

\* Mutant of PutBack: what was not reached when a seal failed is dropped.
PutBack_losesRest(t) ==
    /\ pc[t] = "reseal"
    /\ ~keyOk \/ mine[t] = {}
    /\ held' = held \cup waiting[t]
    /\ mine' = [mine EXCEPT ![t] = {}]
    /\ waiting' = [waiting EXCEPT ![t] = {}]
    /\ Goto(t, AfterReseal(t))
    /\ UNCHANGED <<rows, keyOk, keyWait, mode, replayVars,
                   hostVars, boundVars, histVars>>

\* A seal fails: the rest waits.  Or nothing is left.  What waits goes back
\* under the lock.
PutBack(t) ==
    /\ pc[t] = "reseal"
    /\ ~keyOk \/ mine[t] = {}
    /\ held' = held \cup waiting[t] \cup mine[t]
    /\ mine' = [mine EXCEPT ![t] = {}]
    /\ waiting' = [waiting EXCEPT ![t] = {}]
    /\ Goto(t, AfterReseal(t))
    /\ UNCHANGED <<rows, keyOk, keyWait, mode, replayVars,
                   hostVars, boundVars, histVars>>
-----------------------------------------------------------------------------
(* emit_event, run by an emitter.                                          *)

\* The event is handed over and its payload sealed, or not.  The same event
\* may be handed over again (a rebuilt occurrence), but not once retention
\* has removed its row.
EmitBegin(t) ==
    /\ pc[t] = "idle"
    /\ \E e \in Event :
          /\ emits[e.key] < MaxEmits /\ e.key \notin pruned
          /\ emits' = [emits EXCEPT ![e.key] = @ + 1]
          /\ job' = [job EXCEPT ![t] = e]
    /\ sealOk' = [sealOk EXCEPT ![t] = keyOk]
    /\ pc' = [pc EXCEPT ![t] = IF keyOk THEN "take" ELSE "insert"]
    /\ UNCHANGED <<rowVars, mode, mine, waiting, replayVars, hostVars,
                   crashes, redrives, histVars>>

\* Where an event that is in the outbox goes: on to the host, or held there
\* for a host that can acknowledge.
Stored == IF mode = "RequireAck" THEN "idle" ELSE "send"

\* Mutant of Live: a host that cannot acknowledge gets the event all the same.
Live_anyHost(step) == step

\* Where an event with no payload at rest goes: to the host once, or nowhere.
Live(step) == IF mode = "RequireAck" THEN "idle" ELSE step

\* INSERT OR IGNORE.  An error anywhere in insert_pending, the counter of
\* quarantined events included, leaves the event to a live write.
Insert(t) ==
    /\ pc[t] = "insert"
    /\ LET e == job[t] r == rows[job[t].key] IN
       \/ /\ ~Exists(r) /\ sealOk[t]
          /\ rows' = [rows EXCEPT ![e.key] = FreshRow(e.body)]
          /\ Goto(t, Stored)
       \/ /\ ~Exists(r) /\ ~sealOk[t]
          /\ rows' = [rows EXCEPT ![e.key] = QuarantineRow(e.body)]
          /\ Goto(t, "hold") \/ ("db" \in Faults /\ Goto(t, Live("sendLive")))
       \/ /\ Exists(r)
          /\ Goto(t, "compare")
          /\ UNCHANGED rows
       \/ /\ "db" \in Faults
          /\ Goto(t, Live("sendLive"))
          /\ UNCHANGED rows
    /\ UNCHANGED <<held, keyOk, keyWait, mode, mine, waiting,
                   replayVars, hostVars, boundVars, histVars>>

\* Mutant of Compare: the fingerprints are not compared.
Compare_keyOnly(t) ==
    /\ pc[t] = "compare"
    /\ LET r == rows[job[t].key] IN
       Goto(t, IF ~Exists(r) \/ r.payload # "marker" THEN Stored
               ELSE IF sealOk[t] THEN "fill" ELSE "hold")
    /\ UNCHANGED <<rowVars, mode, mine, waiting, replayVars,
                   hostVars, boundVars, histVars>>

\* The row that was already there: the same content, its own quarantine row,
\* or another occurrence's content (refused).
Compare(t) ==
    /\ pc[t] = "compare"
    /\ LET e == job[t] r == rows[job[t].key] IN
       \/ Goto(t, CASE ~Exists(r) -> Stored
                    [] Exists(r) /\ r.body # e.body -> "idle"
                    [] Exists(r) /\ r.body = e.body /\ r.payload # "marker" -> Stored
                    [] Exists(r) /\ r.body = e.body /\ r.payload = "marker" ->
                          IF sealOk[t] THEN "fill" ELSE "hold")
       \/ "db" \in Faults /\ Goto(t, Live("sendLive"))
    /\ UNCHANGED <<rowVars, mode, mine, waiting, replayVars,
                   hostVars, boundVars, histVars>>

\* The same event over its own quarantine row, sealed this time.
Fill(t) ==
    /\ pc[t] = "fill"
    /\ LET e == job[t] r == rows[job[t].key] IN
       \/ /\ Quarantined(r)
          /\ rows' = [rows EXCEPT ![e.key] = fill_quarantined(@)]
          /\ held' = {h \in held : h.key # e.key}
          /\ Goto(t, Stored)
       \/ /\ ~Quarantined(r)
          /\ Goto(t, "hold")
          /\ UNCHANGED <<rows, held>>
       \/ /\ "fill" \in Faults
          /\ Goto(t, Live("sendLive"))
          /\ UNCHANGED <<rows, held>>
    /\ UNCHANGED <<keyOk, keyWait, mode, mine, waiting,
                   replayVars, hostVars, boundVars, histVars>>

\* hold_for_seal: the event replaces its own slot, or takes one if there is
\* room; past MAX_HELD_SEALS it stays quarantined.
Hold(t) ==
    /\ pc[t] = "hold"
    /\ LET e == job[t] IN
       IF e.key \in KeysOf(held) \/ Cardinality(held) < MAX_HELD_SEALS
       THEN /\ held' = {h \in held : h.key # e.key} \cup {e}
            /\ everHeld' = everHeld \cup {e.key}
       ELSE UNCHANGED <<held, everHeld>>
    /\ Goto(t, Live("sendOnce"))
    /\ UNCHANGED <<rows, keyOk, keyWait, mode, mine, waiting,
                   replayVars, hostVars, boundVars, pruned, legacySent>>

\* The write to the host.  Only an outboxed event is booked afterwards.
Send(t) ==
    /\ pc[t] \in {"send", "sendLive", "sendOnce"}
    /\ \/ /\ wire' = wire \cup {job[t]}
          /\ Goto(t, IF pc[t] = "send" THEN "bookOk" ELSE "idle")
       \/ /\ "send" \in Faults
          /\ Goto(t, IF pc[t] = "send" THEN "bookFail" ELSE "idle")
          /\ UNCHANGED wire
    /\ UNCHANGED <<rowVars, mode, mine, waiting, replayVars,
                   acks, journal, boundVars, histVars>>

\* Mutant of Booked: a write means sent, whatever the mode.
Booked_writeMeansSent(t, r) ==
    IF pc[t] = "bookFail" THEN mark_failed(r) ELSE mark_sent(r)

\* What emit_event records of its write, by mode.
Booked(t, r) ==
    IF pc[t] = "bookFail" THEN mark_failed(r)
    ELSE IF mode = "Legacy" THEN mark_sent(r) ELSE mark_emitted(r)

\* The bookkeeping statement after the write; its own failure is ignored.
Book(t) ==
    /\ pc[t] \in {"bookOk", "bookFail"}
    /\ LET k == job[t].key IN
       \/ /\ rows' = [rows EXCEPT ![k] = Booked(t, @)]
          /\ legacySent' = IF pc[t] = "bookOk" /\ mode = "Legacy" /\ Retryable(rows[k])
                           THEN legacySent \cup {k} ELSE legacySent
       \/ /\ "db" \in Faults
          /\ UNCHANGED <<rows, legacySent>>
    /\ Goto(t, "idle")
    /\ UNCHANGED <<held, keyOk, keyWait, mode, mine, waiting,
                   replayVars, hostVars, boundVars, pruned, everHeld>>
-----------------------------------------------------------------------------
(* The replay thread (spawn_replay_thread, replay_once).                   *)

\* A pass begins: due_for_retry reads.
ReplayBegin ==
    /\ mode = "AckExpected" /\ pc["replay"] = "idle"
    /\ pc' = [pc EXCEPT !["replay"] = "query"]
    /\ UNCHANGED <<rowVars, mode, job, sealOk, mine, waiting, replayVars,
                   hostVars, boundVars, histVars>>

\* A pass that asks first for the seal of what is held: once RESEAL_EVERY has
\* passed since the last, and not while the key is known to be away.
ReplayBeginReseal ==
    /\ mode = "AckExpected" /\ pc["replay"] = "idle" /\ ~keyWait
    /\ pc' = [pc EXCEPT !["replay"] = "take"]
    /\ UNCHANGED <<rowVars, mode, job, sealOk, mine, waiting, replayVars,
                   hostVars, boundVars, histVars>>

\* The rows due, as read by the SELECT.
DueRows ==
    {[key |-> k, body |-> rows[k].body, attempts |-> rows[k].attempts,
      opened |-> rows[k].payload = "sealed"] : k \in {j \in Keys : DueForRetry(rows[j])}}

\* due_for_retry: nothing is opened during the pause for the key.
ReplayQuery ==
    /\ pc["replay"] = "query"
    /\ raw' = IF keyWait THEN {} ELSE DueRows
    /\ pc' = [pc EXCEPT !["replay"] = "open"]
    /\ UNCHANGED <<rowVars, mode, job, sealOk, mine, waiting, batch, cur,
                   hostVars, boundVars, histVars>>

\* open_payloads, one row: it opens, or unprotect_payload fails on it because
\* the row is damaged or the key is away.
ReplayOpen ==
    /\ pc["replay"] = "open"
    /\ \E e \in raw :
          /\ raw' = raw \ {e}
          /\ \/ /\ keyOk /\ e.opened
                /\ batch' = batch \cup {e}
                /\ UNCHANGED <<pc, cur>>
             \/ /\ ~(keyOk /\ e.opened)
                /\ cur' = e
                /\ pc' = [pc EXCEPT !["replay"] = "unopened"]
                /\ UNCHANGED batch
    /\ UNCHANGED <<rowVars, mode, job, sealOk, mine, waiting,
                   hostVars, boundVars, histVars>>

\* sealing_key_unavailable, asked afterwards, tells the two apart: no key, and
\* the rest waits; a key, and the row is a typed dead letter.
ReplayUnopened ==
    /\ pc["replay"] = "unopened"
    /\ \/ /\ ~keyOk
          /\ raw' = {} /\ keyWait' = TRUE
          /\ UNCHANGED rows
       \/ /\ keyOk
          /\ \/ rows' = [rows EXCEPT ![cur.key] = mark_dead_typed(@)]
             \/ "db" \in Faults /\ UNCHANGED rows
          /\ UNCHANGED <<raw, keyWait>>
    /\ cur' = NoRead
    /\ pc' = [pc EXCEPT !["replay"] = "open"]
    /\ UNCHANGED <<held, keyOk, mode, job, sealOk, mine, waiting, batch,
                   hostVars, boundVars, histVars>>

\* What opened is emitted.
ReplayOpened ==
    /\ pc["replay"] = "open" /\ raw = {}
    /\ pc' = [pc EXCEPT !["replay"] = "replay"]
    /\ UNCHANGED <<rowVars, mode, job, sealOk, mine, waiting, replayVars,
                   hostVars, boundVars, histVars>>

\* Mutant of ReplaySend: the row whose write is to be booked is not noted.
ReplaySend_noCur ==
    /\ pc["replay"] = "replay"
    /\ \E e \in batch :
          /\ batch' = batch \ {e}
          /\ wire' = wire \cup {[key |-> e.key, body |-> e.body]}
          /\ pc' = [pc EXCEPT !["replay"] = "bookOk"]
    /\ UNCHANGED <<rowVars, mode, job, sealOk, mine, waiting, raw, cur, acks, journal,
                   boundVars, histVars>>

\* One row of the batch is written to the host again, under its own key.
ReplaySend ==
    /\ pc["replay"] = "replay"
    /\ \E e \in batch :
          /\ batch' = batch \ {e}
          /\ cur' = e
          /\ \/ /\ wire' = wire \cup {[key |-> e.key, body |-> e.body]}
                /\ pc' = [pc EXCEPT !["replay"] = "bookOk"]
             \/ /\ "send" \in Faults
                /\ pc' = [pc EXCEPT !["replay"] = "bookFail"]
                /\ UNCHANGED wire
    /\ UNCHANGED <<rowVars, mode, job, sealOk, mine, waiting, raw, acks, journal,
                   boundVars, histVars>>

\* Its bookkeeping, conditional on the attempt generation that was read.
ReplayBook ==
    /\ pc["replay"] \in {"bookOk", "bookFail"}
    /\ \/ rows' = [rows EXCEPT ![cur.key] =
                     IF ~GenerationHolds(@, cur.attempts) THEN @
                     ELSE IF pc["replay"] = "bookOk" THEN mark_emitted(@) ELSE mark_failed(@)]
       \/ "db" \in Faults /\ UNCHANGED rows
    /\ cur' = NoRead
    /\ pc' = [pc EXCEPT !["replay"] = "replay"]
    /\ UNCHANGED <<held, keyOk, keyWait, mode, job, sealOk, mine, waiting,
                   raw, batch, hostVars, boundVars, histVars>>

\* The pass is over.
ReplayEnd ==
    /\ pc["replay"] = "replay" /\ batch = {}
    /\ pc' = [pc EXCEPT !["replay"] = "idle"]
    /\ UNCHANGED <<rowVars, mode, job, sealOk, mine, waiting, replayVars,
                   hostVars, boundVars, histVars>>

\* Mutant of Prune: retention counts from the last update of any row.
Prune_anyStatus ==
    /\ mode = "AckExpected" /\ pc["replay"] = "idle"
    /\ \E k \in Keys :
          /\ Exists(rows[k])
          /\ \A t \in Emitters : pc[t] # "idle" => job[t].key # k
          /\ rows' = [rows EXCEPT ![k] = NoRow]
          /\ pruned' = pruned \cup {k}
    /\ UNCHANGED <<held, keyOk, keyWait, mode, emitVars, mine, waiting,
                   replayVars, hostVars, boundVars, legacySent, everHeld>>

\* prune_sent and prune_dead, between passes: a row past its retention goes.
\* A row days past its last update is not one an emitter is working on.
Prune ==
    /\ mode = "AckExpected" /\ pc["replay"] = "idle"
    /\ \E k \in Keys :
          /\ rows[k].status \in {"sent", "dead"}
          /\ \A t \in Emitters : pc[t] # "idle" => job[t].key # k
          /\ rows' = [rows EXCEPT ![k] = NoRow]
          /\ pruned' = pruned \cup {k}
    /\ UNCHANGED <<held, keyOk, keyWait, mode, emitVars, mine, waiting,
                   replayVars, hostVars, boundVars, legacySent, everHeld>>
-----------------------------------------------------------------------------
(* The main thread between emissions.                                      *)

\* event.ack, on a session that negotiated it.
HandleAck ==
    /\ pc["main"] = "idle" /\ mode = "AckExpected"
    /\ \E k \in acks :
          /\ acks' = acks \ {k}
          /\ \/ rows' = [rows EXCEPT ![k] = mark_sent(@)]
             \/ "db" \in Faults /\ UNCHANGED rows
    /\ UNCHANGED <<held, keyOk, keyWait, mode, emitVars, mine, waiting,
                   replayVars, wire, journal, boundVars, histVars>>

\* outbox.redrive of one key, or of all of them.  Without the key nothing
\* opens, and so nothing is revived.
Redrive ==
    /\ pc["main"] = "idle" /\ redrives < MaxRedrives
    /\ keyOk
    /\ \E K \in {{k} : k \in Keys} \cup {Keys} :
          rows' = [k \in Keys |-> IF k \in K THEN redrive_dead(rows[k]) ELSE rows[k]]
    /\ redrives' = redrives + 1
    /\ UNCHANGED <<held, keyOk, keyWait, mode, emitVars, mine, waiting,
                   replayVars, hostVars, emits, crashes, histVars>>
-----------------------------------------------------------------------------
(* The host (external): it journals a key once, durably, and then          *)
(* acknowledges it if the session has acknowledgements.                    *)

Journaled(j, lines) ==
    [k \in Keys |-> IF j[k] = NoBody /\ \E m \in lines : m.key = k
                    THEN (CHOOSE m \in lines : m.key = k).body ELSE j[k]]

HostReceive ==
    \E m \in wire :
       /\ wire' = wire \ {m}
       /\ journal' = Journaled(journal, {m})
       /\ acks' = IF mode = "AckExpected" THEN acks \cup {m.key} ELSE acks
       /\ UNCHANGED <<rowVars, mode, emitVars, mine, waiting, replayVars,
                      boundVars, histVars>>
-----------------------------------------------------------------------------
(* Time, the sealing key, and the death of the process.                    *)

BackoffElapsed ==
    /\ \E k \in Keys :
          /\ Retryable(rows[k]) /\ ~rows[k].due
          /\ rows[k].aged \/ rows[k].attempts < AttemptCap
          /\ rows' = [rows EXCEPT ![k].due = TRUE]
    /\ UNCHANGED <<held, keyOk, keyWait, mode, emitVars, mine, waiting,
                   replayVars, hostVars, boundVars, histVars>>

RetryWindowElapsed ==
    /\ \E k \in Keys :
          /\ Retryable(rows[k]) /\ ~rows[k].aged
          /\ rows' = [rows EXCEPT ![k].aged = TRUE]
    /\ UNCHANGED <<held, keyOk, keyWait, mode, emitVars, mine, waiting,
                   replayVars, hostVars, boundVars, histVars>>

KeyGoesAway ==
    /\ "key" \in Faults /\ keyOk
    /\ keyOk' = FALSE
    /\ UNCHANGED <<rows, held, keyWait, mode, emitVars, mine, waiting,
                   replayVars, hostVars, boundVars, histVars>>

KeyComesBack ==
    /\ ~keyOk
    /\ keyOk' = TRUE
    /\ UNCHANGED <<rows, held, keyWait, mode, emitVars, mine, waiting,
                   replayVars, hostVars, boundVars, histVars>>

\* The growing pause before the replay connection asks for the key again.
KeyPauseOver ==
    /\ keyWait
    /\ keyWait' = FALSE
    /\ UNCHANGED <<rows, held, keyOk, mode, emitVars, mine, waiting,
                   replayVars, hostVars, boundVars, histVars>>

\* A stored payload is damaged, or the key that sealed it was replaced.
PayloadDamaged ==
    /\ "payload" \in Faults
    /\ \E k \in Keys :
          /\ Retryable(rows[k]) \/ rows[k].status = "dead"
          /\ rows[k].payload = "sealed"
          /\ rows' = [rows EXCEPT ![k].payload = "unreadable"]
    /\ UNCHANGED <<held, keyOk, keyWait, mode, emitVars, mine, waiting,
                   replayVars, hostVars, boundVars, histVars>>

\* The plugin is killed and started again.  The file survives; its memory
\* does not.  The host may have read any of the lines already written.
Crash ==
    /\ crashes < MaxCrashes
    /\ crashes' = crashes + 1
    /\ mode' \in Modes
    /\ pc' = [t \in Threads |-> "idle"]
    /\ job' = [t \in Threads |-> NoRead]
    /\ sealOk' = [t \in Threads |-> FALSE]
    /\ mine' = [t \in Threads |-> {}]
    /\ waiting' = [t \in Threads |-> {}]
    /\ raw' = {} /\ batch' = {} /\ cur' = NoRead
    /\ held' = {} /\ everHeld' = {} /\ keyWait' = FALSE
    /\ wire' = {} /\ acks' = {}
    /\ \E lines \in SUBSET wire : journal' = Journaled(journal, lines)
    /\ UNCHANGED <<rows, keyOk, emits, redrives, pruned, legacySent>>
-----------------------------------------------------------------------------
Emit(t) == EmitBegin(t) \/ Insert(t) \/ Compare(t) \/ Fill(t) \/ Hold(t) \/ Send(t) \/ Book(t)
Reseal(t) == TakeHeld(t) \/ ResealOne(t) \/ PutBack(t)
Replay ==
    \/ ReplayBegin \/ ReplayBeginReseal \/ ReplayQuery
    \/ ReplayOpen \/ ReplayUnopened \/ ReplayOpened \/ ReplaySend \/ ReplayBook \/ ReplayEnd
Time == BackoffElapsed \/ RetryWindowElapsed \/ KeyPauseOver
Environment == KeyGoesAway \/ KeyComesBack \/ PayloadDamaged \/ Crash

Next ==
    \/ \E t \in Emitters : Emit(t)
    \/ \E t \in Threads : Reseal(t)
    \/ Replay \/ Prune \/ HandleAck \/ Redrive \/ HostReceive
    \/ Time \/ Environment

Spec == Init /\ [][Next]_vars

\* The code's scheduling: the replay thread wakes every second and a pass runs
\* to its end, one pass in RESEAL_EVERY seconds asks for the seal of what is
\* held, the main thread reads every line it is sent, an emitter runs on, the
\* host reads its pipe, and time passes.  Nothing is assumed of Prune, Redrive
\* or the faults, except that a sealing key that went away is given again.
Fairness ==
    /\ WF_vars(Replay) /\ SF_vars(ReplayBeginReseal)
    /\ WF_vars(HandleAck) /\ WF_vars(HostReceive)
    /\ \A t \in Threads : WF_vars(Reseal(t))
    /\ \A t \in Emitters : WF_vars(Emit(t))
    /\ WF_vars(BackoffElapsed) /\ WF_vars(RetryWindowElapsed)
    /\ WF_vars(KeyPauseOver) /\ WF_vars(KeyComesBack)

FairSpec == Spec /\ Fairness
-----------------------------------------------------------------------------
RowsOK ==
    /\ rows \in [Keys -> Row]
    /\ held \subseteq Event
    /\ keyOk \in BOOLEAN /\ keyWait \in BOOLEAN

ThreadsOK ==
    /\ mode \in Modes
    /\ pc \in [Threads -> {"idle", "take", "reseal", "insert", "compare", "fill", "hold",
                           "send", "sendLive", "sendOnce", "bookOk", "bookFail",
                           "query", "open", "unopened", "replay"}]
    /\ job \in [Threads -> Event \cup {NoRead}]
    /\ \A t \in Emitters : pc[t] # "idle" => job[t] \in Event
    /\ sealOk \in [Threads -> BOOLEAN]
    /\ mine \in [Threads -> SUBSET Event] /\ waiting \in [Threads -> SUBSET Event]

ReplayOK ==
    /\ raw \subseteq Read /\ batch \subseteq Read
    /\ cur \in Read \cup {NoRead}
    /\ pc["replay"] \in {"unopened", "bookOk", "bookFail"} => cur \in Read

HostOK ==
    /\ wire \subseteq Event /\ acks \subseteq Keys
    /\ journal \in [Keys -> Bodies \cup {NoBody}]

CountersOK ==
    /\ emits \in [Keys -> Nat] /\ crashes \in Nat /\ redrives \in Nat
    /\ pruned \subseteq Keys /\ legacySent \subseteq Keys /\ everHeld \subseteq Keys

\* The type invariant: the table, the threads' locals, the replay thread's
\* batch, the host's side and the counters.
TypeOK == RowsOK /\ ThreadsOK /\ ReplayOK /\ HostOK /\ CountersOK

\* A row says sent only when the host has the event in its durable journal, or
\* a Legacy write said so by the operator's choice (mark_sent is reached by
\* event.ack and by the Legacy branch of emit_event, and by nothing else).
SentIsJournaled ==
    \A k \in Keys : rows[k].status = "sent" => journal[k] # NoBody \/ k \in legacySent

\* The content the host has under a key is the content the outbox stored
\* under it: a colliding occurrence is refused before it is written
\* (InsertOutcome::PayloadCollision), whatever replays around it.
HostHasStoredBody ==
    \A k \in Keys : Exists(rows[k]) /\ journal[k] # NoBody => journal[k] = rows[k].body

\* An event this process put in HELD_SEALS is still on its way to a seal for
\* as long as its row is a quarantine marker: in HELD_SEALS, or in the hands
\* of a thread that took it out (reseal_held) and will fill it or put it back.
HeldUntilFilled ==
    \A k \in everHeld : Quarantined(rows[k]) =>
        \/ k \in KeysOf(held)
        \/ \E t \in Threads : k \in KeysOf(mine[t] \cup waiting[t])

\* A row is never dragged out of sent by late bookkeeping: it stays sent until
\* retention removes it.
SentIsTerminal ==
    [][\A k \in Keys : rows[k].status = "sent" => rows'[k].status \in {"sent", "none"}]_vars

\* An accepted event becomes a dead letter only after MAX_ATTEMPTS emissions
\* over the whole retry window, or because its payload no longer opens: a
\* burst of failures alone never buries it (mark_failed, mark_emitted).
BuriedForCause ==
    [][\A k \in Keys : Retryable(rows[k]) /\ rows'[k].status = "dead" =>
          \/ rows[k].aged /\ rows'[k].attempts >= MAX_ATTEMPTS
          \/ rows[k].payload = "unreadable"]_vars

\* A host that cannot acknowledge is sent no essential event, not even live
\* when the outbox could not take or seal it (EmitMode::RequireAck).
NothingSentUnacknowledged ==
    [][mode = "RequireAck" => wire' \subseteq wire]_vars

\* Durable delivery as the rest of the system relies on it.
LedgerState ==
    [k \in Keys |->
        IF journal[k] # NoBody THEN "delivered"
        ELSE CASE rows[k].status = "none" -> "unknown"
               [] rows[k].status \in {"pending", "failed"} -> "owed"
               [] rows[k].status = "dead" -> "buried"
               [] rows[k].status = "sent" -> "assumed"]

Ledger == INSTANCE EventLedger WITH AllowLegacy <- "Legacy" \in Modes, state <- LedgerState
LedgerSpec == Ledger!Spec

\* Every accepted event is settled: the replay thread re-emits it until it is
\* acknowledged or becomes a dead letter, unless the sealing key keeps going
\* away for ever.
AcceptedIsSettled ==
    <>[]keyOk => \A k \in Keys : Retryable(rows[k]) ~> ~Retryable(rows[k])

\* An event held for a seal is filled in once the key stays, or the process
\* died with it.
HeldIsFilled ==
    <>[]keyOk => \A k \in Keys :
        (k \in everHeld /\ Quarantined(rows[k])) ~> (k \notin everHeld \/ ~Quarantined(rows[k]))
=============================================================================
