------------------------------- MODULE Outbox -------------------------------
(***************************************************************************)
(* The rows of the event outbox and the SQL statements that move them      *)
(* (crates/aokie-plugin/src/outbox.rs).  Every operator below is one       *)
(* autocommitted statement of the code: a function from the row a key has  *)
(* to the row it has afterwards.  The threads that run the statements are  *)
(* in EventBridge.                                                         *)
(*                                                                         *)
(* A row keeps what the statements test: its status, its attempt count,    *)
(* the fingerprint of its content (body), what its stored payload is, and  *)
(* two clock readings reduced to the comparison the SQL makes with them:   *)
(* whether next_attempt_at is unset or past (due), and whether created_at  *)
(* is older than RETRY_WINDOW_SECS (aged).                                 *)
(***************************************************************************)
EXTENDS Naturals

CONSTANTS
    Bodies,         \* payload fingerprints
    NoBody,         \* no content: the fingerprint of a key without a row
    MAX_ATTEMPTS    \* unacknowledged emissions before a row may go dead

ASSUME OutboxConstants == NoBody \notin Bodies /\ MAX_ATTEMPTS \in Nat \ {0}

Statuses == {"pending", "failed", "sent", "dead"}

\* What payload_json holds: a sealed payload, one the key no longer opens,
\* or the quarantine marker (nothing).
Payloads == {"sealed", "unreadable", "marker"}

StoredRow == [status : Statuses, attempts : Nat, body : Bodies,
              payload : Payloads, due : BOOLEAN, aged : BOOLEAN]

\* A key without a row.
NoRow == [status |-> "none", attempts |-> 0, body |-> NoBody,
          payload |-> "marker", due |-> FALSE, aged |-> FALSE]

Row == StoredRow \cup {NoRow}

Exists(r) == r.status # "none"
Retryable(r) == r.status \in {"pending", "failed"}
Quarantined(r) == r.status = "dead" /\ r.payload = "marker"

\* INSERT of a sealed event: pending, due at once.
FreshRow(b) ==
    [status |-> "pending", attempts |-> 0, body |-> b,
     payload |-> "sealed", due |-> TRUE, aged |-> FALSE]

\* INSERT of an event whose payload could not be sealed: a typed dead row
\* with its fingerprint and no payload.
QuarantineRow(b) ==
    [status |-> "dead", attempts |-> 0, body |-> b,
     payload |-> "marker", due |-> TRUE, aged |-> FALSE]

\* fill_quarantined: the UPDATE, where its WHERE clause holds.
fill_quarantined(r) ==
    IF Quarantined(r)
    THEN [r EXCEPT !.payload = "sealed", !.status = "pending",
                   !.attempts = 0, !.due = TRUE]
    ELSE r

\* The INSERT OR IGNORE reseal_held falls back on when its row was pruned.
fill_or_insert(r, b) ==
    IF Exists(r) THEN fill_quarantined(r) ELSE FreshRow(b)

\* mark_sent: only pending and failed rows move.
mark_sent(r) ==
    IF Retryable(r) THEN [r EXCEPT !.status = "sent"] ELSE r

\* Mutant of OutOfRetries: the retry window is forgotten.
OutOfRetries_noWindow(r) == r.attempts + 1 >= MAX_ATTEMPTS

\* Whether one more unacknowledged emission makes the row dead.
OutOfRetries(r) == r.attempts + 1 >= MAX_ATTEMPTS /\ r.aged

\* Mutant of CountAttempt: no status in the WHERE clause.
CountAttempt_anyStatus(r, unspent) ==
    IF Exists(r)
    THEN [r EXCEPT !.attempts = @ + 1, !.due = FALSE,
                   !.status = IF OutOfRetries(r) THEN "dead" ELSE unspent]
    ELSE r

\* The UPDATE that mark_failed and mark_emitted share; unspent is the status
\* of a row with retries left.  The caller's generation, when it has one, is
\* tested before (GenerationHolds).
CountAttempt(r, unspent) ==
    IF Retryable(r)
    THEN [r EXCEPT !.attempts = @ + 1, !.due = FALSE,
                   !.status = IF OutOfRetries(r) THEN "dead" ELSE unspent]
    ELSE r

mark_failed(r) == CountAttempt(r, "failed")
mark_emitted(r) == CountAttempt(r, "pending")

\* expected_attempts = Some(g): the attempt count the caller read.
GenerationHolds(r, g) == r.attempts = g

\* mark_dead_typed: a payload that does not open while sealing works.
mark_dead_typed(r) ==
    IF Retryable(r) THEN [r EXCEPT !.status = "dead"] ELSE r

\* redrive_dead: an operator revives a dead row whose payload opens.  Its
\* created_at is kept, so an old row gets MAX_ATTEMPTS more and no more days.
redrive_dead(r) ==
    IF r.status = "dead" /\ r.payload = "sealed"
    THEN [r EXCEPT !.status = "pending", !.attempts = 0, !.due = TRUE]
    ELSE r

\* Mutant of DueForRetry: failed rows are not selected.
DueForRetry_pendingOnly(r) == r.status = "pending" /\ r.due

\* The rows due_for_retry selects.
DueForRetry(r) == Retryable(r) /\ r.due
=============================================================================
