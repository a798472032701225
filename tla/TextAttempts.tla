---------------------------- MODULE TextAttempts ----------------------------
(***************************************************************************)
(* What the ledger's operations are about: the copies that the phone has   *)
(* of a text and the attempt it was handed over under.  The phone is       *)
(* external: it files a copy of a text it takes in its outbox folder and   *)
(* moves it to the sent folder in its own time.                            *)
(***************************************************************************)
EXTENDS TextLedger

CONSTANT NoRequest    \* no attempt

ASSUME AttemptConstants == NoRequest \notin Requests /\ TEXT_ANSWERS_KEPT \in Nat \ {0}

VARIABLES
    phone,        \* its copies of each text
    tookOf,       \* the attempts of which it took a copy
    flight,       \* texts_in_flight: text |-> attempt
    slips         \* history: the windows a text fell through

Slots == {"none", "outbox", "sent"}

\* now is the copy it took of the text's hand-over at hand (the latest, when
\* it took two), then one of an earlier hand-over; listed says that the
\* snapshot of the sent folder holds that earlier one.
Handed(p) ==
    [p EXCEPT !.then = IF p.now # "none" THEN p.now ELSE @, !.now = "none", !.listed = FALSE]

TakesCopy(p) == [p EXCEPT !.n = @ + 1, !.now = "outbox"]

\* What a listing shows of the text: sent_before tells an earlier copy from a
\* new one, without it their dates may or may not.
Found(op) ==
    LET p == phone[op.id]
        folder == IF op.k = "look_sent" THEN "sent" ELSE "outbox"
    IN  IF p.now = folder THEN {TRUE}
        ELSE IF p.then # folder THEN {FALSE}
        ELSE IF op.k = "look_sent" /\ op.before = "taken" THEN {~p.listed}
        ELSE BOOLEAN

Slip(ts, why) == [id : ts, why : {why}]
Slipped(t, whys) == \E s \in slips : s.id = t /\ s.why \in whys

--------------------------------------------------------------------------
(* The record of a run keeps its texts                                     *)

\* A queue has an entry of the text t; its entries are of different texts.
In(q, t) == \E x \in Range(q) : x.id = t
Sole(q) == \A i, j \in DOMAIN q : q[i].id = q[j].id => i = j

\* At most one; at most one a text; the texts the runtime still has to answer
\* or whose answer is not yet read.
Single(S) == \A x, y \in S : x = y
SoleIn(S) == \A x, y \in S : x.id = y.id => x = y
Held(s) == {t \in Texts : IsOpen(s, t) \/ In(s.said, t)}

\* The phone took a copy of the attempt, and no look has missed it.
Astray(r, t) == r \in tookOf /\ ~Slipped(t, {"moved"})

\* What is known of a text o whose operation op waits: when the phone has a
\* copy of it, op is a look, the copy is in a folder the look has still to
\* list.
Cold(op, o) ==
    Astray(o.r, o.id) =>
        /\ op.k \in {"look_sent", "look_outbox"}
        /\ phone[o.id].now # "none"
        /\ op.k = "look_outbox" => phone[o.id].now = "outbox"

\* The same while op is in flight, by the state of its PUT.
Hot(op, put, o) ==
    /\ put = "none" => Cold(op, o)
    /\ put # "none" => op.k = "send" /\ o.out
    /\ put = "taken" => phone[o.id].now # "none"
    /\ put \in {"out", "refused", "erred"} => ~Astray(o.r, o.id)

\* The operations of a run; Q is the rest of a queue that is being gone
\* through.
Carriers(s, Q) == Range(s.ops) \cup s.active \cup Q

\* Every operation is of an open text, and no two are of one text.
Carrying(s, Q) ==
    /\ SoleIn(s.open) /\ SoleIn(Q) /\ Sole(s.ops) /\ Single(s.active)
    /\ \A op \in Q : ~In(s.ops, op.id) /\ \A p \in s.active : p.id # op.id
    /\ \A op \in s.active : ~In(s.ops, op.id)
    /\ \A op \in Carriers(s, Q) : IsOpen(s, op.id)
    /\ s.active = {} => s.put = "none"

\* Every open text is the attempt in flight, is marked out when the phone has a
\* copy, and its operation is one that will look for it.
Phases(s, Q) ==
    \A o \in s.open :
        /\ Astray(o.r, o.id) => o.out
        /\ flight[o.id] = o.r
        /\ \A op \in Range(s.ops) \cup Q : op.id = o.id => Cold(op, o)
        /\ \A op \in s.active : op.id = o.id => Hot(op, s.put, o)

\* The answer a of the attempt r says what became of it.
Honest(t, a, r) ==
    /\ a = "sent" => phone[t].n > 0
    /\ a = "failed" => ~Astray(r, t)

\* The answers not yet read are true, one a text, and of no open text.
Spoken(s) ==
    /\ Sole(s.said)
    /\ \A x \in Range(s.said) :
          ~IsOpen(s, x.id) /\ flight[x.id] # NoRequest /\ Honest(x.id, x.a, flight[x.id])
    /\ \A x \in Range(s.answered) : x.a = "sent" => phone[x.id].n > 0

\* The invariant of a run (TextLedger and its operations).
Ledger(s, Q) ==
    /\ s \in Runs /\ Q \subseteq Ops
    /\ Carrying(s, Q) /\ Phases(s, Q) /\ Spoken(s)

\* SmsSent and SmsSendFailed.
Words == [id : Texts, a : Answers]
=============================================================================
