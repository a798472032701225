----------------------------- MODULE SealingKey -----------------------------
(***************************************************************************)
(* The data key every stored secret is sealed under (aokie-core,           *)
(* keychain_seal.rs): one cell per process, which asks the user's Keychain *)
(* or Secret Service for the key on a thread of its own, and the threads   *)
(* that seal and open, which wait for the answer only so long.             *)
(*                                                                         *)
(* Clocks are reduced to two facts of a cell: whether KEY_WAIT has passed  *)
(* since the store was asked (overdue) and whether the backoff after a     *)
(* refusal is over (retryDue).                                             *)
(***************************************************************************)
EXTENDS Naturals, FiniteSets

CONSTANTS
    Procs,        \* processes of one user
    Callers,      \* threads of a process that seal or open
    Fetches,      \* bound: the asking threads a process may start
    DataKeys,     \* keys the random generator gives, each once
    NoKey,
    MaxRestarts   \* bound: restarts of a process

ASSUME SealingKeyConstants == NoKey \notin DataKeys /\ MaxRestarts \in Nat

VARIABLES
    cell,         \* per process: its KeyCell
    asker,        \* per process and asking thread: where it is in fetch_data_key
    got,          \* per process and asking thread: the key it read
    caller,       \* per process and thread: "idle", or "waiting" in get
    store,        \* the secret the Keychain holds, or NoKey
    made,         \* keys generated so far
    sealedUnder,  \* history: the keys values at rest were sealed under
    restarts

vars == <<cell, asker, got, caller, store, made, sealedUnder, restarts>>

Unasked == [st |-> "Unasked", key |-> NoKey, overdue |-> FALSE, retryDue |-> FALSE]
Asking == [st |-> "Asking", key |-> NoKey, overdue |-> FALSE, retryDue |-> FALSE]
Failed == [st |-> "Failed", key |-> NoKey, overdue |-> FALSE, retryDue |-> FALSE]
Ready(k) == [st |-> "Ready", key |-> k, overdue |-> FALSE, retryDue |-> FALSE]

Init ==
    /\ cell = [p \in Procs |-> Unasked]
    /\ asker = [p \in Procs |-> [f \in Fetches |-> "unused"]]
    /\ got = [p \in Procs |-> [f \in Fetches |-> NoKey]]
    /\ caller = [p \in Procs |-> [c \in Callers |-> "idle"]]
    /\ store = NoKey /\ made = {} /\ sealedUnder = {} /\ restarts = 0

-----------------------------------------------------------------------------
(* The cell.                                                               *)

\* Mutant of MayAsk: a store that is being asked is asked again.
MayAsk_again(p) ==
    \/ cell[p].st = "Unasked"
    \/ cell[p].st = "Asking"
    \/ cell[p].st = "Failed" /\ cell[p].retryDue

\* begin: the store is asked unless the key is here, it is being asked for,
\* or the last failure is too recent.
MayAsk(p) ==
    \/ cell[p].st = "Unasked"
    \/ cell[p].st = "Failed" /\ cell[p].retryDue

\* Its thread is started.
Begin(p) ==
    /\ MayAsk(p)
    /\ \E f \in Fetches :
          /\ asker[p][f] = "unused"
          /\ asker' = [asker EXCEPT ![p][f] = "read"]
    /\ cell' = [cell EXCEPT ![p] = Asking]

\* Its thread could not be started.
BeginFails(p) ==
    /\ MayAsk(p)
    /\ cell' = [cell EXCEPT ![p] = Failed]

\* ask (prefetch_data_key): the store is asked at start, and not waited on.
Ask(p) ==
    /\ Begin(p) \/ (BeginFails(p) /\ UNCHANGED asker)
    /\ UNCHANGED <<got, caller, store, made, sealedUnder, restarts>>

\* answer: what the asking thread brought replaces the cell's state, and the
\* waiting threads are woken.
Answer(p, f) ==
    /\ \/ asker[p][f] = "found" /\ cell' = [cell EXCEPT ![p] = Ready(got[p][f])]
       \/ asker[p][f] = "refused" /\ cell' = [cell EXCEPT ![p] = Failed]
    /\ asker' = [asker EXCEPT ![p][f] = "done"]
    /\ got' = [got EXCEPT ![p][f] = NoKey]
    /\ UNCHANGED <<caller, store, made, sealedUnder, restarts>>

\* Mutant of Overdue: each caller waits its own KEY_WAIT, counted anew.
Overdue_perCaller(p) == FALSE

\* Whether KEY_WAIT has passed since the store was asked.
Overdue(p) == cell[p].overdue

\* get, one turn of its loop under the lock: the key, a refusal, or the wait.
\* Every key handed out is counted as sealed under: protect uses it so, and
\* unprotect asks for the same key.
Get(p, c) ==
    /\ \/ /\ cell[p].st = "Ready"
          /\ caller' = [caller EXCEPT ![p][c] = "idle"]
          /\ sealedUnder' = sealedUnder \cup {cell[p].key}
          /\ UNCHANGED <<cell, asker>>
       \/ /\ \/ cell[p].st = "Failed" /\ ~cell[p].retryDue
             \/ cell[p].st = "Asking" /\ Overdue(p)
          /\ caller' = [caller EXCEPT ![p][c] = "idle"]
          /\ UNCHANGED <<cell, asker, sealedUnder>>
       \/ /\ Begin(p)
          /\ caller' = [caller EXCEPT ![p][c] = "waiting"]
          /\ UNCHANGED sealedUnder
       \/ /\ BeginFails(p)
          /\ caller' = [caller EXCEPT ![p][c] = "idle"]
          /\ UNCHANGED <<asker, sealedUnder>>
       \/ /\ cell[p].st = "Asking" /\ ~Overdue(p)
          /\ caller' = [caller EXCEPT ![p][c] = "waiting"]
          /\ UNCHANGED <<cell, asker, sealedUnder>>
    /\ UNCHANGED <<got, store, made, restarts>>

-----------------------------------------------------------------------------
(* fetch_data_key, on the asking thread.  The store may refuse any request.*)

\* Mutant of FetchRead: an empty entry is taken for the key.
FetchRead_unchecked(p, f) ==
    /\ asker[p][f] = "read"
    /\ got' = [got EXCEPT ![p][f] = store]
    /\ asker' = [asker EXCEPT ![p][f] = "found"]
    /\ UNCHANGED <<cell, caller, store, made, sealedUnder, restarts>>

\* Mutant of FetchRead: a store that refuses is taken for one without a key.
FetchRead_refusalIsNone(p, f) ==
    /\ asker[p][f] = "read"
    /\ \/ /\ store # NoKey
          /\ got' = [got EXCEPT ![p][f] = store]
          /\ asker' = [asker EXCEPT ![p][f] = "found"]
       \/ /\ asker' = [asker EXCEPT ![p][f] = "make"]
          /\ UNCHANGED got
    /\ UNCHANGED <<cell, caller, store, made, sealedUnder, restarts>>

\* The first read: the key is there, or none is and one is to be made.
FetchRead(p, f) ==
    /\ asker[p][f] = "read"
    /\ \/ /\ store # NoKey
          /\ got' = [got EXCEPT ![p][f] = store]
          /\ asker' = [asker EXCEPT ![p][f] = "found"]
       \/ /\ store = NoKey
          /\ asker' = [asker EXCEPT ![p][f] = "make"]
          /\ UNCHANGED got
       \/ /\ asker' = [asker EXCEPT ![p][f] = "refused"]
          /\ UNCHANGED got
    /\ UNCHANGED <<cell, caller, store, made, sealedUnder, restarts>>

\* set_secret of a fresh key; a store replaces.
FetchMake(p, f) ==
    /\ asker[p][f] = "make"
    /\ \/ /\ \E k \in DataKeys \ made :
                /\ store' = k
                /\ made' = made \cup {k}
          /\ asker' = [asker EXCEPT ![p][f] = "reread"]
       \/ /\ asker' = [asker EXCEPT ![p][f] = "refused"]
          /\ UNCHANGED <<store, made>>
    /\ UNCHANGED <<cell, got, caller, sealedUnder, restarts>>

\* The read back: what the store holds is the key.
FetchReread(p, f) ==
    /\ asker[p][f] = "reread"
    /\ \/ /\ store # NoKey
          /\ got' = [got EXCEPT ![p][f] = store]
          /\ asker' = [asker EXCEPT ![p][f] = "found"]
       \/ /\ asker' = [asker EXCEPT ![p][f] = "refused"]
          /\ UNCHANGED got
    /\ UNCHANGED <<cell, caller, store, made, sealedUnder, restarts>>
-----------------------------------------------------------------------------
(* Time, and a process that ends and is started again.                     *)

WaitElapsed(p) ==
    /\ cell[p].st = "Asking" /\ ~cell[p].overdue
    /\ cell' = [cell EXCEPT ![p].overdue = TRUE]
    /\ UNCHANGED <<asker, got, caller, store, made, sealedUnder, restarts>>

RetryElapsed(p) ==
    /\ cell[p].st = "Failed" /\ ~cell[p].retryDue
    /\ cell' = [cell EXCEPT ![p].retryDue = TRUE]
    /\ UNCHANGED <<asker, got, caller, store, made, sealedUnder, restarts>>

Restart(p) ==
    /\ restarts < MaxRestarts
    /\ restarts' = restarts + 1
    /\ cell' = [cell EXCEPT ![p] = Unasked]
    /\ asker' = [asker EXCEPT ![p] = [f \in Fetches |-> IF @[f] = "unused" THEN @[f] ELSE "done"]]
    /\ got' = [got EXCEPT ![p] = [f \in Fetches |-> NoKey]]
    /\ caller' = [caller EXCEPT ![p] = [c \in Callers |-> "idle"]]
    /\ UNCHANGED <<store, made, sealedUnder>>

Fetch(p, f) == FetchRead(p, f) \/ FetchMake(p, f) \/ FetchReread(p, f) \/ Answer(p, f)

Next ==
    \E p \in Procs :
       \/ Ask(p) \/ WaitElapsed(p) \/ RetryElapsed(p) \/ Restart(p)
       \/ \E c \in Callers : Get(p, c)
       \/ \E f \in Fetches : Fetch(p, f)

Spec == Init /\ [][Next]_vars

\* A thread in get is woken by the answer or by its timeout and takes the
\* lock, and is not every time kept from it until the backoff (30 s and more)
\* after a refusal is over; time passes.  Nothing is assumed of the store: its
\* prompt may stay unanswered for ever.
FairSpec ==
    /\ Spec
    /\ \A p \in Procs : WF_vars(WaitElapsed(p))
    /\ \A p \in Procs : \A c \in Callers :
          /\ WF_vars(caller[p][c] = "waiting" /\ Get(p, c))
          /\ SF_vars(caller[p][c] = "waiting" /\ ~MayAsk(p) /\ Get(p, c))
-----------------------------------------------------------------------------
TypeOK ==
    /\ cell \in [Procs -> [st : {"Unasked", "Asking", "Failed", "Ready"},
                           key : DataKeys \cup {NoKey}, overdue : BOOLEAN, retryDue : BOOLEAN]]
    /\ asker \in [Procs -> [Fetches -> {"unused", "read", "make", "reread", "found", "refused", "done"}]]
    /\ got \in [Procs -> [Fetches -> DataKeys \cup {NoKey}]]
    /\ caller \in [Procs -> [Callers -> {"idle", "waiting"}]]
    /\ store \in DataKeys \cup {NoKey}
    /\ made \subseteq DataKeys /\ sealedUnder \subseteq DataKeys /\ restarts \in Nat

\* Everything sealed by a run of the program opens after a restart: the key
\* it was sealed under is the one the store keeps (why KeyCell asks on one
\* thread at a time).
SealedOpens == sealedUnder \subseteq {store}

\* A key that was good once stays the process's key: no later answer, failed
\* or not, replaces it.
KeyKept ==
    [][\A p \in Procs : cell[p].st = "Ready" => cell'[p] = cell[p] \/ restarts' # restarts]_vars

\* A thread that seals is let go in the end, whether or not the store ever
\* answers (KEY_WAIT).
CallersReturn ==
    \A p \in Procs : \A c \in Callers : caller[p][c] = "waiting" ~> caller[p][c] = "idle"
=============================================================================
