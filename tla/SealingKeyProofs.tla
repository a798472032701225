-------------------------- MODULE SealingKeyProofs --------------------------
(***************************************************************************)
(* What TLAPS proves of SealingKey, for any number of sealing threads,     *)
(* askings, keys and restarts.                                             *)
(***************************************************************************)
EXTENDS SealingKey, TLAPS

CellStates == {"Unasked", "Asking", "Failed", "Ready"}
Cells == [st : CellStates, key : DataKeys \cup {NoKey}, overdue : BOOLEAN, retryDue : BOOLEAN]
AskerStates == {"unused", "read", "make", "reread", "found", "refused", "done"}

\* What setting one entry of a table does: the table keeps its type and every
\* other entry its value.
LEMMA TableUpdate ==
    ASSUME NEW A, NEW B, NEW S, NEW t \in [A -> [B -> S]],
           NEW a \in A, NEW b \in B, NEW v \in S
    PROVE  /\ [t EXCEPT ![a][b] = v] \in [A -> [B -> S]]
           /\ \A x \in A : \A y \in B :
                 [t EXCEPT ![a][b] = v][x][y] = IF x = a /\ y = b THEN v ELSE t[x][y]
BY Zenon

\* The states a cell is set to are cells.
LEMMA CellValues ==
    /\ Unasked \in Cells /\ Asking \in Cells /\ Failed \in Cells
    /\ \A k \in DataKeys : Ready(k) \in Cells
BY Zenon DEF Unasked, Asking, Failed, Ready, Cells, CellStates

\* A timer only marks the cell it belongs to.
LEMMA TimerMarks ==
    ASSUME TypeOK, NEW p \in Procs, WaitElapsed(p) \/ RetryElapsed(p)
    PROVE  /\ cell' \in [Procs -> Cells]
           /\ \A q \in Procs : cell'[q].st = cell[q].st /\ cell'[q].key = cell[q].key
<1>1. cell \in [Procs -> Cells]
  BY Zenon DEF TypeOK, Cells, CellStates
<1>2. \E c \in Cells : /\ cell' = [cell EXCEPT ![p] = c]
                       /\ c.st = cell[p].st /\ c.key = cell[p].key
  <2>1. CASE WaitElapsed(p)
    <3> DEFINE c == [cell[p] EXCEPT !.overdue = TRUE]
    <3>1. cell' = [cell EXCEPT ![p] = c]
      BY Zenon, <1>1, <2>1 DEF WaitElapsed
    <3>2. cell[p] \in Cells
      BY Zenon, <1>1
    <3>3. c \in Cells /\ c.st = cell[p].st /\ c.key = cell[p].key
      BY Zenon, <3>2 DEF Cells
    <3> HIDE DEF c
    <3>4. QED  BY Zenon, <3>1, <3>3
  <2>2. CASE RetryElapsed(p)
    <3> DEFINE c == [cell[p] EXCEPT !.retryDue = TRUE]
    <3>1. cell' = [cell EXCEPT ![p] = c]
      BY Zenon, <1>1, <2>2 DEF RetryElapsed
    <3>2. cell[p] \in Cells
      BY Zenon, <1>1
    <3>3. c \in Cells /\ c.st = cell[p].st /\ c.key = cell[p].key
      BY Zenon, <3>2 DEF Cells
    <3> HIDE DEF c
    <3>4. QED  BY Zenon, <3>1, <3>3
  <2>3. QED  BY Zenon, <2>1, <2>2
<1>3. QED  BY Zenon, <1>1, <1>2

\* The cells, the asking threads and the store keep their types, and only a
\* cell that is ready has a key: it is one the store gave.
Typed ==
    /\ TypeOK
    /\ \A p \in Procs : cell[p].st = "Ready" => cell[p].key # NoKey
    /\ \A p \in Procs : \A f \in Fetches : asker[p][f] = "found" => got[p][f] # NoKey

\* Every action keeps Typed.
LEMMA TypedInvariant == Spec => []Typed
<1>1. Init => Typed
  BY SealingKeyConstants DEF Init, Typed, TypeOK, Unasked
<1>2. Typed /\ [Next]_vars => Typed'
  <2> SUFFICES ASSUME Typed, [Next]_vars PROVE Typed'
    BY Zenon
  <2> USE SealingKeyConstants
  <2>t. /\ cell \in [Procs -> Cells]
        /\ asker \in [Procs -> [Fetches -> AskerStates]]
        /\ got \in [Procs -> [Fetches -> DataKeys \cup {NoKey}]]
        /\ caller \in [Procs -> [Callers -> {"idle", "waiting"}]]
        /\ store \in DataKeys \cup {NoKey}
        /\ made \subseteq DataKeys /\ sealedUnder \subseteq DataKeys /\ restarts \in Nat
        /\ \A p \in Procs : cell[p].st = "Ready" => cell[p].key # NoKey
        /\ \A p \in Procs : \A f \in Fetches : asker[p][f] = "found" => got[p][f] # NoKey
    BY Zenon DEF Typed, TypeOK, Cells, CellStates, AskerStates
  <2>s. SUFFICES
        /\ cell' \in [Procs -> Cells]
        /\ asker' \in [Procs -> [Fetches -> AskerStates]]
        /\ got' \in [Procs -> [Fetches -> DataKeys \cup {NoKey}]]
        /\ caller' \in [Procs -> [Callers -> {"idle", "waiting"}]]
        /\ store' \in DataKeys \cup {NoKey}
        /\ made' \subseteq DataKeys /\ sealedUnder' \subseteq DataKeys /\ restarts' \in Nat
        /\ \A p \in Procs : cell'[p].st = "Ready" => cell'[p].key # NoKey
        /\ \A p \in Procs : \A f \in Fetches : asker'[p][f] = "found" => got'[p][f] # NoKey
    BY Zenon DEF Typed, TypeOK, Cells, CellStates, AskerStates
  <2>1. CASE UNCHANGED vars
    BY Zenon, <2>t, <2>1 DEF vars
  \* begin, and its failure to start the thread.
  <2>b. ASSUME NEW p \in Procs, Begin(p) \/ (BeginFails(p) /\ UNCHANGED asker)
        PROVE  /\ cell' \in [Procs -> Cells]
               /\ asker' \in [Procs -> [Fetches -> AskerStates]]
               /\ \A q \in Procs : cell'[q].st = "Ready" => cell'[q].key # NoKey
               /\ \A q \in Procs : \A f \in Fetches : asker'[q][f] = "found" => asker[q][f] = "found"
    <3>1. CASE Begin(p)
      <4>1. PICK f \in Fetches : asker' = [asker EXCEPT ![p][f] = "read"]
        BY Zenon, <3>1 DEF Begin
      <4>2. "read" \in AskerStates
        BY Zenon DEF AskerStates
      <4>3. /\ asker' \in [Procs -> [Fetches -> AskerStates]]
            /\ \A q \in Procs : \A g \in Fetches : asker'[q][g] = "found" => asker[q][g] = "found"
        BY <2>t, <4>1, <4>2, TableUpdate
      <4>4. QED  BY Zenon, <2>t, <3>1, <4>3, CellValues DEF Begin, Asking
    <3>2. CASE BeginFails(p) /\ UNCHANGED asker
      BY Zenon, <2>t, <3>2, CellValues DEF BeginFails, Failed
    <3>3. QED  BY Zenon, <2>b, <3>1, <3>2
  <2>2. CASE \E p \in Procs : Ask(p)
    BY Zenon, <2>t, <2>b, <2>2 DEF Ask
  <2>3. CASE \E p \in Procs : WaitElapsed(p) \/ RetryElapsed(p)
    <3>1. PICK p \in Procs : WaitElapsed(p) \/ RetryElapsed(p)
      BY Zenon, <2>3
    <3>2. /\ cell' \in [Procs -> Cells]
          /\ \A q \in Procs : cell'[q].st = cell[q].st /\ cell'[q].key = cell[q].key
      BY Zenon, <3>1, TimerMarks DEF Typed
    <3>3. UNCHANGED <<asker, got, caller, store, made, sealedUnder, restarts>>
      BY Zenon, <3>1 DEF WaitElapsed, RetryElapsed
    <3>4. QED  BY Zenon, <2>t, <3>2, <3>3
  <2>4. CASE \E p \in Procs : Restart(p)
    BY <2>t, <2>4, CellValues DEF Restart, Unasked, AskerStates
  <2>5. CASE \E p \in Procs : \E c \in Callers : Get(p, c)
    <3>1. PICK p \in Procs, c \in Callers : Get(p, c)
      BY Zenon, <2>5
    <3>2. caller' \in [Procs -> [Callers -> {"idle", "waiting"}]]
      <4>1. \E v \in {"idle", "waiting"} : caller' = [caller EXCEPT ![p][c] = v]
        BY Zenon, <3>1 DEF Get
      <4>2. QED  BY <2>t, <4>1, TableUpdate
    <3>3. sealedUnder' \subseteq DataKeys
      BY <2>t, <3>1 DEF Get, Cells
    <3>4. UNCHANGED <<cell, asker>> \/ Begin(p) \/ (BeginFails(p) /\ UNCHANGED asker)
      BY Zenon, <3>1 DEF Get
    <3>5. UNCHANGED <<got, store, made, restarts>>
      BY Zenon, <3>1 DEF Get
    <3>6. QED  BY Zenon, <2>t, <2>b, <3>2, <3>3, <3>4, <3>5
  <2>6. CASE \E p \in Procs : \E f \in Fetches : Fetch(p, f)
    <3>1. PICK p \in Procs, f \in Fetches : Fetch(p, f)
      BY Zenon, <2>6
    <3>2. UNCHANGED <<caller, sealedUnder, restarts>>
      BY Zenon, <3>1 DEF Fetch, FetchRead, FetchMake, FetchReread, Answer
    <3>3. store' \in DataKeys \cup {NoKey} /\ made' \subseteq DataKeys
      BY Zenon, <2>t, <3>1 DEF Fetch, FetchRead, FetchMake, FetchReread, Answer
    <3>4. cell' \in [Procs -> Cells] /\ \A q \in Procs : cell'[q].st = "Ready" => cell'[q].key # NoKey
      <4>1. CASE UNCHANGED cell
        BY Zenon, <2>t, <4>1
      <4>2. CASE Answer(p, f)
        <5>1. PICK c \in Cells : /\ cell' = [cell EXCEPT ![p] = c]
                                 /\ c.st = "Ready" => c.key # NoKey
          <6>1. CASE asker[p][f] = "found"
            BY <2>t, <4>2, <6>1, CellValues DEF Answer, Ready
          <6>2. CASE asker[p][f] = "refused"
            BY Zenon, <2>t, <4>2, <6>2, CellValues DEF Answer, Failed
          <6>3. QED  BY Zenon, <4>2, <6>1, <6>2 DEF Answer
        <5>2. \A q \in Procs : cell'[q] = IF q = p THEN c ELSE cell[q]
          BY Zenon, <2>t, <5>1
        <5>3. QED  BY Zenon, <2>t, <5>1, <5>2
      <4>3. QED  BY Zenon, <3>1, <4>1, <4>2 DEF Fetch, FetchRead, FetchMake, FetchReread
    <3>5. PICK v \in AskerStates : asker' = [asker EXCEPT ![p][f] = v]
      BY Zenon, <3>1 DEF Fetch, FetchRead, FetchMake, FetchReread, Answer, AskerStates
    <3>6. PICK g \in DataKeys \cup {NoKey} :
             got' = [got EXCEPT ![p][f] = g] \/ (got' = got /\ g = got[p][f])
      BY <2>t, <3>1 DEF Fetch, FetchRead, FetchMake, FetchReread, Answer
    <3>a. /\ asker' \in [Procs -> [Fetches -> AskerStates]]
          /\ \A q \in Procs : \A h \in Fetches :
                asker'[q][h] = IF q = p /\ h = f THEN v ELSE asker[q][h]
      BY <2>t, <3>5, TableUpdate
    <3>g. /\ got' \in [Procs -> [Fetches -> DataKeys \cup {NoKey}]]
          /\ \A q \in Procs : \A h \in Fetches :
                got'[q][h] = IF q = p /\ h = f THEN g ELSE got[q][h]
      <4>1. CASE got' = [got EXCEPT ![p][f] = g]
        BY <2>t, <4>1, TableUpdate
      <4>2. CASE got' = got /\ g = got[p][f]
        BY Zenon, <2>t, <4>2
      <4>3. QED  BY Zenon, <3>6, <4>1, <4>2
    <3>f. asker'[p][f] = "found" => got'[p][f] # NoKey
      <4>1. CASE FetchRead(p, f) \/ FetchReread(p, f)
        <5>1. asker'[p][f] = "found" => got' = [got EXCEPT ![p][f] = store] /\ store # NoKey
          BY <2>t, <4>1, TableUpdate DEF FetchRead, FetchReread, AskerStates
        <5>2. QED  BY <2>t, <5>1, TableUpdate
      <4>2. CASE FetchMake(p, f) \/ Answer(p, f)
        BY <2>t, <4>2, TableUpdate DEF FetchMake, Answer, AskerStates
      <4>3. QED  BY Zenon, <3>1, <4>1, <4>2 DEF Fetch
    <3>h. \A q \in Procs : \A h \in Fetches : asker'[q][h] = "found" => got'[q][h] # NoKey
      BY <2>t, <3>a, <3>g, <3>f
    <3>7. QED  BY Zenon, <2>t, <3>2, <3>3, <3>4, <3>a, <3>g, <3>h
  <2>7. QED
    BY Zenon, <2>1, <2>2, <2>3, <2>4, <2>5, <2>6 DEF Next
<1>3. QED
  BY <1>1, <1>2, PTL DEF Spec
-----------------------------------------------------------------------------
\* A thread is inside fetch_data_key or about to hand over its answer.
Live(p, f) == asker[p][f] \in {"read", "make", "reread", "found", "refused"}

\* Only one thread asks, and only while the cell says so.
OneAsker ==
    \A p \in Procs : \A f, g \in Fetches :
       Live(p, f) => cell[p].st = "Asking" /\ (Live(p, g) => f = g)

\* OneAsker is kept by every step: begin asks only from Unasked or Failed.
LEMMA OneAskerInvariant == Spec => []OneAsker
<1>1. Init => OneAsker
  BY DEF Init, OneAsker, Live
<1>2. Typed /\ OneAsker /\ [Next]_vars => OneAsker'
  <2> SUFFICES ASSUME Typed, OneAsker, [Next]_vars PROVE OneAsker'
    BY Zenon
  <2> USE DEF OneAsker, Live
  <2>t. /\ cell \in [Procs -> Cells]
        /\ asker \in [Procs -> [Fetches -> AskerStates]]
    BY Zenon DEF Typed, TypeOK, Cells, CellStates, AskerStates
  <2>1. CASE UNCHANGED <<cell, asker>>
    BY Zenon, <2>1
  <2>2. ASSUME NEW p \in Procs, Begin(p) PROVE OneAsker'
    BY <2>2, <2>t DEF Begin, MayAsk, Asking
  <2>3. ASSUME NEW p \in Procs, BeginFails(p), UNCHANGED asker PROVE OneAsker'
    BY Zenon, <2>3, <2>t DEF BeginFails, MayAsk, Failed
  <2>4. ASSUME NEW p \in Procs, WaitElapsed(p) \/ RetryElapsed(p) PROVE OneAsker'
    <3>1. \A q \in Procs : cell'[q].st = cell[q].st
      BY Zenon, <2>4, TimerMarks DEF Typed
    <3>2. QED  BY Zenon, <2>4, <3>1 DEF WaitElapsed, RetryElapsed
  <2>5. ASSUME NEW p \in Procs, Restart(p) PROVE OneAsker'
    BY Zenon, <2>5, <2>t DEF Restart, Unasked
  <2>6. ASSUME NEW p \in Procs, NEW f \in Fetches,
               FetchRead(p, f) \/ FetchMake(p, f) \/ FetchReread(p, f)
        PROVE  OneAsker'
    <3>1. Live(p, f) /\ UNCHANGED cell
      BY Zenon, <2>6 DEF FetchRead, FetchMake, FetchReread
    <3>2. \E v \in AskerStates : asker' = [asker EXCEPT ![p][f] = v]
      BY Zenon, <2>6 DEF FetchRead, FetchMake, FetchReread, AskerStates
    <3>3. \A q \in Procs : \A g \in Fetches : asker'[q][g] # asker[q][g] => q = p /\ g = f
      BY <2>t, <3>2, TableUpdate
    <3>4. QED  BY <3>1, <3>3
  <2>7. ASSUME NEW p \in Procs, NEW f \in Fetches, Answer(p, f) PROVE OneAsker'
    BY <2>7, <2>t DEF Answer, Ready, Failed
  <2>8. QED
    BY Zenon, <2>1, <2>2, <2>3, <2>4, <2>5, <2>6, <2>7 DEF Next, Ask, Get, Fetch, vars
<1>3. QED
  BY <1>1, <1>2, TypedInvariant, PTL DEF Spec

\* A key that was good once stays the process's key for its whole life,
\* whatever the store answers later: for any processes and threads.
THEOREM KeyKeptHolds == Spec => KeyKept
<1>1. Typed /\ OneAsker /\ [Next]_vars =>
        [\A p \in Procs : cell[p].st = "Ready" => cell'[p] = cell[p] \/ restarts' # restarts]_vars
  <2> SUFFICES ASSUME Typed, OneAsker, Next, NEW p \in Procs, cell[p].st = "Ready",
                      restarts' = restarts
               PROVE  cell'[p] = cell[p]
    BY Zenon
  <2> USE DEF Typed, TypeOK
  <2>1. ASSUME NEW q \in Procs, MayAsk(q) PROVE q # p
    BY Zenon, <2>1 DEF MayAsk
  <2>2. ASSUME NEW q \in Procs, NEW f \in Fetches, Answer(q, f) PROVE q # p
    BY Zenon, <2>2 DEF Answer, OneAsker, Live
  <2>3. ASSUME NEW q \in Procs, Restart(q) PROVE FALSE
    BY <2>3 DEF Restart
  <2>4. ASSUME NEW q \in Procs, \/ Ask(q) \/ WaitElapsed(q) \/ RetryElapsed(q)
                                \/ \E c \in Callers : Get(q, c)
        PROVE  cell'[p] = cell[p]
    BY Zenon, <2>1, <2>4 DEF Ask, WaitElapsed, RetryElapsed, Get, Begin, BeginFails
  <2>5. ASSUME NEW q \in Procs, NEW f \in Fetches, Fetch(q, f) PROVE cell'[p] = cell[p]
    BY Zenon, <2>2, <2>5 DEF Fetch, FetchRead, FetchMake, FetchReread, Answer
  <2>6. QED  BY Zenon, <2>3, <2>4, <2>5 DEF Next
<1>2. QED
  BY <1>1, TypedInvariant, OneAskerInvariant, PTL DEF Spec, KeyKept
-----------------------------------------------------------------------------
\* What keeps SealedOpens in a single process: while a key is being made none
\* is stored and nothing is sealed; a key found or in use is the store's.
StoreInv ==
    /\ SealedOpens
    /\ sealedUnder # {} => store # NoKey
    /\ \A p \in Procs : cell[p].st = "Ready" => cell[p].key = store
    /\ \A p \in Procs : \A f \in Fetches :
          /\ asker[p][f] = "make" => store = NoKey
          /\ asker[p][f] = "found" => got[p][f] = store

\* In a single process StoreInv is kept by every step: the one asking thread
\* is the only writer of the store.
LEMMA StoreInvariant ==
    ASSUME NEW p0, Procs = {p0}
    PROVE  Spec => []StoreInv
<1>1. Init => StoreInv
  BY DEF Init, StoreInv, SealedOpens, Unasked
<1>2. Typed /\ OneAsker /\ StoreInv /\ [Next]_vars => StoreInv'
  <2> SUFFICES ASSUME Typed, OneAsker, StoreInv, [Next]_vars PROVE StoreInv'
    BY Zenon
  <2> USE SealingKeyConstants DEF StoreInv, SealedOpens
  <2>t. Typed
    BY Zenon
  <2>1. CASE UNCHANGED vars
    BY Zenon, <2>1 DEF vars
  <2>2. ASSUME NEW p \in Procs, Ask(p) PROVE StoreInv'
    BY <2>t, <2>2 DEF Ask, Begin, BeginFails, Asking, Failed, Typed, TypeOK
  <2>3. ASSUME NEW p \in Procs, WaitElapsed(p) \/ RetryElapsed(p) PROVE StoreInv'
    BY <2>t, <2>3 DEF WaitElapsed, RetryElapsed, Typed, TypeOK
  <2>4. ASSUME NEW p \in Procs, Restart(p) PROVE StoreInv'
    BY Zenon, <2>t, <2>4 DEF Restart, Unasked, Typed, TypeOK
  <2>5. ASSUME NEW p \in Procs, NEW c \in Callers, Get(p, c) PROVE StoreInv'
    BY <2>t, <2>5 DEF Get, Begin, BeginFails, Asking, Failed, Typed, TypeOK
  <2>6. ASSUME NEW p \in Procs, NEW f \in Fetches, FetchRead(p, f) \/ FetchReread(p, f) PROVE StoreInv'
    BY <2>t, <2>6 DEF FetchRead, FetchReread, Typed, TypeOK
  <2>7. ASSUME NEW p \in Procs, NEW f \in Fetches, FetchMake(p, f) PROVE StoreInv'
    <3>1. \A g \in Fetches : Live(p, g) => g = f
      BY Zenon, <2>7 DEF FetchMake, OneAsker, Live
    <3>2. cell[p].st = "Asking" /\ sealedUnder = {}
      BY Zenon, <2>7 DEF FetchMake, OneAsker, Live
    <3>3. QED
      BY <2>t, <2>7, <3>1, <3>2 DEF FetchMake, Live, Typed, TypeOK
  <2>8. ASSUME NEW p \in Procs, NEW f \in Fetches, Answer(p, f) PROVE StoreInv'
    BY <2>t, <2>8 DEF Answer, Ready, Failed, Typed, TypeOK
  <2>9. QED
    BY Zenon, <2>1, <2>2, <2>3, <2>4, <2>5, <2>6, <2>7, <2>8 DEF Next, Fetch
<1>3. QED
  BY <1>1, <1>2, TypedInvariant, OneAskerInvariant, PTL DEF Spec

\* In a single process everything ever sealed is sealed under the key the
\* store keeps, so it opens after any restart.
THEOREM SealedOpensHolds ==
    ASSUME NEW p0, Procs = {p0}
    PROVE  Spec => []SealedOpens
BY StoreInvariant, PTL DEF StoreInv
=============================================================================
