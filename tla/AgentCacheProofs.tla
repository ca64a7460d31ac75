--------------------------- MODULE AgentCacheProofs ---------------------------
(***************************************************************************)
(* Theorems about AgentCache, for any keys, any prefix and any bounds on   *)
(* events and faults. The invariant relates the three copies of a key's    *)
(* value that are under way at any time, in a snapshot response, in the    *)
(* answer to a GET and in the cache, to the row in the database, by means  *)
(* of the latest event of the key.                                         *)
(***************************************************************************)
EXTENDS AgentCache, TLAPS

\* A row exists if the latest event of its key is a set, which wrote it.
RowInv ==
  \A k \in Keys :
    /\ lastEvent[k] \in 0 .. Len(log)
    /\ lastEvent[k] # 0 => log[lastEvent[k]].key = k
    /\ \A i \in 1 .. Len(log) : log[i].key = k => i <= lastEvent[k]
    /\ kv[k] = IF lastEvent[k] # 0 /\ log[lastEvent[k]].op = "set" THEN lastEvent[k] ELSE 0

\* The agent has seen nothing that was not written.
BoundInv ==
  /\ cursor <= Len(log) /\ pos <= Len(log)
  /\ \A k \in Watched : items[k].value <= lastEvent[k]

\* The snapshot under way is right about each key not written since, and
\* does not take the cache back in time.
SnapInv ==
  phase \in {"rows", "loaded"} =>
    /\ snap.asOf <= Len(log)
    /\ \A k \in Watched :
         /\ snap.rows[k] <= snap.asOf /\ snap.rows[k] <= lastEvent[k]
         /\ lastEvent[k] <= snap.asOf => snap.rows[k] = kv[k]
         /\ snap.rows[k] # 0 => items[k].value <= snap.rows[k]

LoadedInv ==
  phase = "loaded" => snap.asOf <= snap.latest /\ snap.latest <= Len(log) /\ cursor <= snap.latest

\* The event being applied is the next one after pos, and its GET was right
\* about the key if there is no later event for it.
GotInv ==
  phase = "gotten" =>
    /\ got.event \in WatchedEvents(pos, Len(log))
    /\ \A j \in WatchedEvents(pos, Len(log)) : got.event <= j
    /\ LET k == log[got.event].key IN
       /\ lastEvent[k] = got.event => got.value = got.event /\ kv[k] = got.event
       /\ got.value # 0 => /\ got.event <= got.value /\ got.value <= lastEvent[k]
                           /\ items[k].value <= got.value

IInv ==
  /\ TypeOK
  /\ RowInv /\ BoundInv /\ SnapInv /\ LoadedInv /\ GotInv
  /\ StaleOnlyIfComing /\ EntriesAreLabelled
------------------------------------------------------------------------------
LEMMA InitIInv == Init => IInv
<1> SUFFICES ASSUME Init
             PROVE  IInv
  OBVIOUS
<1> USE AgentCacheAssumption DEF Init, ServerInit
<1>1. TypeOK
  <2>1. NoSnapshot \in Snapshot /\ NoFetch \in Fetched
    BY DEF Snapshot, NoSnapshot, Fetched, NoFetch
  <2>2. items \in [Watched -> CacheEntry]
    BY DEF CacheEntry, NoEntry
  <2>3. /\ log \in Seq(Event) /\ kv \in [Keys -> Nat] /\ lastEvent \in [Keys -> Nat]
        /\ cursor \in Nat /\ pos \in Nat /\ faults \in Nat
    OBVIOUS
  <2>4. ready \in BOOLEAN /\ phase \in Phase /\ unseen \in SUBSET Nat /\ skipped \in SUBSET Nat
    BY DEF Phase
  <2>5. snap \in Snapshot /\ got \in Fetched
    BY <2>1
  <2> QED
    BY <2>2, <2>3, <2>4, <2>5 DEF TypeOK
<1>2. RowInv /\ BoundInv
  BY DEF RowInv, BoundInv, NoEntry
<1>3. SnapInv /\ LoadedInv /\ GotInv
  BY DEF SnapInv, LoadedInv, GotInv
<1>4. StaleOnlyIfComing /\ EntriesAreLabelled
  BY DEF StaleOnlyIfComing, EntriesAreLabelled, NoEntry
<1> QED
  BY <1>1, <1>2, <1>3, <1>4 DEF IInv

\* TypeOK, one component at a time.
LEMMA Types ==
  ASSUME TypeOK
  PROVE  /\ Len(log) \in Nat /\ cursor \in Nat /\ pos \in Nat /\ faults \in Nat
         /\ snap.asOf \in Nat /\ snap.latest \in Nat /\ snap.rows \in [Watched -> Nat]
         /\ got.event \in Nat /\ got.value \in Nat
         /\ \A k \in Keys : kv[k] \in Nat /\ lastEvent[k] \in Nat
         /\ \A k \in Watched : /\ k \in Keys /\ items[k] \in CacheEntry
                               /\ items[k].value \in Nat /\ items[k].event_id \in Nat
                               /\ snap.rows[k] \in Nat
         /\ \A i \in 1 .. Len(log) : log[i] \in Event /\ log[i].key \in Keys
<1>1. Len(log) \in Nat /\ \A i \in 1 .. Len(log) : log[i] \in Event
  BY DEF TypeOK
<1>2. \A e \in Event : e.key \in Keys
  BY DEF Event
<1>3. \A k \in Watched : k \in Keys /\ items[k] \in CacheEntry
  BY AgentCacheAssumption DEF TypeOK
<1>4. \A e \in CacheEntry : e.value \in Nat /\ e.event_id \in Nat
  BY DEF CacheEntry
<1>5. snap.asOf \in Nat /\ snap.latest \in Nat /\ snap.rows \in [Watched -> Nat]
  BY DEF TypeOK, Snapshot
<1>6. got.event \in Nat /\ got.value \in Nat
  BY DEF TypeOK, Fetched
<1>7. /\ cursor \in Nat /\ pos \in Nat /\ faults \in Nat
      /\ \A k \in Keys : kv[k] \in Nat /\ lastEvent[k] \in Nat
  BY DEF TypeOK
<1>8. \A k \in Watched : snap.rows[k] \in Nat
  BY <1>5
<1>9. \A i \in 1 .. Len(log) : log[i].key \in Keys
  BY <1>1, <1>2
<1>10. \A k \in Watched : items[k].value \in Nat /\ items[k].event_id \in Nat
  BY <1>3, <1>4
<1> QED
  BY <1>1, <1>3, <1>5, <1>6, <1>7, <1>8, <1>9, <1>10

(***************************************************************************)
(* A write adds the latest event of its key and tells the agent nothing.   *)
(***************************************************************************)
LEMMA WriteStep ==
  ASSUME IInv, NEW k \in Keys, NEW op \in Operation, Write(k, op)
  PROVE  IInv'
<1> DEFINE n == Len(log)
           e == [key |-> k, op |-> op]
<1>1. TypeOK /\ n \in Nat /\ log \in Seq(Event) /\ e \in Event
  BY Types DEF IInv, TypeOK, Event
<1>2. /\ log' = Append(log, e)
      /\ kv' = [kv EXCEPT ![k] = IF op = "set" THEN n + 1 ELSE 0]
      /\ lastEvent' = [lastEvent EXCEPT ![k] = n + 1]
      /\ UNCHANGED <<cacheVars, phase, snap, got, historyVars, faults>>
  BY DEF Write
<1>3. /\ log' \in Seq(Event) /\ Len(log') = n + 1
      /\ \A i \in 1 .. n : log'[i] = log[i]
      /\ log'[n + 1] = e
  BY <1>1, <1>2
<1>4. /\ lastEvent'[k] = n + 1 /\ kv'[k] = (IF op = "set" THEN n + 1 ELSE 0)
      /\ \A q \in Keys \ {k} : lastEvent'[q] = lastEvent[q] /\ kv'[q] = kv[q]
      /\ \A q \in Keys : lastEvent[q] \in 0 .. n /\ lastEvent[q] <= lastEvent'[q]
  BY <1>1, <1>2 DEF IInv, TypeOK, RowInv
<1>5. TypeOK'
  BY <1>1, <1>2, <1>3 DEF TypeOK, cacheVars, historyVars
<1>6. RowInv'
  <2> SUFFICES ASSUME NEW q \in Keys
               PROVE  /\ lastEvent'[q] \in 0 .. n + 1
                      /\ lastEvent'[q] # 0 => log'[lastEvent'[q]].key = q
                      /\ \A i \in 1 .. n + 1 : log'[i].key = q => i <= lastEvent'[q]
                      /\ kv'[q] = IF lastEvent'[q] # 0 /\ log'[lastEvent'[q]].op = "set"
                                  THEN lastEvent'[q] ELSE 0
    BY <1>3 DEF RowInv
  <2>1. CASE q = k
    BY <1>1, <1>3, <1>4, <2>1
  <2>2. CASE q # k
    <3>1. /\ lastEvent[q] \in 0 .. n
          /\ lastEvent[q] # 0 => log[lastEvent[q]].key = q
          /\ \A i \in 1 .. n : log[i].key = q => i <= lastEvent[q]
          /\ kv[q] = IF lastEvent[q] # 0 /\ log[lastEvent[q]].op = "set" THEN lastEvent[q] ELSE 0
      BY DEF IInv, RowInv
    <3>2. lastEvent'[q] = lastEvent[q] /\ kv'[q] = kv[q]
      BY <1>4, <2>2
    <3>3. lastEvent[q] # 0 => log'[lastEvent[q]] = log[lastEvent[q]]
      BY <1>1, <1>3, <3>1
    <3>4. \A i \in 1 .. n + 1 : log'[i].key = q => i \in 1 .. n /\ log'[i] = log[i]
      BY <1>1, <1>3, <2>2
    <3> HIDE DEF n
    <3> QED
      BY <1>1, <3>1, <3>2, <3>3, <3>4
  <2> QED
    BY <2>1, <2>2
<1>7. /\ \A q \in Watched : q \in Keys
      /\ UNCHANGED <<items, cursor, ready, phase, snap, got, pos, unseen, skipped>>
  BY <1>2, AgentCacheAssumption DEF cacheVars, historyVars
<1>8. BoundInv'
  <2>1. \A q \in Watched : items[q].value <= lastEvent'[q]
    <3> SUFFICES ASSUME NEW q \in Watched
                 PROVE  items[q].value <= lastEvent'[q]
      OBVIOUS
    <3>1. items[q].value <= lastEvent[q] /\ items[q].value \in Nat
      BY <1>1, Types DEF IInv, BoundInv
    <3> QED
      BY <1>1, <1>4, <1>7, <3>1
  <2>2. cursor <= n /\ pos <= n /\ cursor \in Nat /\ pos \in Nat
    BY <1>1, Types DEF IInv, BoundInv
  <2> HIDE DEF n
  <2> QED
    BY <1>1, <1>3, <1>7, <2>1, <2>2 DEF BoundInv
<1>9. SnapInv'
  <2> SUFFICES ASSUME phase \in {"rows", "loaded"}, NEW q \in Watched
               PROVE  /\ snap.asOf <= n + 1
                      /\ snap.rows[q] <= snap.asOf /\ snap.rows[q] <= lastEvent'[q]
                      /\ lastEvent'[q] <= snap.asOf => snap.rows[q] = kv'[q]
                      /\ snap.rows[q] # 0 => items[q].value <= snap.rows[q]
    <3>1. SUFFICES ASSUME phase \in {"rows", "loaded"}
                   PROVE  SnapInv'
      BY <1>7 DEF SnapInv
    <3>2. snap.asOf <= n + 1
      BY <1>1, <3>1, Types DEF IInv, SnapInv
    <3> QED
      BY <1>3, <1>7, <3>1, <3>2 DEF SnapInv
  <2>1. /\ snap.asOf <= n
        /\ snap.rows[q] <= snap.asOf /\ snap.rows[q] <= lastEvent[q]
        /\ lastEvent[q] <= snap.asOf => snap.rows[q] = kv[q]
        /\ snap.rows[q] # 0 => items[q].value <= snap.rows[q]
    BY DEF IInv, SnapInv
  <2>2. snap.asOf \in Nat /\ snap.rows[q] \in Nat
    BY <1>1, Types
  <2> HIDE DEF n
  <2> QED
    BY <1>1, <1>4, <1>7, <2>1, <2>2
<1>10. LoadedInv'
  <2> HIDE DEF n
  <2>1. snap.asOf \in Nat /\ snap.latest \in Nat /\ cursor \in Nat
    BY <1>1, Types
  <2> QED
    BY <1>1, <1>3, <1>7, <2>1 DEF IInv, LoadedInv, n
<1>11. \A i \in WatchedEvents(pos, Len(log))' : i \in WatchedEvents(pos, n) \/ i = n + 1
  BY <1>1, <1>3, <1>7, Types DEF WatchedEvents
<1>12. GotInv'
  <2> SUFFICES ASSUME phase = "gotten"
               PROVE  GotInv'
    BY <1>7 DEF GotInv
  <2> DEFINE g == got.event
             q == log[g].key
  <2>1. /\ g \in WatchedEvents(pos, n)
        /\ \A j \in WatchedEvents(pos, n) : g <= j
        /\ lastEvent[q] = g => got.value = g /\ kv[q] = g
        /\ got.value # 0 => /\ g <= got.value /\ got.value <= lastEvent[q]
                            /\ items[q].value <= got.value
    BY DEF IInv, GotInv
  <2>2. g \in 1 .. n /\ g > pos /\ q \in Watched /\ log'[g] = log[g]
    BY <1>1, <1>3, <2>1, Types DEF WatchedEvents
  <2>3. g \in WatchedEvents(pos, Len(log))' /\ \A j \in WatchedEvents(pos, Len(log))' : g <= j
    <3>1. pos \in Nat /\ g \in Nat
      BY <1>1, Types
    <3>2. g \in WatchedEvents(pos, Len(log))'
      BY <1>1, <1>3, <1>7, <2>2, <3>1 DEF WatchedEvents
    <3>3. \A j \in WatchedEvents(pos, n) \cup {n + 1} : g <= j
      BY <1>1, <2>1, <2>2
    <3> QED
      BY <1>11, <3>2, <3>3
  <2>4. lastEvent'[q] = g => got.value = g /\ kv'[q] = g
    BY <1>1, <1>4, <1>7, <2>1, <2>2
  <2>5. got.value # 0 => /\ g <= got.value /\ got.value <= lastEvent'[q]
                         /\ items[q].value <= got.value
    <3>1. q \in Keys /\ got.value \in Nat
      BY <1>1, <2>2, Types
    <3>2. lastEvent[q] \in Nat /\ lastEvent'[q] \in Nat /\ lastEvent[q] <= lastEvent'[q]
      <4> HIDE DEF q
      <4>1. lastEvent[q] \in 0 .. n /\ lastEvent[q] <= lastEvent'[q]
        BY <1>4, <3>1
      <4>2. lastEvent'[q] = lastEvent[q] \/ lastEvent'[q] = n + 1
        BY <1>4, <3>1
      <4> QED
        BY <1>1, <4>1, <4>2
    <3> HIDE DEF g, q
    <3> QED
      BY <2>1, <3>1, <3>2
  <2>6. /\ got' = got /\ items' = items /\ Len(log)' = Len(log')
        /\ log'[got'.event].key = q
    BY <1>7, <2>2 DEF cacheVars
  <2> HIDE DEF q
  <2> QED
    BY <2>3, <2>4, <2>5, <2>6 DEF GotInv
<1>13. StaleOnlyIfComing'
  <2> SUFFICES ASSUME ready, NEW q \in Watched, items[q].value # kv'[q]
               PROVE  lastEvent'[q] > pos \/ lastEvent'[q] \in unseen \cup skipped
    BY <1>7 DEF StaleOnlyIfComing
  <2>1. pos <= n /\ pos \in Nat
    BY <1>1, Types DEF IInv, BoundInv
  <2>2. CASE q = k
    BY <1>1, <1>4, <2>1, <2>2
  <2>3. CASE q # k
    BY <1>4, <1>7, <2>3 DEF IInv, StaleOnlyIfComing
  <2> QED
    BY <2>2, <2>3
<1>14. EntriesAreLabelled'
  BY <1>7 DEF IInv, EntriesAreLabelled
<1> QED
  BY <1>5, <1>6, <1>8, <1>9, <1>10, <1>12, <1>13, <1>14 DEF IInv
------------------------------------------------------------------------------
(***************************************************************************)
(* The steps of the agent, under which the database stays as it is.        *)
(***************************************************************************)

\* What the database says about a watched key.
LEMMA Row ==
  ASSUME IInv, NEW k \in Watched
  PROVE  /\ k \in Keys /\ lastEvent[k] \in Nat /\ lastEvent[k] <= Len(log)
         /\ kv[k] \in {0, lastEvent[k]}
         /\ lastEvent[k] # 0 => lastEvent[k] \in 1 .. Len(log) /\ log[lastEvent[k]].key = k
         /\ items[k].value \in Nat /\ items[k].value <= lastEvent[k]
<1>1. TypeOK /\ k \in Keys /\ Len(log) \in Nat
  BY Types DEF IInv
<1>2. lastEvent[k] \in 0 .. Len(log)
  BY <1>1 DEF IInv, RowInv
<1>3. kv[k] \in {0, lastEvent[k]} /\ (lastEvent[k] # 0 => log[lastEvent[k]].key = k)
  BY <1>1 DEF IInv, RowInv
<1>4. items[k].value \in Nat /\ items[k].value <= lastEvent[k]
  BY <1>1, Types DEF IInv, BoundInv
<1> QED
  BY <1>1, <1>2, <1>3, <1>4

LEMMA RowStays ==
  ASSUME IInv, UNCHANGED serverVars
  PROVE  RowInv'
BY DEF IInv, RowInv, serverVars

\* Steps that only move the task, and drop what it was waiting for.
LEMMA MoveStep ==
  ASSUME IInv, TypeOK', UNCHANGED <<serverVars, cacheVars, historyVars>>,
         phase' \notin {"rows", "loaded", "gotten"}
  PROVE  IInv'
<1> USE DEF serverVars, cacheVars, historyVars
<1>1. SnapInv' /\ LoadedInv' /\ GotInv'
  BY DEF SnapInv, LoadedInv, GotInv
<1>2. BoundInv' /\ StaleOnlyIfComing' /\ EntriesAreLabelled'
  BY DEF IInv, BoundInv, StaleOnlyIfComing, EntriesAreLabelled
<1> QED
  BY <1>1, <1>2, RowStays DEF IInv

LEMMA MoveActions ==
  ASSUME IInv, HandleReload \/ StreamEnds \/ RunOnceFails \/ BackoffElapsed
  PROVE  IInv'
<1> USE DEF serverVars, cacheVars, historyVars
<1>1. TypeOK /\ faults \in Nat
  BY Types DEF IInv
<1>2. NoSnapshot \in Snapshot /\ NoFetch \in Fetched
  BY DEF Snapshot, NoSnapshot, Fetched, NoFetch
<1>3. /\ UNCHANGED <<serverVars, cacheVars, historyVars>>
      /\ phase' \in {"snapshot", "connect", "backoff"}
      /\ snap' \in Snapshot /\ got' \in Fetched /\ faults' \in Nat
  BY <1>1, <1>2 DEF HandleReload, StreamEnds, RunOnceFails, BackoffElapsed, Fault, TypeOK
<1>4. TypeOK'
  BY <1>1, <1>3 DEF TypeOK, Phase
<1> QED
  BY <1>3, <1>4, MoveStep

LEMMA RestartStep ==
  ASSUME IInv, Restart
  PROVE  IInv'
<1>1. TypeOK /\ faults \in Nat /\ Len(log) \in Nat
  BY Types DEF IInv
<1>2. NoSnapshot \in Snapshot /\ NoFetch \in Fetched /\ NoEntry \in CacheEntry
  BY DEF Snapshot, NoSnapshot, Fetched, NoFetch, NoEntry, CacheEntry
<1>3. /\ UNCHANGED serverVars
      /\ items' = [k \in Watched |-> NoEntry] /\ cursor' = 0 /\ ready' = FALSE
      /\ phase' = "snapshot" /\ pos' = 0 /\ unseen' = {} /\ skipped' = {}
  BY DEF Restart
<1>4. TypeOK'
  <2>1. snap' \in Snapshot /\ got' \in Fetched /\ faults' \in Nat
    BY <1>1, <1>2 DEF Restart, Fault
  <2>2. items' \in [Watched -> CacheEntry]
    BY <1>2, <1>3
  <2> QED
    BY <1>1, <1>3, <2>1, <2>2 DEF TypeOK, Phase, serverVars
<1>5. BoundInv'
  BY <1>1, <1>3, Row DEF BoundInv, NoEntry, serverVars
<1>6. SnapInv' /\ LoadedInv' /\ GotInv' /\ StaleOnlyIfComing' /\ EntriesAreLabelled'
  BY <1>3 DEF SnapInv, LoadedInv, GotInv, StaleOnlyIfComing, EntriesAreLabelled, NoEntry
<1> QED
  BY <1>3, <1>4, <1>5, <1>6, RowStays DEF IInv

\* The rows are right about every key when they are read.
LEMMA SnapshotRowsStep ==
  ASSUME IInv, SnapshotRows
  PROVE  IInv'
<1>1. TypeOK /\ Len(log) \in Nat
  BY Types DEF IInv
<1>2. /\ UNCHANGED <<serverVars, cacheVars, got, historyVars, faults>>
      /\ phase' = "rows" /\ phase = "snapshot"
  BY DEF SnapshotRows
<1>3. snap' = [rows |-> [k \in Watched |-> kv[k]], asOf |-> Len(log), latest |-> snap.latest]
  BY <1>1 DEF SnapshotRows, TypeOK, Snapshot
<1>4. snap'.asOf = Len(log) /\ \A k \in Watched : snap'.rows[k] = kv[k]
  BY <1>3
<1>5. TypeOK'
  <2>1. [k \in Watched |-> kv[k]] \in [Watched -> Nat] /\ snap.latest \in Nat
    BY <1>1, Types
  <2>2. snap' \in Snapshot
    BY <1>1, <1>3, <2>1 DEF Snapshot
  <2> QED
    BY <1>1, <1>2, <2>2 DEF TypeOK, Phase, serverVars, cacheVars, historyVars
<1>6. SnapInv'
  <2> SUFFICES ASSUME NEW k \in Watched
               PROVE  /\ kv[k] <= Len(log) /\ kv[k] <= lastEvent[k]
                      /\ kv[k] # 0 => items[k].value <= kv[k]
    BY <1>1, <1>2, <1>4 DEF SnapInv, serverVars, cacheVars
  <2> QED
    BY <1>1, Row
<1>7. BoundInv' /\ LoadedInv' /\ GotInv' /\ StaleOnlyIfComing' /\ EntriesAreLabelled'
  BY <1>2 DEF IInv, BoundInv, LoadedInv, GotInv, StaleOnlyIfComing, EntriesAreLabelled,
              serverVars, cacheVars, historyVars
<1> QED
  BY <1>2, <1>5, <1>6, <1>7, RowStays DEF IInv

LEMMA SnapshotMaxStep ==
  ASSUME IInv, SnapshotMax
  PROVE  IInv'
<1>1. TypeOK /\ Len(log) \in Nat
  BY Types DEF IInv
<1>2. /\ UNCHANGED <<serverVars, cacheVars, got, historyVars, faults>>
      /\ phase' = "loaded" /\ phase = "rows"
  BY DEF SnapshotMax
<1>3. snap' = [rows |-> snap.rows, asOf |-> snap.asOf, latest |-> Len(log)]
  BY <1>1 DEF SnapshotMax, TypeOK, Snapshot
<1>4. snap'.asOf = snap.asOf /\ snap'.rows = snap.rows /\ snap'.latest = Len(log)
  BY <1>3
<1>5. TypeOK'
  <2>1. snap' \in Snapshot
    BY <1>1, <1>3, Types DEF Snapshot
  <2> QED
    BY <1>1, <1>2, <2>1 DEF TypeOK, Phase, serverVars, cacheVars, historyVars
<1>6. SnapInv'
  BY <1>2, <1>4 DEF IInv, SnapInv, serverVars, cacheVars
<1>7. LoadedInv'
  <2>1. snap.asOf <= Len(log) /\ cursor <= Len(log)
    BY <1>2 DEF IInv, SnapInv, BoundInv
  <2> QED
    BY <1>1, <1>2, <1>4, <2>1 DEF LoadedInv, serverVars, cacheVars
<1>8. BoundInv' /\ GotInv' /\ StaleOnlyIfComing' /\ EntriesAreLabelled'
  BY <1>2 DEF IInv, BoundInv, GotInv, StaleOnlyIfComing, EntriesAreLabelled,
              serverVars, cacheVars, historyVars
<1> QED
  BY <1>2, <1>5, <1>6, <1>7, <1>8, RowStays DEF IInv

\* What the rows miss was written between the two queries, or later.
LEMMA ReplaceSnapshotStep ==
  ASSUME IInv, ReplaceSnapshot
  PROVE  /\ IInv' /\ cursor <= cursor'
         /\ \A k \in Watched : items'[k].value # 0 => items[k].value <= items'[k].value
<1>1. TypeOK /\ Len(log) \in Nat /\ cursor \in Nat /\ snap.asOf \in Nat /\ snap.latest \in Nat
  BY Types DEF IInv
<1>2. /\ phase = "loaded" /\ phase' = "connect"
      /\ cursor' = snap.latest /\ pos' = snap.latest /\ ready' = TRUE
      /\ unseen' = WatchedEvents(snap.asOf, snap.latest) /\ skipped' = {}
      /\ snap' = NoSnapshot
      /\ UNCHANGED <<serverVars, got, faults>>
  BY DEF ReplaceSnapshot
<1>3. /\ items' = [k \in Watched |-> [value |-> snap.rows[k], event_id |-> snap.rows[k]]]
      /\ \A k \in Watched : items'[k].value = snap.rows[k] /\ items'[k].event_id = snap.rows[k]
  BY DEF ReplaceSnapshot
<1>4. /\ snap.asOf <= snap.latest /\ snap.latest <= Len(log) /\ cursor <= snap.latest
      /\ \A k \in Watched :
           /\ snap.rows[k] \in Nat
           /\ snap.rows[k] <= snap.asOf /\ snap.rows[k] <= lastEvent[k]
           /\ lastEvent[k] <= snap.asOf => snap.rows[k] = kv[k]
           /\ snap.rows[k] # 0 => items[k].value <= snap.rows[k]
  BY <1>1, <1>2, Types DEF IInv, SnapInv, LoadedInv
<1>5. TypeOK'
  <2>1. items' \in [Watched -> CacheEntry]
    BY <1>3, <1>4 DEF CacheEntry
  <2>2. unseen' \in SUBSET Nat
    BY <1>1, <1>2 DEF WatchedEvents
  <2>3. snap' \in Snapshot
    BY <1>2 DEF Snapshot, NoSnapshot
  <2> QED
    BY <1>1, <1>2, <2>1, <2>2, <2>3 DEF TypeOK, Phase, serverVars
<1>6. BoundInv'
  BY <1>2, <1>3, <1>4 DEF BoundInv, serverVars
<1>7. SnapInv' /\ LoadedInv' /\ GotInv'
  BY <1>2 DEF SnapInv, LoadedInv, GotInv
<1>8. StaleOnlyIfComing'
  <2> SUFFICES ASSUME NEW k \in Watched, snap.rows[k] # kv[k], ~(lastEvent[k] > snap.latest)
               PROVE  lastEvent[k] \in WatchedEvents(snap.asOf, snap.latest)
    BY <1>2, <1>3 DEF StaleOnlyIfComing, serverVars
  <2>1. lastEvent[k] > snap.asOf /\ lastEvent[k] \in Nat /\ log[lastEvent[k]].key = k
    BY <1>1, <1>4, Row
  <2> QED
    BY <1>1, <2>1 DEF WatchedEvents
<1>9. EntriesAreLabelled'
  BY <1>1, <1>2, <1>3, <1>4 DEF EntriesAreLabelled
<1> QED
  BY <1>1, <1>2, <1>3, <1>4, <1>5, <1>6, <1>7, <1>8, <1>9, RowStays DEF IInv
------------------------------------------------------------------------------
(***************************************************************************)
(* The stream.                                                             *)
(***************************************************************************)

\* A cursor beyond pos skips events, and they are all accounted for.
LEMMA OpenWatchStep ==
  ASSUME IInv, OpenWatch
  PROVE  IInv'
<1>1. TypeOK /\ Len(log) \in Nat /\ cursor \in Nat /\ pos \in Nat /\ cursor <= Len(log)
  BY Types DEF IInv, BoundInv
<1>2. /\ phase' = "streaming" /\ pos' = cursor
      /\ skipped' = skipped \cup WatchedEvents(pos, cursor)
      /\ UNCHANGED <<serverVars, cacheVars, snap, got, unseen, faults>>
  BY DEF OpenWatch
<1>3. TypeOK'
  <2>1. skipped \in SUBSET Nat
    BY <1>1 DEF TypeOK
  <2>2. WatchedEvents(pos, cursor) \subseteq Nat
    BY <1>1 DEF WatchedEvents
  <2>3. skipped' \in SUBSET Nat
    BY <1>2, <2>1, <2>2
  <2> QED
    BY <1>1, <1>2, <2>3 DEF TypeOK, Phase, serverVars, cacheVars
<1>4. BoundInv' /\ EntriesAreLabelled'
  BY <1>1, <1>2 DEF IInv, BoundInv, EntriesAreLabelled, serverVars, cacheVars
<1>5. SnapInv' /\ LoadedInv' /\ GotInv'
  BY <1>2 DEF SnapInv, LoadedInv, GotInv
<1>6. StaleOnlyIfComing'
  <2> SUFFICES ASSUME ready, NEW k \in Watched, items[k].value # kv[k], ~(lastEvent[k] > cursor)
               PROVE  lastEvent[k] \in unseen \cup skipped'
    BY <1>2 DEF StaleOnlyIfComing, serverVars, cacheVars
  <2>1. lastEvent[k] > pos \/ lastEvent[k] \in unseen \cup skipped
    BY DEF IInv, StaleOnlyIfComing
  <2>2. CASE lastEvent[k] > pos
    <3>1. lastEvent[k] \in Nat /\ log[lastEvent[k]].key = k
      BY <1>1, <2>2, Row
    <3>2. lastEvent[k] \in WatchedEvents(pos, cursor)
      BY <1>1, <2>2, <3>1 DEF WatchedEvents
    <3> QED
      BY <1>2, <3>2
  <2> QED
    BY <1>2, <2>1, <2>2
<1> QED
  BY <1>2, <1>3, <1>4, <1>5, <1>6, RowStays DEF IInv

\* The answer is right about the key at the moment it is given.
LEMMA HandleSetStep ==
  ASSUME IInv, NEW i \in 1 .. Len(log), HandleSet(i)
  PROVE  IInv'
<1> DEFINE k == log[i].key
<1>1. TypeOK /\ Len(log) \in Nat /\ pos \in Nat
  BY Types DEF IInv
<1>2. /\ i \in WatchedEvents(pos, Len(log)) /\ \A j \in WatchedEvents(pos, Len(log)) : i <= j
      /\ log[i].op = "set" /\ phase' = "gotten"
      /\ got' = [event |-> i, value |-> kv[k]]
      /\ UNCHANGED <<serverVars, cacheVars, snap, historyVars, faults>>
  BY DEF HandleSet, Yields
<1>3. i \in Nat /\ i # 0 /\ k \in Watched /\ kv[k] \in Nat /\ lastEvent[k] \in Nat
  BY <1>1, <1>2, Types DEF WatchedEvents
<1>4. got'.event = i /\ got'.value = kv[k]
  BY <1>2
<1>5. TypeOK'
  <2>1. got' \in Fetched
    BY <1>2, <1>3 DEF Fetched
  <2> QED
    BY <1>1, <1>2, <2>1 DEF TypeOK, Phase, serverVars, cacheVars, historyVars
<1>6. i <= lastEvent[k] /\ (lastEvent[k] = i => kv[k] = i)
  BY <1>1, <1>2, <1>3, AgentCacheAssumption DEF IInv, RowInv
<1>7. kv[k] # 0 => i <= kv[k] /\ kv[k] <= lastEvent[k] /\ items[k].value <= kv[k]
  BY <1>3, <1>6, Row
<1>8. GotInv'
  <2> HIDE DEF k
  <2>1. UNCHANGED <<log, kv, lastEvent, items, pos>>
    BY <1>2 DEF serverVars, cacheVars, historyVars
  <2>2. log[got'.event].key = k
    BY <1>4 DEF k
  <2>3. WatchedEvents(pos, Len(log))' = WatchedEvents(pos, Len(log))
    BY <2>1 DEF WatchedEvents
  <2> QED
    BY <1>2, <1>4, <1>6, <1>7, <2>1, <2>2, <2>3 DEF GotInv
<1>9. SnapInv' /\ LoadedInv'
  BY <1>2 DEF SnapInv, LoadedInv
<1>10. BoundInv' /\ StaleOnlyIfComing' /\ EntriesAreLabelled'
  BY <1>2 DEF IInv, BoundInv, StaleOnlyIfComing, EntriesAreLabelled,
              serverVars, cacheVars, historyVars
<1> QED
  BY <1>2, <1>5, <1>8, <1>9, <1>10, RowStays DEF IInv

(***************************************************************************)
(* An event has been handled: the entry of its key is right unless a later *)
(* event of that key is coming, and the other keys are as before.          *)
(***************************************************************************)
LEMMA AppliedStep ==
  ASSUME IInv, NEW i \in WatchedEvents(pos, Len(log)),
         \A j \in WatchedEvents(pos, Len(log)) : i <= j,
         NEW e \in CacheEntry, NEW c \in cursor .. Len(log),
         i <= c, e.event_id = e.value, e.value <= c, e.value <= lastEvent[log[i].key],
         lastEvent[log[i].key] = i => e.value = kv[log[i].key],
         \/ items' = [items EXCEPT ![log[i].key] = e]
         \/ items' = items /\ e = items[log[i].key],
         cursor' = c, pos' = i,
         phase' = "streaming", got' \in Fetched,
         UNCHANGED <<serverVars, ready, snap, unseen, skipped, faults>>
  PROVE  IInv'
<1> DEFINE k == log[i].key
<1> USE DEF serverVars
<1>1. TypeOK /\ Len(log) \in Nat /\ cursor \in Nat /\ pos \in Nat /\ c \in Nat
  BY Types DEF IInv
<1>2. i \in Nat /\ i > pos /\ i <= Len(log) /\ k \in Watched
  BY <1>1 DEF WatchedEvents
<1>3. items'[k] = e /\ \A q \in Watched \ {k} : items'[q] = items[q]
  BY <1>1, <1>2 DEF TypeOK
<1>4. TypeOK'
  <2>1. items' \in [Watched -> CacheEntry]
    BY <1>1 DEF TypeOK
  <2> QED
    BY <1>1, <1>2, <2>1 DEF TypeOK, Phase
<1>5. SnapInv' /\ LoadedInv' /\ GotInv'
  BY DEF SnapInv, LoadedInv, GotInv
<1> HIDE DEF k
<1>6. BoundInv'
  <2> SUFFICES ASSUME NEW q \in Watched
               PROVE  items'[q].value <= lastEvent[q]
    BY <1>1, <1>2 DEF BoundInv
  <2>1. CASE q = k
    BY <1>3, <2>1 DEF k
  <2>2. CASE q # k
    BY <1>3, <2>2 DEF IInv, BoundInv
  <2> QED
    BY <2>1, <2>2
<1>7. EntriesAreLabelled'
  <2> SUFFICES ASSUME NEW q \in Watched
               PROVE  items'[q].event_id = items'[q].value /\ items'[q].event_id <= c
    BY DEF EntriesAreLabelled
  <2>1. CASE q = k
    BY <1>3, <2>1
  <2>2. CASE q # k
    <3>1. items[q].event_id = items[q].value /\ items[q].event_id <= cursor
            /\ items[q].event_id \in Nat
      BY <1>1, Types DEF IInv, EntriesAreLabelled
    <3> QED
      BY <1>1, <1>3, <2>2, <3>1
  <2> QED
    BY <2>1, <2>2
<1>8. StaleOnlyIfComing'
  <2> SUFFICES ASSUME ready, NEW q \in Watched, items'[q].value # kv[q],
                      lastEvent[q] \notin unseen \cup skipped
               PROVE  lastEvent[q] > i
    BY DEF StaleOnlyIfComing
  <2>1. CASE q = k
    <3>1. lastEvent[k] # i
      BY <1>3, <2>1 DEF k
    <3>2. i <= lastEvent[k] /\ lastEvent[k] \in Nat
      BY <1>1, <1>2, AgentCacheAssumption DEF IInv, RowInv, TypeOK, k
    <3> QED
      BY <1>2, <2>1, <3>1, <3>2
  <2>2. CASE q # k
    <3>1. lastEvent[q] > pos
      BY <1>3, <2>2 DEF IInv, StaleOnlyIfComing
    <3>2. lastEvent[q] \in Nat /\ lastEvent[q] <= Len(log) /\ log[lastEvent[q]].key = q
      BY <1>1, <3>1, Row
    <3>3. lastEvent[q] \in WatchedEvents(pos, Len(log))
      BY <1>1, <3>1, <3>2 DEF WatchedEvents
    <3>4. lastEvent[q] # i
      BY <2>2, <3>2 DEF k
    <3> QED
      BY <1>2, <3>2, <3>3, <3>4
  <2> QED
    BY <2>1, <2>2
<1> QED
  BY <1>4, <1>5, <1>6, <1>7, <1>8, RowStays DEF IInv

\* An answer that is not the row any more, or no row, precedes a later event.
LEMMA ApplyGetStep ==
  ASSUME IInv, ApplyGet
  PROVE  /\ IInv' /\ cursor <= cursor'
         /\ \A k \in Watched : items'[k].value # 0 => items[k].value <= items'[k].value
<1> DEFINE i == got.event
           k == log[i].key
           v == got.value
           id == Later(v, i)
           e == IF v = 0 THEN items[k] ELSE [value |-> v, event_id |-> id]
<1>1. /\ TypeOK /\ Len(log) \in Nat /\ cursor \in Nat /\ pos \in Nat /\ v \in Nat
      /\ cursor <= Len(log)
  BY Types DEF IInv, BoundInv
<1>2. /\ i \in WatchedEvents(pos, Len(log)) /\ \A j \in WatchedEvents(pos, Len(log)) : i <= j
      /\ lastEvent[k] = i => v = i /\ kv[k] = i
      /\ v # 0 => i <= v /\ v <= lastEvent[k] /\ items[k].value <= v
  BY DEF IInv, GotInv, ApplyGet
<1>3. /\ cursor' = Later(cursor, id) /\ pos' = i /\ phase' = "streaming" /\ got' = NoFetch
      /\ items' = IF v = 0 THEN items ELSE [items EXCEPT ![k] = [value |-> v, event_id |-> id]]
      /\ UNCHANGED <<serverVars, ready, snap, unseen, skipped, faults>>
  BY DEF ApplyGet
<1>4. i \in Nat /\ i # 0 /\ i <= Len(log) /\ k \in Watched
  BY <1>1, <1>2 DEF WatchedEvents
<1>5. lastEvent[k] \in Nat /\ lastEvent[k] <= Len(log)
        /\ items[k].value <= lastEvent[k] /\ items[k] \in CacheEntry
        /\ items[k].value \in Nat /\ items[k].event_id = items[k].value
        /\ items[k].event_id <= cursor
  BY <1>1, <1>4, Row, Types DEF IInv, EntriesAreLabelled
<1>6. id = (IF v = 0 THEN i ELSE v) /\ id \in Nat /\ id <= Len(log) /\ i <= id
  BY <1>1, <1>2, <1>4, <1>5 DEF Later
<1>7. /\ Later(cursor, id) \in cursor .. Len(log)
      /\ i <= Later(cursor, id) /\ id <= Later(cursor, id)
  BY <1>1, <1>4, <1>6 DEF Later
<1>8. v # 0 => e.value = v /\ e.event_id = v /\ e \in CacheEntry
  BY <1>1, <1>6 DEF CacheEntry
<1>9. /\ e \in CacheEntry /\ e.event_id = e.value
      /\ e.value <= Later(cursor, id) /\ e.value <= lastEvent[k]
  <2>1. CASE v = 0
    BY <1>1, <1>5, <1>7, <2>1
  <2>2. CASE v # 0
    BY <1>2, <1>6, <1>7, <1>8, <2>2
  <2> QED
    BY <2>1, <2>2
<1>10. lastEvent[k] = i => e.value = kv[k]
  BY <1>2, <1>4, <1>8
<1>11. \/ items' = [items EXCEPT ![k] = e]
       \/ items' = items /\ e = items[k]
  BY <1>3
<1>12. NoFetch \in Fetched
  BY DEF NoFetch, Fetched
<1>13. \A q \in Watched : items'[q].value # 0 => items[q].value <= items'[q].value
  <2> SUFFICES ASSUME NEW q \in Watched
               PROVE  items[q].value <= items'[q].value
    OBVIOUS
  <2>1. items[q].value \in Nat /\ items \in [Watched -> CacheEntry]
    BY <1>1, Types DEF TypeOK
  <2>2. CASE v # 0 /\ q = k
    <3>1. items'[q].value = v
      BY <1>3, <2>1, <2>2
    <3> QED
      BY <1>2, <2>2, <3>1
  <2>3. CASE v = 0 \/ q # k
    <3>1. items'[q] = items[q]
      BY <1>3, <2>1, <2>3
    <3> QED
      BY <2>1, <3>1
  <2> QED
    BY <2>2, <2>3
<1>14. cursor <= cursor'
  BY <1>1, <1>3, <1>7
<1> HIDE DEF e, i, v, id
<1>15. IInv'
  BY <1>2, <1>3, <1>7, <1>9, <1>10, <1>11, <1>12, AppliedStep
<1> QED
  BY <1>13, <1>14, <1>15

\* Whatever entry a delete removes, a later set of the key is coming.
LEMMA HandleDeleteStep ==
  ASSUME IInv, NEW i \in 1 .. Len(log), HandleDelete(i)
  PROVE  /\ IInv' /\ cursor <= cursor'
         /\ \A k \in Watched : items'[k].value # 0 => items[k].value <= items'[k].value
<1> DEFINE k == log[i].key
<1>1. TypeOK /\ Len(log) \in Nat /\ cursor \in Nat /\ pos \in Nat /\ cursor <= Len(log)
  BY Types DEF IInv, BoundInv
<1>2. /\ i \in WatchedEvents(pos, Len(log)) /\ \A j \in WatchedEvents(pos, Len(log)) : i <= j
      /\ log[i].op = "delete"
      /\ items' = [items EXCEPT ![k] = NoEntry] /\ cursor' = Later(cursor, i) /\ pos' = i
      /\ phase = "streaming" /\ UNCHANGED <<serverVars, ready, phase, snap, got, unseen, skipped, faults>>
  BY DEF HandleDelete, Yields
<1>3. i \in Nat /\ k \in Watched /\ k \in Keys /\ lastEvent[k] \in Nat
  BY <1>1, <1>2, Types DEF WatchedEvents
<1>4. NoEntry \in CacheEntry /\ NoEntry.value = 0 /\ NoEntry.event_id = 0
  BY DEF NoEntry, CacheEntry
<1>5. Later(cursor, i) \in cursor .. Len(log) /\ i <= Later(cursor, i)
  BY <1>1, <1>3 DEF Later
<1>6. lastEvent[k] = i => kv[k] = 0
  BY <1>2, <1>3 DEF IInv, RowInv
<1>7. \A q \in Watched : items'[q].value # 0 => items[q].value <= items'[q].value
  <2> SUFFICES ASSUME NEW q \in Watched, items'[q].value # 0
               PROVE  items[q].value <= items'[q].value
    OBVIOUS
  <2>1. items[q].value \in Nat /\ items \in [Watched -> CacheEntry]
    BY <1>1, Types DEF TypeOK
  <2>2. q # k
    BY <1>2, <1>4, <2>1
  <2> QED
    BY <1>2, <2>1, <2>2
<1>8. got \in Fetched
  BY <1>1 DEF TypeOK
<1>9. IInv'
  <2> DEFINE e == NoEntry
             c == Later(cursor, i)
  <2>1. /\ e \in CacheEntry /\ c \in cursor .. Len(log) /\ i <= c
        /\ e.event_id = e.value /\ e.value <= c /\ e.value <= lastEvent[k]
        /\ lastEvent[k] = i => e.value = kv[k]
    BY <1>1, <1>3, <1>4, <1>5, <1>6
  <2>2. items' = [items EXCEPT ![k] = e] /\ cursor' = c
    BY <1>2
  <2>3. got' \in Fetched /\ phase' = "streaming"
    BY <1>2, <1>8
  <2> HIDE DEF e, c
  <2> QED
    BY <1>2, <2>1, <2>2, <2>3, AppliedStep
<1> QED
  BY <1>1, <1>2, <1>5, <1>7, <1>9
------------------------------------------------------------------------------
(***************************************************************************)
(* All steps together. The two action properties are part of the step, as  *)
(* they follow from the same case analysis.                                *)
(***************************************************************************)
NoRegress ==
  /\ ready' => cursor' >= cursor
  /\ \A k \in Watched : (items[k].value # 0 /\ items'[k].value # 0)
       => items'[k].value >= items[k].value

\* Steps that leave the cache alone.
LEMMA CacheStays ==
  ASSUME TypeOK, UNCHANGED cacheVars
  PROVE  NoRegress
<1>1. cursor \in Nat /\ \A k \in Watched : items[k].value \in Nat
  BY Types
<1> QED
  BY <1>1 DEF NoRegress, cacheVars

\* Steps that apply something the server said.
LEMMA CacheAdvances ==
  ASSUME IInv, ReplaceSnapshot \/ ApplyGet \/ \E i \in 1 .. Len(log) : HandleDelete(i)
  PROVE  IInv' /\ NoRegress
<1>1. /\ IInv' /\ cursor <= cursor'
      /\ \A k \in Watched : items'[k].value # 0 => items[k].value <= items'[k].value
  BY ReplaceSnapshotStep, ApplyGetStep, HandleDeleteStep
<1>2. /\ cursor \in Nat /\ cursor' \in Nat
      /\ \A k \in Watched : items[k].value \in Nat /\ items'[k].value \in Nat
  <2>1. TypeOK /\ TypeOK'
    BY <1>1 DEF IInv
  <2>2. cursor \in Nat /\ \A k \in Watched : items[k].value \in Nat
    BY <2>1, Types
  <2>3. items' \in [Watched -> CacheEntry] /\ cursor' \in Nat
    BY <2>1 DEF TypeOK
  <2>4. \A k \in Watched : items'[k] \in CacheEntry
    BY <2>3
  <2> QED
    BY <2>2, <2>3, <2>4 DEF CacheEntry
<1> QED
  BY <1>1, <1>2 DEF NoRegress

LEMMA NextStep == IInv /\ [Next]_vars => IInv' /\ NoRegress
<1> SUFFICES ASSUME IInv, [Next]_vars
             PROVE  IInv' /\ NoRegress
  OBVIOUS
<1>0. TypeOK
  BY DEF IInv
<1>1. CASE \E k \in Keys, op \in Operation : Write(k, op)
  BY <1>0, <1>1, WriteStep, CacheStays DEF Write
<1>2. CASE SnapshotRows
  BY <1>0, <1>2, SnapshotRowsStep, CacheStays DEF SnapshotRows
<1>3. CASE SnapshotMax
  BY <1>0, <1>3, SnapshotMaxStep, CacheStays DEF SnapshotMax
<1>4. CASE OpenWatch
  BY <1>0, <1>4, OpenWatchStep, CacheStays DEF OpenWatch
<1>5. CASE \E i \in 1 .. Len(log) : HandleSet(i)
  BY <1>0, <1>5, HandleSetStep, CacheStays DEF HandleSet
<1>6. CASE ReplaceSnapshot \/ ApplyGet \/ \E i \in 1 .. Len(log) : HandleDelete(i)
  BY <1>6, CacheAdvances
<1>7. CASE HandleReload \/ StreamEnds \/ RunOnceFails \/ BackoffElapsed
  <2>1. UNCHANGED cacheVars
    BY <1>7 DEF HandleReload, StreamEnds, RunOnceFails, BackoffElapsed
  <2> QED
    BY <1>0, <1>7, <2>1, MoveActions, CacheStays
<1>8. CASE Restart
  <2>1. ready' = FALSE /\ \A k \in Watched : items'[k].value = 0
    BY <1>8 DEF Restart, NoEntry
  <2> QED
    BY <1>8, <2>1, RestartStep DEF NoRegress
<1>9. CASE UNCHANGED vars
  <2>1. UNCHANGED <<serverVars, cacheVars, historyVars, phase, snap, got, faults>>
    BY <1>9 DEF vars, serverVars, cacheVars, historyVars
  <2>2. IInv'
    BY <2>1 DEF IInv, TypeOK, RowInv, BoundInv, SnapInv, LoadedInv, GotInv, WatchedEvents,
                StaleOnlyIfComing, EntriesAreLabelled, serverVars, cacheVars, historyVars
  <2> QED
    BY <1>0, <2>1, <2>2, CacheStays
<1> QED
  BY <1>1, <1>2, <1>3, <1>4, <1>5, <1>6, <1>7, <1>8, <1>9 DEF Next, TaskStep

(***************************************************************************)
(* The inductive invariant.                                                *)
(***************************************************************************)
THEOREM Invariance == Spec => []IInv
<1> QED
  BY InitIInv, NextStep, PTL DEF Spec

(***************************************************************************)
(* The variables of the agent keep their types (agent/src/cache.rs).       *)
(***************************************************************************)
THEOREM TypeCorrect == Spec => []TypeOK
<1>1. IInv => TypeOK
  BY DEF IInv
<1> QED
  BY <1>1, Invariance, PTL

(***************************************************************************)
(* A ready cache is wrong about a key only if the key's latest event is    *)
(* still coming on the stream, or is one a snapshot or a resumed stream    *)
(* lost, although a set is applied with the value of another moment than   *)
(* the event's and a delete without looking at the entry (watch.rs:105-135,*)
(* cache.rs:66-112).                                                       *)
(***************************************************************************)
THEOREM CacheIsExplained == Spec => []StaleOnlyIfComing
<1>1. IInv => StaleOnlyIfComing
  BY DEF IInv
<1> QED
  BY <1>1, Invariance, PTL

(***************************************************************************)
(* The event_id handed out with an entry is the write it came from and not *)
(* beyond the cursor, even if the GET outran the stream (cache.rs:78-90).  *)
(***************************************************************************)
THEOREM LabelsAreWrites == Spec => []EntriesAreLabelled
<1>1. IInv => EntriesAreLabelled
  BY DEF IInv
<1> QED
  BY <1>1, Invariance, PTL

(***************************************************************************)
(* The cursor does not move back, not even when a reload replaces it       *)
(* without comparing (cache.rs:66-76): the snapshot is younger.            *)
(***************************************************************************)
THEOREM CursorMonotone == Spec => CursorNeverRegresses
<1>1. IInv /\ [Next]_vars => [ready' => cursor' >= cursor]_vars
  BY NextStep DEF NoRegress
<1> QED
  BY <1>1, Invariance, PTL DEF Spec, CursorNeverRegresses

(***************************************************************************)
(* A value is never replaced by an older one of the same key, by a GET, a  *)
(* snapshot or anything else (cache.rs:66-90).                             *)
(***************************************************************************)
THEOREM ValuesMonotone == Spec => ValuesNeverRegress
<1>1. IInv /\ [Next]_vars
        => [\A k \in Watched : (items[k].value # 0 /\ items'[k].value # 0)
              => items'[k].value >= items[k].value]_vars
  BY NextStep DEF NoRegress
<1> QED
  BY <1>1, Invariance, PTL DEF Spec, ValuesNeverRegress
==============================================================================
