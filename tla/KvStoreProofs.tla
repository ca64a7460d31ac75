---------------------------- MODULE KvStoreProofs ----------------------------
(***************************************************************************)
(* Proofs about the write path, for any number of handlers and keys, any   *)
(* page limit and any bound on ids.                                        *)
(*                                                                         *)
(* None of the safety properties of KvStore is inductive. What makes them  *)
(* so is said by IInv: the advisory lock serialises the part of a          *)
(* transaction between nextval and COMMIT, so an id that has been handed   *)
(* out and not yet published is the newest one, and is beyond every        *)
(* published event and every reader's cursor.                              *)
(***************************************************************************)
EXTENDS KvStore, TLAPS

\* Exactly the transactions past pg_advisory_xact_lock hold the lock.
LockInv == \A h \in Handlers : pc[h] \in Locked <=> writeLock = h

\* What a transaction has written is determined by the statement it is at.
TxShape(t, s) ==
  /\ s \in {"idle", "locking", "locked", "deleted"} <=> t.id = 0
  /\ s \in {"deleted", "notifying", "committing"} <=> t.row
  /\ s = "committing" <=> t.note
  /\ s = "inserted" => t.op = "set"
  /\ s = "deleted" => t.op = "delete"

TxInv == \A h \in Handlers : TxShape(tx[h], pc[h])

\* The unpublished id, if there is one, is newer than everything published.
IdInv ==
  /\ \A i \in 1 .. Len(kv_events) : kv_events[i].id <= idSeq
  /\ pageSince <= idSeq
  /\ \A h \in Handlers : tx[h].id # 0 =>
       /\ tx[h].id = idSeq
       /\ pageSince < idSeq
       /\ \A i \in 1 .. Len(kv_events) : kv_events[i].id < idSeq

\* The row a DELETE has found stays there until the DELETE commits.
VictimInv ==
  \A h \in Handlers :
    (tx[h].op = "delete" /\ tx[h].row) => kv_configs[tx[h].key] # 0

\* The properties of the committed state.
Committed ==
  /\ CommitOrderIsIdOrder
  /\ TableMatchesLog
  /\ DeletesHaveVictims
  /\ NotificationsMirrorLog

IInv == TypeOK /\ LockInv /\ TxInv /\ IdInv /\ VictimInv /\ Committed /\ PagingMissesNothing
------------------------------------------------------------------------------
(* The invariant holds initially: no event, no row, nobody in a transaction.*)
LEMMA InitEstablishes == Init => IInv
<1> SUFFICES ASSUME Init PROVE IInv
  OBVIOUS
<1> USE KvStoreAssumption DEF Init
<1>1. TypeOK
  <2>1. \A k \in Keys : NewTx(k, "set") \in Transaction
    BY DEF NewTx, Transaction, Operation
  <2>2. tx \in [Handlers -> Transaction]
    BY <2>1
  <2> QED
    BY <2>2 DEF TypeOK, PC
<1>2. LockInv
  BY DEF LockInv, Locked
<1>3. TxInv
  BY DEF TxInv, TxShape, NewTx
<1>4. IdInv
  BY DEF IdInv, NewTx
<1>5. VictimInv
  BY DEF VictimInv, NewTx
<1>6. Committed
  BY DEF Committed, CommitOrderIsIdOrder, TableMatchesLog, DeletesHaveVictims,
         NotificationsMirrorLog
<1>7. PagingMissesNothing
  BY DEF PagingMissesNothing
<1> QED
  BY <1>1, <1>2, <1>3, <1>4, <1>5, <1>6, <1>7 DEF IInv

(***************************************************************************)
(* Begin, the lock and the statements inside a transaction leave everything*)
(* a reader can see as it was.                                             *)
(***************************************************************************)
LEMMA UnpublishedStep ==
  ASSUME Committed, PagingMissesNothing, UNCHANGED <<committedVars, pageVars>>
  PROVE  Committed' /\ PagingMissesNothing'
BY DEF Committed, PagingMissesNothing, CommitOrderIsIdOrder, TableMatchesLog, IsLast,
       DeletesHaveVictims, NotificationsMirrorLog, committedVars, pageVars

(***************************************************************************)
(* While a handler holds the lock, no other handler has taken an id.       *)
(***************************************************************************)
LEMMA LockExcludes ==
  ASSUME TypeOK, LockInv, TxInv, NEW h \in Handlers, pc[h] \in Locked
  PROVE  \A g \in Handlers \ {h} : tx[g].id = 0
<1>1. \A g \in Handlers \ {h} : pc[g] \in {"idle", "locking"}
  BY DEF TypeOK, LockInv, Locked, PC
<1> QED
  BY <1>1 DEF TxInv, TxShape

(***************************************************************************)
(* A step of one transaction that publishes nothing preserves IInv if it   *)
(* takes or drops the lock along with its position, writes only what its   *)
(* new position allows, draws ids only under the lock, and marks a delete  *)
(* as done only if the row is there.                                       *)
(***************************************************************************)
LEMMA HandlerStep ==
  ASSUME IInv, NEW h \in Handlers, NEW t \in Transaction, NEW s \in PC,
         pc' = [pc EXCEPT ![h] = s],
         tx' = [tx EXCEPT ![h] = t],
         UNCHANGED <<committedVars, pageVars>>,
         TxShape(t, s),
         \/ pc[h] \in Locked /\ s \in Locked /\ UNCHANGED writeLock
         \/ pc[h] \notin Locked /\ s \notin Locked /\ UNCHANGED writeLock
         \/ writeLock = NoHandler /\ s \in Locked /\ writeLock' = h
         \/ s \notin Locked /\ writeLock' = (IF writeLock = h THEN NoHandler ELSE writeLock),
         \/ t.id \in {0, tx[h].id} /\ UNCHANGED idSeq
         \/ pc[h] \in Locked /\ idSeq' = idSeq + 1 /\ t.id = idSeq + 1,
         (t.op = "delete" /\ t.row) => kv_configs[t.key] # 0
  PROVE  IInv'
<1>1. Committed' /\ PagingMissesNothing'
  BY UnpublishedStep DEF IInv
<1>2. TypeOK'
  BY DEF IInv, TypeOK, committedVars, pageVars
<1>3. /\ pc'[h] = s /\ tx'[h] = t
      /\ \A g \in Handlers \ {h} : pc'[g] = pc[g] /\ tx'[g] = tx[g]
  BY DEF IInv, TypeOK
<1>4. LockInv'
  BY <1>3, KvStoreAssumption DEF IInv, LockInv
<1>5. TxInv'
  BY <1>3 DEF IInv, TxInv
<1>6. VictimInv'
  BY <1>3 DEF IInv, VictimInv, committedVars
<1>7. IdInv'
  <2>1. /\ idSeq \in Nat /\ pageSince \in Nat
        /\ \A i \in 1 .. Len(kv_events) : kv_events[i].id \in Nat
    <3>1. idSeq \in Nat /\ pageSince \in Nat /\ kv_events \in Seq(Event)
      BY DEF IInv, TypeOK
    <3>2. \A i \in 1 .. Len(kv_events) : kv_events[i] \in Event
      BY <3>1
    <3> QED
      BY <3>1, <3>2 DEF Event
  <2>2. UNCHANGED <<kv_events, pageSince>>
    BY DEF committedVars, pageVars
  <2>3. CASE t.id \in {0, tx[h].id} /\ UNCHANGED idSeq
    BY <1>3, <2>1, <2>2, <2>3 DEF IInv, IdInv
  <2>4. CASE pc[h] \in Locked /\ idSeq' = idSeq + 1 /\ t.id = idSeq + 1
    BY <1>3, <2>1, <2>2, <2>4, LockExcludes DEF IInv, IdInv
  <2> QED
    BY <2>3, <2>4
<1> QED
  BY <1>1, <1>2, <1>4, <1>5, <1>6, <1>7 DEF IInv

(***************************************************************************)
(* Every statement but COMMIT is such a step.                              *)
(***************************************************************************)
LEMMA UnpublishedActions ==
  ASSUME IInv, NEW h \in Handlers,
         \/ \E k \in Keys, op \in Operation : Begin(h, k, op)
         \/ AcquireLock(h) \/ SetInsertEvent(h) \/ SetUpsertConfig(h)
         \/ DeleteConfig(h) \/ DeleteInsertEvent(h) \/ Notify(h) \/ Abort(h)
  PROVE  IInv'
<1>t. /\ tx[h] \in Transaction /\ pc[h] \in PC /\ idSeq \in Nat
      /\ TxShape(tx[h], pc[h])
      /\ pc[h] \in Locked <=> writeLock = h
      /\ (tx[h].op = "delete" /\ tx[h].row) => kv_configs[tx[h].key] # 0
  BY DEF IInv, TypeOK, TxInv, LockInv, VictimInv
<1>n. \A k \in Keys, op \in Operation :
        NewTx(k, op) \in Transaction /\ TxShape(NewTx(k, op), "idle") /\ TxShape(NewTx(k, op), "locking")
             /\ NewTx(k, op).id = 0 /\ ~NewTx(k, op).row
  BY DEF NewTx, Transaction, Operation, TxShape
<1>k. tx[h].key \in Keys /\ "set" \in Operation
  BY <1>t DEF Transaction, Operation
<1>1. ASSUME NEW k \in Keys, NEW op \in Operation, Begin(h, k, op) PROVE IInv'
  <2> DEFINE t == NewTx(k, op)
  <2>1. t \in Transaction /\ TxShape(t, "locking") /\ t.id = 0 /\ ~t.row
    BY <1>n
  <2> HIDE DEF t
  <2> QED
    BY <1>1, <1>t, <2>1, HandlerStep DEF Begin, Goto, PC, Locked, t
<1>2. CASE AcquireLock(h)
  <2>1. TxShape(tx[h], "locked") /\ tx' = [tx EXCEPT ![h] = tx[h]]
    BY <1>2, <1>t DEF AcquireLock, TxShape, IInv, TypeOK
  <2> QED
    BY <1>2, <1>t, <2>1, HandlerStep DEF AcquireLock, Goto, PC, Locked
<1>3. CASE SetInsertEvent(h)
  <2> DEFINE t == [tx[h] EXCEPT !.id = idSeq + 1]
  <2>1. t \in Transaction /\ TxShape(t, "inserted") /\ ~t.row /\ t.id = idSeq + 1
    BY <1>3, <1>t DEF SetInsertEvent, Transaction, TxShape
  <2> HIDE DEF t
  <2> QED
    BY <1>3, <1>t, <2>1, HandlerStep DEF SetInsertEvent, InsertEvent, Goto, PC, Locked, t
<1>4. CASE SetUpsertConfig(h)
  <2> DEFINE t == [tx[h] EXCEPT !.row = TRUE]
  <2>1. t \in Transaction /\ TxShape(t, "notifying") /\ t.op = "set" /\ t.id = tx[h].id
    BY <1>4, <1>t DEF SetUpsertConfig, Transaction, TxShape
  <2> HIDE DEF t
  <2> QED
    BY <1>4, <1>t, <2>1, HandlerStep DEF SetUpsertConfig, Goto, PC, Locked, t
<1>5. CASE DeleteConfig(h)
  <2>1. CASE kv_configs[tx[h].key] = 0
    <3> DEFINE t == NewTx(tx[h].key, "set")
    <3>1. t \in Transaction /\ TxShape(t, "idle") /\ t.id = 0 /\ ~t.row
      BY <1>n, <1>k
    <3> HIDE DEF t
    <3> QED
      BY <1>5, <1>t, <2>1, <3>1, HandlerStep DEF DeleteConfig, EndTx, Goto, PC, Locked, t
  <2>2. CASE kv_configs[tx[h].key] # 0
    <3> DEFINE t == [tx[h] EXCEPT !.row = TRUE]
    <3>1. t \in Transaction /\ TxShape(t, "deleted") /\ t.key = tx[h].key /\ t.id = tx[h].id
      BY <1>5, <1>t DEF DeleteConfig, Transaction, TxShape
    <3> HIDE DEF t
    <3> QED
      BY <1>5, <1>t, <2>2, <3>1, HandlerStep DEF DeleteConfig, Goto, PC, Locked, t
  <2> QED
    BY <2>1, <2>2
<1>6. CASE DeleteInsertEvent(h)
  <2> DEFINE t == [tx[h] EXCEPT !.id = idSeq + 1]
  <2>1. /\ t \in Transaction /\ TxShape(t, "notifying") /\ t.id = idSeq + 1
        /\ t.op = tx[h].op /\ t.row = tx[h].row /\ t.key = tx[h].key
    BY <1>6, <1>t DEF DeleteInsertEvent, Transaction, TxShape
  <2> HIDE DEF t
  <2> QED
    BY <1>6, <1>t, <2>1, HandlerStep DEF DeleteInsertEvent, InsertEvent, Goto, PC, Locked, t
<1>7. CASE Notify(h)
  <2> DEFINE t == [tx[h] EXCEPT !.note = TRUE]
  <2>1. /\ t \in Transaction /\ TxShape(t, "committing") /\ t.id = tx[h].id
        /\ t.op = tx[h].op /\ t.row = tx[h].row /\ t.key = tx[h].key
    BY <1>7, <1>t DEF Notify, Transaction, TxShape
  <2> HIDE DEF t
  <2> QED
    BY <1>7, <1>t, <2>1, HandlerStep DEF Notify, Goto, PC, Locked, t
<1>8. CASE Abort(h)
  <2> DEFINE t == NewTx(tx[h].key, "set")
  <2>1. t \in Transaction /\ TxShape(t, "idle") /\ t.id = 0 /\ ~t.row
    BY <1>n, <1>k
  <2> HIDE DEF t
  <2> QED
    BY <1>8, <1>t, <2>1, HandlerStep DEF Abort, EndTx, Goto, PC, Locked, t
<1> QED
  BY <1>1, <1>2, <1>3, <1>4, <1>5, <1>6, <1>7, <1>8

(***************************************************************************)
(* COMMIT appends the newest id to the log, applies its row and queues its *)
(* notification, in one step.                                              *)
(***************************************************************************)
LEMMA CommitStep ==
  ASSUME IInv, NEW h \in Handlers, Commit(h)
  PROVE  IInv'
<1> DEFINE e == TxEvent(h)
           n == Len(kv_events)
<1>1. /\ tx[h] \in Transaction /\ tx[h].id # 0 /\ tx[h].row /\ tx[h].note
      /\ pc[h] \in Locked /\ writeLock = h
      /\ tx[h].id = idSeq /\ pageSince < idSeq
      /\ \A i \in 1 .. n : kv_events[i].id < idSeq
      /\ tx[h].op = "delete" => kv_configs[tx[h].key] # 0
  BY DEF Commit, IInv, TypeOK, LockInv, TxInv, TxShape, IdInv, VictimInv, Locked
<1>2. /\ e \in Event /\ e.id = idSeq /\ e.op = tx[h].op /\ e.key = tx[h].key
      /\ kv_events \in Seq(Event) /\ notified = kv_events
      /\ kv_configs \in [Keys -> Nat]
      /\ idSeq \in Nat /\ pageSince \in Nat
  BY <1>1 DEF TxEvent, Transaction, Event, IInv, TypeOK, Committed, NotificationsMirrorLog
<1>3. /\ kv_events' = Append(kv_events, e)
      /\ notified' = Append(kv_events, e)
      /\ kv_configs' = [kv_configs EXCEPT ![e.key] = IF e.op = "set" THEN e.id ELSE 0]
      /\ UNCHANGED <<idSeq, pageSince, pageSeen>>
  BY <1>1, <1>2 DEF Commit, pageVars, TxEvent
<1>4. /\ n \in Nat /\ Len(kv_events') = n + 1 /\ kv_events'[n + 1] = e
      /\ \A i \in 1 .. n : kv_events'[i] = kv_events[i] /\ kv_events[i] \in Event
  BY <1>2, <1>3
<1>5. /\ NewTx(tx[h].key, "set") \in Transaction
      /\ TxShape(NewTx(tx[h].key, "set"), "idle")
      /\ NewTx(tx[h].key, "set").id = 0 /\ ~NewTx(tx[h].key, "set").row
  BY <1>1 DEF NewTx, Transaction, Operation, TxShape
<1>6. /\ pc' = [pc EXCEPT ![h] = "idle"]
      /\ tx' = [tx EXCEPT ![h] = NewTx(tx[h].key, "set")]
      /\ writeLock' = NoHandler
  BY <1>1 DEF Commit, EndTx, Goto
<1>7. /\ pc'[h] = "idle" /\ tx'[h] = NewTx(tx[h].key, "set")
      /\ \A g \in Handlers \ {h} : pc'[g] = pc[g] /\ tx'[g] = tx[g]
  BY <1>6 DEF IInv, TypeOK
<1>8. \A g \in Handlers \ {h} : tx[g].id = 0 /\ ~tx[g].row
  <2>1. \A g \in Handlers \ {h} : pc[g] \in {"idle", "locking"}
    BY <1>1 DEF IInv, TypeOK, LockInv, Locked, PC
  <2>2. \A g \in Handlers : tx[g].row \in BOOLEAN
    BY DEF IInv, TypeOK, Transaction
  <2> QED
    BY <2>1, <2>2 DEF IInv, TxInv, TxShape
<1> HIDE DEF e, n
<1>9. TypeOK'
  <2>1. kv_events' \in Seq(Event) /\ notified' \in Seq(Event)
    BY <1>2, <1>3
  <2>2. kv_configs' \in [Keys -> Nat]
    BY <1>2, <1>3 DEF Event
  <2>3. pc' \in [Handlers -> PC] /\ tx' \in [Handlers -> Transaction]
    BY <1>5, <1>6 DEF IInv, TypeOK, PC
  <2> QED
    BY <1>3, <1>6, <2>1, <2>2, <2>3 DEF IInv, TypeOK
<1>10. LockInv'
  BY <1>1, <1>6, <1>7, KvStoreAssumption DEF IInv, LockInv, Locked
<1>11. TxInv'
  BY <1>5, <1>7 DEF IInv, TxInv
<1>12. IdInv'
  <2>1. \A i \in 1 .. n + 1 : kv_events'[i].id <= idSeq
    <3> SUFFICES ASSUME NEW i \in 1 .. n + 1 PROVE kv_events'[i].id <= idSeq
      OBVIOUS
    <3>1. CASE i = n + 1
      BY <1>2, <1>4, <3>1
    <3>2. CASE i # n + 1
      <4>1. i \in 1 .. n /\ kv_events[i].id \in Nat
        BY <1>4, <3>2 DEF Event
      <4> QED
        BY <1>1, <1>2, <1>4, <4>1
    <3> QED
      BY <3>1, <3>2
  <2>2. \A g \in Handlers : tx'[g].id = 0
    BY <1>5, <1>7, <1>8
  <2> QED
    BY <1>1, <1>2, <1>3, <1>4, <2>1, <2>2 DEF IdInv
<1>13. VictimInv'
  BY <1>5, <1>7, <1>8 DEF VictimInv
<1>14. Committed'
  <2>1. CommitOrderIsIdOrder'
    <3>1. \A i, j \in 1 .. n : i < j => kv_events[i].id < kv_events[j].id
      BY DEF IInv, Committed, CommitOrderIsIdOrder, n
    <3>2. ASSUME NEW i \in 1 .. n + 1, NEW j \in 1 .. n + 1, i < j
          PROVE  kv_events'[i].id < kv_events'[j].id
      <4>1. i \in 1 .. n /\ (j = n + 1 \/ j \in 1 .. n)
        BY <1>4, <3>2
      <4> QED
        BY <1>1, <1>2, <1>4, <3>1, <3>2, <4>1
    <3> QED
      BY <1>4, <3>2 DEF CommitOrderIsIdOrder
  <2>2. NotificationsMirrorLog'
    BY <1>3 DEF NotificationsMirrorLog
  <2>3. TableMatchesLog'
    <3>1. /\ \A i \in 1 .. n : IsLast(i)' => kv_events[i].key # e.key /\ IsLast(i)
          /\ \A i \in 1 .. n : IsLast(i) /\ kv_events[i].key # e.key => IsLast(i)'
          /\ IsLast(n + 1)'
      BY <1>2, <1>4 DEF IsLast, n
    <3>2. /\ e.key \in Keys /\ kv_configs'[e.key] = IF e.op = "set" THEN e.id ELSE 0
          /\ \A k \in Keys \ {e.key} : kv_configs'[k] = kv_configs[k]
      BY <1>2, <1>3 DEF Event
    <3>3. \A i \in 1 .. n : kv_events[i].key \in Keys
      BY <1>4 DEF Event
    <3>4. /\ \A i \in 1 .. n : IsLast(i) => kv_configs[kv_events[i].key]
                                              = IF kv_events[i].op = "set" THEN kv_events[i].id ELSE 0
          /\ \A k \in Keys : kv_configs[k] # 0 =>
               \E i \in 1 .. n : kv_events[i].key = k /\ IsLast(i)
      BY DEF IInv, Committed, TableMatchesLog, n
    <3>5. ASSUME NEW i \in 1 .. n + 1, IsLast(i)'
          PROVE  kv_configs'[kv_events'[i].key]
                   = IF kv_events'[i].op = "set" THEN kv_events'[i].id ELSE 0
      <4>1. CASE i = n + 1
        BY <1>4, <3>2, <4>1
      <4>2. CASE i # n + 1
        <5>1. i \in 1 .. n
          BY <1>4, <4>2
        <5> QED
          BY <1>4, <3>1, <3>2, <3>3, <3>4, <3>5, <5>1
      <4> QED
        BY <4>1, <4>2
    <3>6. ASSUME NEW k \in Keys, kv_configs'[k] # 0
          PROVE  \E i \in 1 .. n + 1 : kv_events'[i].key = k /\ IsLast(i)'
      <4>1. CASE k = e.key
        <5>1. n + 1 \in 1 .. n + 1
          BY <1>4
        <5> QED
          BY <1>4, <3>1, <4>1, <5>1 DEF IsLast
      <4>2. CASE k # e.key
        <5>1. PICK i \in 1 .. n : kv_events[i].key = k /\ IsLast(i)
          BY <3>2, <3>4, <3>6, <4>2
        <5> QED
          BY <1>4, <3>1, <4>2, <5>1
      <4> QED
        BY <4>1, <4>2
    <3> QED
      BY <1>4, <3>5, <3>6 DEF TableMatchesLog
  <2>4. DeletesHaveVictims'
    <3> SUFFICES ASSUME NEW j \in 1 .. n + 1, kv_events'[j].op = "delete"
                 PROVE  \E i \in 1 .. j - 1 :
                          /\ kv_events'[i].key = kv_events'[j].key
                          /\ kv_events'[i].op = "set"
                          /\ \A m \in i + 1 .. j - 1 : kv_events'[m].key # kv_events'[j].key
      BY <1>4 DEF DeletesHaveVictims
    <3>1. CASE j # n + 1
      <4>1. j \in 1 .. n /\ kv_events[j].op = "delete"
        BY <1>4, <3>1
      <4>2. PICK i \in 1 .. j - 1 :
              /\ kv_events[i].key = kv_events[j].key
              /\ kv_events[i].op = "set"
              /\ \A m \in i + 1 .. j - 1 : kv_events[m].key # kv_events[j].key
        BY <4>1 DEF IInv, Committed, DeletesHaveVictims, n
      <4> QED
        BY <1>4, <4>1, <4>2
    <3>2. CASE j = n + 1
      <4>1. kv_configs[e.key] # 0 /\ e.key \in Keys
        BY <1>1, <1>2, <1>4, <3>2 DEF Event
      <4>2. PICK i \in 1 .. n : kv_events[i].key = e.key /\ IsLast(i)
        BY <4>1 DEF IInv, Committed, TableMatchesLog, n
      <4>3. kv_events[i].op = "set"
        BY <4>1, <4>2 DEF IInv, Committed, TableMatchesLog, n
      <4> QED
        BY <1>4, <3>2, <4>2, <4>3 DEF IsLast, n
    <3> QED
      BY <3>1, <3>2
  <2> QED
    BY <2>1, <2>2, <2>3, <2>4 DEF Committed
<1>15. PagingMissesNothing'
  BY <1>1, <1>2, <1>3, <1>4 DEF IInv, PagingMissesNothing, n
<1> QED
  BY <1>9, <1>10, <1>11, <1>12, <1>13, <1>14, <1>15 DEF IInv

(***************************************************************************)
(* A page moves the cursor to a published id and hands over everything in  *)
(* between.                                                                *)
(***************************************************************************)
LEMMA ListEventsStep ==
  ASSUME IInv, ListEvents
  PROVE  IInv'
<1>1. PICK to \in Beyond(pageSince) :
        /\ pageSeen' = pageSeen \cup {n \in Beyond(pageSince) : n <= to}
        /\ pageSince' = to
  BY DEF ListEvents
<1>2. /\ UNCHANGED <<kv_events, kv_configs, notified, idSeq, writeLock, pc, tx>>
      /\ kv_events \in Seq(Event) /\ pageSince \in Nat /\ idSeq \in Nat
  BY DEF ListEvents, committedVars, txVars, IInv, TypeOK
<1>3. \A i \in 1 .. Len(kv_events) : kv_events[i].id \in Nat
  <2>1. \A i \in 1 .. Len(kv_events) : kv_events[i] \in Event
    BY <1>2
  <2> QED
    BY <2>1 DEF Event
<1>4. PICK i \in 1 .. Len(kv_events) : kv_events[i].id = to
  BY DEF Beyond
<1>5. to \in Nat /\ pageSeen' \subseteq Nat
  <2>1. Beyond(pageSince) \subseteq Nat
    BY <1>3 DEF Beyond
  <2> QED
    BY <1>1, <2>1 DEF IInv, TypeOK
<1>6. TypeOK'
  BY <1>1, <1>2, <1>5 DEF IInv, TypeOK
<1>7. IdInv'
  BY <1>1, <1>2, <1>4 DEF IInv, IdInv
<1>8. PagingMissesNothing'
  <2> SUFFICES ASSUME NEW j \in 1 .. Len(kv_events),
                      kv_events[j].key \in PagedKeys, kv_events[j].id <= to
               PROVE  kv_events[j].id \in pageSeen'
    BY <1>1, <1>2 DEF PagingMissesNothing
  <2>1. CASE kv_events[j].id <= pageSince
    BY <1>1, <2>1 DEF IInv, PagingMissesNothing
  <2>2. CASE kv_events[j].id > pageSince
    <3>1. kv_events[j].id \in Beyond(pageSince)
      BY <2>2 DEF Beyond
    <3> QED
      BY <1>1, <3>1
  <2> QED
    BY <1>2, <1>3, <2>1, <2>2
<1>9. LockInv' /\ TxInv' /\ VictimInv' /\ Committed'
  BY <1>2 DEF IInv, LockInv, TxInv, VictimInv, Committed, CommitOrderIsIdOrder,
      TableMatchesLog, IsLast, DeletesHaveVictims, NotificationsMirrorLog
<1> QED
  BY <1>6, <1>7, <1>8, <1>9 DEF IInv

LEMMA StutterStep ==
  ASSUME IInv, UNCHANGED vars
  PROVE  IInv'
BY DEF vars, IInv, TypeOK, LockInv, TxInv, IdInv, VictimInv, Committed, CommitOrderIsIdOrder,
    TableMatchesLog, IsLast, DeletesHaveVictims, NotificationsMirrorLog, PagingMissesNothing
------------------------------------------------------------------------------
(***************************************************************************)
(* IInv holds in every reachable state.                                    *)
(***************************************************************************)
THEOREM Invariance == Spec => []IInv
<1>1. IInv /\ [Next]_vars => IInv'
  <2> SUFFICES ASSUME IInv, [Next]_vars PROVE IInv'
    OBVIOUS
  <2>1. ASSUME NEW h \in Handlers, NEW k \in Keys, NEW op \in Operation, Begin(h, k, op)
        PROVE  IInv'
    BY <2>1, UnpublishedActions
  <2>2. ASSUME NEW h \in Handlers, AcquireLock(h) \/ Statement(h) \/ Abort(h)
        PROVE  IInv'
    BY <2>2, UnpublishedActions, CommitStep DEF Statement
  <2>3. CASE ListEvents
    BY <2>3, ListEventsStep
  <2>4. CASE UNCHANGED vars
    BY <2>4, StutterStep
  <2> QED
    BY <2>1, <2>2, <2>3, <2>4 DEF Next
<1> QED
  BY InitEstablishes, <1>1, PTL DEF Spec

(***************************************************************************)
(* No reachable state has a value outside its type; in particular only     *)
(* events with a real id are published.                                    *)
(***************************************************************************)
THEOREM TypeCorrect == Spec => []TypeOK
<1>1. IInv => TypeOK
  BY DEF IInv
<1> QED
  BY <1>1, Invariance, PTL

(***************************************************************************)
(* Events are committed in the order of their ids, however many requests   *)
(* run at once, fail or are rolled back (kv.rs:105-122).                   *)
(***************************************************************************)
THEOREM IdsFollowCommits == Spec => []CommitOrderIsIdOrder
<1>1. IInv => CommitOrderIsIdOrder
  BY DEF IInv, Committed
<1> QED
  BY <1>1, Invariance, PTL

(***************************************************************************)
(* kv_configs is what replaying kv_events gives, after every commit and    *)
(* whatever was rolled back (kv.rs:115-132, 174-192).                      *)
(***************************************************************************)
THEOREM TableIsReplayedLog == Spec => []TableMatchesLog
<1>1. IInv => TableMatchesLog
  BY DEF IInv, Committed
<1> QED
  BY <1>1, Invariance, PTL

(***************************************************************************)
(* A delete event follows an event that set its key, also when several     *)
(* deletes and sets of the key race (kv.rs:170-192).                       *)
(***************************************************************************)
THEOREM DeletionsCorrect == Spec => []DeletesHaveVictims
<1>1. IInv => DeletesHaveVictims
  BY DEF IInv, Committed
<1> QED
  BY <1>1, Invariance, PTL

(***************************************************************************)
(* Replicas are told of exactly the committed events, in their order       *)
(* (kv.rs:138-144, 194-200).                                               *)
(***************************************************************************)
THEOREM NotificationsCorrect == Spec => []NotificationsMirrorLog
<1>1. IInv => NotificationsMirrorLog
  BY DEF IInv, Committed
<1> QED
  BY <1>1, Invariance, PTL

(***************************************************************************)
(* No write ever commits behind a reader's cursor.                         *)
(***************************************************************************)
THEOREM PagingCorrect == Spec => []PagingMissesNothing
<1>1. IInv => PagingMissesNothing
  BY DEF IInv
<1> QED
  BY <1>1, Invariance, PTL

(***************************************************************************)
(* Every behaviour of the write path is a behaviour of ConfigStore.        *)
(***************************************************************************)
THEOREM Refinement == Spec => ImplementsConfigStore
<1>1. Init => Store!Init
  BY DEF Init, Store!Init
<1>2. IInv /\ [Next]_vars => [Store!Next]_Store!storeVars
  <2> SUFFICES ASSUME IInv, [Next]_vars PROVE [Store!Next]_Store!storeVars
    OBVIOUS
  <2>1. ASSUME NEW h \in Handlers, Commit(h) PROVE Store!Next
    <3>1. /\ tx[h] \in Transaction /\ tx[h].id # 0 /\ tx[h].row
          /\ tx[h].id = idSeq
          /\ \A i \in 1 .. Len(kv_events) : kv_events[i].id < idSeq
          /\ tx[h].op = "delete" => kv_configs[tx[h].key] # 0
          /\ kv_events \in Seq(Event)
      BY <2>1 DEF Commit, IInv, TypeOK, LockInv, TxInv, TxShape, IdInv, VictimInv, Locked
    <3>2. TxEvent(h) \in Event
      BY <3>1 DEF TxEvent, Event, Transaction
    <3>3. /\ kv_events' = Append(kv_events, TxEvent(h))
          /\ Len(kv_events') = Len(kv_events) + 1
          /\ kv_events'[Len(kv_events) + 1] = TxEvent(h)
      BY <2>1, <3>1, <3>2 DEF Commit
    <3>4. kv_configs' = [kv_configs EXCEPT ![tx[h].key] =
                           IF tx[h].op = "set" THEN TxEvent(h).id ELSE 0]
      BY <2>1, <3>1 DEF Commit, TxEvent
    <3>5. Store!Write(tx[h].key, tx[h].op)
      <4>1. kv_events'[Len(kv_events) + 1].id = tx[h].id
        BY <3>3 DEF TxEvent
      <4> QED
        BY <3>1, <3>3, <3>4, <4>1 DEF Store!Write, TxEvent
    <3>6. tx[h].key \in Keys /\ tx[h].op \in Store!Operation
      BY <3>1 DEF Transaction, Operation, Store!Operation
    <3> QED
      BY <3>5, <3>6 DEF Store!Next
  <2>2. ASSUME ~\E h \in Handlers : Commit(h) PROVE UNCHANGED <<kv_events, kv_configs>>
    BY <2>2 DEF Next, vars, Begin, AcquireLock, Statement, SetInsertEvent, InsertEvent,
       SetUpsertConfig, DeleteConfig, DeleteInsertEvent, Notify, Abort, ListEvents, committedVars
  <2> QED
    BY <2>1, <2>2 DEF Store!storeVars
<1> QED
  BY <1>1, <1>2, Invariance, PTL DEF Spec, ImplementsConfigStore, Store!Spec
==============================================================================
