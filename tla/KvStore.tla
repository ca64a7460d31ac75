------------------------------- MODULE KvStore -------------------------------
(***************************************************************************)
(* The write path of ferra-server (server/src/api/kv.rs) over Postgres,    *)
(* and a reader that pages through the event log (server/src/api/events.rs)*)
(*                                                                         *)
(* A handler is one slot for an HTTP write request, on any replica. Its    *)
(* transaction is a sequence of awaited statements, so other handlers run  *)
(* between any two of them. What a transaction has written stays in tx[h]  *)
(* until COMMIT makes it visible; a failed statement, a dropped connection,*)
(* a cancelled request or a dead replica rolls it back at any point.       *)
(*                                                                         *)
(* A value is abstracted to the id of the event that wrote it, so a row of *)
(* kv_configs is that id, 0 when the row does not exist.                   *)
(***************************************************************************)
EXTENDS Naturals, Sequences, FiniteSets

CONSTANTS
  Handlers,   \* slots for concurrent write requests
  NoHandler,  \* nobody holds the advisory lock
  Keys,       \* configuration keys
  PagedKeys,  \* the keys under the prefix of the reader of /v1/events
  PageLimit,  \* its ?limit=
  MaxId       \* bound: no new request once the sequence has reached MaxId

ASSUME KvStoreAssumption ==
  /\ NoHandler \notin Handlers
  /\ PagedKeys \subseteq Keys
  /\ PageLimit \in Nat \ {0}
  /\ MaxId \in Nat

VARIABLES
  kv_events,   \* committed rows of kv_events, in commit order
  kv_configs,  \* [Keys -> event id of the row, 0 = no row], committed
  idSeq,       \* kv_events_id_seq: the last id handed out, never rolled back
  notified,    \* notifications Postgres delivers, in commit order
  writeLock,   \* holder of advisory lock WRITE_LOCK_ID
  pc,          \* pc[h]: the statement handler h is about to issue
  tx,          \* tx[h]: the request and what its open transaction has written
  pageSince,   \* ?since= of the reader's next request to /v1/events
  pageSeen     \* ids the reader has been given (history)

txVars == <<writeLock, pc, tx>>
committedVars == <<kv_events, kv_configs, notified>>
pageVars == <<pageSince, pageSeen>>
vars == <<kv_events, kv_configs, idSeq, notified, writeLock, pc, tx, pageSince, pageSeen>>

Operation == {"set", "delete"}
Event == [id : Nat \ {0}, key : Keys, op : Operation]

(***************************************************************************)
(* id: the event row inserted (0: none yet); row: kv_configs touched;      *)
(* note: pg_notify called.                                                 *)
(***************************************************************************)
Transaction == [op : Operation, key : Keys, id : Nat, row : BOOLEAN, note : BOOLEAN]

PC == {"idle", "locking", "locked", "inserted", "deleted", "notifying", "committing"}

\* The statements between pg_advisory_xact_lock and the end of the transaction.
Locked == {"locked", "inserted", "deleted", "notifying", "committing"}

TypeOK ==
  /\ kv_events \in Seq(Event)
  /\ kv_configs \in [Keys -> Nat]
  /\ idSeq \in Nat
  /\ notified \in Seq(Event)
  /\ writeLock \in Handlers \cup {NoHandler}
  /\ pc \in [Handlers -> PC]
  /\ tx \in [Handlers -> Transaction]
  /\ pageSince \in Nat
  /\ pageSeen \in SUBSET Nat

NewTx(k, op) == [op |-> op, key |-> k, id |-> 0, row |-> FALSE, note |-> FALSE]

Init ==
  /\ kv_events = << >>
  /\ kv_configs = [k \in Keys |-> 0]
  /\ idSeq = 0
  /\ notified = << >>
  /\ writeLock = NoHandler
  /\ pc = [h \in Handlers |-> "idle"]
  /\ tx \in [Handlers -> {NewTx(k, "set") : k \in Keys}]
  /\ pageSince = 0
  /\ pageSeen = {}

Goto(h, s) == pc' = [pc EXCEPT ![h] = s]
------------------------------------------------------------------------------
(***************************************************************************)
(* The statements of set_key and delete_key.                               *)
(***************************************************************************)

\* A PUT or DELETE passes validation and opens its transaction.
Begin(h, k, op) ==
  /\ pc[h] = "idle"
  /\ idSeq < MaxId
  /\ tx' = [tx EXCEPT ![h] = NewTx(k, op)]
  /\ Goto(h, "locking")
  /\ UNCHANGED <<committedVars, idSeq, writeLock, pageVars>>

\* SELECT pg_advisory_xact_lock: waits until no other transaction holds it.
AcquireLock_Mutant(h) ==
  /\ pc[h] = "locking"
  /\ writeLock' = h
  /\ Goto(h, "locked")
  /\ UNCHANGED <<committedVars, idSeq, tx, pageVars>>

AcquireLock(h) ==
  /\ pc[h] = "locking"
  /\ writeLock = NoHandler
  /\ writeLock' = h
  /\ Goto(h, "locked")
  /\ UNCHANGED <<committedVars, idSeq, tx, pageVars>>

\* INSERT INTO kv_events: nextval is taken now, the row is visible at COMMIT.
InsertEvent_Mutant(h, next) ==
  /\ idSeq' = idSeq + 1
  /\ Goto(h, next)
  /\ UNCHANGED <<committedVars, writeLock, tx, pageVars>>

InsertEvent(h, next) ==
  /\ idSeq' = idSeq + 1
  /\ tx' = [tx EXCEPT ![h].id = idSeq + 1]
  /\ Goto(h, next)
  /\ UNCHANGED <<committedVars, writeLock, pageVars>>

SetInsertEvent(h) ==
  /\ pc[h] = "locked"
  /\ tx[h].op = "set"
  /\ InsertEvent(h, "inserted")

\* INSERT INTO kv_configs ... ON CONFLICT (key) DO UPDATE.
SetUpsertConfig_Mutant(h) ==
  /\ pc[h] = "inserted"
  /\ Goto(h, "notifying")
  /\ UNCHANGED <<committedVars, idSeq, writeLock, tx, pageVars>>

SetUpsertConfig(h) ==
  /\ pc[h] = "inserted"
  /\ tx' = [tx EXCEPT ![h].row = TRUE]
  /\ Goto(h, "notifying")
  /\ UNCHANGED <<committedVars, idSeq, writeLock, pageVars>>

\* What the end of a transaction, either way, does to the handler and its lock.
EndTx(h) ==
  /\ Goto(h, "idle")
  /\ tx' = [tx EXCEPT ![h] = NewTx(tx[h].key, "set")]
  /\ writeLock' = IF writeLock = h THEN NoHandler ELSE writeLock

\* DELETE FROM kv_configs: no row means ROLLBACK and 404, no event is written.
DeleteConfig_Mutant(h) ==
  /\ pc[h] = "locked"
  /\ tx[h].op = "delete"
  /\ tx' = [tx EXCEPT ![h].row = TRUE]
  /\ Goto(h, "deleted")
  /\ UNCHANGED <<committedVars, idSeq, writeLock, pageVars>>

DeleteConfig(h) ==
  /\ pc[h] = "locked"
  /\ tx[h].op = "delete"
  /\ \/ /\ kv_configs[tx[h].key] = 0
        /\ EndTx(h)
     \/ /\ kv_configs[tx[h].key] # 0
        /\ tx' = [tx EXCEPT ![h].row = TRUE]
        /\ Goto(h, "deleted")
        /\ UNCHANGED writeLock
  /\ UNCHANGED <<committedVars, idSeq, pageVars>>

DeleteInsertEvent(h) ==
  /\ pc[h] = "deleted"
  /\ InsertEvent(h, "notifying")

\* SELECT pg_notify inside the transaction: delivered only if it commits.
Notify(h) ==
  /\ pc[h] = "notifying"
  /\ tx' = [tx EXCEPT ![h].note = TRUE]
  /\ Goto(h, "committing")
  /\ UNCHANGED <<committedVars, idSeq, writeLock, pageVars>>

TxEvent(h) == [id |-> tx[h].id, key |-> tx[h].key, op |-> tx[h].op]

\* COMMIT publishes the event, the row and the notification in one step.
Commit_Mutant(h) ==
  /\ pc[h] = "committing"
  /\ kv_events' = Append(kv_events, TxEvent(h))
  /\ kv_configs' = [kv_configs EXCEPT ![tx[h].key] = IF tx[h].op = "set" THEN tx[h].id ELSE @]
  /\ notified' = IF tx[h].op = "set" THEN Append(notified, TxEvent(h)) ELSE notified
  /\ EndTx(h)
  /\ UNCHANGED <<idSeq, pageVars>>

Commit(h) ==
  /\ pc[h] = "committing"
  /\ kv_events' = Append(kv_events, TxEvent(h))
  /\ kv_configs' = IF ~tx[h].row THEN kv_configs
                   ELSE [kv_configs EXCEPT ![tx[h].key] = IF tx[h].op = "set" THEN tx[h].id ELSE 0]
  /\ notified' = IF tx[h].note THEN Append(notified, TxEvent(h)) ELSE notified
  /\ EndTx(h)
  /\ UNCHANGED <<idSeq, pageVars>>

\* A statement errors, the client goes away or the replica dies: ROLLBACK.
Abort_Mutant(h) ==
  /\ pc[h] # "idle"
  /\ Goto(h, "idle")
  /\ tx' = [tx EXCEPT ![h] = NewTx(tx[h].key, "set")]
  /\ UNCHANGED <<committedVars, idSeq, writeLock, pageVars>>

Abort(h) ==
  /\ pc[h] # "idle"
  /\ EndTx(h)
  /\ UNCHANGED <<committedVars, idSeq, pageVars>>
------------------------------------------------------------------------------
(***************************************************************************)
(* GET /v1/events?since=&prefix=&limit=, repeated with the to_event_id of  *)
(* the previous page as the next since. The page is the first PageLimit    *)
(* committed events above since in id order; to is the last of them. An    *)
(* empty page answers to_event_id = since and changes nothing.             *)
(***************************************************************************)
Beyond(since) ==
  {kv_events[i].id : i \in {j \in 1 .. Len(kv_events) :
                              /\ kv_events[j].key \in PagedKeys
                              /\ kv_events[j].id > since}}

PageSize(since) ==
  IF Cardinality(Beyond(since)) < PageLimit THEN Cardinality(Beyond(since)) ELSE PageLimit

ListEvents ==
  \E to \in Beyond(pageSince) :
    LET page == {n \in Beyond(pageSince) : n <= to} IN
    /\ Cardinality(page) = PageSize(pageSince)
    /\ pageSeen' = pageSeen \cup page
    /\ pageSince' = to
    /\ UNCHANGED <<committedVars, idSeq, txVars>>
------------------------------------------------------------------------------
Statement(h) ==
  \/ SetInsertEvent(h)
  \/ SetUpsertConfig(h)
  \/ DeleteConfig(h)
  \/ DeleteInsertEvent(h)
  \/ Notify(h)
  \/ Commit(h)

Next ==
  \/ \E h \in Handlers, k \in Keys, op \in Operation : Begin(h, k, op)
  \/ \E h \in Handlers : AcquireLock(h) \/ Statement(h) \/ Abort(h)
  \/ ListEvents

Spec == Init /\ [][Next]_vars

(***************************************************************************)
(* Postgres answers every statement, and serves the waiters of a heavyweight*)
(* lock first come first served, hence strong fairness for the lock.       *)
(***************************************************************************)
FairSpec ==
  /\ Spec
  /\ \A h \in Handlers : WF_vars(Statement(h)) /\ SF_vars(AcquireLock(h))
------------------------------------------------------------------------------
(***************************************************************************)
(* Event ids appear in commit order. This is what the comment at           *)
(* server/src/api/kv.rs:105 takes the advisory lock for: bigserial alone   *)
(* hands ids out before commit, and a reader that has passed a larger id   *)
(* would never look back for the smaller one.                              *)
(***************************************************************************)
CommitOrderIsIdOrder ==
  \A i, j \in 1 .. Len(kv_events) : i < j => kv_events[i].id < kv_events[j].id

\* Event i is the latest committed event of its key.
IsLast(i) ==
  \A j \in 1 .. Len(kv_events) : j > i => kv_events[j].key # kv_events[i].key

(***************************************************************************)
(* The table is what replaying the event log gives: the last event of a key*)
(* decides whether its row exists and which write it holds, and a key with *)
(* no event has no row (kv.rs:115-132 and kv.rs:174-188 keep two tables in *)
(* step across statements that other requests interleave with).            *)
(***************************************************************************)
TableMatchesLog ==
  /\ \A i \in 1 .. Len(kv_events) :
       IsLast(i) => kv_configs[kv_events[i].key]
                      = IF kv_events[i].op = "set" THEN kv_events[i].id ELSE 0
  /\ \A k \in Keys : kv_configs[k] # 0 =>
       \E i \in 1 .. Len(kv_events) : kv_events[i].key = k /\ IsLast(i)

(***************************************************************************)
(* A delete event always removed something: between a delete and the next  *)
(* delete of the same key there is a set, and the first event of a key is a*)
(* set (kv.rs:179 answers 404 otherwise). Two concurrent DELETEs of one key*)
(* must not both succeed.                                                  *)
(***************************************************************************)
DeletesHaveVictims ==
  \A j \in 1 .. Len(kv_events) :
    kv_events[j].op = "delete" =>
      \E i \in 1 .. j - 1 :
        /\ kv_events[i].key = kv_events[j].key
        /\ kv_events[i].op = "set"
        /\ \A m \in i + 1 .. j - 1 : kv_events[m].key # kv_events[j].key

(***************************************************************************)
(* Replicas are notified of exactly the committed events, in id order:     *)
(* nothing for a rolled-back write, and nothing missing (kv.rs:133-143).   *)
(***************************************************************************)
NotificationsMirrorLog == notified = kv_events

(***************************************************************************)
(* A reader that pages with since = to_event_id has been given every       *)
(* committed event up to its cursor: no write commits behind a cursor that *)
(* has already moved past its id. The catch-up query of /v1/watch and the  *)
(* gap replay of the listener rely on the same fact.                       *)
(***************************************************************************)
PagingMissesNothing ==
  \A i \in 1 .. Len(kv_events) :
    (kv_events[i].key \in PagedKeys /\ kv_events[i].id <= pageSince)
      => kv_events[i].id \in pageSeen

(***************************************************************************)
(* Every request ends, whatever happens to the others: no request waits    *)
(* forever for the advisory lock of one that failed.                       *)
(***************************************************************************)
EveryRequestEnds == \A h \in Handlers : pc[h] # "idle" ~> pc[h] = "idle"

(***************************************************************************)
(* The transactions implement the indivisible writes of ConfigStore: each  *)
(* commit is one abstract write, every other statement is invisible.       *)
(***************************************************************************)
Store == INSTANCE ConfigStore WITH log <- kv_events, kv <- kv_configs
ImplementsConfigStore == Store!Spec
==============================================================================
