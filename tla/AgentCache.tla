------------------------------ MODULE AgentCache ------------------------------
(***************************************************************************)
(* One watch task of ferra-agent (agent/src/watch.rs) and the cache it     *)
(* feeds (agent/src/cache.rs), against a server that keeps being written.  *)
(*                                                                         *)
(* The task takes a snapshot, then follows the watch stream from its       *)
(* cursor. An event of the stream carries no value: a set makes the agent  *)
(* GET the key, which returns the value of that moment. The snapshot is    *)
(* answered from two queries (list_prefix in server/src/api/kv.rs).        *)
(*                                                                         *)
(* The stream itself is the one EventFanout says a client gets when no     *)
(* listener fails: every watched event above since, once, in id order.     *)
(* A value is the id of the event that wrote it, 0 stands for no value.    *)
(***************************************************************************)
EXTENDS Naturals, Sequences

CONSTANTS
  Keys,
  Watched,    \* the keys under the prefix of the task
  MaxEvents,  \* bound on the length of the log
  MaxFaults   \* bound on failures, ends of stream, reloads and restarts

ASSUME AgentCacheAssumption ==
  /\ Watched \subseteq Keys
  /\ MaxEvents \in Nat
  /\ MaxFaults \in Nat

VARIABLES
  \* the server's database
  log,        \* kv_events: key and operation, the id is the position
  kv,         \* kv_configs: kv[k] is the event that wrote k's value
  lastEvent,  \* lastEvent[k]: the latest event of k, 0 if none (history)
  \* the agent's PrefixState
  items,      \* items[k]: the cache entry of k
  cursor,     \* latest_event_id
  ready,      \* a snapshot has been loaded
  \* the agent's task
  phase,      \* where run_loop is
  snap,       \* the snapshot response under way
  got,        \* the event being applied and the value its GET returned
  pos,        \* the last event the stream has yielded (history)
  unseen,     \* events the snapshot's cursor is past and its rows are not (history)
  skipped,    \* events a resumed stream started beyond, never yielded (history)
  faults

serverVars == <<log, kv, lastEvent>>
cacheVars == <<items, cursor, ready>>
historyVars == <<pos, unseen, skipped>>
vars == <<log, kv, lastEvent, items, cursor, ready, phase, snap, got, pos, unseen, skipped, faults>>

Operation == {"set", "delete"}
Event == [key : Keys, op : Operation]
CacheEntry == [value : Nat, event_id : Nat]
NoEntry == [value |-> 0, event_id |-> 0]

(***************************************************************************)
(* snapshot: about to request one;  rows: rows read, MAX(id) not yet;      *)
(* loaded: response complete;  connect: about to open the watch;           *)
(* streaming: reading it;  gotten: GET answered, not applied yet;          *)
(* backoff: sleeping after an error.                                       *)
(***************************************************************************)
Phase == {"snapshot", "rows", "loaded", "connect", "streaming", "gotten", "backoff"}

\* asOf: the length of the log when the rows were read (history).
Snapshot == [rows : [Watched -> Nat], asOf : Nat, latest : Nat]
NoSnapshot == [rows |-> [k \in Watched |-> 0], asOf |-> 0, latest |-> 0]

Fetched == [event : Nat, value : Nat]
NoFetch == [event |-> 0, value |-> 0]

TypeOK ==
  /\ log \in Seq(Event)
  /\ kv \in [Keys -> Nat]
  /\ lastEvent \in [Keys -> Nat]
  /\ items \in [Watched -> CacheEntry]
  /\ cursor \in Nat
  /\ ready \in BOOLEAN
  /\ phase \in Phase
  /\ snap \in Snapshot
  /\ got \in Fetched
  /\ pos \in Nat
  /\ unseen \in SUBSET Nat
  /\ skipped \in SUBSET Nat
  /\ faults \in Nat

ServerInit ==
  /\ log = << >>
  /\ kv = [k \in Keys |-> 0]
  /\ lastEvent = [k \in Keys |-> 0]

Init ==
  /\ ServerInit
  /\ items = [k \in Watched |-> NoEntry]
  /\ cursor = 0
  /\ ready = FALSE
  /\ phase = "snapshot"
  /\ snap = NoSnapshot
  /\ got = NoFetch
  /\ pos = 0
  /\ unseen = {}
  /\ skipped = {}
  /\ faults = 0

Fault == faults < MaxFaults /\ faults' = faults + 1

\* The larger of two ids; the cursor only moves through it.
Later(m, n) == IF m >= n THEN m ELSE n

\* The events of watched keys with an id in from + 1 .. to.
WatchedEvents(from, to) == {i \in from + 1 .. to : log[i].key \in Watched}

\* Somebody sets or deletes a key.
Write(k, op) ==
  /\ Len(log) < MaxEvents
  /\ op = "delete" => kv[k] # 0
  /\ log' = Append(log, [key |-> k, op |-> op])
  /\ kv' = [kv EXCEPT ![k] = IF op = "set" THEN Len(log) + 1 ELSE 0]
  /\ lastEvent' = [lastEvent EXCEPT ![k] = Len(log) + 1]
  /\ UNCHANGED <<cacheVars, phase, snap, got, historyVars, faults>>
------------------------------------------------------------------------------
(***************************************************************************)
(* load_snapshot: two queries on the server, one replacement in the agent. *)
(***************************************************************************)

\* list_prefix selects the rows of kv_configs ...
SnapshotRows ==
  /\ phase = "snapshot"
  /\ snap' = [snap EXCEPT !.rows = [k \in Watched |-> kv[k]], !.asOf = Len(log)]
  /\ phase' = "rows"
  /\ UNCHANGED <<serverVars, cacheVars, got, historyVars, faults>>

\* ... and then, in a statement of its own, MAX(id) of kv_events.
SnapshotMax_Mutant ==
  /\ phase = "rows"
  /\ snap' = [snap EXCEPT !.latest = IF log = << >> THEN 0 - 1 ELSE Len(log)]
  /\ phase' = "loaded"
  /\ UNCHANGED <<serverVars, cacheVars, got, historyVars, faults>>

SnapshotMax ==
  /\ phase = "rows"
  /\ snap' = [snap EXCEPT !.latest = Len(log)]
  /\ phase' = "loaded"
  /\ UNCHANGED <<serverVars, cacheVars, got, historyVars, faults>>

\* replace_snapshot: items and cursor are those of the response, no merge.
ReplaceSnapshot_NeverReady ==
  /\ phase = "loaded"
  /\ items' = [k \in Watched |-> [value |-> snap.rows[k], event_id |-> snap.rows[k]]]
  /\ cursor' = snap.latest
  /\ pos' = snap.latest
  /\ unseen' = WatchedEvents(snap.asOf, snap.latest)
  /\ skipped' = {}
  /\ snap' = NoSnapshot
  /\ phase' = "connect"
  /\ UNCHANGED <<serverVars, ready, got, faults>>

ReplaceSnapshot_Merge ==
  /\ phase = "loaded"
  /\ items' = [k \in Watched |-> IF snap.rows[k] = 0 THEN items[k]
                                 ELSE [value |-> snap.rows[k], event_id |-> snap.rows[k]]]
  /\ cursor' = snap.latest
  /\ ready' = TRUE
  /\ pos' = snap.latest
  /\ unseen' = WatchedEvents(snap.asOf, snap.latest)
  /\ skipped' = {}
  /\ snap' = NoSnapshot
  /\ phase' = "connect"
  /\ UNCHANGED <<serverVars, got, faults>>

ReplaceSnapshot ==
  /\ phase = "loaded"
  /\ items' = [k \in Watched |-> [value |-> snap.rows[k], event_id |-> snap.rows[k]]]
  /\ cursor' = snap.latest
  /\ ready' = TRUE
  /\ pos' = snap.latest
  /\ unseen' = WatchedEvents(snap.asOf, snap.latest)
  /\ skipped' = {}
  /\ snap' = NoSnapshot
  /\ phase' = "connect"
  /\ UNCHANGED <<serverVars, got, faults>>
------------------------------------------------------------------------------
(***************************************************************************)
(* The watch stream.                                                       *)
(***************************************************************************)

\* open_watch: the stream will yield what is beyond the cursor.
OpenWatch ==
  /\ phase = "connect"
  /\ phase' = "streaming"
  /\ skipped' = skipped \cup WatchedEvents(pos, cursor)
  /\ pos' = cursor
  /\ UNCHANGED <<serverVars, cacheVars, snap, got, unseen, faults>>

\* Event i is the next one of the stream.
Yields(i) ==
  /\ phase = "streaming"
  /\ i \in WatchedEvents(pos, Len(log))
  /\ \A j \in WatchedEvents(pos, Len(log)) : i <= j

\* handle_event for a set: the server answers the GET with the row as it is.
HandleSet_ReadReplica(i) ==
  /\ Yields(i)
  /\ log[i].op = "set"
  /\ \E v \in 1 .. Len(log) :
       /\ log[v] = log[i]
       /\ got' = [event |-> i, value |-> v]
  /\ phase' = "gotten"
  /\ UNCHANGED <<serverVars, cacheVars, snap, historyVars, faults>>

HandleSet(i) ==
  /\ Yields(i)
  /\ log[i].op = "set"
  /\ got' = [event |-> i, value |-> kv[log[i].key]]
  /\ phase' = "gotten"
  /\ UNCHANGED <<serverVars, cacheVars, snap, historyVars, faults>>

\* The answer arrives: upsert, or only the cursor moves if the key is gone.
ApplyGet_NoMax ==
  /\ phase = "gotten"
  /\ LET k == log[got.event].key
         id == Later(got.value, got.event) IN
     /\ cursor' = id
     /\ items' = IF got.value = 0 THEN items
                 ELSE [items EXCEPT ![k] = [value |-> got.value, event_id |-> id]]
  /\ pos' = got.event
  /\ got' = NoFetch
  /\ phase' = "streaming"
  /\ UNCHANGED <<serverVars, ready, snap, unseen, skipped, faults>>

ApplyGet_PayloadId ==
  /\ phase = "gotten"
  /\ LET k == log[got.event].key IN
     /\ cursor' = Later(cursor, got.event)
     /\ items' = IF got.value = 0 THEN items
                 ELSE [items EXCEPT ![k] = [value |-> got.value, event_id |-> got.event]]
  /\ pos' = got.event
  /\ got' = NoFetch
  /\ phase' = "streaming"
  /\ UNCHANGED <<serverVars, ready, snap, unseen, skipped, faults>>

ApplyGet ==
  /\ phase = "gotten"
  /\ LET k == log[got.event].key
         id == Later(got.value, got.event) IN
     /\ cursor' = Later(cursor, id)
     /\ items' = IF got.value = 0 THEN items
                 ELSE [items EXCEPT ![k] = [value |-> got.value, event_id |-> id]]
  /\ pos' = got.event
  /\ got' = NoFetch
  /\ phase' = "streaming"
  /\ UNCHANGED <<serverVars, ready, snap, unseen, skipped, faults>>

\* handle_event for a delete: remove, whatever the entry's event_id is.
HandleDelete(i) ==
  /\ Yields(i)
  /\ log[i].op = "delete"
  /\ items' = [items EXCEPT ![log[i].key] = NoEntry]
  /\ cursor' = Later(cursor, i)
  /\ pos' = i
  /\ UNCHANGED <<serverVars, ready, phase, snap, got, unseen, skipped, faults>>

\* handle_event for a reload: load a snapshot, then the stream has ended.
HandleReload ==
  /\ phase = "streaming"
  /\ Fault
  /\ phase' = "snapshot"
  /\ UNCHANGED <<serverVars, cacheVars, snap, got, historyVars>>

\* The response body ends without an error: reconnect at once.
StreamEnds ==
  /\ phase = "streaming"
  /\ Fault
  /\ phase' = "connect"
  /\ UNCHANGED <<serverVars, cacheVars, snap, got, historyVars>>
------------------------------------------------------------------------------
\* A request or the stream fails: run_once returns the error.
RunOnceFails ==
  /\ phase # "backoff"
  /\ Fault
  /\ phase' = "backoff"
  /\ snap' = NoSnapshot
  /\ got' = NoFetch
  /\ UNCHANGED <<serverVars, cacheVars, historyVars>>

\* The sleep is over; run_once takes a snapshot only if there never was one.
BackoffElapsed ==
  /\ phase = "backoff"
  /\ phase' = IF ready THEN "connect" ELSE "snapshot"
  /\ UNCHANGED <<serverVars, cacheVars, snap, got, historyVars, faults>>

\* The agent process is restarted with an empty cache.
Restart ==
  /\ Fault
  /\ items' = [k \in Watched |-> NoEntry]
  /\ cursor' = 0
  /\ ready' = FALSE
  /\ phase' = "snapshot"
  /\ snap' = NoSnapshot
  /\ got' = NoFetch
  /\ pos' = 0
  /\ unseen' = {}
  /\ skipped' = {}
  /\ UNCHANGED serverVars

TaskStep ==
  \/ SnapshotRows \/ SnapshotMax \/ ReplaceSnapshot
  \/ OpenWatch \/ ApplyGet \/ BackoffElapsed
  \/ \E i \in 1 .. Len(log) : HandleSet(i) \/ HandleDelete(i)

Next ==
  \/ \E k \in Keys, op \in Operation : Write(k, op)
  \/ TaskStep
  \/ HandleReload \/ StreamEnds \/ RunOnceFails \/ Restart

Spec == Init /\ [][Next]_vars

\* The task runs as long as the agent does, and requests are answered.
FairSpec == Spec /\ WF_vars(TaskStep)
------------------------------------------------------------------------------
(***************************************************************************)
(* A ready cache that disagrees with the database about a key will be told *)
(* so by the stream, except for events a snapshot lost or a resumed stream *)
(* never yielded. Values are fetched at another moment than the event that *)
(* announces them, deletes are applied to entries newer than themselves,   *)
(* and a 404 changes nothing (watch.rs:111-129): none of this may leave a  *)
(* wrong entry that no later event corrects.                               *)
(***************************************************************************)
StaleOnlyIfComing ==
  ready => \A k \in Watched :
    items[k].value # kv[k] => \/ lastEvent[k] > pos
                              \/ lastEvent[k] \in unseen \cup skipped

(***************************************************************************)
(* The event_id of an entry is the write its value came from, and never    *)
(* beyond the cursor: the agent API hands both out (api.rs:147, 236) and a *)
(* client waits on the one it was given.                                   *)
(***************************************************************************)
EntriesAreLabelled ==
  \A k \in Watched : items[k].event_id = items[k].value /\ items[k].event_id <= cursor

(***************************************************************************)
(* The cursor never moves back while the agent runs, snapshots included    *)
(* (cache.rs:75 allows it, cache.rs:83 forbids it for events): a resumed   *)
(* watch is never asked for events already applied.                        *)
(***************************************************************************)
CursorNeverRegresses == [][ready' => cursor' >= cursor]_vars

(***************************************************************************)
(* A key that is present never turns into an older version of itself.      *)
(***************************************************************************)
ValuesNeverRegress ==
  [][\A k \in Watched : (items[k].value # 0 /\ items'[k].value # 0)
       => items'[k].value >= items[k].value]_vars

(***************************************************************************)
(* Once writes and faults cease, the agent becomes ready and its cache     *)
(* equals the database but for the events lost as above.                   *)
(***************************************************************************)
Converged ==
  /\ ready
  /\ \A k \in Watched : items[k].value = kv[k] \/ lastEvent[k] \in unseen \cup skipped

EventuallyConverges == <>[]Converged

(***************************************************************************)
(* docs/api.md:150: latest_event_id of a list response is to be used as    *)
(* since verbatim, so that no write is missed between list and watch. The  *)
(* rows then have to contain every write up to latest_event_id.            *)
(***************************************************************************)
SnapshotIsComplete == unseen = {}

(***************************************************************************)
(* docs/api.md:286: since advances after an event has been applied, so that*)
(* a resumed watch repeats nothing and skips nothing. An event a resumed   *)
(* stream starts beyond must already be in the cache.                      *)
(***************************************************************************)
ResumeSkipsNothing ==
  phase = "streaming" => \A k \in Watched : lastEvent[k] \in skipped => items[k].value = kv[k]
==============================================================================
