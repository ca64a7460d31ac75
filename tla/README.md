# Ferra: TLA+ models, checks and proofs

Ferra is a configuration store. `ferra-server` keeps keys and values in
Postgres and serves an HTTP API with a watch stream; `ferra-agent` is a sidecar
that mirrors some prefixes in memory for one service. This directory holds
specifications of both, the TLC configurations that check them and proofs for
TLAPS. Source references are relative to the repository root.

## 1. Inventory

| Component | State | Operations | Interacts with | Must be true |
|---|---|---|---|---|
| Write path `server/src/api/kv.rs` | tables `kv_events`, `kv_configs`, id sequence, advisory lock | `set_key`, `delete_key`: begin, lock, event, row, notify, commit | Postgres; every reader through the log | ids follow commit order; table = replayed log; no delete without a victim; a failed request leaves nothing and blocks nobody |
| Log reads `server/src/api/events.rs` | none (client keeps `since`) | `list_events` | Postgres | a pager misses nothing |
| Listing and reads `kv.rs` | none | `get_key`, `list_prefix` (two queries) | agent | a listing and its cursor belong together |
| Listener `server/src/listener.rs` | LISTEN connection, `last_seen` | `run`, `run_once`, `replay_gap` | Postgres notifications in, broadcast ring out | every committed event reaches the ring once, in order, across reconnects |
| Broadcast ring `server/src/state.rs` | 1024 slots, a position per receiver | send, recv, lag | listener, streams | a receiver that was overrun is told so |
| Watch stream `server/src/api/watch.rs` | `last_emitted`, receiver | subscribe, catch-up, live loop, reload | ring, Postgres, client | no gap or repeat at the hand-over, in id order |
| Watch task `agent/src/watch.rs` | backoff, stream position | `run_loop`, `run_once`, `load_snapshot`, `handle_event` | server HTTP, PrefixState | the cache follows the database |
| Cache `agent/src/cache.rs` | `items` (RwLock), `latest_event_id`, `ready` (atomics), `notify` | `upsert`, `remove`, `replace_snapshot`, `advance` | watch task writes, API reads | entries and cursor agree |
| Agent API `agent/src/api.rs` | none | `cfg_handler`, `long_poll`, `list_handler`, `readyz` | PrefixState | a poller returns when its key changes |
| SSE parser `agent/src/sse.rs` | byte buffer, event under construction | `feed`, `flush` | watch task | chunking does not change the events |
| Upstream client `agent/src/upstream.rs` | none | `snapshot`, `get_key`, `open_watch` | server | a call that fails is noticed and retried with a pause |
| Pool and IAM token `server/src/db.rs` | pool, current token | `connect`, `run_token_refresher` | AWS, Postgres | new connections present a valid token; whoever waits for a connection gets one or an error |
| Start-up and shutdown `server/src/lib.rs` | spawned tasks | `run`, `shutdown_signal` | all of the server | SIGTERM ends the process once responses end |
| Configuration `server/src/config.rs`, `agent/src/config.rs` | none | parsing, `validate_pool_against_database` | start-up | accepted settings work |
| Errors, health, meta crate, deployment files | none | | | nothing stateful |

How they interact: a write commits an event, a row and a notification together.
Each replica's listener receives notifications on one connection and forwards
them into its ring; each `/v1/watch` request first reads what it missed from
`kv_events` and then follows the ring. The agent takes a snapshot, opens a watch
from the snapshot's cursor, and for every `set` event fetches the value with a
separate GET. Its HTTP API reads the cache the watch task writes.

What is hard: transactions of several awaited statements; ids that are handed
out before commit; three hand-overs that must not leave a hole (subscribe to
catch-up, LISTEN to tip, reconnect to replay); a ring that overwrites; values
fetched later than the events that announce them; a cursor that means "I have
seen everything up to here" and is set from four places; reconnects, reloads and
restarts at any moment; a connection that dies without a word; a bounded pool
from which one task takes two connections; tokens and connections that age at
different clocks; a byte stream cut at any place.

`PROJECT.json` lists every component, and every hazard at its line.

## 2. Modules

| Module | Models | Composition |
|---|---|---|
| `ConfigStore` | abstract: a write is one step that appends an event and changes a row | instantiated by `KvStore` |
| `KvStore` | write path and paging reader | implements `ConfigStore` |
| `KvStoreProofs` | invariant and theorems for `KvStore` | extends `KvStore`, `TLAPS` |
| `EventFanout` | listener, ring, watch streams | takes from `KvStore` that ids follow commit order and notifications mirror the log |
| `WatchStream` | abstract: what a `/v1/watch` stream promises its client | instantiated by `EventFanout`, which implements it |
| `EventFanoutProofs` | invariant, theorems and refinement for `EventFanout` | extends `EventFanout`, `TLAPS` |
| `AgentCache` | watch task and cache, `list_prefix` and `get_key` as the agent sees them | takes from `EventFanout` what a stream yields when no listener fails |
| `AgentCacheProofs` | invariant, theorems and action properties for `AgentCache` | extends `AgentCache`, `TLAPS` |
| `LongPoll` | long-polling, reading and listing clients against the steps of a cache update | refines the grain of `AgentCache`'s cache updates; takes consistent snapshots and an unbroken stream as given, since what fails there looks the same to every poller |
| `LongPollProofs` | invariant and theorems for `LongPoll` | extends `LongPoll`, `TLAPS` |
| `SseParser` | the agent's parser and the server's rendering of events, as operators | used by `WatchLink` |
| `SseParserProofs` | induction over loops, lemmas about lines, and what the parser makes of any chunks | extends `SseParser`, `TLAPS` |
| `WatchLink` | the connection between watch task and `/v1/watch`: chunks, breaks, silence, backoff | extends `SseParser`; abstracts handling an event, which is `AgentCache`, to success or failure; implements `EventChannel` |
| `EventChannel` | abstract: what the watch task makes of its connections, without bytes, chunks and a parser | instantiated by `WatchLink` |
| `WatchLinkProofs` | invariant, theorems, an action property and refinement for `WatchLink` | extends `WatchLink`, `SseParserProofs` |
| `ServerConfig` | `Config::from_env` as a predicate on the environment | used by `ServerProcess` |
| `ServerProcess` | start-up, pool, listener's connections, requests, IAM token, shutdown | extends `ServerConfig`; abstracts what a query does (`KvStore`, `EventFanout`) to holding a connection |
| `ServerProcessProofs` | invariant, theorems and an action property for `ServerProcess` | extends `ServerProcess`, `TLAPS` |
| `MCKvStore`, `MCEventFanout`, `MCAgentCache`, `MCLongPoll`, `MCWatchLink`, `MCServerProcess` | values of the constants for TLC | |

In the modules that have values a value is the id of the event that wrote it, and
0 is the absence of a value. Operators ending in `_Mutant`, or named
`Definition_Defect`, are defective variants of the definition that follows them;
no specification uses them. They document which defect each property detects
(`"mutants"` in `PROJECT.json`).

### KvStore

`pc[h]` is the statement a handler is about to issue and `tx[h]` what its open
transaction has written. One action per statement: `Begin`, `AcquireLock`,
`SetInsertEvent`, `SetUpsertConfig`, `DeleteConfig` (with the 404 branch, which
rolls back), `DeleteInsertEvent`, `Notify`, `Commit`. `Abort` rolls a
transaction back before any statement: an error return, a client that goes away,
a replica that dies. `idSeq` is the bigserial, which a rollback does not return.
`kv_events`, `kv_configs` and `notified` change only at `Commit`. `ListEvents` is
one page of `/v1/events`. The commit order relies on READ COMMITTED and on the
advisory lock being released at the end of the transaction, as Postgres does.

### EventFanout

An event is its position in `log`. `listener[r]` follows `run_once`: `Listen`,
`InitLastSeen` (the tip query), `TryRecv`; `ConnectionLost`, `Reconnect`,
`ReplayGap` for the reconnect that sqlx performs inside `try_recv`;
`RunOnceFails` for every error return, after which `run` starts again with
`Listen`; `Crash` for a process restart. `notifyPos[r]` is how far the LISTEN
connection has been read; notifications sent while there is no connection are
passed over by `Reconnect`. `sent[r]` is everything broadcast, of which the last
`RingSize` are in the ring. A stream goes `Subscribe`, `CatchUp`, then `Recv`,
`Lagged`, `Disconnect`; the catch-up emission is one step, because what the
client reads of it affects nothing else; it is kept in `caughtUp[w]`, and what
follows it, in order, in `emitted[w]`. A client may open with any `since` up
to the tip, which includes every cursor it can have been given.

`WatchStream` says what remains of all this for a client: a log, the open
streams with their `since`, the set of ids each has carried, and the ids it is
excused from. A stream opens with everything owed by then, and after that
carries the least id still owed (`Carry`); it has no ring, no listener and no
notification. `ImplementsWatchStream` maps the live streams of `EventFanout` to
the open ones and `passedOver` to the excuse. `CatchUp` maps to `Open`, `Recv` to
`Carry` or a stutter, `InitLastSeen` to `Lose`, `Lagged`, `Disconnect` and
`Crash` to `Close`, `Write` to `Write`, every other step to a stutter. It is
stronger than `NothingFallsBetween` in that what is owed must also come next.

### AgentCache

`phase` follows `run_loop`: `SnapshotRows` and `SnapshotMax` are the server's two
queries, `ReplaceSnapshot` their application, `OpenWatch`, `HandleSet` (the GET
answered), `ApplyGet` (its answer applied, also for a 404), `HandleDelete`,
`HandleReload`, `StreamEnds`, `RunOnceFails`, `BackoffElapsed`, `Restart`.
Receiving a set event changes nothing until its GET is answered, so both are
`HandleSet`. `Write` runs between any two of them. Three history variables say
what the agent cannot see: `pos` is the last event the stream has yielded,
`unseen` the events the last snapshot's cursor covers and its rows do not,
`skipped` the events a resumed stream started beyond without having yielded
them.

### LongPoll

`task` is what the watch task has to do next: an update of the cache changes the
items under their lock (`HandleSet`, `HandleDelete`, `LoadSnapshot`), then the
cursor (`MoveCursor`), then notifies (`Notify`); `advance_only`, which a 404 of
the GET leads to, changes no item and notifies only if it moved the cursor. `pc[p]` is where
`long_poll` is: `Check` reads the entry and answers or decides to wait,
`AnswerAbsent` reads the cursor for the 404 of a poll that timed out, `Subscribe`
creates the receiver, `Wake` and `Timeout` end its wait. In between a client may
read its key without waiting (`Read`) or list the prefix (`List`, then
`AnswerListing`, which reads the cursor for the index). The accesses to the cursor are
`Relaxed`; the model interleaves them, so it does not show a reader an older
cursor than the items it has read imply. The writes to come are
chosen in `Init`, and `tip` says how many of them the server's answers have
revealed, which avoids a separate action for commits. `raced` and `told` are history.

### SseParser and WatchLink

Bytes are fragments: line ends, colons, spaces and the two halves of a two-byte
character are fragments of their own, all other bytes of a name or a value are
one fragment, since the parser looks for nothing in them; `Fragment` is the set
of all of them. `Feed` appends the chunk to the buffer and runs the loop of
`feed`: a turn (`Drain`) takes the first line from the buffer and parses it
(`WithLine`), `Lossy` included (`String::from_utf8_lossy` on a line), and `Fed`
is as many turns (`Turns`) as there are line ends. `Encode` is what axum writes
for an event of `api/watch.rs`. `Text` is what may stand in a field: valid UTF-8
without line ends, which the JSON and the numbers of that file are.

In `WatchLink` the server and the network may go down and come back (`Changes`),
put events on the stream (`Send`; a `reload` and an `error` end it), break it
(`Breaks`), or disappear without a word (`GoesSilent`). The agent is
`run_loop`: `LoadSnapshot`, `OpenWatch`, `Chunk` (any number of bytes up to
`MaxPiece`, or all there are), `Handle` (one event of the chunk), `StreamEnds`,
`Refused`, `BackOff` (the sleep after an error), `Wake`. A `get_key` that fails
is a `Breaks`, as its error leaves `run_once` like the body's. `handled`,
`slept`, `failures`, `barren` (the errors in a row without a byte received in
between) and `ends` (where in the body each event ends) are history.

`EventChannel` is what remains of it without bytes: messages are put on a channel
(`Put`) and taken from it one by one in that order (`Take`); it breaks at any time
(`Break`), and the next one follows after a pause (`Retry`, `Open`) or, if the last
message said that the channel would end and everything was taken (`Finish`),
without one. `ImplementsEventChannel` maps the events sent to the messages and
`handled` to what was taken. `Send` maps to `Put`, `Handle` to `Take`, `StreamEnds`
to `Finish`, `Refused` and `Breaks` to `Break`, `Wake` to `Retry`, `OpenWatch` to
`Open`; `Chunk`, where parser and chunks are, is a stutter.

### ServerConfig and ServerProcess

`Accepted(env)` collects the checks of `from_env`, `parse_database_config`,
`parse_pool_config` and `validate_pool_against_database`. `ServerProcess` picks
an environment in `Init` and runs one process in it: `Start` or `StartFails`,
`Signal`, `Exit`. To connect in IAM mode `Start` needs a token that is valid when
it is minted, else `connect` fails and with it `run`.

`conn` is the pool's physical connections with their age and the age their token
had when they were opened, `queue` the users waiting for one in order.
`Acquired` serves the first of them with an idle connection, or with a new one
if there is none or it has reached `max_lifetime`; `NotAcquired` is
`acquire_timeout` or a refusal by the database (`Refused`), because the token has
expired or because of an outage, which comes and goes with `DatabaseChanges`.
`ClientLeaves` drops a handler wherever it is: its place in the queue
(`LeavesQueue`) and its connection (`Returned`) go with it.
The listener task takes a connection for good and then a second one for its tip
query (`ListenerConnect`, `ListenerConnected`, `ListenerQuery`, `ListenerReady`,
`ListenerLost`). `run_once` may fail for want of a connection (`ListenerFails`), in
`LISTEN` (`ListenFails`), or in the tip query, `try_recv` or the replay with both
connections in hand (`ListenerErrs`). Whatever it holds then returns to the pool,
as sqlx does when a `PgListener` is dropped. A request waits, holds and returns a
connection; a watch goes on without one (`CatchUpDone`). In IAM mode `Tick` lets
time pass, `RefreshTick`, `MintSucceeds` and `MintFails` are the refresher. The
clock runs in IAM mode only; everywhere else a timeout may happen at any time.

## 3. Runs

Bounds are chosen so that each named interleaving occurs; every property of a
passing run has a defective variant of the code that the same run detects.

| Run | Bounds | Shows |
|---|---|---|
| `kv_store` | 2 handlers, 2 keys of which the reader pages one, page limit 1, ids up to 4, fairness | all safety properties of the write path, `EveryRequestEnds`, `ImplementsConfigStore`. Two handlers suffice for a wrong commit order and for one that waits for the other's lock; four ids give set, delete, set, delete of one key and gaps from aborts. The theorems cover any number of handlers |
| `fanout` | 1 replica, 1 stream that watches one of 2 keys, ring of 1, 3 events, 2 faults, fairness | `NothingFallsBetween`, `EmittedInOrder`, `BroadcastInOrder`, `OwedIsSettled`, `ImplementsWatchStream`. Replicas share only the log, and streams only the ring, which each reads at its own position, so one stream of one replica sees what any stream can; two unread events overrun a ring of 1; 2 faults make a reconnect fail, or a loss follow a replay |
| `fanout_startup` | 2 events, no fault | violation of `CatchUpServesHistory` |
| `fanout_gap` | 2 events, 2 faults | violation of `GapIsReplayed` |
| `agent_cache` | 2 watched keys and one other, 4 events, 2 faults, fairness | the cache properties and `EventuallyConverges`; 4 events give set, delete, set on one key interleaved with the other key |
| `agent_cache_snapshot` | 3 events, no fault | violation of `SnapshotIsComplete` |
| `agent_cache_resume` | 3 events, 1 fault | violation of `ResumeSkipsNothing` |
| `long_poll` | 1 client, its key and another one, 3 writes, 2 snapshots, fairness | `OnlyRacesOversleep`, `EventuallyTold`. Clients only read what the watch task writes and have a receiver each, so one sees what any can. Two snapshots give one at start-up and one reload |
| `long_poll_race` | 1 client, 1 write | violation of `ReturnsWhenPassed` |
| `long_poll_delete` | 1 client, 2 writes | violation of `AbsenceReturns` |
| `server_process` | 8 environments: URL with a pool of 2, of 1, of 0 (refused), with heartbeat 0; IAM with refresh intervals 1, 3 (with a pool of 1) and, refused, an unlimited lifetime and an interval as long as the token's life of 4; outages in the URL environments and with interval 3 (`Outages`); 2 clients (1 in IAM mode), mints of up to 1 tick, fairness | `TokenAgeIsExplained`, `NothingLeaks`, `ConnectionsAreRotated`, `FanoutStarts`, `EveryRequestSettles`, `RefresherRecovers`, `OnlyStreamsDelayExit`. A pool of 2 with 2 clients and the listener is contended; with interval 3 and life 4 one failed refresh lets the token expire, with 1 two do not |
| `watch_link` | streams of up to 2 events of 4 kinds with CRLF line ends, a payload with a colon, a space and a two-byte character, chunks of up to 3 fragments or everything, backoff 1 to 3 | `HandledIsWhatArrived`, `RetriesArePaced`, `EventuallyHandled`, `OnlySilenceStops`, `ReopensOnNotice`, `ImplementsEventChannel`. Every place of an event is a chunk boundary in some behaviour, also one inside CRLF and inside the character; 2 events share a chunk or not; a backoff of 1, 2, 3, 3 shows growth and cap |

Beside these runs, seven configurations of `MCServerProcess` and `MCWatchLink`
each check one promise of the documentation that the code does not keep, and are
expected to fail within seconds: `TokenIsValid`, `RotatedBeforeExpiry` and
`NoConfigurationNeeded` without outages (and the first with mints that take no
time, so that neither is to blame), `ShutdownEndsStreams`, `BackoffResets`,
`ErrorsArePaced` and `SilenceIsNoticed` with the bounds of the passing run.

| Configuration | Property | Promise |
|---|---|---|
| `MCServerProcessOne.cfg` | `NoConfigurationNeeded` | server/README.md:116 |
| `MCServerProcessToken.cfg` | `TokenIsValid` | README.md:171, server/README.md:45 |
| `MCServerProcessRotation.cfg` | `RotatedBeforeExpiry` | config.rs:36, config.rs:132 |
| `MCServerProcessShutdown.cfg` | `ShutdownEndsStreams` | docs/api.md:202 |
| `MCWatchLinkBackoff.cfg` | `BackoffResets` | docs/api.md:302 |
| `MCWatchLinkError.cfg` | `ErrorsArePaced` | docs/api.md:250 |
| `MCWatchLinkSilence.cfg` | `SilenceIsNoticed` | upstream.rs:6, docs/api.md:290 |

`CHECK_DEADLOCK FALSE` appears where a bound stops the system: in `KvStore` no
request starts once `idSeq = MaxId`, and in `AgentCache` a task with an idle
stream waits once the log has `MaxEvents` events; a process of `ServerProcess`
exits. `EveryRequestEnds`, `EventuallyConverges` and `OnlyStreamsDelayExit` rule
out being stuck before that. `EventFanout` never stops: a client may always open
or close a stream.

Fairness. `KvStore`: weak on each handler's next statement, because Postgres
answers; strong on `AcquireLock`, because Postgres serves lock waiters in
arrival order. Nothing is assumed of `Begin`, `Abort` or the reader.
`EventFanout`: weak on each replica's listener loop and on each stream's loop,
two tasks that never return while the process lives; this assumes that a dead
connection is eventually noticed and that a client keeps reading. `AgentCache`:
weak on the watch task. Faults are bounded and never fair. `LongPoll`: weak on the
watch task and on each client, because a wait is capped at five minutes
(`parse_wait`) and the documented client asks again in a loop. `WatchLink`: weak
on the agent's own step, which is enabled only while the connection is not
silent; nothing is assumed of the server and the network, so
`OnlySilenceStops` carries its premise (`<>[]up`) itself. `ServerProcess`: weak
on the tasks (exit, listener loop, each request, the ticker) and on time; strong
on `MintSucceeds`, that is, credentials that are refused again and again are
not refused for ever. The listener's backoff is a second, a tick stands for
minutes, so time does not pass while the listener is about to get a connection
(`ListenerIsQuicker`); without that assumption every one of its attempts could
fall into a time with an expired token. It is not assumed during an outage. What
`FanoutStarts` needs of the world is its premise `Undisturbed`: outages end,
requests in the end leave the pool alone, and the listener's own queries in the
end stop failing.

## 4. What the violations show

* `fanout_startup`: listener `LISTEN`; a stream subscribes and catches up; an
  event commits; the listener reads the tip, which includes the event, and skips
  its notification. The stream never carries it.
* `fanout_gap`: an error that leaves `run_once`, for example a failed reconnect,
  makes the next `run_once` start at the tip, although streams opened before are
  still attached.
* `agent_cache_snapshot`: a write between the two queries of `list_prefix`.
* `agent_cache_resume`: events 1 on key a, 2 on key b, 3 on key a. The GET for
  event 1 returns write 3, the cursor becomes 3, the stream ends, and the watch
  resumes after 3: event 2 is never applied.

* `long_poll_race`: the check finds nothing new, the key changes and is notified,
  the poll subscribes and sleeps until something else changes or it times out.
* `long_poll_delete`: an absent key counts as event 0 and never passes `since`.

`OnlyRacesOversleep` and `EventuallyTold` bound the last two: no other wake-up is
missed, and each is repaired by the timeout at the latest. That goes for a third
effect too: the 404 of a timed-out poll reads the cursor after the entry, and a
listing reads it after the items, so the index may already cover a value the
client was not given, and the next poll with that index waits (agent/README.md:65
says to use it as `since`).

The configurations for the documentation's promises (section 3) show:

* `MCServerProcessOne`: with a pool of one, which is accepted, the listener asks
  for a second connection while it holds the only one; every attempt ends with
  `acquire_timeout`. Its streams carry their catch-up and heartbeats only.
* `MCServerProcessToken`: interval 3, life 4, one failed mint. With the default
  interval of 14 minutes the next attempt is 28 minutes after the last success,
  13 after expiry.
* `MCServerProcessRotation`: `max_lifetime` counts from the opening of a
  connection, the token's life from its minting. A connection opened late in the
  token's life is given to requests after the token has expired.
* `MCServerProcessShutdown`: SIGTERM waits for open watch streams, which the
  server never ends.
* `MCWatchLinkBackoff`: a stream delivers a byte and breaks, the next one too; the
  second pause is 2. The backoff is reset by a clean end, not by received bytes.
* `MCWatchLinkError`: an error event, the end of the stream, and the watch is
  reopened at once.
* `MCWatchLinkSilence`: the connection dies without a word, and the agent waits for
  the next chunk for good, as no request of its client has a timeout.

The passing properties say what holds beside these. `NothingFallsBetween` and
`StaleOnlyIfComing` state that there is no loss besides the first four: the history
variables `passedOver`, `unseen` and `skipped` hold exactly the events concerned.
`FanoutStarts`: with a second connection the listener always starts.
`TokenAgeIsExplained` and `RefresherRecovers`: a token is never older than the
refreshes that failed in a row explain, and is replaced in the end.
`ConnectionsAreRotated`: a connection outlives its token by less than its own
lifetime. `OnlyStreamsDelayExit`: nothing but a live stream holds up the exit.
`RetriesArePaced`: the pause after an error is never shorter than the documented
one, so resetting the backoff too rarely costs time and spares the server.
`ReopensOnNotice`: no pause is left out but after a reload or an error event of
which everything has been handled. `OnlySilenceStops`: apart from silence, the
task comes back from everything.

Two accepted settings have no documented meaning to hold them against: a heartbeat
of 0 makes tokio panic in every watch, and a minimum backoff of 0 never grows.

## 5. Proofs

`KvStoreProofs` proves, for any number of handlers, any keys, page limit and
bound on ids, from `KvStoreAssumption` alone:

* `TypeCorrect`, `IdsFollowCommits` (`CommitOrderIsIdOrder`), `TableIsReplayedLog`
  (`TableMatchesLog`), `DeletionsCorrect` (`DeletesHaveVictims`),
  `NotificationsCorrect` (`NotificationsMirrorLog`), `PagingCorrect`
  (`PagingMissesNothing`);
* `Refinement`: `Spec => ImplementsConfigStore`.

None of these is inductive. `IInv` adds: exactly the handlers past the lock
statement hold the lock (`LockInv`); the position of a handler determines what
its transaction has written (`TxInv`); an id that has been handed out and not
published equals `idSeq` and is above every published id and the reader's cursor
(`IdInv`); a row found by a DELETE stays until it commits (`VictimInv`). The heart
is `LockExcludes`: while one handler holds the lock no other has an id.
`HandlerStep` shows that any step which respects lock, ids and rows and publishes
nothing preserves `IInv`; `UnpublishedActions` shows that every statement but
COMMIT is such a step; `CommitStep` and `ListEventsStep` treat the rest.

`LongPollProofs` proves, for any keys, clients, number of writes and snapshots,
from `LongPollAssumption` alone: `TypeCorrect`, and `WakeUpsReach`
(`OnlyRacesOversleep`). The property speaks only of a sleeper while the watch
task is between updates; the invariant says why a change is not forgotten at the
other points. Between check and subscription a poll has seen the entry as it is,
unless it raced (`SubscribeInv`); a sleeper that should wake is about to be
notified (`WaitInv`). `ItemsStep` treats the three updates that change items,
`PollerStep` every move of a client.

`EventFanoutProofs` proves, for any replicas, streams, keys, prefixes, ring size
and bounds on events and faults, from `EventFanoutAssumption` alone:

* `TypeCorrect`, `BroadcastCorrect` (`BroadcastInOrder`), `EmissionCorrect`
  (`EmittedInOrder`), `HandOversCorrect` (`NothingFallsBetween`);
* `Refinement`: `Spec => ImplementsWatchStream`.

`NothingFallsBetween` alone is not inductive: it does not say that an event
dropped by `event_id <= last_emitted` was carried before. `IInv` adds where the
listener stands (`ListenerInv`: neither it nor its connection is ahead of the
log, and in its receive loop the connection is not ahead of `last_seen`), that
the channel ascends to `last_seen` (`SentInv`), that a stream leaves nothing
behind `last_emitted` (`SettledInv`), that what it owes beyond is in the channel
or before the listener (`AheadInv`), and that what a tip read gave up is never
broadcast later (`PassedOverInv`). The heart is `ReceivedIsNext`: when the
receiver yields an id, everything owed below it has been carried or given up.
`TryRecv` and `ReplayGap` both append a stretch of the log to the channel and are
treated by one lemma, `BroadcastStep`; `EndStreamsStep` serves `Lagged`,
`Disconnect` and `Crash`. The refinement has one lemma per action that shows
through the mapping (`...View`); `ReceivedIsNext` makes `Recv` carry the least
id ahead.

`AgentCacheProofs` proves, for any keys, any set of watched ones and any bounds
on events and faults, from `AgentCacheAssumption` alone:

* `TypeCorrect`, `CacheIsExplained` (`StaleOnlyIfComing`), `LabelsAreWrites`
  (`EntriesAreLabelled`);
* the action properties `CursorMonotone` (`CursorNeverRegresses`) and
  `ValuesMonotone` (`ValuesNeverRegress`).

`StaleOnlyIfComing` speaks of the cache alone and is not inductive: a snapshot or
a GET under way could be wrong. Up to three copies of a value are under way, in
the response of a listing, in the answer to a GET and in the cache, and the
invariant ties each to the row by the latest event of its key. `RowInv`: a row
exists if that event is a set, and then holds it. `SnapInv`: the rows of a snapshot
are right about every key not written since they were read, and not older than
the cache (needed by `ValuesNeverRegress`); `LoadedInv`: its cursor is not
behind that of the cache. `GotInv`: the event being applied is the next one after
`pos`, and the answer is right about its key unless a later event of the key is
coming. `BoundInv` says that nothing is ahead of the log. The heart is
`AppliedStep`, which is used for a set, a delete and a 404: after an event is
handled the key's entry is right, or the event that corrects it is still ahead.
`ReplaceSnapshotStep` does the same for a reload, where `unseen` takes what fell
between its two queries.

`ServerProcessProofs` proves, for any environments, clients, life of a token and
time to mint one, from `ServerProcessAssumption` and `TokenTTLAssumption`:

* `TypeCorrect`, `PoolIsAccounted` (`NothingLeaks`), `TokenAgeBounded`
  (`TokenAgeIsExplained`);
* `TwoConnections`: the listener is in its receive loop only if the pool has two
  connections or more, which is why `NoConfigurationNeeded` fails;
* the action property `Rotation` (`ConnectionsAreRotated`).

`NothingLeaks` is needed for the others: `TwoConnections` is a count of the slots
that the listener and its query hold at once. The lemmas of the first section say
what each operation on the queue and on the connections does to who waits and
who holds; the steps of listener and requests use only these. `TokenInv` gives
the age of the token by where the refresher is: while a mint is under way it may
be an interval and the mint's time older than the failures explain, otherwise the
time since the last tick; `missed` counts up to 2 and says nothing beyond.
A mint that takes longer than the interval delays the next tick
(`MissedTickBehavior::Delay`), so a failure then costs the mint's time and not the
interval (`LostPerFailure`); no assumption excludes it.

`SseParserProofs` proves, for any fragments, events and texts and any way of
cutting a body into chunks, from `FragmentAssumption` alone (the fragments the
parser looks for are fragments):

* `LoopInvariant`: a set of parsers that every turn of `feed`'s loop preserves is
  preserved by the loop, and after it no complete line is left in the buffer;
* `ReadsOn`: a parser that has read `n` bytes of a body and emitted `j` events of
  it (`HasRead`), fed the bytes up to `m`, has read `m` bytes and has just
  returned the events from `j + 1` to some `k`, unchanged and in order;
* `OutIsArrived`: that `k` is the number of events that end within the `m` bytes.

The library's induction theorems take a predicate as an argument, which none of
the provers can instantiate. Induction is therefore stated for sets
(`SetInduction`, from `WFMin` and the order of the naturals), and the equation of
the recursive function `Turns` is derived from its finite courses
(`CoursesExist`, `CoursesAgree`, `TurnsEquation`). That the loop runs as often as
there are line ends is an induction over their number (`FewerLines`). The lemmas
about lines follow the code from byte to event: a line of a field keeps its text
(`LossyLine`, `Trims`), is split at its first colon (`LineOfField`) and sets that
field; an empty one ends the event (`LineEndsEvent`). `Carries` says which bytes
of a body belong to which event, and `At` where in it a parser can stand: at the
beginning of an event or after one of its lines, with those fields collected. The
set for the loop is `Reading`; `TurnReads` shows that a turn moves from one of
these places to the next (`TurnEvent`, `TurnId`, `TurnData`, `DrainEnd`).

`WatchLinkProofs` proves, for any backoff settings, streams, line ends, ids and
payloads, from `WatchLinkAssumption` and `FragmentAssumption`:

* `TypeCorrect`, `ChunksDoNotMatter` (`HandledIsWhatArrived`), `Paced`
  (`RetriesArePaced`), `SleepsAreBounded` (no sleep is longer than both settings);
* the action property `NoticeComesFirst` (`ReopensOnNotice`);
* `Refinement`: `Spec => ImplementsEventChannel`.

`HandledIsWhatArrived` does not say what is in the parser, and is not inductive.
`StreamInv` adds that the body carries the events sent (`Carries`) and that the
parser has read the first `received` bytes of it (`HasRead`); `SendStream` appends
an event (`CarriesMore`, `StillRead`), `ChunkStream` is `ReadsOn`, `HandleStream`
moves an event from `pending` to `handled`. `ReopensOnNotice` follows from
`OutIsArrived` for the whole body and from `ClosedInv`: a server ends a stream only
after a reload or an error event, and after them always. In the refinement
`HandleView` shows that the front of `pending` is the next event not handled yet
(`GivenIsArrived`), `StreamEndsView` that none is left at the end (`AllHandled`),
`SendView` that nothing follows a notice (`EndedIsClosed`). `BackoffInv` ties the next sleep, and the one
under way, to the number of errors since a clean end; `PaceInv` says that
both are at least what the errors since the last byte ask for. That `2^(n+1)` is twice `2^n`
(`Doubling`) is not known to the provers; it follows from the number of subsets
of a set of n elements (`FS_SUBSET` of the library).

Only model-checked: all liveness (`EveryRequestEnds`, `OwedIsSettled`,
`EventuallyConverges`, `EventuallyTold`, `FanoutStarts`, `EveryRequestSettles`,
`RefresherRecovers`, `OnlyStreamsDelayExit`, `EventuallyHandled`,
`OnlySilenceStops`), since fairness and ENABLED are outside what TLAPS supports
here. Every invariant and every action property of the passing runs, and all three
refinements, are proved.

## 6. Not modelled

Key and value validation, JSON, error texts and headers, logging, indexes and
timestamps change no state the properties speak of. Payloads of notifications and
stream events are taken to decode, as both ends are built from the same code.
Postgres is modelled by what the code relies on: atomic commit,
transaction-scoped advisory lock, non-transactional sequence, notifications at
commit and in commit order. sqlx, tokio and axum likewise (`external` entries of
the map). Configuration texts that do not parse, TLS files and listen addresses
only make start-up fail, which `StartFails` covers. `min_connections` opens
connections earlier and changes nothing else. An agent whose prefixes overlap
keeps a key in two caches, reads it from the longer prefix (`find_prefix`) and
lists it from the shorter one; the models have one prefix per agent. The agent's
`run` starts its tasks and waits for SIGTERM, with the same graceful shutdown as
the server, which waits for long polls of at most five minutes. The meta crate prints
a message; the deployment files are no behaviour of the program.
`PROJECT.json` lists every component with its status.

## 7. Plan

1. Done: `KvStore`, `EventFanout`, `AgentCache`, `LongPoll`, `WatchLink` with
   `SseParser`, `ServerProcess` with `ServerConfig`, all with proofs, the
   refinements of `ConfigStore`, `WatchStream` and `EventChannel` among them.
2. Overlapping prefixes: two caches of one key with their separate watch tasks.
3. `AgentCache` rebased on `WatchStream`, which gives it lost events and lag from
   the promise instead of from its own actions.
4. Lemmas about `ServerConfig`: which environments are accepted, and that each
   refusal of `validate_pool_against_database` is needed by some property.
