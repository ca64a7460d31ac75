----------------------------- MODULE EventFanout -----------------------------
(***************************************************************************)
(* How a committed event reaches the watch streams of every replica:       *)
(* server/src/listener.rs carries notifications from Postgres into the     *)
(* replica's broadcast channel (state.rs), and server/src/api/watch.rs     *)
(* turns that channel, preceded by a catch-up query, into one SSE stream   *)
(* per client.                                                             *)
(*                                                                         *)
(* The log is the sequence of keys of the committed events; the id of an   *)
(* event is its position. That ids grow in commit order, and that Postgres *)
(* notifies in commit order, is what KvStore establishes. An event of the  *)
(* channel is its id.                                                      *)
(***************************************************************************)
EXTENDS Naturals, Sequences

CONSTANTS
  Replicas,   \* ferra-server processes
  Watchers,   \* slots for GET /v1/watch requests
  Keys,
  Watched,    \* Watched[w]: the keys under ?prefix= of w
  RingSize,   \* capacity of the broadcast channel, 1024 in state.rs
  MaxEvents,  \* bound on the length of the log
  MaxFaults   \* bound on lost connections, failed queries and crashes

ASSUME EventFanoutAssumption ==
  /\ Watched \in [Watchers -> SUBSET Keys]
  /\ RingSize \in Nat \ {0}
  /\ MaxEvents \in Nat
  /\ MaxFaults \in Nat

VARIABLES
  log,         \* kv_events: the key of each committed event
  listener,    \* listener[r]: where the listener task of r is in run_once
  notifyPos,   \* notifyPos[r]: last event its LISTEN connection has yielded
  lastSeen,    \* lastSeen[r]: last_seen of run_once
  sent,        \* sent[r]: ids broadcast by r since it started
  stream,      \* stream[w]: phase of the request
  at,          \* at[w]: the replica that serves it
  since,       \* since[w]: its ?since=
  rxPos,       \* rxPos[w]: how much of sent[at[w]] its receiver has consumed
  lastEmitted, \* lastEmitted[w]: last_emitted of watch
  caughtUp,    \* caughtUp[w]: ids its catch-up put on the stream (history)
  emitted,     \* emitted[w]: ids put on it after that, in order (history)
  passedOver,  \* passedOver[w]: ids its replica skipped at a tip read while
               \* the stream was live (history)
  faults       \* faults so far

listenerVars == <<listener, notifyPos, lastSeen, sent>>
streamVars == <<stream, at, since, rxPos, lastEmitted, caughtUp, emitted, passedOver>>
vars == <<log, listener, notifyPos, lastSeen, sent,
          stream, at, since, rxPos, lastEmitted, caughtUp, emitted, passedOver, faults>>

(***************************************************************************)
(* down:      no run_once under way                                        *)
(* listening: LISTEN issued, MAX(id) not read yet                          *)
(* ready:     in the receive loop                                          *)
(* lost:      the connection is gone, sqlx is reconnecting                 *)
(* gap:       reconnected, replay_gap not done yet                         *)
(***************************************************************************)
ListenerPhase == {"down", "listening", "ready", "lost", "gap"}

\* subscribed: the receiver exists, the catch-up query has not run yet.
StreamPhase == {"closed", "subscribed", "live"}

TypeOK ==
  /\ log \in Seq(Keys)
  /\ listener \in [Replicas -> ListenerPhase]
  /\ notifyPos \in [Replicas -> Nat]
  /\ lastSeen \in [Replicas -> Nat]
  /\ sent \in [Replicas -> Seq(Nat)]
  /\ stream \in [Watchers -> StreamPhase]
  /\ at \in [Watchers -> Replicas]
  /\ since \in [Watchers -> Nat]
  /\ rxPos \in [Watchers -> Nat]
  /\ lastEmitted \in [Watchers -> Nat]
  /\ caughtUp \in [Watchers -> SUBSET Nat]
  /\ emitted \in [Watchers -> Seq(Nat)]
  /\ passedOver \in [Watchers -> SUBSET Nat]
  /\ faults \in Nat

Init ==
  /\ log = << >>
  /\ listener = [r \in Replicas |-> "down"]
  /\ notifyPos = [r \in Replicas |-> 0]
  /\ lastSeen = [r \in Replicas |-> 0]
  /\ sent = [r \in Replicas |-> << >>]
  /\ stream = [w \in Watchers |-> "closed"]
  /\ at \in [Watchers -> Replicas]
  /\ since = [w \in Watchers |-> 0]
  /\ rxPos = [w \in Watchers |-> 0]
  /\ lastEmitted = [w \in Watchers |-> 0]
  /\ caughtUp = [w \in Watchers |-> {}]
  /\ emitted = [w \in Watchers |-> << >>]
  /\ passedOver = [w \in Watchers |-> {}]
  /\ faults = 0

Fault == faults < MaxFaults /\ faults' = faults + 1

\* The response streams of the watchers in W end, their locals are dropped.
EndStreams(W) ==
  LET reset(f, v) == [w \in Watchers |-> IF w \in W THEN v ELSE f[w]] IN
  /\ stream' = reset(stream, "closed")
  /\ since' = reset(since, 0)
  /\ rxPos' = reset(rxPos, 0)
  /\ lastEmitted' = reset(lastEmitted, 0)
  /\ caughtUp' = reset(caughtUp, {})
  /\ emitted' = reset(emitted, << >>)
  /\ passedOver' = reset(passedOver, {})
  /\ UNCHANGED at

\* A write commits on some replica.
Write(k) ==
  /\ Len(log) < MaxEvents
  /\ log' = Append(log, k)
  /\ UNCHANGED <<listenerVars, streamVars, faults>>
------------------------------------------------------------------------------
(***************************************************************************)
(* The listener task of a replica.                                         *)
(***************************************************************************)

\* PgListener::connect_with and LISTEN: notified of what commits from now on.
Listen(r) ==
  /\ listener[r] = "down"
  /\ listener' = [listener EXCEPT ![r] = "listening"]
  /\ notifyPos' = [notifyPos EXCEPT ![r] = Len(log)]
  /\ UNCHANGED <<log, lastSeen, sent, streamVars, faults>>

(***************************************************************************)
(* SELECT MAX(id): whatever was not broadcast before is now history, for   *)
(* the streams that are already live too.                                  *)
(***************************************************************************)
InitLastSeen_Mutant(r) ==
  /\ listener[r] = "listening"
  /\ listener' = [listener EXCEPT ![r] = "ready"]
  /\ lastSeen' = [lastSeen EXCEPT ![r] = IF log = << >> THEN 0 - 1 ELSE Len(log)]
  /\ UNCHANGED <<log, notifyPos, sent, streamVars, faults>>

InitLastSeen(r) ==
  /\ listener[r] = "listening"
  /\ listener' = [listener EXCEPT ![r] = "ready"]
  /\ lastSeen' = [lastSeen EXCEPT ![r] = Len(log)]
  /\ passedOver' =
       [w \in Watchers |->
          IF stream[w] = "live" /\ at[w] = r
          THEN passedOver[w] \cup (lastSeen[r] + 1 .. Len(log))
          ELSE passedOver[w]]
  /\ UNCHANGED <<log, notifyPos, sent, stream, at, since, rxPos, lastEmitted, caughtUp, emitted, faults>>

\* try_recv yields a notification: broadcast it unless already broadcast.
TryRecv_Mutant(r) ==
  /\ listener[r] = "ready"
  /\ notifyPos[r] < Len(log)
  /\ notifyPos' = [notifyPos EXCEPT ![r] = @ + 1]
  /\ lastSeen' = [lastSeen EXCEPT ![r] = notifyPos[r] + 1]
  /\ sent' = [sent EXCEPT ![r] = Append(@, notifyPos[r] + 1)]
  /\ UNCHANGED <<log, listener, streamVars, faults>>

TryRecv(r) ==
  /\ listener[r] = "ready"
  /\ notifyPos[r] < Len(log)
  /\ LET id == notifyPos[r] + 1 IN
     /\ notifyPos' = [notifyPos EXCEPT ![r] = id]
     /\ \/ /\ id <= lastSeen[r]
           /\ UNCHANGED <<lastSeen, sent>>
        \/ /\ id > lastSeen[r]
           /\ lastSeen' = [lastSeen EXCEPT ![r] = id]
           /\ sent' = [sent EXCEPT ![r] = Append(@, id)]
  /\ UNCHANGED <<log, listener, streamVars, faults>>

\* The connection drops: what is notified until it is back is lost.
ConnectionLost(r) ==
  /\ listener[r] = "ready"
  /\ Fault
  /\ listener' = [listener EXCEPT ![r] = "lost"]
  /\ UNCHANGED <<log, notifyPos, lastSeen, sent, streamVars>>

\* sqlx reconnects and re-issues LISTEN before try_recv returns None.
Reconnect(r) ==
  /\ listener[r] = "lost"
  /\ listener' = [listener EXCEPT ![r] = "gap"]
  /\ notifyPos' = [notifyPos EXCEPT ![r] = Len(log)]
  /\ UNCHANGED <<log, lastSeen, sent, streamVars, faults>>

\* replay_gap: everything above last_seen is broadcast from kv_events.
ReplayGap_Mutant(r) ==
  /\ listener[r] = "gap"
  /\ listener' = [listener EXCEPT ![r] = "ready"]
  /\ lastSeen' = [lastSeen EXCEPT ![r] = notifyPos[r]]
  /\ UNCHANGED <<log, notifyPos, sent, streamVars, faults>>

ReplayGap(r) ==
  /\ listener[r] = "gap"
  /\ listener' = [listener EXCEPT ![r] = "ready"]
  /\ lastSeen' = [lastSeen EXCEPT ![r] = Len(log)]
  /\ sent' = [sent EXCEPT ![r] = @ \o [i \in 1 .. Len(log) - lastSeen[r] |-> lastSeen[r] + i]]
  /\ UNCHANGED <<log, notifyPos, streamVars, faults>>

\* run_once returns an error: reconnecting, the tip query or the replay failed.
RunOnceFails(r) ==
  /\ listener[r] # "down"
  /\ Fault
  /\ listener' = [listener EXCEPT ![r] = "down"]
  /\ UNCHANGED <<log, notifyPos, lastSeen, sent, streamVars>>

\* The process dies and is restarted; its streams break.
Crash(r) ==
  /\ Fault
  /\ listener' = [listener EXCEPT ![r] = "down"]
  /\ lastSeen' = [lastSeen EXCEPT ![r] = 0]
  /\ sent' = [sent EXCEPT ![r] = << >>]
  /\ EndStreams({w \in Watchers : at[w] = r})
  /\ UNCHANGED <<log, notifyPos>>
------------------------------------------------------------------------------
(***************************************************************************)
(* A GET /v1/watch?since=s request on replica r.                           *)
(***************************************************************************)

\* The receiver is created before anything is read.
Subscribe(w, r, s) ==
  /\ stream[w] = "closed"
  /\ stream' = [stream EXCEPT ![w] = "subscribed"]
  /\ at' = [at EXCEPT ![w] = r]
  /\ since' = [since EXCEPT ![w] = s]
  /\ lastEmitted' = [lastEmitted EXCEPT ![w] = s]
  /\ rxPos' = [rxPos EXCEPT ![w] = Len(sent[r])]
  /\ caughtUp' = [caughtUp EXCEPT ![w] = {}]
  /\ emitted' = [emitted EXCEPT ![w] = << >>]
  /\ passedOver' = [passedOver EXCEPT ![w] = {}]
  /\ UNCHANGED <<log, listenerVars, faults>>

\* Event i is one the client of w has asked for.
Due(w, i) == i \in since[w] + 1 .. Len(log) /\ log[i] \in Watched[w]

\* The catch-up query and the events it returns, the last of which is the
\* one with the largest id.
CatchUp_Mutant(w) ==
  /\ stream[w] = "subscribed"
  /\ stream' = [stream EXCEPT ![w] = "live"]
  /\ caughtUp' = [caughtUp EXCEPT ![w] = {i \in 1 .. Len(log) : Due(w, i)}]
  /\ UNCHANGED <<log, listenerVars, at, since, rxPos, lastEmitted, emitted, passedOver, faults>>

CatchUp(w) ==
  LET due == {i \in 1 .. Len(log) : Due(w, i)} IN
  /\ stream[w] = "subscribed"
  /\ stream' = [stream EXCEPT ![w] = "live"]
  /\ caughtUp' = [caughtUp EXCEPT ![w] = due]
  /\ \E last \in due \cup {since[w]} :
       /\ \A i \in due : i <= last
       /\ lastEmitted' = [lastEmitted EXCEPT ![w] = last]
  /\ UNCHANGED <<log, listenerVars, at, since, rxPos, emitted, passedOver, faults>>

Behind(w) == Len(sent[at[w]]) - rxPos[w]

\* rx.recv() yields an event: filter by prefix, drop what was emitted before.
Recv(w) ==
  /\ stream[w] = "live"
  /\ Behind(w) \in 1 .. RingSize
  /\ LET id == sent[at[w]][rxPos[w] + 1] IN
     /\ rxPos' = [rxPos EXCEPT ![w] = @ + 1]
     /\ \/ /\ log[id] \notin Watched[w] \/ id <= lastEmitted[w]
           /\ UNCHANGED <<lastEmitted, emitted>>
        \/ /\ log[id] \in Watched[w] /\ id > lastEmitted[w]
           /\ lastEmitted' = [lastEmitted EXCEPT ![w] = id]
           /\ emitted' = [emitted EXCEPT ![w] = Append(@, id)]
  /\ UNCHANGED <<log, listenerVars, stream, at, since, caughtUp, passedOver, faults>>

\* The ring has overwritten what w has not consumed: reload, end of stream.
Lagged_Mutant(w) ==
  /\ stream[w] = "live"
  /\ Behind(w) > RingSize
  /\ rxPos' = [rxPos EXCEPT ![w] = Len(sent[at[w]]) - RingSize]
  /\ UNCHANGED <<log, listenerVars, stream, at, since, lastEmitted, caughtUp, emitted, passedOver, faults>>

Lagged(w) ==
  /\ stream[w] = "live"
  /\ Behind(w) > RingSize
  /\ EndStreams({w})
  /\ UNCHANGED <<log, listenerVars, faults>>

\* The client goes away, the connection breaks, or the catch-up query fails.
Disconnect(w) ==
  /\ stream[w] # "closed"
  /\ EndStreams({w})
  /\ UNCHANGED <<log, listenerVars, faults>>
------------------------------------------------------------------------------
ListenerStep(r) == Listen(r) \/ InitLastSeen(r) \/ TryRecv(r) \/ Reconnect(r) \/ ReplayGap(r)

StreamStep(w) == CatchUp(w) \/ Recv(w) \/ Lagged(w)

Next ==
  \/ \E k \in Keys : Write(k)
  \/ \E r \in Replicas : ListenerStep(r) \/ ConnectionLost(r) \/ RunOnceFails(r) \/ Crash(r)
  \/ \E w \in Watchers : StreamStep(w) \/ Disconnect(w)
  \/ \E w \in Watchers, r \in Replicas, s \in 0 .. Len(log) : Subscribe(w, r, s)

Spec == Init /\ [][Next]_vars

\* Both loops run for as long as the process does; the client keeps reading.
FairSpec ==
  /\ Spec
  /\ \A r \in Replicas : WF_vars(ListenerStep(r))
  /\ \A w \in Watchers : WF_vars(StreamStep(w))
------------------------------------------------------------------------------
\* What the stream of w has carried so far.
Carried(w) == caughtUp[w] \cup {emitted[w][j] : j \in 1 .. Len(emitted[w])}

HasEmitted(w, i) == i \in Carried(w)

\* Event i is in the channel and w has not consumed it yet.
InChannel(w, i) == \E j \in rxPos[w] + 1 .. Len(sent[at[w]]) : sent[at[w]][j] = i

(***************************************************************************)
(* The hand-overs leave no hole: every event a live stream owes its client *)
(* has been emitted, or is waiting in the channel, or has yet to reach the *)
(* listener, whose connection will yield it once it is in its receive loop.*)
(* This has to hold across subscribe/catch-up (watch.rs:27-72), LISTEN/    *)
(* MAX(id) (listener.rs:60-68), and reconnect/replay (listener.rs:85-90).  *)
(* The exception are the ids that a listener restarted by an error skips.  *)
(***************************************************************************)
NothingFallsBetween ==
  \A w \in Watchers : stream[w] = "live" =>
    \A i \in 1 .. Len(log) : Due(w, i) =>
      \/ HasEmitted(w, i)
      \/ InChannel(w, i)
      \/ i > lastSeen[at[w]] /\ (listener[at[w]] = "ready" => i > notifyPos[at[w]])
      \/ i \in passedOver[w]

(***************************************************************************)
(* A stream carries each event at most once, in id order, and only events  *)
(* its client asked for, although catch-up, live channel and gap replay    *)
(* may all offer the same event (watch.rs:88-94, listener.rs:75-83).       *)
(***************************************************************************)
EmittedInOrder ==
  \A w \in Watchers :
    /\ \A i, j \in 1 .. Len(emitted[w]) : i < j => emitted[w][i] < emitted[w][j]
    /\ \A i \in 1 .. Len(emitted[w]), c \in caughtUp[w] : c < emitted[w][i]
    /\ \A i \in Carried(w) : Due(w, i)

(***************************************************************************)
(* No replica broadcasts an event twice or out of order, whatever mix of   *)
(* replay and late notifications it works through (listener.rs:75-90).     *)
(***************************************************************************)
BroadcastInOrder ==
  \A r \in Replicas : \A i, j \in 1 .. Len(sent[r]) : i < j => sent[r][i] < sent[r][j]

(***************************************************************************)
(* What a live stream owes is eventually emitted, unless the stream ends   *)
(* (the client resumes from its cursor) or a tip read skips the event.     *)
(***************************************************************************)
OwedIsSettled ==
  \A w \in Watchers, i \in 1 .. MaxEvents :
    (stream[w] = "live" /\ Due(w, i))
      ~> (stream[w] # "live" \/ HasEmitted(w, i) \/ i \in passedOver[w])

(***************************************************************************)
(* The streams keep the promise of WatchStream: whatever the listener goes *)
(* through, a stream carries what it owes in order and leaves nothing out  *)
(* but what a tip read gave up. It ends rather than skip (watch.rs:105).   *)
(***************************************************************************)
Live == {w \in Watchers : stream[w] = "live"}

Promise ==
  INSTANCE WatchStream WITH
    open <- Live,
    since <- [w \in Watchers |-> IF w \in Live THEN since[w] ELSE 0],
    carried <- [w \in Watchers |-> Carried(w)],
    lost <- passedOver
ImplementsWatchStream == Promise!Spec

(***************************************************************************)
(* The comment at listener.rs:63: starting at the tip is harmless because  *)
(* /v1/watch's own catch-up serves the older events. It does not for a     *)
(* stream whose catch-up ran before the tip was read.                      *)
(***************************************************************************)
CatchUpServesHistory ==
  \A w \in Watchers : stream[w] = "live" =>
    \A i \in passedOver[w] : Due(w, i) => HasEmitted(w, i)

(***************************************************************************)
(* The comment at listener.rs:11: notifications lost with the connection   *)
(* are replayed on reconnect. So a replica that has been broadcasting never*)
(* moves last_seen beyond an event it has not broadcast. It does when      *)
(* run_once itself fails: the next one starts at the tip.                  *)
(***************************************************************************)
GapIsReplayed ==
  [][\A r \in Replicas : (sent[r] # << >> /\ lastSeen'[r] > lastSeen[r]) =>
       \A i \in lastSeen[r] + 1 .. lastSeen'[r] :
         \E j \in 1 .. Len(sent'[r]) : sent'[r][j] = i]_vars
==============================================================================
