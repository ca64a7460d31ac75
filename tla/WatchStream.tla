------------------------------ MODULE WatchStream ------------------------------
(***************************************************************************)
(* What a /v1/watch stream promises its client, without the listener, the  *)
(* channel and the ring that keep the promise: from its cursor on, what the*)
(* client asked for, in id order and without a hole. The one excuse are    *)
(* the events that the replica's listener gives up when it starts over at  *)
(* the tip of the log. EventFanout implements this specification.          *)
(***************************************************************************)
EXTENDS Naturals, Sequences

CONSTANTS
  Watchers,  \* slots for requests
  Keys,
  Watched    \* Watched[w]: the keys under ?prefix= of w

VARIABLES
  log,      \* kv_events: the key of each committed event; its id is its position
  open,     \* the watchers that have a stream
  since,    \* since[w]: its ?since=
  carried,  \* carried[w]: the ids it has carried so far
  lost      \* lost[w]: ids it need not carry any more

streamVars == <<log, open, since, carried, lost>>

Init ==
  /\ log = << >>
  /\ open = {}
  /\ since = [w \in Watchers |-> 0]
  /\ carried = [w \in Watchers |-> {}]
  /\ lost = [w \in Watchers |-> {}]

Write(k) ==
  /\ log' = Append(log, k)
  /\ UNCHANGED <<open, since, carried, lost>>

\* The ids that the client of w has asked for.
Owed(w) == {i \in since[w] + 1 .. Len(log) : log[i] \in Watched[w]}

\* Those that are still to come.
Ahead(w) == {i \in Owed(w) \ lost[w] : \A j \in carried[w] : j < i}

\* A stream begins with all that is owed by then.
Open(w) ==
  /\ w \notin open
  /\ open' = open \cup {w}
  /\ \E s \in 0 .. Len(log) : since' = [since EXCEPT ![w] = s]
  /\ carried' = [carried EXCEPT ![w] = Owed(w)']
  /\ UNCHANGED <<log, lost>>

\* Then it carries the next one, and the next one.
Carry(w) ==
  /\ w \in open
  /\ \E i \in Ahead(w) :
       /\ \A j \in Ahead(w) : i <= j
       /\ carried' = [carried EXCEPT ![w] = @ \cup {i}]
  /\ UNCHANGED <<log, open, since, lost>>

\* The listener behind the streams in W starts over.
Lose(W) ==
  /\ W \subseteq open
  /\ \E n \in 0 .. Len(log) :
       lost' = [w \in Watchers |-> lost[w] \cup (IF w \in W THEN n + 1 .. Len(log) ELSE {})]
  /\ UNCHANGED <<log, open, since, carried>>

\* Streams end: the client leaves or lags behind, the replica dies.
Close(W) ==
  LET reset(f, v) == [w \in Watchers |-> IF w \in W THEN v ELSE f[w]] IN
  /\ open' = open \ W
  /\ since' = reset(since, 0)
  /\ carried' = reset(carried, {})
  /\ lost' = reset(lost, {})
  /\ UNCHANGED log

Next ==
  \/ \E k \in Keys : Write(k)
  \/ \E w \in Watchers : Open(w) \/ Carry(w)
  \/ \E W \in SUBSET Watchers : Lose(W) \/ Close(W)

Spec == Init /\ [][Next]_streamVars
==============================================================================
