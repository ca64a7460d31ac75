------------------------------- MODULE WatchLink -------------------------------
(***************************************************************************)
(* The connection between the agent's watch task and /v1/watch: the loop   *)
(* that opens it, reads it and paces its retries (agent/src/watch.rs), the *)
(* bytes it carries in chunks of any size (SseParser), and what the server *)
(* puts on it (server/src/api/watch.rs). What the events do to the cache   *)
(* is in AgentCache; here handling one succeeds or fails.                  *)
(***************************************************************************)
EXTENDS SseParser, FiniteSets

CONSTANTS
  MinBackoff, MaxBackoff,  \* --min-backoff and --max-backoff
  LineEnd,                 \* how the response ends its lines
  Payload,                 \* the bytes of a kv_changed event's data
  Id,                      \* Id[i]: the bytes of the i-th event id
  MaxSent,                 \* bound on the events of a stream
  MaxPiece,                \* a chunk has at most so many bytes, or all there are
  MaxFailures              \* failures in a row that are told apart

Kind == {"kv_changed", "heartbeat", "reload", "error"}
EmptyObject == "{}"  \* a heartbeat's data; nobody reads that of a reload or an error

ASSUME WatchLinkAssumption ==
  /\ MinBackoff \in Nat /\ MaxBackoff \in Nat
  /\ LineEnd \in {<<LF>>, <<CR, LF>>}
  /\ Kind \cup {EmptyObject} \subseteq Fragment
  /\ Text(Payload) /\ Payload # << >>
  /\ Id \in Seq(Seq(Fragment)) /\ \A i \in DOMAIN Id : Text(Id[i])
  /\ MaxSent \in 0 .. Len(Id)
  /\ {MaxPiece, MaxFailures} \subseteq Nat \ {0}

VARIABLES
  \* the server and the network
  up,        \* the server answers requests
  silent,    \* the connection is gone and nobody was told
  sent,      \* the kinds of the events on the current stream
  body,      \* the bytes of its response
  closed,    \* the server has ended it
  \* the agent
  phase,     \* where run_loop is
  ready,     \* a snapshot has been loaded
  received,  \* bytes of the stream read so far
  parser,    \* sse
  pending,   \* events of the last chunk that are not handled yet
  backoff,   \* the next sleep
  \* history
  ends,      \* where in the body each of the events ends
  handled,   \* the events of this stream that were handled
  slept,     \* the length of the sleep under way
  failures,  \* run_loop's errors since its last clean end, up to MaxFailures
  barren     \* those of them since a byte was last received

streamVars == <<sent, body, ends, closed, received, parser, pending, handled>>
retryVars == <<backoff, slept, failures, barren>>
vars == <<up, silent, phase, ready, streamVars, retryVars>>

Phase == {"snapshot", "connect", "streaming", "sleeping"}
\* The i-th event of a stream, as the server builds it.
Event(kind, i) ==
  [event |-> {<<kind>>},
   id    |-> IF kind = "kv_changed" THEN {Id[i]} ELSE {},
   data  |-> IF kind = "kv_changed" THEN Payload ELSE <<EmptyObject>>]

EventsOf(kinds) == [i \in DOMAIN kinds |-> Event(kinds[i], i)]

TypeOK ==
  /\ {up, silent, closed, ready} \subseteq BOOLEAN
  /\ sent \in Seq(Kind) /\ Len(sent) <= MaxSent
  /\ body \in Seq(Fragment) /\ ends \in [DOMAIN sent -> Nat]
  /\ phase \in Phase
  /\ received \in 0 .. Len(body)
  /\ {pending, handled} \subseteq Seq({Event(kind, i) : kind \in Kind, i \in DOMAIN sent})
  /\ backoff \in Nat /\ (backoff <= MinBackoff \/ backoff <= MaxBackoff)
  /\ slept \in Nat /\ failures \in 0 .. MaxFailures /\ barren \in 0 .. MaxFailures

NoStream ==
  /\ sent' = << >> /\ body' = << >> /\ ends' = << >> /\ closed' = FALSE
  /\ received' = 0 /\ parser' = NewParser /\ pending' = << >> /\ handled' = << >>

Init ==
  /\ up = TRUE /\ silent = FALSE
  /\ sent = << >> /\ body = << >> /\ ends = << >> /\ closed = FALSE
  /\ phase = "snapshot" /\ ready = FALSE
  /\ received = 0 /\ parser = NewParser /\ pending = << >> /\ handled = << >>
  /\ backoff = MinBackoff /\ slept = 0
  /\ failures = 0 /\ barren = 0

Lesser(m, n) == IF m <= n THEN m ELSE n
------------------------------------------------------------------------------
(***************************************************************************)
(* The server and the network.                                             *)
(***************************************************************************)

\* The server goes away or comes back.
Changes ==
  /\ up' = ~up
  /\ UNCHANGED <<silent, phase, ready, streamVars, retryVars>>

\* The peer disappears without a word (a NAT, a load balancer, a power cut).
GoesSilent ==
  /\ phase # "sleeping"
  /\ silent' = TRUE
  /\ UNCHANGED <<up, phase, ready, streamVars, retryVars>>

\* The stream yields an event. A failed catch-up query is its first and its
\* last, a reload its last.
Send(kind) ==
  /\ phase = "streaming" /\ up /\ ~closed
  /\ Len(sent) < MaxSent
  /\ kind = "error" => sent = << >>
  /\ sent' = Append(sent, kind)
  /\ body' = body \o Encode(Event(kind, Len(sent')), LineEnd)
  /\ ends' = Append(ends, Len(body'))
  /\ closed' = (kind \in {"error", "reload"})
  /\ UNCHANGED <<up, silent, phase, ready, received, parser, pending, handled, retryVars>>
------------------------------------------------------------------------------
(***************************************************************************)
(* run_once.                                                               *)
(***************************************************************************)
LoadSnapshot ==
  /\ phase = "snapshot" /\ up /\ ~silent
  /\ ready' = TRUE
  /\ phase' = "connect"
  /\ UNCHANGED <<up, silent, streamVars, retryVars>>

\* open_watch succeeds: a new response, a new parser.
OpenWatch ==
  /\ phase = "connect" /\ up /\ ~silent
  /\ phase' = "streaming"
  /\ NoStream
  /\ UNCHANGED <<up, silent, ready, retryVars>>

\* The next chunk; the events of the one before are handled.
Chunk ==
  /\ phase = "streaming" /\ ~silent
  /\ pending = << >>
  /\ \E n \in received + 1 .. Len(body) :
       /\ n <= received + MaxPiece \/ n = Len(body)
       /\ received' = n
       /\ \E fed \in {Feed(parser, SubSeq(body, received + 1, n))} :
            /\ parser' = fed
            /\ pending' = fed.out
  /\ barren' = 0
  /\ UNCHANGED <<up, silent, phase, ready, sent, body, ends, closed, handled,
                 backoff, slept, failures>>

\* Handling the event needs a request for sure (a set does, a delete does not).
Asks(ev) == ev.event = {<<"reload">>}

\* Of a chunk's events the first is handled.
Handle_FirstOfChunk ==
  /\ phase = "streaming" /\ ~silent
  /\ pending # << >>
  /\ Asks(Head(pending)) => up
  /\ handled' = Append(handled, Head(pending))
  /\ pending' = << >>
  /\ UNCHANGED <<up, silent, phase, ready, sent, body, ends, closed, received, parser, retryVars>>

\* handle_event; an error event is only logged, a reload needs the server.
Handle ==
  /\ phase = "streaming" /\ ~silent
  /\ pending # << >>
  /\ Asks(Head(pending)) => up
  /\ handled' = Append(handled, Head(pending))
  /\ pending' = Tail(pending)
  /\ UNCHANGED <<up, silent, phase, ready, sent, body, ends, closed, received, parser, retryVars>>

\* The body is read to its end.
AtEnd ==
  /\ phase = "streaming" /\ ~silent
  /\ closed /\ pending = << >> /\ received = Len(body)

\* run_loop opens the next watch at once.
StreamEnds_KeepsBackoff ==
  /\ AtEnd
  /\ phase' = "connect"
  /\ NoStream
  /\ failures' = 0 /\ barren' = 0
  /\ UNCHANGED <<up, silent, ready, backoff, slept>>

StreamEnds ==
  /\ AtEnd
  /\ phase' = "connect"
  /\ NoStream
  /\ backoff' = MinBackoff
  /\ failures' = 0 /\ barren' = 0
  /\ UNCHANGED <<up, silent, ready, slept>>

\* run_loop sleeps after an error.
BackOff_Uncapped ==
  /\ phase' = "sleeping"
  /\ NoStream
  /\ slept' = backoff
  /\ backoff' = 2 * backoff
  /\ failures' = Lesser(failures + 1, MaxFailures)
  /\ barren' = Lesser(barren + 1, MaxFailures)
  /\ UNCHANGED <<up, silent, ready>>

BackOff ==
  /\ phase' = "sleeping"
  /\ NoStream
  /\ slept' = backoff
  /\ backoff' = Lesser(2 * backoff, MaxBackoff)
  /\ failures' = Lesser(failures + 1, MaxFailures)
  /\ barren' = Lesser(barren + 1, MaxFailures)
  /\ UNCHANGED <<up, silent, ready>>

\* A request is refused.
Refused ==
  /\ ~up /\ ~silent
  /\ \/ phase \in {"snapshot", "connect"}
     \/ phase = "streaming" /\ pending # << >> /\ Asks(Head(pending))
  /\ BackOff

Breaks_AsEnd ==
  /\ phase = "streaming" /\ ~silent
  /\ phase' = "connect"
  /\ NoStream
  /\ backoff' = MinBackoff
  /\ failures' = 0 /\ barren' = 0
  /\ UNCHANGED <<up, silent, ready, slept>>

\* The body breaks off, or a set event's get_key fails.
Breaks == phase = "streaming" /\ ~silent /\ BackOff

\* The task ends if its first snapshot fails.
Wake_OnlyIfReady ==
  /\ phase = "sleeping"
  /\ ready
  /\ phase' = "connect"
  /\ slept' = 0
  /\ UNCHANGED <<up, silent, ready, streamVars, backoff, failures, barren>>

Wake ==
  /\ phase = "sleeping"
  /\ phase' = IF ready THEN "connect" ELSE "snapshot"
  /\ slept' = 0
  /\ UNCHANGED <<up, silent, ready, streamVars, backoff, failures, barren>>
------------------------------------------------------------------------------
AgentStep == LoadSnapshot \/ OpenWatch \/ Chunk \/ Handle \/ StreamEnds \/ Refused \/ Wake

Next == AgentStep \/ Breaks \/ Changes \/ GoesSilent \/ \E kind \in Kind : Send(kind)

Spec == Init /\ [][Next]_vars

\* The task runs and answers arrive, unless the connection is silent: the
\* client has no timeout.
FairSpec == Spec /\ WF_vars(AgentStep)
------------------------------------------------------------------------------
\* How many of the events sent have arrived completely.
Arrived ==
  Cardinality({k \in DOMAIN sent : ends[k] <= received})

(***************************************************************************)
(* What the agent handles is what the server sent, as far as it arrived,   *)
(* in order, once and unchanged, wherever the body is cut into chunks: in  *)
(* a line, in a line end, in a character (sse.rs:38-88).                   *)
(***************************************************************************)
HandledIsWhatArrived ==
  phase = "streaming" => handled \o pending = SubSeq(EventsOf(sent), 1, Arrived)

(***************************************************************************)
(* The n-th error in a row without a byte in between is followed by a pause*)
(* of at least 2^(n-1) times the minimum, up to the maximum, so that a     *)
(* server in trouble is not called sooner than docs/api.md:300 asks; and of*)
(* just that if it is the n-th since the start or a clean end              *)
(* (watch.rs:34-51).                                                       *)
(***************************************************************************)
Pause(n) == Lesser(MinBackoff * 2 ^ n, MaxBackoff)

RetriesArePaced ==
  phase = "sleeping" =>
    /\ barren < MaxFailures => slept >= Pause(barren - 1)
    /\ (barren = failures /\ failures < MaxFailures) =>
         slept = IF failures = 1 THEN MinBackoff ELSE Pause(failures - 1)

(***************************************************************************)
(* docs/api.md:300 wants the pause back at the minimum once any byte was   *)
(* received. run_loop resets it when a stream ends cleanly only.           *)
(***************************************************************************)
BackoffResets == phase = "sleeping" /\ barren = 1 => slept = MinBackoff

(***************************************************************************)
(* An event on the stream is handled, or the stream breaks or falls silent *)
(* (watch.rs:67-74): no event waits in the parser for the next one.        *)
(***************************************************************************)
EventuallyHandled ==
  \A k \in 1 .. MaxSent :
    (phase = "streaming" /\ Len(sent) >= k)
      ~> (Len(handled) >= k \/ phase # "streaming" \/ silent)

(***************************************************************************)
(* Once the server stays reachable the agent has a stream, again and again *)
(* if it has to. The one thing that stops it for good is a connection that *)
(* dies silently: none of its requests has a timeout (upstream.rs:38-109). *)
(***************************************************************************)
OnlySilenceStops == <>[]up => []<>(phase = "streaming" \/ silent)

(***************************************************************************)
(* Without a pause a watch is reopened only if the server ended the stream *)
(* and the agent has handled all of it, whose last event says why: a reload*)
(* or a failed catch-up (watch.rs:35-40).                                  *)
(***************************************************************************)
ReopensOnNotice ==
  [][(phase = "streaming" /\ phase' = "connect") =>
       /\ handled = EventsOf(sent)
       /\ sent # << >> /\ Last(sent) \in {"reload", "error"}]_vars

(***************************************************************************)
(* docs/api.md:250 wants an error event treated as a transport error, with *)
(* a pause before the next watch. handle_event logs it, and the stream it  *)
(* was the last event of has then ended cleanly.                           *)
(***************************************************************************)
ErrorsArePaced ==
  [][(phase = "streaming" /\ phase' = "connect") => Last(sent) # "error"]_vars

(***************************************************************************)
(* upstream.rs:6 speaks of timeouts around requests in the watch loop, and *)
(* docs/api.md:290 asks for one on the stream: a silent connection would be*)
(* given up. There are none.                                               *)
(***************************************************************************)
SilenceIsNoticed == (phase = "streaming" /\ silent) ~> phase # "streaming"

(***************************************************************************)
(* Bytes, chunks and parser together are a channel of events: each is      *)
(* handled once, the next one next, however they fall into chunks, until   *)
(* the connection breaks or has ended (watch.rs:55-75, sse.rs:38-88).      *)
(***************************************************************************)
EventsOfKind(kinds) == {Event(kind, i) : kind \in kinds, i \in DOMAIN Id}

Channel ==
  INSTANCE EventChannel WITH
    Message <- EventsOfKind(Kind),
    Final <- EventsOfKind({"reload", "error"}),
    state <- CASE phase = "streaming" -> "open"
               [] phase = "sleeping" -> "paused"
               [] OTHER -> "idle",
    sent <- EventsOf(sent),
    taken <- handled
ImplementsEventChannel == Channel!Spec
==============================================================================
