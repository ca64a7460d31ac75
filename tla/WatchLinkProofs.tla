---------------------------- MODULE WatchLinkProofs ----------------------------
(***************************************************************************)
(* Theorems about WatchLink, for any backoff settings, line ends, payloads *)
(* and cuts of the body into chunks: how long the watch task sleeps, what  *)
(* it handles, and when it opens the next watch at once.                   *)
(***************************************************************************)
EXTENDS WatchLink, SseParserProofs

\* The next sleep after f errors in a row.
Expected(f) == IF f = 0 THEN MinBackoff ELSE Pause(f)

\* The backoff and the sleep under way belong to the number of errors, and
\* neither is longer than both settings.
BackoffInv ==
  /\ failures \in 0 .. MaxFailures
  /\ backoff \in Nat /\ (backoff <= MinBackoff \/ backoff <= MaxBackoff)
  /\ slept \in Nat /\ (slept <= MinBackoff \/ slept <= MaxBackoff)
  /\ failures < MaxFailures => backoff = Expected(failures)
  /\ (phase = "sleeping" /\ failures < MaxFailures) =>
       failures > 0 /\ slept = Expected(failures - 1)

\* Bytes received never make the backoff smaller, so it is at least what the
\* errors since then make of the minimum.
PaceInv ==
  /\ barren \in 0 .. MaxFailures
  /\ backoff >= Pause(0)
  /\ barren < MaxFailures => backoff >= Pause(barren)
  /\ (phase = "sleeping" /\ barren < MaxFailures) =>
       barren > 0 /\ slept >= Pause(barren - 1)

\* The server ends a stream with the event that announces it.
ClosedInv ==
  /\ sent \in Seq(Kind)
  /\ closed <=> sent # << >> /\ Last(sent) \in {"reload", "error"}

\* The events of a stream with that many.
SentEvents(kinds) == {Event(kind, i) : kind \in Kind, i \in DOMAIN kinds}

\* The body carries the events sent, and the parser has read the first bytes of
\* it: what it has emitted is handled or about to be.
StreamInv ==
  /\ Len(sent) <= MaxSent
  /\ Carries(body, EventsOf(sent), ends, LineEnd)
  /\ received \in 0 .. Len(body)
  /\ {pending, handled} \subseteq Seq(SentEvents(sent))
  /\ \E k : /\ HasRead(body, EventsOf(sent), ends, LineEnd, received, k, parser)
           /\ Join(handled, pending) = Piece(EventsOf(sent), 0, k)

\* The rest of the type invariant.
FlagsInv == {up, silent, closed, ready} \subseteq BOOLEAN /\ phase \in Phase

IInv == BackoffInv /\ PaceInv /\ ClosedInv /\ StreamInv /\ FlagsInv
------------------------------------------------------------------------------
\* A set of n + 1 elements has twice as many subsets as one of n.
LEMMA Doubling ==
  ASSUME NEW n \in Nat
  PROVE  2 ^ n \in Nat /\ 2 ^ (n + 1) = 2 * 2 ^ n
<1> DEFINE S == SUBSET (1 .. n)
           T == {X \cup {n + 1} : X \in S}
           f == [X \in S |-> X \cup {n + 1}]
<1>1. /\ IsFiniteSet(1 .. n) /\ Cardinality(1 .. n) = n
      /\ IsFiniteSet(1 .. n + 1) /\ Cardinality(1 .. n + 1) = n + 1
  BY FS_Interval
<1>2. /\ IsFiniteSet(S) /\ Cardinality(S) = 2 ^ n
      /\ Cardinality(SUBSET (1 .. n + 1)) = 2 ^ (n + 1)
  BY <1>1, FS_SUBSET
<1>3. Cardinality(S) \in Nat
  BY <1>2, FS_CardinalityType
<1>4. \A X \in S : n + 1 \notin X
  OBVIOUS
<1>5. f \in Bijection(S, T)
  <2>1. f \in [S -> T] /\ \A Y \in T : \E X \in S : f[X] = Y
    OBVIOUS
  <2>2. ASSUME NEW X \in S, NEW Y \in S, f[X] = f[Y]
        PROVE  X = Y
    <3>1. X \cup {n + 1} = Y \cup {n + 1}
      BY <2>2
    <3> QED
      BY <1>4, <3>1
  <2> HIDE DEF f, S, T
  <2> QED
    BY <2>1, <2>2 DEF Bijection, Injection, Surjection, IsInjective
<1>6. IsFiniteSet(T) /\ Cardinality(T) = Cardinality(S)
  BY <1>2, <1>5, FS_Bijection DEF ExistsBijection
<1>7. SUBSET (1 .. n + 1) = S \cup T
  <2>1. ASSUME NEW X \in SUBSET (1 .. n + 1)
        PROVE  X \in S \cup T
    <3>1. CASE n + 1 \in X
      <4>1. X \ {n + 1} \in S /\ X = (X \ {n + 1}) \cup {n + 1}
        BY <3>1
      <4> QED
        BY <4>1
    <3>2. CASE n + 1 \notin X
      BY <3>2
    <3> QED
      BY <3>1, <3>2
  <2>2. ASSUME NEW X \in S
        PROVE  X \in SUBSET (1 .. n + 1) /\ X \cup {n + 1} \in SUBSET (1 .. n + 1)
    OBVIOUS
  <2>3. \A X \in S \cup T : X \in SUBSET (1 .. n + 1)
    BY <2>2
  <2> HIDE DEF S, T
  <2> QED
    BY <2>1, <2>3
<1>8. S \cap T = {}
  BY <1>4
<1>9. Cardinality(S \cup T) = Cardinality(S) + Cardinality(T) - 0
  <2>1. Cardinality(S \cup T) = Cardinality(S) + Cardinality(T) - Cardinality(S \cap T)
    BY <1>2, <1>6, FS_Union
  <2> QED
    BY <1>8, <2>1, FS_EmptySet
<1> HIDE DEF S, T
<1>10. PICK c \in Nat : Cardinality(S) = c
  BY <1>3
<1>11. 2 ^ n = c
  BY <1>2, <1>10
<1>12. 2 ^ (n + 1) = c + c - 0
  BY <1>2, <1>6, <1>7, <1>9, <1>10
<1> QED
  BY <1>11, <1>12

\* One more error doubles the pause, up to the maximum.
LEMMA PauseDoubles ==
  ASSUME NEW f \in Nat
  PROVE  \E a \in Nat : /\ f = 0 => a = MinBackoff
                        /\ Pause(f) = Lesser(a, MaxBackoff) /\ Pause(f + 1) = Lesser(2 * a, MaxBackoff)
<1>1. MinBackoff \in Nat /\ MaxBackoff \in Nat
  BY WatchLinkAssumption
<1>2. PICK p \in Nat : 2 ^ f = p /\ 2 ^ (f + 1) = 2 * p
  BY Doubling
<1>3. PICK a \in Nat : MinBackoff * p = a /\ MinBackoff * (2 * p) = 2 * a
  <2>1. \A m, q \in Nat : m * q \in Nat /\ m * (2 * q) = 2 * (m * q)
    OBVIOUS
  <2> QED
    BY <1>1, <2>1
<1>4. Pause(f) = Lesser(a, MaxBackoff) /\ Pause(f + 1) = Lesser(2 * a, MaxBackoff)
  BY <1>2, <1>3 DEF Pause
<1>5. ASSUME f = 0
      PROVE  a = MinBackoff
  <2>1. p = 1
    BY <1>2, <1>5
  <2> QED
    BY <1>1, <1>3, <2>1
<1> QED
  BY <1>4, <1>5

LEMMA ExpectedDoubles ==
  ASSUME NEW f \in Nat
  PROVE  Expected(f) \in Nat /\ Expected(f + 1) = Lesser(2 * Expected(f), MaxBackoff)
<1>1. MinBackoff \in Nat /\ MaxBackoff \in Nat
  BY WatchLinkAssumption
<1>2. PICK a \in Nat : /\ f = 0 => a = MinBackoff
                       /\ Pause(f) = Lesser(a, MaxBackoff) /\ Pause(f + 1) = Lesser(2 * a, MaxBackoff)
  BY PauseDoubles
<1>3. f + 1 # 0 /\ Expected(f + 1) = Lesser(2 * a, MaxBackoff)
  BY <1>2 DEF Expected
<1>4. CASE f = 0
  BY <1>1, <1>2, <1>3, <1>4 DEF Expected
<1>5. CASE f # 0
  BY <1>1, <1>2, <1>3, <1>5 DEF Expected, Lesser
<1> QED
  BY <1>4, <1>5

\* So does a backoff that was longer already.
LEMMA PauseGrows ==
  ASSUME NEW f \in Nat, NEW b \in Nat, b >= Pause(f)
  PROVE  Pause(f) \in Nat /\ Lesser(2 * b, MaxBackoff) >= Pause(f + 1)
<1>1. MaxBackoff \in Nat
  BY WatchLinkAssumption
<1>2. PICK a \in Nat : Pause(f) = Lesser(a, MaxBackoff) /\ Pause(f + 1) = Lesser(2 * a, MaxBackoff)
  BY PauseDoubles
<1> QED
  BY <1>1, <1>2 DEF Lesser

\* The first pause is the smaller of the two settings.
LEMMA FirstPause == Pause(0) = Lesser(MinBackoff, MaxBackoff)
BY PauseDoubles

------------------------------------------------------------------------------
(***************************************************************************)
(* The stream.                                                             *)
(***************************************************************************)
LEMMA WordText ==
  ASSUME NEW word \in Fragment, word \notin {LF, CR, Lead, Trail}
  PROVE  Text(<<word>>)
<1> DEFINE bytes == <<word>>
<1>1. bytes \in Seq(Fragment) /\ Len(bytes) = 1 /\ DOMAIN bytes = 1 .. 1 /\ bytes[1] = word
  OBVIOUS
<1> HIDE DEF bytes
<1>2. Lossy(bytes) = bytes
  BY <1>1, LossyKeeps
<1>3. Text(bytes)
  BY <1>1, <1>2 DEF Text
<1> QED
  BY <1>3 DEF bytes

LEMMA Words == \A kind \in Kind : Text(<<kind>>)
<1>1. ASSUME NEW kind \in Kind
      PROVE  kind \in Fragment /\ kind \notin {LF, CR, Lead, Trail}
  BY WatchLinkAssumption DEF Kind, LF, CR, Lead, Trail
<1> QED
  BY <1>1, WordText

LEMMA EmptyText == Text(<<EmptyObject>>)
<1>1. EmptyObject \in Fragment /\ EmptyObject \notin {LF, CR, Lead, Trail}
  BY WatchLinkAssumption DEF EmptyObject, LF, CR, Lead, Trail
<1> QED
  BY <1>1, WordText

\* What the server builds goes over the wire unchanged.
LEMMA EventsTravel ==
  ASSUME NEW kind \in Kind, NEW i \in 1 .. Len(Id)
  PROVE  Event(kind, i) \in WireEvent
<1> DEFINE ev == Event(kind, i)
           word == <<kind>>
           empty == <<EmptyObject>>
           id == Id[i]
<1>1. Text(word) /\ Text(empty) /\ Text(Payload)
  BY Words, EmptyText, WatchLinkAssumption
<1>2. Text(id)
  BY WatchLinkAssumption
<1>3. ev = [event |-> {word}, id |-> ev.id, data |-> ev.data]
      /\ ev.id \in {{}, {id}} /\ ev.data \in {Payload, empty}
  BY DEF Event
<1> HIDE DEF word, empty, id, ev
<1>4. /\ ev.event = {word}
      /\ ev.id = {} \/ \E v : ev.id = {v} /\ Text(v)
      /\ Text(ev.data)
  BY <1>1, <1>2, <1>3
<1>5. /\ word \in Seq(Fragment) /\ id \in Seq(Fragment)
      /\ ev.data \in Seq(Fragment)
  BY <1>1, <1>2, <1>4 DEF Text
<1>6. ev \in SseEvent
  BY <1>3, <1>5 DEF SseEvent
<1>7. ev \in WireEvent
  BY <1>1, <1>4, <1>6 DEF WireEvent
<1> QED
  BY <1>7 DEF ev

LEMMA EventsSent ==
  ASSUME NEW kinds \in Seq(Kind), Len(kinds) <= MaxSent
  PROVE  /\ SentEvents(kinds) \subseteq WireEvent
         /\ EventsOf(kinds) \in Seq(SentEvents(kinds)) /\ EventsOf(kinds) \in Seq(WireEvent)
         /\ Len(EventsOf(kinds)) = Len(kinds)
<1> DEFINE S == SentEvents(kinds)
           f == EventsOf(kinds)
           n == Len(kinds)
<1>1. MaxSent \in Nat /\ MaxSent <= Len(Id) /\ Len(Id) \in Nat
  BY WatchLinkAssumption
<1>2. n \in Nat /\ DOMAIN kinds = 1 .. n /\ \A i \in 1 .. n : kinds[i] \in Kind
  OBVIOUS
<1>3. \A i \in 1 .. n : i \in 1 .. Len(Id)
  BY <1>1, <1>2
<1>4. S \subseteq WireEvent
  BY <1>2, <1>3, EventsTravel DEF SentEvents
<1>5. f = [i \in 1 .. n |-> Event(kinds[i], i)]
  BY <1>2 DEF EventsOf
<1>6. \A i \in 1 .. n : Event(kinds[i], i) \in S
  BY <1>2 DEF SentEvents
<1> HIDE DEF S, f, n
<1>7. f \in [1 .. n -> S]
  BY <1>5, <1>6
<1>8. f \in Seq(S) /\ Len(f) = n
  BY <1>2, <1>7
<1>9. f \in Seq(WireEvent)
  BY <1>2, <1>4, <1>7, <1>8
<1> QED
  BY <1>4, <1>8, <1>9 DEF S, f, n

LEMMA OneMoreSent ==
  ASSUME NEW kinds \in Seq(Kind), Len(kinds) + 1 <= MaxSent, NEW kind \in Kind
  PROVE  EventsOf(Append(kinds, kind)) = Append(EventsOf(kinds), Event(kind, Len(kinds) + 1))
<1> DEFINE n == Len(kinds)
           more == Append(kinds, kind)
           ev == Event(kind, n + 1)
           f == EventsOf(kinds)
           g == EventsOf(more)
           h == Append(f, ev)
<1>1. /\ n \in Nat /\ MaxSent \in Nat /\ MaxSent <= Len(Id) /\ Len(Id) \in Nat /\ n + 1 <= MaxSent
  <2>1. MaxSent \in 0 .. Len(Id) /\ Len(Id) \in Nat
    BY WatchLinkAssumption
  <2> QED
    BY <2>1
<1>2. /\ more \in Seq(Kind) /\ Len(more) = n + 1 /\ more[n + 1] = kind
      /\ \A i \in 1 .. n : more[i] = kinds[i]
  BY Extended
<1>3. f \in Seq(WireEvent) /\ Len(f) = n
  BY <1>1, EventsSent
<1>4. g \in Seq(WireEvent) /\ Len(g) = n + 1
  <2>1. Len(more) <= MaxSent
    BY <1>1, <1>2
  <2> QED
    BY <1>2, <2>1, EventsSent
<1>5. ev \in WireEvent
  <2>1. n + 1 \in 1 .. Len(Id)
    BY <1>1
  <2> QED
    BY <2>1, EventsTravel
<1>6. /\ \A i \in 1 .. n : f[i] = Event(kinds[i], i)
      /\ \A i \in 1 .. n + 1 : g[i] = Event(more[i], i)
  <2>1. DOMAIN kinds = 1 .. n /\ DOMAIN more = 1 .. n + 1
    BY <1>2
  <2> HIDE DEF n, more
  <2> QED
    BY <2>1 DEF EventsOf
<1> HIDE DEF more, f, g, ev
<1>7. /\ h \in Seq(WireEvent) /\ Len(h) = n + 1 /\ h[n + 1] = ev
      /\ \A i \in 1 .. n : h[i] = f[i]
  BY <1>3, <1>5, Extended
<1> HIDE DEF h, n
<1>8. ASSUME NEW i \in 1 .. n + 1
      PROVE  g[i] = h[i]
  <2>1. CASE i \in 1 .. n
    BY <1>2, <1>6, <1>7, <2>1
  <2>2. CASE i = n + 1
    BY <1>2, <1>6, <1>7, <2>2 DEF ev
  <2> QED
    BY <1>1, <2>1, <2>2
<1>9. g = h
  BY <1>4, <1>7, <1>8, SeqEqual
<1> QED
  BY <1>9 DEF n, more, ev, f, g, h

LEMMA StreamAnew ==
  ASSUME NoStream
  PROVE  StreamInv'
<1>1. /\ sent' = << >> /\ body' = << >> /\ ends' = << >> /\ received' = 0
      /\ parser' = NewParser /\ pending' = << >> /\ handled' = << >>
  BY DEF NoStream
<1>2. MaxSent \in Nat /\ LineEnd \in LineEnding
  BY WatchLinkAssumption DEF LineEnding
<1> DEFINE none == << >>
<1>3. /\ none \in Seq(Fragment) /\ \A S : none \in Seq(S)
      /\ Len(none) = 0 /\ DOMAIN none = {} /\ none \o none = none
  OBVIOUS
<1>4. EventsOf(none) = none
  BY DEF EventsOf
<1>5. /\ Carries(none, none, none, LineEnd)
      /\ HasRead(none, none, none, LineEnd, 0, 0, NewParser)
  BY NothingRead
<1>6. Piece(none, 0, 0) = none
  BY DEF Piece
<1> HIDE DEF none
<1>7. /\ sent' = none /\ body' = none /\ ends' = none /\ pending' = none /\ handled' = none
  BY <1>1 DEF none
<1>8. Len(sent') <= MaxSent /\ received' \in 0 .. Len(body')
  BY <1>1, <1>2, <1>3, <1>7
<1>9. Carries(body', EventsOf(sent'), ends', LineEnd)
  BY <1>4, <1>5, <1>7
<1>10. HasRead(body', EventsOf(sent'), ends', LineEnd, received', 0, parser')
  BY <1>1, <1>4, <1>5, <1>7
<1>11. Join(handled', pending') = Piece(EventsOf(sent'), 0, 0)
  BY <1>3, <1>4, <1>6, <1>7 DEF Join
<1>12. {pending', handled'} \subseteq Seq(SentEvents(sent'))
  BY <1>3, <1>7
<1> QED
  BY <1>8, <1>9, <1>10, <1>11, <1>12 DEF StreamInv

LEMMA InitStream == Init => StreamInv
<1> SUFFICES ASSUME Init
             PROVE  StreamInv
  OBVIOUS
<1>1. /\ sent = << >> /\ body = << >> /\ ends = << >> /\ received = 0
      /\ parser = NewParser /\ pending = << >> /\ handled = << >>
  BY DEF Init
<1>2. MaxSent \in Nat /\ LineEnd \in LineEnding
  BY WatchLinkAssumption DEF LineEnding
<1> DEFINE none == << >>
<1>3. /\ none \in Seq(Fragment) /\ \A S : none \in Seq(S)
      /\ Len(none) = 0 /\ DOMAIN none = {} /\ none \o none = none
  OBVIOUS
<1>4. EventsOf(none) = none
  BY DEF EventsOf
<1>5. /\ Carries(none, none, none, LineEnd)
      /\ HasRead(none, none, none, LineEnd, 0, 0, NewParser)
  BY NothingRead
<1>6. Piece(none, 0, 0) = none
  BY DEF Piece
<1> HIDE DEF none
<1>7. /\ sent = none /\ body = none /\ ends = none /\ pending = none /\ handled = none
  BY <1>1 DEF none
<1>8. Len(sent) <= MaxSent /\ received \in 0 .. Len(body)
  BY <1>1, <1>2, <1>3, <1>7
<1>9. Carries(body, EventsOf(sent), ends, LineEnd)
  BY <1>4, <1>5, <1>7
<1>10. HasRead(body, EventsOf(sent), ends, LineEnd, received, 0, parser)
  BY <1>1, <1>4, <1>5, <1>7
<1>11. Join(handled, pending) = Piece(EventsOf(sent), 0, 0)
  BY <1>3, <1>4, <1>6, <1>7 DEF Join
<1>12. {pending, handled} \subseteq Seq(SentEvents(sent))
  BY <1>3, <1>7
<1> QED
  BY <1>8, <1>9, <1>10, <1>11, <1>12 DEF StreamInv

\* A step that leaves the stream alone.
LEMMA StreamStays ==
  ASSUME StreamInv, UNCHANGED <<sent, body, ends, received, parser, pending, handled>>
  PROVE  StreamInv'
BY DEF StreamInv

\* An event is written behind the others.
LEMMA SendStream ==
  ASSUME ClosedInv, StreamInv, NEW kind \in Kind, Send(kind)
  PROVE  StreamInv'
<1>1. LineEnd \in LineEnding /\ MaxSent \in Nat
  BY WatchLinkAssumption DEF LineEnding
<1> DEFINE i == Len(sent) + 1
           ev == Event(kind, i)
           events == EventsOf(sent)
           written == Encode(ev, LineEnd)
<1>2. /\ sent \in Seq(Kind) /\ Len(sent) \in Nat /\ Len(sent) < MaxSent
      /\ sent' = Append(sent, kind)
  BY DEF Send, ClosedInv
<1>3. /\ sent' \in Seq(Kind) /\ Len(sent') = i /\ i <= MaxSent
      /\ i \in 1 .. Len(Id)
  <2>1. MaxSent \in 0 .. Len(Id) /\ Len(Id) \in Nat
    BY WatchLinkAssumption
  <2>2. sent' \in Seq(Kind) /\ Len(sent') = i
    BY <1>2, Extended
  <2> QED
    BY <1>1, <1>2, <2>1, <2>2
<1>4. ev \in WireEvent
  BY <1>3, EventsTravel
<1>5. EventsOf(sent') = Append(events, ev)
  BY <1>1, <1>2, <1>3, OneMoreSent
<1>6. body' = Join(body, written) /\ ends' = Append(ends, Len(body'))
  BY <1>3 DEF Send, Join
<1>7. /\ received' = received /\ parser' = parser /\ pending' = pending /\ handled' = handled
  BY DEF Send
<1>8. /\ Carries(body, events, ends, LineEnd) /\ received \in 0 .. Len(body)
      /\ body \in Seq(Fragment) /\ Len(body) \in Nat /\ ends \in Seq(Nat)
      /\ events \in Seq(WireEvent)
  BY DEF StreamInv, Carries
<1>9. PICK k : /\ HasRead(body, events, ends, LineEnd, received, k, parser)
               /\ Join(handled, pending) = Piece(events, 0, k)
  BY DEF StreamInv
<1>10. k \in Nat /\ 0 <= k /\ k <= Len(events)
  <2>1. k \in 0 .. Len(events)
    BY <1>9 DEF HasRead
  <2> QED
    BY <1>8, <2>1
<1> HIDE DEF i, ev, events
<1>11. Carries(body', EventsOf(sent'), ends', LineEnd)
  BY <1>1, <1>4, <1>5, <1>6, <1>8, CarriesMore
<1> HIDE DEF written
<1>12. body' \in Seq(Fragment) /\ Len(body') \in Nat
  BY <1>11 DEF Carries
<1>13. written \in Seq(Fragment)
  BY <1>1, <1>4, EncodeText DEF written
<1>14. Len(body) <= Len(body')
  <2>1. Len(body) <= Len(Join(body, written))
    BY <1>8, <1>13, LongerPart
  <2> QED
    BY <1>6, <2>1
<1>15. received' \in 0 .. Len(body')
  BY <1>7, <1>8, <1>12, <1>14
<1>16. HasRead(body', EventsOf(sent'), ends', LineEnd, received', k, parser')
  <2>1. HasRead(Join(body, written), Append(events, ev), Append(ends, Len(body')), LineEnd, received, k, parser)
    BY <1>1, <1>4, <1>8, <1>9, <1>12, <1>13, StillRead
  <2> QED
    BY <1>5, <1>6, <1>7, <2>1
<1>17. Piece(EventsOf(sent'), 0, k) = Piece(events, 0, k)
  BY <1>4, <1>5, <1>8, <1>10, FrontStays
<1>18. SentEvents(sent) \subseteq SentEvents(sent')
  <2>1. DOMAIN sent \subseteq DOMAIN sent'
    BY <1>2
  <2> QED
    BY <2>1 DEF SentEvents
<1>19. {pending', handled'} \subseteq Seq(SentEvents(sent'))
  <2>1. pending \in Seq(SentEvents(sent)) /\ handled \in Seq(SentEvents(sent))
    BY DEF StreamInv
  <2> QED
    BY <1>7, <1>18, <2>1, WiderSeq
<1>20. Len(sent') <= MaxSent
  BY <1>3
<1>21. Join(handled', pending') = Piece(EventsOf(sent'), 0, k)
  BY <1>7, <1>9, <1>17
<1> QED
  BY <1>11, <1>15, <1>16, <1>19, <1>20, <1>21 DEF StreamInv

\* The chunk's events follow those before.
LEMMA ChunkStream ==
  ASSUME ClosedInv, StreamInv, Chunk
  PROVE  StreamInv'
<1>1. LineEnd \in LineEnding
  BY WatchLinkAssumption DEF LineEnding
<1> DEFINE events == EventsOf(sent)
           S == SentEvents(sent)
<1>2. PICK n \in received + 1 .. Len(body) :
        /\ received' = n /\ parser' = Feed(parser, SubSeq(body, received + 1, n))
        /\ pending' = parser'.out
  BY DEF Chunk
<1>3. /\ pending = << >> /\ UNCHANGED <<sent, body, ends, handled>>
  BY DEF Chunk
<1>4. /\ Carries(body, events, ends, LineEnd) /\ received \in 0 .. Len(body)
      /\ body \in Seq(Fragment) /\ Len(body) \in Nat
      /\ Len(sent) <= MaxSent /\ sent \in Seq(Kind) /\ handled \in Seq(S)
  BY DEF StreamInv, ClosedInv, Carries
<1>5. events \in Seq(S) /\ Len(events) \in Nat
  BY <1>4, EventsSent
<1>6. PICK j : /\ HasRead(body, events, ends, LineEnd, received, j, parser)
               /\ Join(handled, pending) = Piece(events, 0, j)
  BY DEF StreamInv
<1>7. j \in 0 .. Len(events)
  BY <1>6 DEF HasRead
<1> HIDE DEF events, S
<1>8. n \in received .. Len(body)
  BY <1>4
<1>9. PICK k \in j .. Len(events) :
        /\ HasRead(body, events, ends, LineEnd, n, k, parser')
        /\ parser'.out = Piece(events, j, k)
  <2>1. \E k \in j .. Len(events) :
          /\ HasRead(body, events, ends, LineEnd, n, k, Feed(parser, Piece(body, received, n)))
          /\ Feed(parser, Piece(body, received, n)).out = Piece(events, j, k)
    BY <1>1, <1>4, <1>6, <1>8, ReadsOn
  <2> QED
    BY <1>2, <2>1 DEF Piece
<1>10. j \in Nat /\ k \in Nat /\ 0 <= j /\ j <= k /\ k <= Len(events)
  BY <1>5, <1>7
<1>11. Join(handled, << >>) = handled
  BY <1>4, ConcatEmptySeq DEF Join
<1>12. handled = Piece(events, 0, j)
  BY <1>3, <1>6, <1>11
<1>13. Join(handled', pending') = Piece(events, 0, k)
  <2>1. Join(Piece(events, 0, j), Piece(events, j, k)) = Piece(events, 0, k)
    BY <1>5, <1>10, PartsMeet
  <2> QED
    BY <1>2, <1>3, <1>9, <1>12, <2>1
<1>14. pending' \in Seq(S)
  <2>1. Piece(events, j, k) \in Seq(S)
    BY <1>5, <1>10, Part DEF Piece
  <2> QED
    BY <1>2, <1>9, <2>1
<1>15. /\ events = EventsOf(sent') /\ S = SentEvents(sent') /\ body' = body /\ ends' = ends
       /\ handled' \in Seq(S) /\ Len(sent') <= MaxSent
  BY <1>3, <1>4 DEF events, S
<1>16. received' \in 0 .. Len(body')
  BY <1>2, <1>4, <1>15
<1>17. HasRead(body', EventsOf(sent'), ends', LineEnd, received', k, parser')
  BY <1>2, <1>9, <1>15
<1> QED
  BY <1>4, <1>13, <1>14, <1>15, <1>16, <1>17 DEF StreamInv

\* Handling an event takes it from the front of those that wait.
LEMMA HandleStream ==
  ASSUME StreamInv, Handle
  PROVE  StreamInv'
<1> DEFINE S == SentEvents(sent)
<1>1. pending \in Seq(S) /\ handled \in Seq(S)
  BY DEF StreamInv
<1>2. /\ pending # << >> /\ handled' = Append(handled, Head(pending)) /\ pending' = Tail(pending)
      /\ UNCHANGED <<sent, body, ends, received, parser>>
  BY DEF Handle
<1> HIDE DEF S
<1>3. /\ Join(handled', pending') = Join(handled, pending)
      /\ handled' \in Seq(S) /\ pending' \in Seq(S)
  BY <1>1, <1>2, FromFront
<1> QED
  BY <1>2, <1>3 DEF StreamInv, S
------------------------------------------------------------------------------
(***************************************************************************)
(* The steps.                                                              *)
(***************************************************************************)
LEMMA InitIInv == Init => IInv
<1> SUFFICES ASSUME Init
             PROVE  IInv
  OBVIOUS
<1>1. MinBackoff \in Nat /\ MaxFailures \in Nat \ {0}
  BY WatchLinkAssumption
<1>2. BackoffInv
  BY <1>1 DEF Init, BackoffInv, Expected
<1>6. PaceInv
  <2>1. MaxBackoff \in Nat
    BY WatchLinkAssumption
  <2>2. backoff = MinBackoff /\ barren = 0 /\ phase = "snapshot"
    BY DEF Init
  <2> QED
    BY <1>1, <2>1, <2>2, FirstPause DEF PaceInv, Lesser
<1>3. ClosedInv
  BY DEF Init, ClosedInv
<1>4. StreamInv
  BY InitStream
<1>5. FlagsInv
  BY DEF Init, FlagsInv, Phase
<1> QED
  BY <1>2, <1>3, <1>4, <1>5, <1>6 DEF IInv

\* An error: the sleep is what the errors before it make of the backoff.
LEMMA BackOffStep ==
  ASSUME BackoffInv, BackOff
  PROVE  BackoffInv'
<1>1. /\ phase' = "sleeping" /\ slept' = backoff
      /\ backoff' = Lesser(2 * backoff, MaxBackoff)
      /\ failures' = Lesser(failures + 1, MaxFailures)
  BY DEF BackOff
<1>2. MinBackoff \in Nat /\ MaxBackoff \in Nat /\ MaxFailures \in Nat \ {0}
  BY WatchLinkAssumption
<1>3. /\ backoff \in Nat /\ failures \in 0 .. MaxFailures
      /\ backoff <= MinBackoff \/ backoff <= MaxBackoff
      /\ failures < MaxFailures => backoff = Expected(failures)
  BY DEF BackoffInv
<1>4. /\ failures' \in 0 .. MaxFailures /\ backoff' \in Nat /\ backoff' <= MaxBackoff
      /\ failures' < MaxFailures => failures < MaxFailures /\ failures' = failures + 1
  BY <1>1, <1>2, <1>3 DEF Lesser
<1>5. ASSUME failures' < MaxFailures
      PROVE  /\ backoff' = Expected(failures')
             /\ failures' > 0 /\ slept' = Expected(failures' - 1)
  <2>1. failures' = failures + 1 /\ failures \in Nat /\ backoff = Expected(failures)
    BY <1>2, <1>3, <1>4, <1>5
  <2>2. backoff' = Expected(failures + 1)
    BY <1>1, <2>1, ExpectedDoubles
  <2>3. failures' - 1 = failures /\ failures' > 0
    BY <2>1
  <2> QED
    BY <1>1, <2>1, <2>2, <2>3
<1> QED
  BY <1>1, <1>3, <1>4, <1>5 DEF BackoffInv, Expected

LEMMA BackOffPace ==
  ASSUME BackoffInv, PaceInv, BackOff
  PROVE  PaceInv'
<1>1. /\ phase' = "sleeping" /\ slept' = backoff
      /\ backoff' = Lesser(2 * backoff, MaxBackoff)
      /\ barren' = Lesser(barren + 1, MaxFailures)
  BY DEF BackOff
<1>2. MinBackoff \in Nat /\ MaxBackoff \in Nat /\ MaxFailures \in Nat \ {0}
  BY WatchLinkAssumption
<1>3. /\ backoff \in Nat /\ barren \in 0 .. MaxFailures
      /\ backoff >= Pause(0)
      /\ barren < MaxFailures => backoff >= Pause(barren)
  BY DEF BackoffInv, PaceInv
<1>4. /\ barren' \in 0 .. MaxFailures
      /\ barren' < MaxFailures => barren < MaxFailures /\ barren' = barren + 1
  BY <1>1, <1>2, <1>3 DEF Lesser
<1>5. backoff' >= Pause(0)
  BY <1>1, <1>2, <1>3, FirstPause DEF Lesser
<1>6. ASSUME barren' < MaxFailures
      PROVE  backoff' >= Pause(barren') /\ barren' > 0 /\ slept' >= Pause(barren' - 1)
  <2>1. barren' = barren + 1 /\ barren \in Nat /\ backoff >= Pause(barren)
    BY <1>2, <1>3, <1>4, <1>6
  <2>2. backoff' >= Pause(barren + 1)
    BY <1>1, <1>3, <2>1, PauseGrows
  <2>3. barren' - 1 = barren /\ barren' > 0
    BY <2>1
  <2> QED
    BY <1>1, <2>1, <2>2, <2>3
<1>7. Pause(0)' = Pause(0) /\ Pause(barren)' = Pause(barren')
  BY DEF Pause
<1>8. Pause(barren - 1)' = Pause(barren' - 1)
  BY DEF Pause
<1> QED
  BY <1>4, <1>5, <1>6, <1>7, <1>8 DEF PaceInv

LEMMA BackoffStays ==
  ASSUME BackoffInv, PaceInv, UNCHANGED <<backoff, failures>>, slept' \in {0, slept},
         UNCHANGED barren \/ (phase' # "sleeping" /\ barren' = 0),
         phase' # "sleeping" \/ UNCHANGED <<phase, slept>>
  PROVE  BackoffInv' /\ PaceInv'
<1>1. MinBackoff \in Nat /\ MaxFailures \in Nat \ {0}
  BY WatchLinkAssumption
<1>2. BackoffInv'
  BY <1>1 DEF BackoffInv, Expected, Pause
<1>3. PaceInv'
  <2>1. CASE UNCHANGED barren
    BY <2>1 DEF PaceInv, Pause
  <2>2. CASE phase' # "sleeping" /\ barren' = 0
    <3>1. Pause(0)' = Pause(0) /\ Pause(barren)' = Pause(0)
      BY <2>2 DEF Pause
    <3>2. backoff' >= Pause(0)
      BY DEF PaceInv
    <3> QED
      BY <1>1, <2>2, <3>1, <3>2 DEF PaceInv
  <2> QED
    BY <2>1, <2>2
<1> QED
  BY <1>2, <1>3

LEMMA ClosedStays ==
  ASSUME ClosedInv, NoStream \/ UNCHANGED <<sent, closed>>
  PROVE  ClosedInv'
<1>1. CASE NoStream
  <2>1. sent' = << >> /\ closed' = FALSE
    BY <1>1 DEF NoStream
  <2> QED
    BY <2>1 DEF ClosedInv
<1>2. CASE UNCHANGED <<sent, closed>>
  BY <1>2 DEF ClosedInv, Last
<1> QED
  BY <1>1, <1>2

LEMMA SendStep ==
  ASSUME IInv, NEW kind \in Kind, Send(kind)
  PROVE  IInv'
<1>1. /\ ~closed /\ sent' = Append(sent, kind) /\ closed' = (kind \in {"error", "reload"})
      /\ UNCHANGED <<phase, up, silent, ready, backoff, slept, failures, barren>>
  BY DEF Send, retryVars
<1>2. sent \in Seq(Kind)
  BY DEF IInv, ClosedInv
<1>3. sent' \in Seq(Kind) /\ sent' # << >> /\ Last(sent') = kind
  BY <1>1, <1>2 DEF Last
<1>4. ClosedInv'
  BY <1>1, <1>3 DEF ClosedInv, Last
<1>5. StreamInv'
  BY SendStream DEF IInv
<1>6. FlagsInv'
  BY <1>1 DEF IInv, FlagsInv
<1>7. BackoffInv' /\ PaceInv'
  BY <1>1, BackoffStays DEF IInv
<1> QED
  BY <1>4, <1>5, <1>6, <1>7 DEF IInv

LEMMA FlagsStep ==
  ASSUME FlagsInv, [Next]_vars, \A kind \in Kind : ~Send(kind)
  PROVE  FlagsInv'
<1> USE DEF FlagsInv, Phase, streamVars, retryVars
<1>1. CASE \/ LoadSnapshot \/ Chunk \/ Handle \/ Changes \/ GoesSilent \/ Wake
           \/ UNCHANGED vars
  BY <1>1 DEF LoadSnapshot, Chunk, Handle, Changes, GoesSilent, Wake, vars
<1>2. CASE OpenWatch \/ StreamEnds \/ Refused \/ Breaks
  <2>1. /\ phase' \in Phase /\ UNCHANGED <<up, silent, ready>> /\ closed' = FALSE
    BY <1>2 DEF OpenWatch, StreamEnds, Refused, Breaks, BackOff, NoStream
  <2> QED
    BY <2>1
<1> QED
  BY <1>1, <1>2 DEF Next, AgentStep

LEMMA NextStep == IInv /\ [Next]_vars => IInv'
<1> SUFFICES ASSUME IInv, [Next]_vars
             PROVE  IInv'
  OBVIOUS
<1> USE DEF streamVars, retryVars
<1>h. BackoffInv /\ PaceInv /\ ClosedInv /\ StreamInv /\ FlagsInv
  BY DEF IInv
<1>1. CASE \E kind \in Kind : Send(kind)
  BY <1>1, SendStep
<1>2. CASE \A kind \in Kind : ~Send(kind)
  <2> SUFFICES BackoffInv' /\ PaceInv' /\ ClosedInv' /\ StreamInv'
    BY <1>h, <1>2, FlagsStep DEF IInv
  <2>1. CASE \/ LoadSnapshot \/ Changes \/ GoesSilent \/ UNCHANGED vars
    <3>1. /\ UNCHANGED <<backoff, slept, failures, barren, streamVars>>
          /\ phase' # "sleeping" \/ UNCHANGED phase
      BY <2>1 DEF LoadSnapshot, Changes, GoesSilent, vars
    <3> QED
      BY <1>h, <3>1, BackoffStays, ClosedStays, StreamStays
  <2>2. CASE Chunk \/ Handle
    <3>1. /\ UNCHANGED <<backoff, slept, failures, phase, sent, closed>>
          /\ UNCHANGED barren \/ (phase' # "sleeping" /\ barren' = 0)
      BY <2>2 DEF Chunk, Handle
    <3> QED
      BY <1>h, <2>2, <3>1, BackoffStays, ClosedStays, ChunkStream, HandleStream
  <2>3. CASE OpenWatch
    <3>1. NoStream /\ phase' = "streaming" /\ UNCHANGED <<backoff, slept, failures, barren>>
      BY <2>3 DEF OpenWatch
    <3> QED
      BY <1>h, <3>1, BackoffStays, ClosedStays, StreamAnew
  <2>4. CASE StreamEnds
    <3>1. /\ NoStream /\ phase' = "connect" /\ backoff' = MinBackoff /\ failures' = 0
          /\ barren' = 0 /\ UNCHANGED slept
      BY <2>4 DEF StreamEnds
    <3>2. BackoffInv'
      BY <1>h, <3>1, WatchLinkAssumption DEF BackoffInv, Expected
    <3>3. PaceInv'
      <4>1. MinBackoff \in Nat /\ MaxBackoff \in Nat /\ MaxFailures \in Nat \ {0}
        BY WatchLinkAssumption
      <4>2. Pause(0)' = Pause(0) /\ Pause(barren)' = Pause(0)
        BY <3>1 DEF Pause
      <4>3. MinBackoff >= Pause(0)
        BY <4>1, FirstPause DEF Lesser
      <4> QED
        BY <3>1, <4>1, <4>2, <4>3 DEF PaceInv
    <3> QED
      BY <1>h, <3>1, <3>2, <3>3, ClosedStays, StreamAnew
  <2>5. CASE Refused \/ Breaks
    <3>1. BackOff /\ NoStream
      BY <2>5 DEF Refused, Breaks, BackOff
    <3> QED
      BY <1>h, <3>1, BackOffStep, BackOffPace, ClosedStays, StreamAnew
  <2>6. CASE Wake
    <3>1. /\ UNCHANGED <<backoff, failures, barren, streamVars>> /\ slept' = 0
          /\ phase' # "sleeping"
      BY <2>6 DEF Wake
    <3> QED
      BY <1>h, <3>1, BackoffStays, ClosedStays, StreamStays
  <2> QED
    BY <1>2, <2>1, <2>2, <2>3, <2>4, <2>5, <2>6 DEF Next, AgentStep
<1> QED
  BY <1>1, <1>2

(***************************************************************************)
(* The inductive invariant.                                                *)
(***************************************************************************)
THEOREM Invariance == Spec => []IInv
<1> QED
  BY InitIInv, NextStep, PTL DEF Spec

(***************************************************************************)
(* However many errors follow one another, and whatever was received before*)
(* them, the pauses are never shorter than the documented ones, and equal  *)
(* to them from the start or a clean end on (watch.rs:34-51), be the       *)
(* minimum 0 or beyond the maximum.                                        *)
(***************************************************************************)
THEOREM Paced == Spec => []RetriesArePaced
<1>1. IInv => RetriesArePaced
  <2> SUFFICES ASSUME IInv, phase = "sleeping"
               PROVE  /\ barren < MaxFailures => slept >= Pause(barren - 1)
                      /\ failures < MaxFailures =>
                           slept = IF failures = 1 THEN MinBackoff ELSE Pause(failures - 1)
    BY DEF RetriesArePaced
  <2>1. barren < MaxFailures => slept >= Pause(barren - 1)
    BY DEF IInv, PaceInv
  <2>2. ASSUME failures < MaxFailures
        PROVE  slept = IF failures = 1 THEN MinBackoff ELSE Pause(failures - 1)
    <3>1. failures \in Nat /\ failures > 0 /\ slept = Expected(failures - 1)
      BY <2>2, WatchLinkAssumption DEF IInv, BackoffInv
    <3>2. failures - 1 = 0 <=> failures = 1
      BY <3>1
    <3> QED
      BY <3>1, <3>2 DEF Expected
  <2> QED
    BY <2>1, <2>2
<1> QED
  BY <1>1, Invariance, PTL

(***************************************************************************)
(* No sleep is longer than both settings, however many errors there were   *)
(* (watch.rs:44-50).                                                       *)
(***************************************************************************)
THEOREM SleepsAreBounded == Spec => [](slept <= MinBackoff \/ slept <= MaxBackoff)
<1>1. IInv => slept <= MinBackoff \/ slept <= MaxBackoff
  BY DEF IInv, BackoffInv
<1> QED
  BY <1>1, Invariance, PTL

(***************************************************************************)
(* Every variable has its type.                                            *)
(***************************************************************************)
THEOREM TypeCorrect == Spec => []TypeOK
<1>1. IInv => TypeOK
  <2> SUFFICES ASSUME IInv
               PROVE  TypeOK
    OBVIOUS
  <2>1. BackoffInv /\ PaceInv /\ ClosedInv /\ StreamInv /\ FlagsInv
    BY DEF IInv
  <2>2. sent \in Seq(Kind) /\ Len(sent) <= MaxSent /\ Len(sent) \in Nat /\ DOMAIN sent = 1 .. Len(sent)
    BY <2>1 DEF ClosedInv, StreamInv
  <2>3. body \in Seq(Fragment) /\ ends \in Seq(Nat) /\ Len(ends) = Len(sent)
    BY <2>1, <2>2, EventsSent DEF StreamInv, Carries
  <2>4. ends \in [DOMAIN sent -> Nat]
    BY <2>2, <2>3, LenProperties
  <2>5. {pending, handled} \subseteq Seq({Event(kind, i) : kind \in Kind, i \in DOMAIN sent})
    BY <2>1 DEF StreamInv, SentEvents
  <2>6. received \in 0 .. Len(body)
    BY <2>1 DEF StreamInv
  <2>7. /\ {up, silent, closed, ready} \subseteq BOOLEAN /\ phase \in Phase
        /\ backoff \in Nat /\ (backoff <= MinBackoff \/ backoff <= MaxBackoff)
        /\ slept \in Nat /\ failures \in 0 .. MaxFailures /\ barren \in 0 .. MaxFailures
    BY <2>1 DEF FlagsInv, BackoffInv, PaceInv
  <2> QED
    BY <2>2, <2>3, <2>4, <2>5, <2>6, <2>7 DEF TypeOK
<1> QED
  BY <1>1, Invariance, PTL

LEMMA WholeSeq ==
  ASSUME NEW S, NEW s \in Seq(S)
  PROVE  SubSeq(s, 1, Len(s)) = s
<1> DEFINE t == SubSeq(s, 1, Len(s))
<1>1. t \in Seq(S) /\ Len(t) = Len(s) /\ \A i \in 1 .. Len(s) : t[i] = s[i]
  <2>1. Len(s) \in Nat /\ Len(s) <= Len(s)
    OBVIOUS
  <2> QED
    BY <2>1, FirstPart
<1> HIDE DEF t
<1>2. t = s
  BY <1>1, SeqEqual
<1> QED
  BY <1>2 DEF t

\* What the agent has been given is the events that have arrived.
LEMMA GivenIsArrived ==
  ASSUME ClosedInv, StreamInv
  PROVE  \E k \in 0 .. Len(sent) :
           /\ handled \o pending = SubSeq(EventsOf(sent), 1, k)
           /\ \A i \in 1 .. Len(sent) : ends[i] <= received <=> i <= k
<1>1. LineEnd \in LineEnding
  BY WatchLinkAssumption DEF LineEnding
<1>2. /\ Carries(body, EventsOf(sent), ends, LineEnd) /\ received \in 0 .. Len(body)
      /\ Len(EventsOf(sent)) = Len(sent)
  BY EventsSent DEF ClosedInv, StreamInv
<1>3. PICK k : /\ HasRead(body, EventsOf(sent), ends, LineEnd, received, k, parser)
               /\ Join(handled, pending) = Piece(EventsOf(sent), 0, k)
  BY DEF StreamInv
<1>4. \A i \in 1 .. Len(EventsOf(sent)) : ends[i] <= received <=> i <= k
  BY <1>1, <1>2, <1>3, OutIsArrived
<1>5. k \in 0 .. Len(sent)
  BY <1>2, <1>3 DEF HasRead
<1>6. handled \o pending = SubSeq(EventsOf(sent), 0 + 1, k)
  BY <1>3 DEF Join, Piece
<1>7. handled \o pending = SubSeq(EventsOf(sent), 1, k)
  <2>1. 0 + 1 = 1
    OBVIOUS
  <2> QED
    BY <1>6, <2>1
<1> QED
  BY <1>2, <1>4, <1>5, <1>7

(***************************************************************************)
(* The agent handles what the server sent, as far as it arrived, in order, *)
(* once and unchanged, wherever the body is cut into chunks, whatever the  *)
(* payloads, the ids and the line ends and however long the stream         *)
(* (sse.rs:38-88).                                                         *)
(***************************************************************************)
THEOREM ChunksDoNotMatter == Spec => []HandledIsWhatArrived
<1>1. IInv => HandledIsWhatArrived
  <2> SUFFICES ASSUME IInv
               PROVE  handled \o pending = SubSeq(EventsOf(sent), 1, Arrived)
    BY DEF HandledIsWhatArrived
  <2>1. PICK k \in 0 .. Len(sent) :
          /\ handled \o pending = SubSeq(EventsOf(sent), 1, k)
          /\ \A i \in 1 .. Len(sent) : ends[i] <= received <=> i <= k
    BY GivenIsArrived DEF IInv
  <2>2. sent \in Seq(Kind) /\ Len(sent) \in Nat /\ DOMAIN sent = 1 .. Len(sent)
    BY DEF IInv, ClosedInv
  <2>3. {i \in DOMAIN sent : ends[i] <= received} = 1 .. k
    BY <2>1, <2>2
  <2>4. Cardinality(1 .. k) = k
    <3>1. 1 \in Int /\ k \in Int /\ k >= 0
      BY <2>2
    <3> QED
      BY <3>1, FS_Interval
  <2> QED
    BY <2>1, <2>3, <2>4 DEF Arrived
<1> QED
  BY <1>1, Invariance, PTL

\* At the end of the body everything sent has been handled.
LEMMA AllHandled ==
  ASSUME ClosedInv, StreamInv, pending = << >>, received = Len(body)
  PROVE  handled = EventsOf(sent)
<1>1. PICK k \in 0 .. Len(sent) :
        /\ handled \o pending = SubSeq(EventsOf(sent), 1, k)
        /\ \A i \in 1 .. Len(sent) : ends[i] <= received <=> i <= k
  BY GivenIsArrived
<1>2. /\ EventsOf(sent) \in Seq(WireEvent) /\ Len(EventsOf(sent)) = Len(sent)
      /\ handled \in Seq(SentEvents(sent))
      /\ Carries(body, EventsOf(sent), ends, LineEnd)
  BY EventsSent DEF ClosedInv, StreamInv
<1>3. \A i \in 1 .. Len(sent) : ends[i] <= received
  BY <1>2 DEF Carries
<1>4. k = Len(sent)
  <2>1. Len(sent) \in Nat
    BY DEF ClosedInv
  <2>2. Len(sent) = 0 \/ Len(sent) \in 1 .. Len(sent)
    BY <2>1
  <2> QED
    BY <1>1, <1>3, <2>1, <2>2
<1>5. SubSeq(EventsOf(sent), 1, Len(EventsOf(sent))) = EventsOf(sent)
  BY <1>2, WholeSeq
<1>6. handled \o << >> = handled
  BY <1>2, ConcatEmptySeq
<1> QED
  BY <1>1, <1>2, <1>4, <1>5, <1>6

(***************************************************************************)
(* Without a pause a watch is reopened only after everything the server    *)
(* sent has been handled and its last event was a reload or an error       *)
(* (watch.rs:35-40).                                                       *)
(***************************************************************************)
THEOREM NoticeComesFirst == Spec => ReopensOnNotice
<1>1. IInv /\ Next /\ phase = "streaming" /\ phase' = "connect"
        => /\ handled = EventsOf(sent)
           /\ sent # << >> /\ Last(sent) \in {"reload", "error"}
  <2> SUFFICES ASSUME IInv, Next, phase = "streaming", phase' = "connect"
               PROVE  /\ handled = EventsOf(sent)
                      /\ sent # << >> /\ Last(sent) \in {"reload", "error"}
    OBVIOUS
  <2>1. StreamEnds
    BY DEF Next, AgentStep, LoadSnapshot, OpenWatch, Chunk, Handle, Refused, Breaks, BackOff,
           Wake, Changes, GoesSilent, Send
  <2>2. closed /\ pending = << >> /\ received = Len(body)
    BY <2>1 DEF StreamEnds, AtEnd
  <2>3. sent # << >> /\ Last(sent) \in {"reload", "error"}
    BY <2>2 DEF IInv, ClosedInv
  <2>4. handled = EventsOf(sent)
    BY <2>2, AllHandled DEF IInv
  <2> QED
    BY <2>3, <2>4
<1>2. IInv /\ [Next]_vars
        => [(phase = "streaming" /\ phase' = "connect") =>
              /\ handled = EventsOf(sent)
              /\ sent # << >> /\ Last(sent) \in {"reload", "error"}]_vars
  BY <1>1
<1> QED
  BY <1>2, Invariance, PTL DEF Spec, ReopensOnNotice
------------------------------------------------------------------------------
(***************************************************************************)
(* The refinement.                                                         *)
(***************************************************************************)
\* The kind of an event can be told from it.
LEMMA KindsDiffer ==
  ASSUME NEW kind \in Kind, NEW i \in 1 .. Len(Id)
  PROVE  /\ Event(kind, i) \in EventsOfKind(Kind)
         /\ Event(kind, i) \in EventsOfKind({"reload", "error"}) <=> kind \in {"reload", "error"}
<1>1. \A l, j : Event(l, j).event = {<<l>>}
  BY DEF Event
<1>2. \A l, j : Event(kind, i) = Event(l, j) => kind = l
  <2>1. \A u, v : {u} = {v} => u = v
    OBVIOUS
  <2>2. \A u, v : <<u>> = <<v>> => u = v
    OBVIOUS
  <2>3. \A l : {<<kind>>} = {<<l>>} => <<kind>> = <<l>>
    BY <2>1
  <2> QED
    BY <1>1, <2>2, <2>3
<1>3. DOMAIN Id = 1 .. Len(Id)
  BY WatchLinkAssumption
<1> QED
  BY <1>2, <1>3 DEF EventsOfKind

\* The channel has ended when the server has closed the stream.
LEMMA EndedIsClosed ==
  ASSUME ClosedInv, StreamInv
  PROVE  Channel!Ended <=> closed
<1>1. /\ sent \in Seq(Kind) /\ Len(sent) \in Nat /\ Len(sent) <= MaxSent
      /\ Len(EventsOf(sent)) = Len(sent) /\ EventsOf(sent) \in Seq(WireEvent)
      /\ DOMAIN sent = 1 .. Len(sent)
  BY EventsSent DEF ClosedInv, StreamInv
<1>2. CASE Len(sent) = 0
  <2>1. sent = << >> /\ EventsOf(sent) = << >>
    BY <1>1, <1>2
  <2> QED
    BY <2>1 DEF Channel!Ended, ClosedInv
<1>3. CASE Len(sent) # 0
  <2> DEFINE n == Len(sent)
  <2>1. n \in 1 .. n /\ n \in 1 .. Len(Id) /\ sent[n] \in Kind
    <3>1. MaxSent \in 0 .. Len(Id) /\ Len(Id) \in Nat
      BY WatchLinkAssumption
    <3> QED
      BY <1>1, <1>3, <3>1
  <2>2. EventsOf(sent)[n] = Event(sent[n], n)
    BY <1>1, <2>1 DEF EventsOf
  <2>3. sent # << >> /\ EventsOf(sent) # << >> /\ Len(EventsOf(sent)) = n
    BY <1>1, <1>3
  <2>4. Channel!Ended <=> sent[n] \in {"reload", "error"}
    BY <2>1, <2>2, <2>3, KindsDiffer DEF Channel!Ended
  <2> QED
    BY <2>3, <2>4 DEF ClosedInv, Last
<1> QED
  BY <1>2, <1>3

\* A new stream is an empty channel.
LEMMA EmptyView == NoStream => Channel!Empty
<1> SUFFICES ASSUME NoStream
             PROVE  Channel!Empty
  OBVIOUS
<1>1. sent' = << >> /\ handled' = << >>
  BY DEF NoStream
<1> QED
  BY <1>1 DEF Channel!Empty, EventsOf

LEMMA SendView ==
  ASSUME IInv, NEW kind \in Kind, Send(kind)
  PROVE  \E m \in EventsOfKind(Kind) : Channel!Put(m)
<1> DEFINE ev == Event(kind, Len(sent) + 1)
<1>1. /\ sent \in Seq(Kind) /\ Len(sent) + 1 <= MaxSent /\ Len(sent) + 1 \in 1 .. Len(Id)
  <2>1. MaxSent \in 0 .. Len(Id) /\ Len(Id) \in Nat /\ sent \in Seq(Kind) /\ Len(sent) \in Nat
    BY WatchLinkAssumption DEF IInv, ClosedInv
  <2> QED
    BY <2>1 DEF Send
<1>2. ev \in EventsOfKind(Kind)
  BY <1>1, KindsDiffer
<1>3. EventsOf(sent') = Append(EventsOf(sent), ev)
  BY <1>1, OneMoreSent DEF Send
<1>4. ~Channel!Ended
  BY EndedIsClosed DEF IInv, Send
<1> HIDE DEF ev
<1>5. Channel!Put(ev)
  BY <1>3, <1>4 DEF Send, Channel!Put
<1> QED
  BY <1>2, <1>5

LEMMA HandleView ==
  ASSUME IInv, Handle
  PROVE  Channel!Take
<1> DEFINE all == EventsOf(sent)
           S == SentEvents(sent)
           n == Len(handled) + 1
<1>1. PICK k \in 0 .. Len(sent) : handled \o pending = SubSeq(all, 1, k)
  BY GivenIsArrived DEF IInv
<1>2. /\ all \in Seq(WireEvent) /\ Len(all) = Len(sent) /\ Len(sent) \in Nat
      /\ handled \in Seq(S) /\ pending \in Seq(S)
  BY EventsSent DEF IInv, ClosedInv, StreamInv
<1>3. /\ phase = "streaming" /\ phase' = phase /\ sent' = sent
      /\ pending # << >> /\ handled' = Append(handled, Head(pending))
  BY DEF Handle
<1> HIDE DEF all, S
<1>4. /\ n \in 1 .. Len(handled \o pending)
      /\ (handled \o pending)[n] = Head(pending)
  BY <1>2, <1>3
<1>5. /\ Len(SubSeq(all, 1, k)) = k /\ \A i \in 1 .. k : SubSeq(all, 1, k)[i] = all[i]
  BY <1>2, FirstPart
<1>6. n \in 1 .. Len(all) /\ all[n] = Head(pending)
  BY <1>1, <1>2, <1>4, <1>5
<1>7. Len(handled) < Len(all)
  BY <1>2, <1>6
<1>8. handled' = Append(handled, all[Len(handled) + 1])
  BY <1>3, <1>6
<1>9. EventsOf(sent') = EventsOf(sent)
  BY <1>3
<1> QED
  BY <1>3, <1>7, <1>8, <1>9 DEF Channel!Take, all

LEMMA StreamEndsView ==
  ASSUME IInv, StreamEnds
  PROVE  Channel!Finish
<1>1. /\ phase = "streaming" /\ phase' = "connect" /\ NoStream
      /\ closed /\ pending = << >> /\ received = Len(body)
  BY DEF StreamEnds, AtEnd
<1>2. handled = EventsOf(sent) /\ Channel!Ended
  BY <1>1, AllHandled, EndedIsClosed DEF IInv
<1> QED
  BY <1>1, <1>2, EmptyView DEF Channel!Finish

(***************************************************************************)
(* Whatever the bytes and however they are cut into chunks, the watch task *)
(* and its connections are channels of events: each is handled once, the   *)
(* next one next, until the connection breaks or has ended (watch.rs:34-75,*)
(* sse.rs:38-88).                                                          *)
(***************************************************************************)
THEOREM Refinement == Spec => ImplementsEventChannel
<1>1. Init => Channel!Init
  BY DEF Init, Channel!Init, EventsOf
<1>2. IInv /\ [Next]_vars => [Channel!Next]_(Channel!vars)
  <2> SUFFICES ASSUME IInv, [Next]_vars
               PROVE  Channel!Next \/ UNCHANGED Channel!vars
    OBVIOUS
  <2>1. CASE OpenWatch
    <3>1. phase = "connect" /\ phase' = "streaming" /\ NoStream
      BY <2>1 DEF OpenWatch
    <3> QED
      BY <3>1, EmptyView DEF Channel!Open, Channel!Next
  <2>2. ASSUME NEW kind \in Kind, Send(kind)
        PROVE  Channel!Next
    BY <2>2, SendView DEF Channel!Next
  <2>3. CASE Handle
    BY <2>3, HandleView DEF Channel!Next
  <2>4. CASE StreamEnds
    BY <2>4, StreamEndsView DEF Channel!Next
  <2>5. CASE Refused \/ Breaks
    <3>1. phase # "sleeping" /\ phase' = "sleeping" /\ NoStream
      BY <2>5 DEF Refused, Breaks, BackOff
    <3> QED
      BY <3>1, EmptyView DEF Channel!Break, Channel!Next
  <2>6. CASE Wake
    <3>1. /\ phase = "sleeping" /\ phase' \in {"connect", "snapshot"}
          /\ sent' = sent /\ handled' = handled
      BY <2>6 DEF Wake, streamVars
    <3>2. Channel!Retry
      BY <3>1 DEF Channel!Retry, EventsOf
    <3> QED
      BY <3>2 DEF Channel!Next
  <2>7. CASE LoadSnapshot \/ Chunk \/ Changes \/ GoesSilent \/ UNCHANGED vars
    <3>1. /\ sent' = sent /\ handled' = handled
          /\ phase' = phase \/ (phase = "snapshot" /\ phase' = "connect")
      BY <2>7 DEF LoadSnapshot, Chunk, Changes, GoesSilent, vars, streamVars
    <3> QED
      BY <3>1 DEF Channel!vars, EventsOf
  <2> QED
    BY <2>1, <2>2, <2>3, <2>4, <2>5, <2>6, <2>7 DEF Next, AgentStep
<1> QED
  BY <1>1, <1>2, Invariance, PTL DEF Spec, ImplementsEventChannel, Channel!Spec
==============================================================================
