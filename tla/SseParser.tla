------------------------------- MODULE SseParser -------------------------------
(***************************************************************************)
(* The agent's parser of the watch stream (agent/src/sse.rs) and the form  *)
(* in which axum writes the events of server/src/api/watch.rs.             *)
(*                                                                         *)
(* A byte sequence is a sequence of fragments. The parser looks for line   *)
(* ends, colons, spaces and three names, which are fragments of their own; *)
(* Lead and Trail are the bytes of a character of two; every other fragment*)
(* stands for bytes that mean nothing to the parser.                       *)
(***************************************************************************)
EXTENDS Naturals, SequencesExt

CONSTANT Fragment  \* what a body is made of

LF == "\n"
CR == "\r"
Colon == ":"
Space == " "
Lead == "c3"
Trail == "a9"

ASSUME FragmentAssumption ==
  {LF, CR, Colon, Space, Lead, Trail, "event", "id", "data"} \subseteq Fragment

(***************************************************************************)
(* SseEvent; an Option is a set of at most one value.                      *)
(***************************************************************************)
NoEvent == [event |-> {}, id |-> {}, data |-> << >>]

\* SseParser: the bytes of an unfinished line, the event so far; and what
\* the last call of feed returned.
NewParser == [buf |-> << >>, cur |-> NoEvent, out |-> << >>]
------------------------------------------------------------------------------
\* String::from_utf8_lossy: half a character becomes a replacement.
Lossy(bytes) ==
  LET whole(i) == \/ bytes[i] = Lead /\ i < Len(bytes) /\ bytes[i + 1] = Trail
                  \/ bytes[i] = Trail /\ i > 1 /\ bytes[i - 1] = Lead
  IN [i \in 1 .. Len(bytes) |->
        IF bytes[i] \in {Lead, Trail} /\ ~whole(i) THEN "replacement" ELSE bytes[i]]

\* Bytes that come through a line of a stream unchanged: valid UTF-8 without
\* line ends, which JSON and numbers are.
Text(bytes) ==
  /\ bytes \in Seq(Fragment) /\ \A i \in DOMAIN bytes : bytes[i] \notin {LF, CR}
  /\ Lossy(bytes) = bytes

\* trim_end_matches: the line without its line end, be it LF or CRLF.
TrimEnd_LfOnly(line) == line

TrimEnd(line) ==
  SubSeq(line, 1, SelectLastInSeq(line, LAMBDA b : b # CR))

\* A field of the event: its name up to the first colon, its value after it
\* and after one space.
FirstColon(line) == SelectInSeq(line, LAMBDA b : b = Colon)

FieldName(line) ==
  IF FirstColon(line) = 0 THEN line ELSE SubSeq(line, 1, FirstColon(line) - 1)

FieldValue(line) ==
  LET after == SubSeq(line, FirstColon(line) + 1, Len(line)) IN
  IF FirstColon(line) = 0 THEN << >>
  ELSE IF after # << >> /\ Head(after) = Space THEN Tail(after) ELSE after

WithField(cur, name, value) ==
  CASE name = <<"event">> -> [cur EXCEPT !.event = {value}]
    [] name = <<"id">>    -> [cur EXCEPT !.id = {value}]
    [] name = <<"data">>  -> [cur EXCEPT !.data = IF @ = << >> THEN value ELSE @ \o <<LF>> \o value]
    [] OTHER              -> cur

\* One line: a blank one ends the event, unless nothing was collected for it.
WithLine(p, line) ==
  IF line = << >>
  THEN [p EXCEPT !.cur = NoEvent, !.out = IF p.cur = NoEvent THEN @ ELSE Append(@, p.cur)]
  ELSE IF Head(line) = Colon THEN p
  ELSE [p EXCEPT !.cur = WithField(@, FieldName(line), FieldValue(line))]

\* op of the value of an expression, which TLC evaluates once.
OfValue(v, op(_)) == CHOOSE result \in {op(w) : w \in {v}} : TRUE

\* One turn of feed's loop: the first line leaves the buffer and is parsed.
LineEnds(bytes) == {i \in DOMAIN bytes : bytes[i] = LF}

Drain(p) ==
  LET end == Min(LineEnds(p.buf)) IN
  IF LineEnds(p.buf) = {} THEN p
  ELSE OfValue(TrimEnd(Lossy(SubSeq(p.buf, 1, end - 1))), LAMBDA line :
         WithLine([p EXCEPT !.buf = SubSeq(@, end + 1, Len(@))], line))

\* The loop, from p, with as many turns as there are lines.
Turns(p) ==
  LET after[n \in Nat] == IF n = 0 THEN p ELSE OfValue(after[n - 1], Drain)
  IN after

Fed(p) == Turns(p)[Cardinality(LineEnds(p.buf))]

\* feed: the parser after a chunk.
Feed_PerChunk(p, chunk) == Fed([p EXCEPT !.buf = @ \o Lossy(chunk), !.out = << >>])

Feed(p, chunk) == Fed([p EXCEPT !.buf = @ \o chunk, !.out = << >>])
------------------------------------------------------------------------------
\* axum's rendering of an event: a line per field, then an empty line.
Field(name, value, eol) == <<name, Colon, Space>> \o value \o eol
Encode(ev, eol) ==
  LET optional(name, value) == IF value = {} THEN << >> ELSE Field(name, CHOOSE v \in value : TRUE, eol)
  IN optional("event", ev.event) \o optional("id", ev.id) \o Field("data", ev.data, eol) \o eol
==============================================================================
