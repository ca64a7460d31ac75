---------------------------- MODULE SseParserProofs ----------------------------
(***************************************************************************)
(* Theorems about the parser, for any events, any text in them and any way *)
(* of cutting the body into chunks. The library's induction theorems take  *)
(* a predicate as an argument, which the provers cannot instantiate; the   *)
(* first section states induction and the loop's invariant for sets.       *)
(***************************************************************************)
EXTENDS SseParser, WellFoundedInduction, FiniteSetTheorems, SequenceTheorems, TLAPS

------------------------------------------------------------------------------
(***************************************************************************)
(* Induction.                                                              *)
(***************************************************************************)
LEMMA LeastElement ==
  ASSUME NEW T \in SUBSET Nat, T # {}
  PROVE  \E x \in T : \A y \in T : x <= y
<1> DEFINE R == OpToRel(<, Nat)
<1>1. IsWellFoundedOn(R, Nat)
  BY NatLessThanWellFounded
<1>2. \A x, y \in Nat : x < y => <<x, y>> \in R
  BY DEF OpToRel
<1> HIDE DEF R
<1>3. PICK x \in T : \A y \in T : ~ (<<y, x>> \in R)
  BY <1>1, WFMin
<1>4. \A y \in T : ~(y < x)
  BY <1>2, <1>3
<1> QED
  BY <1>4

LEMMA SetInduction ==
  ASSUME NEW T, 0 \in T, \A n \in Nat : n \in T => n + 1 \in T
  PROVE  Nat \subseteq T
<1> SUFFICES ASSUME Nat \ T # {}
             PROVE  FALSE
  OBVIOUS
<1>1. PICK x \in Nat \ T : \A y \in Nat \ T : x <= y
  BY LeastElement
<1>2. x # 0 /\ x - 1 \in Nat /\ x - 1 \in T
  BY <1>1
<1> QED
  BY <1>2
------------------------------------------------------------------------------
(***************************************************************************)
(* The loop of feed.                                                       *)
(***************************************************************************)
LEMMA DrainIsValue == \A v : OfValue(v, Drain) = Drain(v)
BY DEF OfValue

\* f is the course of n turns of the loop from p.
Course(f, p, n) == f[0] = p /\ \A i \in 1 .. n : f[i] = Drain(f[i - 1])

LEMMA CoursesExist ==
  ASSUME NEW p, NEW n \in Nat
  PROVE  \E f : Course(f, p, n)
<1> DEFINE T == {i \in Nat : \E f : Course(f, p, i)}
<1>1. 0 \in T
  <2>1. Course([i \in {0} |-> p], p, 0)
    BY DEF Course
  <2> QED
    BY <2>1
<1>2. ASSUME NEW i \in Nat, i \in T
      PROVE  i + 1 \in T
  <2>1. PICK f : Course(f, p, i)
    BY <1>2
  <2> DEFINE g == [j \in 0 .. i + 1 |-> IF j <= i THEN f[j] ELSE Drain(f[i])]
  <2>2. ASSUME NEW j \in 1 .. i + 1
        PROVE  g[j] = Drain(g[j - 1])
    <3>1. CASE j <= i
      BY <2>1, <3>1 DEF Course
    <3>2. CASE j = i + 1
      BY <3>2
    <3> QED
      BY <3>1, <3>2
  <2>3. Course(g, p, i + 1)
    BY <2>1, <2>2 DEF Course
  <2> QED
    BY <2>3
<1> HIDE DEF T
<1>3. Nat \subseteq T
  BY <1>1, <1>2, SetInduction
<1> QED
  BY <1>3 DEF T

LEMMA CoursesAgree ==
  ASSUME NEW p, NEW f, NEW g, NEW m \in Nat, NEW n \in Nat,
         Course(f, p, m), Course(g, p, n)
  PROVE  \A i \in Nat : i <= m /\ i <= n => f[i] = g[i]
<1> DEFINE T == {i \in Nat : i <= m /\ i <= n => f[i] = g[i]}
<1>1. 0 \in T
  BY DEF Course
<1>2. \A i \in Nat : i \in T => i + 1 \in T
  BY DEF Course
<1> HIDE DEF T
<1>3. Nat \subseteq T
  BY <1>1, <1>2, SetInduction
<1> QED
  BY <1>3 DEF T

\* The function that Turns defines by recursion exists.
LEMMA TurnsEquation ==
  ASSUME NEW p
  PROVE  /\ Turns(p)[0] = p
         /\ \A n \in Nat : Turns(p)[n + 1] = Drain(Turns(p)[n])
<1> DEFINE IsTurns(f) == f = [n \in Nat |-> IF n = 0 THEN p ELSE OfValue(f[n - 1], Drain)]
           course == [n \in Nat |-> CHOOSE f : Course(f, p, n)]
           turns == [n \in Nat |-> course[n][n]]
<1>1. \A n \in Nat : Course(course[n], p, n)
  BY CoursesExist
<1>2. turns[0] = p
  BY <1>1 DEF Course
<1>3. ASSUME NEW n \in Nat \ {0}
      PROVE  turns[n] = Drain(turns[n - 1])
  <2>1. course[n][n] = Drain(course[n][n - 1])
    BY <1>1 DEF Course
  <2>2. n - 1 \in Nat /\ course[n][n - 1] = course[n - 1][n - 1]
    BY <1>1, CoursesAgree
  <2> QED
    BY <2>1, <2>2
<1>4. \E f : IsTurns(f)
  <2> DEFINE value(n) == IF n = 0 THEN p ELSE OfValue(turns[n - 1], Drain)
  <2>1. \A n \in Nat : turns[n] = value(n)
    BY <1>2, <1>3, DrainIsValue
  <2>2. turns = [n \in Nat |-> turns[n]]
    OBVIOUS
  <2> HIDE DEF turns, value
  <2>3. turns = [n \in Nat |-> value(n)]
    BY <2>1, <2>2
  <2>4. IsTurns(turns)
    BY <2>3 DEF value
  <2> QED
    BY <2>4
<1>5. Turns(p) = CHOOSE f : IsTurns(f)
  BY DEF Turns
<1>6. IsTurns(Turns(p))
  BY <1>4, <1>5
<1>7. Turns(p) = [n \in Nat |-> IF n = 0 THEN p ELSE Drain(Turns(p)[n - 1])]
  BY <1>6, DrainIsValue
<1> QED
  BY <1>7

SseEvent == [event : SUBSET Seq(Fragment), id : SUBSET Seq(Fragment), data : Seq(Fragment)]
Parser == [buf : Seq(Fragment), cur : SseEvent, out : Seq(SseEvent)]

\* The first line end, and what a turn does at it.
LEMMA FirstLine ==
  ASSUME NEW bytes \in Seq(Fragment), LineEnds(bytes) # {}
  PROVE  /\ Min(LineEnds(bytes)) \in 1 .. Len(bytes)
         /\ bytes[Min(LineEnds(bytes))] = LF
         /\ \A i \in 1 .. Len(bytes) : bytes[i] = LF => Min(LineEnds(bytes)) <= i
<1>1. LineEnds(bytes) \in SUBSET Nat /\ DOMAIN bytes = 1 .. Len(bytes)
  BY DEF LineEnds
<1>2. \E x \in LineEnds(bytes) : \A y \in LineEnds(bytes) : x =< y
  BY <1>1, LeastElement
<1>3. /\ Min(LineEnds(bytes)) \in LineEnds(bytes)
      /\ \A y \in LineEnds(bytes) : Min(LineEnds(bytes)) =< y
  BY <1>2 DEF Min
<1> QED
  BY <1>1, <1>3 DEF LineEnds

LEMMA DrainLine ==
  ASSUME NEW p \in Parser, LineEnds(p.buf) # {}
  PROVE  LET end == Min(LineEnds(p.buf)) IN
         /\ Drain(p) = WithLine([p EXCEPT !.buf = SubSeq(@, end + 1, Len(@))],
                                TrimEnd(Lossy(SubSeq(p.buf, 1, end - 1))))
         /\ Drain(p).buf = SubSeq(p.buf, end + 1, Len(p.buf))
<1> DEFINE end == Min(LineEnds(p.buf))
           q == [p EXCEPT !.buf = SubSeq(@, end + 1, Len(@))]
           line == TrimEnd(Lossy(SubSeq(p.buf, 1, end - 1)))
<1>1. Drain(p) = WithLine(q, line)
  BY DEF Drain, OfValue
<1>2. q.buf = SubSeq(p.buf, end + 1, Len(p.buf)) /\ DOMAIN q = {"buf", "cur", "out"}
  BY DEF Parser
<1> HIDE DEF end, q, line
<1>3. WithLine(q, line).buf = q.buf
  BY <1>2 DEF WithLine
<1> QED
  BY <1>1, <1>2, <1>3 DEF end, q, line

LEMMA FewerLines ==
  ASSUME NEW bytes \in Seq(Fragment), LineEnds(bytes) # {}
  PROVE  LET rest == SubSeq(bytes, Min(LineEnds(bytes)) + 1, Len(bytes)) IN
         /\ IsFiniteSet(LineEnds(bytes)) /\ IsFiniteSet(LineEnds(rest))
         /\ Cardinality(LineEnds(rest)) = Cardinality(LineEnds(bytes)) - 1
<1> DEFINE end == Min(LineEnds(bytes))
           rest == SubSeq(bytes, end + 1, Len(bytes))
           S == LineEnds(bytes) \ {end}
           f == [i \in S |-> i - end]
<1>1. /\ end \in 1 .. Len(bytes) /\ bytes[end] = LF
      /\ \A i \in 1 .. Len(bytes) : bytes[i] = LF => end <= i
      /\ Len(bytes) \in Nat /\ DOMAIN bytes = 1 .. Len(bytes)
  BY FirstLine
<1> HIDE DEF end
<1>2. IsFiniteSet(LineEnds(bytes)) /\ end \in LineEnds(bytes)
  <2>1. LineEnds(bytes) \subseteq 1 .. Len(bytes)
    BY <1>1 DEF LineEnds
  <2>2. IsFiniteSet(1 .. Len(bytes))
    BY <1>1, FS_Interval
  <2> QED
    BY <1>1, <2>1, <2>2, FS_Subset DEF LineEnds
<1>3. IsFiniteSet(S) /\ Cardinality(S) = Cardinality(LineEnds(bytes)) - 1
  BY <1>2, FS_RemoveElement
<1>4. /\ DOMAIN rest = 1 .. Len(bytes) - end
      /\ \A i \in 1 .. Len(bytes) - end : rest[i] = bytes[i + end]
  BY <1>1
<1>5. f \in Bijection(S, LineEnds(rest))
  <2>1. f \in [S -> LineEnds(rest)]
    <3>1. ASSUME NEW i \in S
          PROVE  i - end \in LineEnds(rest)
      <4>1. i \in 1 .. Len(bytes) /\ bytes[i] = LF /\ i > end
        BY <1>1 DEF LineEnds
      <4>2. i - end \in 1 .. Len(bytes) - end /\ rest[i - end] = LF
        BY <1>1, <1>4, <4>1
      <4> HIDE DEF rest
      <4> QED
        BY <1>4, <4>2 DEF LineEnds
    <3> QED
      BY <3>1
  <2>2. \A i, j \in S : f[i] = f[j] => i = j
    BY <1>1 DEF LineEnds
  <2>3. ASSUME NEW j \in LineEnds(rest)
        PROVE  j + end \in S /\ f[j + end] = j
    BY <1>1, <1>4 DEF LineEnds
  <2> QED
    BY <2>1, <2>2, <2>3 DEF Bijection, Injection, Surjection, IsInjective
<1> QED
  BY <1>2, <1>3, <1>5, FS_Bijection DEF ExistsBijection, end

(***************************************************************************)
(* The rule for feed's loop (sse.rs:41-79): what every turn preserves     *)
(* holds at its end, and then no line is left in the buffer.               *)
(***************************************************************************)
THEOREM LoopInvariant ==
  ASSUME NEW I \in SUBSET Parser, NEW p \in I, \A q \in I : Drain(q) \in I
  PROVE  Fed(p) \in I /\ LineEnds(Fed(p).buf) = {}
<1> DEFINE lines == Cardinality(LineEnds(p.buf))
           Left(q, n) == /\ q \in I
                         /\ IsFiniteSet(LineEnds(q.buf))
                         /\ Cardinality(LineEnds(q.buf)) = lines - n
           T == {n \in Nat : n <= lines => Left(Turns(p)[n], n)}
<1>1. ASSUME NEW q \in Parser
      PROVE  /\ q.buf \in Seq(Fragment)
             /\ IsFiniteSet(LineEnds(q.buf)) /\ Cardinality(LineEnds(q.buf)) \in Nat
             /\ Cardinality(LineEnds(q.buf)) = 0 <=> LineEnds(q.buf) = {}
  <2>1. q.buf \in Seq(Fragment)
    BY DEF Parser
  <2>2. LineEnds(q.buf) \subseteq 1 .. Len(q.buf) /\ Len(q.buf) \in Nat
    BY <2>1 DEF LineEnds
  <2>3. IsFiniteSet(1 .. Len(q.buf))
    BY <2>2, FS_Interval
  <2>4. IsFiniteSet(LineEnds(q.buf))
    BY <2>2, <2>3, FS_Subset
  <2> QED
    BY <2>1, <2>4, FS_EmptySet, FS_CardinalityType
<1>2. lines \in Nat
  BY <1>1
<1>3. 0 \in T
  <2>1. Left(p, 0)
    BY <1>1, <1>2
  <2> HIDE DEF Left
  <2> QED
    BY <2>1, TurnsEquation
<1>4. ASSUME NEW n \in Nat, n \in T, n + 1 <= lines
      PROVE  n + 1 \in T
  <2> DEFINE q == Turns(p)[n]
  <2>1. q \in I /\ Cardinality(LineEnds(q.buf)) = lines - n /\ lines - n # 0
    BY <1>2, <1>4
  <2>2. Turns(p)[n + 1] = Drain(q)
    BY TurnsEquation
  <2> HIDE DEF q, lines
  <2>3. LineEnds(q.buf) # {} /\ q.buf \in Seq(Fragment)
    BY <1>1, <2>1
  <2>4. Drain(q) \in I /\ Drain(q).buf = SubSeq(q.buf, Min(LineEnds(q.buf)) + 1, Len(q.buf))
    BY <2>1, <2>3, DrainLine
  <2>5. /\ IsFiniteSet(LineEnds(Drain(q).buf))
        /\ Cardinality(LineEnds(Drain(q).buf)) = Cardinality(LineEnds(q.buf)) - 1
    BY <2>3, <2>4, FewerLines
  <2>6. Cardinality(LineEnds(Drain(q).buf)) = lines - (n + 1)
    BY <1>2, <2>1, <2>5
  <2>7. Left(Drain(q), n + 1)
    BY <2>4, <2>5, <2>6
  <2> HIDE DEF Left
  <2> QED
    BY <2>2, <2>7
<1>5. \A n \in Nat : n \in T => n + 1 \in T
  <2>1. ASSUME NEW n \in Nat, n \in T, ~(n + 1 <= lines)
        PROVE  n + 1 \in T
    BY <2>1
  <2> HIDE DEF T
  <2> QED
    BY <1>4, <2>1
<1> HIDE DEF T
<1>6. lines \in T
  BY <1>2, <1>3, <1>5, SetInduction
<1>7. /\ Fed(p) \in I
      /\ Cardinality(LineEnds(Fed(p).buf)) = 0
  BY <1>2, <1>6 DEF T, Fed
<1> QED
  BY <1>1, <1>7

------------------------------------------------------------------------------
(***************************************************************************)
(* Lines.                                                                  *)
(***************************************************************************)

LineEnding == {<<LF>>, <<CR, LF>>}

LEMMA Alphabet ==
  /\ {LF, CR, Colon, Space, Lead, Trail, "event", "id", "data"} \subseteq Fragment
  /\ CR # LF
  /\ {LF, CR} \cap {Lead, Trail} = {}
  /\ {Colon, Space, "event", "id", "data"} \cap {LF, CR, Lead, Trail} = {}
  /\ Colon \notin {"event", "id", "data"}
BY FragmentAssumption DEF LF, CR, Colon, Space, Lead, Trail

LEMMA Concat ==
  ASSUME NEW S, NEW a \in Seq(S), NEW b \in Seq(S)
  PROVE  /\ a \o b \in Seq(S)
         /\ Len(a) \in Nat /\ Len(b) \in Nat
         /\ Len(a \o b) = Len(a) + Len(b)
         /\ \A i \in 1 .. Len(a) : (a \o b)[i] = a[i]
         /\ \A i \in 1 .. Len(b) : (a \o b)[Len(a) + i] = b[i]
OBVIOUS

LEMMA Part ==
  ASSUME NEW S, NEW s \in Seq(S), NEW m \in Nat, NEW n \in Nat, m <= n, n <= Len(s)
  PROVE  /\ SubSeq(s, m + 1, n) \in Seq(S)
         /\ Len(SubSeq(s, m + 1, n)) = n - m
         /\ \A i \in 1 .. n - m : SubSeq(s, m + 1, n)[i] = s[m + i]
OBVIOUS

LEMMA FirstPart ==
  ASSUME NEW S, NEW s \in Seq(S), NEW n \in Nat, n <= Len(s)
  PROVE  /\ SubSeq(s, 1, n) \in Seq(S) /\ Len(SubSeq(s, 1, n)) = n
         /\ \A i \in 1 .. n : SubSeq(s, 1, n)[i] = s[i]
OBVIOUS

LEMMA AfterTwo ==
  ASSUME NEW S, NEW s \in Seq(S), NEW n \in Nat, Len(s) = 3 + n
  PROVE  /\ SubSeq(s, 3, Len(s)) \in Seq(S) /\ Len(SubSeq(s, 3, Len(s))) = n + 1
         /\ \A i \in 1 .. n + 1 : SubSeq(s, 3, Len(s))[i] = s[2 + i]
OBVIOUS

\* What the two line ends have in common.
LEMMA LineEndingIs ==
  ASSUME NEW eol \in LineEnding
  PROVE  /\ eol \in Seq(Fragment) /\ Len(eol) \in Nat \ {0}
         /\ eol[Len(eol)] = LF
         /\ \A i \in 1 .. Len(eol) : i < Len(eol) => eol[i] = CR
<1>1. \A lf \in Fragment, cr \in Fragment :
        /\ <<lf>> \in Seq(Fragment) /\ Len(<<lf>>) = 1 /\ <<lf>>[1] = lf
        /\ <<cr, lf>> \in Seq(Fragment) /\ Len(<<cr, lf>>) = 2
        /\ <<cr, lf>>[1] = cr /\ <<cr, lf>>[2] = lf
  OBVIOUS
<1>2. \/ eol \in Seq(Fragment) /\ Len(eol) = 1 /\ eol[1] = LF
      \/ eol \in Seq(Fragment) /\ Len(eol) = 2 /\ eol[1] = CR /\ eol[2] = LF
  <2>1. LF \in Fragment /\ CR \in Fragment
    BY Alphabet
  <2>2. CASE eol = <<LF>>
    BY <1>1, <2>1, <2>2
  <2>3. CASE eol = <<CR, LF>>
    BY <1>1, <2>1, <2>3
  <2> QED
    BY <2>2, <2>3 DEF LineEnding
<1> QED
  BY <1>2

\* Trimming leaves the line that the carriage returns follow.
LEMMA Trims ==
  ASSUME NEW raw \in Seq(Fragment), NEW line \in Seq(Fragment), Len(line) <= Len(raw),
         \A i \in 1 .. Len(line) : raw[i] = line[i] /\ line[i] # CR,
         \A i \in 1 .. Len(raw) : i > Len(line) => raw[i] = CR
  PROVE  TrimEnd(raw) = line
<1> DEFINE I == {i \in 1 .. Len(raw) : raw[i] # CR}
<1>1. TrimEnd(raw) = SubSeq(raw, 1, IF I # {} THEN Max(I) ELSE 0)
  BY DEF TrimEnd, SelectLastInSeq
<1>2. SubSeq(raw, 1, Len(line)) = line
  <2> DEFINE front == SubSeq(raw, 1, Len(line))
  <2>1. /\ front \in Seq(Fragment) /\ Len(front) = Len(line)
        /\ \A i \in 1 .. Len(line) : front[i] = line[i]
    <3>1. Len(line) \in Nat
      OBVIOUS
    <3> QED
      BY <3>1, FirstPart
  <2> HIDE DEF front
  <2>2. front = line
    BY <2>1, SeqEqual
  <2> QED
    BY <2>2 DEF front
<1>3. (IF I # {} THEN Max(I) ELSE 0) = Len(line)
  <2>1. Len(line) \in Nat /\ \A i \in I : i \in Nat /\ i <= Len(line)
    OBVIOUS
  <2>2. Len(line) # 0 => Len(line) \in I
    OBVIOUS
  <2>3. Len(line) = 0 => I = {}
    BY <2>1
  <2> HIDE DEF I
  <2>4. I # {} => Max(I) = Len(line)
    <3>1. \A m \in I : (\A i \in I : m >= i) => m = Len(line)
      BY <2>1, <2>2, <2>3
    <3>2. I # {} => \E m \in I : \A i \in I : m >= i
      BY <2>1, <2>2, <2>3
    <3> QED
      BY <3>1, <3>2 DEF Max
  <2> QED
    BY <2>1, <2>2, <2>3, <2>4
<1> QED
  BY <1>1, <1>2, <1>3

LEMMA LossyKeeps ==
  ASSUME NEW bytes \in Seq(Fragment)
  PROVE  Lossy(bytes) = bytes
           <=> \A i \in 1 .. Len(bytes) :
                 /\ bytes[i] = Lead => i < Len(bytes) /\ bytes[i + 1] = Trail
                 /\ bytes[i] = Trail => i > 1 /\ bytes[i - 1] = Lead
<1> DEFINE whole(i) == \/ bytes[i] = Lead /\ i < Len(bytes) /\ bytes[i + 1] = Trail
                       \/ bytes[i] = Trail /\ i > 1 /\ bytes[i - 1] = Lead
           lossy == [i \in 1 .. Len(bytes) |->
                       IF bytes[i] \in {Lead, Trail} /\ ~whole(i) THEN "replacement" ELSE bytes[i]]
<1>1. Lossy(bytes) = lossy
  BY DEF Lossy
<1>2. lossy = bytes <=> \A i \in 1 .. Len(bytes) : lossy[i] = bytes[i]
  <2>1. DOMAIN lossy = DOMAIN bytes /\ DOMAIN bytes = 1 .. Len(bytes)
    OBVIOUS
  <2>2. bytes = [i \in 1 .. Len(bytes) |-> bytes[i]]
    OBVIOUS
  <2>3. lossy = [i \in 1 .. Len(bytes) |-> lossy[i]]
    OBVIOUS
  <2> HIDE DEF lossy
  <2> QED
    BY <2>2, <2>3
<1>3. ASSUME NEW i \in 1 .. Len(bytes)
      PROVE  lossy[i] = bytes[i] <=> (bytes[i] \in {Lead, Trail} => whole(i))
  BY DEF Lead, Trail
<1>4. ASSUME NEW i \in 1 .. Len(bytes)
      PROVE  (bytes[i] \in {Lead, Trail} => whole(i))
               <=> /\ bytes[i] = Lead => i < Len(bytes) /\ bytes[i + 1] = Trail
                   /\ bytes[i] = Trail => i > 1 /\ bytes[i - 1] = Lead
  BY DEF Lead, Trail
<1> HIDE DEF lossy
<1> QED
  BY <1>1, <1>2, <1>3, <1>4

\* Carriage returns after a text do not change what the parser sees of it.
LEMMA LossyLine ==
  ASSUME NEW raw \in Seq(Fragment), NEW line, Text(line), Len(line) <= Len(raw),
         \A i \in 1 .. Len(line) : raw[i] = line[i],
         \A i \in 1 .. Len(raw) : i > Len(line) => raw[i] = CR
  PROVE  Lossy(raw) = raw
<1>1. /\ line \in Seq(Fragment) /\ Len(line) \in Nat /\ Len(raw) \in Nat
      /\ \A i \in 1 .. Len(line) :
           /\ line[i] = Lead => i < Len(line) /\ line[i + 1] = Trail
           /\ line[i] = Trail => i > 1 /\ line[i - 1] = Lead
  BY LossyKeeps DEF Text
<1>2. CR # Lead /\ CR # Trail
  BY Alphabet
<1>3. ASSUME NEW i \in 1 .. Len(raw), raw[i] = Lead
      PROVE  i < Len(raw) /\ raw[i + 1] = Trail
  <2>1. i \in 1 .. Len(line) /\ line[i] = Lead
    BY <1>1, <1>2, <1>3
  <2>2. i + 1 \in 1 .. Len(line) /\ line[i + 1] = Trail
    BY <1>1, <2>1
  <2> QED
    BY <1>1, <2>1, <2>2
<1>4. ASSUME NEW i \in 1 .. Len(raw), raw[i] = Trail
      PROVE  i > 1 /\ raw[i - 1] = Lead
  <2>1. i \in 1 .. Len(line) /\ line[i] = Trail
    BY <1>1, <1>2, <1>4
  <2>2. i - 1 \in 1 .. Len(line) /\ line[i - 1] = Lead
    BY <1>1, <2>1
  <2> QED
    BY <1>1, <2>1, <2>2
<1> QED
  BY <1>3, <1>4, LossyKeeps

(***************************************************************************)
(* A text and a line end: one line end, at the end, and the parser sees    *)
(* the text.                                                               *)
(***************************************************************************)
LEMMA EndedLine ==
  ASSUME NEW line, Text(line), NEW eol \in LineEnding
  PROVE  LET f == line \o eol IN
         /\ f \in Seq(Fragment) /\ Len(f) = Len(line) + Len(eol) /\ Len(f) \in Nat \ {0}
         /\ f[Len(f)] = LF
         /\ \A i \in 1 .. Len(f) - 1 : f[i] # LF
         /\ TrimEnd(Lossy(SubSeq(f, 1, Len(f) - 1))) = line
<1> DEFINE f == line \o eol
           raw == SubSeq(f, 1, Len(f) - 1)
<1>1. /\ line \in Seq(Fragment) /\ Len(line) \in Nat
      /\ \A i \in 1 .. Len(line) : line[i] # LF /\ line[i] # CR
  BY DEF Text
<1>2. /\ eol \in Seq(Fragment) /\ Len(eol) \in Nat \ {0} /\ eol[Len(eol)] = LF
      /\ \A i \in 1 .. Len(eol) : i < Len(eol) => eol[i] = CR
  BY LineEndingIs
<1>3. /\ f \in Seq(Fragment) /\ Len(f) = Len(line) + Len(eol)
      /\ \A i \in 1 .. Len(line) : f[i] = line[i]
      /\ \A i \in 1 .. Len(eol) : f[Len(line) + i] = eol[i]
  BY <1>1, <1>2, Concat
<1> HIDE DEF f
<1>4. Len(f) \in Nat \ {0} /\ f[Len(f)] = LF
  BY <1>1, <1>2, <1>3
<1>5. ASSUME NEW i \in 1 .. Len(f) - 1
      PROVE  IF i <= Len(line) THEN f[i] = line[i] /\ f[i] # LF /\ f[i] # CR
             ELSE f[i] = CR /\ f[i] # LF
  <2>1. CASE i <= Len(line)
    BY <1>1, <1>3, <2>1
  <2>2. CASE ~(i <= Len(line))
    <3>1. /\ i - Len(line) \in 1 .. Len(eol) /\ i - Len(line) < Len(eol)
          /\ i = Len(line) + (i - Len(line))
      BY <1>1, <1>2, <1>3, <2>2
    <3>2. f[i] = eol[i - Len(line)]
      BY <1>3, <3>1
    <3> QED
      BY <1>2, <2>2, <3>1, <3>2, Alphabet
  <2> QED
    BY <2>1, <2>2
<1>6. /\ raw \in Seq(Fragment) /\ Len(raw) = Len(f) - 1
      /\ \A i \in 1 .. Len(f) - 1 : raw[i] = f[i]
  <2>1. Len(f) - 1 \in Nat /\ Len(f) - 1 <= Len(f)
    BY <1>4
  <2> QED
    BY <1>3, <2>1, FirstPart
<1> HIDE DEF raw
<1>7. /\ Len(line) <= Len(raw)
      /\ \A i \in 1 .. Len(line) : raw[i] = line[i] /\ line[i] # CR
      /\ \A i \in 1 .. Len(raw) : i > Len(line) => raw[i] = CR
  BY <1>1, <1>2, <1>3, <1>5, <1>6
<1>8. Lossy(raw) = raw
  BY <1>6, <1>7, LossyLine
<1>9. TrimEnd(raw) = line
  BY <1>1, <1>6, <1>7, Trims
<1>10. \A i \in 1 .. Len(f) - 1 : f[i] # LF
  BY <1>1, <1>5
<1>11. TrimEnd(Lossy(raw)) = line
  BY <1>8, <1>9
<1> QED
  BY <1>3, <1>4, <1>10, <1>11 DEF f, raw

\* The fields' names; and a field of an event set.
FieldNames == {"event", "id", "data"}
Named(cur, name, value) == WithField(cur, <<name>>, value)

\* The text of a field's line.
LEMMA FieldText ==
  ASSUME NEW name \in FieldNames, NEW value, Text(value)
  PROVE  LET line == <<name, Colon, Space>> \o value IN
         /\ Text(line) /\ Len(line) = 3 + Len(value)
         /\ line[1] = name /\ line[2] = Colon /\ line[3] = Space
         /\ \A i \in 1 .. Len(value) : line[3 + i] = value[i]
<1> DEFINE head == <<name, Colon, Space>>
           line == head \o value
<1>1. /\ value \in Seq(Fragment) /\ Len(value) \in Nat
      /\ \A i \in 1 .. Len(value) : value[i] \notin {LF, CR}
      /\ \A i \in 1 .. Len(value) :
           /\ value[i] = Lead => i < Len(value) /\ value[i + 1] = Trail
           /\ value[i] = Trail => i > 1 /\ value[i - 1] = Lead
  BY LossyKeeps DEF Text
<1>2. /\ name \in Fragment /\ Colon \in Fragment /\ Space \in Fragment
      /\ name \notin {LF, CR, Lead, Trail} /\ Colon \notin {LF, CR, Lead, Trail}
      /\ Space \notin {LF, CR, Lead, Trail}
  BY Alphabet DEF FieldNames
<1>3. /\ head \in Seq(Fragment) /\ Len(head) = 3
      /\ head[1] = name /\ head[2] = Colon /\ head[3] = Space
  <2>1. \A a, b, c \in Fragment :
          /\ <<a, b, c>> \in Seq(Fragment) /\ Len(<<a, b, c>>) = 3
          /\ <<a, b, c>>[1] = a /\ <<a, b, c>>[2] = b /\ <<a, b, c>>[3] = c
    OBVIOUS
  <2> QED
    BY <1>2, <2>1
<1> HIDE DEF head
<1>4. /\ line \in Seq(Fragment) /\ Len(line) = 3 + Len(value)
      /\ \A i \in 1 .. 3 : line[i] = head[i]
      /\ \A i \in 1 .. Len(value) : line[3 + i] = value[i]
  <2>1. head \in Seq(Fragment) /\ value \in Seq(Fragment)
    BY <1>1, <1>3
  <2>2. /\ line \in Seq(Fragment) /\ Len(line) = Len(head) + Len(value)
        /\ \A i \in 1 .. Len(head) : line[i] = head[i]
        /\ \A i \in 1 .. Len(value) : line[Len(head) + i] = value[i]
    BY <2>1, Concat
  <2> HIDE DEF line
  <2> QED
    BY <1>3, <2>2
<1> HIDE DEF line
<1>5. line[1] = name /\ line[2] = Colon /\ line[3] = Space
  BY <1>3, <1>4
<1>6. ASSUME NEW i \in 1 .. Len(line)
      PROVE  \/ line[i] \notin {LF, CR, Lead, Trail}
             \/ i - 3 \in 1 .. Len(value) /\ line[i] = value[i - 3]
  <2>1. CASE i <= 3
    <3>1. i = 1 \/ i = 2 \/ i = 3
      BY <2>1
    <3> QED
      BY <1>2, <1>5, <3>1
  <2>2. CASE ~(i <= 3)
    <3>1. i - 3 \in 1 .. Len(value) /\ i = 3 + (i - 3)
      BY <1>1, <1>4, <2>2
    <3> QED
      BY <1>4, <3>1
  <2> QED
    BY <2>1, <2>2
<1>7. \A i \in DOMAIN line : line[i] \notin {LF, CR}
  BY <1>1, <1>4, <1>6
<1>8. ASSUME NEW i \in 1 .. Len(line), line[i] = Lead
      PROVE  i < Len(line) /\ line[i + 1] = Trail
  <2>1. i - 3 \in 1 .. Len(value) /\ value[i - 3] = Lead
    BY <1>6, <1>8
  <2>2. i - 3 + 1 \in 1 .. Len(value) /\ value[i - 3 + 1] = Trail /\ i + 1 = 3 + (i - 3 + 1)
    BY <1>1, <2>1
  <2>3. line[3 + (i - 3 + 1)] = value[i - 3 + 1]
    BY <1>4, <2>2
  <2> QED
    BY <1>1, <1>4, <2>2, <2>3
<1>9. ASSUME NEW i \in 1 .. Len(line), line[i] = Trail
      PROVE  i > 1 /\ line[i - 1] = Lead
  <2>1. i - 3 \in 1 .. Len(value) /\ value[i - 3] = Trail
    BY <1>6, <1>9
  <2>2. i - 3 - 1 \in 1 .. Len(value) /\ value[i - 3 - 1] = Lead /\ i - 1 = 3 + (i - 3 - 1)
    BY <1>1, <2>1
  <2>3. line[3 + (i - 3 - 1)] = value[i - 3 - 1]
    BY <1>4, <2>2
  <2> QED
    BY <2>2, <2>3
<1>10. Lossy(line) = line
  BY <1>4, <1>8, <1>9, LossyKeeps
<1> QED
  BY <1>4, <1>5, <1>7, <1>10 DEF Text, line, head

(***************************************************************************)
(* What WithLine makes of a field's line.                                  *)
(***************************************************************************)
LEMMA LineOfField ==
  ASSUME NEW name \in FieldNames, NEW value, Text(value), NEW p
  PROVE  WithLine(p, <<name, Colon, Space>> \o value)
           = [p EXCEPT !.cur = Named(@, name, value)]
<1> DEFINE line == <<name, Colon, Space>> \o value
<1>1. /\ line \in Seq(Fragment) /\ Len(line) = 3 + Len(value)
      /\ value \in Seq(Fragment) /\ Len(value) \in Nat
      /\ line[1] = name /\ line[2] = Colon /\ line[3] = Space /\ line[1] # Colon
      /\ \A i \in 1 .. Len(value) : line[3 + i] = value[i]
  <2>1. value \in Seq(Fragment) /\ name # Colon
    BY Alphabet DEF Text, FieldNames
  <2>2. Len(value) \in Nat
    BY <2>1
  <2>3. Text(line)
    BY FieldText
  <2>4. line \in Seq(Fragment)
    BY <2>3 DEF Text
  <2> QED
    BY <2>1, <2>2, <2>4, FieldText
<1> HIDE DEF line
<1>2. FirstColon(line) = 2
  <2> DEFINE I == {i \in 1 .. Len(line) : line[i] = Colon}
  <2>1. 2 \in I /\ \A i \in I : 2 <= i /\ i \in Nat
    BY <1>1
  <2>2. FirstColon(line) = IF I # {} THEN Min(I) ELSE 0
    BY DEF FirstColon, SelectInSeq
  <2> HIDE DEF I
  <2>3. Min(I) = 2
    <3>1. \A m \in I : (\A i \in I : m =< i) => m = 2
      BY <2>1
    <3>2. \E m \in I : \A i \in I : m =< i
      BY <2>1
    <3> QED
      BY <3>1, <3>2 DEF Min
  <2> QED
    BY <2>1, <2>2, <2>3
<1>3. FieldName(line) = <<line[1]>>
  <2>1. SubSeq(line, 1, 1) = <<line[1]>>
    <3> DEFINE front == SubSeq(line, 1, 1)
    <3>1. front \in Seq(Fragment) /\ Len(front) = 1 /\ front[1] = line[1]
      <4>1. 1 \in Nat /\ 1 <= Len(line)
        BY <1>1
      <4> QED
        BY <1>1, <4>1, FirstPart
    <3> HIDE DEF front
    <3>2. front = <<line[1]>>
      BY <3>1
    <3> QED
      BY <3>2 DEF front
  <2> QED
    BY <1>2, <2>1 DEF FieldName
<1>4. FieldValue(line) = value
  <2> DEFINE after == SubSeq(line, 3, Len(line))
  <2>1. /\ after \in Seq(Fragment) /\ Len(after) = Len(value) + 1
        /\ \A i \in 1 .. Len(value) + 1 : after[i] = line[2 + i]
    <3> DEFINE n == Len(value)
    <3>1. line \in Seq(Fragment) /\ n \in Nat /\ Len(line) = 3 + n
      BY <1>1
    <3> HIDE DEF n
    <3>2. /\ after \in Seq(Fragment) /\ Len(after) = n + 1
          /\ \A i \in 1 .. n + 1 : after[i] = line[2 + i]
      BY <3>1, AfterTwo
    <3> HIDE DEF after
    <3> QED
      BY <1>1, <3>2 DEF n
  <2> HIDE DEF after
  <2>2. after # << >> /\ Head(after) = Space
    BY <1>1, <2>1
  <2>3. Tail(after) = value
    <3>1. /\ Tail(after) \in Seq(Fragment) /\ Len(Tail(after)) = Len(value)
          /\ \A i \in 1 .. Len(value) : Tail(after)[i] = after[i + 1]
      BY <1>1, <2>1, <2>2, HeadTailProperties
    <3>2. ASSUME NEW i \in 1 .. Len(value)
          PROVE  Tail(after)[i] = value[i]
      <4>1. i + 1 \in 1 .. Len(value) + 1 /\ 2 + (i + 1) = 3 + i
        BY <1>1
      <4>2. Tail(after)[i] = after[i + 1]
        BY <3>1
      <4>3. after[i + 1] = line[2 + (i + 1)]
        BY <2>1, <4>1
      <4>4. line[3 + i] = value[i]
        BY <1>1
      <4> QED
        BY <4>1, <4>2, <4>3, <4>4
    <3> QED
      BY <1>1, <3>1, <3>2, SeqEqual
  <2>4. FieldValue(line) = Tail(after)
    BY <1>2, <2>2 DEF FieldValue, after
  <2> QED
    BY <2>3, <2>4
<1>5. line # << >> /\ Head(line) # Colon
  BY <1>1
<1>6. WithLine(p, line) = [p EXCEPT !.cur = Named(@, line[1], value)]
  BY <1>3, <1>4, <1>5 DEF WithLine, Named
<1>7. line[1] = name
  BY <1>1
<1>8. WithLine(p, line) = [p EXCEPT !.cur = Named(@, name, value)]
  BY <1>6, <1>7
<1> QED
  BY <1>8 DEF line

LEMMA LineEndsEvent ==
  ASSUME NEW p \in Parser, p.cur # NoEvent
  PROVE  WithLine(p, << >>) = [p EXCEPT !.cur = NoEvent, !.out = Append(@, p.cur)]
BY DEF WithLine, Parser

\* The events of the server's streams; and what their fields make of them.
WireEvent == {ev \in SseEvent : /\ \E v : ev.event = {v} /\ Text(v)
                                /\ ev.id = {} \/ \E v : ev.id = {v} /\ Text(v)
                                /\ Text(ev.data)}

LEMMA Fields ==
  ASSUME NEW value, NEW cur \in SseEvent
  PROVE  /\ Named(cur, "event", value) = [event |-> {value}, id |-> cur.id, data |-> cur.data]
         /\ Named(cur, "id", value) = [event |-> cur.event, id |-> {value}, data |-> cur.data]
         /\ cur.data = << >> =>
              Named(cur, "data", value) = [event |-> cur.event, id |-> cur.id, data |-> value]
<1>1. <<"event">> # <<"id">> /\ <<"event">> # <<"data">> /\ <<"id">> # <<"data">>
  OBVIOUS
<1>2. /\ Named(cur, "event", value) = [cur EXCEPT !.event = {value}]
      /\ Named(cur, "id", value) = [cur EXCEPT !.id = {value}]
      /\ cur.data = << >> => Named(cur, "data", value) = [cur EXCEPT !.data = value]
  BY <1>1 DEF WithField, Named
<1>3. PICK e, i, d : cur = [event |-> e, id |-> i, data |-> d]
  BY DEF SseEvent
<1>4. ASSUME NEW v
      PROVE  /\ [cur EXCEPT !.event = v] = [event |-> v, id |-> cur.id, data |-> cur.data]
             /\ [cur EXCEPT !.id = v] = [event |-> cur.event, id |-> v, data |-> cur.data]
             /\ [cur EXCEPT !.data = v] = [event |-> cur.event, id |-> cur.id, data |-> v]
  BY <1>3
<1> QED
  BY <1>2, <1>4
------------------------------------------------------------------------------
(***************************************************************************)
(* A turn of the loop, where the buffer is a piece of the body.            *)
(***************************************************************************)
LEMMA SameFront ==
  ASSUME NEW S, NEW s \in Seq(S), NEW t \in Seq(S), NEW n \in Nat, n <= Len(s), n <= Len(t),
         \A i \in 1 .. n : s[i] = t[i]
  PROVE  SubSeq(s, 1, n) = SubSeq(t, 1, n)
<1> DEFINE x == SubSeq(s, 1, n)
           y == SubSeq(t, 1, n)
<1>1. x \in Seq(S) /\ Len(x) = n /\ \A i \in 1 .. n : x[i] = s[i]
  BY FirstPart
<1>2. y \in Seq(S) /\ Len(y) = n /\ \A i \in 1 .. n : y[i] = t[i]
  BY FirstPart
<1> HIDE DEF x, y
<1>3. x = y
  BY <1>1, <1>2, SeqEqual
<1> QED
  BY <1>3 DEF x, y

\* What comes after the first b and up to the n-th; and concatenation. The
\* provers compare what they know to be sequences element by element, so the
\* lemmas from here on are about these operators.
Piece(s, b, n) == SubSeq(s, b + 1, n)
Join(s, t) == s \o t
WithBuffer(p, bytes) == [p EXCEPT !.buf = bytes]

LEMMA RestOfPart ==
  ASSUME NEW S, NEW s \in Seq(S), NEW b \in Nat, NEW e \in Nat, NEW n \in Nat,
         b <= e, e <= n, n <= Len(s)
  PROVE  \A i, j : i = e - b /\ j = n - b => Piece(Piece(s, b, n), i, j) = Piece(s, e, n)
<1> DEFINE t == SubSeq(s, b + 1, n)
           x == SubSeq(t, e - b + 1, n - b)
           y == SubSeq(s, e + 1, n)
<1>1. t \in Seq(S) /\ Len(t) = n - b /\ \A i \in 1 .. n - b : t[i] = s[b + i]
  BY Part
<1>2. y \in Seq(S) /\ Len(y) = n - e /\ \A i \in 1 .. n - e : y[i] = s[e + i]
  BY Part
<1> HIDE DEF t
<1>3. /\ x \in Seq(S) /\ Len(x) = (n - b) - (e - b)
      /\ \A i \in 1 .. (n - b) - (e - b) : x[i] = t[(e - b) + i]
  <2>1. e - b \in Nat /\ n - b \in Nat /\ e - b <= n - b /\ n - b <= Len(t)
    BY <1>1
  <2> QED
    BY <1>1, <2>1, Part
<1> HIDE DEF x, y
<1>4. ASSUME NEW i \in 1 .. n - e
      PROVE  x[i] = y[i]
  <2>1. (e - b) + i \in 1 .. n - b /\ b + ((e - b) + i) = e + i /\ (n - b) - (e - b) = n - e
    OBVIOUS
  <2>2. x[i] = t[(e - b) + i]
    BY <1>3, <2>1
  <2>3. t[(e - b) + i] = s[b + ((e - b) + i)]
    BY <1>1, <2>1
  <2> QED
    BY <1>2, <2>1, <2>2, <2>3
<1>5. Len(x) = n - e
  BY <1>3
<1>6. x = y
  BY <1>2, <1>3, <1>4, <1>5, SeqEqual
<1> QED
  BY <1>6 DEF x, y, t, Piece

\* A parser with a line to read whose first byte is the one after the first b of
\* the body, of which n have arrived; and that the turn that reads a line up to
\* byte e leaves it with out and cur.
AtLine(body, b, e, n, q) ==
  /\ body \in Seq(Fragment) /\ {b, e, n} \subseteq Nat
  /\ b <= e /\ e <= Len(body) /\ b <= n /\ n <= Len(body)
  /\ q \in Parser /\ q.buf = Piece(body, b, n) /\ LineEnds(q.buf) # {}

TurnTo(q, body, e, n, out, cur) ==
  /\ e <= n /\ Drain(q) \in Parser
  /\ Drain(q).buf = Piece(body, e, n) /\ Drain(q).out = out /\ Drain(q).cur = cur

\* The turn that reads the line at hand.
LEMMA DrainAt ==
  ASSUME NEW body, NEW b, NEW e, NEW n, NEW q, AtLine(body, b, e, n, q),
         NEW line, Text(line), NEW eol \in LineEnding,
         Piece(body, b, e) = Join(line, eol)
  PROVE  /\ e <= n
         /\ Drain(q) = WithLine(WithBuffer(q, Piece(body, e, n)), line)
<1>h. /\ body \in Seq(Fragment) /\ b \in Nat /\ e \in Nat /\ n \in Nat
      /\ b <= e /\ e <= Len(body) /\ b <= n /\ n <= Len(body)
      /\ q \in Parser /\ q.buf = Piece(body, b, n) /\ LineEnds(q.buf) # {}
  BY DEF AtLine
<1> USE <1>h
<1> DEFINE f == line \o eol
           end == Min(LineEnds(q.buf))
           buf == q.buf
<1>1. /\ f \in Seq(Fragment) /\ Len(f) \in Nat \ {0}
      /\ f[Len(f)] = LF
      /\ \A i \in 1 .. Len(f) - 1 : f[i] # LF
      /\ TrimEnd(Lossy(SubSeq(f, 1, Len(f) - 1))) = line
  BY EndedLine
<1> HIDE DEF f
<1>2. Len(f) = e - b /\ \A i \in 1 .. e - b : f[i] = body[b + i]
  <2>1. f = SubSeq(body, b + 1, e)
    BY DEF f, Piece, Join
  <2> QED
    BY <2>1, Part
<1>3. /\ buf \in Seq(Fragment) /\ Len(buf) = n - b
      /\ \A i \in 1 .. n - b : buf[i] = body[b + i]
  BY Part DEF Piece
<1>4. /\ end \in 1 .. Len(buf) /\ buf[end] = LF
      /\ \A i \in 1 .. Len(buf) : buf[i] = LF => end <= i
  BY <1>3, FirstLine
<1>5. /\ Drain(q) = WithLine([q EXCEPT !.buf = SubSeq(@, end + 1, Len(@))],
                             TrimEnd(Lossy(SubSeq(buf, 1, end - 1))))
  BY DrainLine
<1> HIDE DEF end, buf
<1>6. end = e - b /\ e <= n
  <2>1. ASSUME end < e - b
        PROVE  FALSE
    <3>1. end \in 1 .. Len(f) - 1 /\ end \in 1 .. e - b /\ end \in 1 .. n - b
      BY <1>1, <1>2, <1>3, <1>4, <2>1
    <3>2. f[end] = buf[end]
      BY <1>2, <1>3, <3>1
    <3> QED
      BY <1>1, <1>4, <3>1, <3>2
  <2>2. e - b \in 1 .. n - b /\ e <= n
    <3>1. end \in Nat /\ end <= n - b /\ e - b \in Nat \ {0}
      BY <1>1, <1>2, <1>3, <1>4
    <3>2. ~(end < e - b)
      BY <2>1
    <3> QED
      BY <3>1, <3>2
  <2>3. buf[e - b] = LF
    <3>1. f[e - b] = LF /\ e - b \in 1 .. e - b
      BY <1>1, <1>2, <2>2
    <3> QED
      BY <1>2, <1>3, <2>2, <3>1
  <2>4. end <= e - b
    BY <1>3, <1>4, <2>2, <2>3
  <2> QED
    BY <1>3, <1>4, <2>1, <2>2, <2>4
<1>7. SubSeq(buf, 1, end - 1) = SubSeq(f, 1, Len(f) - 1)
  <2> DEFINE k == Len(f) - 1
  <2>1. /\ k \in Nat /\ k <= Len(buf) /\ k <= Len(f) /\ end - 1 = k
        /\ \A i \in 1 .. k : buf[i] = f[i]
    <3>1. /\ k \in Nat /\ k <= Len(buf) /\ k <= Len(f) /\ end - 1 = k
          /\ k <= e - b /\ k <= n - b
      BY <1>1, <1>2, <1>3, <1>6
    <3>2. \A i \in 1 .. k : i \in 1 .. e - b /\ i \in 1 .. n - b
      BY <3>1
    <3> QED
      BY <1>2, <1>3, <3>1, <3>2
  <2> HIDE DEF k
  <2>2. SubSeq(buf, 1, k) = SubSeq(f, 1, k)
    BY <1>1, <1>3, <2>1, SameFront
  <2> QED
    BY <2>1, <2>2 DEF k
<1>8. Piece(buf, end, Len(buf)) = Piece(body, e, n)
  <2>1. end = e - b /\ Len(buf) = n - b
    BY <1>3, <1>6
  <2>2. Piece(Piece(body, b, n), end, Len(buf)) = Piece(body, e, n)
    BY <1>6, <2>1, RestOfPart
  <2> QED
    BY <2>2 DEF buf
<1>9. [q EXCEPT !.buf = SubSeq(@, end + 1, Len(@))] = WithBuffer(q, Piece(body, e, n))
  <2>1. [q EXCEPT !.buf = SubSeq(@, end + 1, Len(@))] = WithBuffer(q, Piece(buf, end, Len(buf)))
    BY DEF buf, Piece, WithBuffer
  <2> QED
    BY <1>8, <2>1
<1> QED
  BY <1>1, <1>5, <1>6, <1>7, <1>9

LEMMA JoinAssociative ==
  ASSUME NEW S, NEW a \in Seq(S), NEW b \in Seq(S), NEW c \in Seq(S)
  PROVE  Join(a, b) \in Seq(S) /\ Join(Join(a, b), c) = Join(a, Join(b, c))
BY ConcatProperties, ConcatAssociative DEF Join

LEMMA Pieces ==
  ASSUME NEW S, NEW s \in Seq(S), NEW m \in Nat, NEW n \in Nat, m <= n, n <= Len(s),
         NEW x \in Seq(S), NEW y \in Seq(S), Piece(s, m, n) = Join(x, y)
  PROVE  \A p : p = m + Len(x) =>
           /\ p \in Nat /\ m <= p /\ p <= n
           /\ Piece(s, m, p) = x /\ Piece(s, p, n) = y
<1> DEFINE t == SubSeq(s, m + 1, n)
           l == Len(x)
           u == SubSeq(s, m + 1, m + l)
           v == SubSeq(s, m + l + 1, n)
<1>1. t \in Seq(S) /\ Len(t) = n - m /\ \A i \in 1 .. n - m : t[i] = s[m + i]
  BY Part
<1>2. /\ l \in Nat /\ Len(y) \in Nat /\ Len(t) = l + Len(y)
      /\ \A i \in 1 .. l : t[i] = x[i]
      /\ \A i \in 1 .. Len(y) : t[l + i] = y[i]
  <2> DEFINE z == x \o y
  <2>1. /\ l \in Nat /\ Len(y) \in Nat /\ Len(z) = l + Len(y)
        /\ \A i \in 1 .. l : z[i] = x[i]
        /\ \A i \in 1 .. Len(y) : z[l + i] = y[i]
    BY Concat
  <2>2. t = z
    BY DEF Piece, Join
  <2> HIDE DEF t, z, l
  <2> QED
    BY <2>1, <2>2
<1> HIDE DEF t
<1>3. m + l \in Nat /\ m <= m + l /\ m + l <= n /\ n - (m + l) = Len(y)
  <2>1. n - m = l + Len(y)
    BY <1>1, <1>2
  <2> DEFINE k == Len(y)
  <2> HIDE DEF l, k
  <2>2. l \in Nat /\ k \in Nat /\ n - m = l + k
    BY <1>2, <2>1 DEF k
  <2>3. m + l \in Nat /\ m <= m + l /\ m + l <= n /\ n - (m + l) = k
    BY <2>2
  <2> QED
    BY <2>3 DEF k
<1>4. Len(x) = l
  OBVIOUS
<1> HIDE DEF l
<1>5. u \in Seq(S) /\ Len(u) = l /\ \A i \in 1 .. l : u[i] = s[m + i]
  <2> DEFINE k == m + l
             w == SubSeq(s, m + 1, k)
  <2>1. k \in Nat /\ m <= k /\ k <= Len(s) /\ k - m = l
    BY <1>2, <1>3
  <2> HIDE DEF k
  <2>2. w \in Seq(S) /\ Len(w) = k - m /\ \A i \in 1 .. k - m : w[i] = s[m + i]
    BY <2>1, Part
  <2>3. w = u
    BY DEF k
  <2> HIDE DEF w, u
  <2> QED
    BY <2>1, <2>2, <2>3
<1>6. v \in Seq(S) /\ Len(v) = n - (m + l) /\ \A i \in 1 .. n - (m + l) : v[i] = s[m + l + i]
  <2> DEFINE k == m + l
             w == SubSeq(s, k + 1, n)
  <2>1. k \in Nat /\ k <= n
    BY <1>3
  <2> HIDE DEF k
  <2>2. w \in Seq(S) /\ Len(w) = n - k /\ \A i \in 1 .. n - k : w[i] = s[k + i]
    BY <2>1, Part
  <2>3. w = v
    BY DEF k
  <2> HIDE DEF w, v
  <2>4. v \in Seq(S) /\ Len(v) = n - k /\ \A i \in 1 .. n - k : v[i] = s[k + i]
    BY <2>2, <2>3
  <2> QED
    BY <2>4 DEF k
<1> HIDE DEF u, v
<1>7. u = x
  <2>1. ASSUME NEW i \in 1 .. l
        PROVE  u[i] = x[i]
    <3>1. i \in 1 .. n - m
      BY <1>2, <1>3
    <3> QED
      BY <1>1, <1>2, <1>5, <3>1
  <2> QED
    BY <1>4, <1>5, <2>1, SeqEqual
<1>8. v = y
  <2>1. ASSUME NEW i \in 1 .. Len(y)
        PROVE  v[i] = y[i]
    <3>1. l + i \in 1 .. n - m /\ m + l + i = m + (l + i)
      BY <1>1, <1>2
    <3>2. t[l + i] = s[m + (l + i)]
      BY <1>1, <3>1
    <3> QED
      BY <1>2, <1>3, <1>6, <3>1, <3>2
  <2> QED
    BY <1>3, <1>6, <2>1, SeqEqual
<1>9. \A p : p = m + l => Piece(s, m, p) = u /\ Piece(s, p, n) = v
  BY DEF u, v, Piece
<1> QED
  BY <1>3, <1>4, <1>7, <1>8, <1>9

(***************************************************************************)
(* The lines of an event.                                                  *)
(***************************************************************************)
EventLine(ev, eol) == Field("event", CHOOSE v \in ev.event : TRUE, eol)
IdLine(ev, eol) == IF ev.id = {} THEN << >> ELSE Field("id", CHOOSE v \in ev.id : TRUE, eol)
DataLine(ev, eol) == Field("data", ev.data, eol)

LEMMA EncodeLines ==
  ASSUME NEW ev \in WireEvent, NEW eol \in LineEnding
  PROVE  /\ Encode(ev, eol) = Join(Join(Join(EventLine(ev, eol), IdLine(ev, eol)), DataLine(ev, eol)), eol)
         /\ {EventLine(ev, eol), IdLine(ev, eol), DataLine(ev, eol), eol} \subseteq Seq(Fragment)
<1>1. PICK v : Text(v) /\ ev.event = {v}
  BY DEF WireEvent
<1>2. ASSUME NEW name \in FieldNames, NEW value, Text(value)
      PROVE  Field(name, value, eol) \in Seq(Fragment)
  <2>1. Text(<<name, Colon, Space>> \o value)
    BY <1>2, FieldText
  <2> QED
    BY <2>1, EndedLine DEF Field
<1>3. EventLine(ev, eol) \in Seq(Fragment)
  BY <1>1, <1>2 DEF EventLine, FieldNames
<1>4. IdLine(ev, eol) \in Seq(Fragment)
  <2>1. CASE ev.id = {}
    BY <2>1 DEF IdLine
  <2>2. CASE ev.id # {}
    <3>1. PICK w : Text(w) /\ ev.id = {w}
      BY <2>2 DEF WireEvent
    <3> QED
      BY <1>2, <2>2, <3>1 DEF IdLine, FieldNames
  <2> QED
    BY <2>1, <2>2
<1>5. DataLine(ev, eol) \in Seq(Fragment)
  BY <1>2 DEF DataLine, WireEvent, FieldNames
<1>6. eol \in Seq(Fragment)
  BY LineEndingIs
<1>7. Encode(ev, eol) = Join(Join(Join(EventLine(ev, eol), IdLine(ev, eol)), DataLine(ev, eol)), eol)
  <2>1. ev.event # {}
    BY <1>1
  <2> QED
    BY <2>1 DEF Encode, EventLine, IdLine, DataLine, Join
<1> QED
  BY <1>3, <1>4, <1>5, <1>6, <1>7

\* The body carries the events; the k-th ends after ends[k] bytes of it.
Begin(ends, k) == IF k = 0 THEN 0 ELSE ends[k]

Carries(body, events, ends, eol) ==
  /\ body \in Seq(Fragment) /\ events \in Seq(WireEvent)
  /\ ends \in Seq(Nat) /\ Len(ends) = Len(events)
  /\ Begin(ends, Len(events)) = Len(body)
  /\ \A k \in 1 .. Len(events) :
       /\ \A i \in 0 .. k - 1 : Begin(ends, i) <= ends[k]
       /\ ends[k] <= Len(body)
       /\ Piece(body, Begin(ends, k - 1), ends[k]) = Encode(events[k], eol)

\* Where the lines of an event that begins after b bytes end.
AfterEvent(b, ev, eol) == b + Len(EventLine(ev, eol))
AfterId(b, ev, eol) == AfterEvent(b, ev, eol) + Len(IdLine(ev, eol))
AfterData(b, ev, eol) == AfterId(b, ev, eol) + Len(DataLine(ev, eol))

LEMMA LinesOfEvent ==
  ASSUME NEW body, NEW events, NEW ends, NEW eol \in LineEnding,
         Carries(body, events, ends, eol),
         NEW k \in 1 .. Len(events)
  PROVE  LET ev == events[k]
             b == Begin(ends, k - 1)
             p1 == AfterEvent(b, ev, eol)
             p2 == AfterId(b, ev, eol)
             p3 == AfterData(b, ev, eol)
         IN /\ ev \in WireEvent
            /\ {b, p1, p2, p3, ends[k]} \subseteq Nat
            /\ b <= p1 /\ p1 <= p2 /\ p2 <= p3 /\ p3 <= ends[k] /\ ends[k] <= Len(body)
            /\ Piece(body, b, p1) = EventLine(ev, eol)
            /\ Piece(body, p1, p2) = IdLine(ev, eol)
            /\ Piece(body, p2, p3) = DataLine(ev, eol)
            /\ Piece(body, p3, ends[k]) = Join(<< >>, eol)
<1> DEFINE ev == events[k]
           b == Begin(ends, k - 1)
           e == ends[k]
           l1 == EventLine(ev, eol)
           l2 == IdLine(ev, eol)
           l3 == DataLine(ev, eol)
           p1 == AfterEvent(b, ev, eol)
           p2 == AfterId(b, ev, eol)
           p3 == AfterData(b, ev, eol)
<1>1. /\ body \in Seq(Fragment) /\ ev \in WireEvent /\ e \in Nat /\ b \in Nat
      /\ b <= e /\ e <= Len(body) /\ Piece(body, b, e) = Encode(ev, eol)
  <2>1. /\ body \in Seq(Fragment) /\ ev \in WireEvent /\ \A i \in 1 .. Len(events) : ends[i] \in Nat
        /\ b <= e /\ e <= Len(body) /\ Piece(body, b, e) = Encode(ev, eol)
    <3>1. k - 1 \in 0 .. k - 1
      BY DEF Carries
    <3>2. /\ \A i \in 0 .. k - 1 : Begin(ends, i) <= e
          /\ e <= Len(body) /\ Piece(body, b, e) = Encode(ev, eol)
      BY DEF Carries
    <3>3. body \in Seq(Fragment) /\ ev \in WireEvent /\ \A i \in 1 .. Len(events) : ends[i] \in Nat
      BY DEF Carries
    <3> HIDE DEF e, ev
    <3> QED
      BY <3>1, <3>2, <3>3
  <2>2. k - 1 = 0 \/ k - 1 \in 1 .. Len(events)
    BY DEF Carries
  <2> QED
    BY <2>1, <2>2 DEF Begin
<1> HIDE DEF ev, b, e
<1>2. Encode(ev, eol) = Join(Join(Join(l1, l2), l3), eol)
      /\ l1 \in Seq(Fragment) /\ l2 \in Seq(Fragment) /\ l3 \in Seq(Fragment) /\ eol \in Seq(Fragment)
  BY <1>1, EncodeLines
<1>3. p1 = b + Len(l1) /\ p2 = p1 + Len(l2) /\ p3 = p2 + Len(l3)
  BY DEF AfterEvent, AfterId, AfterData
<1> HIDE DEF l1, l2, l3, p1, p2, p3
<1>4. /\ l1 \in Seq(Fragment) /\ l2 \in Seq(Fragment) /\ l3 \in Seq(Fragment)
      /\ eol \in Seq(Fragment)
  BY <1>2
<1> DEFINE r2 == Join(l3, eol)
           r1 == Join(l2, r2)
<1>5. r2 \in Seq(Fragment) /\ r1 \in Seq(Fragment)
  BY <1>4, JoinAssociative
<1>6. Piece(body, b, e) = Join(l1, r1)
  <2>1. Join(Join(Join(l1, l2), l3), eol) = Join(l1, r1)
    BY <1>4, JoinAssociative
  <2> QED
    BY <1>1, <1>2, <2>1
<1>7. r1 = Join(l2, r2) /\ r2 = Join(l3, eol)
  OBVIOUS
<1> HIDE DEF r1, r2
<1>8. body \in Seq(Fragment) /\ b \in Nat /\ e \in Nat /\ b <= e /\ e <= Len(body)
  BY <1>1
<1>9. /\ p1 \in Nat /\ b <= p1 /\ p1 <= e
      /\ Piece(body, b, p1) = l1 /\ Piece(body, p1, e) = r1
  <2>1. /\ body \in Seq(Fragment) /\ b \in Nat /\ e \in Nat /\ b <= e /\ e <= Len(body)
        /\ l1 \in Seq(Fragment) /\ r1 \in Seq(Fragment) /\ Piece(body, b, e) = Join(l1, r1)
    BY <1>4, <1>5, <1>6, <1>8
  <2>2. \A p : p = b + Len(l1) =>
          /\ p \in Nat /\ b <= p /\ p <= e
          /\ Piece(body, b, p) = l1 /\ Piece(body, p, e) = r1
    BY <2>1, Pieces
  <2> QED
    BY <1>3, <2>2
<1>10. /\ p2 \in Nat /\ p1 <= p2 /\ p2 <= e
      /\ Piece(body, p1, p2) = l2 /\ Piece(body, p2, e) = r2
  <2>1. /\ body \in Seq(Fragment) /\ p1 \in Nat /\ e \in Nat /\ p1 <= e /\ e <= Len(body)
        /\ l2 \in Seq(Fragment) /\ r2 \in Seq(Fragment) /\ Piece(body, p1, e) = Join(l2, r2)
    BY <1>4, <1>5, <1>7, <1>8, <1>9
  <2>2. \A p : p = p1 + Len(l2) =>
          /\ p \in Nat /\ p1 <= p /\ p <= e
          /\ Piece(body, p1, p) = l2 /\ Piece(body, p, e) = r2
    BY <2>1, Pieces
  <2> QED
    BY <1>3, <2>2
<1>11. /\ p3 \in Nat /\ p2 <= p3 /\ p3 <= e
      /\ Piece(body, p2, p3) = l3 /\ Piece(body, p3, e) = eol
  <2>1. /\ body \in Seq(Fragment) /\ p2 \in Nat /\ e \in Nat /\ p2 <= e /\ e <= Len(body)
        /\ l3 \in Seq(Fragment) /\ eol \in Seq(Fragment) /\ Piece(body, p2, e) = Join(l3, eol)
    BY <1>4, <1>7, <1>8, <1>10
  <2>2. \A p : p = p2 + Len(l3) =>
          /\ p \in Nat /\ p2 <= p /\ p <= e
          /\ Piece(body, p2, p) = l3 /\ Piece(body, p, e) = eol
    BY <2>1, Pieces
  <2> QED
    BY <1>3, <2>2
<1>12. eol = Join(<< >>, eol)
  BY <1>4, ConcatEmptySeq DEF Join
<1> QED
  BY <1>1, <1>9, <1>10, <1>11, <1>12 DEF ev, b, e, l1, l2, l3, p1, p2, p3

\* What an event is while its data or all but its name is still to come.
EventOnly(ev) == [event |-> ev.event, id |-> {}, data |-> << >>]
WithoutData(ev) == [event |-> ev.event, id |-> ev.id, data |-> << >>]

\* After b bytes of the body, k events of it have been emitted and cur has
\* what the lines of the next one have brought.
At(events, ends, eol, k, b, cur) ==
  \/ b = Begin(ends, k) /\ cur = NoEvent
  \/ /\ k < Len(events)
     /\ LET ev == events[k + 1]
            begin == Begin(ends, k) IN
        \/ b = AfterEvent(begin, ev, eol) /\ cur = EventOnly(ev)
        \/ b = AfterId(begin, ev, eol) /\ cur = WithoutData(ev)
        \/ b = AfterData(begin, ev, eol) /\ cur = ev

LEMMA Records ==
  ASSUME NEW ev \in WireEvent
  PROVE  /\ NoEvent \in SseEvent /\ ev \in SseEvent /\ ev # NoEvent
         /\ EventOnly(ev) \in SseEvent
         /\ WithoutData(ev) \in SseEvent
         /\ ev = [event |-> ev.event, id |-> ev.id, data |-> ev.data]
<1>1. ev \in SseEvent /\ ev.event # {}
  BY DEF WireEvent
<1>2. << >> \in Seq(Seq(Fragment)) /\ << >> \in Seq(Fragment)
  OBVIOUS
<1>3. NoEvent \in SseEvent
  BY <1>2 DEF NoEvent, SseEvent
<1>4. /\ EventOnly(ev) \in SseEvent
      /\ WithoutData(ev) \in SseEvent
  BY <1>1, <1>2 DEF SseEvent, EventOnly, WithoutData
<1>5. ev # NoEvent
  BY <1>1 DEF NoEvent
<1>6. ev = [event |-> ev.event, id |-> ev.id, data |-> ev.data]
  BY <1>1 DEF SseEvent
<1> QED
  BY <1>1, <1>3, <1>4, <1>5, <1>6

\* The line of a field, where it begins in the body.
LEMMA DrainField ==
  ASSUME NEW body, NEW b, NEW e, NEW n, NEW q, AtLine(body, b, e, n, q),
         NEW name \in FieldNames, NEW value, Text(value), NEW eol \in LineEnding,
         Piece(body, b, e) = Field(name, value, eol), Named(q.cur, name, value) \in SseEvent
  PROVE  TurnTo(q, body, e, n, q.out, Named(q.cur, name, value))
<1>h. /\ body \in Seq(Fragment) /\ b \in Nat /\ e \in Nat /\ n \in Nat
      /\ b <= e /\ e <= Len(body) /\ b <= n /\ n <= Len(body)
      /\ q \in Parser /\ q.buf = Piece(body, b, n) /\ LineEnds(q.buf) # {}
  BY DEF AtLine
<1> DEFINE line == <<name, Colon, Space>> \o value
           r == WithBuffer(q, Piece(body, e, n))
<1>1. Text(line)
  BY FieldText
<1>2. Piece(body, b, e) = Join(line, eol)
  BY DEF Field, Join
<1>3. WithLine(r, line) = [r EXCEPT !.cur = Named(@, name, value)]
  BY LineOfField
<1> HIDE DEF line
<1>4. e <= n /\ Drain(q) = WithLine(r, line)
  BY <1>1, <1>2, DrainAt
<1>5. Piece(body, e, n) \in Seq(Fragment)
  BY <1>h, <1>4, Part DEF Piece
<1> DEFINE cur == Named(q.cur, name, value)
           bytes == Piece(body, e, n)
<1>6. Drain(q) = [r EXCEPT !.cur = cur]
  <2>1. r.cur = q.cur
    BY <1>h DEF Parser, WithBuffer
  <2> HIDE DEF r
  <2> QED
    BY <1>3, <1>4, <2>1
<1> HIDE DEF cur, bytes
<1>7. /\ Drain(q).buf = bytes /\ Drain(q).out = q.out /\ Drain(q).cur = cur
      /\ Drain(q) \in Parser
  <2>1. cur \in SseEvent
    BY DEF cur
  <2> QED
    BY <1>h, <1>5, <1>6, <2>1 DEF Parser, WithBuffer, bytes
<1> QED
  BY <1>4, <1>7 DEF TurnTo, cur, bytes

\* The empty line that ends an event.
LEMMA DrainEnd ==
  ASSUME NEW body, NEW b, NEW e, NEW n, NEW q, AtLine(body, b, e, n, q),
         NEW eol \in LineEnding, Piece(body, b, e) = Join(<< >>, eol), q.cur # NoEvent
  PROVE  TurnTo(q, body, e, n, Append(q.out, q.cur), NoEvent)
<1>h. /\ body \in Seq(Fragment) /\ b \in Nat /\ e \in Nat /\ n \in Nat
      /\ b <= e /\ e <= Len(body) /\ b <= n /\ n <= Len(body)
      /\ q \in Parser /\ q.buf = Piece(body, b, n) /\ LineEnds(q.buf) # {}
  BY DEF AtLine
<1> DEFINE line == << >>
           r == WithBuffer(q, Piece(body, e, n))
<1>1. Text(line)
  <2>1. line \in Seq(Fragment) /\ Len(line) = 0 /\ DOMAIN line = {}
    OBVIOUS
  <2> HIDE DEF line
  <2>2. \A i \in 1 .. Len(line) : FALSE
    BY <2>1
  <2>3. Lossy(line) = line
    BY <2>1, <2>2, LossyKeeps
  <2> QED
    BY <2>1, <2>3 DEF Text
<1>2. Piece(body, b, e) = Join(line, eol)
  OBVIOUS
<1> HIDE DEF line
<1>3. e <= n /\ Drain(q) = WithLine(r, line)
  BY <1>1, <1>2, DrainAt
<1>4. Piece(body, e, n) \in Seq(Fragment)
  BY <1>h, <1>3, Part DEF Piece
<1> DEFINE bytes == Piece(body, e, n)
<1> HIDE DEF bytes
<1>5. r \in Parser /\ r.buf = bytes /\ r.cur = q.cur /\ r.out = q.out
  BY <1>h, <1>4 DEF Parser, WithBuffer, bytes
<1> HIDE DEF r
<1>6. Drain(q) = [r EXCEPT !.cur = NoEvent, !.out = Append(r.out, r.cur)]
  <2>1. WithLine(r, << >>) = [r EXCEPT !.cur = NoEvent, !.out = Append(@, r.cur)]
    BY <1>5, LineEndsEvent
  <2> QED
    <3>1. Drain(q) = WithLine(r, << >>)
      BY <1>3 DEF line
    <3>2. [r EXCEPT !.cur = NoEvent, !.out = Append(@, r.cur)]
            = [r EXCEPT !.cur = NoEvent, !.out = Append(r.out, r.cur)]
      BY <1>5 DEF Parser
    <3> QED
      BY <2>1, <3>1, <3>2
<1>7. NoEvent \in SseEvent
  <2>1. << >> \in Seq(Fragment)
    OBVIOUS
  <2> QED
    BY <2>1 DEF NoEvent, SseEvent
<1>8. /\ r.out \in Seq(SseEvent) /\ r.cur \in SseEvent /\ r.buf \in Seq(Fragment)
      /\ Append(r.out, r.cur) \in Seq(SseEvent)
  BY <1>5 DEF Parser
<1> DEFINE longer == Append(r.out, r.cur)
<1> HIDE DEF longer
<1>9. /\ Drain(q).buf = bytes /\ Drain(q).out = longer
      /\ Drain(q).cur = NoEvent /\ Drain(q) \in Parser
  <2>1. longer \in Seq(SseEvent)
    BY <1>8 DEF longer
  <2>2. Drain(q) = [r EXCEPT !.cur = NoEvent, !.out = longer]
    BY <1>6 DEF longer
  <2> QED
    BY <1>5, <1>7, <2>1, <2>2 DEF Parser
<1> QED
  BY <1>3, <1>5, <1>9 DEF TurnTo, bytes, longer

\* The turns that read an event's three fields.
LEMMA TurnEvent ==
  ASSUME NEW body, NEW b, NEW e, NEW n, NEW q, AtLine(body, b, e, n, q),
         NEW ev \in WireEvent, NEW eol \in LineEnding,
         Piece(body, b, e) = EventLine(ev, eol), q.cur = NoEvent
  PROVE  TurnTo(q, body, e, n, q.out, EventOnly(ev))
<1> DEFINE name == "event"
<1>0. name \in FieldNames
  BY DEF FieldNames
<1>1. PICK v : Text(v) /\ ev.event = {v}
  BY DEF WireEvent
<1>2. Piece(body, b, e) = Field(name, v, eol)
  <2>1. (CHOOSE w \in ev.event : TRUE) = v
    BY <1>1
  <2> QED
    BY <2>1 DEF EventLine
<1>3. NoEvent \in SseEvent /\ EventOnly(ev) \in SseEvent
  BY Records DEF AtLine, Parser
<1>4. Named(q.cur, name, v) = EventOnly(ev)
  <2>1. Named(q.cur, name, v) = [event |-> {v}, id |-> q.cur.id, data |-> q.cur.data]
    BY <1>3, Fields
  <2>2. q.cur.id = {} /\ q.cur.data = << >>
    BY DEF NoEvent
  <2> QED
    BY <1>1, <2>1, <2>2 DEF EventOnly
<1> HIDE DEF name
<1>5. TurnTo(q, body, e, n, q.out, Named(q.cur, name, v))
  <2>1. Text(v)
    BY <1>1
  <2>2. Named(q.cur, name, v) \in SseEvent
    BY <1>3, <1>4
  <2> QED
    BY <1>0, <1>2, <2>1, <2>2, DrainField
<1> QED
  BY <1>4, <1>5

LEMMA TurnId ==
  ASSUME NEW body, NEW b, NEW e, NEW n, NEW q, AtLine(body, b, e, n, q),
         NEW ev \in WireEvent, NEW eol \in LineEnding, ev.id # {},
         Piece(body, b, e) = IdLine(ev, eol), q.cur = EventOnly(ev)
  PROVE  TurnTo(q, body, e, n, q.out, WithoutData(ev))
<1> DEFINE name == "id"
<1>0. name \in FieldNames
  BY DEF FieldNames
<1>1. PICK v : Text(v) /\ ev.id = {v}
  BY DEF WireEvent
<1>2. Piece(body, b, e) = Field(name, v, eol)
  <2>1. (CHOOSE w \in ev.id : TRUE) = v
    BY <1>1
  <2> QED
    BY <2>1 DEF IdLine
<1>3. q.cur \in SseEvent /\ WithoutData(ev) \in SseEvent
  BY Records DEF AtLine, Parser
<1>4. Named(q.cur, name, v) = WithoutData(ev)
  <2>1. Named(q.cur, name, v) = [event |-> q.cur.event, id |-> {v}, data |-> q.cur.data]
    BY <1>3, Fields
  <2>2. q.cur.event = ev.event /\ q.cur.data = << >>
    BY DEF EventOnly
  <2> QED
    BY <1>1, <2>1, <2>2 DEF WithoutData
<1> HIDE DEF name
<1>5. TurnTo(q, body, e, n, q.out, Named(q.cur, name, v))
  <2>1. Text(v)
    BY <1>1
  <2>2. Named(q.cur, name, v) \in SseEvent
    BY <1>3, <1>4
  <2> QED
    BY <1>0, <1>2, <2>1, <2>2, DrainField
<1> QED
  BY <1>4, <1>5

LEMMA TurnData ==
  ASSUME NEW body, NEW b, NEW e, NEW n, NEW q, AtLine(body, b, e, n, q),
         NEW ev \in WireEvent, NEW eol \in LineEnding,
         Piece(body, b, e) = DataLine(ev, eol), q.cur = WithoutData(ev)
  PROVE  TurnTo(q, body, e, n, q.out, ev)
<1> DEFINE name == "data"
<1>0. name \in FieldNames
  BY DEF FieldNames
<1>1. Text(ev.data)
  BY DEF WireEvent
<1>2. Piece(body, b, e) = Field(name, ev.data, eol)
  BY DEF DataLine
<1>3. q.cur \in SseEvent /\ ev \in SseEvent /\ ev = [event |-> ev.event, id |-> ev.id, data |-> ev.data]
  BY Records DEF AtLine, Parser
<1>4. Named(q.cur, name, ev.data) = ev
  <2>1. q.cur.event = ev.event /\ q.cur.id = ev.id /\ q.cur.data = << >>
    BY DEF WithoutData
  <2>2. Named(q.cur, name, ev.data) = [event |-> q.cur.event, id |-> q.cur.id, data |-> ev.data]
    BY <1>3, <2>1, Fields
  <2> QED
    BY <1>3, <2>1, <2>2
<1> HIDE DEF name
<1>5. TurnTo(q, body, e, n, q.out, Named(q.cur, name, ev.data))
  <2>1. Text(ev.data)
    BY <1>1
  <2>2. Named(q.cur, name, ev.data) \in SseEvent
    BY <1>3, <1>4
  <2> QED
    BY <1>0, <1>2, <2>1, <2>2, DrainField
<1> QED
  BY <1>4, <1>5

------------------------------------------------------------------------------
(***************************************************************************)
(* The loop.                                                               *)
(***************************************************************************)
LEMMA NothingLeft ==
  ASSUME NEW body \in Seq(Fragment), NEW n \in Nat, n <= Len(body)
  PROVE  LineEnds(Piece(body, n, n)) = {}
<1> DEFINE x == Piece(body, n, n)
<1>1. x \in Seq(Fragment) /\ Len(x) = 0
  BY Part DEF Piece
<1> HIDE DEF x
<1>2. DOMAIN x = {}
  BY <1>1
<1>3. LineEnds(x) = {}
  BY <1>2 DEF LineEnds
<1> QED
  BY <1>3 DEF x

LEMMA OneMore ==
  ASSUME NEW S, NEW s \in Seq(S), NEW j \in Nat, NEW k \in Nat, j <= k, k + 1 <= Len(s)
  PROVE  Append(Piece(s, j, k), s[k + 1]) = Piece(s, j, k + 1)
<1> DEFINE x == Piece(s, j, k)
           y == Piece(s, j, k + 1)
           z == Append(x, s[k + 1])
<1>1. x \in Seq(S) /\ Len(x) = k - j /\ \A i \in 1 .. k - j : x[i] = s[j + i]
  BY Part DEF Piece
<1>2. y \in Seq(S) /\ Len(y) = k + 1 - j /\ \A i \in 1 .. k + 1 - j : y[i] = s[j + i]
  <2> DEFINE m == k + 1
  <2>1. m \in Nat /\ j <= m /\ m <= Len(s)
    OBVIOUS
  <2> HIDE DEF m
  <2>2. /\ Piece(s, j, m) \in Seq(S) /\ Len(Piece(s, j, m)) = m - j
        /\ \A i \in 1 .. m - j : Piece(s, j, m)[i] = s[j + i]
    BY <2>1, Part DEF Piece
  <2> QED
    BY <2>2 DEF m
<1> HIDE DEF x, y
<1>3. s[k + 1] \in S
  OBVIOUS
<1>4. /\ z \in Seq(S) /\ Len(z) = k - j + 1 /\ z[k - j + 1] = s[k + 1]
      /\ \A i \in 1 .. k - j : z[i] = x[i]
  <2> DEFINE a == s[k + 1]
             l == k - j
  <2>1. a \in S /\ l \in Nat /\ Len(x) = l
    BY <1>1, <1>3
  <2> HIDE DEF a, l
  <2>2. /\ Append(x, a) \in Seq(S) /\ Len(Append(x, a)) = l + 1 /\ Append(x, a)[l + 1] = a
        /\ \A i \in 1 .. l : Append(x, a)[i] = x[i]
    BY <1>1, <2>1
  <2> QED
    BY <2>2 DEF a, l
<1> HIDE DEF z
<1>5. Len(z) = Len(y)
  BY <1>2, <1>4
<1>6. ASSUME NEW i \in 1 .. Len(y)
      PROVE  z[i] = y[i]
  <2>1. CASE i <= k - j
    BY <1>1, <1>2, <1>4, <2>1
  <2>2. CASE i = k - j + 1
    <3>1. j + i = k + 1 /\ i \in 1 .. k + 1 - j
      BY <2>2
    <3> QED
      BY <1>2, <1>4, <2>2, <3>1
  <2>3. i <= k - j \/ i = k - j + 1
    BY <1>2
  <2> QED
    BY <2>1, <2>2, <2>3
<1>7. z = y
  BY <1>2, <1>4, <1>5, <1>6, SeqEqual
<1> QED
  BY <1>7 DEF x, y, z

\* Parsers that have read the first n bytes but for what is in the buffer, and
\* in this call have emitted the events after the first j.
Reading(body, events, ends, eol, n, j) ==
  {q \in Parser : \E k \in j .. Len(events), b \in 0 .. n :
     /\ q.buf = Piece(body, b, n) /\ q.out = Piece(events, j, k)
     /\ At(events, ends, eol, k, b, q.cur)}

LEMMA TurnReads ==
  ASSUME NEW body, NEW events, NEW ends, NEW eol \in LineEnding,
         Carries(body, events, ends, eol),
         NEW n \in 0 .. Len(body), NEW j \in 0 .. Len(events),
         NEW q \in Reading(body, events, ends, eol, n, j)
  PROVE  Drain(q) \in Reading(body, events, ends, eol, n, j)
<1>0. /\ body \in Seq(Fragment) /\ Len(body) \in Nat /\ events \in Seq(WireEvent) /\ Len(events) \in Nat
      /\ n \in Nat /\ n <= Len(body) /\ j \in Nat /\ j <= Len(events)
      /\ Begin(ends, Len(events)) = Len(body)
  BY DEF Carries
<1>1. CASE LineEnds(q.buf) = {}
  BY <1>1 DEF Drain
<1>2. CASE LineEnds(q.buf) # {}
  <2>1. PICK k \in j .. Len(events), b \in 0 .. n :
          /\ q.buf = Piece(body, b, n) /\ q.out = Piece(events, j, k)
          /\ At(events, ends, eol, k, b, q.cur)
    BY DEF Reading
  <2>2. /\ q \in Parser /\ k \in Nat /\ j <= k /\ k <= Len(events)
        /\ b \in Nat /\ b <= n
    BY <1>0, <2>1 DEF Reading
  <2>h. /\ body \in Seq(Fragment) /\ b \in Nat /\ n \in Nat /\ b <= n /\ n <= Len(body)
        /\ q \in Parser /\ q.buf = Piece(body, b, n) /\ LineEnds(q.buf) # {}
    BY <1>0, <1>2, <2>1, <2>2
  <2>3. k < Len(events)
    <3>1. ASSUME k = Len(events)
          PROVE  FALSE
      <4>1. b = Len(body)
        BY <1>0, <2>1, <2>2, <3>1 DEF At
      <4>2. b = n
        BY <1>0, <2>2, <4>1
      <4> QED
        BY <1>0, <1>2, <2>1, <4>2, NothingLeft
    <3> QED
      BY <1>0, <2>2, <3>1
  <2> DEFINE ev == events[k + 1]
             begin == Begin(ends, k)
             p1 == AfterEvent(begin, ev, eol)
             p2 == AfterId(begin, ev, eol)
             p3 == AfterData(begin, ev, eol)
             e == ends[k + 1]
  <2>4. /\ ev \in WireEvent
        /\ {begin, p1, p2, p3, e} \subseteq Nat
        /\ begin <= p1 /\ p1 <= p2 /\ p2 <= p3 /\ p3 <= e /\ e <= Len(body)
        /\ Piece(body, begin, p1) = EventLine(ev, eol)
        /\ Piece(body, p1, p2) = IdLine(ev, eol)
        /\ Piece(body, p2, p3) = DataLine(ev, eol)
        /\ Piece(body, p3, e) = Join(<< >>, eol)
    <3>1. k + 1 \in 1 .. Len(events) /\ (k + 1) - 1 = k
      BY <1>0, <2>2, <2>3
    <3> QED
      BY <3>1, LinesOfEvent
  <2>5. \/ b = begin /\ q.cur = NoEvent
        \/ b = p1 /\ q.cur = EventOnly(ev)
        \/ b = p2 /\ q.cur = WithoutData(ev)
        \/ b = p3 /\ q.cur = ev
    BY <2>1 DEF At
  <2>6. /\ At(events, ends, eol, k, p1, EventOnly(ev))
        /\ At(events, ends, eol, k, p2, WithoutData(ev))
        /\ At(events, ends, eol, k, p3, ev)
    BY <2>3 DEF At
  <2>7. At(events, ends, eol, k + 1, e, NoEvent)
    <3>1. k + 1 # 0
      BY <2>2
    <3> QED
      BY <3>1 DEF At, Begin
  <2>8. Append(q.out, ev) = Piece(events, j, k + 1)
    <3>1. k + 1 <= Len(events)
      BY <1>0, <2>2, <2>3
    <3> QED
      BY <1>0, <2>1, <2>2, <3>1, OneMore
  <2> HIDE DEF ev, begin, p1, p2, p3, e
  <2>9. ASSUME NEW c \in Nat, c <= n, NEW m \in j .. Len(events), NEW r \in Parser,
               r.buf = Piece(body, c, n), r.out = Piece(events, j, m),
               At(events, ends, eol, m, c, r.cur)
        PROVE  r \in Reading(body, events, ends, eol, n, j)
    <3>1. c \in 0 .. n
      BY <1>0, <2>9
    <3> QED
      BY <2>9, <3>1 DEF Reading
  <2>10. CASE b = begin /\ q.cur = NoEvent
    <3>1. TurnTo(q, body, p1, n, q.out, EventOnly(ev))
      <4>1. Piece(body, b, p1) = EventLine(ev, eol) /\ q.cur = NoEvent
        BY <2>1, <2>4, <2>10
      <4>2. AtLine(body, b, p1, n, q) /\ ev \in WireEvent
        BY <2>h, <2>4, <2>10 DEF AtLine
      <4> QED
        BY <4>1, <4>2, TurnEvent
    <3> QED
      BY <2>1, <2>4, <2>6, <2>9, <3>1 DEF TurnTo
  <2>11. CASE b = p2 /\ q.cur = WithoutData(ev)
    <3>1. TurnTo(q, body, p3, n, q.out, ev)
      <4>1. Piece(body, b, p3) = DataLine(ev, eol)
            /\ q.cur = WithoutData(ev)
        BY <2>1, <2>4, <2>11
      <4>2. AtLine(body, b, p3, n, q) /\ ev \in WireEvent
        BY <2>h, <2>4, <2>11 DEF AtLine
      <4> QED
        BY <4>1, <4>2, TurnData
    <3> QED
      BY <2>1, <2>4, <2>6, <2>9, <3>1 DEF TurnTo
  <2>12. CASE b = p1 /\ q.cur = EventOnly(ev)
    <3>1. CASE ev.id = {}
      <4>1. p2 = p1
        <5>1. IdLine(ev, eol) = << >>
          BY <3>1 DEF IdLine
        <5> QED
          BY <2>4, <5>1 DEF p1, p2, AfterId
      <4> QED
        BY <2>11, <2>12, <3>1, <4>1 DEF EventOnly, WithoutData
    <3>2. CASE ev.id # {}
      <4>1. TurnTo(q, body, p2, n, q.out, WithoutData(ev))
        <5>1. Piece(body, b, p2) = IdLine(ev, eol)
              /\ q.cur = EventOnly(ev)
          BY <2>1, <2>4, <2>12
        <5>2. AtLine(body, b, p2, n, q) /\ ev \in WireEvent
          BY <2>h, <2>4, <2>12 DEF AtLine
        <5> QED
          BY <3>2, <5>1, <5>2, TurnId
      <4> QED
        BY <2>1, <2>4, <2>6, <2>9, <4>1 DEF TurnTo
    <3> QED
      BY <3>1, <3>2
  <2>13. CASE b = p3 /\ q.cur = ev
    <3>1. TurnTo(q, body, e, n, Append(q.out, q.cur), NoEvent)
      <4>1. Piece(body, b, e) = Join(<< >>, eol)
        BY <2>1, <2>4, <2>13
      <4>2. AtLine(body, b, e, n, q)
        BY <2>h, <2>4, <2>13 DEF AtLine
      <4>3. q.cur # NoEvent
        BY <2>4, <2>13, Records
      <4> QED
        BY <4>1, <4>2, <4>3, DrainEnd
    <3>2. Drain(q).out = Piece(events, j, k + 1)
      BY <2>8, <2>13, <3>1 DEF TurnTo
    <3>3. k + 1 \in j .. Len(events)
      BY <1>0, <2>2, <2>3
    <3> QED
      BY <2>4, <2>7, <2>9, <3>1, <3>2, <3>3 DEF TurnTo
  <2> QED
    BY <2>5, <2>10, <2>11, <2>12, <2>13
<1> QED
  BY <1>1, <1>2

LEMMA PartsMeet ==
  ASSUME NEW S, NEW s \in Seq(S), NEW a \in Nat, NEW b \in Nat, NEW c \in Nat,
         a <= b, b <= c, c <= Len(s)
  PROVE  Join(Piece(s, a, b), Piece(s, b, c)) = Piece(s, a, c)
<1> DEFINE x == Piece(s, a, b)
           y == Piece(s, b, c)
           z == Piece(s, a, c)
<1>1. x \in Seq(S) /\ Len(x) = b - a /\ \A i \in 1 .. b - a : x[i] = s[a + i]
  BY Part DEF Piece
<1>2. y \in Seq(S) /\ Len(y) = c - b /\ \A i \in 1 .. c - b : y[i] = s[b + i]
  BY Part DEF Piece
<1>3. z \in Seq(S) /\ Len(z) = c - a /\ \A i \in 1 .. c - a : z[i] = s[a + i]
  BY Part DEF Piece
<1> HIDE DEF x, y, z
<1>4. /\ x \o y \in Seq(S) /\ Len(x \o y) = Len(x) + Len(y)
      /\ \A i \in 1 .. Len(x) : (x \o y)[i] = x[i]
      /\ \A i \in 1 .. Len(y) : (x \o y)[Len(x) + i] = y[i]
  <2>1. x \in Seq(S) /\ y \in Seq(S)
    BY <1>1, <1>2
  <2> QED
    BY <2>1, Concat
<1> DEFINE w == x \o y
<1>5. /\ w \in Seq(S) /\ Len(w) = c - a
      /\ \A i \in 1 .. b - a : w[i] = x[i]
      /\ \A i \in 1 .. c - b : w[(b - a) + i] = y[i]
  <2>1. Len(x) = b - a /\ Len(y) = c - b /\ (b - a) + (c - b) = c - a
    BY <1>1, <1>2
  <2> HIDE DEF w
  <2>2. /\ w \in Seq(S) /\ Len(w) = Len(x) + Len(y)
        /\ \A i \in 1 .. Len(x) : w[i] = x[i]
        /\ \A i \in 1 .. Len(y) : w[Len(x) + i] = y[i]
    BY <1>4 DEF w
  <2> QED
    BY <2>1, <2>2
<1> HIDE DEF w
<1>6. ASSUME NEW i \in 1 .. c - a
      PROVE  w[i] = z[i]
  <2>1. CASE i <= b - a
    <3>1. i \in 1 .. b - a
      BY <2>1
    <3> QED
      BY <1>1, <1>3, <1>5, <3>1
  <2>2. CASE ~(i <= b - a)
    <3> DEFINE d == i - (b - a)
    <3>1. d \in 1 .. c - b /\ (b - a) + d = i /\ b + d = a + i
      BY <2>2
    <3> HIDE DEF d
    <3>2. w[i] = y[d] /\ y[d] = s[b + d]
      BY <1>2, <1>5, <3>1
    <3> QED
      BY <1>3, <3>1, <3>2
  <2> QED
    BY <2>1, <2>2
<1>7. w = z
  BY <1>3, <1>5, <1>6, SeqEqual
<1> QED
  BY <1>7 DEF w, x, y, z, Join

\* What is appended leaves what was there.
LEMMA LongerPart ==
  ASSUME NEW S, NEW s \in Seq(S), NEW t \in Seq(S)
  PROVE  /\ Join(s, t) \in Seq(S) /\ Len(s) \in Nat /\ Len(Join(s, t)) \in Nat
         /\ Len(s) <= Len(Join(s, t))
         /\ \A a, b \in Nat : a <= b /\ b <= Len(s) => Piece(Join(s, t), a, b) = Piece(s, a, b)
         /\ Piece(Join(s, t), Len(s), Len(Join(s, t))) = t
<1> DEFINE w == s \o t
           n == Len(s)
           m == Len(t)
<1>1. /\ w \in Seq(S) /\ n \in Nat /\ m \in Nat /\ Len(w) = n + m
      /\ \A i \in 1 .. n : w[i] = s[i]
      /\ \A i \in 1 .. m : w[n + i] = t[i]
  BY Concat
<1> HIDE DEF w
<1>2. ASSUME NEW a \in Nat, NEW b \in Nat, a <= b, b <= n
      PROVE  Piece(w, a, b) = Piece(s, a, b)
  <2> DEFINE x == Piece(w, a, b)
             y == Piece(s, a, b)
  <2>1. x \in Seq(S) /\ Len(x) = b - a /\ \A i \in 1 .. b - a : x[i] = w[a + i]
    <3>1. b <= Len(w)
      BY <1>1, <1>2
    <3> QED
      BY <1>1, <1>2, <3>1, Part DEF Piece
  <2>2. y \in Seq(S) /\ Len(y) = b - a /\ \A i \in 1 .. b - a : y[i] = s[a + i]
    BY <1>2, Part DEF Piece
  <2> HIDE DEF x, y, n
  <2>3. \A i \in 1 .. b - a : x[i] = y[i]
    <3>1. \A i \in 1 .. b - a : a + i \in 1 .. n
      BY <1>1, <1>2
    <3> QED
      BY <1>1, <2>1, <2>2, <3>1
  <2>4. x = y
    BY <2>1, <2>2, <2>3, SeqEqual
  <2> QED
    BY <2>4 DEF x, y
<1>3. Piece(w, n, n + m) = t
  <2> DEFINE x == Piece(w, n, n + m)
  <2>1. x \in Seq(S) /\ Len(x) = m /\ \A i \in 1 .. m : x[i] = w[n + i]
    <3> DEFINE l == n + m
    <3>1. l \in Nat /\ n <= l /\ l <= Len(w) /\ l - n = m
      BY <1>1
    <3> HIDE DEF l, n, m
    <3>2. /\ Piece(w, n, l) \in Seq(S) /\ Len(Piece(w, n, l)) = l - n
          /\ \A i \in 1 .. l - n : Piece(w, n, l)[i] = w[n + i]
      BY <1>1, <3>1, Part DEF Piece
    <3> QED
      BY <3>1, <3>2 DEF l
  <2> HIDE DEF x
  <2>2. x = t
    BY <1>1, <2>1, SeqEqual
  <2> QED
    BY <2>2 DEF x
<1>4. n <= n + m
  BY <1>1
<1>5. Join(s, t) = w
  BY DEF w, Join
<1> HIDE DEF n
<1>6. /\ w \in Seq(S) /\ n \in Nat /\ Len(w) \in Nat /\ n <= Len(w)
      /\ \A a, b \in Nat : a <= b /\ b <= n => Piece(w, a, b) = Piece(s, a, b)
      /\ Piece(w, n, Len(w)) = t
  BY <1>1, <1>2, <1>3, <1>4
<1> QED
  BY <1>5, <1>6 DEF n

LEMMA WiderSeq ==
  ASSUME NEW S, NEW T, S \subseteq T, NEW s \in Seq(S)
  PROVE  s \in Seq(T)
OBVIOUS

LEMMA FromFront ==
  ASSUME NEW S, NEW s \in Seq(S), NEW t \in Seq(S), t # << >>
  PROVE  /\ Join(Append(s, Head(t)), Tail(t)) = Join(s, t)
         /\ Append(s, Head(t)) \in Seq(S) /\ Tail(t) \in Seq(S)
<1> DEFINE x == Head(t)
           r == Tail(t)
           n == Len(t)
           one == <<x>>
           u == one \o r
<1>1. n \in Nat \ {0} /\ x = t[1]
  BY EmptySeq
<1>2. /\ x \in S /\ r \in Seq(S) /\ Len(r) = n - 1
      /\ \A i \in 1 .. n - 1 : r[i] = t[i + 1]
  BY HeadTailProperties
<1> HIDE DEF x, r, n
<1>3. one \in Seq(S) /\ Len(one) = 1 /\ one[1] = x
  BY <1>2
<1> HIDE DEF one
<1>4. /\ u \in Seq(S) /\ Len(u) = Len(one) + Len(r)
      /\ \A i \in 1 .. Len(one) : u[i] = one[i]
      /\ \A i \in 1 .. Len(r) : u[Len(one) + i] = r[i]
  <2>1. one \in Seq(S) /\ r \in Seq(S)
    BY <1>2, <1>3
  <2> QED
    BY <2>1, Concat
<1> HIDE DEF u
<1>5. Len(u) = n /\ u[1] = x /\ \A i \in 1 .. n - 1 : u[1 + i] = r[i]
  BY <1>1, <1>2, <1>3, <1>4
<1>6. ASSUME NEW i \in 1 .. n
      PROVE  u[i] = t[i]
  <2>1. CASE i = 1
    BY <1>1, <1>5, <2>1
  <2>2. CASE i # 1
    <3> DEFINE j == i - 1
    <3>1. j \in 1 .. n - 1 /\ 1 + j = i /\ j + 1 = i
      BY <1>1, <2>2
    <3> HIDE DEF j
    <3>2. u[1 + j] = r[j] /\ r[j] = t[j + 1]
      BY <1>2, <1>5, <3>1
    <3> QED
      BY <3>1, <3>2
  <2> QED
    BY <2>1, <2>2
<1>7. u = t
  BY <1>4, <1>5, <1>6, SeqEqual DEF n
<1>8. Append(s, x) = s \o one /\ s \o one \in Seq(S)
  BY <1>2, <1>3, AppendIsConcat, ConcatProperties DEF one
<1>9. (s \o one) \o r = s \o (one \o r)
  <2>1. one \in Seq(S) /\ r \in Seq(S)
    BY <1>2, <1>3
  <2> QED
    BY <2>1, ConcatAssociative
<1>10. Append(s, x) \o r = s \o t /\ Append(s, x) \in Seq(S)
  BY <1>7, <1>8, <1>9 DEF u
<1> QED
  BY <1>2, <1>10 DEF Join, x, r

LEMMA FrontStays ==
  ASSUME NEW S, NEW s \in Seq(S), NEW x \in S, NEW k \in Nat, k <= Len(s)
  PROVE  Piece(Append(s, x), 0, k) = Piece(s, 0, k)
<1> DEFINE one == <<x>>
<1>1. one \in Seq(S)
  OBVIOUS
<1>2. Append(s, x) = Join(s, one)
  BY AppendIsConcat DEF Join
<1> HIDE DEF one
<1>3. \A a, b \in Nat : a <= b /\ b <= Len(s) => Piece(Join(s, one), a, b) = Piece(s, a, b)
  BY <1>1, LongerPart
<1>4. 0 <= k
  OBVIOUS
<1>5. Piece(Join(s, one), 0, k) = Piece(s, 0, k)
  BY <1>3, <1>4
<1> QED
  BY <1>2, <1>5

\* The parser has read the first n bytes of the body, complete lines of it and
\* an unfinished one, and k events are out.
HasRead(body, events, ends, eol, n, k, p) ==
  /\ p \in Parser /\ LineEnds(p.buf) = {}
  /\ k \in 0 .. Len(events)
  /\ \E b \in 0 .. n : p.buf = Piece(body, b, n) /\ At(events, ends, eol, k, b, p.cur)

(***************************************************************************)
(* feed on the next chunk, wherever the last one ended (sse.rs:38-80): the *)
(* parser that has read n bytes and emitted j events has read m bytes then *)
(* and returns the next events, unchanged and in order.                    *)
(***************************************************************************)
THEOREM ReadsOn ==
  ASSUME NEW body, NEW events, NEW ends, NEW eol \in LineEnding,
         Carries(body, events, ends, eol),
         NEW n \in 0 .. Len(body), NEW m \in n .. Len(body),
         NEW j, NEW p, HasRead(body, events, ends, eol, n, j, p)
  PROVE  LET q == Feed(p, Piece(body, n, m)) IN
         \E k \in j .. Len(events) :
           HasRead(body, events, ends, eol, m, k, q) /\ q.out = Piece(events, j, k)
<1>0. /\ body \in Seq(Fragment) /\ Len(body) \in Nat /\ events \in Seq(WireEvent) /\ Len(events) \in Nat
      /\ n \in Nat /\ m \in Nat /\ n <= m /\ m <= Len(body)
  BY DEF Carries
<1>1. PICK b \in 0 .. n : p.buf = Piece(body, b, n) /\ At(events, ends, eol, j, b, p.cur)
  BY DEF HasRead
<1>2. p \in Parser /\ j \in Nat /\ j <= Len(events) /\ b \in Nat /\ b <= n
  BY <1>0, <1>1 DEF HasRead
<1> DEFINE I == Reading(body, events, ends, eol, m, j)
           chunk == Piece(body, n, m)
           start == [p EXCEPT !.buf = @ \o chunk, !.out = << >>]
           bytes == Piece(body, b, m)
<1>3. bytes \in Seq(Fragment)
  BY <1>0, <1>2, Part DEF Piece
<1>4. p.buf \o chunk = bytes
  <2>1. Join(Piece(body, b, n), Piece(body, n, m)) = Piece(body, b, m)
    BY <1>0, <1>2, PartsMeet
  <2> QED
    BY <1>1, <2>1 DEF Join
<1>5. Piece(events, j, j) = << >>
  <2>1. Piece(events, j, j) \in Seq(WireEvent) /\ Len(Piece(events, j, j)) = 0
    <3>1. /\ Piece(events, j, j) \in Seq(WireEvent) /\ Len(Piece(events, j, j)) = j - j
      BY <1>0, <1>2, Part DEF Piece
    <3> QED
      BY <1>2, <3>1
  <2> QED
    BY <2>1
<1> HIDE DEF bytes, chunk
<1>6. start \in Parser /\ start.buf = bytes /\ start.out = << >> /\ start.cur = p.cur
  <2>1. p.cur \in SseEvent /\ << >> \in Seq(SseEvent)
    BY <1>2 DEF Parser
  <2> DEFINE joined == p.buf \o chunk
  <2>2. start = [buf |-> joined, cur |-> p.cur, out |-> << >>]
    <3> HIDE DEF joined
    <3>1. start = [p EXCEPT !.buf = joined, !.out = << >>]
      BY DEF joined
    <3>2. p = [buf |-> p.buf, cur |-> p.cur, out |-> p.out]
      BY <1>2 DEF Parser
    <3> HIDE DEF start
    <3> QED
      BY <3>1, <3>2
  <2>3. joined = bytes
    BY <1>4
  <2> HIDE DEF joined, start
  <2> QED
    BY <1>3, <2>1, <2>2, <2>3 DEF Parser
<1> HIDE DEF start
<1>7. start \in I
  <2>1. b \in 0 .. m /\ j \in j .. Len(events)
    BY <1>0, <1>2
  <2> QED
    BY <1>1, <1>5, <1>6, <2>1 DEF Reading, bytes
<1>8. I \in SUBSET Parser /\ \A q \in I : Drain(q) \in I
  <2>1. m \in 0 .. Len(body) /\ j \in 0 .. Len(events)
    BY <1>0, <1>2
  <2>2. \A q \in I : Drain(q) \in I
    BY <2>1, TurnReads
  <2> QED
    BY <2>2 DEF Reading
<1>9. Fed(start) \in I /\ LineEnds(Fed(start).buf) = {}
  <2> HIDE DEF I
  <2> QED
    BY <1>7, <1>8, LoopInvariant
<1>10. Feed(p, chunk) = Fed(start)
  BY DEF Feed, start
<1> DEFINE q == Fed(start)
<1> HIDE DEF q
<1>11. q \in I /\ LineEnds(q.buf) = {} /\ Feed(p, chunk) = q
  BY <1>9, <1>10 DEF q
<1>12. PICK k \in j .. Len(events), c \in 0 .. m :
         /\ q.buf = Piece(body, c, m) /\ q.out = Piece(events, j, k)
         /\ At(events, ends, eol, k, c, q.cur)
  BY <1>11 DEF Reading
<1>13. q \in Parser /\ k \in 0 .. Len(events)
  BY <1>0, <1>2, <1>11, <1>12 DEF Reading
<1>14. HasRead(body, events, ends, eol, m, k, q)
  BY <1>11, <1>12, <1>13 DEF HasRead
<1> QED
  BY <1>11, <1>12, <1>14 DEF chunk

(***************************************************************************)
(* What is out is what has arrived: an event leaves the parser in the call *)
(* that brings its last byte, not before it and not with the event after   *)
(* it (sse.rs:41-58).                                                      *)
(***************************************************************************)
THEOREM OutIsArrived ==
  ASSUME NEW body, NEW events, NEW ends, NEW eol \in LineEnding,
         Carries(body, events, ends, eol),
         NEW n \in 0 .. Len(body), NEW k, NEW p, HasRead(body, events, ends, eol, n, k, p)
  PROVE  \A i \in 1 .. Len(events) : ends[i] <= n <=> i <= k
<1>0. /\ body \in Seq(Fragment) /\ Len(body) \in Nat /\ Len(events) \in Nat
      /\ n \in Nat /\ n <= Len(body) /\ k \in Nat /\ k <= Len(events)
      /\ \A i \in 1 .. Len(events) : ends[i] \in Nat
      /\ \A i, j \in 1 .. Len(events) : i < j => ends[i] <= ends[j]
  <2>1. ASSUME NEW i \in 1 .. Len(events), NEW j \in 1 .. Len(events), i < j
        PROVE  ends[i] <= ends[j]
    <3>1. i \in 0 .. j - 1 /\ i # 0
      BY <2>1 DEF Carries
    <3>2. \A l \in 0 .. j - 1 : Begin(ends, l) <= ends[j]
      BY DEF Carries
    <3> QED
      BY <3>1, <3>2 DEF Begin
  <2>2. /\ body \in Seq(Fragment) /\ Len(body) \in Nat /\ Len(events) \in Nat
        /\ \A i \in 1 .. Len(events) : ends[i] \in Nat
    BY DEF Carries
  <2>3. k \in 0 .. Len(events)
    BY DEF HasRead
  <2> QED
    BY <2>1, <2>2, <2>3
<1>1. PICK b \in 0 .. n : p.buf = Piece(body, b, n) /\ At(events, ends, eol, k, b, p.cur)
  BY DEF HasRead
<1>b. b \in Nat /\ b <= n /\ LineEnds(p.buf) = {}
  BY <1>0, <1>1 DEF HasRead
<1> DEFINE ev == events[k + 1]
           begin == Begin(ends, k)
           p1 == AfterEvent(begin, ev, eol)
           p2 == AfterId(begin, ev, eol)
           p3 == AfterData(begin, ev, eol)
           e == ends[k + 1]
<1>2. ASSUME k < Len(events)
      PROVE  /\ {begin, p1, p2, p3, e} \subseteq Nat
             /\ begin <= p1 /\ p1 <= p2 /\ p2 <= p3 /\ p3 <= e /\ e <= Len(body)
             /\ Piece(body, p3, e) = Join(<< >>, eol)
  <2>1. k + 1 \in 1 .. Len(events) /\ (k + 1) - 1 = k
    BY <1>0, <1>2
  <2> QED
    BY <2>1, LinesOfEvent
<1>3. begin <= b
  <2>1. CASE b = begin
    BY <1>b, <2>1
  <2>2. CASE k < Len(events) /\ b \in {p1, p2, p3}
    <3> HIDE DEF begin, p1, p2, p3, e
    <3> QED
      BY <1>2, <2>2
  <2> QED
    BY <1>1, <2>1, <2>2 DEF At
<1>4. ASSUME k < Len(events)
      PROVE  b <= p3
  <2>1. b \in {begin, p1, p2, p3}
    BY <1>1 DEF At
  <2> HIDE DEF begin, p1, p2, p3, e
  <2> QED
    BY <1>2, <1>4, <2>1
<1>5. ASSUME k < Len(events)
      PROVE  n < e
  <2>h. /\ {begin, p1, p2, p3, e} \subseteq Nat
        /\ p3 <= e /\ e <= Len(body) /\ Piece(body, p3, e) = Join(<< >>, eol)
        /\ b <= p3
    BY <1>2, <1>4, <1>5
  <2> HIDE DEF begin, p1, p2, p3, e
  <2>1. p3 < e /\ body[e] = LF
    <3> DEFINE x == Piece(body, p3, e)
    <3>1. x = eol
      <4>1. eol \in Seq(Fragment)
        BY LineEndingIs
      <4> QED
        BY <2>h, <4>1, ConcatEmptySeq DEF Join
    <3>2. Len(x) = e - p3 /\ \A i \in 1 .. e - p3 : x[i] = body[p3 + i]
      <4>1. body \in Seq(Fragment) /\ p3 \in Nat /\ e \in Nat /\ p3 <= e /\ e <= Len(body)
        BY <1>0, <2>h
      <4> QED
        BY <4>1, Part DEF Piece
    <3>3. Len(eol) \in Nat \ {0} /\ eol[Len(eol)] = LF
      BY LineEndingIs
    <3> HIDE DEF x
    <3>4. Len(x) \in Nat \ {0} /\ x[Len(x)] = LF
      BY <3>1, <3>3
    <3>5. e - p3 \in 1 .. e - p3 /\ p3 + (e - p3) = e /\ p3 < e
      BY <2>h, <3>2, <3>4
    <3> QED
      BY <3>2, <3>4, <3>5
  <2>2. ASSUME e <= n
        PROVE  FALSE
    <3> DEFINE x == Piece(body, b, n)
               i == e - b
    <3>1. x \in Seq(Fragment) /\ Len(x) = n - b /\ \A l \in 1 .. n - b : x[l] = body[b + l]
      <4>1. body \in Seq(Fragment) /\ b <= n /\ n \in Nat /\ b \in Nat /\ n <= Len(body)
        BY <1>0, <1>b
      <4> QED
        BY <4>1, Part DEF Piece
    <3>2. i \in 1 .. n - b /\ b + i = e
      BY <1>0, <1>b, <2>h, <2>1, <2>2
    <3> HIDE DEF x, i
    <3>3. i \in DOMAIN x /\ x[i] = LF
      BY <2>1, <3>1, <3>2
    <3>4. i \in LineEnds(x)
      BY <3>3 DEF LineEnds
    <3> QED
      BY <1>1, <1>b, <3>4 DEF x
  <2> QED
    BY <1>0, <2>h, <2>2
<1>6. ASSUME NEW i \in 1 .. Len(events), i <= k
      PROVE  ends[i] <= n
  <2>1. k \in 1 .. Len(events) /\ k # 0 /\ (i = k \/ i < k)
    BY <1>0, <1>6
  <2>2. begin = ends[k] /\ ends[k] \in Nat /\ ends[i] \in Nat
    BY <1>0, <2>1 DEF Begin
  <2>3. ends[i] <= ends[k]
    BY <1>0, <2>1, <2>2
  <2> HIDE DEF begin
  <2> QED
    BY <1>0, <1>b, <1>3, <2>2, <2>3
<1>7. ASSUME NEW i \in 1 .. Len(events), i > k
      PROVE  n < ends[i]
  <2>1. k < Len(events) /\ k + 1 \in 1 .. Len(events) /\ (i = k + 1 \/ k + 1 < i)
    BY <1>0, <1>7
  <2>2. ends[i] \in Nat /\ e \in Nat /\ (i = k + 1 \/ e <= ends[i])
    BY <1>0, <2>1
  <2>3. n < e
    BY <1>5, <2>1
  <2> QED
    BY <1>0, <2>2, <2>3
<1>8. ASSUME NEW i \in 1 .. Len(events)
      PROVE  ends[i] <= n <=> i <= k
  <2>1. ends[i] \in Nat /\ i \in Nat
    BY <1>0
  <2>2. i <= k \/ i > k
    BY <1>0, <2>1
  <2> QED
    BY <1>0, <1>6, <1>7, <2>1, <2>2
<1> QED
  BY <1>8

LEMMA Extended ==
  ASSUME NEW S, NEW s \in Seq(S), NEW x \in S
  PROVE  /\ Append(s, x) \in Seq(S) /\ Len(s) \in Nat /\ Len(Append(s, x)) = Len(s) + 1
         /\ \A i \in 1 .. Len(s) : Append(s, x)[i] = s[i]
         /\ Append(s, x)[Len(s) + 1] = x
OBVIOUS

LEMMA BeginStays ==
  ASSUME NEW ends \in Seq(Nat), NEW e \in Nat, NEW k \in 0 .. Len(ends)
  PROVE  Begin(Append(ends, e), k) = Begin(ends, k) /\ Begin(ends, k) \in Nat
<1>1. \A i \in 1 .. Len(ends) : Append(ends, e)[i] = ends[i] /\ ends[i] \in Nat
  BY Extended
<1>2. k = 0 \/ k \in 1 .. Len(ends)
  OBVIOUS
<1> QED
  BY <1>1, <1>2 DEF Begin

LEMMA EncodeText ==
  ASSUME NEW ev \in WireEvent, NEW eol \in LineEnding
  PROVE  Encode(ev, eol) \in Seq(Fragment)
<1>1. /\ {EventLine(ev, eol), IdLine(ev, eol), DataLine(ev, eol), eol} \subseteq Seq(Fragment)
      /\ Encode(ev, eol) = Join(Join(Join(EventLine(ev, eol), IdLine(ev, eol)), DataLine(ev, eol)), eol)
  BY EncodeLines
<1> DEFINE l1 == EventLine(ev, eol)
           l2 == IdLine(ev, eol)
           l3 == DataLine(ev, eol)
<1> HIDE DEF l1, l2, l3
<1>2. l1 \in Seq(Fragment) /\ l2 \in Seq(Fragment) /\ l3 \in Seq(Fragment) /\ eol \in Seq(Fragment)
  BY <1>1 DEF l1, l2, l3
<1>3. Join(l1, l2) \in Seq(Fragment)
  BY <1>2, ConcatProperties DEF Join
<1>4. Join(Join(l1, l2), l3) \in Seq(Fragment)
  BY <1>2, <1>3, ConcatProperties DEF Join
<1>5. Join(Join(Join(l1, l2), l3), eol) \in Seq(Fragment)
  BY <1>2, <1>4, ConcatProperties DEF Join
<1> QED
  BY <1>1, <1>5 DEF l1, l2, l3

\* The server writes one more event.
LEMMA CarriesMore ==
  ASSUME NEW body, NEW events, NEW ends, NEW eol \in LineEnding,
         Carries(body, events, ends, eol), NEW ev \in WireEvent
  PROVE  LET longer == Join(body, Encode(ev, eol)) IN
         Carries(longer, Append(events, ev), Append(ends, Len(longer)), eol)
<1> DEFINE piece == Encode(ev, eol)
           longer == Join(body, piece)
           more == Append(events, ev)
           e == Len(longer)
           last == Append(ends, e)
           n == Len(events)
<1>0. /\ body \in Seq(Fragment) /\ Len(body) \in Nat /\ events \in Seq(WireEvent) /\ n \in Nat
      /\ ends \in Seq(Nat) /\ Len(ends) = n
      /\ Begin(ends, n) = Len(body)
  BY DEF Carries
<1>1. piece \in Seq(Fragment)
  BY EncodeText
<1> HIDE DEF piece
<1>2. /\ longer \in Seq(Fragment) /\ e \in Nat /\ Len(body) <= e
      /\ \A a, b \in Nat : a <= b /\ b <= Len(body) => Piece(longer, a, b) = Piece(body, a, b)
      /\ Piece(longer, Len(body), e) = piece
  BY <1>0, <1>1, LongerPart
<1> HIDE DEF longer
<1> HIDE DEF e
<1>3. /\ more \in Seq(WireEvent) /\ Len(more) = n + 1
      /\ \A i \in 1 .. n : more[i] = events[i]
      /\ more[n + 1] = ev
  BY <1>0, Extended
<1>4. /\ last \in Seq(Nat) /\ Len(last) = n + 1
      /\ \A i \in 1 .. n : last[i] = ends[i] /\ ends[i] \in Nat
      /\ last[n + 1] = e
  BY <1>0, <1>2, Extended
<1>5. \A i \in 0 .. n : Begin(last, i) = Begin(ends, i) /\ Begin(ends, i) \in Nat
  BY <1>0, <1>2, BeginStays
<1> HIDE DEF more, last, n
<1>6. ASSUME NEW k \in 1 .. n
      PROVE  /\ \A i \in 0 .. k - 1 : Begin(last, i) <= last[k]
             /\ last[k] <= e
             /\ Piece(longer, Begin(last, k - 1), last[k]) = Encode(more[k], eol)
  <2>1. /\ \A i \in 0 .. k - 1 : Begin(ends, i) <= ends[k]
        /\ ends[k] <= Len(body)
        /\ Piece(body, Begin(ends, k - 1), ends[k]) = Encode(events[k], eol)
    BY DEF Carries, n
  <2>2. /\ \A i \in 0 .. k - 1 : i \in 0 .. n
        /\ k - 1 \in 0 .. k - 1
    BY <1>0
  <2>3. last[k] = ends[k] /\ more[k] = events[k] /\ ends[k] \in Nat
    BY <1>3, <1>4
  <2>4. \A i \in 0 .. k - 1 : Begin(last, i) = Begin(ends, i) /\ Begin(ends, i) \in Nat
    BY <1>5, <2>2
  <2>5. \A i \in 0 .. k - 1 : Begin(last, i) <= last[k]
    BY <2>1, <2>3, <2>4
  <2>6. last[k] <= e
    BY <1>0, <1>2, <2>1, <2>3
  <2> DEFINE b == Begin(ends, k - 1)
  <2>7. b \in Nat /\ Begin(last, k - 1) = b /\ b <= ends[k]
    BY <2>1, <2>2, <2>4
  <2>8. Piece(body, b, ends[k]) = Encode(events[k], eol)
    BY <2>1
  <2> HIDE DEF b
  <2>9. Piece(longer, b, ends[k]) = Encode(events[k], eol)
    BY <1>2, <2>1, <2>3, <2>7, <2>8
  <2> QED
    BY <2>3, <2>5, <2>6, <2>7, <2>9
<1>7. /\ \A i \in 0 .. n : Begin(last, i) <= last[n + 1]
      /\ Piece(longer, Begin(last, n), last[n + 1]) = Encode(more[n + 1], eol)
  <2>1. ASSUME NEW i \in 0 .. n
        PROVE  Begin(ends, i) <= Len(body)
    <3>1. CASE i = n
      BY <1>0, <3>1
    <3>2. CASE i = 0
      BY <1>0, <3>2 DEF Begin
    <3>3. CASE i # n /\ i # 0
      <4>1. i \in 1 .. n
        BY <1>0, <3>3
      <4>2. ends[i] <= Len(body)
        BY <4>1 DEF Carries, n
      <4> QED
        BY <3>3, <4>2 DEF Begin
    <3> QED
      BY <3>1, <3>2, <3>3
  <2>2. \A i \in 0 .. n : Begin(last, i) <= e
    BY <1>0, <1>2, <1>5, <2>1
  <2>3. Begin(last, n) = Len(body)
    <3>1. n \in 0 .. n
      BY <1>0
    <3> QED
      BY <1>0, <1>5, <3>1
  <2> QED
    BY <1>2, <1>3, <1>4, <2>2, <2>3 DEF piece
<1>8. Begin(last, n + 1) = e
  <2>1. n + 1 # 0
    BY <1>0
  <2> QED
    BY <1>4, <2>1 DEF Begin
<1>9. ASSUME NEW k \in 1 .. Len(more)
      PROVE  /\ \A i \in 0 .. k - 1 : Begin(last, i) <= last[k]
             /\ last[k] <= Len(longer)
             /\ Piece(longer, Begin(last, k - 1), last[k]) = Encode(more[k], eol)
  <2>1. k \in 1 .. n \/ k = n + 1
    BY <1>0, <1>3
  <2>2. CASE k = n + 1
    <3>1. k - 1 = n
      BY <1>0, <2>2
    <3>2. e <= e
      BY <1>2
    <3> QED
      BY <1>4, <1>7, <2>2, <3>1, <3>2 DEF e
  <2> QED
    BY <1>6, <2>1, <2>2 DEF e
<1>10. Carries(longer, more, last, eol)
  BY <1>2, <1>3, <1>4, <1>8, <1>9 DEF Carries, e
<1> QED
  BY <1>10 DEF longer, more, last, e, piece

\* Nothing changes for the parser before it reads on.
LEMMA StillRead ==
  ASSUME NEW body, NEW events, NEW ends, NEW eol \in LineEnding,
         Carries(body, events, ends, eol), NEW ev \in WireEvent,
         NEW bytes \in Seq(Fragment), NEW e \in Nat,
         NEW n \in 0 .. Len(body), NEW k, NEW p, HasRead(body, events, ends, eol, n, k, p)
  PROVE  HasRead(Join(body, bytes), Append(events, ev), Append(ends, e), eol, n, k, p)
<1> DEFINE longer == Join(body, bytes)
           more == Append(events, ev)
           last == Append(ends, e)
<1>0. /\ body \in Seq(Fragment) /\ Len(body) \in Nat /\ n \in Nat /\ n <= Len(body)
      /\ events \in Seq(WireEvent) /\ Len(events) \in Nat
      /\ ends \in Seq(Nat) /\ Len(ends) = Len(events)
  BY DEF Carries
<1>1. PICK b \in 0 .. n : p.buf = Piece(body, b, n) /\ At(events, ends, eol, k, b, p.cur)
  BY DEF HasRead
<1>2. k \in 0 .. Len(events) /\ p \in Parser /\ LineEnds(p.buf) = {}
  BY DEF HasRead
<1>3. p.buf = Piece(longer, b, n)
  <2>1. b \in Nat /\ b <= n
    BY <1>0
  <2>2. \A a, c \in Nat : a <= c /\ c <= Len(body) => Piece(Join(body, bytes), a, c) = Piece(body, a, c)
    BY <1>0, LongerPart
  <2> QED
    BY <1>0, <1>1, <2>1, <2>2
<1>4. Begin(last, k) = Begin(ends, k)
  BY <1>0, <1>2, BeginStays
<1>5. /\ Len(more) = Len(events) + 1
      /\ \A i \in 1 .. Len(events) : more[i] = events[i]
  BY <1>0, Extended
<1> HIDE DEF longer, more, last
<1>6. At(more, last, eol, k, b, p.cur)
  <2>1. k \in Nat /\ k < Len(more)
    BY <1>0, <1>2, <1>5
  <2>2. CASE b = Begin(ends, k) /\ p.cur = NoEvent
    BY <1>4, <2>2 DEF At
  <2>3. CASE k < Len(events)
    <3>1. k + 1 \in 1 .. Len(events)
      BY <1>0, <2>1, <2>3
    <3>2. more[k + 1] = events[k + 1]
      BY <1>5, <3>1
    <3> QED
      BY <1>1, <1>4, <2>1, <3>2 DEF At
  <2> QED
    BY <1>1, <2>2, <2>3 DEF At
<1>7. k \in 0 .. Len(more)
  BY <1>0, <1>2, <1>5
<1>8. HasRead(longer, more, last, eol, n, k, p)
  BY <1>1, <1>2, <1>3, <1>6, <1>7 DEF HasRead
<1> QED
  BY <1>8 DEF longer, more, last

\* A new response and a new parser.
LEMMA NothingRead ==
  ASSUME NEW eol
  PROVE  /\ Carries(<< >>, << >>, << >>, eol)
         /\ HasRead(<< >>, << >>, << >>, eol, 0, 0, NewParser)
<1> DEFINE none == << >>
<1>1. /\ none \in Seq(Fragment) /\ none \in Seq(WireEvent) /\ none \in Seq(Nat) /\ none \in Seq(SseEvent)
      /\ Len(none) = 0 /\ DOMAIN none = {}
  OBVIOUS
<1>2. NewParser = [buf |-> none, cur |-> NoEvent, out |-> none]
  BY DEF NewParser
<1>3. Piece(none, 0, 0) = none
  BY DEF Piece
<1> HIDE DEF none
<1>4. Carries(none, none, none, eol)
  BY <1>1 DEF Carries, Begin
<1>5. NoEvent \in SseEvent
  <2>1. << >> \in Seq(Fragment)
    OBVIOUS
  <2> QED
    BY <2>1 DEF NoEvent, SseEvent
<1>6. LineEnds(none) = {}
  BY <1>1 DEF LineEnds
<1>7. /\ NewParser \in Parser /\ NewParser.buf = none /\ NewParser.cur = NoEvent
  BY <1>1, <1>2, <1>5 DEF Parser
<1>8. At(none, none, eol, 0, 0, NoEvent)
  BY DEF At, Begin
<1>9. 0 \in 0 .. 0
  OBVIOUS
<1>10. HasRead(none, none, none, eol, 0, 0, NewParser)
  BY <1>1, <1>3, <1>6, <1>7, <1>8, <1>9 DEF HasRead
<1> QED
  BY <1>4, <1>10 DEF none
==============================================================================
