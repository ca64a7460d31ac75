--------------------------- MODULE EventFanoutProofs ---------------------------
(***************************************************************************)
(* Theorems about EventFanout, for any replicas, clients, keys, prefixes,  *)
(* ring size and bounds. The invariant says where the listener of each     *)
(* replica stands in the log, and what it means for a stream to have gone  *)
(* on to an id: everything owed before it has been settled.                *)
(***************************************************************************)
EXTENDS EventFanout, TLAPS

\* The listener is never ahead of the log, and in its receive loop its
\* connection is never ahead of last_seen.
ListenerInv ==
  \A r \in Replicas :
    /\ notifyPos[r] <= Len(log)
    /\ lastSeen[r] <= Len(log)
    /\ listener[r] = "ready" => notifyPos[r] <= lastSeen[r]

\* What a replica has broadcast ascends to last_seen.
SentInv ==
  \A r \in Replicas :
    /\ \A i \in 1 .. Len(sent[r]) : sent[r][i] \in 1 .. lastSeen[r]
    /\ \A i, j \in 1 .. Len(sent[r]) : i < j => sent[r][i] < sent[r][j]

\* A request that is not live yet has nothing to show.
NotLiveInv ==
  \A w \in Watchers : stream[w] # "live" =>
    /\ caughtUp[w] = {} /\ emitted[w] = << >> /\ passedOver[w] = {}
    /\ lastEmitted[w] = since[w]

ReceiverInv == \A w \in Watchers : rxPos[w] <= Len(sent[at[w]])

\* What a stream carries ascends from since to last_emitted.
EmittedInv ==
  \A w \in Watchers :
    /\ since[w] <= lastEmitted[w] /\ lastEmitted[w] <= Len(log)
    /\ \A i \in Carried(w) : Due(w, i) /\ i <= lastEmitted[w]
    /\ \A i, j \in 1 .. Len(emitted[w]) : i < j => emitted[w][i] < emitted[w][j]
    /\ \A i \in 1 .. Len(emitted[w]), c \in caughtUp[w] : c < emitted[w][i]

\* A stream that has gone on to last_emitted left nothing behind.
SettledInv ==
  \A w \in Live : \A i \in 1 .. Len(log) :
    (Due(w, i) /\ i <= lastEmitted[w]) => HasEmitted(w, i) \/ i \in passedOver[w]

\* What it owes beyond that is in the channel or still before the listener.
AheadInv ==
  \A w \in Live : \A i \in 1 .. Len(log) :
    Due(w, i) =>
      HasEmitted(w, i) \/ InChannel(w, i) \/ i > lastSeen[at[w]] \/ i \in passedOver[w]

\* What the listener passed over is never broadcast later.
PassedOverInv ==
  \A w \in Watchers :
    /\ passedOver[w] \subseteq 1 .. lastSeen[at[w]]
    /\ \A i \in 1 .. Len(sent[at[w]]) : sent[at[w]][i] \notin passedOver[w]

IInv ==
  /\ TypeOK
  /\ ListenerInv /\ SentInv
  /\ NotLiveInv /\ ReceiverInv /\ EmittedInv /\ SettledInv /\ AheadInv /\ PassedOverInv
------------------------------------------------------------------------------
LEMMA InitIInv == Init => IInv
<1> SUFFICES ASSUME Init
             PROVE  IInv
  OBVIOUS
<1> USE EventFanoutAssumption DEF Init
<1>1. TypeOK
  BY DEF TypeOK, ListenerPhase, StreamPhase
<1>2. ListenerInv /\ SentInv
  BY DEF ListenerInv, SentInv
<1>3. NotLiveInv /\ ReceiverInv
  BY DEF NotLiveInv, ReceiverInv
<1>4. \A w \in Watchers : Carried(w) = {}
  BY DEF Carried
<1>5. EmittedInv
  BY <1>4 DEF EmittedInv
<1>6. SettledInv /\ AheadInv /\ PassedOverInv
  BY DEF SettledInv, AheadInv, PassedOverInv, Live
<1> QED
  BY <1>1, <1>2, <1>3, <1>5, <1>6 DEF IInv
------------------------------------------------------------------------------
(***************************************************************************)
(* Steps that neither broadcast nor touch a stream.                        *)
(***************************************************************************)

\* The listener moves, but not in what it has read from the log.
LEMMA PositionStep ==
  ASSUME IInv,
         listener' \in [Replicas -> ListenerPhase],
         notifyPos' \in [Replicas -> Nat],
         faults' \in Nat,
         UNCHANGED <<log, lastSeen, sent, streamVars>>,
         \A r \in Replicas :
           /\ notifyPos'[r] <= Len(log)
           /\ listener'[r] = "ready" => listener[r] = "ready" /\ notifyPos'[r] = notifyPos[r]
  PROVE  IInv'
<1> USE DEF streamVars
<1>1. TypeOK'
  BY DEF IInv, TypeOK
<1>2. ListenerInv' /\ SentInv'
  BY DEF IInv, ListenerInv, SentInv
<1>3. NotLiveInv' /\ ReceiverInv' /\ EmittedInv'
  BY DEF IInv, NotLiveInv, ReceiverInv, EmittedInv, Carried, Due
<1>4. SettledInv' /\ AheadInv' /\ PassedOverInv'
  BY DEF IInv, SettledInv, AheadInv, PassedOverInv, Live, Due, HasEmitted, Carried, InChannel
<1> QED
  BY <1>1, <1>2, <1>3, <1>4 DEF IInv

LEMMA PositionActions ==
  ASSUME IInv, NEW r \in Replicas,
         Listen(r) \/ ConnectionLost(r) \/ Reconnect(r) \/ RunOnceFails(r)
  PROVE  IInv'
<1>1. TypeOK /\ ListenerInv /\ Len(log) \in Nat
  BY DEF IInv, TypeOK
<1>2. listener' \in [Replicas -> ListenerPhase]
  BY <1>1 DEF TypeOK, ListenerPhase, Listen, ConnectionLost, Reconnect, RunOnceFails
<1>3. notifyPos' \in [Replicas -> Nat] /\ faults' \in Nat
  BY <1>1 DEF TypeOK, Listen, ConnectionLost, Reconnect, RunOnceFails, Fault
<1>4. \A q \in Replicas :
        /\ notifyPos'[q] <= Len(log)
        /\ listener'[q] = "ready" => listener[q] = "ready" /\ notifyPos'[q] = notifyPos[q]
  <2>1. CASE Listen(r)
    BY <1>1, <2>1 DEF TypeOK, ListenerInv, Listen
  <2>2. CASE ConnectionLost(r)
    BY <1>1, <2>2 DEF TypeOK, ListenerInv, ConnectionLost
  <2>3. CASE Reconnect(r)
    BY <1>1, <2>3 DEF TypeOK, ListenerInv, Reconnect
  <2>4. CASE RunOnceFails(r)
    BY <1>1, <2>4 DEF TypeOK, ListenerInv, RunOnceFails
  <2> QED
    BY <2>1, <2>2, <2>3, <2>4
<1>5. UNCHANGED <<log, lastSeen, sent, streamVars>>
  BY DEF Listen, ConnectionLost, Reconnect, RunOnceFails
<1> QED
  BY <1>2, <1>3, <1>4, <1>5, PositionStep

LEMMA WriteStep ==
  ASSUME IInv, NEW k \in Keys, Write(k)
  PROVE  IInv'
<1> USE DEF streamVars, listenerVars
<1>1. TypeOK
  BY DEF IInv
<1>2. /\ log' \in Seq(Keys)
      /\ Len(log) \in Nat /\ Len(log') = Len(log) + 1
      /\ \A i \in 1 .. Len(log) : log'[i] = log[i]
  BY <1>1 DEF Write, TypeOK
<1>3. UNCHANGED <<listenerVars, streamVars, faults>>
  BY DEF Write
<1>4. TypeOK'
  BY <1>1, <1>2, <1>3 DEF TypeOK
<1>5. ListenerInv' /\ SentInv'
  BY <1>1, <1>2, <1>3 DEF IInv, TypeOK, ListenerInv, SentInv
<1>6. NotLiveInv' /\ ReceiverInv'
  BY <1>3 DEF IInv, NotLiveInv, ReceiverInv
<1>7. \A w \in Watchers : \A i \in 1 .. Len(log) : Due(w, i)' <=> Due(w, i)
  BY <1>1, <1>2, <1>3 DEF Due, TypeOK
<1>8. \A w \in Watchers : /\ Carried(w)' = Carried(w)
                          /\ \A i : HasEmitted(w, i)' <=> HasEmitted(w, i)
                          /\ \A i : InChannel(w, i)' <=> InChannel(w, i)
  BY <1>3 DEF Carried, HasEmitted, InChannel
<1>9. \A w \in Watchers : \A i : Due(w, i) => i \in 1 .. Len(log)
  BY <1>1, <1>2 DEF Due, TypeOK
<1>10. EmittedInv'
  <2> SUFFICES ASSUME NEW w \in Watchers
               PROVE  /\ since[w] <= lastEmitted[w] /\ lastEmitted[w] <= Len(log')
                      /\ \A i \in Carried(w) : Due(w, i)' /\ i <= lastEmitted[w]
                      /\ \A i, j \in 1 .. Len(emitted[w]) : i < j => emitted[w][i] < emitted[w][j]
                      /\ \A i \in 1 .. Len(emitted[w]), c \in caughtUp[w] : c < emitted[w][i]
    BY <1>3, <1>8 DEF EmittedInv
  <2>1. lastEmitted[w] \in Nat /\ lastEmitted[w] <= Len(log)
    BY <1>1 DEF IInv, EmittedInv, TypeOK
  <2> QED
    BY <1>2, <1>7, <1>9, <2>1 DEF IInv, EmittedInv
<1>11. Live' = Live
  BY <1>3 DEF Live
<1>12. \A w \in Watchers : \A i \in 1 .. Len(log') :
         Due(w, i)' => Due(w, i) \/ i = Len(log) + 1
  BY <1>2, <1>7
<1>13. SettledInv'
  <2> SUFFICES ASSUME NEW w \in Watchers, w \in Live, NEW i \in 1 .. Len(log'),
                      Due(w, i)', i <= lastEmitted[w]
               PROVE  HasEmitted(w, i) \/ i \in passedOver[w]
    BY <1>3, <1>8, <1>11 DEF SettledInv, Live
  <2>1. i # Len(log) + 1
    BY <1>1, <1>2 DEF IInv, EmittedInv, TypeOK
  <2>2. Due(w, i) /\ i \in 1 .. Len(log)
    BY <1>9, <1>12, <2>1
  <2> QED
    BY <2>2 DEF IInv, SettledInv
<1>14. AheadInv'
  <2> SUFFICES ASSUME NEW w \in Watchers, w \in Live, NEW i \in 1 .. Len(log'), Due(w, i)'
               PROVE  HasEmitted(w, i) \/ InChannel(w, i) \/ i > lastSeen[at[w]] \/ i \in passedOver[w]
    BY <1>3, <1>8, <1>11 DEF AheadInv, Live
  <2>1. CASE i = Len(log) + 1
    BY <1>1, <1>2, <2>1 DEF IInv, ListenerInv, TypeOK
  <2>2. CASE Due(w, i)
    BY <1>9, <2>2 DEF IInv, AheadInv
  <2> QED
    BY <1>12, <2>1, <2>2
<1>15. PassedOverInv'
  BY <1>3 DEF IInv, PassedOverInv
<1> QED
  BY <1>4, <1>5, <1>6, <1>10, <1>13, <1>14, <1>15 DEF IInv

(***************************************************************************)
(* SELECT MAX(id): the streams of the replica pass over what it skips.     *)
(***************************************************************************)
LEMMA InitLastSeenStep ==
  ASSUME IInv, NEW r \in Replicas, InitLastSeen(r)
  PROVE  IInv'
<1>1. TypeOK /\ Len(log) \in Nat /\ lastSeen[r] \in Nat /\ lastSeen[r] <= Len(log)
  BY DEF IInv, TypeOK, ListenerInv
<1>2. UNCHANGED <<log, notifyPos, sent, stream, at, since, rxPos, lastEmitted, caughtUp, emitted, faults>>
  BY DEF InitLastSeen
<1>3. /\ lastSeen'[r] = Len(log)
      /\ \A q \in Replicas : q # r => lastSeen'[q] = lastSeen[q]
      /\ \A q \in Replicas : lastSeen'[q] \in Nat /\ lastSeen[q] <= lastSeen'[q]
  BY <1>1 DEF IInv, ListenerInv, TypeOK, InitLastSeen
<1>4. \A w \in Watchers :
        passedOver'[w] = IF stream[w] = "live" /\ at[w] = r
                         THEN passedOver[w] \cup (lastSeen[r] + 1 .. Len(log))
                         ELSE passedOver[w]
  BY DEF InitLastSeen
<1>5. TypeOK'
  BY <1>1, <1>2 DEF TypeOK, ListenerPhase, InitLastSeen
<1>6. ListenerInv'
  BY <1>1, <1>2, <1>3 DEF IInv, ListenerInv, TypeOK, InitLastSeen
<1>7. SentInv'
  <2> SUFFICES ASSUME NEW q \in Replicas
               PROVE  /\ \A i \in 1 .. Len(sent[q]) : sent[q][i] \in 1 .. lastSeen'[q]
                      /\ \A i, j \in 1 .. Len(sent[q]) : i < j => sent[q][i] < sent[q][j]
    BY <1>2 DEF SentInv
  <2>1. 1 .. lastSeen[q] \subseteq 1 .. lastSeen'[q]
    <3>1. lastSeen[q] \in Nat
      BY <1>1 DEF TypeOK
    <3> QED
      BY <1>3, <3>1
  <2> QED
    BY <2>1 DEF IInv, SentInv
<1>8. NotLiveInv' /\ ReceiverInv' /\ EmittedInv'
  <2>1. NotLiveInv'
    BY <1>2, <1>4 DEF IInv, NotLiveInv
  <2>2. ReceiverInv' /\ EmittedInv'
    BY <1>2 DEF IInv, ReceiverInv, EmittedInv, Carried, Due
  <2> QED
    BY <2>1, <2>2
<1>9. Live' = Live /\ Live \subseteq Watchers
  BY <1>2 DEF Live
<1>10. \A w \in Watchers : /\ \A i : Due(w, i)' <=> Due(w, i)
                           /\ \A i : HasEmitted(w, i)' <=> HasEmitted(w, i)
                           /\ \A i : InChannel(w, i)' <=> InChannel(w, i)
  BY <1>2 DEF Due, HasEmitted, Carried, InChannel
<1>11. \A w \in Watchers : passedOver[w] \subseteq passedOver'[w]
  BY <1>4
<1>12. SettledInv'
  BY <1>2, <1>9, <1>10, <1>11 DEF IInv, SettledInv
<1>13. AheadInv'
  <2> SUFFICES ASSUME NEW w \in Watchers, w \in Live, NEW i \in 1 .. Len(log), Due(w, i)
               PROVE  HasEmitted(w, i) \/ InChannel(w, i) \/ i > lastSeen'[at[w]] \/ i \in passedOver'[w]
    BY <1>2, <1>9, <1>10 DEF AheadInv
  <2>1. HasEmitted(w, i) \/ InChannel(w, i) \/ i > lastSeen[at[w]] \/ i \in passedOver[w]
    BY DEF IInv, AheadInv
  <2>2. CASE i > lastSeen[at[w]] /\ at[w] = r
    <3>1. i \in lastSeen[r] + 1 .. Len(log)
      BY <1>1, <2>2
    <3> QED
      BY <1>4, <2>2, <3>1 DEF Live
  <2>3. CASE i > lastSeen[at[w]] /\ at[w] # r
    BY <1>1, <1>3, <2>3 DEF TypeOK
  <2> QED
    BY <1>11, <2>1, <2>2, <2>3
<1>14. PassedOverInv'
  <2> SUFFICES ASSUME NEW w \in Watchers
               PROVE  /\ passedOver'[w] \subseteq 1 .. lastSeen'[at[w]]
                      /\ \A i \in 1 .. Len(sent[at[w]]) : sent[at[w]][i] \notin passedOver'[w]
    BY <1>2 DEF PassedOverInv
  <2>1. at[w] \in Replicas /\ lastSeen[at[w]] \in Nat
    BY <1>1 DEF TypeOK
  <2>2. /\ passedOver[w] \subseteq 1 .. lastSeen[at[w]]
        /\ \A i \in 1 .. Len(sent[at[w]]) : sent[at[w]][i] \in 1 .. lastSeen[at[w]]
        /\ \A i \in 1 .. Len(sent[at[w]]) : sent[at[w]][i] \notin passedOver[w]
    BY <2>1 DEF IInv, PassedOverInv, SentInv
  <2>3. CASE stream[w] = "live" /\ at[w] = r
    <3>1. passedOver'[w] = passedOver[w] \cup (lastSeen[r] + 1 .. Len(log))
      BY <1>4, <2>3
    <3> QED
      BY <1>1, <1>3, <2>2, <2>3, <3>1
  <2>4. CASE ~(stream[w] = "live" /\ at[w] = r)
    <3>1. passedOver'[w] = passedOver[w]
      BY <1>4, <2>4
    <3> QED
      BY <1>3, <2>1, <2>2, <3>1
  <2> QED
    BY <2>3, <2>4
<1> QED
  BY <1>5, <1>6, <1>7, <1>8, <1>12, <1>13, <1>14 DEF IInv
------------------------------------------------------------------------------
(***************************************************************************)
(* Broadcasts: a notification above last_seen, or the replay of a gap.     *)
(***************************************************************************)
LEMMA Extended ==
  ASSUME NEW s \in Seq(Nat), NEW m \in Nat, NEW n \in Nat, m <= n,
         NEW t, t = s \o [i \in 1 .. n - m |-> m + i]
  PROVE  /\ t \in Seq(Nat)
         /\ Len(s) \in Nat /\ Len(t) = Len(s) + (n - m)
         /\ \A i \in 1 .. Len(s) : t[i] = s[i]
         /\ \A i \in Len(s) + 1 .. Len(t) : t[i] = m + (i - Len(s))
<1> DEFINE new == [i \in 1 .. n - m |-> m + i]
<1>1. new \in Seq(Nat) /\ Len(new) = n - m /\ \A i \in 1 .. n - m : new[i] = m + i
  OBVIOUS
<1>2. t = s \o new
  OBVIOUS
<1> HIDE DEF new
<1>3. t \in Seq(Nat) /\ Len(s) \in Nat /\ Len(t) = Len(s) + Len(new)
  BY <1>1, <1>2
<1>6. \A i \in 1 .. Len(s) : t[i] = s[i]
  BY <1>1, <1>2, <1>3
<1>4. \A i \in Len(s) + 1 .. Len(t) : t[i] = new[i - Len(s)]
  BY <1>1, <1>2, <1>3
<1>5. \A i \in Len(s) + 1 .. Len(t) : i - Len(s) \in 1 .. n - m
  BY <1>1, <1>3
<1> QED
  BY <1>1, <1>3, <1>4, <1>5, <1>6

LEMMA BroadcastStep ==
  ASSUME IInv, NEW r \in Replicas, NEW n \in lastSeen[r] .. Len(log),
         listener' \in [Replicas -> ListenerPhase],
         notifyPos' \in [Replicas -> Nat],
         lastSeen' = [lastSeen EXCEPT ![r] = n],
         sent' = [sent EXCEPT ![r] = @ \o [i \in 1 .. n - lastSeen[r] |-> lastSeen[r] + i]],
         UNCHANGED <<log, streamVars, faults>>,
         \A q \in Replicas :
           /\ notifyPos'[q] <= Len(log)
           /\ listener'[q] = "ready" => notifyPos'[q] <= lastSeen'[q]
  PROVE  IInv'
<1> USE DEF streamVars
<1> DEFINE old == lastSeen[r]
           s == sent[r]
           t == sent'[r]
<1>1. TypeOK /\ Len(log) \in Nat /\ old \in Nat /\ n \in Nat /\ old <= n /\ n <= Len(log)
  BY DEF IInv, TypeOK
<1>2. s \in Seq(Nat) /\ t = s \o [i \in 1 .. n - old |-> old + i]
  BY <1>1 DEF TypeOK
<1>3. /\ t \in Seq(Nat)
      /\ Len(s) \in Nat /\ Len(t) = Len(s) + (n - old)
      /\ \A i \in 1 .. Len(s) : t[i] = s[i]
      /\ \A i \in Len(s) + 1 .. Len(t) : t[i] = old + (i - Len(s))
  <2> HIDE DEF old, s, t
  <2> QED
    BY <1>1, <1>2, Extended
<1>3a. Len(s) \in Nat /\ Len(t) \in Nat /\ Len(t) = Len(s) + (n - old)
  BY <1>1, <1>3
<1>4. /\ \A i \in 1 .. Len(s) : s[i] \in 1 .. old
      /\ \A i, j \in 1 .. Len(s) : i < j => s[i] < s[j]
  BY DEF IInv, SentInv
<1>5. \A q \in Replicas : q # r => sent'[q] = sent[q] /\ lastSeen'[q] = lastSeen[q]
  BY <1>1 DEF TypeOK
<1>6. lastSeen'[r] = n /\ lastSeen[r] = old /\ sent[r] = s /\ sent'[r] = t
  BY <1>1 DEF TypeOK
<1>7. TypeOK'
  BY <1>1, <1>3 DEF TypeOK
<1>8. ListenerInv'
  BY <1>1, <1>5, <1>6 DEF IInv, ListenerInv
<1>9. NotLiveInv' /\ EmittedInv' /\ SettledInv'
  BY DEF IInv, NotLiveInv, EmittedInv, SettledInv, Live, HasEmitted, Carried, Due
<1> HIDE DEF old, s, t
<1>10. \A i \in 1 .. Len(t) : t[i] \in 1 .. n
  <2> TAKE i \in 1 .. Len(t)
  <2>1. CASE i \in 1 .. Len(s)
    <3>1. t[i] = s[i] /\ s[i] \in 1 .. old
      BY <1>3, <1>4, <2>1
    <3> QED
      BY <1>1, <3>1
  <2>2. CASE i \in Len(s) + 1 .. Len(t)
    <3>1. t[i] = old + (i - Len(s))
      BY <1>3, <2>2
    <3> QED
      BY <1>1, <1>3a, <2>2, <3>1
  <2> QED
    BY <1>3, <2>1, <2>2
<1>11. \A i, j \in 1 .. Len(t) : i < j => t[i] < t[j]
  <2> SUFFICES ASSUME NEW i \in 1 .. Len(t), NEW j \in 1 .. Len(t), i < j
               PROVE  t[i] < t[j]
    OBVIOUS
  <2>1. CASE j \in 1 .. Len(s)
    BY <1>3, <1>4, <2>1
  <2>2. CASE i \in 1 .. Len(s) /\ j \in Len(s) + 1 .. Len(t)
    <3>1. t[j] = old + (j - Len(s)) /\ t[i] = s[i] /\ s[i] \in 1 .. old
      BY <1>3, <1>4, <2>2
    <3>2. j - Len(s) > 0 /\ j - Len(s) \in Nat
      BY <1>3a, <2>2
    <3> QED
      BY <1>1, <3>1, <3>2
  <2>3. CASE i \in Len(s) + 1 .. Len(t) /\ j \in Len(s) + 1 .. Len(t)
    <3>1. t[j] = old + (j - Len(s)) /\ t[i] = old + (i - Len(s))
      BY <1>3, <2>3
    <3> QED
      BY <1>1, <1>3, <2>3, <3>1
  <2> QED
    BY <1>3, <2>1, <2>2, <2>3
<1>12. SentInv'
  <2> SUFFICES ASSUME NEW q \in Replicas
               PROVE  /\ \A i \in 1 .. Len(sent'[q]) : sent'[q][i] \in 1 .. lastSeen'[q]
                      /\ \A i, j \in 1 .. Len(sent'[q]) : i < j => sent'[q][i] < sent'[q][j]
    BY DEF SentInv
  <2>1. CASE q # r
    BY <1>5, <2>1 DEF IInv, SentInv
  <2>2. CASE q = r
    BY <1>6, <1>10, <1>11, <2>2
  <2> QED
    BY <2>1, <2>2
<1>13. \A w \in Watchers : /\ at[w] \in Replicas
                           /\ rxPos[w] \in Nat /\ rxPos[w] <= Len(sent[at[w]])
                           /\ Len(sent[at[w]]) \in Nat
  BY <1>1 DEF IInv, ReceiverInv, TypeOK
<1>14. ReceiverInv'
  <2> SUFFICES ASSUME NEW w \in Watchers
               PROVE  rxPos[w] <= Len(sent'[at[w]])
    BY DEF ReceiverInv
  <2>1. CASE at[w] = r
    BY <1>1, <1>3, <1>6, <1>13, <2>1
  <2>2. CASE at[w] # r
    BY <1>5, <1>13, <2>2
  <2> QED
    BY <2>1, <2>2
<1>15. AheadInv'
  <2> SUFFICES ASSUME NEW w \in Watchers, w \in Live, NEW i \in 1 .. Len(log), Due(w, i)
               PROVE  HasEmitted(w, i) \/ InChannel(w, i)' \/ i > lastSeen'[at[w]] \/ i \in passedOver[w]
    BY DEF AheadInv, Live, Due, HasEmitted, Carried
  <2>1. HasEmitted(w, i) \/ InChannel(w, i) \/ i > lastSeen[at[w]] \/ i \in passedOver[w]
    BY DEF IInv, AheadInv
  <2>2. CASE at[w] # r
    <3>1. lastSeen'[at[w]] = lastSeen[at[w]] /\ sent'[at[w]] = sent[at[w]]
      BY <1>5, <1>13, <2>2
    <3>2. InChannel(w, i)' <=> InChannel(w, i)
      BY <3>1 DEF InChannel
    <3> QED
      BY <2>1, <3>1, <3>2
  <2>3. CASE at[w] = r /\ InChannel(w, i)
    <3>1. PICK j \in rxPos[w] + 1 .. Len(s) : s[j] = i
      BY <1>6, <2>3 DEF InChannel
    <3>2. j \in 1 .. Len(s) /\ j \in rxPos[w] + 1 .. Len(t)
      BY <1>1, <1>13, <1>3a, <3>1
    <3>3. t[j] = i
      BY <1>3, <3>1, <3>2
    <3> QED
      BY <1>6, <2>3, <3>2, <3>3 DEF InChannel
  <2>4. CASE at[w] = r /\ i > old /\ i <= n
    <3>1. PICK j \in Nat : j = Len(s) + (i - old)
      BY <1>1, <1>3, <2>4
    <3>2. j \in Len(s) + 1 .. Len(t) /\ j \in rxPos[w] + 1 .. Len(t) /\ old + (j - Len(s)) = i
      <4>1. rxPos[w] \in Nat /\ rxPos[w] <= Len(s)
        BY <1>6, <1>13, <2>4
      <4>2. old \in Nat /\ n \in Nat /\ old <= n
        BY <1>1
      <4>3. j >= Len(s) + 1 /\ j <= Len(t) /\ old + (j - Len(s)) = i
        BY <1>3a, <2>4, <3>1, <4>2
      <4> QED
        BY <1>3a, <3>1, <4>1, <4>3
    <3>3. t[j] = i
      BY <1>3, <3>2
    <3> QED
      BY <1>6, <2>4, <3>2, <3>3 DEF InChannel
  <2> QED
    BY <1>1, <1>6, <2>1, <2>2, <2>3, <2>4
<1>16. PassedOverInv'
  <2> SUFFICES ASSUME NEW w \in Watchers
               PROVE  /\ passedOver[w] \subseteq 1 .. lastSeen'[at[w]]
                      /\ \A i \in 1 .. Len(sent'[at[w]]) : sent'[at[w]][i] \notin passedOver[w]
    BY DEF PassedOverInv
  <2>1. /\ passedOver[w] \subseteq 1 .. lastSeen[at[w]]
        /\ \A i \in 1 .. Len(sent[at[w]]) : sent[at[w]][i] \notin passedOver[w]
    BY DEF IInv, PassedOverInv
  <2>2. CASE at[w] # r
    BY <1>5, <1>13, <2>1, <2>2
  <2>3. CASE at[w] = r
    <3> SUFFICES ASSUME NEW i \in 1 .. Len(t)
                 PROVE  t[i] \notin passedOver[w]
      <4>1. passedOver[w] \subseteq 1 .. n
        <5>1. 1 .. old \subseteq 1 .. n
          BY <1>1
        <5> QED
          BY <1>6, <2>1, <2>3, <5>1
      <4> QED
        BY <1>6, <2>3, <4>1
    <3>1. CASE i \in 1 .. Len(s)
      BY <1>3, <1>6, <2>1, <2>3, <3>1
    <3>2. CASE i \in Len(s) + 1 .. Len(t)
      <4>1. t[i] = old + (i - Len(s)) /\ i - Len(s) > 0
        BY <1>3, <3>2
      <4>2. \A m \in passedOver[w] : m \in Nat /\ m <= old
        BY <1>1, <1>6, <2>1, <2>3
      <4>3. t[i] > old
        BY <1>1, <1>3a, <3>2, <4>1
      <4> QED
        BY <1>1, <4>2, <4>3
    <3> QED
      BY <1>3, <3>1, <3>2
  <2> QED
    BY <2>2, <2>3
<1> QED
  BY <1>7, <1>8, <1>9, <1>12, <1>14, <1>15, <1>16 DEF IInv

LEMMA AppendIsConcat ==
  ASSUME NEW s \in Seq(Nat), NEW x \in Nat
  PROVE  Append(s, x) = s \o <<x>>
OBVIOUS

LEMMA TryRecvStep ==
  ASSUME IInv, NEW r \in Replicas, TryRecv(r)
  PROVE  IInv'
<1> DEFINE id == notifyPos[r] + 1
<1>1. TypeOK /\ ListenerInv /\ Len(log) \in Nat /\ listener[r] = "ready"
  BY DEF IInv, TypeOK, TryRecv
<1>2. /\ id \in Nat /\ id <= Len(log) /\ notifyPos[r] \in Nat
      /\ lastSeen[r] \in Nat /\ notifyPos[r] <= lastSeen[r] /\ lastSeen[r] <= Len(log)
  BY <1>1 DEF TypeOK, ListenerInv, TryRecv
<1>3. /\ notifyPos' = [notifyPos EXCEPT ![r] = id]
      /\ UNCHANGED <<log, listener, streamVars, faults>>
  BY DEF TryRecv
<1>4. notifyPos' \in [Replicas -> Nat] /\ notifyPos'[r] = id
  BY <1>1, <1>2, <1>3 DEF TypeOK
<1>5. \A q \in Replicas : q # r => notifyPos'[q] = notifyPos[q]
  BY <1>1, <1>3 DEF TypeOK
<1>6. CASE id <= lastSeen[r]
  <2>1. UNCHANGED <<lastSeen, sent>>
    BY <1>2, <1>6 DEF TryRecv
  <2>2. TypeOK'
    BY <1>1, <1>3, <1>4, <2>1 DEF TypeOK, streamVars
  <2>3. ListenerInv'
    BY <1>1, <1>2, <1>3, <1>4, <1>5, <1>6, <2>1 DEF ListenerInv
  <2>4. SentInv' /\ NotLiveInv' /\ ReceiverInv' /\ EmittedInv' /\ PassedOverInv'
    BY <1>3, <2>1 DEF IInv, SentInv, NotLiveInv, ReceiverInv, EmittedInv, PassedOverInv,
                      Carried, Due, streamVars
  <2>5. SettledInv' /\ AheadInv'
    BY <1>3, <2>1 DEF IInv, SettledInv, AheadInv, Live, Due, HasEmitted, Carried, InChannel,
                      streamVars
  <2> QED
    BY <2>2, <2>3, <2>4, <2>5 DEF IInv
<1>7. CASE id > lastSeen[r]
  <2>1. id = lastSeen[r] + 1 /\ id \in lastSeen[r] .. Len(log)
    BY <1>2, <1>7
  <2>2. /\ lastSeen' = [lastSeen EXCEPT ![r] = id]
        /\ sent' = [sent EXCEPT ![r] = Append(@, id)]
    BY <1>2, <1>7 DEF TryRecv
  <2>3. Append(sent[r], id) = sent[r] \o [i \in 1 .. id - lastSeen[r] |-> lastSeen[r] + i]
    <3>1. sent[r] \in Seq(Nat)
      BY <1>1 DEF TypeOK
    <3>2. [i \in 1 .. id - lastSeen[r] |-> lastSeen[r] + i] = <<id>>
      BY <1>2, <2>1
    <3> QED
      BY <1>2, <3>1, <3>2, AppendIsConcat
  <2>4. sent' = [sent EXCEPT ![r] = @ \o [i \in 1 .. id - lastSeen[r] |-> lastSeen[r] + i]]
    BY <2>2, <2>3
  <2>5. \A q \in Replicas :
          /\ notifyPos'[q] <= Len(log)
          /\ listener'[q] = "ready" => notifyPos'[q] <= lastSeen'[q]
    BY <1>1, <1>2, <1>3, <1>4, <1>5, <2>2 DEF TypeOK, ListenerInv
  <2>6. listener' \in [Replicas -> ListenerPhase]
    BY <1>1, <1>3 DEF TypeOK
  <2> QED
    BY <1>3, <1>4, <2>1, <2>2, <2>4, <2>5, <2>6, BroadcastStep
<1> QED
  BY <1>2, <1>6, <1>7

LEMMA ReplayGapStep ==
  ASSUME IInv, NEW r \in Replicas, ReplayGap(r)
  PROVE  IInv'
<1>1. TypeOK /\ ListenerInv /\ Len(log) \in Nat
  BY DEF IInv, TypeOK
<1>2. Len(log) \in lastSeen[r] .. Len(log)
  BY <1>1 DEF TypeOK, ListenerInv
<1>3. /\ lastSeen' = [lastSeen EXCEPT ![r] = Len(log)]
      /\ sent' = [sent EXCEPT ![r] = @ \o [i \in 1 .. Len(log) - lastSeen[r] |-> lastSeen[r] + i]]
      /\ UNCHANGED <<log, notifyPos, streamVars, faults>>
  BY DEF ReplayGap
<1>4. listener' \in [Replicas -> ListenerPhase] /\ notifyPos' \in [Replicas -> Nat]
  BY <1>1 DEF TypeOK, ListenerPhase, ReplayGap
<1>5. \A q \in Replicas :
        /\ notifyPos'[q] <= Len(log)
        /\ listener'[q] = "ready" => notifyPos'[q] <= lastSeen'[q]
  BY <1>1, <1>2, <1>3 DEF TypeOK, ListenerInv, ReplayGap
<1> QED
  BY <1>2, <1>3, <1>4, <1>5, BroadcastStep
------------------------------------------------------------------------------
(***************************************************************************)
(* Streams.                                                                *)
(***************************************************************************)

\* Streams end, and the replicas behind them, if any, start from nothing.
LEMMA EndStreamsStep ==
  ASSUME IInv, NEW W \in SUBSET Watchers, EndStreams(W),
         listener' \in [Replicas -> ListenerPhase],
         lastSeen' \in [Replicas -> Nat],
         sent' \in [Replicas -> Seq(Nat)],
         faults' \in Nat,
         UNCHANGED <<log, notifyPos>>,
         \A r \in Replicas :
           \/ listener'[r] = listener[r] /\ lastSeen'[r] = lastSeen[r] /\ sent'[r] = sent[r]
           \/ /\ listener'[r] = "down" /\ lastSeen'[r] = 0 /\ sent'[r] = << >>
              /\ \A w \in Watchers : at[w] = r => w \in W
  PROVE  IInv'
<1>1. TypeOK /\ Len(log) \in Nat
  BY DEF IInv, TypeOK
<1>2. \A w \in W : /\ stream'[w] = "closed" /\ since'[w] = 0 /\ rxPos'[w] = 0
                   /\ lastEmitted'[w] = 0 /\ caughtUp'[w] = {} /\ emitted'[w] = << >>
                   /\ passedOver'[w] = {}
  BY DEF EndStreams
<1>3. \A w \in Watchers \ W :
        /\ stream'[w] = stream[w] /\ since'[w] = since[w] /\ rxPos'[w] = rxPos[w]
        /\ lastEmitted'[w] = lastEmitted[w] /\ caughtUp'[w] = caughtUp[w]
        /\ emitted'[w] = emitted[w] /\ passedOver'[w] = passedOver[w]
  BY DEF EndStreams
<1>4. at' = at
  BY DEF EndStreams
<1>5. TypeOK'
  <2>1. stream' \in [Watchers -> StreamPhase] /\ since' \in [Watchers -> Nat]
          /\ rxPos' \in [Watchers -> Nat] /\ lastEmitted' \in [Watchers -> Nat]
    BY <1>1 DEF TypeOK, EndStreams, StreamPhase
  <2>2. caughtUp' \in [Watchers -> SUBSET Nat] /\ passedOver' \in [Watchers -> SUBSET Nat]
    BY <1>1 DEF TypeOK, EndStreams
  <2>3. emitted' \in [Watchers -> Seq(Nat)]
    BY <1>1 DEF TypeOK, EndStreams
  <2> QED
    BY <1>1, <1>4, <2>1, <2>2, <2>3 DEF TypeOK
<1>6. ListenerInv' /\ SentInv'
  <2> SUFFICES ASSUME NEW r \in Replicas
               PROVE  /\ notifyPos[r] <= Len(log) /\ lastSeen'[r] <= Len(log)
                      /\ listener'[r] = "ready" => notifyPos[r] <= lastSeen'[r]
                      /\ \A i \in 1 .. Len(sent'[r]) : sent'[r][i] \in 1 .. lastSeen'[r]
                      /\ \A i, j \in 1 .. Len(sent'[r]) : i < j => sent'[r][i] < sent'[r][j]
    BY DEF ListenerInv, SentInv
  <2>1. CASE listener'[r] = listener[r] /\ lastSeen'[r] = lastSeen[r] /\ sent'[r] = sent[r]
    BY <2>1 DEF IInv, ListenerInv, SentInv
  <2>2. CASE listener'[r] = "down" /\ lastSeen'[r] = 0 /\ sent'[r] = << >>
    <3>1. notifyPos[r] <= Len(log)
      BY DEF IInv, ListenerInv
    <3> QED
      BY <1>1, <2>2, <3>1
  <2> QED
    BY <2>1, <2>2
<1>7. \A w \in Watchers \ W : lastSeen'[at[w]] = lastSeen[at[w]] /\ sent'[at[w]] = sent[at[w]]
  BY <1>1 DEF TypeOK
<1>8. NotLiveInv'
  BY <1>2, <1>3 DEF IInv, NotLiveInv
<1>9. ReceiverInv'
  <2> SUFFICES ASSUME NEW w \in Watchers
               PROVE  rxPos'[w] <= Len(sent'[at[w]])
    BY <1>4 DEF ReceiverInv
  <2>1. CASE w \in W
    <3>1. Len(sent'[at[w]]) \in Nat
      BY <1>1 DEF TypeOK
    <3> QED
      BY <1>2, <2>1, <3>1
  <2>2. CASE w \notin W
    BY <1>3, <1>7, <2>2 DEF IInv, ReceiverInv
  <2> QED
    BY <2>1, <2>2
<1>10. \A w \in W : Carried(w)' = {}
  BY <1>2 DEF Carried
<1>11. \A w \in Watchers \ W : /\ Carried(w)' = Carried(w)
                               /\ \A i : Due(w, i)' <=> Due(w, i)
                               /\ \A i : InChannel(w, i)' <=> InChannel(w, i)
  <2> SUFFICES ASSUME NEW w \in Watchers \ W
               PROVE  /\ Carried(w)' = Carried(w)
                      /\ \A i : Due(w, i)' <=> Due(w, i)
                      /\ \A i : InChannel(w, i)' <=> InChannel(w, i)
    OBVIOUS
  <2>1. Carried(w)' = Carried(w)
    BY <1>3 DEF Carried
  <2>2. \A i : Due(w, i)' <=> Due(w, i)
    BY <1>3, <1>4 DEF Due
  <2>3. rxPos'[w] = rxPos[w] /\ sent'[at'[w]] = sent[at[w]]
    BY <1>3, <1>4, <1>7
  <2>4. \A i : InChannel(w, i)' <=> InChannel(w, i)
    BY <2>3 DEF InChannel
  <2> QED
    BY <2>1, <2>2, <2>4
<1>12. EmittedInv'
  <2> SUFFICES ASSUME NEW w \in Watchers
               PROVE  /\ since'[w] <= lastEmitted'[w] /\ lastEmitted'[w] <= Len(log)
                      /\ \A i \in Carried(w)' : Due(w, i)' /\ i <= lastEmitted'[w]
                      /\ \A i, j \in 1 .. Len(emitted'[w]) : i < j => emitted'[w][i] < emitted'[w][j]
                      /\ \A i \in 1 .. Len(emitted'[w]), c \in caughtUp'[w] : c < emitted'[w][i]
    BY DEF EmittedInv
  <2>1. CASE w \in W
    BY <1>1, <1>2, <1>10, <2>1
  <2>2. CASE w \notin W
    BY <1>3, <1>11, <2>2 DEF IInv, EmittedInv
  <2> QED
    BY <2>1, <2>2
<1>13. Live' \subseteq Live \ W /\ Live \subseteq Watchers
  BY <1>2, <1>3 DEF Live
<1>14. SettledInv'
  BY <1>3, <1>11, <1>13 DEF IInv, SettledInv, HasEmitted
<1>15. AheadInv'
  <2> SUFFICES ASSUME NEW w \in Watchers \ W, w \in Live, NEW i \in 1 .. Len(log), Due(w, i)
               PROVE  HasEmitted(w, i) \/ InChannel(w, i) \/ i > lastSeen[at[w]] \/ i \in passedOver[w]
    <3>1. \A w \in Live' : w \in Watchers \ W /\ w \in Live
      BY <1>13
    <3>2. \A w \in Watchers \ W : /\ lastSeen'[at'[w]] = lastSeen[at[w]]
                                  /\ passedOver'[w] = passedOver[w]
      BY <1>3, <1>4, <1>7
    <3> QED
      BY <1>4, <1>11, <3>1, <3>2 DEF AheadInv, HasEmitted
  <2> QED
    BY DEF IInv, AheadInv
<1>16. PassedOverInv'
  BY <1>2, <1>3, <1>4, <1>7 DEF IInv, PassedOverInv
<1> QED
  BY <1>5, <1>6, <1>8, <1>9, <1>12, <1>14, <1>15, <1>16 DEF IInv

LEMMA CloseActions ==
  ASSUME IInv, NEW w \in Watchers, Lagged(w) \/ Disconnect(w)
  PROVE  IInv'
<1>1. EndStreams({w}) /\ UNCHANGED <<log, listenerVars, faults>>
  BY DEF Lagged, Disconnect
<1> QED
  BY <1>1, EndStreamsStep DEF IInv, TypeOK, listenerVars

LEMMA CrashStep ==
  ASSUME IInv, NEW r \in Replicas, Crash(r)
  PROVE  IInv'
<1> DEFINE W == {w \in Watchers : at[w] = r}
<1>1. TypeOK
  BY DEF IInv
<1>2. EndStreams(W) /\ UNCHANGED <<log, notifyPos>> /\ faults' \in Nat
  BY <1>1 DEF Crash, Fault, TypeOK
<1>3. /\ listener' \in [Replicas -> ListenerPhase]
      /\ lastSeen' \in [Replicas -> Nat]
      /\ sent' \in [Replicas -> Seq(Nat)]
  BY <1>1 DEF Crash, TypeOK, ListenerPhase
<1>4. \A q \in Replicas :
        \/ listener'[q] = listener[q] /\ lastSeen'[q] = lastSeen[q] /\ sent'[q] = sent[q]
        \/ /\ listener'[q] = "down" /\ lastSeen'[q] = 0 /\ sent'[q] = << >>
           /\ \A w \in Watchers : at[w] = q => w \in W
  BY <1>1 DEF Crash, TypeOK
<1> HIDE DEF W
<1> QED
  BY <1>2, <1>3, <1>4, EndStreamsStep DEF W

\* One request moves. What has to hold of it afterwards:
StreamInv(w) ==
  /\ stream[w] # "live" =>
       /\ caughtUp[w] = {} /\ emitted[w] = << >> /\ passedOver[w] = {}
       /\ lastEmitted[w] = since[w]
  /\ rxPos[w] <= Len(sent[at[w]])
  /\ since[w] <= lastEmitted[w] /\ lastEmitted[w] <= Len(log)
  /\ \A i \in Carried(w) : Due(w, i) /\ i <= lastEmitted[w]
  /\ \A i, j \in 1 .. Len(emitted[w]) : i < j => emitted[w][i] < emitted[w][j]
  /\ \A i \in 1 .. Len(emitted[w]), c \in caughtUp[w] : c < emitted[w][i]
  /\ stream[w] = "live" => \A i \in 1 .. Len(log) : Due(w, i) =>
       /\ i <= lastEmitted[w] => HasEmitted(w, i) \/ i \in passedOver[w]
       /\ HasEmitted(w, i) \/ InChannel(w, i) \/ i > lastSeen[at[w]] \/ i \in passedOver[w]
  /\ passedOver[w] \subseteq 1 .. lastSeen[at[w]]
  /\ \A i \in 1 .. Len(sent[at[w]]) : sent[at[w]][i] \notin passedOver[w]

LEMMA StreamInvs ==
  IInv => \A w \in Watchers : StreamInv(w)
BY DEF IInv, StreamInv, NotLiveInv, ReceiverInv, EmittedInv, SettledInv, AheadInv, PassedOverInv, Live

LEMMA OneStreamStep ==
  ASSUME IInv, NEW w \in Watchers, TypeOK', StreamInv(w)',
         UNCHANGED <<log, listenerVars>>,
         \A q \in Watchers \ {w} :
           /\ stream'[q] = stream[q] /\ at'[q] = at[q] /\ since'[q] = since[q]
           /\ rxPos'[q] = rxPos[q] /\ lastEmitted'[q] = lastEmitted[q]
           /\ caughtUp'[q] = caughtUp[q] /\ emitted'[q] = emitted[q]
           /\ passedOver'[q] = passedOver[q]
  PROVE  IInv'
<1> USE DEF listenerVars
<1>1. ListenerInv' /\ SentInv'
  BY DEF IInv, ListenerInv, SentInv
<1>2. ASSUME NEW q \in Watchers \ {w}
      PROVE  StreamInv(q)'
  <2>1. StreamInv(q)
    BY StreamInvs
  <2>2. /\ Carried(q)' = Carried(q)
        /\ \A i : Due(q, i)' <=> Due(q, i)
        /\ \A i : HasEmitted(q, i)' <=> HasEmitted(q, i)
        /\ \A i : InChannel(q, i)' <=> InChannel(q, i)
    BY DEF Carried, Due, HasEmitted, InChannel
  <2> QED
    BY <2>1, <2>2 DEF StreamInv
<1>3. \A q \in Watchers : StreamInv(q)'
  BY <1>2
<1> QED
  BY <1>1, <1>3 DEF IInv, StreamInv, NotLiveInv, ReceiverInv, EmittedInv, SettledInv, AheadInv,
                    PassedOverInv, Live

LEMMA SubscribeStep ==
  ASSUME IInv, NEW w \in Watchers, NEW r \in Replicas, NEW s \in 0 .. Len(log),
         Subscribe(w, r, s)
  PROVE  IInv'
<1>1. TypeOK /\ Len(log) \in Nat /\ s \in Nat /\ s <= Len(log) /\ Len(sent[r]) \in Nat
  <2>1. TypeOK
    BY DEF IInv
  <2>2. log \in Seq(Keys) /\ sent[r] \in Seq(Nat)
    BY <2>1 DEF TypeOK
  <2>3. Len(log) \in Nat /\ Len(sent[r]) \in Nat
    BY <2>2
  <2> QED
    BY <2>1, <2>3
<1>2. TypeOK'
  <2>1. /\ stream' \in [Watchers -> StreamPhase] /\ at' \in [Watchers -> Replicas]
        /\ since' \in [Watchers -> Nat] /\ rxPos' \in [Watchers -> Nat]
        /\ lastEmitted' \in [Watchers -> Nat]
    BY <1>1 DEF TypeOK, StreamPhase, Subscribe
  <2>2. caughtUp' \in [Watchers -> SUBSET Nat] /\ passedOver' \in [Watchers -> SUBSET Nat]
    BY <1>1 DEF TypeOK, Subscribe
  <2>3. emitted' \in [Watchers -> Seq(Nat)]
    BY <1>1 DEF TypeOK, Subscribe
  <2>4. UNCHANGED <<log, listener, notifyPos, lastSeen, sent, faults>>
    BY DEF Subscribe, listenerVars
  <2> QED
    BY <1>1, <2>1, <2>2, <2>3, <2>4 DEF TypeOK
<1>3. UNCHANGED <<log, listenerVars, faults>>
  BY DEF Subscribe
<1>4. /\ stream'[w] = "subscribed" /\ at'[w] = r /\ since'[w] = s /\ lastEmitted'[w] = s
      /\ rxPos'[w] = Len(sent[r]) /\ caughtUp'[w] = {} /\ emitted'[w] = << >> /\ passedOver'[w] = {}
  BY <1>1 DEF Subscribe, TypeOK
<1>5. Carried(w)' = {}
  BY <1>4 DEF Carried
<1>6. StreamInv(w)'
  BY <1>1, <1>3, <1>4, <1>5 DEF StreamInv, listenerVars
<1>7. \A q \in Watchers \ {w} :
        /\ stream'[q] = stream[q] /\ at'[q] = at[q] /\ since'[q] = since[q]
        /\ rxPos'[q] = rxPos[q] /\ lastEmitted'[q] = lastEmitted[q]
        /\ caughtUp'[q] = caughtUp[q] /\ emitted'[q] = emitted[q]
        /\ passedOver'[q] = passedOver[q]
  BY <1>1 DEF Subscribe, TypeOK
<1> QED
  BY <1>2, <1>3, <1>6, <1>7, OneStreamStep

LEMMA CatchUpStep ==
  ASSUME IInv, NEW w \in Watchers, CatchUp(w)
  PROVE  IInv'
<1> DEFINE due == {i \in 1 .. Len(log) : Due(w, i)}
<1>1. TypeOK /\ StreamInv(w) /\ Len(log) \in Nat /\ since[w] \in Nat
  <2>1. TypeOK /\ StreamInv(w)
    BY StreamInvs DEF IInv
  <2> QED
    BY <2>1 DEF TypeOK
<1>2. /\ stream[w] = "subscribed"
      /\ caughtUp[w] = {} /\ emitted[w] = << >> /\ passedOver[w] = {}
      /\ since[w] <= Len(log)
  BY <1>1 DEF CatchUp, StreamInv
<1>3. PICK last \in due \cup {since[w]} :
        /\ \A i \in due : i <= last
        /\ lastEmitted' = [lastEmitted EXCEPT ![w] = last]
  BY DEF CatchUp
<1>4. \A i : Due(w, i) => i \in 1 .. Len(log) /\ since[w] < i
  BY <1>1 DEF Due
<1>5. last \in Nat /\ since[w] <= last /\ last <= Len(log)
  BY <1>1, <1>2, <1>3, <1>4
<1>6. UNCHANGED <<log, listenerVars, at, since, rxPos, emitted, passedOver, faults>>
  BY DEF CatchUp
<1>7. due \subseteq Nat
  OBVIOUS
<1>8. /\ stream' = [stream EXCEPT ![w] = "live"]
      /\ caughtUp' = [caughtUp EXCEPT ![w] = due]
  BY DEF CatchUp
<1> HIDE DEF due
<1>9. TypeOK'
  BY <1>1, <1>3, <1>5, <1>6, <1>7, <1>8 DEF TypeOK, StreamPhase, listenerVars
<1>10. stream'[w] = "live" /\ caughtUp'[w] = due /\ lastEmitted'[w] = last
  BY <1>1, <1>3, <1>8 DEF TypeOK
<1>11. Carried(w)' = due
  BY <1>2, <1>6, <1>10 DEF Carried
<1>12. \A i : Due(w, i)' <=> Due(w, i)
  BY <1>6 DEF Due
<1>13. \A i : Due(w, i) => i \in due
  BY <1>4 DEF due
<1>14. \A i \in due : Due(w, i)
  BY DEF due
<1>15. StreamInv(w)'
  <2>1. \A i \in Carried(w)' : Due(w, i)' /\ i <= lastEmitted'[w]
    BY <1>3, <1>10, <1>11, <1>12, <1>14
  <2>2. \A i : Due(w, i)' => HasEmitted(w, i)'
    BY <1>11, <1>12, <1>13 DEF HasEmitted
  <2>3. rxPos'[w] <= Len(sent'[at'[w]])
    BY <1>1, <1>6 DEF StreamInv, listenerVars
  <2> QED
    BY <1>1, <1>2, <1>5, <1>6, <1>10, <2>1, <2>2, <2>3 DEF StreamInv, listenerVars
<1>16. \A q \in Watchers \ {w} :
        /\ stream'[q] = stream[q] /\ lastEmitted'[q] = lastEmitted[q] /\ caughtUp'[q] = caughtUp[q]
  BY <1>1, <1>3, <1>8 DEF TypeOK
<1> QED
  BY <1>6, <1>9, <1>15, <1>16, OneStreamStep

(***************************************************************************)
(* The heart of the matter: what recv yields is the next id that the       *)
(* stream can owe, everything owed before it has been settled.             *)
(***************************************************************************)
Received(w) == sent[at[w]][rxPos[w] + 1]

LEMMA ReceivedIsNext ==
  ASSUME IInv, NEW w \in Watchers, stream[w] = "live", Behind(w) \in 1 .. RingSize
  PROVE  /\ Received(w) \in 1 .. Len(log)
         /\ Received(w) \notin passedOver[w]
         /\ \A i \in 1 .. Len(log) :
              Due(w, i) /\ i < Received(w) => HasEmitted(w, i) \/ i \in passedOver[w]
<1> DEFINE r == at[w]
           k == rxPos[w] + 1
<1>1. TypeOK /\ StreamInv(w) /\ ListenerInv /\ SentInv
  BY StreamInvs DEF IInv
<1>2. /\ r \in Replicas /\ Len(log) \in Nat /\ lastSeen[r] \in Nat /\ rxPos[w] \in Nat
      /\ sent[r] \in Seq(Nat) /\ Len(sent[r]) \in Nat
  BY <1>1 DEF TypeOK
<1>3. k \in 1 .. Len(sent[r]) /\ k \in Nat
  <2>1. Len(sent[r]) - rxPos[w] \in 1 .. RingSize /\ RingSize \in Nat
    BY EventFanoutAssumption DEF Behind
  <2>2. Len(sent[r]) - rxPos[w] >= 1
    BY <2>1
  <2> QED
    <3> HIDE DEF r
    <3> QED
      BY <1>2, <2>2
<1>4. Received(w) \in 1 .. lastSeen[r] /\ lastSeen[r] <= Len(log)
  BY <1>1, <1>2, <1>3 DEF Received, SentInv, ListenerInv
<1>5. Received(w) \notin passedOver[w]
  BY <1>1, <1>3 DEF Received, StreamInv
<1>6. ASSUME NEW i \in 1 .. Len(log), Due(w, i), i < Received(w)
      PROVE  HasEmitted(w, i) \/ i \in passedOver[w]
  <2>1. HasEmitted(w, i) \/ InChannel(w, i) \/ i > lastSeen[r] \/ i \in passedOver[w]
    BY <1>1, <1>6 DEF StreamInv
  <2>2. ~(i > lastSeen[r])
    BY <1>2, <1>4, <1>6
  <2>3. ~InChannel(w, i)
    <3> SUFFICES ASSUME NEW j \in rxPos[w] + 1 .. Len(sent[r])
                 PROVE  sent[r][j] # i
      BY DEF InChannel
    <3>1. j \in 1 .. Len(sent[r]) /\ k <= j /\ j \in Nat
      BY <1>2, <1>3
    <3>3. sent[r][j] \in Nat /\ sent[r][k] \in Nat
      <4>1. \A m \in 1 .. Len(sent[r]) : sent[r][m] \in 1 .. lastSeen[r]
        BY <1>1, <1>2 DEF SentInv
      <4>2. \A m \in 1 .. Len(sent[r]) : sent[r][m] \in Nat
        BY <4>1
      <4> QED
        BY <1>3, <3>1, <4>2
    <3>2. sent[r][k] <= sent[r][j]
      <4>1. \A m, n \in 1 .. Len(sent[r]) : m < n => sent[r][m] < sent[r][n]
        BY <1>1, <1>2 DEF SentInv
      <4>2. CASE j = k
        BY <3>3, <4>2
      <4>3. CASE k < j
        BY <1>3, <3>1, <3>3, <4>1, <4>3
      <4> QED
        BY <1>3, <3>1, <4>2, <4>3
    <3> QED
      BY <1>6, <3>2, <3>3 DEF Received
  <2> QED
    BY <2>1, <2>2, <2>3
<1> QED
  BY <1>2, <1>4, <1>5, <1>6

LEMMA RecvStep ==
  ASSUME IInv, NEW w \in Watchers, Recv(w)
  PROVE  IInv'
<1> DEFINE id == Received(w)
<1>1. TypeOK /\ StreamInv(w) /\ Len(log) \in Nat
  <2>1. TypeOK /\ StreamInv(w)
    BY StreamInvs DEF IInv
  <2> QED
    BY <2>1 DEF TypeOK
<1>2. /\ stream[w] = "live" /\ Behind(w) \in 1 .. RingSize
      /\ rxPos' = [rxPos EXCEPT ![w] = @ + 1]
      /\ UNCHANGED <<log, listenerVars, stream, at, since, caughtUp, passedOver, faults>>
  BY DEF Recv
<1>3. /\ id \in 1 .. Len(log) /\ id \notin passedOver[w]
      /\ \A i \in 1 .. Len(log) : Due(w, i) /\ i < id => HasEmitted(w, i) \/ i \in passedOver[w]
  BY <1>2, ReceivedIsNext
<1>4. /\ rxPos[w] \in Nat /\ rxPos'[w] = rxPos[w] + 1 /\ Len(sent[at[w]]) \in Nat
      /\ rxPos'[w] <= Len(sent[at[w]])
  <2>1. rxPos[w] \in Nat /\ Len(sent[at[w]]) \in Nat /\ rxPos'[w] = rxPos[w] + 1
    BY <1>1, <1>2 DEF TypeOK
  <2> QED
    BY <2>1, <1>2, EventFanoutAssumption DEF Behind
<1>5. /\ emitted[w] \in Seq(Nat) /\ Len(emitted[w]) \in Nat /\ lastEmitted[w] \in Nat
      /\ since[w] \in Nat
  BY <1>1 DEF TypeOK
<1>6. \A i : Due(w, i)' <=> Due(w, i)
  BY <1>2 DEF Due
<1>7. \A i : InChannel(w, i) => InChannel(w, i)' \/ i = id
  <2> SUFFICES ASSUME NEW i, NEW j \in rxPos[w] + 1 .. Len(sent[at[w]]), sent[at[w]][j] = i, i # id
               PROVE  InChannel(w, i)'
    BY DEF InChannel
  <2>1. j # rxPos[w] + 1
    BY DEF Received
  <2>2. j \in rxPos'[w] + 1 .. Len(sent[at[w]])
    BY <1>4, <2>1
  <2> QED
    BY <1>2, <2>2 DEF InChannel, listenerVars
<1> HIDE DEF id
<1>8. CASE /\ log[id] \notin Watched[w] \/ id <= lastEmitted[w]
           /\ UNCHANGED <<lastEmitted, emitted>>
  <2>1. TypeOK'
    <3>1. rxPos' \in [Watchers -> Nat]
      BY <1>1, <1>2 DEF TypeOK
    <3> QED
      BY <1>1, <1>2, <1>8, <3>1 DEF TypeOK, listenerVars
  <2>2. Carried(w)' = Carried(w)
    BY <1>2, <1>8 DEF Carried
  <2>3. Due(w, id) => HasEmitted(w, id) \/ id \in passedOver[w]
    <3>1. CASE log[id] \notin Watched[w]
      BY <3>1 DEF Due
    <3>2. CASE id <= lastEmitted[w]
      BY <1>1, <1>2, <1>3, <3>2 DEF StreamInv
    <3> QED
      BY <1>8, <3>1, <3>2
  <2>4. StreamInv(w)'
    <3>1. \A i \in 1 .. Len(log) : Due(w, i) =>
             HasEmitted(w, i) \/ InChannel(w, i)' \/ i > lastSeen[at[w]] \/ i \in passedOver[w]
      BY <1>1, <1>2, <1>7, <2>3 DEF StreamInv
    <3>2. \A i : HasEmitted(w, i)' <=> HasEmitted(w, i)
      BY <2>2 DEF HasEmitted
    <3> QED
      BY <1>1, <1>2, <1>4, <1>6, <1>8, <2>2, <3>1, <3>2 DEF StreamInv, listenerVars
  <2>5. \A q \in Watchers \ {w} : rxPos'[q] = rxPos[q]
    BY <1>1, <1>2 DEF TypeOK
  <2> QED
    BY <1>2, <1>8, <2>1, <2>4, <2>5, OneStreamStep
<1>9. CASE /\ log[id] \in Watched[w] /\ id > lastEmitted[w]
           /\ lastEmitted' = [lastEmitted EXCEPT ![w] = id]
           /\ emitted' = [emitted EXCEPT ![w] = Append(@, id)]
  <2>1. id \in Nat /\ Due(w, id)
    <3>1. since[w] <= lastEmitted[w]
      BY <1>1 DEF StreamInv
    <3> QED
      BY <1>1, <1>3, <1>5, <1>9, <3>1 DEF Due
  <2>2. TypeOK'
    <3>1. Append(emitted[w], id) \in Seq(Nat)
      BY <1>5, <2>1
    <3>2. emitted' \in [Watchers -> Seq(Nat)]
      BY <1>1, <1>9, <3>1 DEF TypeOK
    <3>3. rxPos' \in [Watchers -> Nat]
      BY <1>1, <1>2 DEF TypeOK
    <3>4. lastEmitted' \in [Watchers -> Nat]
      BY <1>1, <1>9, <2>1 DEF TypeOK
    <3> QED
      BY <1>1, <1>2, <3>2, <3>3, <3>4 DEF TypeOK, listenerVars
  <2>3. lastEmitted'[w] = id /\ emitted'[w] = Append(emitted[w], id)
    BY <1>1, <1>9 DEF TypeOK
  <2>4. /\ Len(emitted'[w]) = Len(emitted[w]) + 1
        /\ \A i \in 1 .. Len(emitted[w]) : emitted'[w][i] = emitted[w][i]
        /\ emitted'[w][Len(emitted[w]) + 1] = id
    BY <1>5, <2>1, <2>3
  <2>5. Carried(w)' = Carried(w) \cup {id}
    <3>1. \A i \in 1 .. Len(emitted'[w]) : i \in 1 .. Len(emitted[w]) \/ i = Len(emitted[w]) + 1
      BY <1>5, <2>4
    <3>2. {emitted'[w][i] : i \in 1 .. Len(emitted'[w])}
            = {emitted[w][i] : i \in 1 .. Len(emitted[w])} \cup {id}
      <4>1. Len(emitted[w]) + 1 \in 1 .. Len(emitted'[w])
              /\ 1 .. Len(emitted[w]) \subseteq 1 .. Len(emitted'[w])
        BY <1>5, <2>4
      <4> QED
        BY <2>4, <3>1, <4>1
    <3> QED
      BY <1>2, <3>2 DEF Carried
  <2>6. \A i : HasEmitted(w, i)' <=> HasEmitted(w, i) \/ i = id
    BY <2>5 DEF HasEmitted
  <2>7. \A i \in Carried(w) : i \in Nat /\ i < id
    BY <1>1, <1>5, <1>9, <2>1 DEF StreamInv, Due
  <2>8. \A i \in Carried(w)' : Due(w, i)' /\ i <= lastEmitted'[w]
    BY <1>1, <1>6, <2>1, <2>3, <2>5, <2>7 DEF StreamInv
  <2>9. \A i, j \in 1 .. Len(emitted'[w]) : i < j => emitted'[w][i] < emitted'[w][j]
    <3> SUFFICES ASSUME NEW i \in 1 .. Len(emitted'[w]), NEW j \in 1 .. Len(emitted'[w]), i < j
                 PROVE  emitted'[w][i] < emitted'[w][j]
      OBVIOUS
    <3>1. i \in 1 .. Len(emitted[w])
      BY <1>5, <2>4
    <3>2. CASE j \in 1 .. Len(emitted[w])
      BY <1>1, <2>4, <3>1, <3>2 DEF StreamInv
    <3>3. CASE j = Len(emitted[w]) + 1
      BY <2>4, <2>7, <3>1, <3>3 DEF Carried
    <3> QED
      BY <1>5, <2>4, <3>2, <3>3
  <2>10. \A i \in 1 .. Len(emitted'[w]), c \in caughtUp[w] : c < emitted'[w][i]
    <3> SUFFICES ASSUME NEW i \in 1 .. Len(emitted'[w]), NEW c \in caughtUp[w]
                 PROVE  c < emitted'[w][i]
      OBVIOUS
    <3>1. CASE i \in 1 .. Len(emitted[w])
      BY <1>1, <2>4, <3>1 DEF StreamInv
    <3>2. CASE i = Len(emitted[w]) + 1
      BY <2>4, <2>7, <3>2 DEF Carried
    <3> QED
      BY <1>5, <2>4, <3>1, <3>2
  <2>11. ASSUME NEW i \in 1 .. Len(log), Due(w, i)
         PROVE  /\ i <= id => HasEmitted(w, i)' \/ i \in passedOver[w]
                /\ HasEmitted(w, i)' \/ InChannel(w, i)' \/ i > lastSeen[at[w]] \/ i \in passedOver[w]
    <3>1. i <= id => i < id \/ i = id
      BY <2>1
    <3> QED
      BY <1>1, <1>2, <1>3, <1>7, <2>6, <2>11, <3>1 DEF StreamInv
  <2>12. StreamInv(w)'
    <3>1. since[w] <= id /\ id <= Len(log)
      BY <1>1, <1>3, <1>5, <1>9 DEF StreamInv
    <3> QED
      BY <1>1, <1>2, <1>4, <1>6, <2>3, <2>8, <2>9, <2>10, <2>11, <3>1 DEF StreamInv, listenerVars
  <2>13. \A q \in Watchers \ {w} :
           rxPos'[q] = rxPos[q] /\ lastEmitted'[q] = lastEmitted[q] /\ emitted'[q] = emitted[q]
    BY <1>1, <1>2, <1>9 DEF TypeOK
  <2> QED
    BY <1>2, <2>2, <2>12, <2>13, OneStreamStep
<1> QED
  BY <1>8, <1>9 DEF Recv, Received, id
------------------------------------------------------------------------------
(***************************************************************************)
(* The invariant holds throughout.                                         *)
(***************************************************************************)
LEMMA NextStep ==
  ASSUME IInv, [Next]_vars
  PROVE  IInv'
<1>1. ASSUME NEW k \in Keys, Write(k)
      PROVE  IInv'
  BY <1>1, WriteStep
<1>2. ASSUME NEW r \in Replicas,
             ListenerStep(r) \/ ConnectionLost(r) \/ RunOnceFails(r) \/ Crash(r)
      PROVE  IInv'
  BY <1>2, PositionActions, InitLastSeenStep, TryRecvStep, ReplayGapStep, CrashStep DEF ListenerStep
<1>3. ASSUME NEW w \in Watchers, StreamStep(w) \/ Disconnect(w)
      PROVE  IInv'
  BY <1>3, CatchUpStep, RecvStep, CloseActions DEF StreamStep
<1>4. ASSUME NEW w \in Watchers, NEW r \in Replicas, NEW s \in 0 .. Len(log), Subscribe(w, r, s)
      PROVE  IInv'
  BY <1>4, SubscribeStep
<1>5. CASE UNCHANGED vars
  <2>1. UNCHANGED <<log, listener, notifyPos, lastSeen, sent, streamVars, faults>>
    BY <1>5 DEF vars, streamVars
  <2> QED
    BY <2>1, PositionStep DEF IInv, TypeOK, ListenerInv
<1> QED
  BY <1>1, <1>2, <1>3, <1>4, <1>5 DEF Next

(***************************************************************************)
(* The invariant holds of listeners, ring and streams in every behaviour   *)
(* of listener.rs and watch.rs.                                            *)
(***************************************************************************)
THEOREM Invariance == Spec => []IInv
BY InitIInv, NextStep, PTL DEF Spec

(***************************************************************************)
(* Type correctness of listeners, channels and streams.                    *)
(***************************************************************************)
THEOREM TypeCorrect == Spec => []TypeOK
<1>1. IInv => TypeOK
  BY DEF IInv
<1> QED
  BY <1>1, Invariance, PTL

(***************************************************************************)
(* No replica ever broadcasts an event twice or out of order, whatever     *)
(* connections it loses and however replay and notifications overlap       *)
(* (listener.rs:75-90).                                                    *)
(***************************************************************************)
THEOREM BroadcastCorrect == Spec => []BroadcastInOrder
<1>1. IInv => BroadcastInOrder
  BY DEF IInv, SentInv, BroadcastInOrder
<1> QED
  BY <1>1, Invariance, PTL

(***************************************************************************)
(* Every stream carries its events once, in id order, and only those its   *)
(* client asked for (watch.rs:88-94).                                      *)
(***************************************************************************)
THEOREM EmissionCorrect == Spec => []EmittedInOrder
<1>1. IInv => EmittedInOrder
  BY DEF IInv, EmittedInv, EmittedInOrder
<1> QED
  BY <1>1, Invariance, PTL

(***************************************************************************)
(* With any number of replicas and streams, no hand-over leaves a hole: an *)
(* event owed is carried, in the channel, still before the listener, or    *)
(* given up at a tip read (watch.rs:27-72, listener.rs:60-90).             *)
(***************************************************************************)
THEOREM HandOversCorrect == Spec => []NothingFallsBetween
<1>1. IInv => NothingFallsBetween
  <2> SUFFICES ASSUME IInv, NEW w \in Watchers, stream[w] = "live",
                      NEW i \in 1 .. Len(log), Due(w, i)
               PROVE  \/ HasEmitted(w, i)
                      \/ InChannel(w, i)
                      \/ i > lastSeen[at[w]] /\ (listener[at[w]] = "ready" => i > notifyPos[at[w]])
                      \/ i \in passedOver[w]
    BY DEF NothingFallsBetween
  <2>1. HasEmitted(w, i) \/ InChannel(w, i) \/ i > lastSeen[at[w]] \/ i \in passedOver[w]
    BY DEF IInv, AheadInv, Live
  <2>2. at[w] \in Replicas /\ lastSeen[at[w]] \in Nat /\ notifyPos[at[w]] \in Nat
    BY DEF IInv, TypeOK
  <2>3. listener[at[w]] = "ready" => notifyPos[at[w]] <= lastSeen[at[w]]
    BY <2>2 DEF IInv, ListenerInv
  <2> QED
    BY <2>1, <2>2, <2>3
<1> QED
  BY <1>1, Invariance, PTL
------------------------------------------------------------------------------
(***************************************************************************)
(* Streams keep the promise of WatchStream.                                *)
(***************************************************************************)

\* What does not show in log, Live, since, Carried and passedOver is a stutter.
LEMMA ViewStutter ==
  ASSUME UNCHANGED <<log, passedOver>>,
         Live' = Live,
         \A w \in Live : since'[w] = since[w],
         \A w \in Watchers : Carried(w)' = Carried(w)
  PROVE  UNCHANGED Promise!streamVars
BY DEF Promise!streamVars

LEMMA WriteView ==
  ASSUME NEW k \in Keys, Write(k)
  PROVE  Promise!Write(k)
BY DEF Write, streamVars, Promise!Write, Live, Carried

\* What the promise calls owed is what is due.
LEMMA OwedIsDue ==
  ASSUME TypeOK, NEW w \in Live
  PROVE  Promise!Owed(w) = {i \in 1 .. Len(log) : Due(w, i)}
<1>1. w \in Watchers /\ since[w] \in Nat /\ Len(log) \in Nat
  BY DEF TypeOK, Live
<1>2. Promise!Owed(w) = {i \in since[w] + 1 .. Len(log) : log[i] \in Watched[w]}
  BY <1>1 DEF Promise!Owed
<1> QED
  BY <1>1, <1>2 DEF Due

LEMMA InitLastSeenView ==
  ASSUME IInv, NEW r \in Replicas, InitLastSeen(r)
  PROVE  Promise!Lose({w \in Live : at[w] = r})
<1> DEFINE W == {w \in Live : at[w] = r}
<1>1. W \subseteq Live /\ Live \subseteq Watchers
  BY DEF Live
<1>2. lastSeen[r] \in 0 .. Len(log)
  BY DEF IInv, TypeOK, ListenerInv
<1>3. passedOver' = [w \in Watchers |->
        passedOver[w] \cup (IF w \in W THEN lastSeen[r] + 1 .. Len(log) ELSE {})]
  <2>1. passedOver' = [w \in Watchers |->
          IF stream[w] = "live" /\ at[w] = r
          THEN passedOver[w] \cup (lastSeen[r] + 1 .. Len(log))
          ELSE passedOver[w]]
    BY DEF InitLastSeen
  <2> QED
    BY <2>1 DEF Live
<1>4. UNCHANGED <<log, stream, since, caughtUp, emitted>>
  BY DEF InitLastSeen
<1>5. UNCHANGED <<log, Live, [w \in Watchers |-> IF w \in Live THEN since[w] ELSE 0],
                  [w \in Watchers |-> Carried(w)]>>
  BY <1>4 DEF Live, Carried
<1> HIDE DEF W
<1> QED
  BY <1>1, <1>2, <1>3, <1>5 DEF Promise!Lose, W

LEMMA EndStreamsView ==
  ASSUME NEW W \in SUBSET Watchers, EndStreams(W), log' = log
  PROVE  Promise!Close(W)
<1>1. Live' = Live \ W
  BY DEF EndStreams, Live
<1>2. passedOver' = [w \in Watchers |-> IF w \in W THEN {} ELSE passedOver[w]]
  BY DEF EndStreams
<1>3. \A w \in Watchers : Carried(w)' = IF w \in W THEN {} ELSE Carried(w)
  BY DEF EndStreams, Carried
<1>4. \A w \in Watchers : since'[w] = IF w \in W THEN 0 ELSE since[w]
  BY DEF EndStreams
<1> QED
  BY <1>1, <1>2, <1>3, <1>4 DEF Promise!Close

LEMMA SubscribeView ==
  ASSUME IInv, NEW w \in Watchers, NEW r \in Replicas, NEW s \in 0 .. Len(log),
         Subscribe(w, r, s)
  PROVE  UNCHANGED Promise!streamVars
<1>1. TypeOK /\ StreamInv(w)
  BY StreamInvs DEF IInv
<1>2. stream[w] = "closed" /\ caughtUp[w] = {} /\ emitted[w] = << >> /\ passedOver[w] = {}
  BY <1>1 DEF Subscribe, StreamInv
<1>3. Live' = Live /\ w \notin Live
  BY <1>1, <1>2 DEF Subscribe, Live, TypeOK
<1>4. caughtUp' = caughtUp /\ emitted' = emitted /\ passedOver' = passedOver
  BY <1>1, <1>2 DEF Subscribe, TypeOK
<1>5. \A q \in Live : since'[q] = since[q]
  BY <1>1, <1>3 DEF Subscribe, TypeOK, Live
<1> QED
  BY <1>3, <1>4, <1>5, ViewStutter DEF Subscribe, Carried

LEMMA CatchUpView ==
  ASSUME IInv, NEW w \in Watchers, CatchUp(w)
  PROVE  Promise!Open(w)
<1> DEFINE due == {i \in 1 .. Len(log) : Due(w, i)}
<1>1. TypeOK /\ StreamInv(w)
  BY StreamInvs DEF IInv
<1>2. /\ stream[w] = "subscribed" /\ emitted[w] = << >> /\ since[w] \in 0 .. Len(log)
      /\ UNCHANGED <<log, since, emitted, passedOver>>
  BY <1>1 DEF CatchUp, StreamInv, TypeOK, listenerVars
<1>3. stream' = [stream EXCEPT ![w] = "live"] /\ caughtUp' = [caughtUp EXCEPT ![w] = due]
  BY DEF CatchUp
<1>4. w \notin Live /\ Live' = Live \cup {w}
  BY <1>1, <1>2, <1>3 DEF Live, TypeOK
<1>5. TypeOK'
  BY CatchUpStep DEF IInv
<1>6. Promise!Owed(w)' = due
  <2>1. Promise!Owed(w)' = {i \in since'[w] + 1 .. Len(log') : log'[i] \in Watched[w]}
    BY <1>4 DEF Promise!Owed
  <2> QED
    BY <1>1, <1>2, <2>1 DEF Due, TypeOK
<1>7. \A q \in Watchers : Carried(q)' = IF q = w THEN due ELSE Carried(q)
  BY <1>1, <1>2, <1>3 DEF Carried, TypeOK
<1> HIDE DEF due
<1>8. [q \in Watchers |-> IF q \in Live' THEN since'[q] ELSE 0]
        = [[q \in Watchers |-> IF q \in Live THEN since[q] ELSE 0] EXCEPT ![w] = since[w]]
  BY <1>2, <1>4
<1>9. [q \in Watchers |-> Carried(q)'] = [[q \in Watchers |-> Carried(q)] EXCEPT ![w] = due]
  BY <1>7
<1> QED
  BY <1>2, <1>4, <1>6, <1>8, <1>9 DEF Promise!Open

\* recv carries the least id that is still ahead, or nothing.
LEMMA RecvView ==
  ASSUME IInv, NEW w \in Watchers, Recv(w)
  PROVE  Promise!Carry(w) \/ UNCHANGED Promise!streamVars
<1> DEFINE id == Received(w)
<1>1. TypeOK /\ StreamInv(w)
  BY StreamInvs DEF IInv
<1>2. /\ stream[w] = "live" /\ Behind(w) \in 1 .. RingSize
      /\ UNCHANGED <<log, stream, since, caughtUp, passedOver>>
  BY DEF Recv
<1>3. /\ id \in 1 .. Len(log) /\ id \notin passedOver[w]
      /\ \A i \in 1 .. Len(log) : Due(w, i) /\ i < id => HasEmitted(w, i) \/ i \in passedOver[w]
  BY <1>2, ReceivedIsNext
<1>4. w \in Live /\ Live' = Live
  BY <1>2 DEF Live
<1> HIDE DEF id
<1>5. CASE UNCHANGED emitted
  BY <1>2, <1>4, <1>5, ViewStutter DEF Carried
<1>6. CASE /\ log[id] \in Watched[w] /\ id > lastEmitted[w]
           /\ emitted' = [emitted EXCEPT ![w] = Append(@, id)]
  <2>1. /\ id \in Nat /\ Len(log) \in Nat /\ lastEmitted[w] \in Nat /\ since[w] \in Nat
        /\ emitted[w] \in Seq(Nat) /\ Len(emitted[w]) \in Nat
    BY <1>1, <1>3 DEF TypeOK
  <2>2. Due(w, id) /\ \A i \in Carried(w) : i \in Nat /\ i < id
    BY <1>1, <1>3, <1>6, <2>1 DEF StreamInv, Due
  <2>3. Promise!Ahead(w) = {i \in 1 .. Len(log) : /\ Due(w, i) /\ i \notin passedOver[w]
                                                 /\ \A j \in Carried(w) : j < i}
    BY <1>1, <1>4, OwedIsDue DEF Promise!Ahead
  <2>4. id \in Promise!Ahead(w)
    BY <1>3, <2>2, <2>3
  <2>5. \A i \in Promise!Ahead(w) : id <= i
    <3> SUFFICES ASSUME NEW i \in 1 .. Len(log), Due(w, i), i \notin passedOver[w],
                        \A j \in Carried(w) : j < i
                 PROVE  id <= i
      BY <2>3
    <3>1. ~HasEmitted(w, i)
      BY DEF HasEmitted
    <3> QED
      BY <1>3, <2>1, <3>1
  <2>6. Carried(w)' = Carried(w) \cup {id}
    <3>1. /\ Len(emitted'[w]) = Len(emitted[w]) + 1
          /\ \A i \in 1 .. Len(emitted[w]) : emitted'[w][i] = emitted[w][i]
          /\ emitted'[w][Len(emitted[w]) + 1] = id
      BY <1>1, <1>6, <2>1 DEF TypeOK
    <3>2. \A i \in 1 .. Len(emitted'[w]) : i \in 1 .. Len(emitted[w]) \/ i = Len(emitted[w]) + 1
      BY <2>1, <3>1
    <3>3. Len(emitted[w]) + 1 \in 1 .. Len(emitted'[w])
            /\ 1 .. Len(emitted[w]) \subseteq 1 .. Len(emitted'[w])
      BY <2>1, <3>1
    <3>4. {emitted'[w][i] : i \in 1 .. Len(emitted'[w])}
            = {emitted[w][i] : i \in 1 .. Len(emitted[w])} \cup {id}
      BY <3>1, <3>2, <3>3
    <3> QED
      BY <1>2, <3>4 DEF Carried
  <2>7. \A q \in Watchers : Carried(q)' = IF q = w THEN Carried(w) \cup {id} ELSE Carried(q)
    <3> SUFFICES ASSUME NEW q \in Watchers
                 PROVE  Carried(q)' = IF q = w THEN Carried(w) \cup {id} ELSE Carried(q)
      OBVIOUS
    <3>1. CASE q = w
      BY <2>6, <3>1
    <3>2. CASE q # w
      <4>1. emitted'[q] = emitted[q]
        BY <1>1, <1>6, <3>2 DEF TypeOK
      <4> QED
        BY <1>2, <3>2, <4>1 DEF Carried
    <3> QED
      BY <3>1, <3>2
  <2>8. [q \in Watchers |-> Carried(q)']
          = [[q \in Watchers |-> Carried(q)] EXCEPT ![w] = @ \cup {id}]
    BY <2>7
  <2> QED
    BY <1>2, <1>4, <2>4, <2>5, <2>8 DEF Promise!Carry
<1> QED
  BY <1>5, <1>6 DEF Recv, Received, id

(***************************************************************************)
(* Whatever its listener goes through, every stream keeps the promise of   *)
(* WatchStream: it begins with all it owes and carries the rest one by one *)
(* in id order; what it leaves out a tip read gave up, and it ends rather  *)
(* than skip (watch.rs:27-108).                                            *)
(***************************************************************************)
THEOREM Refinement == Spec => ImplementsWatchStream
<1>1. Init => Promise!Init
  BY DEF Init, Promise!Init, Live, Carried
<1>2. IInv /\ [Next]_vars => [Promise!Next]_(Promise!streamVars)
  <2> SUFFICES ASSUME IInv, [Next]_vars
               PROVE  Promise!Next \/ UNCHANGED Promise!streamVars
    OBVIOUS
  <2>1. ASSUME NEW k \in Keys, Write(k)
        PROVE  Promise!Next
    BY <2>1, WriteView DEF Promise!Next
  <2>2. CASE UNCHANGED <<log, streamVars>>
    BY <2>2, ViewStutter DEF streamVars, Live, Carried
  <2>3. ASSUME NEW r \in Replicas,
               ListenerStep(r) \/ ConnectionLost(r) \/ RunOnceFails(r)
        PROVE  Promise!Next \/ UNCHANGED <<log, streamVars>>
    <3>1. CASE InitLastSeen(r)
      <4>1. {w \in Live : at[w] = r} \in SUBSET Watchers
        BY DEF Live
      <4> QED
        BY <3>1, <4>1, InitLastSeenView DEF Promise!Next
    <3>2. CASE ~InitLastSeen(r)
      BY <2>3, <3>2 DEF ListenerStep, Listen, TryRecv, Reconnect, ReplayGap, ConnectionLost,
                        RunOnceFails
    <3> QED
      BY <3>1, <3>2
  <2>4. ASSUME NEW W \in SUBSET Watchers, EndStreams(W), log' = log
        PROVE  Promise!Next
    BY <2>4, EndStreamsView DEF Promise!Next
  <2>5. ASSUME NEW r \in Replicas, Crash(r)
        PROVE  Promise!Next
    <3>1. {w \in Watchers : at[w] = r} \in SUBSET Watchers
      OBVIOUS
    <3>2. EndStreams({w \in Watchers : at[w] = r}) /\ log' = log
      BY <2>5 DEF Crash
    <3> QED
      BY <2>4, <3>1, <3>2
  <2>6. ASSUME NEW w \in Watchers, StreamStep(w) \/ Disconnect(w)
        PROVE  Promise!Next \/ UNCHANGED Promise!streamVars
    <3>1. CASE CatchUp(w)
      BY <3>1, CatchUpView DEF Promise!Next
    <3>2. CASE Recv(w)
      BY <3>2, RecvView DEF Promise!Next
    <3>3. CASE Lagged(w) \/ Disconnect(w)
      <4>1. EndStreams({w}) /\ log' = log
        BY <3>3 DEF Lagged, Disconnect
      <4> QED
        BY <2>4, <4>1
    <3> QED
      BY <2>6, <3>1, <3>2, <3>3 DEF StreamStep
  <2>7. ASSUME NEW w \in Watchers, NEW r \in Replicas, NEW s \in 0 .. Len(log), Subscribe(w, r, s)
        PROVE  UNCHANGED Promise!streamVars
    BY <2>7, SubscribeView
  <2>8. CASE UNCHANGED vars
    BY <2>2, <2>8 DEF vars, streamVars
  <2> QED
    BY <2>1, <2>2, <2>3, <2>5, <2>6, <2>7, <2>8 DEF Next
<1> QED
  BY <1>1, <1>2, Invariance, PTL DEF Spec, ImplementsWatchStream, Promise!Spec
==============================================================================
