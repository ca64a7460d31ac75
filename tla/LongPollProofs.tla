--------------------------- MODULE LongPollProofs ---------------------------
(***************************************************************************)
(* Theorems about LongPoll, for any keys, any clients and any number of    *)
(* writes and snapshots. The invariant says, at each point of a poll, why  *)
(* a change of its key is not forgotten.                                   *)
(***************************************************************************)
EXTENDS LongPoll, TLAPS

\* Between its check and its subscription a poll has seen the entry as it is.
SubscribeInv ==
  \A p \in Pollers :
    pc[p] = "subscribe" => raced[p] \/ items[PollKey[p]] <= since[p]

\* A sleeper that should wake is about to be notified.
WaitInv ==
  \A p \in Pollers :
    /\ pc[p] = "waiting"
    /\ items[PollKey[p]] > since[p]
    /\ ~woken[p]
    => raced[p] \/ task.at \in {"advance", "store", "notify"}

IInv == TypeOK /\ SubscribeInv /\ WaitInv
------------------------------------------------------------------------------
\* A row is the id of an event, or 0.
LEMMA RowType ==
  ASSUME NEW l, NEW k, NEW n \in Nat
  PROVE  Row(l, k, n) \in 0 .. n
<1> DEFINE ofKey == {i \in 1 .. n : l[i].key = k}
<1>1. CASE \E i \in ofKey : l[i].op = "set" /\ \A j \in ofKey : j <= i
  <2>1. Row(l, k, n) = CHOOSE i \in ofKey : \A j \in ofKey : j <= i
    BY <1>1 DEF Row
  <2>2. \E i \in ofKey : \A j \in ofKey : j <= i
    BY <1>1
  <2> HIDE DEF ofKey
  <2>3. (CHOOSE i \in ofKey : \A j \in ofKey : j <= i) \in ofKey
    BY <2>2
  <2> QED
    BY <2>1, <2>3 DEF ofKey
<1>2. CASE ~\E i \in ofKey : l[i].op = "set" /\ \A j \in ofKey : j <= i
  BY <1>2 DEF Row
<1> QED
  BY <1>1, <1>2

LEMMA InitIInv == Init => IInv
<1> SUFFICES ASSUME Init
             PROVE  IInv
  OBVIOUS
<1> USE LongPollAssumption DEF Init
<1>1. log \in Seq(Event)
  OBVIOUS
<1>2. TypeOK
  BY <1>1 DEF TypeOK, Task, PC
<1> QED
  BY <1>2 DEF IInv, SubscribeInv, WaitInv
------------------------------------------------------------------------------
(***************************************************************************)
(* The watch task. A step of it changes no client except through raced and *)
(* woken.                                                                  *)
(***************************************************************************)

\* Changed items preserve the invariant if a notification is still to come.
LEMMA ItemsStep ==
  ASSUME IInv,
         NEW new \in [Keys -> Nat],
         SetItems(new),
         task' \in Task,
         task'.at \in {"advance", "store", "notify"},
         log' = log, tip' \in Nat, pos' \in Nat, reloads' \in Nat,
         UNCHANGED <<cursor, pollVars, woken>>
  PROVE  IInv'
<1> USE LongPollAssumption DEF pollVars
<1>1. TypeOK'
  BY DEF IInv, TypeOK, SetItems
<1>2. SubscribeInv'
  <2> SUFFICES ASSUME NEW p \in Pollers, pc[p] = "subscribe"
               PROVE  raced'[p] \/ items'[PollKey[p]] <= since[p]
    BY DEF SubscribeInv
  <2>1. raced'[p] <=> (raced[p] \/ new[PollKey[p]] # items[PollKey[p]])
    BY DEF SetItems
  <2>2. items' = new
    BY DEF SetItems
  <2> QED
    BY <2>1, <2>2 DEF IInv, SubscribeInv
<1>3. WaitInv'
  BY DEF WaitInv
<1> QED
  BY <1>1, <1>2, <1>3 DEF IInv

LEMMA HandleSetStep ==
  ASSUME IInv, NEW i \in 1 .. Len(log), HandleSet(i)
  PROVE  IInv'
<1> USE LongPollAssumption
<1> DEFINE k == log[i].key
           v == Row(log, k, tip')
<1>1. i \in Nat /\ i = pos' /\ log' = log /\ reloads' = reloads
  BY DEF HandleSet, Handles, IInv, TypeOK
<1>2. tip' \in Nat
  BY <1>1 DEF HandleSet, Later, IInv, TypeOK
<1>3. v \in Nat /\ Later(v, i) \in Nat
  BY <1>1, <1>2, RowType DEF Later
<1>4. CASE v # 0
  <2>1. SetItems([items EXCEPT ![k] = Later(v, i)])
    BY <1>4 DEF HandleSet
  <2>2. task' = [at |-> "advance", id |-> Later(v, i)]
    BY <1>4 DEF HandleSet
  <2>3. [items EXCEPT ![k] = Later(v, i)] \in [Keys -> Nat]
    BY <1>3 DEF IInv, TypeOK
  <2>4. UNCHANGED <<cursor, pollVars, woken>>
    BY DEF HandleSet
  <2> HIDE DEF v
  <2>5. task' \in Task /\ task'.at = "advance"
    BY <1>3, <2>2 DEF Task
  <2> QED
    BY <1>1, <1>2, <2>1, <2>3, <2>4, <2>5, ItemsStep DEF IInv, TypeOK
<1>5. CASE v = 0
  <2>1. task.at = "next" /\ task' = [at |-> "advance_only", id |-> i]
    BY <1>5 DEF HandleSet, Handles
  <2>2. UNCHANGED <<items, raced, cursor, pollVars, woken>>
    BY <1>5 DEF HandleSet
  <2>3. TypeOK'
    BY <1>1, <1>2, <2>1, <2>2 DEF IInv, TypeOK, Task, pollVars
  <2>4. SubscribeInv' /\ WaitInv'
    BY <2>1, <2>2 DEF IInv, SubscribeInv, WaitInv, pollVars
  <2> QED
    BY <2>3, <2>4 DEF IInv
<1> QED
  BY <1>4, <1>5

LEMMA HandleDeleteStep ==
  ASSUME IInv, NEW i \in 1 .. Len(log), HandleDelete(i)
  PROVE  IInv'
<1> DEFINE new == [items EXCEPT ![log[i].key] = 0]
<1>1. i \in Nat /\ i = pos' /\ log' = log /\ reloads' = reloads
  BY DEF HandleDelete, Handles, IInv, TypeOK
<1>2. tip' \in Nat
  BY <1>1 DEF HandleDelete, Later, IInv, TypeOK
<1>3. SetItems(new) /\ new \in [Keys -> Nat]
  BY DEF HandleDelete, IInv, TypeOK
<1>4. task' \in Task /\ task'.at = "advance"
  BY <1>1 DEF HandleDelete, Task
<1>5. UNCHANGED <<cursor, pollVars, woken>>
  BY DEF HandleDelete
<1> HIDE DEF new
<1> QED
  BY <1>1, <1>2, <1>3, <1>4, <1>5, ItemsStep DEF IInv, TypeOK

LEMMA LoadSnapshotStep ==
  ASSUME IInv, LoadSnapshot
  PROVE  IInv'
<1> DEFINE new == [k \in Keys |-> Row(log, k, tip')]
<1>1. tip' \in Nat /\ pos' = tip' /\ log' = log /\ reloads' \in Nat
  BY DEF LoadSnapshot, IInv, TypeOK
<1>2. new \in [Keys -> Nat]
  BY <1>1, RowType
<1>3. SetItems(new)
  BY DEF LoadSnapshot
<1>4. task' \in Task /\ task'.at = "store"
  BY <1>1 DEF LoadSnapshot, Task
<1>5. UNCHANGED <<cursor, pollVars, woken>>
  BY DEF LoadSnapshot
<1> HIDE DEF new
<1> QED
  BY <1>1, <1>2, <1>3, <1>4, <1>5, ItemsStep

LEMMA MoveCursorStep ==
  ASSUME IInv, MoveCursor
  PROVE  IInv'
<1>1. TypeOK'
  BY DEF IInv, TypeOK, MoveCursor, Task, Later, serverVars, pollVars
<1>2. SubscribeInv'
  BY DEF IInv, SubscribeInv, MoveCursor, pollVars
<1>3. task.at \in {"advance", "store", "notify"} => task'.at = "notify"
  BY DEF MoveCursor
<1>4. WaitInv'
  BY <1>3 DEF IInv, WaitInv, MoveCursor, pollVars
<1> QED
  BY <1>1, <1>2, <1>4 DEF IInv

LEMMA NotifyStep ==
  ASSUME IInv, Notify
  PROVE  IInv'
<1>1. TypeOK'
  BY DEF IInv, TypeOK, Notify, Task, serverVars, cacheVars, pollVars
<1>2. SubscribeInv'
  BY DEF IInv, SubscribeInv, Notify, cacheVars, pollVars
<1>3. WaitInv'
  <2>1. \A p \in Pollers : pc[p] = "waiting" => woken'[p]
    BY DEF Notify
  <2> QED
    BY <2>1 DEF WaitInv, Notify, pollVars
<1> QED
  BY <1>1, <1>2, <1>3 DEF IInv
------------------------------------------------------------------------------
(***************************************************************************)
(* The clients. The invariant of the others is untouched, so each lemma is *)
(* about the client that moves.                                            *)
(***************************************************************************)

\* What the moves of one client have in common.
LEMMA PollerStep ==
  ASSUME IInv, NEW p \in Pollers,
         TypeOK',
         UNCHANGED <<task, items>>,
         \A q \in Pollers \ {p} :
           /\ pc'[q] = pc[q]
           /\ since'[q] = since[q]
           /\ woken'[q] = woken[q]
           /\ raced'[q] = raced[q],
         pc'[p] = "subscribe" => items[PollKey[p]] <= since'[p],
         pc'[p] = "waiting" => raced'[p] \/ items[PollKey[p]] <= since'[p]
  PROVE  IInv'
<1> USE LongPollAssumption
<1>1. SubscribeInv'
  BY DEF IInv, SubscribeInv
<1>2. WaitInv'
  <2> SUFFICES ASSUME NEW q \in Pollers,
                      pc'[q] = "waiting",
                      items'[PollKey[q]] > since'[q],
                      ~woken'[q]
               PROVE  raced'[q] \/ task'.at \in {"advance", "store", "notify"}
    BY DEF WaitInv
  <2>1. CASE q = p
    BY <2>1 DEF IInv, TypeOK
  <2>2. CASE q # p
    BY <2>2 DEF IInv, WaitInv
  <2> QED
    BY <2>1, <2>2
<1> QED
  BY <1>1, <1>2 DEF IInv

\* An answer with an index that is a number is well typed.
LEMMA AnswerType ==
  ASSUME TypeOK, NEW p \in Pollers, NEW value \in Nat, NEW index \in Nat,
         Answer(p, value, index)
  PROVE  /\ pc' \in [Pollers -> PC]
         /\ since' \in [Pollers -> Nat]
         /\ expired' \in [Pollers -> BOOLEAN]
         /\ told' \in [Pollers -> Nat]
         /\ pc'[p] = "idle"
         /\ \A q \in Pollers \ {p} : pc'[q] = pc[q] /\ since'[q] = since[q]
BY DEF TypeOK, Answer, Goto, PC

LEMMA ReadStep ==
  ASSUME IInv, NEW p \in Pollers, Read(p)
  PROVE  IInv'
<1> USE LongPollAssumption
<1> DEFINE e == items[PollKey[p]]
           index == IF e = 0 THEN since[p] ELSE e
<1>1. TypeOK /\ e \in Nat /\ index \in Nat /\ Answer(p, e, index)
  BY DEF IInv, TypeOK, Read
<1>2. UNCHANGED <<log, tip, pos, reloads, items, cursor, task, cur, woken, raced>>
  BY DEF Read, serverVars, taskVars, cacheVars
<1> HIDE DEF e, index
<1>3. TypeOK'
  BY <1>1, <1>2, AnswerType DEF TypeOK
<1> QED
  BY <1>1, <1>2, <1>3, AnswerType, PollerStep

LEMMA ListStep ==
  ASSUME IInv, NEW p \in Pollers, List(p)
  PROVE  IInv'
<1> USE LongPollAssumption
<1>1. TypeOK'
  BY DEF IInv, TypeOK, PC, List, Goto, serverVars, taskVars, cacheVars
<1>2. pc'[p] = "listed" /\ \A q \in Pollers \ {p} : pc'[q] = pc[q]
  BY DEF IInv, TypeOK, List, Goto
<1>3. UNCHANGED <<task, items, since, woken, raced>>
  BY DEF List, taskVars, cacheVars
<1> QED
  BY <1>1, <1>2, <1>3, PollerStep

LEMMA AnswerListingStep ==
  ASSUME IInv, NEW p \in Pollers, AnswerListing(p)
  PROVE  IInv'
<1>1. TypeOK /\ cursor \in Nat /\ cur[p] \in Nat /\ Answer(p, cur[p], cursor)
  BY DEF IInv, TypeOK, AnswerListing
<1>2. UNCHANGED <<log, tip, pos, reloads, items, cursor, task, cur, woken, raced>>
  BY DEF AnswerListing, serverVars, taskVars, cacheVars
<1>3. TypeOK'
  BY <1>1, <1>2, AnswerType DEF TypeOK
<1> QED
  BY <1>1, <1>2, <1>3, AnswerType, PollerStep

LEMMA RequestStep ==
  ASSUME IInv, NEW p \in Pollers, Request(p)
  PROVE  IInv'
<1>1. TypeOK'
  BY DEF IInv, TypeOK, PC, Request, Goto, serverVars, taskVars, cacheVars
<1>2. pc'[p] = "check" /\ \A q \in Pollers \ {p} : pc'[q] = pc[q]
  BY DEF IInv, TypeOK, Request, Goto
<1>3. UNCHANGED <<task, items, since, woken, raced>>
  BY DEF Request, taskVars, cacheVars
<1> QED
  BY <1>1, <1>2, <1>3, PollerStep

LEMMA CheckStep ==
  ASSUME IInv, NEW p \in Pollers, Check(p)
  PROVE  IInv'
<1> USE LongPollAssumption
<1> DEFINE e == items[PollKey[p]]
<1>1. TypeOK /\ e \in Nat /\ since[p] \in Nat
  BY DEF IInv, TypeOK
<1>2. /\ UNCHANGED <<log, tip, pos, reloads, items, cursor, task, woken>>
      /\ cur' \in [Pollers -> Nat]
      /\ raced' \in [Pollers -> BOOLEAN]
      /\ \A q \in Pollers \ {p} : raced'[q] = raced[q]
  BY <1>1 DEF TypeOK, Check, serverVars, taskVars, cacheVars
<1>3. CASE Answer(p, e, e)
  <2>1. TypeOK'
    BY <1>1, <1>2, <1>3, AnswerType DEF TypeOK
  <2> QED
    BY <1>1, <1>2, <1>3, <2>1, AnswerType, PollerStep
<1>4. CASE Goto(p, "absent") /\ UNCHANGED <<since, expired, told>>
  <2>1. pc' \in [Pollers -> PC] /\ pc'[p] = "absent"
          /\ \A q \in Pollers \ {p} : pc'[q] = pc[q]
    BY <1>1, <1>4 DEF TypeOK, Goto, PC
  <2>2. TypeOK'
    BY <1>1, <1>2, <1>4, <2>1 DEF TypeOK
  <2> QED
    BY <1>2, <1>4, <2>1, <2>2, PollerStep
<1>5. CASE e <= since[p] /\ Goto(p, "subscribe") /\ UNCHANGED <<since, expired, told>>
  <2>1. pc' \in [Pollers -> PC] /\ pc'[p] = "subscribe"
          /\ \A q \in Pollers \ {p} : pc'[q] = pc[q]
    BY <1>1, <1>5 DEF TypeOK, Goto, PC
  <2>2. TypeOK'
    BY <1>1, <1>2, <1>5, <2>1 DEF TypeOK
  <2> QED
    BY <1>2, <1>5, <2>1, <2>2, PollerStep
<1> QED
  BY <1>3, <1>4, <1>5 DEF Check

LEMMA AnswerAbsentStep ==
  ASSUME IInv, NEW p \in Pollers, AnswerAbsent(p)
  PROVE  IInv'
<1>1. TypeOK /\ cursor \in Nat /\ Answer(p, 0, cursor)
  BY DEF IInv, TypeOK, AnswerAbsent
<1>2. UNCHANGED <<log, tip, pos, reloads, items, cursor, task, cur, woken, raced>>
  BY DEF AnswerAbsent, serverVars, taskVars, cacheVars
<1>3. TypeOK'
  BY <1>1, <1>2, AnswerType DEF TypeOK
<1> QED
  BY <1>1, <1>2, <1>3, AnswerType, PollerStep

LEMMA SubscribeStep ==
  ASSUME IInv, NEW p \in Pollers, Subscribe(p)
  PROVE  IInv'
<1>1. TypeOK'
  BY DEF IInv, TypeOK, PC, Subscribe, Goto, serverVars, taskVars, cacheVars
<1>2. /\ pc'[p] = "waiting"
      /\ \A q \in Pollers \ {p} : pc'[q] = pc[q] /\ woken'[q] = woken[q]
  BY DEF IInv, TypeOK, Subscribe, Goto
<1>3. UNCHANGED <<task, items, since, raced>>
  BY DEF Subscribe, taskVars, cacheVars
<1>4. raced[p] \/ items[PollKey[p]] <= since[p]
  BY DEF IInv, SubscribeInv, Subscribe
<1> QED
  BY <1>1, <1>2, <1>3, <1>4, PollerStep

LEMMA WakeStep ==
  ASSUME IInv, NEW p \in Pollers, Wake(p) \/ Timeout(p)
  PROVE  IInv'
<1>1. TypeOK'
  BY DEF IInv, TypeOK, PC, Wake, Timeout, Goto, serverVars, taskVars, cacheVars
<1>2. pc'[p] = "check" /\ \A q \in Pollers \ {p} : pc'[q] = pc[q]
  BY DEF IInv, TypeOK, Wake, Timeout, Goto
<1>3. UNCHANGED <<task, items, since, woken, raced>>
  BY DEF Wake, Timeout, taskVars, cacheVars
<1> QED
  BY <1>1, <1>2, <1>3, PollerStep
------------------------------------------------------------------------------
(***************************************************************************)
(* The invariant holds throughout.                                         *)
(***************************************************************************)
THEOREM Invariance == Spec => []IInv
<1>1. Init => IInv
  BY InitIInv
<1>2. IInv /\ [Next]_vars => IInv'
  <2> SUFFICES ASSUME IInv, [Next]_vars
               PROVE  IInv'
    OBVIOUS
  <2>1. ASSUME NEW i \in 1 .. Len(log), HandleSet(i) \/ HandleDelete(i)
        PROVE  IInv'
    BY <2>1, HandleSetStep, HandleDeleteStep
  <2>2. CASE LoadSnapshot
    BY <2>2, LoadSnapshotStep
  <2>3. CASE MoveCursor
    BY <2>3, MoveCursorStep
  <2>4. CASE Notify
    BY <2>4, NotifyStep
  <2>5. ASSUME NEW p \in Pollers, PollStep(p)
        PROVE  IInv'
    BY <2>5, ReadStep, ListStep, AnswerListingStep, RequestStep, CheckStep, AnswerAbsentStep, SubscribeStep, WakeStep DEF PollStep
  <2>6. CASE UNCHANGED vars
    BY <2>6 DEF IInv, TypeOK, SubscribeInv, WaitInv, vars
  <2> QED
    BY <2>1, <2>2, <2>3, <2>4, <2>5, <2>6 DEF Next, TaskStep
<1> QED
  BY <1>1, <1>2, PTL DEF Spec

(***************************************************************************)
(* Type correctness of the cache, the watch task and every poll.           *)
(***************************************************************************)
THEOREM TypeCorrect == Spec => []TypeOK
<1>1. IInv => TypeOK
  BY DEF IInv
<1> QED
  BY <1>1, Invariance, PTL

(***************************************************************************)
(* However many clients poll, and however the steps of an update and of    *)
(* their polls interleave, a client is left asleep only by a change        *)
(* between its check (api.rs:119) and its subscription (api.rs:153).       *)
(***************************************************************************)
THEOREM WakeUpsReach == Spec => []OnlyRacesOversleep
<1>1. IInv => OnlyRacesOversleep
  <2> SUFFICES ASSUME IInv, NEW p \in Pollers, Oversleeps(p)
               PROVE  raced[p]
    BY DEF OnlyRacesOversleep
  <2>1. raced[p] \/ task.at \in {"advance", "store", "notify"}
    BY DEF IInv, WaitInv, Oversleeps
  <2> QED
    BY <2>1 DEF Oversleeps
<1> QED
  BY <1>1, Invariance, PTL
==============================================================================
