------------------------------- MODULE LongPoll -------------------------------
(***************************************************************************)
(* Long-polling clients of ferra-agent (agent/src/api.rs) against the cache*)
(* of one prefix while the watch task updates it (agent/src/cache.rs,      *)
(* agent/src/watch.rs).                                                    *)
(*                                                                         *)
(* Handlers and watch task run on different threads. An update of the cache*)
(* is three steps: the items under their lock, the cursor, the notification*)
(* of whoever is subscribed. A poll reads the entry, then subscribes, then *)
(* sleeps. The clients do what agent/README.md tells them: the index of one*)
(* answer is the since of the next request.                                *)
(*                                                                         *)
(* What the server will be told is fixed in Init; what it has been told so *)
(* far is a prefix of it. A value is the id of the event that wrote it.    *)
(* Snapshots are consistent and the stream never reopens here: what goes   *)
(* wrong there is in AgentCache and is the same to every poller.           *)
(***************************************************************************)
EXTENDS Naturals, Sequences

CONSTANTS
  Keys,
  Pollers,
  PollKey,    \* PollKey[p]: the key p polls
  LogLength,  \* bound: number of writes in a behaviour
  MaxReloads  \* bound: number of snapshots loaded

ASSUME LongPollAssumption ==
  /\ PollKey \in [Pollers -> Keys]
  /\ LogLength \in Nat
  /\ MaxReloads \in Nat

VARIABLES
  log,      \* the writes, those to come included
  tip,      \* how many of them the server is known to have committed
  pos,      \* the last event the watch task has handled
  reloads,  \* snapshots loaded so far
  items,    \* items[k]: event_id of the entry of k, 0 if there is none
  cursor,   \* latest_event_id
  task,     \* what the watch task has to do next, and with which id
  pc,       \* pc[p]: where long_poll is
  since,    \* since[p]: ?since= of p
  cur,      \* cur[p]: the entry p read last
  expired,  \* expired[p]: the deadline has passed
  woken,    \* woken[p]: a notification is waiting in p's receiver
  raced,    \* raced[p]: the key changed between p's check and p's subscription (history)
  told      \* told[p]: the value in the last answer to p, 0 for a 404 (history)

serverVars == <<log, tip>>
cacheVars == <<items, cursor>>
taskVars == <<pos, reloads, task>>
pollVars == <<pc, since, cur, expired, told>>
vars == <<log, tip, pos, reloads, items, cursor, task, pc, since, cur, expired, woken, raced, told>>

Operation == {"set", "delete"}
Event == [key : Keys, op : Operation]

\* next: ready for an event;  advance, advance_only, store: the cursor is next.
Task == [at : {"next", "advance", "advance_only", "store", "notify"}, id : Nat]

\* absent, listed: an answer is under way whose index is read last.
PC == {"idle", "check", "subscribe", "waiting", "absent", "listed"}

TypeOK ==
  /\ log \in Seq(Event)
  /\ tip \in Nat
  /\ pos \in Nat
  /\ reloads \in Nat
  /\ items \in [Keys -> Nat]
  /\ cursor \in Nat
  /\ task \in Task
  /\ pc \in [Pollers -> PC]
  /\ since \in [Pollers -> Nat]
  /\ cur \in [Pollers -> Nat]
  /\ expired \in [Pollers -> BOOLEAN]
  /\ woken \in [Pollers -> BOOLEAN]
  /\ raced \in [Pollers -> BOOLEAN]
  /\ told \in [Pollers -> Nat]

Later(m, n) == IF m >= n THEN m ELSE n

\* The row of k after the first n writes of l: the event that wrote it.
Row(l, k, n) ==
  LET ofKey == {i \in 1 .. n : l[i].key = k} IN
  IF \E i \in ofKey : l[i].op = "set" /\ \A j \in ofKey : j <= i
  THEN CHOOSE i \in ofKey : \A j \in ofKey : j <= i
  ELSE 0

Init ==
  /\ log \in {l \in [1 .. LogLength -> Event] :
                \A i \in 1 .. LogLength :
                  l[i].op = "delete" => Row(l, l[i].key, i - 1) # 0}
  /\ tip = 0
  /\ pos = 0
  /\ reloads = 0
  /\ items = [k \in Keys |-> 0]
  /\ cursor = 0
  /\ task = [at |-> "next", id |-> 0]
  /\ pc = [p \in Pollers |-> "idle"]
  /\ since = [p \in Pollers |-> 0]
  /\ cur = [p \in Pollers |-> 0]
  /\ expired = [p \in Pollers |-> FALSE]
  /\ woken = [p \in Pollers |-> FALSE]
  /\ raced = [p \in Pollers |-> FALSE]
  /\ told = [p \in Pollers |-> 0]
------------------------------------------------------------------------------
(***************************************************************************)
(* The watch task. Each update ends with task.at = "next".                 *)
(***************************************************************************)

\* The items change under the write lock; who has checked is not subscribed yet.
SetItems(new) ==
  /\ items' = new
  /\ raced' = [p \in Pollers |-> raced[p] \/ /\ pc[p] = "subscribe"
                                             /\ new[PollKey[p]] # items[PollKey[p]]]

Handles(i, op) ==
  /\ task.at = "next"
  /\ reloads > 0
  /\ i = pos + 1
  /\ i <= Len(log)
  /\ log[i].op = op
  /\ pos' = i

\* upsert with what the GET returned, or advance_only if that was a 404.
HandleSet(i) ==
  /\ Handles(i, "set")
  /\ tip' \in Later(tip, i) .. Len(log)
  /\ LET k == log[i].key
         v == Row(log, k, tip') IN
     \/ /\ v # 0
        /\ SetItems([items EXCEPT ![k] = Later(v, i)])
        /\ task' = [at |-> "advance", id |-> Later(v, i)]
     \/ /\ v = 0
        /\ task' = [at |-> "advance_only", id |-> i]
        /\ UNCHANGED <<items, raced>>
  /\ UNCHANGED <<log, reloads, cursor, pollVars, woken>>

\* remove.
HandleDelete(i) ==
  /\ Handles(i, "delete")
  /\ tip' = Later(tip, i)
  /\ SetItems([items EXCEPT ![log[i].key] = 0])
  /\ task' = [at |-> "advance", id |-> i]
  /\ UNCHANGED <<log, reloads, cursor, pollVars, woken>>

\* replace_snapshot, at start-up and for a reload.
LoadSnapshot ==
  /\ task.at = "next"
  /\ reloads < MaxReloads
  /\ reloads' = reloads + 1
  /\ tip' \in tip .. Len(log)
  /\ pos' = tip'
  /\ SetItems([k \in Keys |-> Row(log, k, tip')])
  /\ task' = [at |-> "store", id |-> tip']
  /\ UNCHANGED <<log, cursor, pollVars, woken>>

\* The cursor. advance_only returns early if there is nothing to advance.
MoveCursor_Mutant ==
  /\ task.at \in {"advance", "advance_only", "store"}
  /\ cursor' = IF task.at = "store" THEN task.id ELSE Later(cursor, task.id)
  /\ task' = [at |-> IF task.at = "store" THEN "notify" ELSE "next", id |-> 0]
  /\ UNCHANGED <<serverVars, pos, reloads, items, pollVars, woken, raced>>

MoveCursor ==
  /\ task.at \in {"advance", "advance_only", "store"}
  /\ cursor' = IF task.at = "store" THEN task.id ELSE Later(cursor, task.id)
  /\ task' = [at |-> IF task.at = "advance_only" /\ task.id <= cursor THEN "next" ELSE "notify",
              id |-> 0]
  /\ UNCHANGED <<serverVars, pos, reloads, items, pollVars, woken, raced>>

\* notify.send: only receivers that exist get it.
Notify ==
  /\ task.at = "notify"
  /\ task' = [at |-> "next", id |-> 0]
  /\ woken' = [p \in Pollers |-> woken[p] \/ pc[p] = "waiting"]
  /\ UNCHANGED <<serverVars, pos, reloads, cacheVars, pollVars, raced>>
------------------------------------------------------------------------------
(***************************************************************************)
(* A client: GET /cfg/{key}?wait=&since=, again and again, and in between  *)
(* GET /cfg/{key} and GET /cfg?prefix=, of which it uses the entry of its  *)
(* key.                                                                    *)
(***************************************************************************)
Goto(p, s) == pc' = [pc EXCEPT ![p] = s]

\* An answer with a value (0: 404) and its X-Ferra-Index.
Answer(p, value, index) ==
  /\ Goto(p, "idle")
  /\ told' = [told EXCEPT ![p] = value]
  /\ since' = [since EXCEPT ![p] = index]
  /\ expired' = [expired EXCEPT ![p] = FALSE]

\* Without ?wait= the entry is the answer; a 404 of this kind has no index.
Read(p) ==
  LET e == items[PollKey[p]] IN
  /\ pc[p] = "idle"
  /\ Answer(p, e, IF e = 0 THEN since[p] ELSE e)
  /\ UNCHANGED <<serverVars, taskVars, cacheVars, cur, woken, raced>>

\* list_handler copies the items under the read lock.
List(p) ==
  /\ pc[p] = "idle"
  /\ Goto(p, "listed")
  /\ cur' = [cur EXCEPT ![p] = items[PollKey[p]]]
  /\ UNCHANGED <<serverVars, taskVars, cacheVars, since, expired, told, woken, raced>>

\* Then it reads the cursor for the body, and for the header once more.
AnswerListing(p) ==
  /\ pc[p] = "listed"
  /\ Answer(p, cur[p], cursor)
  /\ UNCHANGED <<serverVars, taskVars, cacheVars, cur, woken, raced>>

Request(p) ==
  /\ pc[p] = "idle"
  /\ Goto(p, "check")
  /\ UNCHANGED <<serverVars, taskVars, cacheVars, since, cur, expired, told, woken, raced>>

\* The top of the loop, up to the answer or the decision to wait.
Check(p) ==
  LET e == items[PollKey[p]] IN
  /\ pc[p] = "check"
  /\ cur' = [cur EXCEPT ![p] = e]
  /\ \/ e > since[p] /\ Answer(p, e, e)
     \/ /\ e <= since[p]  \* the deadline may have passed by now
        /\ \/ e # 0 /\ Answer(p, e, e)
           \/ /\ e = 0
              /\ Goto(p, "absent")
              /\ UNCHANGED <<since, expired, told>>
     \/ /\ e <= since[p]
        /\ ~expired[p]
        /\ Goto(p, "subscribe")
        /\ UNCHANGED <<since, expired, told>>
  /\ raced' = [raced EXCEPT ![p] = FALSE]
  /\ UNCHANGED <<serverVars, taskVars, cacheVars, woken>>

\* The 404 of a poll that timed out carries the cursor as it is by then.
AnswerAbsent_Mutant(p) ==
  /\ pc[p] = "absent"
  /\ Answer(p, 0, cursor - 1)
  /\ UNCHANGED <<serverVars, taskVars, cacheVars, cur, woken, raced>>

AnswerAbsent(p) ==
  /\ pc[p] = "absent"
  /\ Answer(p, 0, cursor)
  /\ UNCHANGED <<serverVars, taskVars, cacheVars, cur, woken, raced>>

Subscribe(p) ==
  /\ pc[p] = "subscribe"
  /\ Goto(p, "waiting")
  /\ woken' = [woken EXCEPT ![p] = FALSE]
  /\ UNCHANGED <<serverVars, taskVars, cacheVars, since, cur, expired, told, raced>>

Wake(p) ==
  /\ pc[p] = "waiting"
  /\ woken[p]
  /\ Goto(p, "check")
  /\ UNCHANGED <<serverVars, taskVars, cacheVars, since, cur, expired, told, woken, raced>>

\* A deadline computed anew in each round.
Timeout_Mutant(p) ==
  /\ pc[p] = "waiting"
  /\ Goto(p, "check")
  /\ UNCHANGED <<serverVars, taskVars, cacheVars, since, cur, expired, told, woken, raced>>

Timeout(p) ==
  /\ pc[p] = "waiting"
  /\ expired' = [expired EXCEPT ![p] = TRUE]
  /\ Goto(p, "check")
  /\ UNCHANGED <<serverVars, taskVars, cacheVars, since, cur, told, woken, raced>>

TaskStep ==
  \/ \E i \in 1 .. Len(log) : HandleSet(i) \/ HandleDelete(i)
  \/ LoadSnapshot \/ MoveCursor \/ Notify

PollStep(p) ==
  \/ Read(p) \/ List(p) \/ AnswerListing(p)
  \/ Request(p) \/ Check(p) \/ AnswerAbsent(p)
  \/ Subscribe(p) \/ Wake(p) \/ Timeout(p)

Next == TaskStep \/ \E p \in Pollers : PollStep(p)

Spec == Init /\ [][Next]_vars

\* Every request times out, and clients ask again.
FairSpec == Spec /\ WF_vars(TaskStep) /\ \A p \in Pollers : WF_vars(PollStep(p))
------------------------------------------------------------------------------
\* p sleeps although its key has passed since, and nothing is going to wake it.
Oversleeps(p) ==
  /\ pc[p] = "waiting"
  /\ items[PollKey[p]] > since[p]
  /\ ~woken[p]
  /\ task.at = "next"

(***************************************************************************)
(* The only way to oversleep is that the key changed between the check     *)
(* (api.rs:119) and the subscription (api.rs:153). Every other change of   *)
(* the key is followed by a notification (cache.rs:58, 67, 80; watch.rs:   *)
(* 162 skips it only when no item has changed), and the re-check after it  *)
(* sees the change, because the items are stored before it is sent.        *)
(***************************************************************************)
OnlyRacesOversleep == \A p \in Pollers : Oversleeps(p) => raced[p]

(***************************************************************************)
(* Once writes cease, every client is in the end told the current value or *)
(* absence of its key: late, but the timeout repairs a missed wake-up, an  *)
(* unnoticed delete and an index that was ahead.                           *)
(***************************************************************************)
EventuallyTold == <>[](\A p \in Pollers : told[p] = items[PollKey[p]])

(***************************************************************************)
(* agent/README.md:62: a poll returns when the key's event_id > since or   *)
(* the wait elapses. So it does not sleep on while event_id > since.       *)
(***************************************************************************)
ReturnsWhenPassed == \A p \in Pollers : ~Oversleeps(p)

(***************************************************************************)
(* agent/src/api.rs:122: "Value (or absence) has advanced past since.      *)
(* Return now." A check that finds the key gone does not go on waiting for *)
(* a client whose since is the index of the value it was last given.       *)
(***************************************************************************)
AbsenceReturns ==
  [][\A p \in Pollers :
       (pc[p] = "check" /\ pc'[p] = "subscribe" /\ since[p] = told[p] /\ told[p] # 0)
         => cur'[p] # 0]_vars
==============================================================================
