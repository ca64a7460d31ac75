-------------------------- MODULE ServerProcessProofs --------------------------
(***************************************************************************)
(* Theorems about ServerProcess, for any environments, clients, life of a  *)
(* token and time to mint one. The pool is handled through who waits and   *)
(* who holds: the first section says how each operation on the queue and   *)
(* on the connections changes these two, the steps use nothing else.       *)
(***************************************************************************)
EXTENDS ServerProcess, FiniteSetTheorems, SequenceTheorems, TLAPS

\* Before the start nothing has happened; after it the environment is one
\* that from_env accepts.
BootInv ==
  phase = "boot" =>
    /\ \A s \in Slots : conn[s].user = "none"
    /\ sinceTick = 0 /\ mintAge = 0 /\ minting = FALSE /\ missed = 0

ConfigInv == Running => Accepted(env)

\* How old the token may be, by where the refresher is.
TokenInv ==
  (Running /\ Iam) =>
    /\ sinceTick <= env.refresh
    /\ minting => sinceTick = IF mintAge <= env.refresh THEN mintAge ELSE env.refresh
    /\ ~minting => mintAge = 0
    /\ missed < 2 =>
         tokenAge <= missed * LostPerFailure + MintTime
                       + IF minting THEN env.refresh + mintAge ELSE sinceTick

\* Between them the listener and its query hold two connections.
ReadyInv == listener = "ready" => env.max >= 2

IInv ==
  /\ TypeOK
  /\ BootInv /\ ConfigInv /\ TokenInv
  /\ NothingLeaks /\ ReadyInv

Conn == [user : Users \cup {"none", "idle"}, age : 0 .. AgeCap, born : 0 .. TokenTTL - 1]

\* Nobody holds two connections under one name.
UniqueHolders == \A s, t \in Slots : conn[s].user = conn[t].user /\ conn[s].user \in Users => s = t
------------------------------------------------------------------------------
(***************************************************************************)
(* The queue and the connections.                                          *)
(***************************************************************************)
LEMMA Names ==
  /\ "listener" \in Users /\ "query" \in Users /\ Clients \subseteq Users
  /\ "none" \notin Users /\ "idle" \notin Users
  /\ "listener" \notin Clients /\ "query" \notin Clients
BY ServerProcessAssumption DEF Users

\* The numbers of an environment, in particular the refresh interval.
LEMMA EnvTypes ==
  ASSUME TypeOK
  PROVE  /\ env \in Env /\ env.refresh \in Nat /\ env.max \in Nat /\ env.lifetime \in Nat
         /\ env.heartbeat \in Nat
         /\ AgeCap \in Nat /\ TokenTTL \in Nat \ {0} /\ MintTime \in Nat
         /\ Accepted(env) /\ Iam => env.refresh > 0 /\ env.lifetime > 0
         /\ Accepted(env) => env.max > 0
<1>1. env \in Env
  BY ServerProcessAssumption DEF TypeOK
<1>2. /\ env.refresh \in Nat /\ env.max \in Nat /\ env.lifetime \in Nat /\ env.heartbeat \in Nat
  BY <1>1 DEF Env
<1>3. AgeCap \in Nat /\ TokenTTL \in Nat \ {0} /\ MintTime \in Nat
  BY <1>2, TokenTTLAssumption, ServerProcessAssumption DEF AgeCap
<1>4. /\ Accepted(env) /\ Iam => env.refresh > 0 /\ env.lifetime > 0
      /\ Accepted(env) => env.max > 0
  BY <1>2, <1>3 DEF Accepted, Iam, DatabaseMode, LifetimeAccepted, PoolAccepted
<1> QED
  BY <1>1, <1>2, <1>3, <1>4

LEMMA AppendQueue ==
  ASSUME NEW q \in Seq(Users), IsInjective(q), NEW u \in Users, u \notin Range(q)
  PROVE  /\ Append(q, u) \in Seq(Users) /\ IsInjective(Append(q, u))
         /\ \A v : v \in Range(Append(q, u)) <=> (v = u \/ v \in Range(q))
<1> DEFINE n == Len(q)
           r == Append(q, u)
<1>1. /\ n \in Nat /\ DOMAIN q = 1 .. n
      /\ r \in Seq(Users) /\ DOMAIN r = 1 .. n + 1
      /\ r[n + 1] = u /\ \A i \in 1 .. n : r[i] = q[i]
  OBVIOUS
<1> HIDE DEF n, r
<1>2. \A i \in 1 .. n : q[i] # u
  BY <1>1 DEF Range
<1>3. IsInjective(r)
  BY <1>1, <1>2 DEF IsInjective
<1>4. \A v : v \in Range(r) <=> (v = u \/ v \in Range(q))
  BY <1>1 DEF Range
<1>5. r \in Seq(Users)
  BY <1>1
<1> QED
  BY <1>3, <1>4, <1>5 DEF r

LEMMA TailQueue ==
  ASSUME NEW q \in Seq(Users), IsInjective(q), q # << >>
  PROVE  /\ Head(q) \in Users /\ Head(q) \in Range(q)
         /\ Tail(q) \in Seq(Users) /\ IsInjective(Tail(q))
         /\ \A v : v \in Range(Tail(q)) <=> (v # Head(q) /\ v \in Range(q))
<1> DEFINE n == Len(q)
           r == Tail(q)
<1>1. /\ n \in Nat /\ n > 0 /\ DOMAIN q = 1 .. n
      /\ r \in Seq(Users) /\ DOMAIN r = 1 .. n - 1
      /\ Head(q) = q[1] /\ \A i \in 1 .. n - 1 : r[i] = q[i + 1]
      /\ q[1] \in Users
  OBVIOUS
<1> HIDE DEF n, r
<1>2. IsInjective(r)
  <2> SUFFICES ASSUME NEW i \in 1 .. n - 1, NEW j \in 1 .. n - 1, r[i] = r[j]
               PROVE  i = j
    BY <1>1 DEF IsInjective
  <2>1. i + 1 \in 1 .. n /\ j + 1 \in 1 .. n /\ q[i + 1] = q[j + 1]
    BY <1>1
  <2>2. \A a, b \in 1 .. n : q[a] = q[b] => a = b
    BY <1>1 DEF IsInjective
  <2>3. i + 1 = j + 1
    BY <2>1, <2>2
  <2> QED
    BY <1>1, <2>3
<1>3. Head(q) \in Range(q)
  BY <1>1 DEF Range
<1>4. ASSUME NEW v
      PROVE  v \in Range(r) <=> (v # Head(q) /\ v \in Range(q))
  <2>1. ASSUME v \in Range(r)
        PROVE  v # Head(q) /\ v \in Range(q)
    <3>1. PICK i \in 1 .. n - 1 : r[i] = v
      BY <1>1, <2>1 DEF Range
    <3> QED
      BY <1>1, <3>1 DEF IsInjective, Range
  <2>2. ASSUME v # Head(q), v \in Range(q)
        PROVE  v \in Range(r)
    <3>1. PICK i \in 1 .. n : q[i] = v
      BY <1>1, <2>2 DEF Range
    <3>2. i - 1 \in 1 .. n - 1 /\ r[i - 1] = v
      BY <1>1, <2>2, <3>1
    <3> QED
      BY <1>1, <3>2 DEF Range
  <2> QED
    BY <2>1, <2>2
<1>5. Head(q) \in Users /\ r \in Seq(Users)
  BY <1>1
<1> QED
  BY <1>2, <1>3, <1>4, <1>5 DEF r

LEMMA Enqueue ==
  ASSUME queue \in Seq(Users), IsInjective(queue), NEW u \in Users, ~Waits(u),
         queue' = Append(queue, u)
  PROVE  /\ queue' \in Seq(Users) /\ IsInjective(queue)'
         /\ \A v \in Users : Waits(v)' <=> (v = u \/ Waits(v))
<1>1. IsInjective(queue)' = IsInjective(queue')
  BY DEF IsInjective
<1> QED
  BY <1>1, AppendQueue DEF Waits, Range

LEMMA Dequeue ==
  ASSUME queue \in Seq(Users), IsInjective(queue), queue # << >>, queue' = Tail(queue)
  PROVE  /\ queue' \in Seq(Users) /\ IsInjective(queue)'
         /\ \A v \in Users : Waits(v)' <=> (v # Head(queue) /\ Waits(v))
<1>1. /\ Tail(queue) \in Seq(Users) /\ IsInjective(Tail(queue))
      /\ \A v : v \in Range(Tail(queue)) <=> (v # Head(queue) /\ v \in Range(queue))
  BY TailQueue
<1>2. IsInjective(queue)' = IsInjective(queue') /\ Range(queue)' = Range(queue')
  BY DEF IsInjective, Range
<1> QED
  BY <1>1, <1>2 DEF Waits

LEMMA Removed ==
  ASSUME queue \in Seq(Users), IsInjective(queue), NEW u \in Users, LeavesQueue(u)
  PROVE  /\ queue' \in Seq(Users) /\ IsInjective(queue)'
         /\ \A v \in Users : Waits(v)' <=> (v # u /\ Waits(v))
<1>1. CASE ~Waits(u) /\ UNCHANGED queue
  BY <1>1 DEF Waits
<1>2. CASE \E p \in DOMAIN queue : queue[p] = u /\ queue' = RemoveAt(queue, p)
  <2> DEFINE n == Len(queue)
  <2>1. PICK p \in 1 .. n : queue[p] = u /\ queue' = RemoveAt(queue, p)
    BY <1>2
  <2>2. n \in Nat /\ DOMAIN queue = 1 .. n /\ \A i \in 1 .. n : queue[i] \in Users
    OBVIOUS
  <2>3. /\ queue' \in Seq(Users) /\ DOMAIN queue' = 1 .. n - 1
        /\ \A i \in 1 .. p - 1 : queue'[i] = queue[i]
        /\ \A i \in p .. n - 1 : queue'[i] = queue[i + 1]
    <3> DEFINE a == SubSeq(queue, 1, p - 1)
               b == SubSeq(queue, p + 1, n)
    <3>1. a \in Seq(Users) /\ Len(a) = p - 1 /\ \A i \in 1 .. p - 1 : a[i] = queue[i]
      BY <2>1, <2>2
    <3>2. b \in Seq(Users) /\ Len(b) = n - p /\ \A i \in 1 .. n - p : b[i] = queue[p + i]
      <4>1. p + 1 \in Int /\ n \in Int /\ \A i \in p + 1 .. n : queue[i] \in Users
        BY <2>1, <2>2
      <4>2. /\ b \in Seq(Users) /\ Len(b) = IF p + 1 <= n THEN n - (p + 1) + 1 ELSE 0
            /\ \A i \in 1 .. n - (p + 1) + 1 : b[i] = queue[p + 1 + i - 1]
        BY <4>1, SubSeqProperties
      <4> HIDE DEF b, n
      <4> QED
        BY <2>1, <2>2, <4>2
    <3>3. queue' = a \o b
      BY <2>1 DEF RemoveAt
    <3> HIDE DEF a, b, n
    <3>4. /\ a \o b \in Seq(Users) /\ Len(a \o b) = n - 1
          /\ \A i \in 1 .. p - 1 : (a \o b)[i] = a[i]
          /\ \A i \in p .. n - 1 : (a \o b)[i] = b[i - (p - 1)]
      <4>1. \A i \in 1 .. n - 1 : (a \o b)[i] = IF i <= p - 1 THEN a[i] ELSE b[i - (p - 1)]
        BY <2>1, <2>2, <3>1, <3>2, ConcatProperties
      <4>2. a \o b \in Seq(Users) /\ Len(a \o b) = Len(a) + Len(b)
        BY <3>1, <3>2, ConcatProperties
      <4>3. Len(a) + Len(b) = n - 1
        BY <2>1, <2>2, <3>1, <3>2
      <4> QED
        BY <2>1, <2>2, <4>1, <4>2, <4>3
    <3>5. \A i \in p .. n - 1 : i - (p - 1) \in 1 .. n - p /\ p + (i - (p - 1)) = i + 1
      BY <2>1, <2>2
    <3>6. DOMAIN queue' = 1 .. n - 1
      BY <3>3, <3>4
    <3> QED
      BY <3>1, <3>2, <3>3, <3>4, <3>5, <3>6
  <2> HIDE DEF n
  <2>4. IsInjective(queue)'
    <3> SUFFICES ASSUME NEW i \in 1 .. n - 1, NEW j \in 1 .. n - 1, queue'[i] = queue'[j]
                 PROVE  i = j
      BY <2>3 DEF IsInjective
    <3> DEFINE at(m) == IF m < p THEN m ELSE m + 1
    <3>1. /\ at(i) \in 1 .. n /\ queue'[i] = queue[at(i)]
          /\ at(j) \in 1 .. n /\ queue'[j] = queue[at(j)]
      BY <2>2, <2>3
    <3>2. \A a, b \in 1 .. n : queue[a] = queue[b] => a = b
      BY <2>2 DEF IsInjective
    <3>3. at(i) = at(j)
      <4> HIDE DEF at
      <4> QED
        BY <3>1, <3>2
    <3> QED
      BY <2>2, <3>3
  <2>5. ASSUME NEW v \in Users
        PROVE  Waits(v)' <=> (v # u /\ Waits(v))
    <3>1. ASSUME Waits(v)'
          PROVE  v # u /\ Waits(v)
      <4>1. PICK i \in 1 .. n - 1 : queue'[i] = v
        BY <2>3, <3>1 DEF Waits, Range
      <4>2. PICK k \in 1 .. n : k # p /\ queue[k] = v
        <5>1. CASE i < p
          BY <2>2, <2>3, <4>1, <5>1
        <5>2. CASE i >= p
          <6>1. queue[i + 1] = v /\ i + 1 \in 1 .. n /\ i + 1 # p
            BY <2>2, <2>3, <4>1, <5>2
          <6> QED
            BY <6>1
        <5> QED
          BY <2>2, <4>1, <5>1, <5>2
      <4>3. v # u
        BY <2>1, <2>2, <4>2 DEF IsInjective
      <4> QED
        BY <2>2, <4>2, <4>3 DEF Waits, Range
    <3>2. ASSUME v # u, Waits(v)
          PROVE  Waits(v)'
      <4>1. PICK i \in 1 .. n : queue[i] = v
        BY <2>2, <3>2 DEF Waits, Range
      <4>2. CASE i < p
        BY <2>2, <2>3, <4>1, <4>2 DEF Waits, Range
      <4>3. CASE i > p
        <5>1. i - 1 \in p .. n - 1 /\ queue'[i - 1] = v
          BY <2>2, <2>3, <4>1, <4>3
        <5> QED
          BY <2>2, <2>3, <5>1 DEF Waits, Range
      <4> QED
        BY <2>1, <2>2, <3>2, <4>1, <4>2, <4>3
    <3> QED
      BY <3>1, <3>2
  <2> QED
    BY <2>3, <2>4, <2>5
<1> QED
  BY <1>1, <1>2 DEF LeavesQueue

\* What is given is a connection in the new user's name.
LEMMA GivenConn ==
  ASSUME TypeOK, NEW u \in Users \cup {"idle"}, NEW s \in Slots, Serves(s), ~Refused(s)
  PROVE  Given(s, u) \in Conn /\ Given(s, u).user = u
<1>1. conn \in [Slots -> Conn] /\ tokenAge \in 0 .. TokenTTL /\ AgeCap \in Nat /\ TokenTTL \in Nat \ {0}
  BY EnvTypes DEF TypeOK, Conn
<1>2. conn[s] \in Conn /\ conn[s].age \in 0 .. AgeCap /\ conn[s].born \in 0 .. TokenTTL - 1
  BY <1>1 DEF Conn
<1>3. CASE s \in Idle /\ ~Expired(s)
  <2>1. Given(s, u) = [conn[s] EXCEPT !.user = u]
    BY <1>3 DEF Given
  <2> QED
    BY <1>2, <2>1 DEF Conn
<1>4. CASE ~(s \in Idle /\ ~Expired(s))
  <2>1. Given(s, u) = [user |-> u, age |-> 0, born |-> tokenAge]
    BY <1>4 DEF Given
  <2>2. s \in Unused \/ Expired(s)
    BY <1>4 DEF Serves, Idle, Unused
  <2>3. tokenAge \in 0 .. TokenTTL - 1
    BY <1>1, <2>2 DEF Refused
  <2> QED
    BY <1>1, <2>1, <2>3 DEF Conn
<1> QED
  BY <1>3, <1>4

\* A connection is given to a user who holds none.
LEMMA Granted ==
  ASSUME TypeOK, UniqueHolders, NEW u \in Users, ~Holds(u),
         NEW s \in Slots, Serves(s), ~Refused(s),
         conn' = [conn EXCEPT ![s] = Given(s, u)], UNCHANGED env
  PROVE  /\ conn' \in [Slots -> Conn] /\ UniqueHolders'
         /\ \A v \in Users : Holds(v)' <=> (v = u \/ Holds(v))
<1>1. conn \in [Slots -> Conn]
  BY DEF TypeOK, Conn
<1>2. conn[s].user \in {"idle", "none"}
  BY DEF Serves, Idle, Unused
<1>3. Given(s, u) \in Conn /\ Given(s, u).user = u
  BY GivenConn
<1>4. /\ conn' \in [Slots -> Conn] /\ conn'[s].user = u
      /\ \A t \in Slots \ {s} : conn'[t] = conn[t]
  BY <1>1, <1>3
<1>5. Slots' = Slots
  BY DEF Slots
<1>6. \A t \in Slots : conn[t].user # u
  BY DEF Holds
<1>7. conn[s].user \notin Users
  BY <1>2, Names
<1>8. UniqueHolders'
  BY <1>4, <1>5, <1>6 DEF UniqueHolders
<1>9. ASSUME NEW v \in Users
      PROVE  Holds(v)' <=> (v = u \/ Holds(v))
  BY <1>4, <1>5, <1>7 DEF Holds
<1> QED
  BY <1>4, <1>8, <1>9

\* Those of us give their connections back, or close them; nobody else's is
\* touched.
LEMMA Released ==
  ASSUME TypeOK, UniqueHolders, NEW us, UNCHANGED env,
         conn' \in [Slots -> Conn],
         \A s \in Slots : IF conn[s].user \in us THEN conn'[s].user \notin Users
                          ELSE conn'[s].user = conn[s].user \/ {conn[s].user, conn'[s].user} \cap Users = {}
  PROVE  /\ UniqueHolders'
         /\ \A v \in Users : Holds(v)' <=> (v \notin us /\ Holds(v))
<1>1. Slots' = Slots
  BY DEF Slots
<1>2. UniqueHolders'
  BY <1>1 DEF UniqueHolders
<1>3. ASSUME NEW v \in Users
      PROVE  Holds(v)' <=> (v \notin us /\ Holds(v))
  BY <1>1 DEF Holds
<1> QED
  BY <1>2, <1>3

LEMMA ReturnedReleases ==
  ASSUME TypeOK, UniqueHolders, NEW us, UNCHANGED env, conn' = Returned(us)
  PROVE  /\ conn' \in [Slots -> Conn] /\ UniqueHolders'
         /\ \A v \in Users : Holds(v)' <=> (v \notin us /\ Holds(v))
<1>1. conn \in [Slots -> Conn] /\ AgeCap \in Nat /\ TokenTTL \in Nat \ {0}
  BY EnvTypes DEF TypeOK, Conn
<1>2. NoConn \in Conn /\ NoConn.user = "none"
  BY <1>1 DEF NoConn, Conn
<1>3. \A s \in Slots : /\ [conn[s] EXCEPT !.user = "idle"] \in Conn
                       /\ [conn[s] EXCEPT !.user = "idle"].user = "idle"
  BY <1>1 DEF Conn
<1>4. conn' \in [Slots -> Conn]
  BY <1>1, <1>2, <1>3 DEF Returned
<1>5. ASSUME NEW s \in Slots
      PROVE  IF conn[s].user \in us THEN conn'[s].user \notin Users
                                 ELSE conn'[s] = conn[s]
  BY <1>2, <1>3, Names DEF Returned
<1> QED
  BY <1>4, <1>5, Released

\* The connection of the listener is closed.
LEMMA ListenerReleases ==
  ASSUME TypeOK, UniqueHolders, UNCHANGED env,
         conn' = [s \in Slots |-> IF conn[s].user = "listener" THEN NoConn ELSE conn[s]]
  PROVE  /\ conn' \in [Slots -> Conn] /\ UniqueHolders'
         /\ \A v \in Users : Holds(v)' <=> (v # "listener" /\ Holds(v))
<1>1. conn \in [Slots -> Conn] /\ AgeCap \in Nat /\ TokenTTL \in Nat \ {0}
  BY EnvTypes DEF TypeOK, Conn
<1>2. NoConn \in Conn /\ NoConn.user = "none"
  BY <1>1 DEF NoConn, Conn
<1>3. conn' \in [Slots -> Conn]
  BY <1>1, <1>2
<1>4. ASSUME NEW s \in Slots
      PROVE  IF conn[s].user \in {"listener"} THEN conn'[s].user \notin Users
                                             ELSE conn'[s] = conn[s]
  BY <1>2, Names
<1>5. UniqueHolders' /\ \A v \in Users : Holds(v)' <=> (v \notin {"listener"} /\ Holds(v))
  BY <1>3, <1>4, Released
<1> QED
  BY <1>3, <1>5

\* Nobody gives back anything, whatever happens to idle connections.
LEMMA HoldersStay ==
  ASSUME TypeOK, UniqueHolders, UNCHANGED env,
         conn' \in [Slots -> Conn],
         \A s \in Slots : conn'[s].user = conn[s].user \/ {conn[s].user, conn'[s].user} \cap Users = {}
  PROVE  /\ UniqueHolders'
         /\ \A v \in Users : Holds(v)' <=> Holds(v)
<1> DEFINE nobody == {}
<1>1. \A v : v \notin nobody
  OBVIOUS
<1> HIDE DEF nobody
<1>2. UniqueHolders' /\ \A v \in Users : Holds(v)' <=> (v \notin nobody /\ Holds(v))
  BY <1>1, Released
<1> QED
  BY <1>1, <1>2
------------------------------------------------------------------------------
(***************************************************************************)
(* The listener and the requests. None of their steps touches tokens.      *)
(***************************************************************************)
LEMMA PoolStep ==
  ASSUME IInv, Running, UNCHANGED <<env, phase, refusing, tokenVars>>,
         conn' \in [Slots -> Conn], queue' \in Seq(Users),
         listener' \in ListenerPhase, request' \in [Clients -> RequestPhase],
         NothingLeaks', ReadyInv'
  PROVE  IInv'
<1>1. Slots' = Slots /\ AgeCap' = AgeCap /\ Running' = Running /\ Iam' = Iam /\ phase # "boot"
  BY DEF Slots, AgeCap, Running, Iam
<1>2. TypeOK'
  BY <1>1 DEF IInv, TypeOK, Conn, tokenVars
<1>3. BootInv' /\ ConfigInv'
  BY <1>1 DEF IInv, BootInv, ConfigInv, Running
<1>4. TokenInv'
  BY <1>1 DEF IInv, TokenInv, LostPerFailure, tokenVars
<1> QED
  BY <1>2, <1>3, <1>4 DEF IInv

\* What the steps below start from.
LEMMA PoolTypes ==
  ASSUME IInv
  PROVE  /\ TypeOK /\ NothingLeaks /\ UniqueHolders /\ IsInjective(queue)
         /\ queue \in Seq(Users) /\ conn \in [Slots -> Conn]
         /\ listener \in ListenerPhase /\ request \in [Clients -> RequestPhase]
         /\ \A s \in Slots : conn[s].user \in Users \cup {"none", "idle"}
BY DEF IInv, TypeOK, NothingLeaks, UniqueHolders, Conn

\* An idle connection is nobody's.
LEMMA CloseIdleStep ==
  ASSUME IInv, NEW s \in Slots, CloseIdle(s)
  PROVE  IInv' /\ \A t \in Slots : conn'[t].user \in Clients => conn'[t].user = conn[t].user
<1>1. /\ Running /\ UNCHANGED <<env, phase, queue, listener, request, refusing, tokenVars>>
      /\ conn[s].user = "idle" /\ conn' = [conn EXCEPT ![s] = NoConn]
  BY DEF CloseIdle, Idle
<1>2. NoConn \in Conn /\ NoConn.user = "none"
  BY PoolTypes, EnvTypes DEF NoConn, Conn
<1>3. /\ conn' \in [Slots -> Conn]
      /\ \A t \in Slots : conn'[t] = conn[t] \/ (conn[t].user = "idle" /\ conn'[t].user = "none")
  BY <1>1, <1>2, PoolTypes
<1>4. UniqueHolders' /\ \A v \in Users : Holds(v)' <=> Holds(v)
  BY <1>1, <1>3, PoolTypes, Names, HoldersStay
<1>5. \A v \in Users : Waits(v)' <=> Waits(v)
  BY <1>1 DEF Waits
<1>6. NothingLeaks'
  BY <1>1, <1>4, <1>5, PoolTypes, Names DEF NothingLeaks, UniqueHolders
<1>7. IInv'
  BY <1>1, <1>3, <1>6, PoolTypes, PoolStep DEF IInv, ReadyInv
<1>8. "none" \notin Clients
  BY Names
<1> QED
  BY <1>3, <1>7, <1>8

LEMMA ListenerConnectStep ==
  ASSUME IInv, ListenerConnect
  PROVE  IInv'
<1>1. /\ Running /\ UNCHANGED <<env, phase, conn, request, refusing, tokenVars>>
      /\ listener = "down" /\ listener' = "connecting" /\ queue' = Append(queue, "listener")
  BY DEF ListenerConnect
<1>2. ~Waits("listener")
  BY <1>1, PoolTypes DEF NothingLeaks
<1>3. /\ queue' \in Seq(Users) /\ IsInjective(queue)'
      /\ \A v \in Users : Waits(v)' <=> (v = "listener" \/ Waits(v))
  BY <1>1, <1>2, PoolTypes, Names, Enqueue
<1>4. UniqueHolders' /\ \A v \in Users : Holds(v)' <=> Holds(v)
  BY <1>1, PoolTypes, HoldersStay
<1>5. NothingLeaks'
  BY <1>1, <1>3, <1>4, PoolTypes, Names DEF NothingLeaks, UniqueHolders
<1>6. listener' \in ListenerPhase /\ ReadyInv'
  BY <1>1 DEF ListenerPhase, ReadyInv
<1> QED
  BY <1>1, <1>3, <1>5, <1>6, PoolTypes, PoolStep

LEMMA ListenerConnectedStep ==
  ASSUME IInv, ListenerConnected
  PROVE  IInv' /\ \A t \in Slots : conn'[t].user \in Clients => conn'[t].user = conn[t].user
<1>1. /\ Running /\ UNCHANGED <<env, phase, request, refusing, tokenVars>>
      /\ Grantable("listener") /\ listener' = "querying"
      /\ queue' = Append(Tail(queue), "query")
  BY DEF ListenerConnected
<1>2. PICK s \in Slots : Serves(s) /\ ~Refused(s) /\ conn' = [conn EXCEPT ![s] = Given(s, "listener")]
  BY DEF ListenerConnected
<1>3. queue # << >> /\ Head(queue) = "listener"
  BY <1>1 DEF Grantable
<1>4. /\ Waits("listener")
      /\ Tail(queue) \in Seq(Users) /\ IsInjective(Tail(queue))
      /\ \A v : v \in Range(Tail(queue)) <=> (v # "listener" /\ Waits(v))
  BY <1>3, PoolTypes, TailQueue DEF Waits
<1>5. listener = "connecting" /\ ~Holds("listener") /\ ~Waits("query") /\ ~Holds("query")
  BY <1>4, PoolTypes DEF NothingLeaks
<1>6. /\ queue' \in Seq(Users) /\ IsInjective(queue')
      /\ \A v : v \in Range(queue') <=> (v = "query" \/ v \in Range(Tail(queue)))
  BY <1>1, <1>4, <1>5, Names, AppendQueue
<1>7. IsInjective(queue)' /\ \A v \in Users : Waits(v)' <=> (v = "query" \/ (v # "listener" /\ Waits(v)))
  BY <1>4, <1>6 DEF IsInjective, Waits, Range
<1>8. /\ conn' \in [Slots -> Conn] /\ UniqueHolders'
      /\ \A v \in Users : Holds(v)' <=> (v = "listener" \/ Holds(v))
  BY <1>1, <1>2, <1>5, PoolTypes, Names, Granted
<1>9. NothingLeaks'
  BY <1>1, <1>5, <1>7, <1>8, PoolTypes, Names DEF NothingLeaks, UniqueHolders
<1>10. listener' \in ListenerPhase /\ ReadyInv'
  BY <1>1 DEF ListenerPhase, ReadyInv
<1>11. IInv'
  BY <1>1, <1>6, <1>8, <1>9, <1>10, PoolTypes, PoolStep
<1>12. \A t \in Slots : conn'[t] = conn[t] \/ conn'[t].user = "listener"
  BY <1>2, PoolTypes DEF Given, NoConn
<1> QED
  BY <1>11, <1>12, Names

LEMMA ListenerQueryStep ==
  ASSUME IInv, ListenerQuery
  PROVE  IInv' /\ \A t \in Slots : conn'[t].user \in Clients => conn'[t].user = conn[t].user
<1>1. /\ Running /\ UNCHANGED <<env, phase, listener, request, refusing, tokenVars>>
      /\ queue # << >> /\ Head(queue) = "query" /\ queue' = Tail(queue)
  BY DEF ListenerQuery, Acquired, Grantable
<1>2. PICK s \in Slots : Serves(s) /\ ~Refused(s) /\ conn' = [conn EXCEPT ![s] = Given(s, "query")]
  BY DEF ListenerQuery, Acquired
<1>3. /\ Waits("query") /\ queue' \in Seq(Users) /\ IsInjective(queue)'
      /\ \A v \in Users : Waits(v)' <=> (v # "query" /\ Waits(v))
  BY <1>1, PoolTypes, TailQueue, Dequeue DEF Waits
<1>4. listener = "querying" /\ ~Holds("query")
  BY <1>3, PoolTypes DEF NothingLeaks
<1>5. /\ conn' \in [Slots -> Conn] /\ UniqueHolders'
      /\ \A v \in Users : Holds(v)' <=> (v = "query" \/ Holds(v))
  BY <1>1, <1>2, <1>4, PoolTypes, Names, Granted
<1>6. NothingLeaks'
  BY <1>1, <1>3, <1>4, <1>5, PoolTypes, Names DEF NothingLeaks, UniqueHolders
<1>7. IInv'
  BY <1>1, <1>3, <1>4, <1>5, <1>6, PoolTypes, PoolStep DEF ReadyInv
<1>8. \A t \in Slots : conn'[t] = conn[t] \/ conn'[t].user = "query"
  BY <1>2, PoolTypes DEF Given, NoConn
<1> QED
  BY <1>7, <1>8, Names

\* The query runs on a connection beside the listener's: there are two slots.
LEMMA ListenerReadyStep ==
  ASSUME IInv, ListenerReady
  PROVE  IInv' /\ \A t \in Slots : conn'[t].user \in Clients => conn'[t].user = conn[t].user
<1>1. /\ Running /\ UNCHANGED <<env, phase, queue, request, refusing, tokenVars>>
      /\ Holds("query") /\ listener' = "ready" /\ conn' = Returned({"query"})
  BY DEF ListenerReady
<1>2. listener = "querying" /\ Holds("listener") /\ ~Waits("query")
  BY <1>1, PoolTypes DEF NothingLeaks
<1>3. env.max >= 2
  <2>1. PICK s, t \in Slots : conn[s].user = "query" /\ conn[t].user = "listener"
    BY <1>1, <1>2 DEF Holds
  <2>2. s # t /\ env.max \in Nat
    BY <2>1, PoolTypes, EnvTypes
  <2> QED
    BY <2>2 DEF Slots
<1>4. /\ conn' \in [Slots -> Conn] /\ UniqueHolders'
      /\ \A v \in Users : Holds(v)' <=> (v # "query" /\ Holds(v))
  BY <1>1, PoolTypes, Names, ReturnedReleases
<1>5. \A v \in Users : Waits(v)' <=> Waits(v)
  BY <1>1 DEF Waits
<1>6. NothingLeaks'
  BY <1>1, <1>2, <1>4, <1>5, PoolTypes, Names DEF NothingLeaks, UniqueHolders
<1>7. listener' \in ListenerPhase /\ ReadyInv'
  BY <1>1, <1>3 DEF ListenerPhase, ReadyInv
<1>8. IInv'
  BY <1>1, <1>4, <1>6, <1>7, PoolTypes, PoolStep
<1>9. \A t \in Slots : conn'[t] = conn[t] \/ conn'[t].user \in {"none", "idle"}
  BY <1>1, PoolTypes DEF Returned, NoConn
<1> QED
  BY <1>8, <1>9, Names

LEMMA ListenerLostStep ==
  ASSUME IInv, ListenerLost
  PROVE  IInv' /\ \A t \in Slots : conn'[t].user \in Clients => conn'[t].user = conn[t].user
<1>1. /\ Running /\ UNCHANGED <<env, phase, request, refusing, tokenVars>>
      /\ listener = "ready" /\ listener' = "connecting"
      /\ conn' = [s \in Slots |-> IF conn[s].user = "listener" THEN NoConn ELSE conn[s]]
      /\ queue' = Append(queue, "listener")
  BY DEF ListenerLost
<1>2. ~Waits("listener") /\ ~Waits("query") /\ ~Holds("query")
  BY <1>1, PoolTypes DEF NothingLeaks
<1>3. /\ queue' \in Seq(Users) /\ IsInjective(queue)'
      /\ \A v \in Users : Waits(v)' <=> (v = "listener" \/ Waits(v))
  BY <1>1, <1>2, PoolTypes, Names, Enqueue
<1>4. /\ conn' \in [Slots -> Conn] /\ UniqueHolders'
      /\ \A v \in Users : Holds(v)' <=> (v # "listener" /\ Holds(v))
  BY <1>1, PoolTypes, ListenerReleases
<1>5. NothingLeaks'
  BY <1>1, <1>2, <1>3, <1>4, PoolTypes, Names DEF NothingLeaks, UniqueHolders
<1>6. listener' \in ListenerPhase /\ ReadyInv'
  BY <1>1 DEF ListenerPhase, ReadyInv
<1>7. IInv'
  BY <1>1, <1>3, <1>4, <1>5, <1>6, PoolTypes, PoolStep
<1>8. \A t \in Slots : conn'[t] = conn[t] \/ conn'[t].user = "none"
  BY <1>1 DEF NoConn
<1> QED
  BY <1>7, <1>8, Names

\* Its place in the queue is given up with the attempt.
LEMMA ListenerFailsStep ==
  ASSUME IInv, ListenerFails
  PROVE  IInv' /\ \A t \in Slots : conn'[t].user \in Clients => conn'[t].user = conn[t].user
<1>1. /\ Running /\ UNCHANGED <<env, phase, request, refusing, tokenVars>>
      /\ listener' = "down"
      /\ conn' = Returned({"listener"})
  BY DEF ListenerFails
<1>2. PICK u \in {"listener", "query"} : Waits(u) /\ LeavesQueue(u)
  BY DEF ListenerFails, NotAcquired
<1>3. /\ ~Holds("query") /\ (Waits("listener") => ~Waits("query"))
      /\ (u = "query" => ~Waits("listener")) /\ (u = "listener" => ~Waits("query"))
  BY <1>2, PoolTypes DEF NothingLeaks
<1>4. /\ queue' \in Seq(Users) /\ IsInjective(queue)'
      /\ \A v \in Users : Waits(v)' <=> (v # u /\ Waits(v))
  BY <1>2, PoolTypes, Names, Removed
<1>5. /\ conn' \in [Slots -> Conn] /\ UniqueHolders'
      /\ \A v \in Users : Holds(v)' <=> (v \notin {"listener"} /\ Holds(v))
  BY <1>1, PoolTypes, ReturnedReleases
<1>6. NothingLeaks'
  BY <1>1, <1>2, <1>3, <1>4, <1>5, PoolTypes, Names DEF NothingLeaks, UniqueHolders
<1>7. listener' \in ListenerPhase /\ ReadyInv'
  BY <1>1 DEF ListenerPhase, ReadyInv
<1>8. IInv'
  BY <1>1, <1>4, <1>5, <1>6, <1>7, PoolTypes, PoolStep
<1>9. \A t \in Slots : conn'[t] = conn[t] \/ conn'[t].user \in {"none", "idle"}
  BY <1>1, PoolTypes DEF Returned, NoConn
<1> QED
  BY <1>8, <1>9, Names

\* With the error the listener gives back all it holds.
LEMMA ListenerErrsStep ==
  ASSUME IInv, ListenerErrs
  PROVE  IInv' /\ \A t \in Slots : conn'[t].user \in Clients => conn'[t].user = conn[t].user
<1>1. /\ Running /\ UNCHANGED <<env, phase, queue, request, refusing, tokenVars>>
      /\ listener' = "down" /\ conn' = Returned({"listener", "query"})
  BY DEF ListenerErrs
<1>2. ~Waits("listener") /\ ~Waits("query")
  BY PoolTypes DEF ListenerErrs, NothingLeaks
<1>3. /\ conn' \in [Slots -> Conn] /\ UniqueHolders'
      /\ \A v \in Users : Holds(v)' <=> (v \notin {"listener", "query"} /\ Holds(v))
  BY <1>1, PoolTypes, ReturnedReleases
<1>4. \A v \in Users : Waits(v)' <=> Waits(v)
  BY <1>1 DEF Waits
<1>5. NothingLeaks'
  BY <1>1, <1>2, <1>3, <1>4, PoolTypes, Names DEF NothingLeaks, UniqueHolders
<1>6. listener' \in ListenerPhase /\ ReadyInv'
  BY <1>1 DEF ListenerPhase, ReadyInv
<1>7. IInv'
  BY <1>1, <1>3, <1>5, <1>6, PoolTypes, PoolStep
<1>8. \A t \in Slots : conn'[t] = conn[t] \/ conn'[t].user \in {"none", "idle"}
  BY <1>1, PoolTypes DEF Returned, NoConn
<1> QED
  BY <1>7, <1>8, Names

\* The connection that the listener was given is idle again at once.
LEMMA ListenFailsStep ==
  ASSUME IInv, ListenFails
  PROVE  IInv' /\ \A t \in Slots : conn'[t].user \in Clients => conn'[t].user = conn[t].user
<1>1. /\ Running /\ UNCHANGED <<env, phase, request, refusing, tokenVars>>
      /\ queue # << >> /\ Head(queue) = "listener" /\ queue' = Tail(queue)
      /\ listener' = "down"
  BY DEF ListenFails, Grantable
<1>2. PICK s \in Slots : Serves(s) /\ ~Refused(s) /\ conn' = [conn EXCEPT ![s] = Given(s, "idle")]
  BY DEF ListenFails
<1>3. /\ Waits("listener") /\ queue' \in Seq(Users) /\ IsInjective(queue)'
      /\ \A v \in Users : Waits(v)' <=> (v # "listener" /\ Waits(v))
  BY <1>1, PoolTypes, TailQueue, Dequeue DEF Waits
<1>4. listener = "connecting" /\ ~Holds("listener") /\ ~Waits("query") /\ ~Holds("query")
  BY <1>3, PoolTypes DEF NothingLeaks
<1>5. Given(s, "idle") \in Conn /\ Given(s, "idle").user = "idle"
  BY <1>2, PoolTypes, GivenConn
<1>6. conn[s].user \in {"none", "idle"}
  BY <1>2 DEF Serves, Idle, Unused
<1>7. /\ conn' \in [Slots -> Conn]
      /\ \A t \in Slots : \/ conn'[t] = conn[t]
                          \/ conn[t].user \in {"none", "idle"} /\ conn'[t].user = "idle"
  BY <1>2, <1>5, <1>6, PoolTypes
<1>8. UniqueHolders' /\ \A v \in Users : Holds(v)' <=> Holds(v)
  BY <1>1, <1>7, PoolTypes, Names, HoldersStay
<1>9. NothingLeaks'
  BY <1>1, <1>3, <1>4, <1>8, PoolTypes, Names DEF NothingLeaks, UniqueHolders
<1>10. listener' \in ListenerPhase /\ ReadyInv'
  BY <1>1 DEF ListenerPhase, ReadyInv
<1>11. IInv'
  BY <1>1, <1>3, <1>7, <1>9, <1>10, PoolTypes, PoolStep
<1> QED
  BY <1>7, <1>11, Names
------------------------------------------------------------------------------
LEMMA RequestSent ==
  ASSUME IInv, NEW c \in Clients, Request(c)
  PROVE  IInv'
<1>1. /\ Running /\ UNCHANGED <<env, phase, conn, listener, refusing, tokenVars>>
      /\ request[c] = "none" /\ request' = [request EXCEPT ![c] = "waiting"]
      /\ queue' = Append(queue, c)
  BY DEF Request, Running
<1>2. c \in Users /\ ~Waits(c) /\ ~Holds(c)
  BY <1>1, PoolTypes, Names DEF NothingLeaks
<1>3. /\ queue' \in Seq(Users) /\ IsInjective(queue)'
      /\ \A v \in Users : Waits(v)' <=> (v = c \/ Waits(v))
  BY <1>1, <1>2, PoolTypes, Enqueue
<1>4. UniqueHolders' /\ \A v \in Users : Holds(v)' <=> Holds(v)
  BY <1>1, PoolTypes, HoldersStay
<1>5. /\ request' \in [Clients -> RequestPhase]
      /\ request'[c] = "waiting" /\ \A d \in Clients \ {c} : request'[d] = request[d]
  BY <1>1, PoolTypes DEF RequestPhase
<1>6. NothingLeaks'
  BY <1>1, <1>2, <1>3, <1>4, <1>5, PoolTypes, Names DEF NothingLeaks, UniqueHolders
<1> QED
  BY <1>1, <1>3, <1>5, <1>6, PoolTypes, PoolStep DEF IInv, ReadyInv

LEMMA RequestAcquiresStep ==
  ASSUME IInv, NEW c \in Clients, RequestAcquires(c)
  PROVE  IInv'
<1>1. /\ Running /\ UNCHANGED <<env, phase, listener, refusing, tokenVars>>
      /\ queue # << >> /\ Head(queue) = c /\ queue' = Tail(queue)
      /\ request' = [request EXCEPT ![c] = "holding"]
  BY DEF RequestAcquires, Acquired, Grantable
<1>2. PICK s \in Slots : Serves(s) /\ ~Refused(s) /\ conn' = [conn EXCEPT ![s] = Given(s, c)]
  BY DEF RequestAcquires, Acquired
<1>3. /\ Waits(c) /\ queue' \in Seq(Users) /\ IsInjective(queue)'
      /\ \A v \in Users : Waits(v)' <=> (v # c /\ Waits(v))
  BY <1>1, PoolTypes, TailQueue, Dequeue DEF Waits
<1>4. c \in Users /\ request[c] = "waiting" /\ ~Holds(c)
  BY <1>3, PoolTypes, Names DEF NothingLeaks
<1>5. /\ conn' \in [Slots -> Conn] /\ UniqueHolders'
      /\ \A v \in Users : Holds(v)' <=> (v = c \/ Holds(v))
  BY <1>1, <1>2, <1>4, PoolTypes, Granted
<1>6. /\ request' \in [Clients -> RequestPhase]
      /\ request'[c] = "holding" /\ \A d \in Clients \ {c} : request'[d] = request[d]
  BY <1>1, PoolTypes DEF RequestPhase
<1>7. NothingLeaks'
  BY <1>1, <1>3, <1>4, <1>5, <1>6, PoolTypes, Names DEF NothingLeaks, UniqueHolders
<1> QED
  BY <1>1, <1>3, <1>5, <1>6, <1>7, PoolTypes, PoolStep DEF IInv, ReadyInv

LEMMA RequestFailsStep ==
  ASSUME IInv, NEW c \in Clients, RequestFails(c)
  PROVE  IInv'
<1>1. /\ Running /\ UNCHANGED <<env, phase, conn, listener, refusing, tokenVars>>
      /\ Waits(c) /\ LeavesQueue(c)
      /\ request' = [request EXCEPT ![c] = "none"]
  BY DEF RequestFails, NotAcquired
<1>2. c \in Users /\ request[c] = "waiting" /\ ~Holds(c)
  BY <1>1, PoolTypes, Names DEF NothingLeaks
<1>3. /\ queue' \in Seq(Users) /\ IsInjective(queue)'
      /\ \A v \in Users : Waits(v)' <=> (v # c /\ Waits(v))
  BY <1>1, <1>2, PoolTypes, Removed
<1>4. UniqueHolders' /\ \A v \in Users : Holds(v)' <=> Holds(v)
  BY <1>1, PoolTypes, HoldersStay
<1>5. /\ request' \in [Clients -> RequestPhase]
      /\ request'[c] = "none" /\ \A d \in Clients \ {c} : request'[d] = request[d]
  BY <1>1, PoolTypes DEF RequestPhase
<1>6. NothingLeaks'
  BY <1>1, <1>2, <1>3, <1>4, <1>5, PoolTypes, Names DEF NothingLeaks, UniqueHolders
<1> QED
  BY <1>1, <1>3, <1>5, <1>6, PoolTypes, PoolStep DEF IInv, ReadyInv

\* A request that ends, goes on as a stream or is given up by its client.
LEMMA RequestEnds ==
  ASSUME IInv, NEW c \in Clients, RequestDone(c) \/ CatchUpDone(c) \/ ClientLeaves(c)
  PROVE  IInv' /\ \A t \in Slots : conn'[t].user \in Clients => conn'[t].user = conn[t].user
<1>1. /\ Running /\ UNCHANGED <<env, phase, listener, refusing, tokenVars>>
      /\ conn' = Returned({c})
  BY DEF RequestDone, CatchUpDone, ClientLeaves
<1>2. c \in Users /\ (request[c] = "holding" => ~Waits(c))
  BY <1>1, PoolTypes, Names DEF NothingLeaks
<1>3. /\ queue' \in Seq(Users) /\ IsInjective(queue)'
      /\ \A v \in Users : Waits(v)' <=> (v # c /\ Waits(v))
  <2>1. LeavesQueue(c)
    BY <1>2 DEF LeavesQueue, RequestDone, CatchUpDone, ClientLeaves
  <2> QED
    BY <1>2, <2>1, PoolTypes, Removed
<1>4. /\ conn' \in [Slots -> Conn] /\ UniqueHolders'
      /\ \A v \in Users : Holds(v)' <=> (v # c /\ Holds(v))
  BY <1>1, <1>2, PoolTypes, ReturnedReleases
<1>5. /\ request' \in [Clients -> RequestPhase]
      /\ request'[c] \in {"none", "live"} /\ \A d \in Clients \ {c} : request'[d] = request[d]
  BY PoolTypes DEF RequestPhase, RequestDone, CatchUpDone, ClientLeaves
<1>6. NothingLeaks'
  BY <1>1, <1>2, <1>3, <1>4, <1>5, PoolTypes, Names DEF NothingLeaks, UniqueHolders
<1>7. IInv'
  BY <1>1, <1>3, <1>4, <1>5, <1>6, PoolTypes, PoolStep DEF IInv, ReadyInv
<1>8. \A t \in Slots : conn'[t] = conn[t] \/ conn'[t].user \in {"none", "idle"}
  BY <1>1, PoolTypes DEF Returned, NoConn
<1> QED
  BY <1>7, <1>8, Names
------------------------------------------------------------------------------
(***************************************************************************)
(* Start-up, shutdown, and the refresher.                                  *)
(***************************************************************************)
LEMMA InitIInv == Init => IInv
<1> SUFFICES ASSUME Init
             PROVE  IInv
  OBVIOUS
<1>1. TypeOK
  <2>1. env \in Env /\ TokenTTL \in Nat \ {0} /\ MintTime \in Nat /\ AgeCap \in Nat
    BY TokenTTLAssumption, ServerProcessAssumption DEF Init, Env, AgeCap
  <2>2. NoConn \in Conn
    BY <2>1 DEF NoConn, Conn
  <2>3. conn \in [Slots -> Conn]
    BY <2>2 DEF Init
  <2>4. /\ env \in Environments /\ phase \in Phase /\ listener \in ListenerPhase
        /\ request \in [Clients -> RequestPhase] /\ {minting, refusing} \subseteq BOOLEAN
    BY DEF Init, Phase, ListenerPhase, RequestPhase
  <2>5. queue \in Seq(Users)
    BY DEF Init
  <2>6. tokenAge \in 0 .. TokenTTL /\ sinceTick \in Nat /\ mintAge \in 0 .. MintTime /\ missed \in 0 .. 2
    BY <2>1 DEF Init
  <2> QED
    BY <2>3, <2>4, <2>5, <2>6 DEF TypeOK, Conn
<1>2. \A s \in Slots : conn[s].user = "none"
  BY DEF Init, NoConn
<1>3. BootInv /\ ConfigInv /\ TokenInv /\ ReadyInv
  BY <1>2 DEF Init, BootInv, ConfigInv, TokenInv, ReadyInv, Running
<1>4. IsInjective(queue) /\ \A u \in Users : ~Waits(u)
  BY DEF Init, IsInjective, Waits, Range
<1>5. \A u \in Users : ~Holds(u)
  BY <1>2, Names DEF Holds
<1>6. NothingLeaks
  BY <1>2, <1>4, <1>5, Names DEF NothingLeaks, Init
<1> QED
  BY <1>1, <1>3, <1>6 DEF IInv

\* Steps that leave the pool as it is, ages of connections aside.
LEMMA AsideOfPool ==
  ASSUME IInv, TypeOK', BootInv', ConfigInv', TokenInv',
         UNCHANGED <<env, queue, listener, request>>, conn' \in [Slots -> Conn],
         \A s \in Slots : conn'[s].user = conn[s].user \/ {conn[s].user, conn'[s].user} \cap Users = {}
  PROVE  IInv'
<1>1. UniqueHolders' /\ \A v \in Users : Holds(v)' <=> Holds(v)
  BY PoolTypes, HoldersStay
<1>2. IsInjective(queue)' /\ \A v \in Users : Waits(v)' <=> Waits(v)
  BY PoolTypes DEF Waits, Range, IsInjective
<1>3. NothingLeaks'
  BY <1>1, <1>2, PoolTypes, Names DEF NothingLeaks, UniqueHolders
<1> QED
  BY <1>3 DEF IInv, ReadyInv

LEMMA StartStep ==
  ASSUME IInv, Start
  PROVE  IInv' /\ \A s \in Slots : conn'[s].user \in Clients => conn'[s].user = conn[s].user
<1>1. /\ phase = "boot" /\ Accepted(env) /\ phase' = "serving"
      /\ tokenAge' \in (IF Iam THEN 0 .. MintTime ELSE {0}) /\ tokenAge' < TokenTTL
      /\ conn' = [conn EXCEPT ![1] = [user |-> "idle", age |-> 0, born |-> tokenAge']]
      /\ UNCHANGED <<env, queue, listener, request, refusing, sinceTick, mintAge, minting, missed>>
  BY DEF Start
<1>2. /\ AgeCap \in Nat /\ TokenTTL \in Nat \ {0} /\ MintTime \in Nat /\ env.refresh \in Nat
      /\ Slots' = Slots /\ AgeCap' = AgeCap /\ Iam' = Iam
  BY <1>1, EnvTypes DEF IInv, Slots, AgeCap, Iam
<1>3. tokenAge' \in 0 .. TokenTTL - 1 /\ tokenAge' \in 0 .. MintTime
  BY <1>1, <1>2
<1>4. [user |-> "idle", age |-> 0, born |-> tokenAge'] \in Conn
  BY <1>2, <1>3 DEF Conn
<1>5. /\ conn' \in [Slots -> Conn]
      /\ \A s \in Slots : conn'[s].user \in {"none", "idle"} /\ conn[s].user = "none"
  BY <1>1, <1>4, PoolTypes DEF IInv, BootInv
<1>6. TypeOK'
  <2>1. tokenAge' \in 0 .. TokenTTL /\ phase' \in Phase
    BY <1>1, <1>2, <1>3 DEF Phase
  <2> QED
    BY <1>1, <1>2, <1>5, <2>1 DEF IInv, TypeOK, Conn
<1>7. BootInv' /\ ConfigInv'
  BY <1>1 DEF BootInv, ConfigInv
<1>8. TokenInv'
  <2>1. sinceTick' = 0 /\ mintAge' = 0 /\ minting' = FALSE /\ missed' = 0 /\ env' = env
    BY <1>1 DEF IInv, BootInv
  <2>2. LostPerFailure \in Nat /\ LostPerFailure' = LostPerFailure
    BY <1>1, <1>2 DEF LostPerFailure
  <2> QED
    BY <1>2, <1>3, <2>1, <2>2 DEF TokenInv
<1>9. IInv'
  BY <1>1, <1>5, <1>6, <1>7, <1>8, Names, AsideOfPool
<1> QED
  BY <1>5, <1>9, Names

\* The phase is all that changes.
LEMMA PhaseStep ==
  ASSUME IInv, StartFails \/ Signal \/ Exit
  PROVE  IInv' /\ UNCHANGED conn
<1>1. /\ phase' \in {"stopping", "exited"} /\ UNCHANGED <<env, poolVars, refusing, tokenVars>>
      /\ phase' = "stopping" => Running
  BY DEF StartFails, Signal, Exit, Running
<1>2. UNCHANGED <<env, conn, queue, listener, request, refusing, tokenAge, sinceTick, mintAge, minting, missed>>
  BY <1>1 DEF poolVars, tokenVars
<1>3. Slots' = Slots /\ AgeCap' = AgeCap /\ Iam' = Iam /\ (Running' => Running)
  BY <1>1, <1>2 DEF Slots, AgeCap, Iam, Running
<1>4. TypeOK'
  <2>1. phase' \in Phase
    BY <1>1 DEF Phase
  <2> QED
    BY <1>2, <1>3, <2>1 DEF IInv, TypeOK
<1>5. BootInv' /\ ConfigInv'
  BY <1>1, <1>2, <1>3 DEF IInv, BootInv, ConfigInv
<1>6. TokenInv'
  BY <1>2, <1>3 DEF IInv, TokenInv, LostPerFailure
<1> QED
  BY <1>2, <1>4, <1>5, <1>6, PoolTypes, AsideOfPool

\* Whether the database takes connections is all that changes.
LEMMA DatabaseStep ==
  ASSUME IInv, DatabaseChanges
  PROVE  IInv' /\ UNCHANGED conn
<1>1. /\ refusing' = ~refusing
      /\ UNCHANGED <<env, phase, conn, queue, listener, request,
                     tokenAge, sinceTick, mintAge, minting, missed>>
  BY DEF DatabaseChanges, poolVars, tokenVars
<1>2. Slots' = Slots /\ AgeCap' = AgeCap /\ Iam' = Iam /\ Running' = Running
  BY <1>1 DEF Slots, AgeCap, Iam, Running
<1>3. TypeOK'
  <2>1. refusing' \in BOOLEAN
    BY <1>1
  <2> QED
    BY <1>1, <1>2, <2>1 DEF IInv, TypeOK
<1>4. BootInv' /\ ConfigInv' /\ TokenInv'
  BY <1>1, <1>2 DEF IInv, BootInv, ConfigInv, TokenInv, LostPerFailure
<1> QED
  BY <1>1, <1>3, <1>4, PoolTypes, AsideOfPool

\* The numbers the refresher works with.
LEMMA TokenTypes ==
  ASSUME IInv
  PROVE  /\ tokenAge \in 0 .. TokenTTL /\ sinceTick \in Nat /\ mintAge \in 0 .. MintTime
         /\ minting \in BOOLEAN /\ missed \in 0 .. 2
         /\ env.refresh \in Nat /\ MintTime \in Nat /\ TokenTTL \in Nat /\ LostPerFailure \in Nat
         /\ env.refresh <= LostPerFailure /\ MintTime <= LostPerFailure
<1>1. /\ tokenAge \in 0 .. TokenTTL /\ sinceTick \in Nat /\ mintAge \in 0 .. MintTime
      /\ minting \in BOOLEAN /\ missed \in 0 .. 2
  BY DEF IInv, TypeOK
<1>2. env.refresh \in Nat /\ MintTime \in Nat /\ TokenTTL \in Nat
  BY EnvTypes DEF IInv
<1> QED
  BY <1>1, <1>2 DEF LostPerFailure

\* Steps of the refresher: the pool is as it is.
LEMMA RefresherStep ==
  ASSUME IInv, Running, UNCHANGED <<env, phase, queue, listener, request, refusing>>,
         conn' \in [Slots -> Conn], \A s \in Slots : conn'[s].user = conn[s].user,
         tokenAge' \in 0 .. TokenTTL, sinceTick' \in Nat, mintAge' \in 0 .. MintTime,
         minting' \in BOOLEAN, missed' \in 0 .. 2, TokenInv'
  PROVE  IInv'
<1>1. Slots' = Slots /\ AgeCap' = AgeCap /\ Running' = Running /\ phase # "boot"
  BY DEF Slots, AgeCap, Running
<1>2. TypeOK'
  BY <1>1 DEF IInv, TypeOK, Conn
<1>3. BootInv' /\ ConfigInv'
  BY <1>1 DEF IInv, BootInv, ConfigInv
<1> QED
  BY <1>2, <1>3, AsideOfPool

LEMMA TickStep ==
  ASSUME IInv, Tick
  PROVE  IInv' /\ \A s \in Slots : conn'[s].user = conn[s].user
<1>1. /\ Running /\ Iam
      /\ IF minting THEN mintAge < MintTime ELSE sinceTick < env.refresh
      /\ tokenAge' = Older(tokenAge, TokenTTL)
      /\ sinceTick' = Older(sinceTick, env.refresh)
      /\ mintAge' = IF minting THEN mintAge + 1 ELSE 0
      /\ conn' = [s \in Slots |-> IF conn[s].user = "none" THEN conn[s]
                                   ELSE [conn[s] EXCEPT !.age = Older(@, AgeCap)]]
      /\ UNCHANGED <<env, phase, queue, listener, request, refusing, minting, missed>>
  BY DEF Tick
<1>2. /\ conn' \in [Slots -> Conn] /\ \A s \in Slots : conn'[s].user = conn[s].user
  <2>1. ASSUME NEW s \in Slots
        PROVE  /\ [conn[s] EXCEPT !.age = Older(@, AgeCap)] \in Conn
               /\ [conn[s] EXCEPT !.age = Older(@, AgeCap)].user = conn[s].user
    <3>1. conn[s] \in Conn /\ AgeCap \in Nat
      BY PoolTypes, EnvTypes
    <3>2. conn[s].age \in 0 .. AgeCap
      BY <3>1 DEF Conn
    <3>3. Older(conn[s].age, AgeCap) \in 0 .. AgeCap
      BY <3>1, <3>2 DEF Older
    <3> QED
      BY <3>1, <3>3 DEF Conn
  <2>2. conn \in [Slots -> Conn]
    BY PoolTypes
  <2> QED
    BY <1>1, <2>1, <2>2
<1>3. /\ tokenAge' \in 0 .. TokenTTL /\ tokenAge' <= tokenAge + 1
      /\ sinceTick' = (IF sinceTick < env.refresh THEN sinceTick + 1 ELSE env.refresh)
      /\ sinceTick' \in Nat /\ mintAge' \in 0 .. MintTime
      /\ minting' \in BOOLEAN /\ missed' \in 0 .. 2
  BY <1>1, TokenTypes DEF Older
<1>4. TokenInv'
  <2> DEFINE lost == missed * LostPerFailure
  <2>1. lost \in Nat
    <3>1. \A m, n \in Nat : m * n \in Nat
      OBVIOUS
    <3> QED
      BY <3>1, TokenTypes
  <2>2. /\ LostPerFailure' = LostPerFailure /\ (missed * LostPerFailure)' = lost
        /\ Running' = Running /\ Iam' = Iam /\ env' = env /\ minting' = minting /\ missed' = missed
    BY <1>1 DEF LostPerFailure, Running, Iam
  <2>3. /\ sinceTick <= env.refresh
        /\ minting => sinceTick = IF mintAge <= env.refresh THEN mintAge ELSE env.refresh
        /\ ~minting => mintAge = 0
        /\ missed < 2 => tokenAge <= lost + MintTime + IF minting THEN env.refresh + mintAge ELSE sinceTick
    BY <1>1 DEF IInv, TokenInv
  <2> HIDE DEF lost
  <2>4. CASE minting
    <3>1. mintAge' = mintAge + 1
      BY <1>1, <2>4
    <3>2. sinceTick' <= env.refresh /\ sinceTick' = IF mintAge' <= env.refresh THEN mintAge' ELSE env.refresh
      BY <1>3, <2>3, <2>4, <3>1, TokenTypes
    <3>3. missed < 2 => tokenAge' <= lost + MintTime + (env.refresh + mintAge')
      BY <1>3, <2>1, <2>3, <2>4, <3>1, TokenTypes
    <3> QED
      BY <2>2, <2>4, <3>2, <3>3 DEF TokenInv
  <2>5. CASE ~minting
    <3>1. sinceTick' = sinceTick + 1 /\ mintAge' = 0 /\ sinceTick' <= env.refresh
      BY <1>1, <1>3, <2>5, TokenTypes
    <3>2. missed < 2 => tokenAge' <= lost + MintTime + sinceTick'
      BY <1>3, <2>1, <2>3, <2>5, <3>1, TokenTypes
    <3> QED
      BY <2>2, <2>5, <3>1, <3>2 DEF TokenInv
  <2> QED
    BY <2>4, <2>5
<1> QED
  BY <1>1, <1>2, <1>3, <1>4, RefresherStep

LEMMA RefreshTickStep ==
  ASSUME IInv, RefreshTick
  PROVE  IInv' /\ UNCHANGED conn
<1>1. /\ Running /\ Iam /\ ~minting /\ sinceTick = env.refresh
      /\ sinceTick' = 0 /\ minting' = TRUE
      /\ UNCHANGED <<env, phase, conn, queue, listener, request, refusing, tokenAge, mintAge, missed>>
  BY DEF RefreshTick, poolVars
<1>2. TokenInv'
  <2> DEFINE lost == missed * LostPerFailure
  <2>1. LostPerFailure' = LostPerFailure /\ (missed * LostPerFailure)' = lost
    BY <1>1 DEF LostPerFailure
  <2>2. mintAge = 0 /\ (missed < 2 => tokenAge <= lost + MintTime + env.refresh)
    BY <1>1 DEF IInv, TokenInv
  <2> HIDE DEF lost
  <2>3. env.refresh + mintAge = env.refresh /\ 0 <= env.refresh
    BY <2>2, TokenTypes
  <2> QED
    BY <1>1, <2>1, <2>2, <2>3 DEF TokenInv
<1> QED
  BY <1>1, <1>2, PoolTypes, TokenTypes, RefresherStep

\* The bound is the first one again.
LEMMA MintSucceedsStep ==
  ASSUME IInv, MintSucceeds
  PROVE  IInv' /\ UNCHANGED conn
<1>1. /\ Running /\ minting /\ tokenAge' \in 0 .. mintAge /\ tokenAge' <= TokenTTL
      /\ minting' = FALSE /\ mintAge' = 0 /\ missed' = 0
      /\ UNCHANGED <<env, phase, conn, queue, listener, request, refusing, sinceTick>>
  BY DEF MintSucceeds, poolVars
<1>2. ASSUME Iam
      PROVE  tokenAge' <= MintTime + sinceTick /\ sinceTick <= env.refresh
  <2>1. sinceTick = IF mintAge <= env.refresh THEN mintAge ELSE env.refresh
    BY <1>1, <1>2 DEF IInv, TokenInv
  <2> QED
    BY <1>1, <2>1, TokenTypes
<1>3. TokenInv'
  <2>1. LostPerFailure' \in Nat
    BY <1>1, TokenTypes DEF LostPerFailure
  <2>2. (missed * LostPerFailure)' = 0
    <3>1. \A n \in Nat : 0 * n = 0
      OBVIOUS
    <3> QED
      BY <1>1, <2>1, <3>1
  <2>3. MintTime + sinceTick = 0 + MintTime + sinceTick
    BY TokenTypes
  <2>4. Iam' = Iam /\ env' = env
    BY <1>1 DEF Iam
  <2>5. Iam => tokenAge' <= 0 + MintTime + sinceTick /\ sinceTick <= env.refresh
    BY <1>2, <2>3
  <2> QED
    BY <1>1, <2>2, <2>4, <2>5 DEF TokenInv
<1>4. tokenAge' \in 0 .. TokenTTL
  BY <1>1, TokenTypes
<1>5. /\ mintAge' \in 0 .. MintTime /\ minting' \in BOOLEAN
      /\ sinceTick' \in Nat /\ missed' \in 0 .. 2
  <2>1. minting' \in BOOLEAN
    BY <1>1
  <2>2. mintAge' \in 0 .. MintTime
    BY <1>1, TokenTypes
  <2>3. sinceTick' \in Nat /\ missed' \in 0 .. 2
    BY <1>1, TokenTypes
  <2> QED
    BY <2>1, <2>2, <2>3
<1>6. conn' \in [Slots -> Conn] /\ \A s \in Slots : conn'[s].user = conn[s].user
  BY <1>1, PoolTypes
<1>7. UNCHANGED <<env, phase, queue, listener, request, refusing>>
  BY <1>1
<1> QED
  BY <1>1, <1>3, <1>4, <1>5, <1>6, <1>7, RefresherStep

\* A failure costs an interval, or the time it took.
LEMMA MintFailsStep ==
  ASSUME IInv, MintFails
  PROVE  IInv' /\ UNCHANGED conn
<1>1. /\ Running /\ minting
      /\ minting' = FALSE /\ mintAge' = 0 /\ missed' = (IF missed < 2 THEN missed + 1 ELSE 2)
      /\ UNCHANGED <<env, phase, conn, queue, listener, request, refusing, tokenAge, sinceTick>>
  BY DEF MintFails, Older, poolVars
<1>2. ASSUME Iam
      PROVE  /\ sinceTick <= env.refresh
             /\ missed' < 2 => tokenAge <= missed' * LostPerFailure + MintTime + sinceTick
  <2>1. /\ sinceTick = IF mintAge <= env.refresh THEN mintAge ELSE env.refresh
        /\ missed < 2 => tokenAge <= missed * LostPerFailure + MintTime + (env.refresh + mintAge)
    BY <1>1, <1>2 DEF IInv, TokenInv
  <2>2. sinceTick <= env.refresh /\ env.refresh + mintAge <= LostPerFailure + sinceTick
    BY <2>1, TokenTypes
  <2>3. ASSUME missed' < 2
        PROVE  tokenAge <= missed' * LostPerFailure + MintTime + sinceTick
    <3>1. missed = 0 /\ missed' = 1
      BY <1>1, <2>3, TokenTypes
    <3>2. 0 * LostPerFailure = 0 /\ 1 * LostPerFailure = LostPerFailure
      BY TokenTypes
    <3>3. tokenAge <= 0 + MintTime + (env.refresh + mintAge)
      BY <2>1, <3>1, <3>2
    <3>4. tokenAge <= LostPerFailure + MintTime + sinceTick
      BY <2>2, <3>3, TokenTypes
    <3> QED
      BY <3>1, <3>2, <3>4
  <2> QED
    BY <2>2, <2>3
<1>3. TokenInv'
  <2>1. LostPerFailure' = LostPerFailure /\ Iam' = Iam
    BY <1>1 DEF LostPerFailure, Iam
  <2> QED
    BY <1>1, <1>2, <2>1 DEF TokenInv
<1>4. missed' \in 0 .. 2
  BY <1>1, TokenTypes
<1>5. /\ mintAge' \in 0 .. MintTime /\ minting' \in BOOLEAN
      /\ sinceTick' \in Nat /\ tokenAge' \in 0 .. TokenTTL
  <2>1. minting' \in BOOLEAN
    BY <1>1
  <2>2. mintAge' \in 0 .. MintTime
    BY <1>1, TokenTypes
  <2>3. sinceTick' \in Nat /\ tokenAge' \in 0 .. TokenTTL
    BY <1>1, TokenTypes
  <2> QED
    BY <2>1, <2>2, <2>3
<1>6. conn' \in [Slots -> Conn] /\ \A s \in Slots : conn'[s].user = conn[s].user
  BY <1>1, PoolTypes
<1>7. UNCHANGED <<env, phase, queue, listener, request, refusing>>
  BY <1>1
<1> QED
  BY <1>1, <1>3, <1>4, <1>5, <1>6, <1>7, RefresherStep
------------------------------------------------------------------------------
(***************************************************************************)
(* All steps together.                                                     *)
(***************************************************************************)
Rotated ==
  \A s \in Slots, c \in Clients :
    (Iam /\ Running /\ conn[s].user # c /\ conn'[s].user = c)
      => conn'[s].born + conn'[s].age < TokenTTL + env.lifetime

\* Only RequestAcquires gives a client a connection.
LEMMA NobodyServed ==
  ASSUME \A s \in Slots : conn'[s].user \in Clients => conn'[s].user = conn[s].user
  PROVE  Rotated
BY DEF Rotated

\* It is a new one, made with a token that is valid, or one that is idle
\* and has not reached its lifetime, which is not zero in IAM mode.
LEMMA ServedByRotation ==
  ASSUME IInv, NEW c \in Clients, RequestAcquires(c)
  PROVE  Rotated
<1>1. PICK s \in Slots : Serves(s) /\ ~Refused(s) /\ conn' = [conn EXCEPT ![s] = Given(s, c)]
  BY DEF RequestAcquires, Acquired
<1>2. conn'[s] = Given(s, c) /\ \A t \in Slots \ {s} : conn'[t] = conn[t]
  BY <1>1, PoolTypes
<1>3. SUFFICES ASSUME Iam, Running
               PROVE  Given(s, c).born + Given(s, c).age < TokenTTL + env.lifetime
  BY <1>2 DEF Rotated
<1>4. env.lifetime \in Nat \ {0} /\ TokenTTL \in Nat \ {0} /\ tokenAge \in 0 .. TokenTTL
  BY <1>3, EnvTypes, TokenTypes DEF IInv, ConfigInv
<1>6. CASE s \in Idle /\ ~Expired(s)
  <2>1. conn[s] \in Conn /\ AgeCap \in Nat
    BY PoolTypes, EnvTypes
  <2>2. conn[s].age \in 0 .. AgeCap /\ conn[s].born \in 0 .. TokenTTL - 1
    BY <2>1 DEF Conn
  <2>3. conn[s].age < env.lifetime
    BY <1>4, <1>6, <2>1, <2>2 DEF Expired
  <2>4. Given(s, c) = [conn[s] EXCEPT !.user = c]
    BY <1>6 DEF Given
  <2>5. Given(s, c).born = conn[s].born /\ Given(s, c).age = conn[s].age
    BY <2>1, <2>4 DEF Conn
  <2> QED
    BY <1>4, <2>1, <2>2, <2>3, <2>5
<1>7. CASE ~(s \in Idle /\ ~Expired(s))
  <2>1. Given(s, c) = [user |-> c, age |-> 0, born |-> tokenAge]
    BY <1>7 DEF Given
  <2>2. s \in Unused \/ Expired(s)
    BY <1>1, <1>7 DEF Serves, Idle, Unused
  <2>3. tokenAge < TokenTTL
    BY <1>1, <1>4, <2>2 DEF Refused
  <2> QED
    BY <1>4, <2>1, <2>3
<1> QED
  BY <1>6, <1>7

LEMMA NextStep == IInv /\ [Next]_vars => IInv' /\ (Next => Rotated)
<1> SUFFICES ASSUME IInv, [Next]_vars
             PROVE  IInv' /\ (Next => Rotated)
  OBVIOUS
<1>1. CASE Start
  BY <1>1, StartStep, NobodyServed
<1>2. CASE StartFails \/ Signal \/ Exit
  BY <1>2, PhaseStep, NobodyServed
<1>3. CASE \E s \in Slots : CloseIdle(s)
  BY <1>3, CloseIdleStep, NobodyServed
<1>4. CASE ListenerConnect
  <2>1. UNCHANGED conn
    BY <1>4 DEF ListenerConnect
  <2> QED
    BY <1>4, <2>1, ListenerConnectStep, NobodyServed
<1>5. CASE ListenerConnected \/ ListenerQuery \/ ListenerReady
  BY <1>5, ListenerConnectedStep, ListenerQueryStep, ListenerReadyStep, NobodyServed
<1>6. CASE DatabaseChanges
  BY <1>6, DatabaseStep, NobodyServed
<1>7. CASE ListenerLost \/ ListenerFails \/ ListenerErrs \/ ListenFails
  BY <1>7, ListenerLostStep, ListenerFailsStep, ListenerErrsStep, ListenFailsStep, NobodyServed
<1>8. ASSUME NEW c \in Clients, Request(c) \/ RequestFails(c)
      PROVE  IInv' /\ Rotated
  <2>1. UNCHANGED conn
    BY <1>8 DEF Request, RequestFails
  <2> QED
    BY <1>8, <2>1, RequestSent, RequestFailsStep, NobodyServed
<1>9. ASSUME NEW c \in Clients, RequestAcquires(c)
      PROVE  IInv' /\ Rotated
  BY <1>9, RequestAcquiresStep, ServedByRotation
<1>10. ASSUME NEW c \in Clients, RequestDone(c) \/ CatchUpDone(c) \/ ClientLeaves(c)
      PROVE  IInv' /\ Rotated
  BY <1>10, RequestEnds, NobodyServed
<1>11. CASE Tick
  BY <1>11, TickStep, NobodyServed
<1>12. CASE RefreshTick \/ MintSucceeds \/ MintFails
  BY <1>12, RefreshTickStep, MintSucceedsStep, MintFailsStep, NobodyServed
<1>13. CASE UNCHANGED vars
  <2>1. UNCHANGED <<env, phase, conn, queue, listener, request, refusing,
                    tokenAge, sinceTick, mintAge, minting, missed>>
    BY <1>13 DEF vars, poolVars, tokenVars
  <2>2. Slots' = Slots /\ AgeCap' = AgeCap /\ Running' = Running /\ Iam' = Iam
    BY <2>1 DEF Slots, AgeCap, Running, Iam
  <2>3. TypeOK' /\ BootInv' /\ ConfigInv' /\ TokenInv'
    BY <2>1, <2>2 DEF IInv, TypeOK, BootInv, ConfigInv, TokenInv, LostPerFailure
  <2> QED
    BY <2>1, <2>3, PoolTypes, AsideOfPool, NobodyServed
<1> QED
  BY <1>1, <1>2, <1>3, <1>4, <1>5, <1>6, <1>7, <1>8, <1>9, <1>10, <1>11, <1>12, <1>13
     DEF Next, ListenerStep, RequestStep

(***************************************************************************)
(* The inductive invariant.                                                *)
(***************************************************************************)
THEOREM Invariance == Spec => []IInv
<1> QED
  BY InitIInv, NextStep, PTL DEF Spec

(***************************************************************************)
(* Pool, queue and token stay what they are (db.rs, config.rs:107-157).    *)
(***************************************************************************)
THEOREM TypeCorrect == Spec => []TypeOK
<1>1. IInv => TypeOK
  BY DEF IInv
<1> QED
  BY <1>1, Invariance, PTL

(***************************************************************************)
(* However requests and the listener wait, fail and are given up, who      *)
(* holds or waits for a connection is who is being served with it          *)
(* (listener.rs:37-68 and the handlers of api/).                           *)
(***************************************************************************)
THEOREM PoolIsAccounted == Spec => []NothingLeaks
<1>1. IInv => NothingLeaks
  BY DEF IInv
<1> QED
  BY <1>1, Invariance, PTL

(***************************************************************************)
(* What NoConfigurationNeeded fails for: the listener is in its receive    *)
(* loop only in a pool of two or more, for it holds a connection while its *)
(* tip query needs another (listener.rs:60-68).                            *)
(***************************************************************************)
THEOREM TwoConnections == Spec => [](listener = "ready" => env.max >= 2)
<1>1. IInv => (listener = "ready" => env.max >= 2)
  BY DEF IInv, ReadyInv
<1> QED
  BY <1>1, Invariance, PTL

(***************************************************************************)
(* The age of the token, by the refreshes that failed, for any interval    *)
(* below its life and any time a mint may take (db.rs:136-165).            *)
(***************************************************************************)
THEOREM TokenAgeBounded == Spec => []TokenAgeIsExplained
<1>1. IInv => TokenAgeIsExplained
  <2> SUFFICES ASSUME IInv, Running, Iam, missed < 2
               PROVE  tokenAge <= env.refresh + missed * LostPerFailure + 2 * MintTime
    BY DEF TokenAgeIsExplained
  <2> DEFINE lost == missed * LostPerFailure
  <2>1. lost \in Nat
    <3>1. \A m, n \in Nat : m * n \in Nat
      OBVIOUS
    <3> QED
      BY <3>1, TokenTypes
  <2>2. /\ sinceTick <= env.refresh
        /\ tokenAge <= lost + MintTime + IF minting THEN env.refresh + mintAge ELSE sinceTick
    BY DEF IInv, TokenInv
  <2> HIDE DEF lost
  <2>3. tokenAge <= env.refresh + lost + 2 * MintTime
    BY <2>1, <2>2, TokenTypes
  <2> QED
    BY <2>3 DEF lost
<1> QED
  BY <1>1, Invariance, PTL

(***************************************************************************)
(* A request is never given a connection whose token was minted longer ago *)
(* than its life and the connection's lifetime together (config.rs:132-157,*)
(* db.rs:48-68).                                                           *)
(***************************************************************************)
THEOREM Rotation == Spec => ConnectionsAreRotated
<1>1. IInv /\ [Next]_vars => [Rotated]_vars
  BY NextStep
<1>2. Spec => [][Rotated]_vars
  BY <1>1, Invariance, PTL DEF Spec
<1> QED
  BY <1>2 DEF ConnectionsAreRotated, Rotated
==============================================================================
