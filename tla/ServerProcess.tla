----------------------------- MODULE ServerProcess -----------------------------
(***************************************************************************)
(* One ferra-server process and its database connections, from reading the *)
(* environment to exit: the pool and the IAM token refresher (db.rs), what *)
(* takes connections from the pool (the listener task of listener.rs and   *)
(* the requests of api/), and start-up and graceful shutdown (lib.rs).     *)
(* What the queries do is in KvStore and EventFanout; here they hold a     *)
(* connection for a while.                                                 *)
(*                                                                         *)
(* The pool is sqlx's: a permit per connection up to max_connections,      *)
(* waiters served first come first served, an idle connection reused if    *)
(* it is not past max_lifetime, a new one authenticated with the current   *)
(* connect options. Time only matters to tokens, so the clock runs in IAM  *)
(* mode only; elsewhere a timeout is something that may happen.            *)
(***************************************************************************)
EXTENDS ServerConfig, FiniteSets, SequencesExt

CONSTANTS
  Environments,  \* the environments the server may be started in
  Clients,       \* HTTP clients, each with one request at a time
  IamClients,    \* those of them that call in IAM mode (a bound)
  Outages,       \* the environments in which the database has outages (a bound)
  MintTime       \* bound on the time it takes to mint a token

ASSUME ServerProcessAssumption ==
  /\ Environments \subseteq Env
  /\ IamClients \subseteq Clients
  /\ Clients \cap {"none", "idle", "listener", "query"} = {}
  /\ MintTime \in Nat

VARIABLES
  env,        \* the environment, read once
  phase,      \* where run() is
  conn,       \* conn[s]: the physical connection in slot s of the pool
  queue,      \* who waits for a connection, in order
  listener,   \* the listener task's way to its receive loop
  request,    \* request[c]: what c's request is doing
  refusing,   \* the database turns new connections away
  tokenAge,   \* age of the token in the pool's connect options
  sinceTick,  \* time since the refresher's ticker last fired
  mintAge,    \* how long the mint under way has taken
  minting,    \* whether one is under way
  missed      \* refreshes that failed since the last that did not, up to 2

poolVars == <<conn, queue, listener, request>>
tokenVars == <<tokenAge, sinceTick, mintAge, minting, missed>>
vars == <<env, phase, poolVars, refusing, tokenVars>>

Phase == {"boot", "serving", "stopping", "exited"}

(***************************************************************************)
(* connecting: PgListener waits for a connection, which it keeps for good; *)
(* querying: waiting for or using a second one, to read the tip (or, when  *)
(* it reconnected, to replay the gap);  down: sleeping after an error.     *)
(***************************************************************************)
ListenerPhase == {"down", "connecting", "querying", "ready"}

\* waiting, holding: for and of a connection;  live: an open watch stream.
RequestPhase == {"none", "waiting", "holding", "live"}

\* The listener task asks the pool twice: for itself, then for its query.
Users == Clients \cup {"listener", "query"}

Slots == 1 .. env.max

\* age: since it was opened;  born: the age its token had then.
NoConn == [user |-> "none", age |-> 0, born |-> 0]

\* Ages beyond the largest that anything is compared with are all alike.
Older(age, cap) == IF age < cap THEN age + 1 ELSE cap
AgeCap == IF env.lifetime = 0 THEN TokenTTL ELSE env.lifetime

TypeOK ==
  /\ env \in Environments
  /\ phase \in Phase
  /\ conn \in [Slots -> [user : Users \cup {"none", "idle"}, age : 0 .. AgeCap, born : 0 .. TokenTTL - 1]]
  /\ queue \in Seq(Users)
  /\ listener \in ListenerPhase
  /\ request \in [Clients -> RequestPhase]
  /\ refusing \in BOOLEAN
  /\ tokenAge \in 0 .. TokenTTL
  /\ sinceTick \in Nat
  /\ mintAge \in 0 .. MintTime
  /\ minting \in BOOLEAN
  /\ missed \in 0 .. 2

Init ==
  /\ env \in Environments
  /\ phase = "boot"
  /\ conn = [s \in Slots |-> NoConn]
  /\ queue = << >>
  /\ listener = "down"
  /\ request = [c \in Clients |-> "none"]
  /\ refusing = FALSE
  /\ tokenAge = 0 /\ sinceTick = 0 /\ mintAge = 0 /\ minting = FALSE /\ missed = 0

Iam == DatabaseMode(env) = "iam"
Running == phase \in {"serving", "stopping"}
Waits(u) == u \in Range(queue)
Holds(u) == \E s \in Slots : conn[s].user = u
------------------------------------------------------------------------------
(***************************************************************************)
(* run(): start-up and shutdown.                                           *)
(***************************************************************************)

\* Connect (in IAM mode with a token just minted, which has to be valid
\* still), migrate, serve.
Start ==
  /\ phase = "boot"
  /\ Accepted(env)
  /\ phase' = "serving"
  /\ tokenAge' \in IF Iam THEN 0 .. MintTime ELSE {0}
  /\ tokenAge' < TokenTTL
  /\ conn' = [conn EXCEPT ![1] = [user |-> "idle", age |-> 0, born |-> tokenAge']]
  /\ UNCHANGED <<env, queue, listener, request, refusing, sinceTick, mintAge, minting, missed>>

\* The configuration is refused, or the database cannot be reached.
StartFails ==
  /\ phase = "boot"
  /\ phase' = "exited"
  /\ UNCHANGED <<env, poolVars, refusing, tokenVars>>

\* SIGTERM: no new requests, those under way go on.
Signal ==
  /\ phase = "serving"
  /\ phase' = "stopping"
  /\ UNCHANGED <<env, poolVars, refusing, tokenVars>>

\* axum::serve returns when every response has ended; run() and its tasks end.
Exit_ClosesPool ==
  /\ phase = "stopping"
  /\ \A c \in Clients : request[c] = "none"
  /\ \A s \in Slots : conn[s].user \in {"none", "idle"}
  /\ phase' = "exited"
  /\ UNCHANGED <<env, poolVars, refusing, tokenVars>>

Exit ==
  /\ phase = "stopping"
  /\ \A c \in Clients : request[c] = "none"
  /\ phase' = "exited"
  /\ UNCHANGED <<env, poolVars, refusing, tokenVars>>
------------------------------------------------------------------------------
(***************************************************************************)
(* The pool.                                                               *)
(***************************************************************************)
Idle == {s \in Slots : conn[s].user = "idle"}
Unused == {s \in Slots : conn[s].user = "none"}
Expired(s) == env.lifetime > 0 /\ conn[s].age >= env.lifetime

\* Slot s is the one the first waiter is served with.
Serves(s) == IF Idle # {} THEN s \in Idle ELSE s \in Unused /\ \A t \in Unused : s <= t
Grantable(u) == queue # << >> /\ Head(queue) = u /\ \E s \in Slots : Serves(s)

\* What u is given in slot s: the connection there, or a new one.
Given(s, u) ==
  IF s \in Idle /\ ~Expired(s) THEN [conn[s] EXCEPT !.user = u]
  ELSE [user |-> u, age |-> 0, born |-> tokenAge]

\* No new connection during an outage, nor with an expired token.
Refused(s) == (s \in Unused \/ Expired(s)) /\ (refusing \/ tokenAge >= TokenTTL)

\* The connections of us go back to the pool, which drops those that are too
\* old. A broken one is closed there, which is CloseIdle.
Returned(us) ==
  [s \in Slots |-> IF conn[s].user \notin us THEN conn[s]
                   ELSE IF Expired(s) THEN NoConn ELSE [conn[s] EXCEPT !.user = "idle"]]

\* u waits no longer, if it did.
LeavesQueue(u) ==
  \/ ~Waits(u) /\ UNCHANGED queue
  \/ \E p \in DOMAIN queue : queue[p] = u /\ queue' = RemoveAt(queue, p)

Acquired(u) ==
  /\ Grantable(u)
  /\ queue' = Tail(queue)
  /\ \E s \in Slots : Serves(s) /\ ~Refused(s) /\ conn' = [conn EXCEPT ![s] = Given(s, u)]

\* No connection: none came free within acquire_timeout, or it was refused.
NotAcquired(u) ==
  /\ Waits(u)
  /\ Grantable(u) => \E s \in Slots : Serves(s) /\ Refused(s)
  /\ LeavesQueue(u)

\* The database refuses new connections from now on, or no longer.
DatabaseChanges ==
  /\ Running
  /\ env \in Outages
  /\ refusing' = ~refusing
  /\ UNCHANGED <<env, phase, poolVars, tokenVars>>

\* An idle connection is closed: idle_timeout, max_lifetime, or the database.
CloseIdle(s) ==
  /\ Running
  /\ s \in Idle
  /\ conn' = [conn EXCEPT ![s] = NoConn]
  /\ UNCHANGED <<env, phase, queue, listener, request, refusing, tokenVars>>
------------------------------------------------------------------------------
(***************************************************************************)
(* listener::run, as far as its connections go.                            *)
(***************************************************************************)
ListenerConnect ==
  /\ Running
  /\ listener = "down"
  /\ listener' = "connecting"
  /\ queue' = Append(queue, "listener")
  /\ UNCHANGED <<env, phase, conn, request, refusing, tokenVars>>

\* Connected and listening; the tip query asks the pool for a connection.
ListenerConnected ==
  /\ Running
  /\ Grantable("listener")
  /\ \E s \in Slots : Serves(s) /\ ~Refused(s) /\ conn' = [conn EXCEPT ![s] = Given(s, "listener")]
  /\ queue' = Append(Tail(queue), "query")
  /\ listener' = "querying"
  /\ UNCHANGED <<env, phase, request, refusing, tokenVars>>

ListenerQuery ==
  /\ Running
  /\ Acquired("query")
  /\ UNCHANGED <<env, phase, listener, request, refusing, tokenVars>>

ListenerReady ==
  /\ Running
  /\ Holds("query")
  /\ listener' = "ready"
  /\ conn' = Returned({"query"})
  /\ UNCHANGED <<env, phase, queue, request, refusing, tokenVars>>

\* The connection breaks; PgListener asks the pool for another.
ListenerLost ==
  /\ Running
  /\ listener = "ready"
  /\ listener' = "connecting"
  /\ conn' = [s \in Slots |-> IF conn[s].user = "listener" THEN NoConn ELSE conn[s]]
  /\ queue' = Append(queue, "listener")
  /\ UNCHANGED <<env, phase, request, refusing, tokenVars>>

\* run_once fails for want of a connection and drops its PgListener, which
\* gives back its own; run sleeps and starts over.
ListenerFails_KeepsConnection ==
  /\ Running
  /\ NotAcquired("listener") \/ NotAcquired("query")
  /\ listener' = "down"
  /\ UNCHANGED <<env, phase, conn, request, refusing, tokenVars>>

ListenerFails ==
  /\ Running
  /\ NotAcquired("listener") \/ NotAcquired("query")
  /\ listener' = "down"
  /\ conn' = Returned({"listener"})
  /\ UNCHANGED <<env, phase, request, refusing, tokenVars>>

\* LISTEN fails on the connection just obtained, which is given back.
ListenFails ==
  /\ Running
  /\ Grantable("listener")
  /\ \E s \in Slots : Serves(s) /\ ~Refused(s) /\ conn' = [conn EXCEPT ![s] = Given(s, "idle")]
  /\ queue' = Tail(queue)
  /\ listener' = "down"
  /\ UNCHANGED <<env, phase, request, refusing, tokenVars>>

\* run_once fails with all it needs in hand: in the tip query or the replay,
\* or in try_recv with an error on which PgListener does not reconnect.
ListenerErrs ==
  /\ Running
  /\ Holds("query") \/ listener = "ready"
  /\ listener' = "down"
  /\ conn' = Returned({"listener", "query"})
  /\ UNCHANGED <<env, phase, queue, request, refusing, tokenVars>>
------------------------------------------------------------------------------
(***************************************************************************)
(* A request. Queries and watches differ only in what follows the query.   *)
(***************************************************************************)
Request(c) ==
  /\ phase = "serving"
  /\ Iam => c \in IamClients
  /\ request[c] = "none"
  /\ request' = [request EXCEPT ![c] = "waiting"]
  /\ queue' = Append(queue, c)
  /\ UNCHANGED <<env, phase, conn, listener, refusing, tokenVars>>

RequestAcquires(c) ==
  /\ Running
  /\ Acquired(c)
  /\ request' = [request EXCEPT ![c] = "holding"]
  /\ UNCHANGED <<env, phase, listener, refusing, tokenVars>>

RequestFails_Swallowed(c) ==
  /\ Running
  /\ NotAcquired(c)
  /\ UNCHANGED <<env, phase, conn, listener, request, refusing, tokenVars>>

\* A 500, or for a watch an error event and the end of the stream.
RequestFails(c) ==
  /\ Running
  /\ NotAcquired(c)
  /\ request' = [request EXCEPT ![c] = "none"]
  /\ UNCHANGED <<env, phase, conn, listener, refusing, tokenVars>>

\* The work is done: the response, or the end of a watch whose heartbeat
\* interval is zero, on which tokio panics.
RequestDone(c) ==
  /\ Running
  /\ request[c] = "holding"
  /\ request' = [request EXCEPT ![c] = "none"]
  /\ conn' = Returned({c})
  /\ UNCHANGED <<env, phase, queue, listener, refusing, tokenVars>>

\* It was the catch-up query of a watch, which goes on without a connection.
CatchUpDone(c) ==
  /\ Running
  /\ request[c] = "holding"
  /\ env.heartbeat > 0
  /\ request' = [request EXCEPT ![c] = "live"]
  /\ conn' = Returned({c})
  /\ UNCHANGED <<env, phase, queue, listener, refusing, tokenVars>>

ClientLeaves_KeepsConnection(c) ==
  /\ Running
  /\ request[c] # "none"
  /\ request' = [request EXCEPT ![c] = "none"]
  /\ LeavesQueue(c)
  /\ UNCHANGED <<env, phase, conn, listener, refusing, tokenVars>>

\* The client goes away, which drops the handler or the stream; or the
\* stream lags and ends with a reload.
ClientLeaves(c) ==
  /\ Running
  /\ request[c] # "none"
  /\ request' = [request EXCEPT ![c] = "none"]
  /\ LeavesQueue(c)
  /\ conn' = Returned({c})
  /\ UNCHANGED <<env, phase, listener, refusing, tokenVars>>
------------------------------------------------------------------------------
(***************************************************************************)
(* The token refresher of IAM mode.                                        *)
(***************************************************************************)

\* The listener task is about to get a connection. A tick is a minute, its
\* backoff a second: it gets there first.
ListenerIsQuicker ==
  /\ tokenAge < TokenTTL /\ ~refusing
  /\ listener = "down" \/ Grantable("listener") \/ Grantable("query")

\* Time passes, but not beyond a tick the refresher is waiting for, nor
\* beyond what a mint may take.
Tick ==
  /\ Running /\ Iam
  /\ ~ListenerIsQuicker
  /\ IF minting THEN mintAge < MintTime ELSE sinceTick < env.refresh
  /\ tokenAge' = Older(tokenAge, TokenTTL)
  /\ sinceTick' = Older(sinceTick, env.refresh)
  /\ mintAge' = IF minting THEN mintAge + 1 ELSE 0
  /\ conn' = [s \in Slots |-> IF conn[s].user = "none" THEN conn[s]
                               ELSE [conn[s] EXCEPT !.age = Older(@, AgeCap)]]
  /\ UNCHANGED <<env, phase, queue, listener, request, refusing, minting, missed>>

RefreshTick_GivesUp ==
  /\ Running /\ Iam
  /\ ~minting /\ sinceTick = env.refresh /\ missed = 0
  /\ sinceTick' = 0
  /\ minting' = TRUE
  /\ UNCHANGED <<env, phase, poolVars, refusing, tokenAge, mintAge, missed>>

\* ticker.tick(): the next one is an interval away from this one (Delay).
RefreshTick ==
  /\ Running /\ Iam
  /\ ~minting /\ sinceTick = env.refresh
  /\ sinceTick' = 0
  /\ minting' = TRUE
  /\ UNCHANGED <<env, phase, poolVars, refusing, tokenAge, mintAge, missed>>

\* set_connect_options; the token was signed at some point of the mint.
MintSucceeds_KeepsOptions ==
  /\ Running /\ minting
  /\ minting' = FALSE /\ mintAge' = 0 /\ missed' = 0
  /\ UNCHANGED <<env, phase, poolVars, refusing, tokenAge, sinceTick>>

MintSucceeds ==
  /\ Running /\ minting
  /\ tokenAge' \in 0 .. mintAge /\ tokenAge' <= TokenTTL
  /\ minting' = FALSE /\ mintAge' = 0 /\ missed' = 0
  /\ UNCHANGED <<env, phase, poolVars, refusing, sinceTick>>

MintFails_Uncapped ==
  /\ Running /\ minting
  /\ minting' = FALSE /\ mintAge' = 0
  /\ missed' = missed + 1
  /\ UNCHANGED <<env, phase, poolVars, refusing, tokenAge, sinceTick>>

\* The previous options stay; the next attempt is at the next tick.
MintFails ==
  /\ Running /\ minting
  /\ minting' = FALSE /\ mintAge' = 0
  /\ missed' = Older(missed, 2)
  /\ UNCHANGED <<env, phase, poolVars, refusing, tokenAge, sinceTick>>
------------------------------------------------------------------------------
ListenerStep ==
  ListenerConnect \/ ListenerConnected \/ ListenerQuery \/ ListenerReady \/ ListenerFails

RequestStep(c) ==
  RequestAcquires(c) \/ RequestFails(c) \/ RequestDone(c) \/ CatchUpDone(c)

Next ==
  \/ Start \/ StartFails \/ Signal \/ Exit
  \/ DatabaseChanges \/ \E s \in Slots : CloseIdle(s)
  \/ ListenerStep \/ ListenerLost \/ ListenFails \/ ListenerErrs
  \/ \E c \in Clients : Request(c) \/ RequestStep(c) \/ ClientLeaves(c)
  \/ Tick \/ RefreshTick \/ MintSucceeds \/ MintFails

Spec == Init /\ [][Next]_vars

(***************************************************************************)
(* The tasks run, queries finish, time passes, and a mint that is tried    *)
(* again and again succeeds some time.                                     *)
(***************************************************************************)
FairSpec ==
  /\ Spec
  /\ WF_vars(Exit) /\ WF_vars(ListenerStep)
  /\ \A c \in Clients : WF_vars(RequestStep(c))
  /\ WF_vars(Tick) /\ WF_vars(RefreshTick) /\ SF_vars(MintSucceeds)
------------------------------------------------------------------------------
(***************************************************************************)
(* The token that new connections present is no older than the refreshes   *)
(* that have failed explain: an interval for each of them and one more, a  *)
(* mint that is late, and the first one, which was signed before the ticker*)
(* started (db.rs:70-91, 136-165). A mint that fails after more than an    *)
(* interval costs its own time. With the default interval of 14 minutes    *)
(* one failure is enough to let it expire at 15.                           *)
(***************************************************************************)
LostPerFailure == IF MintTime <= env.refresh THEN env.refresh ELSE MintTime

TokenAgeIsExplained ==
  (Running /\ Iam /\ missed < 2)
    => tokenAge <= env.refresh + missed * LostPerFailure + 2 * MintTime

(***************************************************************************)
(* README.md:171 and server/README.md:45 promise more: the pool always has *)
(* a valid token.                                                          *)
(***************************************************************************)
TokenIsValid == Running /\ Iam => tokenAge < TokenTTL

(***************************************************************************)
(* max_lifetime bounds the age of the token behind a connection a request  *)
(* is given, but not by the life of the token: the connection may have     *)
(* been opened at the end of it (config.rs:132-157 counts from opening).   *)
(***************************************************************************)
ConnectionsAreRotated ==
  [][\A s \in Slots, c \in Clients :
       (Iam /\ Running /\ conn[s].user # c /\ conn'[s].user = c)
         => conn'[s].born + conn'[s].age < TokenTTL + env.lifetime]_vars

(***************************************************************************)
(* config.rs:132 asks for more: a connection is rotated out before its     *)
(* token expires, so no request is given one whose token has.              *)
(***************************************************************************)
RotatedBeforeExpiry ==
  [][\A s \in Slots, c \in Clients :
       (Iam /\ Running /\ conn[s].user # c /\ conn'[s].user = c)
         => conn'[s].born + conn'[s].age < TokenTTL]_vars

(***************************************************************************)
(* Nobody waits twice or holds two connections under one name, and who     *)
(* waits or holds is who the pool is serving: a request that was given up, *)
(* timed out or failed, and a listener that starts over, leave neither a   *)
(* connection out of the pool nor a place in its queue behind              *)
(* (listener.rs:37-68; the handlers of api/ hold what they got to the end).*)
(***************************************************************************)
NothingLeaks ==
  /\ IsInjective(queue)
  /\ \A s, t \in Slots : conn[s].user = conn[t].user /\ conn[s].user \in Users => s = t
  /\ \A c \in Clients : /\ Waits(c) <=> request[c] = "waiting"
                        /\ Holds(c) <=> request[c] = "holding"
  /\ Waits("listener") <=> listener = "connecting"
  /\ Holds("listener") <=> listener \in {"querying", "ready"}
  /\ (Waits("query") \/ Holds("query")) <=> listener = "querying"
  /\ ~(Waits("query") /\ Holds("query"))

(***************************************************************************)
(* Once requests leave it room, the database takes connections and nothing *)
(* fails in the listener's hands, it becomes ready, whatever was refused   *)
(* before, and becomes so again whenever it lost its connection            *)
(* (listener.rs:37-53). It takes a pool of two: see NoConfigurationNeeded. *)
(***************************************************************************)
Undisturbed ==
  /\ <>[](~refusing /\ \A c \in Clients : request[c] \in {"none", "live"})
  /\ <>[][~(ListenFails \/ ListenerErrs)]_vars

FanoutStarts ==
  Undisturbed => ((phase = "serving" /\ env.max >= 2) ~> (listener = "ready" \/ phase = "exited"))

(***************************************************************************)
(* server/README.md:116 has it for every server: "No configuration is      *)
(* needed - the listener starts automatically on every replica". But it    *)
(* keeps one connection and needs another one for its tip query            *)
(* (listener.rs:60-68), and parse_pool_config accepts a pool of one.       *)
(***************************************************************************)
NoConfigurationNeeded ==
  Undisturbed => (phase = "serving" ~> (listener = "ready" \/ phase = "exited"))

(***************************************************************************)
(* No request waits for ever, even while the listener sits on the only     *)
(* connection and waits for a second one (config.rs:29-33, listener.rs:66).*)
(***************************************************************************)
EveryRequestSettles ==
  \A c \in Clients : request[c] \in {"waiting", "holding"} ~> request[c] \in {"none", "live"}

(***************************************************************************)
(* A token that expired is replaced in the end: a failed refresh does not  *)
(* stop the refresher (db.rs:154-163).                                     *)
(***************************************************************************)
RefresherRecovers ==
  (Running /\ Iam /\ tokenAge >= TokenTTL) ~> (tokenAge < TokenTTL \/ phase = "exited")

(***************************************************************************)
(* Graceful shutdown (lib.rs:37-39) waits for open responses. What can     *)
(* keep a stopping server from exiting are watch streams, which only their *)
(* clients end, and nothing else: not the listener, not a full pool.       *)
(***************************************************************************)
OnlyStreamsDelayExit ==
  <>[](phase = "stopping") => []<>(\E c \in Clients : request[c] = "live")

(***************************************************************************)
(* docs/api.md:202 says that a stream ends when the server is shut down:   *)
(* the server would not wait for its clients to end it.                    *)
(***************************************************************************)
ShutdownEndsStreams == phase = "stopping" ~> phase = "exited"
==============================================================================
