----------------------------- MODULE ServerConfig -----------------------------
(***************************************************************************)
(* What ferra-server accepts as its configuration (server/src/config.rs):  *)
(* Config::from_env as a function of the environment variables that decide *)
(* how it may talk to the database. Durations are in ticks of TokenTTL.    *)
(***************************************************************************)
EXTENDS Naturals

CONSTANT TokenTTL  \* IAM_TOKEN_TTL_SECS, the life of an RDS auth token

ASSUME TokenTTLAssumption == TokenTTL \in Nat \ {0}

(***************************************************************************)
(* url: FERRA_DATABASE_URL is set;  iam: IAM auth is enabled;  fields: all *)
(* the discrete variables its mode requires are set;  tls: SSL_MODE is not *)
(* disable. A lifetime of 0 means that connections are never recycled.     *)
(***************************************************************************)
Env == [url : BOOLEAN, iam : BOOLEAN, fields : BOOLEAN, tls : BOOLEAN,
        refresh : Nat, max : Nat, min : Nat, acquire : Nat, lifetime : Nat,
        heartbeat : Nat]

\* parse_database_config: the way to connect, or none.
DatabaseMode(env) ==
  IF env.iam
  THEN IF ~env.url /\ env.fields /\ env.tls /\ env.refresh \in 1 .. TokenTTL - 1
       THEN "iam" ELSE "none"
  ELSE IF env.url THEN "url"
  ELSE IF env.fields THEN "discrete" ELSE "none"

\* parse_pool_config
PoolAccepted(env) == env.max > 0 /\ env.min <= env.max /\ env.acquire > 0

\* validate_pool_against_database
LifetimeAccepted_Unlimited(env) == DatabaseMode(env) = "iam" => env.lifetime < TokenTTL

LifetimeAccepted(env) == DatabaseMode(env) = "iam" => env.lifetime \in 1 .. TokenTTL - 1

\* Config::from_env; the heartbeat is taken as it is, 0 included.
Accepted(env) == DatabaseMode(env) # "none" /\ PoolAccepted(env) /\ LifetimeAccepted(env)
==============================================================================
