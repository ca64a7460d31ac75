---------------------------- MODULE MCServerProcess ----------------------------
(* ServerProcess in environments with and without IAM auth, with a pool of  *)
(* one and of two, and in some that are refused.                            *)
EXTENDS ServerProcess

CONSTANTS c1, c2

MCClients == {c1, c2}
MCIamClients == {c1}

Url == [url |-> TRUE, iam |-> FALSE, fields |-> FALSE, tls |-> TRUE, refresh |-> 2,
        max |-> 2, min |-> 0, acquire |-> 1, lifetime |-> 2, heartbeat |-> 1]
IamAuth(refresh, lifetime) ==
  [Url EXCEPT !.url = FALSE, !.iam = TRUE, !.fields = TRUE,
              !.refresh = refresh, !.lifetime = lifetime]

OneConnection(e) == [e EXCEPT !.max = 1]

MCEnvironments ==
  {Url, OneConnection(Url), [Url EXCEPT !.max = 0], [Url EXCEPT !.heartbeat = 0]}
  \cup {IamAuth(1, 1), OneConnection(IamAuth(3, 2)), IamAuth(2, 0), IamAuth(4, 1)}

MCOutages == {Url, OneConnection(Url), OneConnection(IamAuth(3, 2))}
==============================================================================
