----------------------------- MODULE MCAgentCache -----------------------------
(* AgentCache with two watched keys and one that is not under the prefix.   *)
EXTENDS AgentCache, TLC

CONSTANTS k1, k2, k3

MCKeys == {k1, k2, k3}
MCWatched == {k1, k2}
==============================================================================
