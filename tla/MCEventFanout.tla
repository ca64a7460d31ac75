---------------------------- MODULE MCEventFanout ----------------------------
(* EventFanout with one replica and one watcher, which watches one of two keys. *)
EXTENDS EventFanout, TLC

CONSTANTS r1, w1, k1, k2

MCReplicas == {r1}
MCWatchers == {w1}
MCKeys == {k1, k2}
MCWatched == w1 :> {k1}
==============================================================================
