------------------------------ MODULE MCLongPoll ------------------------------
(* LongPoll with a client of one key, and another key that also changes.    *)
EXTENDS LongPoll, TLC

CONSTANTS k1, k2, p1

MCKeys == {k1, k2}
MCPollers == {p1}
MCPollKey == p1 :> k1
==============================================================================
