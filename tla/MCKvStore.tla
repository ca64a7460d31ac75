------------------------------ MODULE MCKvStore ------------------------------
(* KvStore with two concurrent writers, two keys and pages of one event.    *)
EXTENDS KvStore, TLC

CONSTANTS h1, h2, k1, k2

MCHandlers == {h1, h2}
MCKeys == {k1, k2}
MCPagedKeys == {k1}
==============================================================================
