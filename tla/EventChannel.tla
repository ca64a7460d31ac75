------------------------------ MODULE EventChannel -----------------------------
(***************************************************************************)
(* What the watch task makes of its connections, without bytes, chunks and *)
(* a parser: a channel on which the messages of one connection are taken   *)
(* one by one in the order they were put there. It may break at any time,  *)
(* with what was not taken; only a channel that said that it would end and *)
(* is empty then is followed by the next one without a pause.              *)
(* WatchLink implements this specification.                                *)
(***************************************************************************)
EXTENDS Naturals, Sequences

CONSTANTS
  Message,
  Final     \* those that are the last of their channel

VARIABLES
  state,  \* idle, open or paused
  sent,   \* what was put on the channel
  taken   \* what was taken from it

vars == <<state, sent, taken>>

Init == state = "idle" /\ sent = << >> /\ taken = << >>

Empty == sent' = << >> /\ taken' = << >>

Ended == sent # << >> /\ sent[Len(sent)] \in Final

Open == state = "idle" /\ state' = "open" /\ Empty

Put(m) ==
  /\ state = "open" /\ ~Ended
  /\ sent' = Append(sent, m)
  /\ UNCHANGED <<state, taken>>

Take ==
  /\ state = "open" /\ Len(taken) < Len(sent)
  /\ taken' = Append(taken, sent[Len(taken) + 1])
  /\ UNCHANGED <<state, sent>>

Finish ==
  /\ state = "open" /\ Ended /\ taken = sent
  /\ state' = "idle" /\ Empty

Break == state # "paused" /\ state' = "paused" /\ Empty

Retry == state = "paused" /\ state' = "idle" /\ UNCHANGED <<sent, taken>>

Next == Open \/ (\E m \in Message : Put(m)) \/ Take \/ Finish \/ Break \/ Retry

Spec == Init /\ [][Next]_vars
==============================================================================
