----------------------------- MODULE ConfigStore -----------------------------
(***************************************************************************)
(* What ferra-server promises to whoever writes to it and reads its event  *)
(* log: every accepted write is one indivisible step that appends an event *)
(* with a fresh, larger id and changes one row of the configuration table. *)
(* Transactions, locks, sequences and notifications do not appear here;    *)
(* KvStore implements this specification.                                  *)
(***************************************************************************)
EXTENDS Naturals, Sequences

CONSTANT Keys

VARIABLES
  log,  \* the accepted writes, oldest first
  kv    \* kv[k]: the event that wrote the current value of k, 0 if k is absent

storeVars == <<log, kv>>

Operation == {"set", "delete"}

Init ==
  /\ log = << >>
  /\ kv = [k \in Keys |-> 0]

(***************************************************************************)
(* One accepted write. Its id is read off the new log: any id above those  *)
(* already used will do, gaps are allowed.                                 *)
(***************************************************************************)
Write(k, op) ==
  LET id == log'[Len(log) + 1].id IN
  /\ op = "delete" => kv[k] # 0
  /\ Len(log') = Len(log) + 1
  /\ \A i \in 1 .. Len(log) : log[i].id < id
  /\ log' = Append(log, [id |-> id, key |-> k, op |-> op])
  /\ kv' = [kv EXCEPT ![k] = IF op = "set" THEN id ELSE 0]

Next == \E k \in Keys, op \in Operation : Write(k, op)

Spec == Init /\ [][Next]_storeVars
==============================================================================
