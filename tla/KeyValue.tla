------------------------------ MODULE KeyValue ------------------------------
(***************************************************************************)
(* What the branch file promises to those who put and get data under keys  *)
(* none of which extends another: a store with one writer per key at a     *)
(* time.  A writer may first remove the old value (data of another size is *)
(* not replaced in one step), and its own value is in the store when it is *)
(* done.  A crash ends the puts in progress; the last value put before     *)
(* them is lost only under a key whose writer had removed it.              *)
(***************************************************************************)
CONSTANTS Key, Value, NoValue

VARIABLES
  store,    \* the value under each key, or NoValue
  pending   \* the value being put under each key, or NoValue

Init ==
  /\ store = [k \in Key |-> NoValue]
  /\ pending = [k \in Key |-> NoValue]

Begin(k, v) ==
  /\ pending[k] = NoValue
  /\ pending' = [pending EXCEPT ![k] = v]
  /\ UNCHANGED store

Remove(k) ==
  /\ pending[k] # NoValue
  /\ store' = [store EXCEPT ![k] = NoValue]
  /\ UNCHANGED pending

Commit(k) ==
  /\ pending[k] # NoValue
  /\ store' = [store EXCEPT ![k] = pending[k]]
  /\ pending' = [pending EXCEPT ![k] = NoValue]

Crash ==
  /\ pending' = [k \in Key |-> NoValue]
  /\ UNCHANGED store

Next ==
  \/ \E k \in Key : Remove(k) \/ Commit(k) \/ \E v \in Value : Begin(k, v)
  \/ Crash

Spec == Init /\ [][Next]_<<store, pending>>
=============================================================================
