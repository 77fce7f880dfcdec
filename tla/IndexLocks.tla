----------------------------- MODULE IndexLocks -----------------------------
(***************************************************************************)
(* What LockFile promises: one recursive lock per index.  A thread has the *)
(* locks it holds, oldest first, and gives up the newest; it gets a lock   *)
(* that nobody else holds, whatever happens to the other indices.          *)
(***************************************************************************)
EXTENDS Integers, Sequences

CONSTANTS Thread, Index

VARIABLE held   \* held[p]: the indices thread p has locked, in order

Holds(p, i) == \E n \in DOMAIN held[p] : held[p][n] = i

Init == held = [p \in Thread |-> <<>>]

Acquire(p, i) ==
  /\ \A q \in Thread \ {p} : ~Holds(q, i)
  /\ held' = [held EXCEPT ![p] = Append(@, i)]

Release(p) ==
  /\ held[p] # <<>>
  /\ held' = [held EXCEPT ![p] = SubSeq(@, 1, Len(@) - 1)]

Next == \E p \in Thread : Release(p) \/ \E i \in Index : Acquire(p, i)

Spec == Init /\ [][Next]_held
=============================================================================
