------------------------------ MODULE LockFile ------------------------------
(***************************************************************************)
(* LockFile::lock and unlock (src/code/Database/LockFile.hpp), on which    *)
(* Path::ScopedLock rests: a lock for every branch index, made on demand.  *)
(* A map in shared memory holds, for an index in use, a recursive mutex    *)
(* and a counter; one global recursive mutex (SharedMemory::ScopedLock)    *)
(* guards the map, but a thread that finds the counter above zero releases *)
(* it before it looks the entry up again and waits for the entry's mutex.  *)
(* The entry is erased when the counter is back at zero.                   *)
(*                                                                         *)
(* A lookup in the map is one step here, also the one made without the     *)
(* global mutex while another thread changes the map.                      *)
(***************************************************************************)
EXTENDS Naturals, Sequences, FiniteSets

CONSTANTS
  Thread,     \* threads, of any process
  NoThread,   \* owner of a free mutex
  Index,      \* branch indices that get locked
  MaxDepth,   \* bound: locks a thread holds at a time
  MaxLocks    \* bound: calls of lock by a thread

ASSUME ThreadAssumption == NoThread \notin Thread
ASSUME IndexAssumption == Index \subseteq Nat
ASSUME BoundAssumption == MaxDepth \in Nat /\ MaxLocks \in Nat

VARIABLES
  map,      \* _sharedMap: index -> [counter, owner, depth]
  global,   \* owner of the global mutex
  held,     \* held[p]: the indices p has locked, in order
  pc,       \* where p is
  arg,      \* the index p is locking or unlocking
  left      \* calls of lock p may still make

vars == <<map, global, held, pc, arg, left>>

\* An entry: MapValueType, its recursive mutex as owner and depth.
Entry == [counter : Nat, owner : Thread \cup {NoThread}, depth : Nat]
NewEntry == [counter |-> 0, owner |-> NoThread, depth |-> 0]

PC == {"run", "first", "lookup", "wait", "drop"}

\* (*_sharedMap)[i]: the entry of i, made if there is none.
Found(i) ==
  [j \in DOMAIN map \cup {i} |-> IF j \in DOMAIN map THEN map[j] ELSE NewEntry]

\* Entry i can be locked by p; and is, once more.
Free(i, p) == map[i].owner \in {NoThread, p}
\* Mutant: the depth of the recursive mutex is counted the wrong way.
LockedDown(i, p) == [map EXCEPT ![i].owner = p, ![i].depth = @ - 1]

Locked(i, p) == [map EXCEPT ![i].owner = p, ![i].depth = @ + 1]

Init ==
  /\ map = [i \in {} |-> NewEntry]
  /\ global = NoThread
  /\ held = [p \in Thread |-> <<>>]
  /\ pc = [p \in Thread |-> "run"]
  /\ arg \in [Thread -> Index]
  /\ left = [p \in Thread |-> MaxLocks]

\* Mutant: the global mutex is kept whatever the counter.
LockKeepingGlobal(p, i) ==
  /\ pc[p] = "run" /\ left[p] > 0
  /\ Len(held[p]) < MaxDepth
  /\ global = NoThread
  /\ map' = [Found(i) EXCEPT ![i].counter = @ + 1]
  /\ arg' = [arg EXCEPT ![p] = i]
  /\ left' = [left EXCEPT ![p] = @ - 1]
  /\ pc' = [pc EXCEPT ![p] = "first"]
  /\ global' = p
  /\ UNCHANGED held

\* lock(i): the global mutex and the counter.  The global mutex stays locked
\* only if nobody was counted.
Lock(p, i) ==
  /\ pc[p] = "run" /\ left[p] > 0
  /\ Len(held[p]) < MaxDepth
  /\ global = NoThread
  /\ map' = [Found(i) EXCEPT ![i].counter = @ + 1]
  /\ arg' = [arg EXCEPT ![p] = i]
  /\ left' = [left EXCEPT ![p] = @ - 1]
  /\ IF Found(i)[i].counter = 0
     THEN pc' = [pc EXCEPT ![p] = "first"] /\ global' = p
     ELSE pc' = [pc EXCEPT ![p] = "lookup"] /\ UNCHANGED global
  /\ UNCHANGED held

\* The entry's mutex is locked while the global one is held.
LockFirst(p) ==
  /\ pc[p] = "first" /\ Free(arg[p], p)
  /\ map' = Locked(arg[p], p)
  /\ global' = NoThread
  /\ held' = [held EXCEPT ![p] = Append(@, arg[p])]
  /\ pc' = [pc EXCEPT ![p] = "run"]
  /\ UNCHANGED <<arg, left>>

\* The entry is looked up again, without the global mutex, ...
LookUp(p) ==
  /\ pc[p] = "lookup"
  /\ map' = Found(arg[p])
  /\ pc' = [pc EXCEPT ![p] = "wait"]
  /\ UNCHANGED <<global, held, arg, left>>

\* Mutant: try_lock, whose result nobody looks at.
LockTry(p) ==
  /\ pc[p] = "wait"
  /\ map' = IF Free(arg[p], p) THEN Locked(arg[p], p) ELSE map
  /\ held' = [held EXCEPT ![p] = Append(@, arg[p])]
  /\ pc' = [pc EXCEPT ![p] = "run"]
  /\ UNCHANGED <<global, arg, left>>

\* ... and its mutex waited for.
LockWait(p) ==
  /\ pc[p] = "wait" /\ Free(arg[p], p)
  /\ map' = Locked(arg[p], p)
  /\ held' = [held EXCEPT ![p] = Append(@, arg[p])]
  /\ pc' = [pc EXCEPT ![p] = "run"]
  /\ UNCHANGED <<global, arg, left>>

\* Mutant: the mutex is not recursive.
UnlockOutright(p) ==
  /\ pc[p] = "run" /\ held[p] # <<>>
  /\ global = NoThread
  /\ LET i == held[p][Len(held[p])] IN
       /\ map' = [map EXCEPT ![i].depth = 0, ![i].owner = NoThread]
       /\ arg' = [arg EXCEPT ![p] = i]
  /\ global' = p
  /\ held' = [held EXCEPT ![p] = SubSeq(@, 1, Len(@) - 1)]
  /\ pc' = [pc EXCEPT ![p] = "drop"]
  /\ UNCHANGED left

\* unlock(i), from the destructor of the newest ScopedLock: the global mutex,
\* then the entry's mutex, which a waiting thread can have at once.
Unlock(p) ==
  /\ pc[p] = "run" /\ held[p] # <<>>
  /\ global = NoThread
  /\ LET i == held[p][Len(held[p])]
         e == map[i] IN
       /\ map' = [map EXCEPT ![i].depth = @ - 1,
                             ![i].owner = IF e.depth = 1 THEN NoThread ELSE @]
       /\ arg' = [arg EXCEPT ![p] = i]
  /\ global' = p
  /\ held' = [held EXCEPT ![p] = SubSeq(@, 1, Len(@) - 1)]
  /\ pc' = [pc EXCEPT ![p] = "drop"]
  /\ UNCHANGED left

\* Mutant: the entry goes as soon as nobody owns its mutex.
DropUnowned(p) ==
  /\ pc[p] = "drop"
  /\ map' = IF map[arg[p]].owner = NoThread
            THEN [j \in DOMAIN map \ {arg[p]} |-> map[j]]
            ELSE [map EXCEPT ![arg[p]].counter = @ - 1]
  /\ global' = NoThread
  /\ pc' = [pc EXCEPT ![p] = "run"]
  /\ UNCHANGED <<held, arg, left>>

\* The counter, and the entry with it when it comes to zero.
Drop(p) ==
  /\ pc[p] = "drop"
  /\ map' = IF map[arg[p]].counter = 1
            THEN [j \in DOMAIN map \ {arg[p]} |-> map[j]]
            ELSE [map EXCEPT ![arg[p]].counter = @ - 1]
  /\ global' = NoThread
  /\ pc' = [pc EXCEPT ![p] = "run"]
  /\ UNCHANGED <<held, arg, left>>

\* p waits, and all it waits for wait too: threads that have one another's
\* indices, locked in different orders.
Stuck(p) ==
  \E S \in SUBSET Thread :
    /\ p \in S
    /\ \A q \in S : pc[q] = "wait" /\ map[arg[q]].owner \in S \ {q}

\* Nothing is left to do for a thread that is not stuck.
Finished ==
  /\ \A p \in Thread : (pc[p] = "run" /\ held[p] = <<>> /\ left[p] = 0) \/ Stuck(p)
  /\ UNCHANGED vars

Step(p) ==
  \/ \E i \in Index : Lock(p, i)
  \/ LockFirst(p) \/ LookUp(p) \/ LockWait(p) \/ Unlock(p) \/ Drop(p)

Next == (\E p \in Thread : Step(p)) \/ Finished

Spec == Init /\ [][Next]_vars

\* A thread that is inside lock or unlock goes on, and one that holds a lock
\* comes to the end of its scope.
FairSpec ==
  /\ Spec
  /\ \A p \in Thread :
       WF_vars(LockFirst(p) \/ LookUp(p) \/ LockWait(p) \/ Drop(p) \/ Unlock(p))

-----------------------------------------------------------------------------
(* Properties. *)

\* Type correctness.
TypeOK ==
  /\ DOMAIN map \subseteq Index /\ map \in [DOMAIN map -> Entry]
  /\ global \in Thread \cup {NoThread}
  /\ held \in [Thread -> Seq(Index)]
  /\ pc \in [Thread -> PC]
  /\ arg \in [Thread -> Index]
  /\ left \in [Thread -> Nat]

\* How often p has locked i, and how often it is counted for i: what it holds,
\* and the call it is in.
Depth(p, i) == Cardinality({n \in DOMAIN held[p] : held[p][n] = i})

InCall(p, i) == pc[p] # "run" /\ arg[p] = i

Users(i) == {p \in Thread : Depth(p, i) > 0 \/ InCall(p, i)}

\* No entry is lost or left behind: the map has an entry for exactly the
\* indices somebody has locked, is locking or is unlocking, so that the mutex
\* a thread waits for, after it let go of the global one, is the one the
\* owner of the index will unlock.
EntryKept == DOMAIN map = {i \in Index : Users(i) # {}}

\* The mutex of an entry is what the scopes say: held as often as its owner has
\* locked the index, and by nobody else.
MutexHeld ==
  \A i \in DOMAIN map, p \in Thread :
    /\ map[i].owner = p => Depth(p, i) = map[i].depth /\ Depth(p, i) > 0
    /\ map[i].owner # p => Depth(p, i) = 0

\* Threads that lock different indices do not wait for one another: a thread
\* never waits for the mutex of an entry while it holds the global one.
GlobalBrief == \A p \in Thread : pc[p] = "first" => Free(arg[p], p)

\* Each index is locked as if it had a lock of its own.
Locks == INSTANCE IndexLocks
ImplementsLocks == Locks!Spec

\* lock: a call returns, or ends up behind threads that wait for one another's
\* indices, which is their callers' doing.  The two mutexes, the global one and
\* an entry's, and the erasing of entries add no wait of their own that does
\* not end.
LockReturns ==
  \A p \in Thread : pc[p] \in {"first", "lookup", "wait"} ~> pc[p] = "run" \/ Stuck(p)
=============================================================================
