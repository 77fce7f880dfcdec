---------------------------- MODULE SharedMemory ----------------------------
(***************************************************************************)
(* The life of a shared memory segment (Miscellaneous/SharedMemory.hpp):   *)
(* every object that opens the database file (or makes ids) attaches to    *)
(* the segment of that name, counts itself in it, without the mutex, uses  *)
(* the mutex in the segment, and removes the name when it is the last to   *)
(* count itself out.  A removed segment stays with those who have it open. *)
(***************************************************************************)
EXTENDS Integers, FiniteSets

CONSTANTS
  User,        \* objects that attach, of any thread and process
  NoUser,      \* owner of a free mutex
  MaxSegments, \* bound: segments created under the name
  MaxActive    \* how many users may be attaching or detaching at a time

ASSUME UserAssumption == NoUser \notin User
ASSUME BoundAssumption == MaxSegments \in Nat /\ MaxActive \in Nat

VARIABLES
  named,    \* the segment the name leads to, 0 if none
  created,  \* segments created so far, numbered from 1
  counter,  \* the counter of each segment (below zero: wrapped around)
  mutex,    \* the owner of the mutex of each segment
  seg,      \* the segment each user has open, 0 if none
  pc,       \* where each user is
  reg       \* the value of the counter a user has read

vars == <<named, created, counter, mutex, seg, pc, reg>>

Segment == 1 .. MaxSegments
PC == {"out", "count", "store", "in", "critical", "leave", "remove"}

\* In the constructor or the destructor.
Active(p) == pc[p] \in {"count", "store", "leave", "remove"}
MayBeActive(p) == Cardinality({q \in User \ {p} : Active(q)}) < MaxActive

Init ==
  /\ named = 0 /\ created = 0
  /\ counter = [s \in Segment |-> 0]
  /\ mutex = [s \in Segment |-> NoUser]
  /\ seg = [p \in User |-> 0]
  /\ pc = [p \in User |-> "out"]
  /\ reg = [p \in User |-> 0]

\* Mutant: a segment of its own for every user.
AttachOwn(p) ==
  /\ pc[p] = "out" /\ MayBeActive(p) /\ created < MaxSegments
  /\ named' = created + 1 /\ created' = created + 1
  /\ seg' = [seg EXCEPT ![p] = created + 1]
  /\ pc' = [pc EXCEPT ![p] = "count"]
  /\ UNCHANGED <<counter, mutex, reg>>

\* The constructor: open_or_create, and find_or_construct of what is in it.
Attach(p) ==
  /\ pc[p] = "out" /\ MayBeActive(p)
  /\ IF named # 0
     THEN UNCHANGED <<named, created>>
     ELSE created < MaxSegments /\ created' = created + 1 /\ named' = created'
  /\ seg' = [seg EXCEPT ![p] = named']
  /\ pc' = [pc EXCEPT ![p] = "count"]
  /\ UNCHANGED <<counter, mutex, reg>>

\* ++(*_counter), of a plain integer and without the mutex.
CountRead(p) ==
  /\ pc[p] = "count"
  /\ reg' = [reg EXCEPT ![p] = counter[seg[p]]]
  /\ pc' = [pc EXCEPT ![p] = "store"]
  /\ UNCHANGED <<named, created, counter, mutex, seg>>

\* Mutant: the increment is lost.
CountWriteNot(p) ==
  /\ pc[p] = "store"
  /\ counter' = [counter EXCEPT ![seg[p]] = reg[p]]
  /\ reg' = [reg EXCEPT ![p] = 0]
  /\ pc' = [pc EXCEPT ![p] = "in"]
  /\ UNCHANGED <<named, created, mutex, seg>>

CountWrite(p) ==
  /\ pc[p] = "store"
  /\ counter' = [counter EXCEPT ![seg[p]] = reg[p] + 1]
  /\ reg' = [reg EXCEPT ![p] = 0]
  /\ pc' = [pc EXCEPT ![p] = "in"]
  /\ UNCHANGED <<named, created, mutex, seg>>

\* A ScopedLock, and its end.
Enter(p) ==
  /\ pc[p] = "in" /\ mutex[seg[p]] = NoUser
  /\ mutex' = [mutex EXCEPT ![seg[p]] = p]
  /\ pc' = [pc EXCEPT ![p] = "critical"]
  /\ UNCHANGED <<named, created, counter, seg, reg>>

Leave(p) ==
  /\ pc[p] = "critical"
  /\ mutex' = [mutex EXCEPT ![seg[p]] = NoUser]
  /\ pc' = [pc EXCEPT ![p] = "in"]
  /\ UNCHANGED <<named, created, counter, seg, reg>>

\* The destructor: the mutex, and the first half of --(*_counter).
Detach(p) ==
  /\ pc[p] = "in" /\ MayBeActive(p) /\ mutex[seg[p]] = NoUser
  /\ mutex' = [mutex EXCEPT ![seg[p]] = p]
  /\ reg' = [reg EXCEPT ![p] = counter[seg[p]]]
  /\ pc' = [pc EXCEPT ![p] = "leave"]
  /\ UNCHANGED <<named, created, counter, seg>>

\* What the destructor does with the new value c of the counter: the last one
\* goes on to remove the name.
CountedOut(p, c, last) ==
  /\ counter' = [counter EXCEPT ![seg[p]] = c]
  /\ reg' = [reg EXCEPT ![p] = 0]
  /\ IF last
     THEN pc' = [pc EXCEPT ![p] = "remove"] /\ UNCHANGED <<mutex, seg>>
     ELSE /\ pc' = [pc EXCEPT ![p] = "out"]
          /\ mutex' = [mutex EXCEPT ![seg[p]] = NoUser]
          /\ seg' = [seg EXCEPT ![p] = 0]
  /\ UNCHANGED <<named, created>>

\* Mutant: the counter is compared before it is decremented.
CountOutEarly(p) ==
  pc[p] = "leave" /\ CountedOut(p, reg[p] - 1, reg[p] = 0)

\* Mutant: the name is removed whoever leaves.
CountOutAlways(p) ==
  pc[p] = "leave" /\ CountedOut(p, reg[p] - 1, TRUE)

CountOut(p) ==
  /\ pc[p] = "leave"
  /\ LET c == reg[p] - 1 IN CountedOut(p, c, c = 0)

\* shared_memory_object::remove goes by the name, whatever segment has it now;
\* then the mutex of the own segment is released.
Remove(p) ==
  /\ pc[p] = "remove"
  /\ named' = 0
  /\ mutex' = [mutex EXCEPT ![seg[p]] = NoUser]
  /\ seg' = [seg EXCEPT ![p] = 0]
  /\ pc' = [pc EXCEPT ![p] = "out"]
  /\ UNCHANGED <<created, counter, reg>>

Step(p) ==
  \/ Attach(p) \/ CountRead(p) \/ CountWrite(p)
  \/ Enter(p) \/ Leave(p)
  \/ Detach(p) \/ CountOut(p) \/ Remove(p)

Next == \E p \in User : Step(p)

Spec == Init /\ [][Next]_vars

-----------------------------------------------------------------------------
(* Properties. *)

\* Type correctness; the counter does not wrap around.
TypeOK ==
  /\ named \in 0 .. MaxSegments /\ created \in 0 .. MaxSegments
  /\ counter \in [Segment -> Nat]
  /\ mutex \in [Segment -> User \cup {NoUser}]
  /\ seg \in [User -> 0 .. MaxSegments]
  /\ pc \in [User -> PC]
  /\ reg \in [User -> Nat]

\* Two ScopedLocks on the same name exclude each other, also those of users
\* that came when others had gone.
Exclusive ==
  \A p, q \in User : pc[p] = "critical" /\ pc[q] = "critical" => p = q

\* Whoever has attached has the segment a newcomer would get.
OneSegment == \A p \in User : pc[p] \in {"in", "critical"} => seg[p] = named

\* Nothing is left in the system when the last user has gone.
NoneLeft == (\A p \in User : pc[p] = "out") => named = 0
=============================================================================
