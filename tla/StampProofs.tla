----------------------------- MODULE StampProofs -----------------------------
(***************************************************************************)
(* Theorems about SharedMemory and Timestamp, for any finite set of users  *)
(* and any bounds, when users attach and detach one at a time: whoever has *)
(* attached has the one segment of the name, the locks in it exclude each  *)
(* other, the last to leave removes it, and so the timestamps made in it   *)
(* are unique and in order.                                                *)
(*                                                                         *)
(* One at a time is needed: the counter is not locked, and two users that  *)
(* attach or detach at the same time can end up in different segments.     *)
(***************************************************************************)
EXTENDS Timestamp, FiniteSetTheorems, TLAPS

\* Users attach and detach one at a time.
OneAtATime == IsFiniteSet(User) /\ MaxActive = 1

\* Those the counter of the segment counts.
Counted == {p \in User : pc[p] \in {"in", "critical", "leave"}}

Single == \A p, q \in User : Active(p) /\ Active(q) => p = q

\* Whoever is in a segment is in the one of the name.
Named == named <= created /\ \A p \in User : pc[p] # "out" => named # 0 /\ seg[p] = named

Unused == \A s \in Segment : s > created => counter[s] = 0 /\ mutex[s] = NoUser

Count == named # 0 => counter[named] = Cardinality(Counted)

\* What a user has read is still the counter when it writes.
Register == \A p \in User : pc[p] \in {"store", "leave"} => reg[p] = counter[named]

Owner ==
  named # 0 => \A p \in User : mutex[named] = p <=> pc[p] \in {"critical", "leave", "remove"}

Last == \A p \in User : pc[p] = "remove" => counter[named] = 0

Occupied == named # 0 => \E p \in User : pc[p] # "out"

\* The inductive invariant of SharedMemory.
SegInv ==
  /\ TypeOK /\ Single /\ Named /\ Unused /\ Count
  /\ Register /\ Owner /\ Last /\ Occupied

-----------------------------------------------------------------------------
(* Helpers. *)

\* A user that may be active is the only one.
LEMMA OnlyActive ==
  ASSUME OneAtATime, NEW p \in User, MayBeActive(p)
  PROVE  \A q \in User \ {p} : ~ Active(q)
<1>1. IsFiniteSet({q \in User \ {p} : Active(q)})
  <2>1. {q \in User \ {p} : Active(q)} \subseteq User
    OBVIOUS
  <2> QED
    BY <2>1, FS_Subset DEF OneAtATime
<1>2. Cardinality({q \in User \ {p} : Active(q)}) \in Nat
  BY <1>1, FS_CardinalityType
<1>3. Cardinality({q \in User \ {p} : Active(q)}) = 0
  BY <1>2 DEF MayBeActive, OneAtATime
<1> QED
  BY <1>1, <1>3, FS_EmptySet

\* The users counted are finitely many.
LEMMA CountedFinite ==
  ASSUME OneAtATime
  PROVE  /\ IsFiniteSet(Counted) /\ Cardinality(Counted) \in Nat
         /\ Cardinality(Counted) = 0 <=> Counted = {}
<1>1. Counted \subseteq User
  BY DEF Counted
<1>2. IsFiniteSet(Counted)
  BY <1>1, FS_Subset DEF OneAtATime
<1> QED
  BY <1>2, FS_CardinalityType, FS_EmptySet

\* Where a user that is not outside is.
LEMMA InSegment ==
  ASSUME SegInv, NEW p \in User, pc[p] # "out"
  PROVE  /\ seg[p] = named /\ named # 0 /\ named \in Segment
         /\ counter[named] \in Nat
         /\ \A s \in Segment : s > created => s # named
<1>1. seg[p] = named /\ named # 0 /\ named <= created
  BY DEF SegInv, Named
<1>2. named \in 0 .. MaxSegments /\ created \in 0 .. MaxSegments
  BY DEF SegInv, TypeOK
<1>3. named \in Segment /\ \A s \in Segment : s > created => s # named
  BY <1>1, <1>2, BoundAssumption DEF Segment
<1> QED
  BY <1>1, <1>3 DEF SegInv, TypeOK

\* It holds before anybody attaches.
LEMMA InitSeg == OneAtATime /\ Init => SegInv
<1> SUFFICES ASSUME OneAtATime, Init PROVE SegInv
  OBVIOUS
<1>1. TypeOK
  BY BoundAssumption DEF Init, TypeOK, PC
<1>2. Single /\ Register /\ Last /\ Occupied /\ Count /\ Owner
  BY DEF Init, Single, Register, Last, Occupied, Count, Owner, Active
<1>3. Named /\ Unused
  BY DEF Init, Named, Unused
<1> QED
  BY <1>1, <1>2, <1>3 DEF SegInv

-----------------------------------------------------------------------------
(* Each step of a user keeps it. *)

\* The segment of the name, if there is one, or a fresh one that nobody counts in.
LEMMA AttachKeepsSeg ==
  ASSUME OneAtATime, SegInv, NEW p \in User, Attach(p)
  PROVE  SegInv'
<1>1. /\ TypeOK /\ pc[p] = "out" /\ pc' = [pc EXCEPT ![p] = "count"]
      /\ seg' = [seg EXCEPT ![p] = named']
      /\ counter' = counter /\ mutex' = mutex /\ reg' = reg
      /\ \/ named # 0 /\ named' = named /\ created' = created
         \/ named = 0 /\ created < MaxSegments /\ created' = created + 1 /\ named' = created + 1
  BY DEF SegInv, Attach
<1>2. \A q \in User \ {p} : ~ Active(q)
  BY OnlyActive DEF Attach
<1>3. named' \in Segment /\ created' \in 0 .. MaxSegments /\ named' <= created' /\ created <= created'
  BY <1>1, BoundAssumption DEF TypeOK, SegInv, Named, Segment
<1>4. TypeOK'
  BY <1>1, <1>3 DEF TypeOK, PC, Segment
<1>5. Single'
  BY <1>1, <1>2 DEF Single, Active, TypeOK
<1>6. \A q \in User : pc[q] # "out" => named' = named
  BY <1>1 DEF SegInv, Named
<1>7. Named' /\ Occupied'
  BY <1>1, <1>3, <1>6 DEF SegInv, Named, Occupied, TypeOK, Segment
<1>8. Unused'
  BY <1>1, <1>3 DEF SegInv, Unused, TypeOK, Segment
<1>9. Counted' = Counted
  BY <1>1 DEF Counted, TypeOK
<1>10. Count' /\ Owner'
  <2>1. CASE named # 0
    BY <1>1, <1>9, <2>1 DEF SegInv, Count, Owner, TypeOK
  <2>2. CASE named = 0
    <3>1. \A q \in User : pc[q] = "out"
      BY <2>2 DEF SegInv, Named
    <3>2. counter[named'] = 0 /\ mutex[named'] = NoUser
      BY <1>1, <1>3, <2>2 DEF SegInv, Unused, TypeOK
    <3>3. Cardinality(Counted) = 0
      BY <3>1, CountedFinite DEF Counted
    <3> QED
      BY <1>1, <1>9, <3>1, <3>2, <3>3, UserAssumption DEF Count, Owner, TypeOK
  <2> QED
    BY <2>1, <2>2
<1>11. Register' /\ Last'
  BY <1>1, <1>2 DEF SegInv, Register, Last, Active, TypeOK
<1> QED
  BY <1>4, <1>5, <1>7, <1>8, <1>10, <1>11 DEF SegInv

\* The counter is read.
LEMMA CountReadKeepsSeg ==
  ASSUME OneAtATime, SegInv, NEW p \in User, CountRead(p)
  PROVE  SegInv'
<1>1. pc[p] # "out"
  BY DEF CountRead
<1>2. \A s \in Segment : s > created => s # named
  BY <1>1, InSegment
<1>3. /\ TypeOK /\ pc[p] = "count" /\ pc' = [pc EXCEPT ![p] = "store"]
      /\ seg[p] = named /\ named # 0 /\ named \in Segment
      /\ reg' = [reg EXCEPT ![p] = counter[named]]
      /\ named' = named /\ created' = created /\ counter' = counter
      /\ mutex' = mutex /\ seg' = seg
  BY <1>1, InSegment DEF SegInv, CountRead, TypeOK
<1>4. TypeOK'
  BY <1>3, BoundAssumption DEF TypeOK, PC
<1>5. Single' /\ Named' /\ Unused' /\ Owner' /\ Last' /\ Occupied'
  BY <1>3 DEF SegInv, Single, Active, Named, Unused, Owner, Last, Occupied, TypeOK
<1>6. Counted' = Counted
  BY <1>3 DEF Counted, TypeOK
<1>7. Count' /\ Register'
  BY <1>3, <1>6 DEF SegInv, Count, Register, TypeOK
<1> QED
  BY <1>4, <1>5, <1>7 DEF SegInv

\* The counter is what was read, and counts one more.
LEMMA CountWriteKeepsSeg ==
  ASSUME OneAtATime, SegInv, NEW p \in User, CountWrite(p)
  PROVE  SegInv'
<1>1. pc[p] # "out"
  BY DEF CountWrite
<1>2. \A s \in Segment : s > created => s # named
  BY <1>1, InSegment
<1>3. /\ TypeOK /\ pc[p] = "store" /\ pc' = [pc EXCEPT ![p] = "in"]
      /\ seg[p] = named /\ named # 0 /\ named \in Segment
      /\ reg[p] = counter[named] /\ counter[named] \in Nat
      /\ counter' = [counter EXCEPT ![named] = counter[named] + 1]
      /\ reg' = [reg EXCEPT ![p] = 0]
      /\ named' = named /\ created' = created /\ mutex' = mutex /\ seg' = seg
  BY <1>1, InSegment DEF SegInv, CountWrite, TypeOK, Register
<1>4. \A q \in User \ {p} : ~ Active(q)
  BY <1>3 DEF SegInv, Single, Active
<1>5. TypeOK'
  BY <1>3, BoundAssumption DEF TypeOK, PC
<1>6. Single' /\ Named' /\ Owner' /\ Occupied'
  BY <1>3 DEF SegInv, Single, Active, Named, Owner, Occupied, TypeOK
<1>7. Unused'
  BY <1>2, <1>3 DEF SegInv, Unused, TypeOK
<1>8. Count'
  <2>1. Counted' = Counted \cup {p} /\ p \notin Counted
    BY <1>3 DEF Counted, TypeOK
  <2>2. Cardinality(Counted \cup {p}) = Cardinality(Counted) + 1
    BY <2>1, CountedFinite, FS_AddElement
  <2>3. counter'[named] = counter[named] + 1 /\ counter[named] = Cardinality(Counted)
    BY <1>3 DEF SegInv, Count, TypeOK
  <2> QED
    BY <1>3, <2>1, <2>2, <2>3 DEF Count
<1>9. Register' /\ Last'
  BY <1>3, <1>4 DEF Register, Last, Active, TypeOK
<1> QED
  BY <1>5, <1>6, <1>7, <1>8, <1>9 DEF SegInv

\* A ScopedLock and its end.
LEMMA EnterKeepsSeg ==
  ASSUME OneAtATime, SegInv, NEW p \in User, Enter(p) \/ Leave(p)
  PROVE  SegInv'
<1>1. pc[p] # "out"
  BY DEF Enter, Leave
<1>2. \A s \in Segment : s > created => s # named
  BY <1>1, InSegment
<1>3. /\ TypeOK /\ seg[p] = named /\ named # 0 /\ named \in Segment
      /\ \/ /\ pc[p] = "in" /\ pc' = [pc EXCEPT ![p] = "critical"]
            /\ mutex[named] = NoUser /\ mutex' = [mutex EXCEPT ![named] = p]
         \/ /\ pc[p] = "critical" /\ pc' = [pc EXCEPT ![p] = "in"]
            /\ mutex' = [mutex EXCEPT ![named] = NoUser]
      /\ named' = named /\ created' = created /\ counter' = counter
      /\ seg' = seg /\ reg' = reg
  BY <1>1, InSegment DEF SegInv, Enter, Leave, TypeOK
<1>4. TypeOK'
  BY <1>3, BoundAssumption DEF TypeOK, PC
<1>5. Single' /\ Named' /\ Register' /\ Last' /\ Occupied'
  BY <1>3 DEF SegInv, Single, Active, Named, Register, Last, Occupied, TypeOK
<1>6. Unused'
  BY <1>2, <1>3 DEF SegInv, Unused, TypeOK
<1>7. Counted' = Counted
  BY <1>3 DEF Counted, TypeOK
<1>8. Count'
  BY <1>3, <1>7 DEF SegInv, Count
<1>9. Owner'
  BY <1>3, UserAssumption DEF SegInv, Owner, TypeOK
<1> QED
  BY <1>4, <1>5, <1>6, <1>8, <1>9 DEF SegInv

\* The destructor locks the mutex and reads the counter.
LEMMA DetachKeepsSeg ==
  ASSUME OneAtATime, SegInv, NEW p \in User, Detach(p)
  PROVE  SegInv'
<1>1. pc[p] # "out"
  BY DEF Detach
<1>2. \A s \in Segment : s > created => s # named
  BY <1>1, InSegment
<1>3. /\ TypeOK /\ seg[p] = named /\ named # 0 /\ named \in Segment
      /\ pc[p] = "in" /\ pc' = [pc EXCEPT ![p] = "leave"]
      /\ mutex[named] = NoUser /\ mutex' = [mutex EXCEPT ![named] = p]
      /\ reg' = [reg EXCEPT ![p] = counter[named]]
      /\ named' = named /\ created' = created /\ counter' = counter /\ seg' = seg
  BY <1>1, InSegment DEF SegInv, Detach, TypeOK
<1>4. \A q \in User \ {p} : ~ Active(q)
  BY OnlyActive DEF Detach
<1>5. TypeOK'
  BY <1>3, BoundAssumption DEF TypeOK, PC
<1>6. Single' /\ Named' /\ Last' /\ Occupied'
  BY <1>3, <1>4 DEF SegInv, Single, Active, Named, Last, Occupied, TypeOK
<1>7. Unused'
  BY <1>2, <1>3 DEF SegInv, Unused, TypeOK
<1>8. Counted' = Counted
  BY <1>3 DEF Counted, TypeOK
<1>9. Count' /\ Register'
  BY <1>3, <1>8 DEF SegInv, Count, Register, TypeOK
<1>10. Owner'
  BY <1>3, UserAssumption DEF SegInv, Owner, TypeOK
<1> QED
  BY <1>5, <1>6, <1>7, <1>9, <1>10 DEF SegInv

\* The counter counts one less: others are left, or the name is to be removed.
LEMMA CountOutKeepsSeg ==
  ASSUME OneAtATime, SegInv, NEW p \in User, CountOut(p)
  PROVE  SegInv'
<1>0. PICK c : c = reg[p] - 1
  OBVIOUS
<1>1. pc[p] # "out"
  BY DEF CountOut
<1>2. \A s \in Segment : s > created => s # named
  BY <1>1, InSegment
<1>3. /\ TypeOK /\ seg[p] = named /\ named # 0 /\ named \in Segment
      /\ pc[p] = "leave" /\ reg[p] = counter[named]
      /\ counter' = [counter EXCEPT ![named] = c]
      /\ reg' = [reg EXCEPT ![p] = 0]
      /\ \/ c = 0 /\ pc' = [pc EXCEPT ![p] = "remove"] /\ mutex' = mutex /\ seg' = seg
         \/ /\ c # 0 /\ pc' = [pc EXCEPT ![p] = "out"]
            /\ mutex' = [mutex EXCEPT ![named] = NoUser] /\ seg' = [seg EXCEPT ![p] = 0]
      /\ named' = named /\ created' = created
  BY <1>0, <1>1, InSegment DEF SegInv, CountOut, CountedOut, TypeOK, Register
<1>4. \A q \in User \ {p} : ~ Active(q)
  BY <1>3 DEF SegInv, Single, Active
<1>5. /\ Counted' = Counted \ {p} /\ p \in Counted
      /\ Cardinality(Counted \ {p}) = c /\ c \in Nat
      /\ c = 0 <=> Counted \ {p} = {}
  <2>1. Counted' = Counted \ {p} /\ p \in Counted
    BY <1>3 DEF Counted, TypeOK
  <2>2. IsFiniteSet(Counted \ {p}) /\ Cardinality(Counted \ {p}) = Cardinality(Counted) - 1
    BY <2>1, CountedFinite, FS_RemoveElement
  <2>3. Cardinality(Counted) = counter[named]
    BY <1>3 DEF SegInv, Count
  <2>4. Cardinality(Counted \ {p}) \in Nat /\ (Cardinality(Counted \ {p}) = 0 <=> Counted \ {p} = {})
    BY <2>2, FS_CardinalityType, FS_EmptySet
  <2> QED
    BY <1>0, <1>3, <2>1, <2>2, <2>3, <2>4
<1>6. TypeOK'
  BY <1>3, <1>5, BoundAssumption DEF TypeOK, PC
<1>7. Single'
  BY <1>3, <1>4 DEF Single, Active, TypeOK
<1>8. Named'
  BY <1>3 DEF SegInv, Named, TypeOK
<1>9. Unused'
  BY <1>2, <1>3 DEF SegInv, Unused, TypeOK
<1>10. Count'
  BY <1>3, <1>5 DEF Count, TypeOK
<1>11. Register' /\ Last'
  BY <1>3, <1>4 DEF Register, Last, Active, TypeOK
<1>12. Owner'
  BY <1>3, UserAssumption DEF SegInv, Owner, TypeOK
<1>13. Occupied'
  BY <1>3, <1>5 DEF Occupied, Counted, TypeOK
<1> QED
  BY <1>6, <1>7, <1>8, <1>9, <1>10, <1>11, <1>12, <1>13 DEF SegInv

\* Who removes the name is alone.
LEMMA RemoveKeepsSeg ==
  ASSUME OneAtATime, SegInv, NEW p \in User, Remove(p)
  PROVE  SegInv'
<1>1. pc[p] # "out"
  BY DEF Remove
<1>2. \A s \in Segment : s > created => s # named
  BY <1>1, InSegment
<1>3. /\ TypeOK /\ seg[p] = named /\ named # 0 /\ named \in Segment
      /\ pc[p] = "remove" /\ pc' = [pc EXCEPT ![p] = "out"]
      /\ named' = 0 /\ mutex' = [mutex EXCEPT ![named] = NoUser]
      /\ seg' = [seg EXCEPT ![p] = 0]
      /\ created' = created /\ counter' = counter /\ reg' = reg
  BY <1>1, InSegment DEF SegInv, Remove, TypeOK
<1>4. \A q \in User \ {p} : ~ Active(q)
  BY <1>3 DEF SegInv, Single, Active
<1>5. Counted = {}
  BY <1>3, CountedFinite DEF SegInv, Last, Count
<1>6. \A q \in User \ {p} : pc[q] = "out"
  BY <1>3, <1>4, <1>5 DEF Active, Counted, TypeOK, PC
<1>7. \A q \in User : pc'[q] = "out"
  BY <1>3, <1>6 DEF TypeOK
<1>8. TypeOK'
  BY <1>3, BoundAssumption DEF TypeOK, PC
<1>9. Single' /\ Named' /\ Register' /\ Last' /\ Occupied' /\ Count' /\ Owner'
  BY <1>3, <1>7 DEF Single, Active, Named, Register, Last, Occupied, Count, Owner, TypeOK
<1>10. Unused'
  BY <1>2, <1>3 DEF SegInv, Unused, TypeOK
<1> QED
  BY <1>8, <1>9, <1>10 DEF SegInv

\* A step that leaves the segment alone.
LEMMA StutterKeepsSeg ==
  ASSUME SegInv, UNCHANGED vars
  PROVE  SegInv'
<1>1. /\ named' = named /\ created' = created /\ counter' = counter /\ mutex' = mutex
      /\ seg' = seg /\ pc' = pc /\ reg' = reg
  BY DEF vars
<1>2. TypeOK' /\ Single' /\ Named' /\ Unused'
  BY <1>1 DEF SegInv, TypeOK, Single, Active, Named, Unused
<1>3. Count' /\ Register' /\ Owner' /\ Last' /\ Occupied'
  BY <1>1 DEF SegInv, Count, Counted, Register, Owner, Last, Occupied
<1> QED
  BY <1>2, <1>3 DEF SegInv

\* Every step keeps it.
LEMMA StepKeepsSeg ==
  ASSUME OneAtATime, SegInv, NEW p \in User, Step(p)
  PROVE  SegInv'
BY AttachKeepsSeg, CountReadKeepsSeg, CountWriteKeepsSeg, EnterKeepsSeg,
   DetachKeepsSeg, CountOutKeepsSeg, RemoveKeepsSeg DEF Step

-----------------------------------------------------------------------------
(* What follows for the segment. *)

\* Locks exclude each other, the segment is the one of the name, nothing is left.
LEMMA SegProperties == SegInv => TypeOK /\ Exclusive /\ OneSegment /\ NoneLeft
<1> SUFFICES ASSUME SegInv PROVE TypeOK /\ Exclusive /\ OneSegment /\ NoneLeft
  OBVIOUS
<1>1. Exclusive
  <2> SUFFICES ASSUME NEW p \in User, NEW q \in User, pc[p] = "critical", pc[q] = "critical"
               PROVE  p = q
    BY DEF Exclusive
  <2>1. named # 0
    BY InSegment
  <2> QED
    BY <2>1 DEF SegInv, Owner
<1>2. OneSegment
  BY DEF SegInv, Named, OneSegment
<1>3. NoneLeft
  BY DEF SegInv, Occupied, NoneLeft
<1> QED
  BY <1>1, <1>2, <1>3 DEF SegInv

-----------------------------------------------------------------------------
(* The timestamps. *)

\* The last timestamp of a segment, and that t is not after it.
Stamp(s) == <<last[s].ms, last[s].inc>>
UpTo(t, s) == t = Stamp(s) \/ Before(t, Stamp(s))

\* The segment of those who are in it has its last timestamp; one not yet made
\* has none.
Constructed ==
  /\ DOMAIN last \subseteq 1 .. created
  /\ \A p \in User : pc[p] \in {"in", "critical", "leave", "remove"} => named \in DOMAIN last

\* While the clock is steady, it is not behind what was made from it, ...
NotAhead == \A i \in 1 .. Len(made) : made[i][1] <= now

\* ... no timestamp is after the last of the segment, ...
LastIsLast ==
  named \in DOMAIN last =>
    /\ last[named].ms <= now
    /\ \A i \in 1 .. Len(made) : UpTo(made[i], named)

\* ... and who holds the lock has read the clock since the last was made.
ClockRead ==
  \A p \in User : pc[p] = "critical" =>
    milliseconds[p] <= now /\ last[named].ms <= milliseconds[p]

Ordered == \A i, j \in 1 .. Len(made) : i < j => Before(made[i], made[j])

\* The inductive invariant of Timestamp.
StampInv ==
  /\ SegInv /\ StampTypeOK /\ Constructed
  /\ steady => NotAhead /\ LastIsLast /\ ClockRead /\ Ordered

\* What Append does.
LEMMA AppendStamp ==
  ASSUME NEW s \in Seq(Nat \X Nat), NEW e \in Nat \X Nat
  PROVE  /\ Append(s, e) \in Seq(Nat \X Nat)
         /\ Len(Append(s, e)) = Len(s) + 1 /\ Len(s) \in Nat
         /\ \A i \in 1 .. Len(s) : Append(s, e)[i] = s[i]
         /\ Append(s, e)[Len(s) + 1] = e
OBVIOUS

\* Before is a strict order, also against UpTo.
LEMMA BeforeIrreflexive == ASSUME NEW t \in Nat \X Nat PROVE ~ Before(t, t)
BY DEF Before

\* It holds before anybody attaches: nothing has been made.
LEMMA BeginInv == OneAtATime /\ Begin => StampInv
<1> SUFFICES ASSUME OneAtATime, Begin PROVE StampInv
  OBVIOUS
<1>1. SegInv
  BY InitSeg DEF Begin
<1>2. StampTypeOK
  BY <1>1 DEF Begin, StampTypeOK, SegInv
<1>3. Constructed
  BY DEF Begin, Init, Constructed
<1>4. made = <<>> /\ Len(made) = 0
  BY DEF Begin
<1>5. NotAhead /\ LastIsLast /\ ClockRead /\ Ordered
  BY <1>4 DEF Begin, Init, NotAhead, LastIsLast, ClockRead, Ordered
<1> QED
  BY <1>1, <1>2, <1>3, <1>5 DEF StampInv

\* Attaching and detaching make no timestamp.
LEMMA JoinKeepsStamp ==
  ASSUME OneAtATime, StampInv, NEW p \in User, Join(p) \/ Quit(p)
  PROVE  StampInv'
<1>1. /\ now' = now /\ last' = last /\ milliseconds' = milliseconds
      /\ made' = made /\ stepsBack' = stepsBack /\ steady' = steady
  BY DEF Join, Quit, stampVars
<1>2. SegInv /\ SegInv' /\ TypeOK /\ TypeOK'
  BY StepKeepsSeg DEF StampInv, Join, Quit, Step, SegInv
<1>3. /\ \/ named' = named /\ created' = created
         \/ named' = 0 /\ created' = created
         \/ named' = created + 1 /\ created' = created + 1
      /\ \A q \in User \ {p} : pc'[q] = pc[q]
      /\ pc'[p] \in {"count", "store", "leave", "remove", "out"}
      /\ pc'[p] \in {"leave", "remove"} => pc[p] \in {"in", "leave"} /\ named' = named
  BY <1>2 DEF Join, Quit, Attach, CountRead, Detach, CountOut, CountedOut, Remove, TypeOK
<1>4. StampTypeOK'
  BY <1>1, <1>2 DEF StampInv, StampTypeOK
<1>5. created \in Nat /\ named \in Nat /\ DOMAIN last \subseteq 1 .. created
  BY <1>2 DEF TypeOK, StampInv, Constructed
<1>6. named' \in DOMAIN last' => named' = named
  BY <1>1, <1>3, <1>5
<1>7. \A q \in User : pc'[q] \in {"in", "critical", "leave", "remove"} =>
                        /\ named' = named /\ named \in DOMAIN last
  <2> SUFFICES ASSUME NEW q \in User, pc'[q] \in {"in", "critical", "leave", "remove"}
               PROVE  named' = named /\ named \in DOMAIN last
    OBVIOUS
  <2>1. CASE q = p
    BY <1>3, <2>1 DEF StampInv, Constructed
  <2>2. CASE q # p
    <3>1. named \in DOMAIN last /\ pc'[q] = pc[q] /\ named # 0
      BY <1>2, <1>3, <2>2, InSegment DEF StampInv, Constructed
    <3>2. named' # 0
      BY <1>2, <3>1 DEF SegInv, Named
    <3>3. named' = named
      BY <1>2, <1>3, <3>1, <3>2 DEF Join, Quit, Attach, CountRead, Detach, CountOut, CountedOut, Remove
    <3> QED
      BY <3>1, <3>3
  <2> QED
    BY <2>1, <2>2
<1>8. Constructed'
  BY <1>1, <1>3, <1>5, <1>7 DEF Constructed
<1>9. ASSUME steady PROVE NotAhead' /\ LastIsLast' /\ ClockRead' /\ Ordered'
  <2>1. NotAhead /\ LastIsLast /\ ClockRead /\ Ordered
    BY <1>9 DEF StampInv
  <2>2. NotAhead' /\ Ordered'
    BY <1>1, <2>1 DEF NotAhead, Ordered
  <2>3. LastIsLast'
    BY <1>1, <1>6, <2>1 DEF LastIsLast, UpTo, Stamp
  <2>4. ClockRead'
    BY <1>1, <1>3, <1>7, <2>1 DEF ClockRead
  <2> QED
    BY <2>2, <2>3, <2>4
<1> QED
  BY <1>1, <1>2, <1>4, <1>8, <1>9 DEF StampInv

\* The first to be counted in a segment makes its last timestamp, from the clock.
LEMMA ConstructKeepsStamp ==
  ASSUME OneAtATime, StampInv, NEW p \in User, Construct(p)
  PROVE  StampInv'
<1>1. /\ now' = now /\ milliseconds' = milliseconds /\ made' = made /\ stepsBack' = stepsBack
      /\ named' = named /\ created' = created
      /\ pc[p] = "store" /\ pc' = [pc EXCEPT ![p] = "in"]
  BY DEF Construct, CountWrite
<1>2. SegInv /\ SegInv' /\ TypeOK /\ TypeOK' /\ StampTypeOK
  BY CountWriteKeepsSeg DEF StampInv, Construct, SegInv
<1>3. seg[p] = named /\ named \in Segment /\ named <= created
  BY <1>1, <1>2, InSegment DEF SegInv, Named
<1>4. \/ named \in DOMAIN last /\ last' = last /\ steady' = steady
      \/ /\ named \notin DOMAIN last
         /\ last' = [s \in DOMAIN last \cup {named} |->
                       IF s = named THEN [ms |-> now, inc |-> 0] ELSE last[s]]
         /\ steady' = (steady /\ \A i \in 1 .. Len(made) : made[i][1] < now)
  BY <1>3 DEF Construct
<1>5. now \in Nat /\ created \in Nat /\ named \in 1 .. created
  BY <1>2, <1>3 DEF StampTypeOK, TypeOK, Segment
<1>6. DOMAIN last' = DOMAIN last \cup {named}
  BY <1>4
<1>7. StampTypeOK'
  <2>1. last' \in [DOMAIN last' -> [ms : Nat, inc : Nat]]
    BY <1>2, <1>4, <1>5 DEF StampTypeOK
  <2>2. steady' \in BOOLEAN
    BY <1>2, <1>4 DEF StampTypeOK
  <2> QED
    BY <1>1, <1>2, <1>3, <1>6, <2>1, <2>2 DEF StampTypeOK
<1>8. Constructed'
  BY <1>1, <1>2, <1>5, <1>6 DEF StampInv, Constructed, TypeOK
<1>9. ASSUME steady' PROVE NotAhead' /\ LastIsLast' /\ ClockRead' /\ Ordered'
  <2>1. steady /\ NotAhead /\ LastIsLast /\ ClockRead /\ Ordered
    BY <1>4, <1>9 DEF StampInv
  <2>2. NotAhead' /\ Ordered'
    BY <1>1, <2>1 DEF NotAhead, Ordered
  <2>3. CASE named \in DOMAIN last
    <3>1. LastIsLast' /\ ClockRead'
      BY <1>1, <1>2, <1>4, <2>1, <2>3 DEF LastIsLast, ClockRead, UpTo, Stamp, TypeOK
    <3> QED
      BY <2>2, <3>1
  <2>4. CASE named \notin DOMAIN last
    <3>1. last'[named] = [ms |-> now, inc |-> 0] /\ \A i \in 1 .. Len(made) : made[i][1] < now
      BY <1>4, <1>9, <2>4
    <3>2. LastIsLast'
      BY <1>1, <1>5, <3>1 DEF LastIsLast, UpTo, Stamp, Before
    <3>3. \A q \in User : pc'[q] # "critical"
      BY <1>1, <1>2, <2>4 DEF StampInv, Constructed, TypeOK
    <3> QED
      BY <2>2, <3>2, <3>3 DEF ClockRead
  <2> QED
    BY <2>3, <2>4
<1> QED
  BY <1>2, <1>7, <1>8, <1>9 DEF StampInv

\* The clock is read with the lock: it is not behind the last timestamp.
LEMMA ReadClockKeepsStamp ==
  ASSUME OneAtATime, StampInv, NEW p \in User, ReadClock(p)
  PROVE  StampInv'
<1>1. /\ now' = now /\ last' = last /\ made' = made /\ stepsBack' = stepsBack /\ steady' = steady
      /\ milliseconds' = [milliseconds EXCEPT ![p] = now]
      /\ named' = named /\ created' = created
      /\ pc[p] = "in" /\ pc' = [pc EXCEPT ![p] = "critical"]
  BY DEF ReadClock, Enter
<1>2. SegInv' /\ TypeOK /\ TypeOK' /\ StampTypeOK
  BY EnterKeepsSeg DEF StampInv, ReadClock, SegInv
<1>3. now \in Nat
  BY <1>2 DEF StampTypeOK
<1>4. StampTypeOK'
  BY <1>1, <1>2, <1>3 DEF StampTypeOK
<1>5. Constructed' /\ named \in DOMAIN last
  BY <1>1, <1>2 DEF StampInv, Constructed, TypeOK
<1>6. ASSUME steady PROVE NotAhead' /\ LastIsLast' /\ ClockRead' /\ Ordered'
  <2>1. NotAhead /\ LastIsLast /\ ClockRead /\ Ordered
    BY <1>6 DEF StampInv
  <2>2. NotAhead' /\ Ordered' /\ LastIsLast'
    BY <1>1, <2>1 DEF NotAhead, Ordered, LastIsLast, UpTo, Stamp
  <2>3. last[named].ms <= now
    BY <1>5, <2>1 DEF LastIsLast
  <2>4. ClockRead'
    BY <1>1, <1>2, <1>3, <2>1, <2>3 DEF ClockRead, TypeOK, StampTypeOK
  <2> QED
    BY <2>2, <2>4
<1> QED
  BY <1>1, <1>2, <1>4, <1>5, <1>6 DEF StampInv

\* The timestamp made is after the last, and is the last.
LEMMA IncrementKeepsStamp ==
  ASSUME OneAtATime, StampInv, NEW p \in User, Increment(p)
  PROVE  StampInv'
<1>0. PICK ms, inc, l : ms = milliseconds[p] /\ l = last[named] /\ inc = NextIncrement(ms, l)
  OBVIOUS
<1>1. /\ named' = named /\ created' = created
      /\ pc[p] = "critical" /\ pc' = [pc EXCEPT ![p] = "in"]
  BY DEF Increment, Leave
<1>2. SegInv /\ SegInv' /\ TypeOK /\ TypeOK' /\ StampTypeOK
  BY EnterKeepsSeg DEF StampInv, Increment, SegInv
<1>3. seg[p] = named /\ named # 0
  BY <1>1, <1>2, InSegment
<1>4. /\ last' = [last EXCEPT ![named] = [ms |-> ms, inc |-> inc]]
      /\ made' = Append(made, <<ms, inc>>)
      /\ now' = now /\ milliseconds' = milliseconds /\ stepsBack' = stepsBack /\ steady' = steady
  BY <1>0, <1>3 DEF Increment
<1>5. /\ named \in DOMAIN last /\ l \in [ms : Nat, inc : Nat]
      /\ ms \in Nat /\ now \in Nat
  BY <1>0, <1>1, <1>2 DEF StampInv, Constructed, StampTypeOK
<1>6. inc \in Nat /\ (ms > l.ms => inc = 0) /\ (ms <= l.ms => inc = l.inc + 1)
  BY <1>0, <1>5 DEF NextIncrement
<1>7. \A q \in User \ {p} : pc'[q] = pc[q] /\ pc[q] # "critical"
  BY <1>1, <1>2, <1>3 DEF SegInv, Owner, TypeOK
<1>8. StampTypeOK'
  <2>1. DOMAIN last' = DOMAIN last /\ last' \in [DOMAIN last -> [ms : Nat, inc : Nat]]
    BY <1>2, <1>4, <1>5, <1>6 DEF StampTypeOK
  <2>2. made' \in Seq(Nat \X Nat)
    BY <1>2, <1>4, <1>5, <1>6, AppendStamp DEF StampTypeOK
  <2> QED
    BY <1>2, <1>4, <2>1, <2>2 DEF StampTypeOK
<1>9. Constructed'
  BY <1>1, <1>2, <1>4 DEF StampInv, Constructed, TypeOK, StampTypeOK
<1>10. ASSUME steady PROVE NotAhead' /\ LastIsLast' /\ ClockRead' /\ Ordered'
  <2>1. NotAhead /\ LastIsLast /\ ClockRead /\ Ordered
    BY <1>10 DEF StampInv
  <2>2. l.ms <= ms /\ ms <= now
    BY <1>0, <1>1, <2>1 DEF ClockRead
  <2>3. Before(<<l.ms, l.inc>>, <<ms, inc>>)
    BY <1>5, <1>6, <2>2 DEF Before
  <2>4. \A i \in 1 .. Len(made) : Before(made[i], <<ms, inc>>)
    <3> SUFFICES ASSUME NEW i \in 1 .. Len(made) PROVE Before(made[i], <<ms, inc>>)
      OBVIOUS
    <3>1. made[i] \in Nat \X Nat
      BY <1>2 DEF StampTypeOK
    <3>2. made[i] = <<l.ms, l.inc>> \/ Before(made[i], <<l.ms, l.inc>>)
      BY <1>0, <1>5, <2>1 DEF LastIsLast, UpTo, Stamp
    <3> QED
      BY <1>5, <1>6, <2>3, <3>1, <3>2 DEF Before
  <2>5. /\ Len(made') = Len(made) + 1 /\ Len(made) \in Nat
        /\ \A i \in 1 .. Len(made) : made'[i] = made[i]
        /\ made'[Len(made) + 1] = <<ms, inc>>
    BY <1>2, <1>4, <1>5, <1>6, AppendStamp DEF StampTypeOK
  <2>6. \A i \in 1 .. Len(made') : i \in 1 .. Len(made) \/ i = Len(made) + 1
    BY <2>5
  <2>7. NotAhead'
    BY <1>4, <2>1, <2>2, <2>5, <2>6 DEF NotAhead
  <2>8. LastIsLast'
    <3>1. last'[named] = [ms |-> ms, inc |-> inc]
      BY <1>4, <1>5
    <3> QED
      BY <1>1, <1>4, <2>2, <2>4, <2>5, <2>6, <3>1 DEF LastIsLast, UpTo, Stamp
  <2>9. ClockRead'
    BY <1>1, <1>2, <1>7 DEF ClockRead, TypeOK
  <2>10. Ordered'
    <3> SUFFICES ASSUME NEW i \in 1 .. Len(made'), NEW j \in 1 .. Len(made'), i < j
                 PROVE  Before(made'[i], made'[j])
      BY DEF Ordered
    <3>1. i \in 1 .. Len(made)
      BY <2>5
    <3> QED
      BY <2>1, <2>4, <2>5, <2>6, <3>1 DEF Ordered
  <2> QED
    BY <2>7, <2>8, <2>9, <2>10
<1> QED
  BY <1>2, <1>4, <1>8, <1>9, <1>10 DEF StampInv

\* The clock goes on, or back, and nothing else happens.
LEMMA ClockKeepsStamp ==
  ASSUME StampInv, Tick \/ StepBack \/ UNCHANGED <<vars, stampVars>>
  PROVE  StampInv'
<1>1. /\ UNCHANGED vars /\ last' = last /\ milliseconds' = milliseconds /\ made' = made
      /\ \/ now' = now + 1 /\ stepsBack' = stepsBack /\ steady' = steady
         \/ now > 0 /\ now' = now - 1 /\ stepsBack' = stepsBack + 1 /\ steady' = FALSE
         \/ now' = now /\ stepsBack' = stepsBack /\ steady' = steady
  BY DEF Tick, StepBack, stampVars
<1>2. SegInv' /\ TypeOK' /\ StampTypeOK
  BY <1>1, StutterKeepsSeg DEF StampInv, SegInv
<1>3. named' = named /\ created' = created /\ pc' = pc
  BY <1>1 DEF vars
<1>4. now \in Nat /\ stepsBack \in Nat
  BY <1>2 DEF StampTypeOK
<1>5. now' \in Nat /\ stepsBack' \in Nat /\ steady' \in BOOLEAN
  <2>1. now' \in Nat /\ stepsBack' \in Nat
    BY <1>1, <1>4
  <2>2. steady' \in BOOLEAN
    BY <1>1, <1>2, Zenon DEF StampTypeOK
  <2> QED
    BY <2>1, <2>2
<1>6. StampTypeOK'
  BY <1>1, <1>2, <1>5 DEF StampTypeOK
<1>7. Constructed'
  BY <1>1, <1>3 DEF StampInv, Constructed
<1>8. ASSUME steady' PROVE NotAhead' /\ LastIsLast' /\ ClockRead' /\ Ordered'
  <2>1. NotAhead /\ LastIsLast /\ ClockRead /\ Ordered
    BY <1>1, <1>8 DEF StampInv
  <2>2. now' = now + 1 \/ now' = now
    BY <1>1, <1>8
  <2>3. now' >= now /\ now \in Nat
    BY <1>4, <2>2
  <2>4. \A i \in 1 .. Len(made) : made[i][1] \in Nat
    BY <1>2 DEF StampTypeOK
  <2>5. NotAhead' /\ Ordered'
    BY <1>1, <1>5, <2>1, <2>3, <2>4 DEF NotAhead, Ordered
  <2>6. LastIsLast'
    <3> SUFFICES ASSUME named \in DOMAIN last
                 PROVE  last[named].ms <= now' /\ \A i \in 1 .. Len(made) : UpTo(made[i], named)
      BY <1>1, <1>3 DEF LastIsLast, UpTo, Stamp
    <3>1. last[named].ms \in Nat
      BY <1>2 DEF StampTypeOK
    <3> QED
      BY <1>5, <2>1, <2>3, <3>1 DEF LastIsLast
  <2>7. ClockRead'
    BY <1>1, <1>2, <1>3, <1>5, <2>1, <2>3 DEF ClockRead, StampTypeOK
  <2> QED
    BY <2>5, <2>6, <2>7
<1> QED
  BY <1>2, <1>6, <1>7, <1>8 DEF StampInv

\* Every step keeps the invariant.
LEMMA GoKeepsStamp ==
  ASSUME OneAtATime
  PROVE  StampInv /\ [Go]_<<vars, stampVars>> => StampInv'
<1> SUFFICES ASSUME StampInv, [Go]_<<vars, stampVars>> PROVE StampInv'
  OBVIOUS
<1>1. ASSUME NEW p \in User, Join(p) \/ Construct(p) \/ ReadClock(p) \/ Increment(p) \/ Quit(p)
      PROVE  StampInv'
  BY <1>1, JoinKeepsStamp, ConstructKeepsStamp, ReadClockKeepsStamp, IncrementKeepsStamp
<1>2. CASE Tick \/ StepBack \/ UNCHANGED <<vars, stampVars>>
  BY <1>2, ClockKeepsStamp
<1> QED
  BY <1>1, <1>2 DEF Go

\* Timestamps in order are no duplicates.
LEMMA StampProperties == StampInv => NoDuplicates /\ InOrder
<1> SUFFICES ASSUME StampInv PROVE NoDuplicates /\ InOrder
  OBVIOUS
<1>1. InOrder
  BY DEF StampInv, Ordered, InOrder
<1>2. NoDuplicates
  <2> SUFFICES ASSUME steady, NEW i \in 1 .. Len(made), NEW j \in 1 .. Len(made),
                      made[i] = made[j]
               PROVE  i = j
    BY DEF NoDuplicates
  <2>1. made[i] \in Nat \X Nat /\ Len(made) \in Nat
    BY DEF StampInv, StampTypeOK
  <2>2. ~ (i < j) /\ ~ (j < i)
    BY <1>1, <2>1, BeforeIrreflexive DEF InOrder
  <2> QED
    BY <2>1, <2>2
<1> QED
  BY <1>1, <1>2

-----------------------------------------------------------------------------
(* Theorems. *)

\* The inductive invariant holds in every behaviour in which users attach and
\* detach one at a time.
THEOREM StampInvCorrect ==
  ASSUME OneAtATime
  PROVE  StampSpec => []StampInv
<1>1. Begin => StampInv
  BY BeginInv
<1>2. StampInv /\ [Go]_<<vars, stampVars>> => StampInv'
  BY GoKeepsStamp
<1> QED
  BY <1>1, <1>2, PTL DEF StampSpec

\* Every variable keeps its type: the counter does not wrap around.
THEOREM StampTypeCorrect ==
  ASSUME OneAtATime
  PROVE  StampSpec => []StampTypeOK
<1>1. StampInv => StampTypeOK
  BY DEF StampInv
<1> QED
  BY <1>1, StampInvCorrect, PTL

\* Users of the same name have the same segment, whoever came and went before.
THEOREM SegmentCorrect ==
  ASSUME OneAtATime
  PROVE  StampSpec => []OneSegment
<1>1. StampInv => OneSegment
  BY SegProperties DEF StampInv
<1> QED
  BY <1>1, StampInvCorrect, PTL

\* So no two are in the critical section of ScopedLock.
THEOREM ExclusiveCorrect ==
  ASSUME OneAtATime
  PROVE  StampSpec => []Exclusive
<1>1. StampInv => Exclusive
  BY SegProperties DEF StampInv
<1> QED
  BY <1>1, StampInvCorrect, PTL

\* The last user to leave removes the segment.
THEOREM RemovalCorrect ==
  ASSUME OneAtATime
  PROVE  StampSpec => []NoneLeft
<1>1. StampInv => NoneLeft
  BY SegProperties DEF StampInv
<1> QED
  BY <1>1, StampInvCorrect, PTL

\* While the clock is steady, timestamps come in order, whichever users make
\* them.
THEOREM OrderCorrect ==
  ASSUME OneAtATime
  PROVE  StampSpec => []InOrder
<1>1. StampInv => InOrder
  BY StampProperties
<1> QED
  BY <1>1, StampInvCorrect, PTL

\* So the timestamp of an id is made once.
THEOREM UniqueCorrect ==
  ASSUME OneAtATime
  PROVE  StampSpec => []NoDuplicates
<1>1. StampInv => NoDuplicates
  BY StampProperties
<1> QED
  BY <1>1, StampInvCorrect, PTL
=============================================================================
